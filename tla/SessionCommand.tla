--------------------------- MODULE SessionCommand ---------------------------
(***************************************************************************)
(* The commands that look at sessions and share them with other users:     *)
(* session-acl, session-stats and sessions-list                            *)
(* (src/src/ovpn3cli/commands/session/), and the word completion of the    *)
(* shell (src/src/ovpn3cli/arghelpers.cpp).  They use the look-ups and the *)
(* object properties of the session manager                                *)
(* (src/src/sessionmgr/sessionmgr-service.cpp, sessionmgr-session.cpp)     *)
(* through src/src/sessionmgr/proxy-sessionmgr.hpp.                        *)
(*                                                                         *)
(* One call is one step; commands interleave between their calls, and the  *)
(* VPN clients behind the sessions may die at any time.  A session whose   *)
(* client is dead stays listed until somebody asks it something.           *)
(***************************************************************************)
EXTENDS Naturals, FiniteSets, SequencesExt

CONSTANTS
    Root, OpenVPN, None,
    Owner,         \* the user who has started the sessions
    People,        \* users who enter commands, Owner among them
    Paths,         \* session paths
    Names,         \* configuration names the sessions were started with
    Fronts,        \* the processes
    Lines          \* the command lines: [cmd, by, name, device, path, ops, show]

VARIABLES
    sess,   \* the session objects
    cmd,    \* the command each process runs
    ever    \* for each session, the users that have ever been given access

vars == <<sess, cmd, ever>>

ACL == INSTANCE ObjectACL

\* A device has the path of its session for a name once the client is connected.
Session(name) ==
    [acl |-> ACL!Create(Owner), restrict |-> TRUE, name |-> name, device |-> None, alive |-> TRUE]

live == {s \in Paths : sess[s] # None}

-----------------------------------------------------------------------------
(* The session manager. *)

\* SrvHandler::helper_retrieve_sessions(); Session::CheckACL() heeds public_access.
helper_retrieve_sessions(uid) ==
    {s \in live : ACL!CheckACL(sess[s].acl, uid, {sess[s].acl.owner}, FALSE)}

\* Session::GetDeviceName(): a client that does not answer has no device.
GetDeviceName(s) == IF sess[s].alive THEN sess[s].device ELSE None

method_fetch_avail_sessions(uid) == helper_retrieve_sessions(uid)
method_fetch_managed_interf(uid) == {GetDeviceName(s) : s \in helper_retrieve_sessions(uid)}
method_lookup_config(uid, name) == {s \in helper_retrieve_sessions(uid) : sess[s].name = name}
\* An exception unless exactly one session has the device.
method_lookup_interf(uid, device) == {s \in helper_retrieve_sessions(uid) : GetDeviceName(s) = device}

\* Properties the session object asks its client for; the others it answers itself.
ClientProperties == {"device_name", "statistics"}

MutantAllowed(r, uid, o) == \* Mutant: who reads a property is not checked
    o[1] = "get" \/ ACL!CheckOwnerAccess(r.acl, uid)

\* The second half of Session::Authorize().
Allowed(r, uid, o) ==
    IF o[1] = "get" THEN ACL!CheckACL(r.acl, uid, {Root, r.acl.owner, OpenVPN}, TRUE)
    ELSE ACL!CheckOwnerAccess(r.acl, uid)

\* The first half of Session::Authorize(): whoever calls, whatever is asked, a client
\* that does not answer Ping has its session closed.
Closed(s, uid, o) == ~sess[s].alive

\* Conditions of method_access_grant() and method_access_revoke().
Accepts(r, o) ==
    /\ o[1] = "grant" => ACL!CanGrant(r.acl, o[2])
    /\ o[1] = "revoke" => ACL!CanRevoke(r.acl, o[2])

Effect(r, o) ==
    [r EXCEPT !.acl = IF o[1] = "grant" THEN ACL!GrantAccess(@, o[2])
                      ELSE IF o[1] = "revoke" THEN ACL!RevokeAccess(@, o[2])
                      ELSE IF o[1] = "public" THEN ACL!SetPublicAccess(@, o[2]) ELSE @,
              !.restrict = IF o[1] = "log" THEN ~o[2] ELSE @]

Answers(s, uid, o) ==
    /\ s \in live /\ ~Closed(s, uid, o) /\ Allowed(sess[s], uid, o)
    /\ o[1] = "get" /\ o[2] \in ClientProperties => sess[s].alive
    /\ Accepts(sess[s], o)

\* Who is meant to have access to a session: those it was granted to, and everybody
\* while it is public.
Sharers(r) == r.acl.acl \cup (IF r.acl.public THEN People ELSE {})

\* What a call does to the session; close_session(true) removes the object.
Call(s, uid, o) ==
    /\ sess' = [sess EXCEPT ![s] =
         IF s \in live /\ Closed(s, uid, o) THEN None
         ELSE IF Answers(s, uid, o) THEN Effect(@, o) ELSE @]
    /\ ever' = IF s \in live /\ ~Closed(s, uid, o)
               THEN [ever EXCEPT ![s] = @ \cup Sharers(sess'[s])] ELSE ever

-----------------------------------------------------------------------------
(* The VPN clients behind the sessions: they connect, reconnect and die. *)

DeviceUp(s) ==
    /\ s \in live /\ sess[s].alive /\ sess[s].device = None
    /\ sess' = [sess EXCEPT ![s].device = s]
    /\ UNCHANGED <<cmd, ever>>

ClientDies(s) ==
    /\ s \in live /\ sess[s].alive
    /\ sess' = [sess EXCEPT ![s].alive = FALSE]
    /\ UNCHANGED <<cmd, ever>>

-----------------------------------------------------------------------------
(* Processes. *)

\* The order in which cmd_session_acl() looks at its options.
Ordered(ops) ==
    LET Of(kind) == SetToSeq({o \in ops : o[1] = kind})
    IN  Of("grant") \o Of("revoke") \o Of("public") \o Of("log")

\* What --show reads.  public_access is read again, and the list of users only if it is off.
Show == <<<<"get", "owner">>, <<"get", "public_access">>, <<"get", "restrict_log_access">>, <<"get", "public_again">>>>
ThenShow(s, o) == IF o[1] = "get" /\ o[2] = "public_again" /\ ~sess[s].acl.public THEN <<<<"get", "acl">>>> ELSE <<>>

\* What session-stats reads.
Statistics == <<<<"get", "statistics">>>>

\* What sessions-list reads of each session, each in a try block of its own: the profile,
\* the time and the owner come from the session, device and server from the client.
Columns == <<"config", "device_name", "status">>

Command(uid, line) ==
    [user |-> uid, line |-> line, stage |-> "start", path |-> None, ops |-> <<>>, todo |-> <<>>,
     done |-> {}, waived |-> {}, code |-> 0, list |-> {}, left |-> {},
     shown |-> {}, out |-> "none"]

Running(f, stage) == cmd[f].stage = stage
Now(f, c) == cmd' = [cmd EXCEPT ![f] = c]
Quietly == UNCHANGED <<sess, ever>>

Ended(c, out) == [c EXCEPT !.stage = "end", !.out = out, !.todo = <<>>]
Opened(c, s) == [c EXCEPT !.stage = "open", !.path = s]

\* Exactly one session, or an error message.
Single(c, paths) ==
    IF Cardinality(paths) = 1 THEN Opened(c, CHOOSE s \in paths : TRUE) ELSE Ended(c, "error")

LookupConfigName(f) ==
    LET c == cmd[f] IN
    /\ Running(f, "start") /\ c.line.by = "name"
    /\ Now(f, Single(c, method_lookup_config(c.user, c.line.name)))
    /\ Quietly

LookupInterface(f) ==
    LET c == cmd[f] IN
    /\ Running(f, "start") /\ c.line.by = "interface"
    /\ Now(f, Single(c, method_lookup_interf(c.user, c.line.device)))
    /\ Quietly

Retrieve(f) ==
    /\ Running(f, "start") /\ cmd[f].line.by = "path"
    /\ Now(f, Opened(cmd[f], cmd[f].line.path))
    /\ Quietly

\* session-acl checks that the object is there; session-stats goes straight on.
CheckSessionExists(f) ==
    LET c == cmd[f]
        ops == IF c.line.cmd = "session-stats" THEN Statistics
               ELSE Ordered(c.line.ops) \o (IF c.line.show THEN Show ELSE <<>>)
    IN
    /\ Running(f, "open")
    /\ Now(f, IF c.line.cmd = "session-stats" \/ c.path \in live
              THEN [c EXCEPT !.stage = "run", !.ops = ops, !.todo = ops] ELSE Ended(c, "error"))
    /\ Quietly

\* A failed grant or revocation is reported and the command goes on.
Tolerated(o) == o[1] \in {"grant", "revoke"}

\* An operation of session-acl or session-stats.  None stands for a user that does not
\* exist, who is reported without a call, and for a bad argument of --public-access.
Operation(f) ==
    LET c == cmd[f]
        o == Head(c.todo)
        then == ThenShow(c.path, o)
    IN
    /\ Running(f, "run") /\ c.todo # <<>> /\ o[2] # None
    /\ Call(c.path, c.user, o)
    /\ Now(f, IF Answers(c.path, c.user, o)
              THEN [c EXCEPT !.done = @ \cup {o}, !.ops = @ \o then, !.todo = Tail(@) \o then,
                             !.shown = IF o[1] = "get" THEN @ \cup {c.path} ELSE @]
              ELSE IF Tolerated(o) THEN [c EXCEPT !.todo = Tail(@), !.waived = @ \cup {o}, !.code = 3]
              ELSE Ended(c, "error"))

BadArgument(f) ==
    LET c == cmd[f]
        o == Head(c.todo)
    IN
    /\ Running(f, "run") /\ c.todo # <<>> /\ o[2] = None
    /\ Now(f, [c EXCEPT !.todo = Tail(@), !.waived = @ \cup {o},
                        !.code = IF o[1] = "public" THEN 3 ELSE @])
    /\ Quietly

Finish(f) ==
    LET c == cmd[f] IN
    /\ Running(f, "run") /\ c.todo = <<>>
    /\ Now(f, Ended(c, IF c.code = 3 THEN "partial" ELSE "ok"))
    /\ Quietly

-----------------------------------------------------------------------------
(* sessions-list and word completion. *)

FetchAvailableSessionPaths(f) ==
    LET c == cmd[f]
        paths == method_fetch_avail_sessions(c.user)
    IN
    /\ Running(f, "start") /\ c.line.by \in {"list", "names"}
    /\ Now(f, [c EXCEPT !.stage = "list", !.list = paths, !.left = paths,
                        !.todo = IF c.line.by = "list" THEN Columns ELSE <<"config">>])
    /\ Quietly

\* An accessor of the proxy: a value, or an exception.
GetProperty(s, uid, p) == Answers(s, uid, <<"get", p>>)

\* arghelper_config_names_sessions() has no try block.
GivesUp(c, got) == c.line.by = "names" /\ ~got

\* The next property of a session; one that cannot be read is "(not available)".
ReadColumn(f) ==
    LET c == cmd[f]
        s == CHOOSE p \in c.left : TRUE
        got == GetProperty(s, c.user, Head(c.todo))
    IN
    /\ Running(f, "list") /\ c.left # {}
    /\ Call(s, c.user, <<"get", Head(c.todo)>>)
    /\ Now(f, IF GivesUp(c, got) THEN Ended(c, "error")
              ELSE [c EXCEPT !.shown = IF got THEN @ \cup {s} ELSE @,
                             !.left = IF Len(c.todo) = 1 THEN @ \ {s} ELSE @,
                             !.todo = IF Len(c.todo) > 1 THEN Tail(@)
                                      ELSE IF c.line.by = "list" THEN Columns ELSE @])

ListEnds(f) ==
    /\ Running(f, "list") /\ cmd[f].left = {}
    /\ Now(f, Ended(cmd[f], "ok"))
    /\ Quietly

\* arghelper_managed_interfaces(): the empty names are left out.
FetchManagedInterfaces(f) ==
    LET c == cmd[f] IN
    /\ Running(f, "start") /\ c.line.by = "interfaces"
    /\ Now(f, [Ended(c, "ok") EXCEPT !.list = method_fetch_managed_interf(c.user) \ {None}])
    /\ Quietly

-----------------------------------------------------------------------------
\* The owner has just started the sessions.
Init ==
    /\ \E name \in [Paths -> Names] : sess = [s \in Paths |-> Session(name[s])]
    /\ \E uid \in [Fronts -> People], line \in [Fronts -> Lines] :
        cmd = [f \in Fronts |-> Command(uid[f], line[f])]
    /\ ever = [s \in Paths |-> {}]

Step(f) ==
    \/ LookupConfigName(f) \/ LookupInterface(f) \/ Retrieve(f) \/ CheckSessionExists(f)
    \/ Operation(f) \/ BadArgument(f) \/ Finish(f)
    \/ FetchAvailableSessionPaths(f) \/ ReadColumn(f) \/ ListEnds(f) \/ FetchManagedInterfaces(f)

Next == \/ \E f \in Fronts : Step(f)
        \/ \E s \in Paths : DeviceUp(s) \/ ClientDies(s)

Spec == Init /\ [][Next]_vars

-----------------------------------------------------------------------------
(* A session-acl that ends without an error has carried out every option but *)
(* those with a bad argument, and the failures it reports with exit code 3;  *)
(* one that fails has stopped at the first option that is not a grant or a   *)
(* revocation, whatever became of the session meanwhile.                     *)
AclDone(c) ==
    /\ c.out \in {"ok", "partial"} => Range(c.ops) = c.done \cup c.waived
    /\ c.out = "ok" => \A o \in c.waived : o[2] = None
    /\ \A o \in c.waived : o[2] = None \/ o[1] \in {"grant", "revoke"}
    /\ c.out = "error" /\ c.ops # <<>> =>
        \E n \in 0..(Len(c.ops) - 1) : c.done \cup c.waived = {c.ops[i] : i \in 1..n}

\* What an operation that was answered is for has happened to the session.
Took(o, s) == /\ o[1] = "grant" => o[2] \in ever[s]
              /\ o = <<"public", TRUE>> => People \subseteq ever[s]

(* SHARED AS ASKED: a session-acl tells what it has done, and what it has    *)
(* done took effect, on the session it looked up at the start; and the       *)
(* properties of a session are shown only to its owner, to root and the      *)
(* openvpn user, to users that have been granted access and, if the session  *)
(* has been public, to others (cmd_session_acl, Session::Authorize).  What   *)
(* public_access should show is described in two ways: Authorize() refuses   *)
(* to read a property because of it, which is within what is stated here.    *)
SharedAsAsked ==
    \A f \in Fronts : LET c == cmd[f] IN
        /\ c.line.cmd = "session-acl" => AclDone(c)
        /\ \A o \in c.done : Took(o, c.path)
        /\ \A s \in c.shown : c.user \in {Owner, Root, OpenVPN} \cup ever[s]
=============================================================================
