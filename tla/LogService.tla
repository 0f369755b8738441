----------------------------- MODULE LogService -----------------------------
(***************************************************************************)
(* The log service (src/src/log/log-service.cpp, log-proxylog.cpp), the    *)
(* VPN client processes attached to it, and the log forwarding and access  *)
(* control of the session objects (src/src/sessionmgr/                     *)
(* sessionmgr-session.cpp).                                                *)
(*                                                                         *)
(* A client process is <<session, n>>: the n-th process that served the    *)
(* session, the later ones being automatic restarts.  It attaches the two  *)
(* interfaces it sends log events on; the pair of process and interface is *)
(* its log tag.  A receiver is a front-end on the bus, named by its user.  *)
(* Log events themselves are left out: who would get one is what counts.   *)
(***************************************************************************)
EXTENDS Naturals, Sequences, FiniteSets, SequencesExt, ObjectACL

CONSTANTS
    Sessions,      \* session paths
    Receivers,     \* front-ends
    Owner,         \* the receiver that starts the sessions
    Grantees,      \* users access is granted to and revoked from
    ProfileOwner,  \* the owner of the profile the sessions are started from
    MaxProcs,      \* client processes of a session
    MaxProxies,    \* ProxyLogEvents objects made
    MaxCalls,      \* LogForward calls between Authorize() and the handler
    None

ASSUME OwnersAssumption == {Owner, ProfileOwner} \cup Grantees \subseteq Receivers
ASSUME ReceiversAssumption == IsFiniteSet(Receivers)
ASSUME MaxProcsAssumption == MaxProcs \in Nat \ {0}
ASSUME MaxProxiesAssumption == MaxProxies \in Nat

Clients == Sessions \X (1..MaxProcs)
Interfaces == {"backends", "sessions"}
Tags == Clients \X Interfaces
ProxyIds == 1..MaxProxies

ASSUME NoneAssumption == None \notin Clients

VARIABLES
    client,    \* how far each client process is
    session,   \* the Session objects
    calls,     \* authorized LogForward calls: <<receiver, session, enable>>
    present,   \* the receivers that are on the bus
    attached,  \* log_attach_subscr: the tags with an AttachedService
    targets,   \* AttachedService::proxies of each tag
    detaching, \* tags whose Detach call found them attached
    index,     \* session_logtag_index
    proxies,   \* every ProxyLogEvents made: its receiver
    exported,  \* the ProxyLogEvents objects in the object manager
    idle       \* the handler does not count for the idle detector

service == <<attached, targets, detaching, index, proxies, exported, idle>>
vars == <<client, session, calls, present, service>>

-----------------------------------------------------------------------------
(* State *)

Life == {"none", "attaching", "attached", "running", "leaving", "dead"}

\* reg: how far the registration of a restarted process is; fresh: the last
\* one got as far as ResetLogForwarders().
Session == [open: BOOLEAN, be: Clients \cup {None}, access: ACLRecord(Receivers), restrict_log_access: BOOLEAN,
            log_forwarders: [Receivers -> ProxyIds \cup {None}], reg: {"none", "confirmed", "ready"}, fresh: BOOLEAN]

NewSession(be) ==
    [open |-> TRUE, be |-> be, access |-> Create(Owner), restrict_log_access |-> TRUE,
     log_forwarders |-> [r \in Receivers |-> None], reg |-> "none", fresh |-> TRUE]

\* The object is gone; what it held goes with it.
NoSession == [NewSession(None) EXCEPT !.open = FALSE]

\* MoveToOwner(): the user that started the session stays in the access list.
MoveToOwner(s, from, to) ==
    [s EXCEPT !.access = GrantAccess(TransferOwnership(@, to), from), !.restrict_log_access = FALSE]

Alive(c) == c # None /\ client[c] \in {"attaching", "attached", "running", "leaving"}

Init ==
    /\ client = [c \in Clients |-> "none"]
    /\ session = [s \in Sessions |-> NoSession]
    /\ calls = {}
    /\ present = Receivers
    /\ attached = {}
    /\ targets = [t \in Tags |-> {}]
    /\ detaching = {}
    /\ index = [s \in Sessions |-> None]
    /\ proxies = <<>>
    /\ exported = {}
    /\ idle = TRUE

-----------------------------------------------------------------------------
(* Subscriptions of the log service.  The operators give what is left once *)
(* the tags in gone are removed.                                           *)

IdleAfter(gone) == IF gone # {} /\ attached \subseteq gone THEN TRUE ELSE idle

IndexWithout(gone) == [s \in Sessions |-> IF <<index[s], "backends">> \in gone THEN None ELSE index[s]]

TargetsWithout(gone) == [t \in Tags |-> IF t \in gone THEN {} ELSE targets[t]]

\* remove_log_subscription(): the ProxyLogEvents objects stay exported.
remove_log_subscription(gone) ==
    /\ attached' = attached \ gone
    /\ index' = IndexWithout(gone)
    /\ targets' = TargetsWithout(gone)
    /\ idle' = IdleAfter(gone)

\* Mutant: the outcome of the look-up is read the wrong way round.
DanglingWhenAlive == {t \in attached : Alive(t[1])}

\* cleanup_service_subscriptions(): the tags whose bus name has no owner.
Dangling == {t \in attached : ~Alive(t[1])}

\* Attach, of a process that is on the bus.
method_attach(t) ==
    /\ t \notin attached
    /\ attached' = (attached \ Dangling) \cup {t}
    /\ index' = IndexWithout(Dangling)
    /\ targets' = TargetsWithout(Dangling)
    /\ idle' = FALSE
    /\ UNCHANGED <<detaching, proxies, exported>>

method_get_subscr_list ==
    /\ Dangling # {}
    /\ remove_log_subscription(Dangling)
    /\ UNCHANGED <<client, session, calls, present, detaching, proxies, exported>>

\* AssignSession dereferences the entry of the tag without looking if the tag
\* is attached; RunningIsAssigned shows that it is.
method_assign_session(c) ==
    /\ index' = [index EXCEPT ![c[1]] = c]
    /\ UNCHANGED <<attached, targets, detaching, proxies, exported, idle>>

\* Detach: access and presence are checked, the lock is taken for the removal.
DetachFind(c, i) ==
    /\ client[c] = "leaving"
    /\ <<c, i>> \in attached \ detaching
    /\ detaching' = detaching \cup {<<c, i>>}
    /\ remove_log_subscription(Dangling)
    /\ UNCHANGED <<client, session, calls, present, proxies, exported>>

\* The removal; the caller may be gone and cleaned up by then.
DetachRemove(t) ==
    /\ t \in detaching
    /\ detaching' = detaching \ {t}
    /\ remove_log_subscription({t} \cap attached)
    /\ UNCHANGED <<client, session, calls, present, proxies, exported>>

\* ProxyLogEvents(receiver, session) works if the index names an attached
\* service and the receiver is on the bus.
CanProxy(r, s) == r \in present /\ index[s] # None /\ <<index[s], "backends">> \in attached

\* AddProxyTarget() for each receiver in rs; the objects in old have been
\* Removed before, which takes them off the bus.  The AttachedService of the
\* session's client keeps every object it was given.
NewId(r, rs) == Len(proxies) + CHOOSE i \in 1..Cardinality(rs) : SetToSeq(rs)[i] = r

AddProxyTarget(s, rs, old) ==
    LET new == {NewId(r, rs) : r \in rs} IN
    /\ Len(proxies) + Cardinality(rs) <= MaxProxies
    /\ proxies' = proxies \o SetToSeq(rs)
    /\ exported' = (exported \ old) \cup new
    /\ targets' = [t \in Tags |-> IF t = <<index[s], "backends">> THEN targets[t] \cup new ELSE targets[t]]
    /\ UNCHANGED <<attached, detaching, index, idle>>

\* Remove() of some ProxyLogEvents objects.
RemoveProxies(ids) == exported' = exported \ ids /\ UNCHANGED <<attached, targets, detaching, index, proxies, idle>>

-----------------------------------------------------------------------------
(* Client processes *)

\* A process is started for a new session, or after the one before it died.
Start(c) ==
    /\ client[c] = "none"
    /\ c[2] > 1 => client[<<c[1], c[2] - 1>>] = "dead"
    /\ client' = [client EXCEPT ![c] = "attaching"]
    /\ method_attach(<<c, "backends">>)
    /\ UNCHANGED <<session, calls, present>>

AttachSessions(c) ==
    /\ client[c] = "attaching"
    /\ client' = [client EXCEPT ![c] = "attached"]
    /\ method_attach(<<c, "sessions">>)
    /\ UNCHANGED <<session, calls, present>>

\* RegistrationConfirmation.  The session object is made before it, unless
\* the session is there already.
Confirm(c, transfer) ==
    LET s == c[1] IN
    /\ client[c] = "attached"
    /\ client' = [client EXCEPT ![c] = "running"]
    /\ session[s].open => ~transfer
    /\ session' = [session EXCEPT ![s] =
                    IF @.open THEN [@ EXCEPT !.reg = "confirmed", !.fresh = FALSE]
                    ELSE IF transfer THEN MoveToOwner(NewSession(c), Owner, ProfileOwner) ELSE NewSession(c)]
    /\ method_assign_session(c)
    /\ UNCHANGED <<calls, present>>

\* The client cannot be set up: it is told to shut down and the session object
\* is dropped with its forwarders, which are not removed.
ConfirmFails(c) ==
    /\ client[c] = "attached"
    /\ client' = [client EXCEPT ![c] = "leaving"]
    /\ session' = [session EXCEPT ![c[1]] = NoSession]
    /\ calls' = {x \in calls : x[2] # c[1]}
    /\ method_assign_session(c)
    /\ UNCHANGED present

\* An orderly exit detaches first.
Leave(c) ==
    /\ client[c] = "running"
    /\ client' = [client EXCEPT ![c] = "leaving"]
    /\ UNCHANGED <<session, calls, present, service>>

Exit(c) ==
    /\ Alive(c)
    /\ client' = [client EXCEPT ![c] = "dead"]
    /\ UNCHANGED <<session, calls, present, service>>

ReceiverExits(r) ==
    /\ r \in present
    /\ present' = present \ {r}
    /\ calls' = {x \in calls : x[1] # r}
    /\ UNCHANGED <<client, session, service>>

-----------------------------------------------------------------------------
(* Session objects *)

\* ResetBackend() and Ready(); when Ready() throws the rest is left out.
ResetBackend(c, ready) ==
    LET s == c[1] IN
    /\ session[s].open
    /\ session[s].reg = "confirmed"
    /\ index[s] = c
    /\ ready => Alive(c)
    /\ session' = [session EXCEPT ![s].be = c, ![s].reg = IF ready THEN "ready" ELSE "none"]
    /\ UNCHANGED <<client, calls, present, service>>

\* Mutant: the new forwarders are not asked for.
ResetLogForwardersRemoveOnly(s) ==
    LET old == {session[s].log_forwarders[r] : r \in Receivers} IN
    /\ session[s].reg = "ready"
    /\ session' = [session EXCEPT ![s].reg = "none", ![s].fresh = TRUE]
    /\ RemoveProxies(old)
    /\ UNCHANGED <<client, calls, present>>

\* ResetLogForwarders(): a receiver that is gone is passed over; an error of
\* the log service leaves the old forwarder in the table.
ResetLogForwarders(s) ==
    LET there == {r \in present : session[s].log_forwarders[r] # None}
        new == {r \in there : CanProxy(r, s)} IN
    /\ session[s].reg = "ready"
    /\ AddProxyTarget(s, new, {session[s].log_forwarders[r] : r \in there})
    /\ session' = [session EXCEPT ![s].reg = "none", ![s].fresh = TRUE, ![s].log_forwarders =
                    [r \in Receivers |-> IF r \in new THEN NewId(r, new) ELSE session[s].log_forwarders[r]]]
    /\ UNCHANGED <<client, calls, present>>

\* close_session(), and the effect of Authorize() when the client does not
\* answer: the forwarders are removed and the object goes.
Close(s) ==
    /\ session' = [session EXCEPT ![s] = NoSession]
    /\ calls' = {x \in calls : x[2] # s}
    /\ RemoveProxies({session[s].log_forwarders[r] : r \in Receivers})

\* Authorize(): a session whose client does not answer is closed on the spot.
Responds(s) == Alive(session[s].be)

Refused(r, s) ==
    /\ r \in present
    /\ session[s].open
    /\ ~Responds(s)
    /\ Close(s)
    /\ UNCHANGED <<client, present>>

MayCall(r, s) == r \in present /\ session[s].open /\ Responds(s)
IsOwner(r, s) == MayCall(r, s) /\ CheckOwnerAccess(session[s].access, r)
HasAccess(r, s, ignorePublic) ==
    MayCall(r, s) /\ CheckACL(session[s].access, r, {session[s].access.owner}, ignorePublic)

AuthorizeLogForward(r, s, enable) ==
    /\ HasAccess(r, s, FALSE)
    /\ session[s].restrict_log_access => IsOwner(r, s)
    /\ Cardinality(calls) < MaxCalls
    /\ calls' = calls \cup {<<r, s, enable>>}
    /\ UNCHANGED <<client, session, present, service>>

\* LogForward(true): the forwarder the table had is overwritten, not removed.
method_log_forward_enable(r, s) ==
    /\ <<r, s, TRUE>> \in calls
    /\ calls' = calls \ {<<r, s, TRUE>>}
    /\ \/ /\ CanProxy(r, s)
          /\ AddProxyTarget(s, {r}, {})
          /\ session' = [session EXCEPT ![s].log_forwarders[r] = NewId(r, {r})]
       \/ ~CanProxy(r, s) /\ UNCHANGED <<session, service>>
    /\ UNCHANGED <<client, present>>

\* LogForward(false); without a forwarder it is only logged.
method_log_forward_disable(r, s) ==
    /\ <<r, s, FALSE>> \in calls
    /\ calls' = calls \ {<<r, s, FALSE>>}
    /\ RemoveProxies({session[s].log_forwarders[r]})
    /\ session' = [session EXCEPT ![s].log_forwarders[r] = None]
    /\ UNCHANGED <<client, present>>

Changed(s, value) == session' = [session EXCEPT ![s] = value] /\ UNCHANGED <<client, calls, present, service>>

method_access_grant(r, s, u) ==
    /\ IsOwner(r, s)
    /\ CanGrant(session[s].access, u)
    /\ Changed(s, [session[s] EXCEPT !.access = GrantAccess(@, u)])

method_access_revoke(r, s, u) ==
    /\ IsOwner(r, s)
    /\ CanRevoke(session[s].access, u)
    /\ Changed(s, [session[s] EXCEPT !.access = RevokeAccess(@, u)])

SetRestrictLogAccess(r, s, value) ==
    /\ IsOwner(r, s)
    /\ session[s].restrict_log_access # value
    /\ Changed(s, [session[s] EXCEPT !.restrict_log_access = value])

SetPublic(r, s, value) ==
    /\ IsOwner(r, s)
    /\ session[s].access.public # value
    /\ Changed(s, [session[s] EXCEPT !.access = SetPublicAccess(@, value)])

Disconnect(r, s) ==
    /\ HasAccess(r, s, FALSE)
    /\ Close(s)
    /\ client' = [client EXCEPT ![session[s].be] = "leaving"]
    /\ UNCHANGED present

Next ==
    \/ \E c \in Clients :
        \/ Start(c) \/ AttachSessions(c) \/ ConfirmFails(c) \/ Leave(c) \/ Exit(c)
        \/ \E b \in BOOLEAN : Confirm(c, b) \/ ResetBackend(c, b)
        \/ \E i \in Interfaces : DetachFind(c, i) \/ DetachRemove(<<c, i>>)
    \/ method_get_subscr_list
    \/ \E s \in Sessions : ResetLogForwarders(s)
    \/ \E r \in Receivers : ReceiverExits(r)
    \/ \E r \in Receivers, s \in Sessions :
        \/ Refused(r, s) \/ method_log_forward_enable(r, s) \/ method_log_forward_disable(r, s) \/ Disconnect(r, s)
        \/ \E b \in BOOLEAN : AuthorizeLogForward(r, s, b) \/ SetRestrictLogAccess(r, s, b) \/ SetPublic(r, s, b)
        \/ \E u \in Grantees : method_access_grant(r, s, u) \/ method_access_revoke(r, s, u)

Spec == Init /\ [][Next]_vars

-----------------------------------------------------------------------------
(* Properties *)

\* Who gets the log events of a session's client.
Receives(r, s) ==
    LET t == <<session[s].be, "backends">> IN
    t \in attached /\ \E i \in targets[t] : proxies[i] = r

TypeOK ==
    /\ client \in [Clients -> Life]
    /\ session \in [Sessions -> Session]
    /\ calls \subseteq Receivers \X Sessions \X BOOLEAN
    /\ present \subseteq Receivers
    /\ attached \subseteq Tags /\ detaching \subseteq Tags
    /\ targets \in [Tags -> SUBSET ProxyIds]
    /\ \A t \in Tags : t \notin attached => targets[t] = {}
    /\ index \in [Sessions -> Clients \cup {None}]
    /\ proxies \in Seq(Receivers)
    /\ exported \subseteq 1..Len(proxies)
    /\ idle \in BOOLEAN

\* While a session's client is there and registered, its log events can be
\* forwarded, and the log service does not exit under it: the clean-up after
\* an earlier process of the session, whenever it runs, leaves the entries of
\* the present one alone (remove_log_subscription(), method_attach(),
\* method_assign_session(), which dereferences the entry unchecked).
RunningIsAssigned ==
    /\ \A c \in Clients : client[c] = "running" => index[c[1]] = c /\ <<c, "backends">> \in attached
    /\ idle <=> attached = {}

\* A receiver the session lists as a forwarder gets the log events of the
\* client that serves the session now, restarted or not
\* (method_log_forward(), ResetLogForwarders()).
ListedReceives ==
    \A s \in Sessions : session[s].open /\ session[s].reg = "none" /\ session[s].fresh /\ Alive(session[s].be)
                            /\ client[session[s].be] = "running" =>
        \A r \in present : session[s].log_forwarders[r] # None => Receives(r, s)
=============================================================================
