--------------------------- MODULE ConfigCommand ---------------------------
(***************************************************************************)
(* The commands of the command line program that work on configuration     *)
(* profiles (src/src/ovpn3cli/commands/config/, and the first half of      *)
(* session-start) through the proxy src/src/configmgr/proxy-configmgr.hpp. *)
(*                                                                         *)
(* A command is one process: it finds its profile, then makes one call to  *)
(* the configuration manager after the other, in an order of its own and   *)
(* not that of the command line.  Commands of several users interleave     *)
(* between the calls.  The manager is seen through the pure operators of   *)
(* ConfigManager: a call is one step here, taken apart there.              *)
(***************************************************************************)
EXTENDS Naturals, FiniteSets, SequencesExt

CONSTANTS
    Users, Root, OpenVPN, Paths, Keys, Tags, Contents, None,  \* as in ConfigManager
    Owner,         \* the user who owns the profile
    People,        \* users who enter commands, Owner among them
    Fronts,        \* the processes
    Lines          \* the command lines users may enter: [cmd, by, name, path, ops, show, force]

VARIABLES
    live,   \* profiles exported on the bus
    mem,    \* the profile objects
    cmd     \* the command each process runs

vars == <<live, mem, cmd>>

Manager == INSTANCE ConfigManager WITH
    Workers <- {}, Broken <- {None}, StateDir <- TRUE, MaxCalls <- 1, up <- TRUE,
    file <- mem, call <- <<>>, calls <- 0, overlap <- {}, sealed <- {}, removed <- {}

ACL == INSTANCE ObjectACL

-----------------------------------------------------------------------------
(* Operations: pairs of a name and an argument. *)

Listing == {"configs-list", "complete"}

Of(line, kind) == SetToSeq({o \in line.ops : o[1] = kind})

\* The order in which cmd_config_manage() looks at its options.
ManageOps(line) ==
    Of(line, "rename") \o Of(line, "untag") \o Of(line, "tag")
    \o Of(line, "dco") \o Of(line, "set") \o Of(line, "unset")

AclOps(line) ==
    Of(line, "grant") \o Of(line, "revoke") \o Of(line, "transfer")
    \o Of(line, "lock") \o Of(line, "public") \o Of(line, "seal")

\* import_config() sets the overrides before the tags, session-start after the validation.
Ordered(line) ==
    IF line.cmd = "config-manage" THEN ManageOps(line)
    ELSE IF line.cmd = "config-acl" THEN AclOps(line)
    ELSE IF line.cmd = "config-import" THEN Of(line, "set") \o Of(line, "tag")
    ELSE Of(line, "validate") \o Of(line, "set") \o Of(line, "remove") \o Of(line, "fetch") \o Of(line, "read")

\* The operations the options of a command stand for.
Options(c) ==
    IF c = "config-manage" THEN {"rename", "untag", "tag", "dco", "set", "unset"}
    ELSE IF c = "config-acl" THEN {"grant", "revoke", "transfer", "lock", "public", "seal"}
    ELSE IF c = "config-import" THEN {"set", "tag"}
    ELSE IF c \in Listing THEN {} ELSE {"validate", "set", "remove", "fetch", "read"}

\* The command lines the programs' parsers let through.
WellFormed ==
    /\ Paths # {} /\ \A keys \in SUBSET Keys : keys # None
    /\ \A l \in Lines : IsFiniteSet(l.ops) /\ \A o \in l.ops : o[1] \in Options(l.cmd)

\* What the manager is asked for, in terms of its Authorize().
Method == [rename |-> "name", untag |-> "RemoveTag", tag |-> "AddTag", dco |-> "dco",
           set |-> "SetOverride", unset |-> "UnsetOverride", grant |-> "AccessGrant",
           revoke |-> "AccessRevoke", transfer |-> "transfer_owner_session",
           lock |-> "locked_down", public |-> "public_access", seal |-> "Seal",
           validate |-> "Validate", remove |-> "Remove", fetch |-> "FetchJSON"]

\* Conditions of the handlers.
Accepts(r, o) ==
    /\ o[1] = "tag" => o[2] \notin r.tags
    /\ o[1] = "untag" => o[2] \in r.tags
    /\ o[1] = "set" => o[2] \in Keys
    /\ o[1] = "unset" => o[2] \in r.overrides
    /\ o[1] = "grant" => o[2] # None /\ ACL!CanGrant(r.acl, o[2])
    /\ o[1] = "revoke" => o[2] # None /\ ACL!CanRevoke(r.acl, o[2])
    /\ o[1] \in {"seal", "validate"} => r.valid

Effect(r, o) ==
    [r EXCEPT !.name = IF o[1] = "rename" THEN o[2] ELSE @,
              !.tags = IF o[1] = "tag" THEN @ \cup {o[2]} ELSE IF o[1] = "untag" THEN @ \ {o[2]} ELSE @,
              !.dco = IF o[1] = "dco" THEN o[2] ELSE @,
              !.overrides = IF o[1] = "set" THEN @ \cup {o[2]} ELSE IF o[1] = "unset" THEN @ \ {o[2]} ELSE @,
              !.acl = IF o[1] = "grant" THEN ACL!GrantAccess(@, o[2])
                      ELSE IF o[1] = "revoke" THEN ACL!RevokeAccess(@, o[2])
                      ELSE IF o[1] = "public" THEN ACL!SetPublicAccess(@, o[2]) ELSE @,
              !.locked = IF o[1] = "lock" THEN o[2] ELSE @,
              !.readonly = IF o[1] = "seal" THEN TRUE ELSE @]

\* Properties, but for the owner, are read by whoever the profile is shown to.
Readable(p, uid) ==
    p \in live /\ ACL!CheckACL(mem[p].acl, uid, {mem[p].acl.owner, OpenVPN}, FALSE)

Succeeds(p, uid, o) ==
    /\ p \in live
    /\ IF o[1] = "read" THEN Readable(p, uid) ELSE Manager!Authorize(mem[p], uid, Method[o[1]])
    /\ Accepts(mem[p], o)

\* Failures that do not end the command: config-manage warns about tags, config-acl
\* reports a user it could not grant or revoke, and goes on.
Tolerated(line, o) ==
    \/ line.cmd = "config-manage" /\ o[1] \in {"tag", "untag"}
    \/ line.cmd = "config-acl" /\ o[1] \in {"grant", "revoke"}

-----------------------------------------------------------------------------
(* Processes. *)

Command(uid, line) ==
    [user |-> uid, line |-> line, stage |-> "start", path |-> None, todo |-> <<>>, ops |-> <<>>,
     keys |-> {}, done |-> {}, waived |-> {}, code |-> 0, cache |-> {}, first |-> None, shown |-> {},
     list |-> {}, left |-> {}, listed |-> {}, out |-> "none"]

Running(f, stage) == cmd[f].stage = stage
Now(f, c) == cmd' = [cmd EXCEPT ![f] = c]
Quietly == UNCHANGED <<live, mem>>

Ended(c, out) == [c EXCEPT !.stage = "end", !.out = out, !.todo = <<>>]
Opened(c, p) == [c EXCEPT !.stage = IF c.line.cmd = "config-remove" /\ ~c.line.force THEN "confirm" ELSE "open",
                          !.path = p]
\* --show is the last operation; it looks the overrides up one by one.
WithOps(c, ops) == [c EXCEPT !.stage = "run", !.todo = ops, !.ops = ops,
                             !.keys = IF c.line.show THEN Keys ELSE {}]

\* The look-ups of the proxy.
LookupConfigName(c) == Manager!method_lookup_config_name(c.user, c.line.name)
SearchByTag(c, t) == Manager!method_search_by_tag(c.user, t)
SearchByOwner(c) == Manager!method_search_by_owner(c.user, c.user)
FetchAvailableConfigs(c) == Manager!method_fetch_available_configs(c.user)

\* retrieve_config_path(): the name must belong to exactly one profile the user can see.
retrieve_config_path(f) ==
    LET c == cmd[f]
        paths == LookupConfigName(c)
    IN
    /\ Running(f, "start") /\ c.line.by = "name"
    /\ \/ \E p \in paths : paths = {p} /\ Now(f, Opened(c, p))
       \/ Cardinality(paths) > 1 /\ Now(f, Ended(c, "error"))
       \/ paths = {} /\ c.line.cmd # "session-start" /\ Now(f, Ended(c, "error"))
    /\ Quietly

GivenPath(f) ==
    /\ Running(f, "start") /\ cmd[f].line.by = "path"
    /\ Now(f, Opened(cmd[f], cmd[f].line.path))
    /\ Quietly

\* import_config(): session-start imports a single-use profile when the name is not known.
import_config(f, p, opts) ==
    LET c == cmd[f]
        single == c.line.cmd = "session-start"
    IN
    /\ Running(f, "start")
    /\ \/ c.line.by = "file"
       \/ single /\ c.line.by = "name" /\ LookupConfigName(c) = {}
    /\ mem[p] = None
    /\ live' = live \cup {p}
    /\ mem' = [mem EXCEPT ![p] = [Manager!NewProfile(c.user, opts, single, FALSE) EXCEPT !.name = c.line.name]]
    /\ Now(f, [c EXCEPT !.stage = "open", !.path = p])

\* A file cannot be read, or an external file it names cannot.
MergeFails(f) ==
    /\ Running(f, "start") /\ cmd[f].line.by = "file"
    /\ Now(f, Ended(cmd[f], "error")) /\ Quietly

\* config-remove and --seal ask the user.
Confirm(f, yes) ==
    LET c == cmd[f] IN
    /\ Running(f, "confirm")
    /\ Now(f, IF yes THEN [c EXCEPT !.stage = "open"] ELSE Ended(c, "declined"))
    /\ Quietly

\* The proxy is made, which checks that the object exists.
Open(f) ==
    LET c == cmd[f] IN
    /\ Running(f, "open") /\ c.line.cmd \notin Listing
    /\ Now(f, IF c.path \in live
              THEN WithOps(c, Ordered(c.line))
              ELSE Ended(c, "error"))
    /\ Quietly

\* A call that the manager carries out.
Apply(f) ==
    LET c == cmd[f]
        o == Head(c.todo)
    IN
    /\ Running(f, "run") /\ c.todo # <<>>
    /\ Succeeds(c.path, c.user, o)
    /\ mem' = [mem EXCEPT ![c.path] = Effect(@, o)]
    /\ live' = IF o[1] = "remove" THEN live \ {c.path} ELSE live
    /\ Now(f, [c EXCEPT !.todo = Tail(@), !.done = @ \cup {o}])

\* A call that fails.  Granting to an unknown user is an error message and nothing else.
Refused(f) ==
    LET c == cmd[f]
        o == Head(c.todo)
    IN
    /\ Running(f, "run") /\ c.todo # <<>>
    /\ ~Succeeds(c.path, c.user, o)
    /\ Now(f, IF Tolerated(c.line, o)
              THEN [c EXCEPT !.todo = Tail(@), !.waived = @ \cup {o},
                             !.code = IF c.line.cmd = "config-acl" /\ o[2] # None THEN 3 ELSE @]
              ELSE Ended(c, "error"))
    /\ Quietly

\* The user does not answer the question of config-acl --seal with YES.
DeclineSeal(f) ==
    LET c == cmd[f] IN
    /\ Running(f, "run") /\ c.todo # <<>>
    /\ c.line.cmd = "config-acl" /\ Head(c.todo)[1] = "seal"
    /\ Now(f, [c EXCEPT !.todo = Tail(@), !.waived = @ \cup {Head(c.todo)}])
    /\ Quietly

MutantGetOverrides(c) == \* Mutant: the overrides are fetched anew each time.
    mem[c.path].overrides

\* GetOverrides(false) and GetOverrideValue(): the cache is used unless it is empty.
GetOverrides(c) == IF c.cache # {} THEN c.cache ELSE mem[c.path].overrides

\* One override of ConfigProfileDetails.
Look(f) ==
    LET c == cmd[f]
        k == CHOOSE k \in c.keys : TRUE
        ovs == GetOverrides(c)
    IN
    /\ Running(f, "run") /\ c.todo = <<>> /\ c.keys # {}
    /\ Now(f, IF c.cache # {} \/ Readable(c.path, c.user)
              THEN [c EXCEPT !.keys = @ \ {k}, !.cache = ovs, !.first = IF @ = None THEN ovs ELSE @,
                             !.shown = IF k \in ovs THEN @ \cup {k} ELSE @]
              ELSE Ended(c, "error"))
    /\ Quietly

Finish(f) ==
    LET c == cmd[f] IN
    /\ Running(f, "run") /\ c.todo = <<>> /\ c.keys = {}
    /\ Now(f, Ended(c, IF c.code = 3 THEN "partial" ELSE "ok"))
    /\ Quietly

-----------------------------------------------------------------------------
(* configs-list, and arghelper_config_names() for the completion of the shell, *)
(* which reads the names in the same way.                                      *)

FetchList(f) ==
    LET c == cmd[f]
        paths == IF c.line.by = "tag" THEN UNION {SearchByTag(c, t) : t \in Tags}
                 ELSE IF c.line.by = "owner" THEN SearchByOwner(c)
                 ELSE FetchAvailableConfigs(c)
    IN
    /\ Running(f, "start") /\ c.line.cmd \in Listing
    /\ Now(f, [c EXCEPT !.stage = "open", !.list = paths, !.left = paths])
    /\ Quietly

\* An invalid profile is listed with a mark.  One that is gone, or that may no longer be
\* read, ends the command.
ListProfile(f, p) ==
    LET c == cmd[f] IN
    /\ Running(f, "open") /\ p \in c.left
    /\ Now(f, IF Readable(p, c.user)
              THEN [c EXCEPT !.listed = @ \cup {p}, !.left = @ \ {p}]
              ELSE Ended(c, "error"))
    /\ Quietly

ListEnds(f) ==
    /\ Running(f, "open") /\ cmd[f].line.cmd \in Listing /\ cmd[f].left = {}
    /\ Now(f, Ended(cmd[f], "ok"))
    /\ Quietly

-----------------------------------------------------------------------------
\* Owner has made one profile, with or without overrides, and granted access to another
\* user or not; the other paths are left for imports.
Init ==
    /\ live = {CHOOSE p \in Paths : TRUE}
    /\ \E opts \in Contents, ovs \in {{}, Keys}, granted \in SUBSET (People \ {Owner}) :
        LET r == Manager!NewProfile(Owner, opts, FALSE, TRUE) IN
        mem = [q \in Paths |-> IF q \in live THEN [r EXCEPT !.overrides = ovs, !.acl.acl = granted] ELSE None]
    /\ \E uid \in [Fronts -> People], line \in [Fronts -> Lines] :
        cmd = [f \in Fronts |-> Command(uid[f], line[f])]

Step(f) ==
    \/ retrieve_config_path(f) \/ GivenPath(f) \/ MergeFails(f)
    \/ \E p \in Paths, opts \in Contents : import_config(f, p, opts)
    \/ \E yes \in BOOLEAN : Confirm(f, yes)
    \/ Open(f) \/ Apply(f) \/ Refused(f) \/ DeclineSeal(f) \/ Look(f) \/ Finish(f)
    \/ FetchList(f) \/ ListEnds(f)
    \/ \E p \in Paths : ListProfile(f, p)

Next == \E f \in Fronts : Step(f)

Spec == Init /\ [][Next]_vars

-----------------------------------------------------------------------------
(* A command that ends without an error has done all it was asked for, but   *)
(* for tags that are there or are not (config-manage), users that do not     *)
(* exist and a seal the user declined (config-acl); one that ends with an    *)
(* error has done all that it looks at before the operation that failed, and *)
(* nothing that comes after it.                                              *)
Excused(line, o) ==
    \/ line.cmd = "config-manage" /\ o[1] \in {"tag", "untag"}
    \/ line.cmd = "config-acl" /\ (o[2] = None \/ o[1] = "seal")

DoneIsPrefix(c) ==
    /\ c.out = "ok" =>
        /\ c.line.ops = c.done \cup c.waived
        /\ \A o \in c.waived : Excused(c.line, o)
    /\ c.out = "error" /\ c.ops # <<>> =>
        \E n \in 0..Len(c.ops) :
            c.done \cup c.waived = {c.ops[i] : i \in 1..n} /\ (n = Len(c.ops) => c.line.show)

(* The overrides that --show prints are those the profile had at one moment, *)
(* although they are looked up one by one, unless there were none at first:  *)
(* an empty cache is not a cache.                                            *)
ShownTogether(c) == c.line.show /\ c.out = "ok" /\ c.first \notin {None, {}} => c.shown = c.first

\* A list has every profile the user could see when it was started, valid or not.
ListComplete(c) == c.out = "ok" => c.listed = c.list

(* OUTCOME TOLD: whatever the other commands do between its calls, the       *)
(* outcome of a command says what it has done, and what it has shown is one  *)
(* state of the profile, or all the profiles (cmd_config_manage,             *)
(* cmd_config_acl, import_config, ConfigProfileDetails, cmd_configs_list).   *)
OutcomeTold == \A f \in Fronts : DoneIsPrefix(cmd[f]) /\ ShownTogether(cmd[f]) /\ ListComplete(cmd[f])
=============================================================================
