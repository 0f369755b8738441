--------------------------- MODULE ConfigManager ---------------------------
(***************************************************************************)
(* The configuration manager (src/src/configmgr): configuration profiles,  *)
(* who may call what on them, the JSON file each persistent profile is     *)
(* kept in, and what a restart of the service reads back.                  *)
(*                                                                         *)
(* D-Bus calls are served by a pool of threads (Workers) that share the    *)
(* profile objects without a lock.  A call is authorised, then its handler *)
(* runs, and most handlers end in update_persistent_file(), which is three *)
(* steps: the ofstream truncates the file, Export() reads the object, and  *)
(* the text is flushed.  The service may crash between any two steps, exits*)
(* when it is idle, and is started again by the next D-Bus call.           *)
(*                                                                         *)
(* mem[p] is the Configuration object; a handler keeps it alive after it   *)
(* has left the object manager (p \notin live), and it keeps its last value*)
(* while the service is down, for the properties to compare with.          *)
(***************************************************************************)
EXTENDS Naturals, FiniteSets

CONSTANTS
    Users,      \* uids of the callers
    Root,       \* uid 0
    OpenVPN,    \* the uid of the "openvpn" user, which VPN clients run as
    Workers,    \* threads serving method calls
    Paths,      \* D-Bus paths, generated and never reused
    Keys,       \* keys of the override table
    Tags,       \* tags
    Contents,   \* the profile texts imported: each a set of option names
    None,       \* no such object, file or snapshot
    Broken,     \* a file that holds no JSON document
    StateDir,   \* is the service given a --state-dir?
    MaxCalls    \* calls in a behaviour

ASSUME UsersAssumption == Root \in Users /\ OpenVPN \in Users
ASSUME StateDirAssumption == StateDir \in BOOLEAN
ASSUME MaxCallsAssumption == MaxCalls \in Nat

INSTANCE ObjectACL

VARIABLES
    up,       \* the service process runs
    live,     \* profiles exported on the bus
    mem,      \* the Configuration object of each path
    file,     \* the JSON file of each path
    call,     \* what each worker is doing
    calls,    \* calls made so far
    overlap,  \* history: paths on which two calls have run at the same time
    sealed,   \* history: paths whose Seal call has been answered
    removed   \* history: paths whose removal has been answered, and whose file could be deleted

vars == <<up, live, mem, file, call, calls, overlap, sealed, removed>>

-----------------------------------------------------------------------------
(* The profile object. *)

Options == {"generic", "remote", "connection", "ca", "dev", "client"}

validate_profile(opts) ==
    /\ "generic" \notin opts
    /\ {"client", "dev", "ca"} \subseteq opts
    /\ opts \cap {"remote", "connection"} # {}

Profile ==
    [acl: ACLRecord(Users), opts: Contents, valid: BOOLEAN, single: BOOLEAN,
     persistent: BOOLEAN, readonly: BOOLEAN, locked: BOOLEAN, name: BOOLEAN,
     dco: BOOLEAN, transfer: BOOLEAN, used: Nat, tags: SUBSET Tags, overrides: SUBSET Keys]

\* What a JSON file holds.
SavedProfile ==
    [acl: ACLRecord(Users), opts: Contents, valid: BOOLEAN, single: BOOLEAN,
     readonly: BOOLEAN, locked: BOOLEAN, name: BOOLEAN, dco: BOOLEAN, transfer: BOOLEAN, used: Nat,
     tags: SUBSET Tags, overrides: SUBSET Keys]

ASSUME NoneAssumption ==
    /\ None # Broken /\ None \notin Paths
    /\ None \notin Profile /\ None \notin SavedProfile /\ Broken \notin SavedProfile

NewProfile(uid, opts, single, persistent) ==
    [acl |-> Create(uid), opts |-> opts, valid |-> validate_profile(opts),
     single |-> single, persistent |-> persistent, readonly |-> FALSE,
     locked |-> FALSE, name |-> FALSE, dco |-> FALSE, transfer |-> FALSE, used |-> 0,
     tags |-> {}, overrides |-> {}]

HasFile(r) == r.persistent /\ StateDir

\* Everything but the "persistent" property is written to the file.
Export(r) ==
    [acl |-> r.acl, opts |-> r.opts, valid |-> r.valid, single |-> r.single,
     readonly |-> r.readonly, locked |-> r.locked, name |-> r.name, dco |-> r.dco,
     transfer |-> r.transfer, used |-> r.used, tags |-> r.tags, overrides |-> r.overrides]

\* The constructor that reads a saved profile: the options are validated anew.
Load(s) ==
    [acl |-> s.acl, opts |-> s.opts, valid |-> validate_profile(s.opts),
     single |-> s.single, persistent |-> TRUE, readonly |-> s.readonly,
     locked |-> s.locked, name |-> s.name, dco |-> s.dco, transfer |-> s.transfer, used |-> s.used,
     tags |-> s.tags, overrides |-> s.overrides]

write_methods == {"AccessGrant", "AccessRevoke", "SetOption", "SetOverride",
                  "UnsetOverride", "AddTag", "RemoveTag"}
owner_properties == {"name", "locked_down", "public_access"}
other_properties == {"dco", "transfer_owner_session"}

AuthorizeFetch(r, uid) ==
    IF r.locked
    THEN CheckOwnerAccess(r.acl, uid) \/ uid = OpenVPN
    ELSE CheckACL(r.acl, uid, {r.acl.owner, OpenVPN}, TRUE)

MutantAuthorize(r, uid, m) == \* Mutant: a sealed profile refuses property changes only.
    \/ m \in write_methods /\ CheckOwnerAccess(r.acl, uid)
    \/ m \in {"Fetch", "FetchJSON"} /\ AuthorizeFetch(r, uid)
    \/ m \in {"Seal", "Remove"} /\ CheckOwnerAccess(r.acl, uid)
    \/ m \in owner_properties /\ ~r.readonly /\ CheckOwnerAccess(r.acl, uid)
    \/ m \in other_properties /\ ~r.readonly /\ CheckACL(r.acl, uid, {r.acl.owner}, TRUE)
    \/ m = "Validate" /\ CheckACL(r.acl, uid, {r.acl.owner}, FALSE)

Authorize(r, uid, m) ==
    \/ m \in write_methods /\ ~r.readonly /\ CheckOwnerAccess(r.acl, uid)
    \/ m \in {"Fetch", "FetchJSON"} /\ AuthorizeFetch(r, uid)
    \/ m \in {"Seal", "Remove"} /\ CheckOwnerAccess(r.acl, uid)
    \/ m \in owner_properties /\ ~r.readonly /\ CheckOwnerAccess(r.acl, uid)
    \/ m \in other_properties /\ ~r.readonly /\ CheckACL(r.acl, uid, {r.acl.owner}, TRUE)
    \/ m = "Validate" /\ CheckACL(r.acl, uid, {r.acl.owner}, FALSE)

\* The methods of the service object are open to everyone but this one, which
\* the D-Bus policy keeps to root; what a caller sees is filtered by CheckACL.
AuthorizeTransfer(r, uid) == uid = Root /\ CheckACL(r.acl, uid, {r.acl.owner, Root}, FALSE)

-----------------------------------------------------------------------------
(* Look-ups of the service object: the profiles a caller is shown. *)

\* The retrieve-all part; the caller's filter is the set constructor of each look-up.
helper_retrieve_configs(uid, grant_root) ==
    {p \in live :
        CheckACL(mem[p].acl, uid, {mem[p].acl.owner} \cup (IF grant_root THEN {Root} ELSE {}), FALSE)}

method_fetch_available_configs(uid) == helper_retrieve_configs(uid, FALSE)
method_lookup_config_name(uid, name) ==
    {p \in helper_retrieve_configs(uid, FALSE) : mem[p].name = name}
method_search_by_tag(uid, tag) ==
    {p \in helper_retrieve_configs(uid, FALSE) : tag \in mem[p].tags}
method_search_by_owner(uid, owner) ==
    {p \in helper_retrieve_configs(uid, FALSE) : mem[p].acl.owner = owner}

-----------------------------------------------------------------------------
(* Calls and their steps. *)

Idle == [op |-> "idle", path |-> None, phase |-> "idle", snap |-> None]
Busy(p) == \E w \in Workers : call[w].path = p
Running(w, m) == call[w].op = m /\ call[w].phase = "run"

\* The call is over: its answer, a result or an error, is sent.
Return(w) ==
    /\ call' = [call EXCEPT ![w] = Idle]
    /\ UNCHANGED <<up, calls, overlap>>

Throw(w) == Return(w) /\ UNCHANGED <<live, mem, file, sealed, removed>>

\* The handler has changed its object to r and goes on to update_persistent_file().
Commit(w, r) ==
    /\ mem' = [mem EXCEPT ![call[w].path] = r]
    /\ call' = [call EXCEPT ![w].phase = "save"]
    /\ UNCHANGED <<up, live, file, calls, overlap, sealed, removed>>

\* A call is authorised and given to a worker.
Begin(w, p, m) ==
    /\ up /\ call[w] = Idle /\ calls < MaxCalls
    /\ calls' = calls + 1
    /\ overlap' = IF Busy(p) THEN overlap \cup {p} ELSE overlap
    /\ call' = [call EXCEPT ![w] = [op |-> m, path |-> p, phase |-> "run", snap |-> None]]
    /\ UNCHANGED <<up, live, mem, file, sealed, removed>>

Call(w, p, uid, m) ==
    /\ p \in live
    /\ Authorize(mem[p], uid, m)
    /\ Begin(w, p, m)

CallFetchBackend(w, p) ==
    /\ p \in live
    /\ Authorize(mem[p], OpenVPN, "Fetch")
    /\ Begin(w, p, "FetchBackend")

CallTransferOwnership(w, p, uid) ==
    /\ p \in live
    /\ AuthorizeTransfer(mem[p], uid)
    /\ Begin(w, p, "TransferOwnership")

\* method_import: the constructor saves the profile before the object is exported.
method_import(w, p, uid, opts, single, persistent) ==
    /\ up /\ call[w] = Idle /\ calls < MaxCalls
    /\ mem[p] = None /\ file[p] = None
    /\ calls' = calls + 1
    /\ mem' = [mem EXCEPT ![p] = NewProfile(uid, opts, single, persistent)]
    /\ call' = [call EXCEPT ![w] = [op |-> "Import", path |-> p, phase |-> "save", snap |-> None]]
    /\ UNCHANGED <<up, live, file, overlap, sealed, removed>>

-----------------------------------------------------------------------------
(* The handlers, after Authorize(). *)

Obj(w) == mem[call[w].path]

method_access_grant(w) ==
    /\ Running(w, "AccessGrant")
    /\ \E uid \in Users :
        IF CanGrant(Obj(w).acl, uid)
        THEN Commit(w, [Obj(w) EXCEPT !.acl = GrantAccess(@, uid)])
        ELSE Throw(w)

method_access_revoke(w) ==
    /\ Running(w, "AccessRevoke")
    /\ \E uid \in Users :
        IF CanRevoke(Obj(w).acl, uid)
        THEN Commit(w, [Obj(w) EXCEPT !.acl = RevokeAccess(@, uid)])
        ELSE Throw(w)

method_add_tag(w) ==
    /\ Running(w, "AddTag")
    /\ \/ \E t \in Tags \ Obj(w).tags : Commit(w, [Obj(w) EXCEPT !.tags = @ \cup {t}])
       \/ Throw(w) \* empty, too long or already there

method_remove_tag(w) ==
    /\ Running(w, "RemoveTag")
    /\ \/ \E t \in Obj(w).tags : Commit(w, [Obj(w) EXCEPT !.tags = @ \ {t}])
       \/ Throw(w)

\* A value of the wrong type is refused only after the old value has been dropped,
\* and without a save; an unknown key is refused before.
method_set_override(w) ==
    /\ Running(w, "SetOverride")
    /\ \/ \E k \in Keys : Commit(w, [Obj(w) EXCEPT !.overrides = @ \cup {k}])
       \/ \E k \in Keys : /\ mem' = [mem EXCEPT ![call[w].path].overrides = @ \ {k}]
                          /\ Return(w)
                          /\ UNCHANGED <<live, file, sealed, removed>>
       \/ Throw(w)

method_unset_override(w) ==
    /\ Running(w, "UnsetOverride")
    /\ \/ \E k \in Obj(w).overrides : Commit(w, [Obj(w) EXCEPT !.overrides = @ \ {k}])
       \/ Throw(w)

MutantSetProperty(w) == \* Mutant: a changed "dco" property is not saved.
    \/ Running(w, "name") /\ Commit(w, [Obj(w) EXCEPT !.name = ~@])
    \/ /\ Running(w, "dco")
       /\ mem' = [mem EXCEPT ![call[w].path].dco = ~@]
       /\ Return(w) /\ UNCHANGED <<live, file, sealed, removed>>

SetProperty(w) ==
    \/ Running(w, "name") /\ Commit(w, [Obj(w) EXCEPT !.name = ~@])
    \/ Running(w, "locked_down") /\ Commit(w, [Obj(w) EXCEPT !.locked = ~@])
    \/ Running(w, "dco") /\ Commit(w, [Obj(w) EXCEPT !.dco = ~@])
    \/ Running(w, "transfer_owner_session") /\ Commit(w, [Obj(w) EXCEPT !.transfer = ~@])
    \/ /\ Running(w, "public_access")
       /\ Commit(w, [Obj(w) EXCEPT !.acl = SetPublicAccess(@, ~@.public)])

TransferOwner(w) ==
    /\ Running(w, "TransferOwnership")
    /\ \E uid \in Users : Commit(w, [Obj(w) EXCEPT !.acl = TransferOwnership(@, uid)])

method_seal(w) ==
    /\ Running(w, "Seal")
    /\ IF Obj(w).valid THEN Commit(w, [Obj(w) EXCEPT !.readonly = TRUE]) ELSE Throw(w)

\* Reads: SetOption has an empty handler.
ReadOnlyCall(w) ==
    /\ call[w].op \in {"Fetch", "FetchJSON", "Validate", "SetOption"}
    /\ Throw(w)

\* RemoveObject() throws when another call has removed the profile already.
method_remove(w) ==
    LET p == call[w].path IN
    /\ \/ Running(w, "Remove")
       \/ Running(w, "FetchBackend") /\ mem[p].single
    /\ IF p \in live
       THEN /\ live' = live \ {p}
            /\ call' = [call EXCEPT ![w].phase = "unlink"]
            /\ UNCHANGED <<up, mem, file, calls, overlap, sealed, removed>>
       ELSE Throw(w)

MutantUnlink(w) == \* Mutant: the file of a removed profile is left behind.
    LET p == call[w].path IN
    /\ call[w].phase = "unlink"
    /\ removed' = removed \cup {p}
    /\ Return(w)
    /\ UNCHANGED <<live, mem, file, sealed>>

Unlink(w) ==
    LET p == call[w].path IN
    /\ call[w].phase = "unlink"
    /\ file' = IF HasFile(mem[p]) THEN [file EXCEPT ![p] = None] ELSE file
    /\ removed' = removed \cup {p}
    /\ Return(w)
    /\ UNCHANGED <<live, mem, sealed>>

\* std::remove() fails, which is only logged: the file stays and the call is answered like any
\* other.
UnlinkFails(w) ==
    /\ call[w].phase = "unlink" /\ HasFile(Obj(w))
    /\ Return(w)
    /\ UNCHANGED <<live, mem, file, sealed, removed>>

FetchBackend(w) ==
    /\ Running(w, "FetchBackend") /\ ~Obj(w).single
    /\ Commit(w, [Obj(w) EXCEPT !.used = @ + 1])

-----------------------------------------------------------------------------
(* update_persistent_file() *)

\* Opening the ofstream truncates the file.
SaveOpen(w) ==
    /\ call[w].phase = "save" /\ HasFile(Obj(w))
    /\ file' = [file EXCEPT ![call[w].path] = Broken]
    /\ call' = [call EXCEPT ![w].phase = "export"]
    /\ UNCHANGED <<up, live, mem, calls, overlap, sealed, removed>>

SaveExport(w) ==
    /\ call[w].phase = "export"
    /\ call' = [call EXCEPT ![w].phase = "flush", ![w].snap = Export(Obj(w))]
    /\ UNCHANGED <<up, live, mem, file, calls, overlap, sealed, removed>>

Answered(w) ==
    LET p == call[w].path IN
    /\ live' = IF call[w].op = "Import" THEN live \cup {p} ELSE live
    /\ sealed' = IF call[w].op = "Seal" THEN sealed \cup {p} ELSE sealed
    /\ Return(w)
    /\ UNCHANGED <<mem, removed>>

SaveFlush(w) ==
    /\ call[w].phase = "flush"
    /\ file' = [file EXCEPT ![call[w].path] = call[w].snap]
    /\ Answered(w)

\* A profile without a file: update_persistent_file() returns at once.
SaveNothing(w) ==
    /\ call[w].phase = "save" /\ ~HasFile(Obj(w))
    /\ Answered(w) /\ UNCHANGED file

-----------------------------------------------------------------------------
(* The service process. *)

Stop ==
    /\ up' = FALSE
    /\ live' = {}
    /\ call' = [w \in Workers |-> Idle]
    /\ UNCHANGED <<mem, file, calls, overlap, sealed, removed>>

Crash == up /\ Stop

\* Persistent profiles do not keep the service from exiting.
IdleExit ==
    /\ up /\ \A w \in Workers : call[w] = Idle
    /\ \A p \in live : mem[p].persistent
    /\ Stop

\* D-Bus activation: SetStateDirectory() loads every file that can be read
\* before the service takes calls; a broken file is logged and skipped.
Start ==
    LET good == {p \in Paths : file[p] \notin {None, Broken}} IN
    /\ ~up
    /\ up' = TRUE
    /\ live' = good
    /\ mem' = [p \in Paths |-> IF p \in good THEN Load(file[p]) ELSE mem[p]]
    /\ UNCHANGED <<file, call, calls, overlap, sealed, removed>>

-----------------------------------------------------------------------------
Init ==
    /\ up = FALSE /\ live = {} /\ calls = 0
    /\ mem = [p \in Paths |-> None]
    /\ file = [p \in Paths |-> None]
    /\ call = [w \in Workers |-> Idle]
    /\ overlap = {} /\ sealed = {} /\ removed = {}

Handler(w) ==
    \/ method_access_grant(w) \/ method_access_revoke(w)
    \/ method_add_tag(w) \/ method_remove_tag(w)
    \/ method_set_override(w) \/ method_unset_override(w)
    \/ SetProperty(w) \/ TransferOwner(w) \/ method_seal(w)
    \/ ReadOnlyCall(w) \/ method_remove(w) \/ Unlink(w) \/ UnlinkFails(w) \/ FetchBackend(w)
    \/ SaveOpen(w) \/ SaveExport(w) \/ SaveFlush(w) \/ SaveNothing(w)

Methods == write_methods \cup owner_properties \cup other_properties \cup {"Fetch", "FetchJSON", "Seal", "Remove", "Validate"}

Next ==
    \/ \E w \in Workers : Handler(w)
    \/ \E w \in Workers, p \in Paths, uid \in Users :
        \/ \E m \in Methods : Call(w, p, uid, m)
        \/ CallTransferOwnership(w, p, uid)
        \/ \E opts \in Contents, single, persistent \in BOOLEAN :
            method_import(w, p, uid, opts, single, persistent)
    \/ \E w \in Workers, p \in Paths : CallFetchBackend(w, p)
    \/ Crash \/ IdleExit \/ Start

Spec == Init /\ [][Next]_vars
-----------------------------------------------------------------------------
(* Properties *)

Operations == Methods \cup {"idle", "Import", "FetchBackend", "TransferOwnership"}
Phases == {"idle", "run", "save", "export", "flush", "unlink"}

\* TYPE: the profiles, files and calls keep their types.
TypeOK ==
    /\ up \in BOOLEAN /\ live \subseteq Paths /\ calls \in 0..MaxCalls
    /\ mem \in [Paths -> Profile \cup {None}]
    /\ file \in [Paths -> SavedProfile \cup {None, Broken}]
    /\ call \in [Workers -> [op: Operations, path: Paths \cup {None}, phase: Phases,
                             snap: SavedProfile \cup {None}]]
    /\ overlap \subseteq Paths /\ sealed \subseteq Paths /\ removed \subseteq Paths

(* SAVED WHEN QUIET: when no call is working on a persistent profile, its    *)
(* file holds what the object holds, so that neither an idle exit nor a     *)
(* crash then loses a change that has been answered.  Two calls that have   *)
(* overlapped on the profile are exempt: their saves may land in the other  *)
(* order.  An override dropped by a refused SetOverride is the one          *)
(* difference: it is still in the file (set_override, remove_override).     *)
SavedWhenQuiet ==
    \A p \in live \ overlap :
        HasFile(mem[p]) /\ ~Busy(p) =>
            /\ file[p] \notin {None, Broken}
            /\ [file[p] EXCEPT !.overrides = mem[p].overrides] = Export(mem[p])
            /\ mem[p].overrides \subseteq file[p].overrides

Frozen(r) == <<r.acl.acl, r.acl.public, r.name, r.dco, r.transfer, r.locked, r.tags, r.overrides>>

(* SEALED STAYS SEALED: once Seal has been answered, neither a later call   *)
(* nor a restart of the service changes the settings of the profile or makes*)
(* it writable again, as long as no two calls overlapped on it.  The owner  *)
(* may still remove it: Authorize() lets Remove through whatever readonly   *)
(* says, although the documentation of Seal says that it does not.          *)
SealedStaysSealed ==
    [][\A p \in sealed \ overlap' :
            p \in live' => mem'[p].readonly /\ Frozen(mem'[p]) = Frozen(mem[p])]_vars

(* REMOVED STAYS REMOVED: a profile whose Remove call, or whose single-use  *)
(* Fetch, has been answered does not come back, not even when the service is*)
(* restarted, as long as no two calls overlapped on it and its file could be*)
(* deleted: a failing std::remove() is answered as a success, and the next  *)
(* start of the service loads the profile again (method_remove).            *)
RemovedStaysRemoved == removed \cap live \subseteq overlap

=============================================================================
