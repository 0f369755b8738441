--------------------------- MODULE SessionManager ---------------------------
(***************************************************************************)
(* The session manager's tunnel life cycle: NewTunnel, the queue of tokens *)
(* handed to VPN client processes, their registration, the session objects *)
(* and their removal, and the automatic restart of processes that          *)
(* disappear (src/src/sessionmgr).                                         *)
(*                                                                         *)
(* Four kinds of threads interleave:                                       *)
(*   - the main loop, which delivers one signal at a time (the             *)
(*     RegistrationRequest handler, the bus-name watchers, StatusChange)   *)
(*     and stays blocked while a handler calls a client process;           *)
(*   - the threads that serve D-Bus method calls (Callers);                *)
(*   - the thread of the restart timers (io_context);                      *)
(*   - the VPN client processes themselves.                                *)
(*                                                                         *)
(* A backend b stands for one VPN client process, the session token it was *)
(* started with and the bus name it owns.                                  *)
(***************************************************************************)
EXTENDS Naturals

CONSTANTS
    Users,         \* uids
    Configs,       \* D-Bus paths of configuration profiles
    Paths,         \* D-Bus paths of sessions
    Backends,      \* VPN client processes, and their tokens and bus names
    Callers,       \* threads serving method calls that close a session
    None,          \* an unset backend or path
    ConfigOwner,   \* the owner of each profile
    Guests,        \* users whom owners grant access to, or revoke it from
    Modes,         \* values of the automatic-restart override in use
    StartResults,  \* how StartClient may end: "ok", "error" or "late"
    MaxRetries     \* restarts in a row (10 in the code)

ASSUME NoneAssumption == None \notin Backends /\ None \notin Paths
ASSUME ConfigAssumption == ConfigOwner \in [Configs -> Users]
ASSUME GuestsAssumption == Guests \subseteq Users
ASSUME SomeAssumption == Users # {} /\ Configs # {} /\ Paths # {}
ASSUME ModesAssumption == Modes \subseteq {"unset", "no", "on-failure"}
ASSUME MaxRetriesAssumption == MaxRetries \in Nat \ {0}
ASSUME StartAssumption == StartResults \subseteq {"ok", "error", "late"}

INSTANCE ObjectACL
Backoff == INSTANCE RestartBackoff
    WITH Uptimes <- {}, MaxRuns <- 0, timer <- 0, last <- 0, alive <- 0,
         armings <- 0, runs <- 0

VARIABLES
    mode,       \* the automatic-restart override of each profile
    proc,       \* the state of each client process
    tunnel,     \* TunnelRecord of each token: session path, profile, owner
    queue,      \* tokens in NewTunnelQueue::queue
    signals,    \* processes whose RegistrationRequest signal is on its way
    objects,    \* session objects known to the object manager
    session,    \* the session object of each path
    reg,        \* the registration the main loop is working on
    watchers,   \* backend_watchers
    expired,    \* expired_backend_watchers
    timers,     \* restart_timers, with the values its callback captured
    ioAlive,    \* the thread running io_context
    closing,    \* the path whose close_session() a method-call thread is in
    up          \* the session manager process

mgrVars == <<queue, objects, session, reg, watchers, expired, timers, ioAlive, closing, up>>
vars == <<mode, proc, tunnel, queue, signals, objects, session, reg, watchers, expired,
          timers, ioAlive, closing, up>>

(***************************************************************************)
(* State.                                                                  *)
(***************************************************************************)
ProcStates == {"none", "starting", "waiting", "registered", "dead"}

TunnelRecord == [path: Paths, config: Configs, owner: Users]

\* be is the bus name be_prx talks to, None once be_prx is released; last is the last
\* StatusChange event as far as the restart looks at it; named tells whether the client process
\* has confirmed its registration (SetConfigName()).  revoked is history: the users the owner
\* has taken the access from.
Session == [be: Backends \cup {None}, config: Configs, access: ACLRecord(Users),
            last: {"connected", "other"}, named: {"yes", "no"}, revoked: SUBSET Users]

\* phase: the call into the client process that the main loop waits for.
Registration == [phase: {"idle", "confirm", "connect"}, be: Backends \cup {None},
                 pre: BOOLEAN, restart: {"unset", "no", "on-failure"}]

Idle == [phase |-> "idle", be |-> None, pre |-> FALSE, restart |-> "unset"]

Timer == [entry: [retries: Nat, armed: BOOLEAN], config: Configs, owner: Users]

Started == {b \in Backends : proc[b] # "none"}
Running == {b \in Backends : proc[b] \in {"starting", "waiting", "registered"}}

\* Placeholders for the values of tokens, sessions and timers that do not exist yet.
AnyUser == CHOOSE u \in Users : TRUE
AnyConfig == CHOOSE c \in Configs : TRUE
AnyPath == CHOOSE p \in Paths : TRUE

Init ==
    /\ mode \in [Configs -> Modes]
    /\ proc = [b \in Backends |-> "none"]
    /\ tunnel = [b \in Backends |-> [path |-> AnyPath, config |-> AnyConfig, owner |-> AnyUser]]
    /\ queue = {}
    /\ signals = {}
    /\ objects = {}
    /\ session = [p \in Paths |-> [be |-> None, config |-> AnyConfig, access |-> Create(AnyUser),
                                   last |-> "other", named |-> "no", revoked |-> {}]]
    /\ reg = Idle
    /\ watchers = {}
    /\ expired = {}
    /\ timers = [p \in Paths |-> [entry |-> Backoff!NoEntry, config |-> AnyConfig,
                                  owner |-> AnyUser]]
    /\ ioAlive = TRUE
    /\ closing = [k \in Callers |-> None]
    /\ up = TRUE

(***************************************************************************)
(* Starting a client process.                                              *)
(***************************************************************************)
\* Mutant of AddTunnel(): the record of a failed start is taken out of the queue again.
AddTunnelForgets(b, record, res) ==
    /\ proc[b] = "none"
    /\ tunnel' = [tunnel EXCEPT ![b] = record]
    /\ queue' = IF res = "ok" THEN queue \cup {b} ELSE queue
    /\ proc' = [proc EXCEPT ![b] = IF res = "error" THEN "dead" ELSE "starting"]

\* AddTunnel(): the record is queued before the process is started, and stays queued when
\* StartClient fails.  "late" is a StartClient that fails for the caller (a D-Bus timeout)
\* although the process starts.
AddTunnel(b, record, res) ==
    /\ proc[b] = "none"
    /\ tunnel' = [tunnel EXCEPT ![b] = record]
    /\ queue' = queue \cup {b}
    /\ proc' = [proc EXCEPT ![b] = IF res = "error" THEN "dead" ELSE "starting"]

FreshPath(p) == \A b \in Started : tunnel[b].path # p

\* helper_retrieve_sessions() with the profile filter: the sessions the caller may access.
VisibleSessions(u, c) ==
    {p \in objects : /\ session[p].config = c
                     /\ CheckACL(session[p].access, u, {session[p].access.owner}, FALSE)}

\* method_new_tunnel()
NewTunnel(u, c, p, b, res) ==
    /\ up
    /\ VisibleSessions(u, c) = {}
    /\ FreshPath(p)
    /\ AddTunnel(b, [path |-> p, config |-> c, owner |-> u], res)
    /\ UNCHANGED <<mode, signals, objects, session, reg, watchers, expired, timers, ioAlive,
                   closing, up>>

\* Mutant of the timer callback: the timer is not used up.
TimerFiresAgain(p, b, res) ==
    /\ up /\ ioAlive
    /\ timers[p].entry.armed
    /\ AddTunnel(b, [path |-> p, config |-> timers[p].config, owner |-> timers[p].owner], res)
    /\ ioAlive' = (res = "ok")
    /\ UNCHANGED <<mode, signals, objects, session, reg, watchers, expired, timers, closing, up>>

\* The callback of a restart timer: an exception of AddTunnel() ends io_context.run().
TimerFires(p, b, res) ==
    /\ up /\ ioAlive
    /\ timers[p].entry.armed
    /\ AddTunnel(b, [path |-> p, config |-> timers[p].config, owner |-> timers[p].owner], res)
    /\ timers' = [timers EXCEPT ![p].entry = Backoff!Fired(@)]
    /\ ioAlive' = (res = "ok")
    /\ UNCHANGED <<mode, signals, objects, session, reg, watchers, expired, closing, up>>

(***************************************************************************)
(* Registration: process_registration(), on the main loop.                 *)
(***************************************************************************)
\* Mutant of MoveToOwner(): the previous owner is not granted access.
MoveToOwnerOnly(a, to) == TransferOwnership(a, to)

\* MoveToOwner(): the new owner takes over, the previous one keeps access.
MoveToOwner(a, to) == GrantAccess(TransferOwnership(a, to), a.owner)

\* The profile's transfer_owner_session flag is looked up when the session object exists.
\* "kept": it is not set, or the look-up or the move fails, which is only logged;
\* "moved": it is set; "abandoned": after such a failure the log message asks for the profile's
\* owner, which fails too and ends the registration.
Transfers == {"kept", "moved", "abandoned"}

NewAccess(record, transfer) ==
    IF transfer = "moved"
    THEN MoveToOwner(Create(record.owner), ConfigOwner[record.config])
    ELSE Create(record.owner)

\* Session::Session(), with the first ResetBackend().
NewSession(b, transfer) ==
    [be |-> b, config |-> tunnel[b].config, access |-> NewAccess(tunnel[b], transfer),
     last |-> "other", named |-> "no", revoked |-> {}]

TakeToken(b) ==
    /\ up
    /\ reg.phase = "idle"
    /\ b \in signals /\ b \in queue
    /\ signals' = signals \ {b}
    /\ queue' = queue \ {b}

Restarted(b) == mode[tunnel[b].config] = "on-failure" /\ tunnel[b].path \in objects

Confirm(b, pre) ==
    reg' = [phase |-> "confirm", be |-> b, pre |-> pre, restart |-> mode[tunnel[b].config]]

\* A session object is created, and stays as it is when the registration is abandoned ...
RegisterNew(b, transfer) ==
    /\ TakeToken(b)
    /\ tunnel[b].path \notin objects
    /\ objects' = objects \cup {tunnel[b].path}
    /\ session' = [session EXCEPT ![tunnel[b].path] = NewSession(b, transfer)]
    /\ IF transfer = "abandoned" THEN UNCHANGED reg ELSE Confirm(b, FALSE)
    /\ UNCHANGED <<mode, proc, tunnel, watchers, expired, timers, ioAlive, closing, up>>

\* ... or the session the process is restarted for is found ...
RegisterRestarted(b) ==
    /\ TakeToken(b)
    /\ Restarted(b)
    /\ Confirm(b, TRUE)
    /\ UNCHANGED <<mode, proc, tunnel, objects, session, watchers, expired, timers, ioAlive,
                   closing, up>>

\* ... or CreateObject() throws, because the path is taken: the handler ends there.
RegisterClash(b) ==
    /\ TakeToken(b)
    /\ tunnel[b].path \in objects /\ ~Restarted(b)
    /\ UNCHANGED <<mode, proc, tunnel, objects, session, reg, watchers, expired, timers, ioAlive,
                   closing, up>>

\* Mutant of the watcher set-up: a restarted process is not watched.
WatchFirstOnly(b) ==
    IF reg.restart = "unset" \/ reg.pre
    THEN UNCHANGED <<watchers, expired>>
    ELSE /\ watchers' = (watchers \ expired) \cup {b}
         /\ expired' = {}

\* A watcher is set up for every value of the override; the expired ones are cleaned up.
Watch(b) ==
    IF reg.restart = "unset"
    THEN UNCHANGED <<watchers, expired>>
    ELSE /\ watchers' = (watchers \ expired) \cup {b}
         /\ expired' = {}

\* RegistrationConfirmation succeeds, and the session object learns the profile's name.
RegisterConfirmed(b) ==
    /\ up
    /\ reg.phase = "confirm" /\ reg.be = b
    /\ proc[b] = "waiting"
    /\ proc' = [proc EXCEPT ![b] = "registered"]
    /\ session' = IF tunnel[b].path \in objects
                  THEN [session EXCEPT ![tunnel[b].path].named = "yes"]
                  ELSE session
    /\ Watch(b)
    /\ reg' = IF reg.pre THEN [reg EXCEPT !.phase = "connect"] ELSE Idle
    /\ UNCHANGED <<mode, tunnel, queue, signals, objects, timers, ioAlive, closing, up>>

\* close_session() has released be_prx and be_target of the session object at p for good.
Released(p) == session[p].be = None

\* A session object that is removed: the registration at hand may still hold it, and only be
\* matters then.
Removed(s) == [s EXCEPT !.access = Create(AnyUser), !.last = "other", !.named = "no",
                        !.revoked = {}]

\* RegistrationConfirmation fails: ForceShutdown and RemoveObject(), which throws when the
\* session is already gone.  Otherwise the watcher is still set up.  ResetBackend() and
\* Ready() of a restarted session then act on the removed object and end with an exception,
\* or, when be_target is released, with a null dereference.
RegisterFailed(b) ==
    /\ up
    /\ reg.phase = "confirm" /\ reg.be = b
    /\ proc' = [proc EXCEPT ![b] = "dead"]
    /\ objects' = objects \ {tunnel[b].path}
    /\ session' = [session EXCEPT ![tunnel[b].path] = Removed(@)]
    /\ IF tunnel[b].path \in objects
       THEN Watch(b) /\ up' = ~(reg.pre /\ Released(tunnel[b].path))
       ELSE UNCHANGED <<watchers, expired, up>>
    /\ reg' = Idle
    /\ UNCHANGED <<mode, tunnel, queue, signals, timers, ioAlive, closing>>

\* Mutants of the end of process_registration(): the session path is passed for the bus name;
\* the sessions to connect are found by their profile.
RegisterConnectToPath(b) ==
    /\ up
    /\ reg.phase = "connect" /\ reg.be = b
    /\ session' = [session EXCEPT ![tunnel[b].path].be = tunnel[b].path]
    /\ reg' = Idle
    /\ UNCHANGED <<mode, proc, tunnel, queue, signals, objects, watchers, expired, timers,
                   ioAlive, closing, up>>

RegisterConnectByConfig(b) ==
    /\ up
    /\ reg.phase = "connect" /\ reg.be = b
    /\ session' = [p \in Paths |-> IF p \in objects /\ session[p].config = tunnel[b].config
                                   THEN [session[p] EXCEPT !.be = b] ELSE session[p]]
    /\ reg' = Idle
    /\ UNCHANGED <<mode, proc, tunnel, queue, signals, objects, watchers, expired, timers,
                   ioAlive, closing, up>>

\* ResetBackend(), Ready(), ResetLogForwarders(), Connect() on the session object found at
\* the start.  When it was removed meanwhile they still act on that object, and the client
\* process is told to connect.  An exception of the calls only skips the ones after it.
RegisterConnect(b) ==
    /\ up
    /\ reg.phase = "connect" /\ reg.be = b
    /\ ~Released(tunnel[b].path)
    /\ session' = IF tunnel[b].path \in objects
                  THEN [session EXCEPT ![tunnel[b].path].be = b]
                  ELSE session
    /\ reg' = Idle
    /\ UNCHANGED <<mode, proc, tunnel, queue, signals, objects, watchers, expired, timers,
                   ioAlive, closing, up>>

\* ResetBackend() dereferences be_target, which close_session() has released on another
\* thread while the main loop waited for the client process: undefined behaviour, which
\* ends the session manager.
ResetReleased(b) ==
    /\ up
    /\ reg.phase = "connect" /\ reg.be = b
    /\ Released(tunnel[b].path)
    /\ up' = FALSE
    /\ UNCHANGED <<mode, proc, tunnel, queue, signals, objects, session, reg, watchers, expired,
                   timers, ioAlive, closing>>

(***************************************************************************)
(* The other signals the main loop delivers.                               *)
(***************************************************************************)
\* A StatusChange signal of the process reaches the session object that subscribed to it.
StatusChange(p, event) ==
    /\ up
    /\ reg.phase = "idle"
    /\ p \in objects /\ session[p].be \in Backends
    /\ proc[session[p].be] = "registered"
    /\ session' = [session EXCEPT ![p].last = event]
    /\ UNCHANGED <<mode, proc, tunnel, queue, signals, objects, reg, watchers, expired, timers,
                   ioAlive, closing, up>>

BoundTo(b) == {p \in objects : session[p].be = b}

Vanished(b) ==
    /\ up
    /\ reg.phase = "idle"
    /\ b \in watchers \ expired
    /\ proc[b] = "dead"

\* The values the timer callback captures from the watcher's handler; in the mutant, the
\* session's present owner instead of the user who started the tunnel.
CapturedSessionOwner(p, b, entry) ==
    [entry |-> entry, config |-> tunnel[b].config, owner |-> session[p].access.owner]

Captured(p, b, entry) ==
    [entry |-> entry, config |-> tunnel[b].config, owner |-> tunnel[b].owner]

\* The watcher of b runs its handler once.  The clock decides whether the previous restart
\* was more than 90 s ago, which it always was when the delay alone was longer.
NameDisappeared(b, longAgo) ==
    /\ Vanished(b)
    /\ expired' = expired \cup {b}
    /\ \/ /\ BoundTo(b) = {}
          /\ \A p \in objects : session[p].be # None
          /\ UNCHANGED timers
       \/ \E p \in BoundTo(b) :
             LET t == timers[p].entry IN
             /\ Backoff!LongAgo(t, Backoff!Waited(t)) => longAgo
             /\ timers' = [timers EXCEPT ![p] =
                     Captured(p, b, Backoff!Disappeared(t, session[p].last = "connected", longAgo))]
    /\ UNCHANGED <<mode, proc, tunnel, queue, signals, objects, session, reg, watchers, ioAlive,
                   closing, up>>

\* GetBackendBusName() dereferences be_prx of every session it looks at; close_session()
\* may have released it: undefined behaviour, which ends the session manager.
NullBackend(b) ==
    /\ Vanished(b)
    /\ \E p \in objects : session[p].be = None
    /\ up' = FALSE
    /\ UNCHANGED <<mode, proc, tunnel, queue, signals, objects, session, reg, watchers, expired,
                   timers, ioAlive, closing>>

(***************************************************************************)
(* Closing a session, on a method-call thread.                             *)
(***************************************************************************)
Responds(p) == session[p].be \in Running

\* Session::Authorize(), before it looks at the caller: a client process that does not answer
\* Ping closes the session; ForceShutdown fails too and be_prx is released.
AccessDeadBackend(k, p) ==
    /\ up
    /\ closing[k] = None
    /\ p \in objects /\ ~Responds(p)
    /\ session' = [session EXCEPT ![p] = [@ EXCEPT !.be = None, !.last = "other"]]
    /\ closing' = [closing EXCEPT ![k] = p]
    /\ UNCHANGED <<mode, proc, tunnel, queue, signals, objects, reg, watchers, expired, timers,
                   ioAlive, up>>

\* Disconnect by a user with access: the client process answers and stops ...
Disconnect(k, u, p) ==
    /\ up
    /\ closing[k] = None
    /\ p \in objects /\ Responds(p)
    /\ CheckACL(session[p].access, u, {session[p].access.owner}, FALSE)
    /\ proc' = [proc EXCEPT ![session[p].be] = "dead"]
    /\ session' = [session EXCEPT ![p].last = "other"]
    /\ closing' = [closing EXCEPT ![k] = p]
    /\ UNCHANGED <<mode, tunnel, queue, signals, objects, reg, watchers, expired, timers,
                   ioAlive, up>>

\* ... and, after the log forwarders are stopped, close_session() removes whatever object is
\* at the path.
CloseRemove(k) ==
    /\ up
    /\ closing[k] # None
    /\ objects' = objects \ {closing[k]}
    /\ session' = [session EXCEPT ![closing[k]] = Removed(@)]
    /\ closing' = [closing EXCEPT ![k] = None]
    /\ UNCHANGED <<mode, proc, tunnel, queue, signals, reg, watchers, expired, timers,
                   ioAlive, up>>

(***************************************************************************)
(* Sharing a session, on a method-call thread.  Session::Authorize() lets  *)
(* the owner only, once the client process has answered Ping.              *)
(***************************************************************************)
AccessGrant(u, v, p) ==
    /\ up
    /\ p \in objects /\ Responds(p)
    /\ CheckOwnerAccess(session[p].access, u)
    /\ CanGrant(session[p].access, v)
    /\ session' = [session EXCEPT ![p].access = GrantAccess(@, v), ![p].revoked = @ \ {v}]
    /\ UNCHANGED <<mode, proc, tunnel, queue, signals, objects, reg, watchers, expired, timers,
                   ioAlive, closing, up>>

AccessRevoke(u, v, p) ==
    /\ up
    /\ p \in objects /\ Responds(p)
    /\ CheckOwnerAccess(session[p].access, u)
    /\ CanRevoke(session[p].access, v)
    /\ session' = [session EXCEPT ![p].access = RevokeAccess(@, v), ![p].revoked = @ \cup {v}]
    /\ UNCHANGED <<mode, proc, tunnel, queue, signals, objects, reg, watchers, expired, timers,
                   ioAlive, closing, up>>

(***************************************************************************)
(* The environment: client processes and the configuration manager.        *)
(***************************************************************************)
\* BusNameAcquired(): the process sends its RegistrationRequest.
RegisterClient(b) ==
    /\ proc[b] = "starting"
    /\ proc' = [proc EXCEPT ![b] = "waiting"]
    /\ signals' = signals \cup {b}
    /\ UNCHANGED <<mode, tunnel, mgrVars>>

BackendDies(b) ==
    /\ b \in Running
    /\ proc' = [proc EXCEPT ![b] = "dead"]
    /\ UNCHANGED <<mode, tunnel, signals, mgrVars>>

SetOverride(c, m) ==
    /\ mode[c] # m
    /\ mode' = [mode EXCEPT ![c] = m]
    /\ UNCHANGED <<proc, tunnel, signals, mgrVars>>

(***************************************************************************)
(* The specification.                                                      *)
(***************************************************************************)
MainLoop(b) ==
    \/ \E transfer \in Transfers : RegisterNew(b, transfer)
    \/ RegisterRestarted(b) \/ RegisterClash(b)
    \/ RegisterConfirmed(b) \/ RegisterFailed(b)
    \/ RegisterConnect(b) \/ ResetReleased(b)
    \/ \E longAgo \in BOOLEAN : NameDisappeared(b, longAgo)
    \/ NullBackend(b)

Next ==
    \/ \E b \in Backends, p \in Paths, res \in StartResults :
          \/ \E u \in Users, c \in Configs : NewTunnel(u, c, p, b, res)
          \/ TimerFires(p, b, res)
    \/ \E b \in Backends : MainLoop(b) \/ RegisterClient(b) \/ BackendDies(b)
    \/ \E p \in Paths, event \in {"connected", "other"} : StatusChange(p, event)
    \/ \E k \in Callers, p \in Paths :
          AccessDeadBackend(k, p) \/ \E u \in Users : Disconnect(k, u, p)
    \/ \E k \in Callers : CloseRemove(k)
    \/ \E u \in Users, v \in Guests, p \in Paths : AccessGrant(u, v, p) \/ AccessRevoke(u, v, p)
    \/ \E c \in Configs, m \in Modes : SetOverride(c, m)

Spec == Init /\ [][Next]_vars

\* The main loop, the timer thread and the method-call threads are never suspended for ever,
\* and a client process that is started either registers or dies.
Fairness ==
    /\ \A b \in Backends : WF_vars(MainLoop(b)) /\ WF_vars(RegisterClient(b))
    /\ \A p \in Paths : WF_vars(\E b \in Backends, res \in StartResults : TimerFires(p, b, res))
    /\ \A k \in Callers : WF_vars(CloseRemove(k))

FairSpec == Spec /\ Fairness

(***************************************************************************)
(* Properties.                                                             *)
(***************************************************************************)
TypeOK ==
    /\ mode \in [Configs -> Modes]
    /\ proc \in [Backends -> ProcStates]
    /\ tunnel \in [Backends -> TunnelRecord]
    /\ queue \subseteq Backends
    /\ signals \subseteq Backends
    /\ objects \subseteq Paths
    /\ session \in [Paths -> Session]
    /\ reg \in Registration
    /\ watchers \subseteq Backends
    /\ expired \subseteq Backends
    /\ timers \in [Paths -> Timer]
    /\ ioAlive \in BOOLEAN
    /\ closing \in [Callers -> Paths \cup {None}]
    /\ up \in BOOLEAN

\* The token of a RegistrationRequest is always found in the queue, so that "Unknown session
\* token received" is never the fate of a process the session manager started: AddTunnel()
\* queues the record before StartClient, keeps it when StartClient fails, and
\* process_registration() takes it exactly once.
TokenKnown == signals \subseteq queue

\* Every process started for a session path, the first one and each restart of it, is
\* started for the same profile and on behalf of the same user.
PathOrigin ==
    \A b1, b2 \in Started : tunnel[b1].path = tunnel[b2].path => tunnel[b1] = tunnel[b2]

\* A session object only ever talks to a process that was started for that very session
\* path and profile, across restarts, re-creations and concurrent closes
\* (process_registration(), ResetBackend()).
BackendBinding ==
    \A p \in objects : session[p].be # None =>
        /\ session[p].be \in Started
        /\ tunnel[session[p].be].path = p
        /\ tunnel[session[p].be].config = session[p].config

\* What is left to the user u who started session s.
Entitled(s, u) ==
    /\ s.access.owner \in {u, ConfigOwner[s.config]}
    /\ CheckACL(s.access, u, {s.access.owner}, FALSE) \/ u \in s.revoked

\* A session belongs to the user who started it or to the profile's owner, and the user who
\* started it can access it unless the owner has revoked that: whatever becomes of the transfer
\* of the ownership in process_registration(), across restarts and for a session that a restart
\* re-creates.  (AccessGrant and AccessRevoke are the owner's.)
OwnerKept ==
    \A p \in objects : \E b \in Started : tunnel[b].path = p /\ Entitled(session[p], tunnel[b].owner)

\* What BackendBinding and OwnerKept rest on: tokens, watchers and the registration at hand
\* stem from AddTunnel(); a session has the profile and the access rights, and an armed timer
\* the profile and the owner, of a process started for their path.
TokenOrigin ==
    /\ queue \subseteq Started
    /\ watchers \subseteq Started
    /\ reg.phase # "idle" => reg.be \in Started
    /\ \A b \in Backends : proc[b] = "starting" => b \in queue /\ b \notin signals

SessionOrigin ==
    \A p \in objects : \E b \in Started :
        /\ tunnel[b].path = p
        /\ session[p].config = tunnel[b].config
        /\ Entitled(session[p], tunnel[b].owner)

TimerOrigin ==
    \A p \in Paths : timers[p].entry.armed =>
        \E b \in Started :
            /\ tunnel[b].path = p
            /\ tunnel[b].config = timers[p].config
            /\ tunnel[b].owner = timers[p].owner

\* A session path never has two client processes running at the same time.
OneRunningPerPath ==
    \A b1, b2 \in Running : tunnel[b1].path = tunnel[b2].path => b1 = b2

\* What OneRunningPerPath rests on: at most one process of a path runs or can still arm its
\* restart timer, and while the timer is armed there is none.  A token still in the queue, or
\* being confirmed, is not watched.
CanRestart(b) ==
    \/ b \in Running
    \/ reg.phase = "connect" /\ reg.be = b
    \/ b \in watchers \ expired /\ tunnel[b].path \in BoundTo(b)

OneLivePerPath ==
    /\ \A b1, b2 \in Started :
          CanRestart(b1) /\ CanRestart(b2) /\ tunnel[b1].path = tunnel[b2].path => b1 = b2
    /\ \A b \in Started : CanRestart(b) => ~timers[tunnel[b].path].entry.armed

NotWatchedYet ==
    /\ queue \cap watchers = {}
    /\ reg.phase # "idle" => reg.be \notin queue
    /\ reg.phase = "confirm" => reg.be \notin watchers

IndInv ==
    /\ TypeOK /\ TokenKnown /\ TokenOrigin /\ PathOrigin
    /\ SessionOrigin /\ TimerOrigin /\ BackendBinding
    /\ OneLivePerPath /\ NotWatchedYet

(***************************************************************************)
(* Progress of the automatic restart.                                      *)
(***************************************************************************)
Crashed(p) ==
    /\ p \in objects /\ session[p].named = "yes"
    /\ session[p].be \in Backends /\ proc[session[p].be] = "dead"
Served(p) == p \in objects /\ Responds(p)
GaveUp(p) == timers[p].entry.retries > MaxRetries /\ ~timers[p].entry.armed

\* A process started for p that died before it sent its RegistrationRequest (or was never
\* started): nothing watches it.
LostStart(p) == \E b \in queue \ signals : tunnel[b].path = p /\ proc[b] = "dead"

\* The instance has no process left to start.
Exhausted == Started = Backends

\* With automatic-restart on-failure, a session with a confirmed process that died gets a running process
\* again, is closed, or has used up its retries, unless the timer thread has ended, the
\* session manager has crashed or the new process died before it registered.
RestartCompletes ==
    \A p \in Paths : Crashed(p) ~>
        \/ Served(p) \/ p \notin objects \/ GaveUp(p)
        \/ LostStart(p) \/ ~ioAlive \/ ~up \/ Exhausted

=============================================================================
