----------------------- MODULE SessionManagerProofs -----------------------
(***************************************************************************)
(* Proofs about SessionManager for any number of users, profiles, session  *)
(* paths, client processes and method-call threads.                        *)
(***************************************************************************)
EXTENDS SessionManager, TLAPS

\* The restart timer's operators keep an entry well-formed.
LEMMA EntryType ==
    ASSUME NEW t \in [retries: Nat, armed: BOOLEAN], NEW c \in BOOLEAN, NEW l \in BOOLEAN
    PROVE  /\ Backoff!Disappeared(t, c, l) \in [retries: Nat, armed: BOOLEAN]
           /\ Backoff!Fired(t) \in [retries: Nat, armed: BOOLEAN]
<1>1. Backoff!Entry(t) \in [retries: Nat, armed: BOOLEAN]
  BY DEF Backoff!Entry
<1>2. Backoff!Reset(t, c, l) \in [retries: Nat, armed: BOOLEAN]
  BY <1>1 DEF Backoff!Reset
<1>3. Backoff!Arm(Backoff!Reset(t, c, l)) \in [retries: Nat, armed: BOOLEAN]
  BY <1>2 DEF Backoff!Arm
<1> QED BY <1>3 DEF Backoff!Disappeared, Backoff!Fired

\* The access rights of a new session, whatever becomes of the transfer of its ownership.
LEMMA NewAccessType ==
    ASSUME NEW r \in TunnelRecord, NEW t \in Transfers
    PROVE  /\ NewAccess(r, t) \in ACLRecord(Users)
           /\ CheckACL(NewAccess(r, t), r.owner, {NewAccess(r, t).owner}, FALSE)
           /\ NewAccess(r, t).owner \in {r.owner, ConfigOwner[r.config]}
<1>1. r.owner \in Users /\ r.config \in Configs
  BY DEF TunnelRecord
<1>2. ConfigOwner[r.config] \in Users
  BY <1>1, ConfigAssumption
<1>3. CASE t = "moved"
  <2>1. NewAccess(r, t) = [owner |-> ConfigOwner[r.config], acl |-> {r.owner}, public |-> FALSE]
    BY <1>3 DEF NewAccess, MoveToOwner, GrantAccess, TransferOwnership, Create
  <2> DEFINE a == [owner |-> ConfigOwner[r.config], acl |-> {r.owner}, public |-> FALSE]
  <2>2. a \in ACLRecord(Users)
    BY <1>1, <1>2 DEF ACLRecord
  <2>3. CheckACL(a, r.owner, {a.owner}, FALSE) /\ a.owner = ConfigOwner[r.config]
    BY DEF CheckACL
  <2> QED BY <2>1, <2>2, <2>3
<1>4. CASE t # "moved"
  <2>1. NewAccess(r, t) = [owner |-> r.owner, acl |-> {}, public |-> FALSE]
    BY <1>4 DEF NewAccess, Create
  <2> QED BY <1>1, <1>4, <2>1 DEF ACLRecord, CheckACL
<1> QED BY <1>3, <1>4

\* What a session's user may do depends on its profile, its access list and its history.
LEMMA EntitledSame ==
    ASSUME NEW s, NEW t, NEW u, t.config = s.config, t.access = s.access, t.revoked = s.revoked,
           Entitled(s, u)
    PROVE  Entitled(t, u)
BY DEF Entitled

LEMMA AnyType == AnyUser \in Users /\ AnyConfig \in Configs /\ AnyPath \in Paths
BY SomeAssumption DEF AnyUser, AnyConfig, AnyPath

\* The initial state is well-formed.
LEMMA InitType == Init => TypeOK
<1> SUFFICES ASSUME Init PROVE TypeOK
  OBVIOUS
<1>1. tunnel \in [Backends -> TunnelRecord]
  BY AnyType DEF Init, TunnelRecord
<1>2. session \in [Paths -> Session]
  BY AnyType DEF Init, Session, Create, ACLRecord
<1>3. timers \in [Paths -> Timer]
  BY AnyType DEF Init, Timer, Backoff!NoEntry
<1>4. reg \in Registration
  BY DEF Init, Registration, Idle
<1> QED BY <1>1, <1>2, <1>3, <1>4 DEF Init, TypeOK, ProcStates

\* Every action keeps the state well-formed.
LEMMA StepType == TypeOK /\ [Next]_vars => TypeOK'
<1> SUFFICES ASSUME TypeOK, [Next]_vars PROVE TypeOK'
  OBVIOUS
<1>1. ASSUME NEW b \in Backends, NEW r \in TunnelRecord, NEW res, AddTunnel(b, r, res)
      PROVE  /\ tunnel' \in [Backends -> TunnelRecord]
             /\ queue' \subseteq Backends
             /\ proc' \in [Backends -> ProcStates]
  BY <1>1 DEF AddTunnel, TypeOK, ProcStates
<1>2. ASSUME NEW u \in Users, NEW c \in Configs, NEW p \in Paths, NEW b \in Backends, NEW res,
             NewTunnel(u, c, p, b, res)
      PROVE  TypeOK'
  <2>1. [path |-> p, config |-> c, owner |-> u] \in TunnelRecord
    BY DEF TunnelRecord
  <2> QED BY <1>1, <1>2, <2>1 DEF NewTunnel, TypeOK
<1>3. ASSUME NEW p \in Paths, NEW b \in Backends, NEW res, TimerFires(p, b, res)
      PROVE  TypeOK'
  <2>1. timers[p] \in Timer
    BY DEF TypeOK
  <2>2. [path |-> p, config |-> timers[p].config, owner |-> timers[p].owner] \in TunnelRecord
    BY <2>1 DEF TunnelRecord, Timer
  <2>3. timers[p].entry \in [retries: Nat, armed: BOOLEAN]
    BY <2>1 DEF Timer
  <2>4. Backoff!Fired(timers[p].entry) \in [retries: Nat, armed: BOOLEAN]
    BY <2>3, EntryType
  <2>5. timers' \in [Paths -> Timer]
    BY <1>3, <2>4 DEF TimerFires, TypeOK, Timer
  <2> QED BY <1>1, <1>3, <2>2, <2>5 DEF TimerFires, TypeOK
<1>4. ASSUME NEW b \in Backends, TakeToken(b)
      PROVE  signals' \subseteq Backends /\ queue' \subseteq Backends
  BY <1>4 DEF TakeToken, TypeOK
<1>5. ASSUME NEW b \in Backends, NEW pre \in BOOLEAN, Confirm(b, pre)
      PROVE  reg' \in Registration
  <2>1. mode[tunnel[b].config] \in {"unset", "no", "on-failure"}
    BY ModesAssumption DEF TypeOK, TunnelRecord
  <2> QED BY <1>5, <2>1 DEF Confirm, Registration
<1>6. ASSUME NEW b \in Backends, NEW transfer \in Transfers, RegisterNew(b, transfer)
      PROVE  TypeOK'
  <2>1. tunnel[b] \in TunnelRecord
    BY DEF TypeOK
  <2>2. NewSession(b, transfer) \in Session
    BY <2>1, NewAccessType DEF NewSession, Session, TunnelRecord
  <2>3. session' \in [Paths -> Session] /\ objects' \subseteq Paths
    BY <1>6, <2>1, <2>2 DEF RegisterNew, TypeOK, TunnelRecord
  <2>4. reg' \in Registration
    BY <1>5, <1>6 DEF RegisterNew, TypeOK
  <2> QED BY <1>4, <1>6, <2>3, <2>4 DEF RegisterNew, TypeOK
<1>7. ASSUME NEW b \in Backends, RegisterRestarted(b)
      PROVE  TypeOK'
  BY <1>4, <1>5, <1>7 DEF RegisterRestarted, TypeOK
<1>8. ASSUME NEW b \in Backends, RegisterClash(b)
      PROVE  TypeOK'
  BY <1>4, <1>8 DEF RegisterClash, TypeOK
<1>9. ASSUME NEW b \in Backends, Watch(b)
      PROVE  watchers' \subseteq Backends /\ expired' \subseteq Backends
  BY <1>9 DEF Watch, TypeOK
<1>10. Idle \in Registration
  BY DEF Idle, Registration
<1>11. ASSUME NEW b \in Backends, RegisterConfirmed(b)
       PROVE  TypeOK'
  <2>1. [reg EXCEPT !.phase = "connect"] \in Registration
    BY DEF TypeOK, Registration
  <2>2. reg' \in Registration
    BY <1>10, <1>11, <2>1 DEF RegisterConfirmed
  <2>3. session' \in [Paths -> Session]
    BY <1>11 DEF RegisterConfirmed, TypeOK, Session
  <2> QED BY <1>9, <1>11, <2>2, <2>3 DEF RegisterConfirmed, TypeOK, ProcStates
<1>23. \A p \in Paths : Removed(session[p]) \in Session
  BY AnyType DEF Removed, Session, TypeOK, Create, ACLRecord
<1>12. ASSUME NEW b \in Backends, RegisterFailed(b)
       PROVE  TypeOK'
  <2>1. watchers' \subseteq Backends /\ expired' \subseteq Backends
    BY <1>9, <1>12 DEF RegisterFailed, TypeOK
  <2>2. session' \in [Paths -> Session]
    BY <1>12, <1>23 DEF RegisterFailed, TypeOK
  <2> QED BY <1>10, <1>12, <2>1, <2>2 DEF RegisterFailed, TypeOK, ProcStates
<1>13. ASSUME NEW b \in Backends, RegisterConnect(b)
       PROVE  TypeOK'
  <2>1. session' \in [Paths -> Session]
    BY <1>13 DEF RegisterConnect, TypeOK, Session
  <2> QED BY <1>10, <1>13, <2>1 DEF RegisterConnect, TypeOK
<1>14. ASSUME NEW p \in Paths, NEW event \in {"connected", "other"}, StatusChange(p, event)
       PROVE  TypeOK'
  <2>1. session' \in [Paths -> Session]
    BY <1>14 DEF StatusChange, TypeOK, Session
  <2> QED BY <1>14, <2>1 DEF StatusChange, TypeOK
<1>15. ASSUME NEW b \in Backends, NEW longAgo \in BOOLEAN, NameDisappeared(b, longAgo)
       PROVE  TypeOK'
  <2>1. timers' \in [Paths -> Timer]
    <3>1. CASE UNCHANGED timers
      BY <3>1 DEF TypeOK
    <3>2. ASSUME NEW p \in Paths, NEW c \in BOOLEAN,
                 timers' = [timers EXCEPT ![p] =
                     Captured(p, b, Backoff!Disappeared(timers[p].entry, c, longAgo))]
          PROVE  timers' \in [Paths -> Timer]
      <4>1. timers[p].entry \in [retries: Nat, armed: BOOLEAN]
        BY DEF TypeOK, Timer
      <4>2. Backoff!Disappeared(timers[p].entry, c, longAgo) \in [retries: Nat, armed: BOOLEAN]
        BY <4>1, EntryType
      <4>3. tunnel[b].config \in Configs /\ tunnel[b].owner \in Users
        BY DEF TypeOK, TunnelRecord
      <4>4. Captured(p, b, Backoff!Disappeared(timers[p].entry, c, longAgo)) \in Timer
        BY <4>2, <4>3 DEF Captured, Timer
      <4> QED BY <3>2, <4>4 DEF TypeOK
    <3> QED BY <1>15, <3>1, <3>2 DEF NameDisappeared, BoundTo, TypeOK
  <2> QED BY <1>15, <2>1 DEF NameDisappeared, TypeOK
<1>16. ASSUME NEW b \in Backends, NullBackend(b) \/ ResetReleased(b)
       PROVE  TypeOK'
  BY <1>16 DEF NullBackend, ResetReleased, TypeOK
<1>17. ASSUME NEW k \in Callers, NEW p \in Paths, AccessDeadBackend(k, p)
       PROVE  TypeOK'
  <2>1. session' \in [Paths -> Session]
    <3>1. [session[p] EXCEPT !.be = None, !.last = "other"] \in Session
      BY DEF TypeOK, Session
    <3> QED BY <1>17, <3>1 DEF AccessDeadBackend, TypeOK
  <2> QED BY <1>17, <2>1 DEF AccessDeadBackend, TypeOK
<1>18. ASSUME NEW k \in Callers, NEW p \in Paths, NEW u \in Users, Disconnect(k, u, p)
       PROVE  TypeOK'
  <2>1. session' \in [Paths -> Session]
    BY <1>18 DEF Disconnect, TypeOK, Session
  <2> QED BY <1>18, <2>1 DEF Disconnect, TypeOK, ProcStates
<1>19. ASSUME NEW k \in Callers, CloseRemove(k)
       PROVE  TypeOK'
  <2>1. session' \in [Paths -> Session]
    BY <1>19, <1>23 DEF CloseRemove, TypeOK
  <2> QED BY <1>19, <2>1 DEF CloseRemove, TypeOK
<1>24. ASSUME NEW u \in Users, NEW v \in Guests, NEW p \in Paths,
              AccessGrant(u, v, p) \/ AccessRevoke(u, v, p)
       PROVE  TypeOK'
  <2>1. session[p] \in Session /\ session[p].access \in ACLRecord(Users) /\ v \in Users
    BY GuestsAssumption DEF TypeOK, Session
  <2>2. /\ GrantAccess(session[p].access, v) \in ACLRecord(Users)
        /\ RevokeAccess(session[p].access, v) \in ACLRecord(Users)
    BY <2>1 DEF GrantAccess, RevokeAccess, ACLRecord
  <2>3. session' \in [Paths -> Session]
    <3>1. CASE AccessGrant(u, v, p)
      BY <2>1, <2>2, <3>1 DEF AccessGrant, TypeOK, Session
    <3>2. CASE AccessRevoke(u, v, p)
      BY <2>1, <2>2, <3>2 DEF AccessRevoke, TypeOK, Session
    <3> QED BY <1>24, <3>1, <3>2
  <2> QED BY <1>24, <2>3 DEF AccessGrant, AccessRevoke, TypeOK
<1>20. ASSUME NEW b \in Backends, RegisterClient(b) \/ BackendDies(b)
       PROVE  TypeOK'
  BY <1>20 DEF RegisterClient, BackendDies, mgrVars, TypeOK, ProcStates
<1>21. ASSUME NEW c \in Configs, NEW m \in Modes, SetOverride(c, m)
       PROVE  TypeOK'
  BY <1>21 DEF SetOverride, mgrVars, TypeOK
<1>22. CASE UNCHANGED vars
  BY <1>22 DEF vars, TypeOK
<1> QED
  BY <1>2, <1>3, <1>6, <1>7, <1>8, <1>11, <1>12, <1>13, <1>14, <1>15, <1>16, <1>17, <1>18, <1>19,
     <1>20, <1>21, <1>22, <1>24 DEF Next, MainLoop

\* The state of the session manager stays well-formed.
THEOREM TypeCorrect == Spec => []TypeOK
BY InitType, StepType, PTL DEF Spec

(***************************************************************************)
(* The origin of tokens, sessions and timers.                              *)
(***************************************************************************)

\* AddTunnel() takes a new token and leaves the records of the started ones alone.
LEMMA AddTunnelStarts ==
    ASSUME TypeOK, NEW b \in Backends, NEW r \in TunnelRecord, NEW res, AddTunnel(b, r, res)
    PROVE  /\ Started' = Started \cup {b}
           /\ b \notin Started
           /\ tunnel'[b] = r
           /\ \A x \in Started : tunnel'[x] = tunnel[x]
           /\ \A x \in Backends : x # b => proc'[x] = proc[x]
BY DEF AddTunnel, Started, TypeOK

\* No other action starts a process or changes a record.
LEMMA OthersStartNone ==
    ASSUME TypeOK, TokenOrigin, [Next]_vars,
           ~ \E p \in Paths, b \in Backends, res \in StartResults :
                \/ \E u \in Users, c \in Configs : NewTunnel(u, c, p, b, res)
                \/ TimerFires(p, b, res)
    PROVE  tunnel' = tunnel /\ Started' = Started
<1>1. CASE \E b \in Backends : MainLoop(b)
  <2> PICK b \in Backends : MainLoop(b)
    BY <1>1
  <2>1. CASE RegisterConfirmed(b)
    BY <2>1 DEF RegisterConfirmed, Started, TypeOK
  <2>2. CASE RegisterFailed(b)
    <3>1. proc[b] # "none"
      BY <2>2 DEF RegisterFailed, TokenOrigin, Started
    <3> QED BY <2>2, <3>1 DEF RegisterFailed, Started, TypeOK
  <2>3. CASE (\E transfer \in Transfers : RegisterNew(b, transfer)) \/ RegisterRestarted(b) \/ RegisterClash(b) \/ RegisterConnect(b)
    BY <2>3 DEF RegisterNew, RegisterRestarted, RegisterClash, RegisterConnect, Started
  <2>5. CASE ResetReleased(b)
    BY <2>5 DEF ResetReleased, Started
  <2>4. CASE NullBackend(b) \/ \E longAgo \in BOOLEAN : NameDisappeared(b, longAgo)
    BY <2>4 DEF NullBackend, NameDisappeared, Started
  <2> QED BY <2>1, <2>2, <2>3, <2>4, <2>5 DEF MainLoop
<1>2. CASE \E b \in Backends : RegisterClient(b) \/ BackendDies(b)
  BY <1>2 DEF RegisterClient, BackendDies, Running, Started, TypeOK
<1>3. CASE \E p \in Paths, event \in {"connected", "other"} : StatusChange(p, event)
  BY <1>3 DEF StatusChange, Started
<1>4. ASSUME NEW k \in Callers, NEW p \in Paths,
             AccessDeadBackend(k, p) \/ \E u \in Users : Disconnect(k, u, p)
      PROVE  tunnel' = tunnel /\ Started' = Started
  <2>1. CASE AccessDeadBackend(k, p)
    BY <2>1 DEF AccessDeadBackend, Started
  <2>2. CASE \E u \in Users : Disconnect(k, u, p)
    <3>1. /\ session[p].be \in Running
          /\ proc' = [proc EXCEPT ![session[p].be] = "dead"]
          /\ tunnel' = tunnel
      BY <2>2 DEF Disconnect, Responds
    <3> QED BY <3>1 DEF Running, Started, TypeOK
  <2> QED BY <1>4, <2>1, <2>2
<1>5. CASE \E k \in Callers : CloseRemove(k)
  BY <1>5 DEF CloseRemove, Started
<1>6. CASE \E c \in Configs, m \in Modes : SetOverride(c, m)
  BY <1>6 DEF SetOverride, Started
<1>8. CASE \E u \in Users, v \in Guests, p \in Paths : AccessGrant(u, v, p) \/ AccessRevoke(u, v, p)
  BY <1>8 DEF AccessGrant, AccessRevoke, Started
<1>7. CASE UNCHANGED vars
  BY <1>7 DEF vars, Started
<1> QED BY <1>1, <1>2, <1>3, <1>4, <1>5, <1>6, <1>7, <1>8 DEF Next

\* Tokens: every RegistrationRequest, watcher and registration is one of a started process
\* whose record is or was queued.
LEMMA TokenStep ==
    ASSUME TypeOK, TokenKnown, TokenOrigin, [Next]_vars
    PROVE  TokenKnown' /\ TokenOrigin'
<1> USE DEF TokenKnown, TokenOrigin
<1>1. ASSUME NEW b \in Backends, NEW r \in TunnelRecord, NEW res, AddTunnel(b, r, res),
             UNCHANGED <<signals, watchers, reg>>
      PROVE  TokenKnown' /\ TokenOrigin'
  <2>1. Started' = Started \cup {b} /\ b \notin Started
    BY <1>1, AddTunnelStarts
  <2>2. queue' = queue \cup {b}
    BY <1>1 DEF AddTunnel
  <2>3. \A x \in Backends : x # b => proc'[x] = proc[x]
    BY <1>1, AddTunnelStarts
  <2>4. b \notin signals
    BY <2>1
  <2> QED BY <1>1, <2>1, <2>2, <2>3, <2>4
<1>2. ASSUME NEW u \in Users, NEW c \in Configs, NEW p \in Paths, NEW b \in Backends, NEW res,
             NewTunnel(u, c, p, b, res)
      PROVE  TokenKnown' /\ TokenOrigin'
  <2>1. [path |-> p, config |-> c, owner |-> u] \in TunnelRecord
    BY DEF TunnelRecord
  <2> QED BY <1>1, <1>2, <2>1 DEF NewTunnel
<1>3. ASSUME NEW p \in Paths, NEW b \in Backends, NEW res, TimerFires(p, b, res)
      PROVE  TokenKnown' /\ TokenOrigin'
  <2>1. [path |-> p, config |-> timers[p].config, owner |-> timers[p].owner] \in TunnelRecord
    BY DEF TunnelRecord, Timer, TypeOK
  <2> QED BY <1>1, <1>3, <2>1 DEF TimerFires
<1>4. ASSUME tunnel' = tunnel, Started' = Started
      PROVE  TokenKnown' /\ TokenOrigin'
  <2>1. ASSUME NEW b \in Backends, TakeToken(b)
        PROVE  /\ signals' \subseteq queue'
               /\ queue' \subseteq Started
               /\ proc[b] # "starting"
               /\ \A x \in Backends : x # b => (x \in queue <=> x \in queue')
               /\ signals' \subseteq signals
               /\ b \in Started
    BY <2>1 DEF TakeToken
  <2>2. ASSUME NEW b \in Backends, (\E transfer \in Transfers : RegisterNew(b, transfer)) \/ RegisterRestarted(b) \/ RegisterClash(b)
        PROVE  TokenKnown' /\ TokenOrigin'
    <3>1. TakeToken(b) /\ proc' = proc /\ watchers' = watchers
      BY <2>2 DEF RegisterNew, RegisterRestarted, RegisterClash
    <3>2. reg'.phase # "idle" => reg'.be \in Started
      <4>1. reg' = reg \/ \E pre \in BOOLEAN : Confirm(b, pre)
        BY <2>2 DEF RegisterNew, RegisterRestarted, RegisterClash
      <4>2. reg' = reg \/ reg'.be = b
        BY <4>1 DEF Confirm
      <4> QED BY <2>1, <3>1, <4>2
    <3> QED BY <1>4, <2>1, <3>1, <3>2
  <2>3. ASSUME NEW b \in Backends, RegisterConfirmed(b) \/ RegisterFailed(b)
        PROVE  TokenKnown' /\ TokenOrigin'
    <3>1. b \in Started /\ queue' = queue /\ signals' = signals
      BY <2>3 DEF RegisterConfirmed, RegisterFailed
    <3>2. watchers' \subseteq Started
      BY <2>3, <3>1 DEF RegisterConfirmed, RegisterFailed, Watch
    <3>3. reg'.phase # "idle" => reg'.be = b
      BY <2>3 DEF RegisterConfirmed, RegisterFailed, Idle, TypeOK, Registration
    <3>4. \A x \in Backends : proc'[x] = "starting" => proc[x] = "starting"
      BY <2>3 DEF RegisterConfirmed, RegisterFailed, TypeOK
    <3> QED BY <1>4, <3>1, <3>2, <3>3, <3>4
  <2>4. ASSUME NEW b \in Backends, RegisterConnect(b)
        PROVE  TokenKnown' /\ TokenOrigin'
    BY <1>4, <2>4 DEF RegisterConnect, Idle
  <2>5. ASSUME NEW b \in Backends,
               \/ NullBackend(b) \/ ResetReleased(b)
               \/ \E longAgo \in BOOLEAN : NameDisappeared(b, longAgo)
        PROVE  TokenKnown' /\ TokenOrigin'
    BY <1>4, <2>5 DEF NullBackend, ResetReleased, NameDisappeared
  <2>6. ASSUME NEW b \in Backends, RegisterClient(b)
        PROVE  TokenKnown' /\ TokenOrigin'
    <3>1. /\ b \in queue /\ signals' = signals \cup {b}
          /\ UNCHANGED <<queue, watchers, reg>>
      BY <2>6 DEF RegisterClient, mgrVars
    <3>2. \A x \in Backends : proc'[x] = "starting" => proc[x] = "starting" /\ x # b
      BY <2>6 DEF RegisterClient, TypeOK
    <3> QED BY <1>4, <3>1, <3>2
  <2>7. ASSUME NEW b \in Backends, BackendDies(b)
        PROVE  TokenKnown' /\ TokenOrigin'
    <3>1. UNCHANGED <<queue, signals, watchers, reg>>
      BY <2>7 DEF BackendDies, mgrVars
    <3>2. \A x \in Backends : proc'[x] = "starting" => proc[x] = "starting"
      BY <2>7 DEF BackendDies, TypeOK
    <3> QED BY <1>4, <3>1, <3>2
  <2>8. ASSUME NEW k \in Callers, NEW p \in Paths, NEW u \in Users, Disconnect(k, u, p)
        PROVE  TokenKnown' /\ TokenOrigin'
    <3>1. UNCHANGED <<queue, signals, watchers, reg>>
      BY <2>8 DEF Disconnect
    <3>2. \A x \in Backends : proc'[x] = "starting" => proc[x] = "starting"
      BY <2>8 DEF Disconnect, TypeOK
    <3> QED BY <1>4, <3>1, <3>2
  <2>9. ASSUME UNCHANGED <<proc, queue, signals, watchers, reg>>
        PROVE  TokenKnown' /\ TokenOrigin'
    BY <1>4, <2>9
  <2> QED
    BY <1>2, <1>3, <2>2, <2>3, <2>4, <2>5, <2>6, <2>7, <2>8, <2>9
    DEF Next, MainLoop, StatusChange, AccessDeadBackend, AccessGrant, AccessRevoke, CloseRemove,
        SetOverride, mgrVars, vars
<1> QED BY <1>2, <1>3, <1>4, OthersStartNone

\* The invariant that ties paths, sessions and timers to the processes started for them.
Origins == PathOrigin /\ SessionOrigin /\ TimerOrigin /\ BackendBinding

\* A session object that is kept, with its profile, what its user may do and the same client
\* process or none, keeps its origin as long as the started processes do.
LEMMA SessionsKept ==
    ASSUME TypeOK, SessionOrigin, BackendBinding,
           Started \subseteq Started', \A x \in Started : tunnel'[x] = tunnel[x],
           objects' \subseteq objects,
           \A p \in objects : /\ session'[p].config = session[p].config
                              /\ \A u \in Users : Entitled(session[p], u) => Entitled(session'[p], u)
                              /\ session'[p].be \in {session[p].be, None}
    PROVE  SessionOrigin' /\ BackendBinding'
<1>1. SessionOrigin'
  <2> SUFFICES ASSUME NEW p \in objects'
               PROVE  \E b \in Started' : /\ tunnel'[b].path = p
                                          /\ session'[p].config = tunnel'[b].config
                                          /\ Entitled(session'[p], tunnel'[b].owner)
    BY DEF SessionOrigin
  <2>1. PICK b \in Started : /\ tunnel[b].path = p
                             /\ session[p].config = tunnel[b].config
                             /\ Entitled(session[p], tunnel[b].owner)
    BY DEF SessionOrigin
  <2>2. tunnel[b].owner \in Users
    BY DEF TypeOK, Started, TunnelRecord
  <2> QED BY <2>1, <2>2
<1>2. BackendBinding'
  BY DEF BackendBinding
<1> QED BY <1>1, <1>2

\* Starting another process for a path, fresh or of an armed timer.
LEMMA AddTunnelOrigins ==
    ASSUME TypeOK, Origins, NEW b \in Backends, NEW r \in TunnelRecord, NEW res,
           AddTunnel(b, r, res),
           \A x \in Started : tunnel[x].path = r.path => tunnel[x] = r,
           UNCHANGED <<session, objects>>,
           \A p \in Paths : timers'[p].entry.armed => timers'[p] = timers[p]
    PROVE  Origins'
<1>1. /\ Started' = Started \cup {b} /\ b \notin Started
      /\ tunnel'[b] = r
      /\ \A x \in Started : tunnel'[x] = tunnel[x]
  BY AddTunnelStarts
<1>2. PathOrigin'
  <2> SUFFICES ASSUME NEW x \in Started', NEW y \in Started', tunnel'[x].path = tunnel'[y].path
               PROVE  tunnel'[x] = tunnel'[y]
    BY DEF PathOrigin
  <2>1. CASE x \in Started /\ y \in Started
    BY <1>1, <2>1 DEF Origins, PathOrigin
  <2>2. CASE x = b \/ y = b
    BY <1>1, <2>2
  <2> QED BY <1>1, <2>1, <2>2
<1>3. SessionOrigin' /\ BackendBinding'
  BY <1>1, SessionsKept DEF Origins
<1>4. TimerOrigin'
  BY <1>1 DEF Origins, TimerOrigin
<1> QED BY <1>2, <1>3, <1>4 DEF Origins

\* Every step keeps the origins.
LEMMA OriginStep ==
    ASSUME TypeOK, TokenOrigin, Origins, [Next]_vars
    PROVE  Origins'
<1>1. ASSUME NEW u \in Users, NEW c \in Configs, NEW p \in Paths, NEW b \in Backends, NEW res,
             NewTunnel(u, c, p, b, res)
      PROVE  Origins'
  <2> DEFINE r == [path |-> p, config |-> c, owner |-> u]
  <2>1. r \in TunnelRecord /\ r.path = p
    BY DEF TunnelRecord
  <2>2. AddTunnel(b, r, res) /\ UNCHANGED <<session, objects, timers>>
    BY <1>1 DEF NewTunnel
  <2>3. \A x \in Started : tunnel[x].path # p
    BY <1>1 DEF NewTunnel, FreshPath
  <2> HIDE DEF r
  <2> QED BY <2>1, <2>2, <2>3, AddTunnelOrigins
<1>2. ASSUME NEW p \in Paths, NEW b \in Backends, NEW res, TimerFires(p, b, res)
      PROVE  Origins'
  <2> DEFINE r == [path |-> p, config |-> timers[p].config, owner |-> timers[p].owner]
  <2>1. r \in TunnelRecord
    BY DEF TunnelRecord, Timer, TypeOK
  <2>2. AddTunnel(b, r, res) /\ UNCHANGED <<session, objects>> /\ timers[p].entry.armed
    BY <1>2 DEF TimerFires
  <2>3. PICK y \in Started : /\ tunnel[y].path = p
                             /\ tunnel[y].config = timers[p].config
                             /\ tunnel[y].owner = timers[p].owner
    BY <2>2 DEF Origins, TimerOrigin
  <2>4. tunnel[y] = r
    <3>1. tunnel[y] \in TunnelRecord
      BY DEF TypeOK, Started
    <3> QED BY <2>3, <3>1 DEF TunnelRecord
  <2>5. r.path = p
    OBVIOUS
  <2> HIDE DEF r
  <2>6. \A x \in Started : tunnel[x].path = r.path => tunnel[x] = r
    BY <2>4, <2>5 DEF Origins, PathOrigin
  <2>7. \A q \in Paths : timers'[q].entry.armed => timers'[q] = timers[q]
    <3>1. timers' = [timers EXCEPT ![p].entry = Backoff!Fired(@)]
      BY <1>2 DEF TimerFires
    <3>2. ~timers'[p].entry.armed
      BY <3>1 DEF Backoff!Fired, TypeOK, Timer
    <3> QED BY <3>1, <3>2 DEF TypeOK
  <2> QED BY <2>1, <2>2, <2>6, <2>7, AddTunnelOrigins
<1>3. ASSUME tunnel' = tunnel, Started' = Started
      PROVE  Origins'
  <2>1. PathOrigin'
    BY <1>3 DEF Origins, PathOrigin
  <2>2. ASSUME UNCHANGED timers PROVE TimerOrigin'
    BY <1>3, <2>2 DEF Origins, TimerOrigin
  <2>3. ASSUME UNCHANGED session, objects' \subseteq objects
        PROVE  SessionOrigin' /\ BackendBinding'
    BY <1>3, <2>3, SessionsKept DEF Origins
  <2>4. ASSUME NEW b \in Backends, NEW transfer \in Transfers, RegisterNew(b, transfer)
        PROVE  Origins'
    <3>1. b \in Started /\ tunnel[b] \in TunnelRecord /\ tunnel[b].path \in Paths
      BY <2>4 DEF RegisterNew, TakeToken, TokenOrigin, TypeOK, TunnelRecord
    <3>2. /\ objects' = objects \cup {tunnel[b].path}
          /\ session' = [session EXCEPT ![tunnel[b].path] = NewSession(b, transfer)]
          /\ UNCHANGED timers
      BY <2>4 DEF RegisterNew
    <3>3. /\ session'[tunnel[b].path] = NewSession(b, transfer)
          /\ \A q \in objects : q # tunnel[b].path => session'[q] = session[q]
      BY <3>1, <3>2 DEF TypeOK
    <3>4. SessionOrigin'
      <4> SUFFICES ASSUME NEW q \in objects'
                   PROVE  \E x \in Started : /\ tunnel[x].path = q
                                             /\ session'[q].config = tunnel[x].config
                                             /\ Entitled(session'[q], tunnel[x].owner)
        BY <1>3 DEF SessionOrigin
      <4>1. CASE q = tunnel[b].path
        <5>1. Entitled(NewSession(b, transfer), tunnel[b].owner)
          BY <3>1, NewAccessType DEF Entitled, NewSession
        <5> QED BY <3>1, <3>3, <4>1, <5>1 DEF NewSession
      <4>2. CASE q # tunnel[b].path
        BY <3>2, <3>3, <4>2 DEF Origins, SessionOrigin
      <4> QED BY <4>1, <4>2
    <3>5. BackendBinding'
      <4> SUFFICES ASSUME NEW q \in objects', session'[q].be # None
                   PROVE  /\ session'[q].be \in Started
                          /\ tunnel[session'[q].be].path = q
                          /\ tunnel[session'[q].be].config = session'[q].config
        BY <1>3 DEF BackendBinding
      <4>1. CASE q = tunnel[b].path
        BY <3>1, <3>3, <4>1 DEF NewSession
      <4>2. CASE q # tunnel[b].path
        BY <3>2, <3>3, <4>2 DEF Origins, BackendBinding
      <4> QED BY <4>1, <4>2
    <3> QED BY <2>1, <2>2, <3>2, <3>4, <3>5 DEF Origins
  <2>5. ASSUME NEW b \in Backends, RegisterConnect(b)
        PROVE  Origins'
    <3>1. b \in Started /\ tunnel[b] \in TunnelRecord /\ tunnel[b].path \in Paths
      BY <2>5 DEF RegisterConnect, TokenOrigin, TypeOK, TunnelRecord
    <3>2. UNCHANGED <<timers, objects>>
      BY <2>5 DEF RegisterConnect
    <3>3. CASE tunnel[b].path \notin objects
      BY <2>1, <2>2, <2>3, <2>5, <3>2, <3>3 DEF RegisterConnect, Origins
    <3>4. CASE tunnel[b].path \in objects
      <4>1. session' = [session EXCEPT ![tunnel[b].path].be = b]
        BY <2>5, <3>4 DEF RegisterConnect
      <4>2. \A q \in objects : /\ session'[q].config = session[q].config
                               /\ session'[q].access = session[q].access
                               /\ session'[q].revoked = session[q].revoked
                               /\ q # tunnel[b].path => session'[q].be = session[q].be
        BY <4>1 DEF TypeOK, Session
      <4>3. session'[tunnel[b].path].be = b
        BY <3>1, <4>1 DEF TypeOK, Session
      <4>4. SessionOrigin'
        BY <1>3, <3>2, <4>2, EntitledSame DEF Origins, SessionOrigin
      <4>5. session[tunnel[b].path].config = tunnel[b].config
        <5>1. PICK y \in Started : /\ tunnel[y].path = tunnel[b].path
                                   /\ session[tunnel[b].path].config = tunnel[y].config
          BY <3>4 DEF Origins, SessionOrigin
        <5> QED BY <3>1, <5>1 DEF Origins, PathOrigin
      <4>6. BackendBinding'
        BY <1>3, <3>1, <3>2, <4>2, <4>3, <4>5 DEF Origins, BackendBinding
      <4> QED BY <2>1, <2>2, <3>2, <4>4, <4>6 DEF Origins
    <3> QED BY <3>3, <3>4
  <2>6. ASSUME NEW b \in Backends, NEW longAgo \in BOOLEAN, NameDisappeared(b, longAgo)
        PROVE  Origins'
    <3>1. UNCHANGED <<session, objects>> /\ b \in Started
      BY <2>6 DEF NameDisappeared, Vanished, TokenOrigin
    <3>2. ASSUME NEW p \in BoundTo(b), NEW e, timers' = [timers EXCEPT ![p] = Captured(p, b, e)]
          PROVE  TimerOrigin'
      <4>1. p \in objects /\ session[p].be = b /\ b # None
        BY NoneAssumption DEF BoundTo
      <4>2. tunnel[b].path = p
        BY <4>1 DEF Origins, BackendBinding
      <4>3. p \in Paths
        BY <4>1 DEF TypeOK
      <4>4. /\ timers'[p].config = tunnel[b].config
            /\ timers'[p].owner = tunnel[b].owner
            /\ \A q \in Paths : q # p => timers'[q] = timers[q]
        BY <3>2, <4>3 DEF Captured, TypeOK
      <4> QED BY <1>3, <3>1, <4>2, <4>4 DEF Origins, TimerOrigin
    <3>3. TimerOrigin'
      BY <2>2, <2>6, <3>2 DEF NameDisappeared
    <3> QED BY <2>1, <2>3, <3>1, <3>3 DEF Origins
  <2>7. ASSUME UNCHANGED timers, UNCHANGED session, objects' \subseteq objects
        PROVE  Origins'
    BY <2>1, <2>2, <2>3, <2>7 DEF Origins
  <2>9. ASSUME UNCHANGED <<timers, objects>>, NEW p \in Paths, NEW s,
               session' = [session EXCEPT ![p] = s], s.config = session[p].config,
               \A u \in Users : Entitled(session[p], u) => Entitled(s, u), s.be \in {session[p].be, None}
        PROVE  Origins'
    <3>1. \A q \in objects : /\ session'[q].config = session[q].config
                             /\ \A u \in Users : Entitled(session[q], u) => Entitled(session'[q], u)
                             /\ session'[q].be \in {session[q].be, None}
      BY <2>9 DEF TypeOK
    <3>2. SessionOrigin' /\ BackendBinding'
      BY <1>3, <2>9, <3>1, SessionsKept DEF Origins
    <3> QED BY <2>1, <2>2, <2>9, <3>2 DEF Origins
  <2>10. ASSUME NEW p \in Paths, NEW event \in {"connected", "other"}, StatusChange(p, event)
         PROVE  Origins'
    <3>1. UNCHANGED <<timers, objects>> /\ session[p] \in Session
      BY <2>10 DEF StatusChange, TypeOK
    <3>2. session' = [session EXCEPT ![p] = [session[p] EXCEPT !.last = event]]
      BY <2>10 DEF StatusChange
    <3> DEFINE s == [session[p] EXCEPT !.last = event]
    <3>3. /\ s.config = session[p].config /\ s.access = session[p].access
          /\ s.revoked = session[p].revoked /\ s.be \in {session[p].be, None}
      BY <3>1 DEF Session
    <3>4. \A x : Entitled(session[p], x) => Entitled(s, x)
      BY <3>3, EntitledSame
    <3> QED BY <2>9, <3>1, <3>2, <3>3, <3>4
  <2>11. ASSUME NEW k \in Callers, NEW p \in Paths, AccessDeadBackend(k, p)
         PROVE  Origins'
    <3>1. UNCHANGED <<timers, objects>> /\ session[p] \in Session
      BY <2>11 DEF AccessDeadBackend, TypeOK
    <3>2. session' = [session EXCEPT ![p] = [session[p] EXCEPT !.be = None, !.last = "other"]]
      BY <2>11 DEF AccessDeadBackend
    <3> DEFINE s == [session[p] EXCEPT !.be = None, !.last = "other"]
    <3>3. /\ s.config = session[p].config /\ s.access = session[p].access
          /\ s.revoked = session[p].revoked /\ s.be \in {session[p].be, None}
      BY <3>1 DEF Session
    <3>4. \A x : Entitled(session[p], x) => Entitled(s, x)
      BY <3>3, EntitledSame
    <3> QED BY <2>9, <3>1, <3>2, <3>3, <3>4
  <2>13. ASSUME UNCHANGED timers, NEW p \in Paths, objects' = objects \ {p},
                session' = [session EXCEPT ![p] = Removed(@)]
         PROVE  Origins'
    <3>1. \A q \in objects' : q \in objects /\ session'[q] = session[q]
      BY <2>13 DEF TypeOK
    <3>2. SessionOrigin' /\ BackendBinding'
      BY <1>3, <3>1 DEF Origins, SessionOrigin, BackendBinding
    <3> QED BY <2>1, <2>2, <2>13, <3>2 DEF Origins
  <2>14. ASSUME NEW b \in Backends, RegisterFailed(b)
         PROVE  Origins'
    <3>1. tunnel[b].path \in Paths
      BY DEF TypeOK, TunnelRecord
    <3> QED BY <2>13, <2>14, <3>1 DEF RegisterFailed
  <2>15. ASSUME NEW k \in Callers, CloseRemove(k)
         PROVE  Origins'
    <3>1. closing[k] \in Paths
      BY <2>15 DEF CloseRemove, TypeOK
    <3> QED BY <2>13, <2>15, <3>1 DEF CloseRemove
  <2>16. ASSUME NEW b \in Backends, RegisterConfirmed(b)
         PROVE  Origins'
    <3>1. UNCHANGED <<timers, objects>> /\ tunnel[b].path \in Paths
      BY <2>16 DEF RegisterConfirmed, TypeOK, TunnelRecord
    <3>2. session[tunnel[b].path] \in Session
      BY <3>1 DEF TypeOK
    <3>3. \/ session' = session
          \/ session' = [session EXCEPT ![tunnel[b].path]
                                = [session[tunnel[b].path] EXCEPT !.named = "yes"]]
      BY <2>16 DEF RegisterConfirmed
    <3> DEFINE s == [session[tunnel[b].path] EXCEPT !.named = "yes"]
    <3>4. /\ s.config = session[tunnel[b].path].config /\ s.access = session[tunnel[b].path].access
          /\ s.revoked = session[tunnel[b].path].revoked /\ s.be = session[tunnel[b].path].be
      BY <3>2 DEF Session
    <3>5. \A u : Entitled(session[tunnel[b].path], u) => Entitled(s, u)
      BY <3>4, EntitledSame
    <3> QED BY <2>7, <2>9, <3>1, <3>3, <3>4, <3>5
  <2>17. ASSUME NEW u \in Users, NEW v \in Guests, NEW p \in Paths,
                AccessGrant(u, v, p) \/ AccessRevoke(u, v, p)
         PROVE  Origins'
    <3>1. UNCHANGED <<timers, objects>> /\ session[p] \in Session
      BY <2>17 DEF AccessGrant, AccessRevoke, TypeOK
    <3>2. CASE AccessGrant(u, v, p)
      <4> DEFINE s == [session[p] EXCEPT !.access = GrantAccess(session[p].access, v),
                                         !.revoked = @ \ {v}]
      <4>1. session' = [session EXCEPT ![p] = s]
        BY <3>1, <3>2 DEF AccessGrant, Session
      <4>2. s.config = session[p].config /\ s.be = session[p].be
        BY <3>1 DEF Session
      <4>3. \A x \in Users : Entitled(session[p], x) => Entitled(s, x)
        BY <3>1 DEF Entitled, GrantAccess, CheckACL, Session, ACLRecord
      <4> QED BY <2>9, <3>1, <4>1, <4>2, <4>3
    <3>3. CASE AccessRevoke(u, v, p)
      <4> DEFINE s == [session[p] EXCEPT !.access = RevokeAccess(session[p].access, v),
                                         !.revoked = @ \cup {v}]
      <4>1. session' = [session EXCEPT ![p] = s]
        BY <3>1, <3>3 DEF AccessRevoke, Session
      <4>2. s.config = session[p].config /\ s.be = session[p].be
        BY <3>1 DEF Session
      <4>3. \A x \in Users : Entitled(session[p], x) => Entitled(s, x)
        BY <3>1 DEF Entitled, RevokeAccess, CheckACL, Session, ACLRecord
      <4> QED BY <2>9, <3>1, <4>1, <4>2, <4>3
    <3> QED BY <2>17, <3>2, <3>3
  <2>12. ASSUME NEW k \in Callers, NEW p \in Paths, NEW u \in Users, Disconnect(k, u, p)
         PROVE  Origins'
    <3>1. UNCHANGED <<timers, objects>> /\ session[p] \in Session
      BY <2>12 DEF Disconnect, TypeOK
    <3>2. session' = [session EXCEPT ![p] = [session[p] EXCEPT !.last = "other"]]
      BY <2>12 DEF Disconnect
    <3> DEFINE s == [session[p] EXCEPT !.last = "other"]
    <3>3. /\ s.config = session[p].config /\ s.access = session[p].access
          /\ s.revoked = session[p].revoked /\ s.be \in {session[p].be, None}
      BY <3>1 DEF Session
    <3>4. \A x : Entitled(session[p], x) => Entitled(s, x)
      BY <3>3, EntitledSame
    <3> QED BY <2>9, <3>1, <3>2, <3>3, <3>4
  <2>8. ASSUME NEW b \in Backends, MainLoop(b)
        PROVE  Origins'
    BY <2>4, <2>5, <2>6, <2>7, <2>8, <2>14, <2>16
    DEF MainLoop, RegisterRestarted, RegisterClash, NullBackend, ResetReleased
  <2> QED
    BY <1>1, <1>2, <2>7, <2>8, <2>10, <2>11, <2>12, <2>15, <2>17
    DEF Next, RegisterClient, BackendDies, SetOverride, mgrVars, vars
<1> QED BY <1>1, <1>2, <1>3, OthersStartNone

(***************************************************************************)
(* The theorems.                                                           *)
(***************************************************************************)
\* What all of them rest on is an inductive invariant.
LEMMA Inductive == Spec => [](TypeOK /\ TokenKnown /\ TokenOrigin /\ Origins)
<1>1. Init => TokenKnown /\ TokenOrigin /\ Origins
  <2> SUFFICES ASSUME Init PROVE TokenKnown /\ TokenOrigin /\ Origins
    OBVIOUS
  <2>1. Started = {}
    BY DEF Init, Started
  <2>2. TokenKnown /\ TokenOrigin
    BY DEF Init, TokenKnown, TokenOrigin, Idle
  <2>3. PathOrigin /\ SessionOrigin /\ BackendBinding
    BY <2>1 DEF Init, PathOrigin, SessionOrigin, BackendBinding
  <2>4. TimerOrigin
    BY DEF Init, TimerOrigin, Backoff!NoEntry
  <2> QED BY <2>2, <2>3, <2>4 DEF Origins
<1>2. TypeOK /\ TokenKnown /\ TokenOrigin /\ Origins /\ [Next]_vars
      => (TypeOK /\ TokenKnown /\ TokenOrigin /\ Origins)'
  BY StepType, TokenStep, OriginStep
<1> QED BY <1>1, <1>2, InitType, PTL DEF Spec

\* A process the session manager started never meets "Unknown session token received":
\* its token is in NewTunnelQueue::queue when its RegistrationRequest arrives.
THEOREM TokensAreKnown == Spec => []TokenKnown
BY Inductive, PTL

\* Restarts of a session start processes for the profile and the user it was started for.
THEOREM PathsKeepOrigin == Spec => []PathOrigin
<1>1. Origins => PathOrigin
  BY DEF Origins
<1> QED BY <1>1, Inductive, PTL

\* A session object only ever talks to a process started for its path and profile.
THEOREM BackendsBound == Spec => []BackendBinding
<1>1. Origins => BackendBinding
  BY DEF Origins
<1> QED BY <1>1, Inductive, PTL

\* A session belongs to the user who started it or to the profile's owner, and the user who
\* started it keeps access to it until the owner revokes it; also when the transfer of the
\* ownership fails, and when a restart re-creates the session object.
THEOREM OwnersKept == Spec => []OwnerKept
<1>1. TypeOK /\ Origins => OwnerKept
  BY DEF Origins, SessionOrigin, OwnerKept
<1> QED BY <1>1, Inductive, PTL

(***************************************************************************)
(* One running process per session path.                                   *)
(***************************************************************************)

\* A token is queued, then confirmed, then watched.
LEMMA WatchStep ==
    ASSUME TypeOK, TokenKnown, TokenOrigin, NotWatchedYet, [Next]_vars
    PROVE  NotWatchedYet'
<1> USE DEF NotWatchedYet
<1>1. ASSUME NEW b \in Backends, proc[b] = "none", queue' = queue \cup {b},
             UNCHANGED <<watchers, reg>>
      PROVE  NotWatchedYet'
  <2>1. b \notin Started
    BY <1>1 DEF Started
  <2> QED BY <1>1, <2>1 DEF TokenOrigin
<1>2. ASSUME NEW b \in Backends,
             \/ \E u \in Users, c \in Configs, p \in Paths, res \in StartResults : NewTunnel(u, c, p, b, res)
             \/ \E p \in Paths, res \in StartResults : TimerFires(p, b, res)
      PROVE  NotWatchedYet'
  BY <1>1, <1>2 DEF NewTunnel, TimerFires, AddTunnel
<1>3. ASSUME NEW b \in Backends, (\E transfer \in Transfers : RegisterNew(b, transfer)) \/ RegisterRestarted(b) \/ RegisterClash(b)
      PROVE  NotWatchedYet'
  <2>1. TakeToken(b) /\ watchers' = watchers
    BY <1>3 DEF RegisterNew, RegisterRestarted, RegisterClash
  <2>2. reg' = reg \/ \E pre \in BOOLEAN : Confirm(b, pre)
    BY <1>3 DEF RegisterNew, RegisterRestarted, RegisterClash
  <2>3. reg' = reg \/ reg'.be = b
    BY <2>2 DEF Confirm
  <2>4. queue' = queue \ {b} /\ b \in queue /\ reg.phase = "idle"
    BY <2>1 DEF TakeToken
  <2> QED BY <2>1, <2>3, <2>4
<1>4. ASSUME NEW b \in Backends, RegisterConfirmed(b) \/ RegisterFailed(b)
      PROVE  NotWatchedYet'
  <2>1. queue' = queue /\ b \notin queue
    BY <1>4 DEF RegisterConfirmed, RegisterFailed
  <2>2. watchers' \subseteq watchers \cup {b}
    BY <1>4 DEF RegisterConfirmed, RegisterFailed, Watch
  <2>3. reg' \in {Idle, [reg EXCEPT !.phase = "connect"]}
    BY <1>4 DEF RegisterConfirmed, RegisterFailed
  <2>4. reg'.phase # "confirm" /\ (reg'.phase # "idle" => reg'.be = reg.be)
    BY <2>3 DEF Idle, TypeOK, Registration
  <2>5. reg.phase # "idle"
    BY <1>4 DEF RegisterConfirmed, RegisterFailed
  <2> QED BY <2>1, <2>2, <2>4, <2>5
<1>5. ASSUME NEW b \in Backends, RegisterConnect(b)
      PROVE  NotWatchedYet'
  BY <1>5 DEF RegisterConnect, Idle
<1>6. ASSUME UNCHANGED <<queue, watchers, reg>>
      PROVE  NotWatchedYet'
  BY <1>6
<1> QED
  BY <1>2, <1>3, <1>4, <1>5, <1>6
  DEF Next, MainLoop, ResetReleased, NameDisappeared, NullBackend, RegisterClient, BackendDies,
      StatusChange, AccessDeadBackend, AccessGrant, AccessRevoke, Disconnect, CloseRemove,
      SetOverride, mgrVars, vars

\* A step that starts no process, makes no process able to restart and arms no timer.
LEMMA FewerLive ==
    ASSUME OneLivePerPath, tunnel' = tunnel, Started' = Started,
           \A b \in Started : CanRestart(b)' => CanRestart(b),
           \A p \in Paths : timers'[p].entry.armed => timers[p].entry.armed,
           TypeOK
    PROVE  OneLivePerPath'
<1>1. \A b \in Started : tunnel[b].path \in Paths
  BY DEF TypeOK, Started, TunnelRecord
<1> QED BY <1>1 DEF OneLivePerPath

\* A step that starts process b for a path without a live one, and uses up its timer.
LEMMA OneMoreLive ==
    ASSUME TypeOK, TokenOrigin, OneLivePerPath,
           NEW b \in Backends, NEW r \in TunnelRecord, NEW res, AddTunnel(b, r, res),
           \A x \in Started : CanRestart(x) => tunnel[x].path # r.path,
           UNCHANGED <<objects, session, reg, watchers, expired>>,
           ~timers'[r.path].entry.armed,
           \A p \in Paths : timers'[p].entry.armed => timers[p].entry.armed
    PROVE  OneLivePerPath'
<1>1. /\ Started' = Started \cup {b} /\ b \notin Started
      /\ tunnel'[b] = r
      /\ \A x \in Started : tunnel'[x] = tunnel[x]
      /\ \A x \in Backends : x # b => proc'[x] = proc[x]
  BY AddTunnelStarts
<1>2. \A x \in Started : x \in Backends /\ tunnel[x].path \in Paths
  BY DEF TypeOK, Started, TunnelRecord
<1>3. \A x \in Started : CanRestart(x)' => CanRestart(x)
  BY <1>1, <1>2 DEF CanRestart, Running, BoundTo
<1>4. ASSUME NEW x \in Started', NEW y \in Started', CanRestart(x)', CanRestart(y)',
             tunnel'[x].path = tunnel'[y].path
      PROVE  x = y
  BY <1>1, <1>3, <1>4 DEF OneLivePerPath
<1>5. ASSUME NEW x \in Started', CanRestart(x)'
      PROVE  ~timers'[tunnel'[x].path].entry.armed
  BY <1>1, <1>2, <1>3, <1>5 DEF OneLivePerPath
<1> QED BY <1>4, <1>5 DEF OneLivePerPath

\* Every step keeps at most one live process per path.
LEMMA LiveStep ==
    ASSUME TypeOK, TokenKnown, TokenOrigin, Origins, NotWatchedYet, OneLivePerPath, [Next]_vars
    PROVE  OneLivePerPath'
<1>1. ASSUME NEW u \in Users, NEW c \in Configs, NEW p \in Paths, NEW b \in Backends, NEW res,
             NewTunnel(u, c, p, b, res)
      PROVE  OneLivePerPath'
  <2> DEFINE r == [path |-> p, config |-> c, owner |-> u]
  <2>1. r \in TunnelRecord /\ r.path = p
    BY DEF TunnelRecord
  <2>2. AddTunnel(b, r, res) /\ UNCHANGED <<objects, session, reg, watchers, expired, timers>>
    BY <1>1 DEF NewTunnel
  <2>3. \A x \in Started : tunnel[x].path # p
    BY <1>1 DEF NewTunnel, FreshPath
  <2>4. ~timers[p].entry.armed
    BY <2>3 DEF Origins, TimerOrigin
  <2> HIDE DEF r
  <2> QED BY <2>1, <2>2, <2>3, <2>4, OneMoreLive
<1>2. ASSUME NEW p \in Paths, NEW b \in Backends, NEW res, TimerFires(p, b, res)
      PROVE  OneLivePerPath'
  <2> DEFINE r == [path |-> p, config |-> timers[p].config, owner |-> timers[p].owner]
  <2>1. r \in TunnelRecord /\ r.path = p
    BY DEF TunnelRecord, Timer, TypeOK
  <2>2. /\ AddTunnel(b, r, res) /\ timers[p].entry.armed
        /\ UNCHANGED <<objects, session, reg, watchers, expired>>
    BY <1>2 DEF TimerFires
  <2> HIDE DEF r
  <2>3. \A x \in Started : CanRestart(x) => tunnel[x].path # p
    BY <2>2 DEF OneLivePerPath
  <2>4. timers' = [timers EXCEPT ![p].entry = Backoff!Fired(@)]
    BY <1>2 DEF TimerFires
  <2>5. ~timers'[p].entry.armed
    BY <2>4 DEF Backoff!Fired, TypeOK, Timer
  <2>6. \A q \in Paths : timers'[q].entry.armed => timers[q].entry.armed
    BY <2>4, <2>5 DEF TypeOK
  <2> QED BY <2>1, <2>2, <2>3, <2>5, <2>6, OneMoreLive
<1>3. ASSUME tunnel' = tunnel, Started' = Started
      PROVE  OneLivePerPath'
  <2>1. ASSUME NEW b \in Backends, (\E transfer \in Transfers : RegisterNew(b, transfer)) \/ RegisterRestarted(b) \/ RegisterClash(b)
        PROVE  OneLivePerPath'
    <3>1. /\ b \notin watchers /\ reg.phase = "idle"
          /\ UNCHANGED <<proc, watchers, expired, timers>>
      BY <2>1 DEF RegisterNew, RegisterRestarted, RegisterClash, TakeToken, NotWatchedYet
    <3>2. reg'.phase # "connect"
      <4>1. reg' = reg \/ \E pre \in BOOLEAN : Confirm(b, pre)
        BY <2>1 DEF RegisterNew, RegisterRestarted, RegisterClash
      <4> QED BY <3>1, <4>1 DEF Confirm
    <3>3. tunnel[b].path \in Paths /\ b # None
      BY NoneAssumption DEF TypeOK, TunnelRecord
    <3>4. ASSUME NEW x \in Started, CanRestart(x)', x \notin Running
          PROVE  CanRestart(x)
      <4>1. x \in watchers \ expired /\ tunnel[x].path \in BoundTo(x)' /\ x # b
        BY <1>3, <3>1, <3>2, <3>4 DEF CanRestart, Running
      <4>2. tunnel[x].path \in BoundTo(x)
        <5>1. CASE \E transfer \in Transfers : RegisterNew(b, transfer)
          <6>1. /\ objects' = objects \cup {tunnel[b].path}
                /\ session'[tunnel[b].path].be = b
                /\ \A q \in objects : q # tunnel[b].path => session'[q] = session[q]
            BY <3>3, <5>1 DEF RegisterNew, NewSession, TypeOK
          <6> QED BY <4>1, <6>1 DEF BoundTo
        <5>2. CASE ~\E transfer \in Transfers : RegisterNew(b, transfer)
          BY <2>1, <4>1, <5>2 DEF RegisterRestarted, RegisterClash, BoundTo
        <5> QED BY <5>1, <5>2
      <4> QED BY <4>1, <4>2 DEF CanRestart
    <3> QED BY <1>3, <3>1, <3>4, FewerLive DEF CanRestart
  <2>2. ASSUME NEW b \in Backends, RegisterConfirmed(b)
        PROVE  OneLivePerPath'
    <3>1. /\ reg.phase = "confirm" /\ reg.be = b /\ b \in Running
          /\ UNCHANGED <<objects, timers>>
      BY <2>2 DEF RegisterConfirmed, Running
    <3>6. \A q \in Paths : session'[q].be = session[q].be
      BY <2>2 DEF RegisterConfirmed, TypeOK, Session
    <3>2. \A x \in Backends : x \in Running' => x \in Running
      BY <2>2, <3>1 DEF RegisterConfirmed, Running, TypeOK
    <3>3. reg'.phase = "connect" => reg'.be = b
      BY <2>2 DEF RegisterConfirmed, Idle, TypeOK, Registration
    <3>4. watchers' \ expired' \subseteq (watchers \ expired) \cup {b}
      BY <2>2 DEF RegisterConfirmed, Watch
    <3>5. \A x \in Started : CanRestart(x)' => CanRestart(x)
      BY <1>3, <3>1, <3>2, <3>3, <3>4, <3>6 DEF CanRestart, BoundTo, Started, TypeOK
    <3> QED BY <1>3, <3>1, <3>5, FewerLive
  <2>3. ASSUME NEW b \in Backends, RegisterFailed(b)
        PROVE  OneLivePerPath'
    <3>1. /\ reg' = Idle /\ UNCHANGED timers
          /\ objects' = objects \ {tunnel[b].path}
      BY <2>3 DEF RegisterFailed
    <3>6. \A q \in Paths : session'[q].be = session[q].be
      BY <2>3 DEF RegisterFailed, Removed, TypeOK, Session
    <3>2. \A x \in Backends : x \in Running' => x \in Running
      BY <2>3 DEF RegisterFailed, Running, TypeOK
    <3>3. watchers' \ expired' \subseteq (watchers \ expired) \cup {b}
      BY <2>3 DEF RegisterFailed, Watch
    <3>4. reg'.phase # "connect"
      BY <3>1 DEF Idle
    <3>5. \A x \in Started : CanRestart(x)' => CanRestart(x)
      BY <1>3, <3>1, <3>2, <3>3, <3>4, <3>6 DEF CanRestart, BoundTo, Started, TypeOK
    <3> QED BY <1>3, <3>1, <3>5, FewerLive
  <2>4. ASSUME NEW b \in Backends, RegisterConnect(b)
        PROVE  OneLivePerPath'
    <3>1. /\ reg.phase = "connect" /\ reg.be = b /\ reg'.phase # "connect"
          /\ UNCHANGED <<proc, objects, watchers, expired, timers>>
      BY <2>4 DEF RegisterConnect, Idle
    <3>2. \A q \in Paths : session'[q].be \in {session[q].be, b}
      BY <2>4 DEF RegisterConnect, TypeOK, Session
    <3>3. \A x \in Started : CanRestart(x)' => CanRestart(x)
      BY <1>3, <3>1, <3>2 DEF CanRestart, BoundTo, Running, TypeOK
    <3> QED BY <1>3, <3>1, <3>3, FewerLive
  <2>5. ASSUME NEW b \in Backends, NEW longAgo \in BOOLEAN, NameDisappeared(b, longAgo)
        PROVE  OneLivePerPath'
    <3>1. /\ b \in watchers \ expired /\ b \notin Running /\ b \in Started
          /\ reg.phase = "idle"
          /\ expired' = expired \cup {b}
          /\ UNCHANGED <<proc, objects, session, reg, watchers>>
      BY <2>5 DEF NameDisappeared, Vanished, Running, Started
    <3>2. \A x \in Started : CanRestart(x)' => CanRestart(x) /\ x # b
      BY <1>3, <3>1 DEF CanRestart, Running, BoundTo
    <3>3. CASE UNCHANGED timers
      BY <1>3, <3>2, <3>3, FewerLive
    <3>4. ASSUME NEW p \in BoundTo(b), NEW e, timers' = [timers EXCEPT ![p] = e]
          PROVE  OneLivePerPath'
      <4>1. p \in objects /\ session[p].be = b /\ b # None
        BY NoneAssumption DEF BoundTo
      <4>2. tunnel[b].path = p /\ p \in Paths
        BY <4>1 DEF Origins, BackendBinding, TypeOK
      <4>3. CanRestart(b)
        BY <3>1, <4>2 DEF CanRestart
      <4>4. \A x \in Started : CanRestart(x)' => tunnel[x].path # p
        BY <3>1, <3>2, <4>2, <4>3 DEF OneLivePerPath
      <4>5. \A q \in Paths : q # p => timers'[q] = timers[q]
        BY <3>4 DEF TypeOK
      <4>6. \A x \in Started : tunnel[x].path \in Paths
        BY DEF TypeOK, Started, TunnelRecord
      <4> QED BY <1>3, <3>2, <4>4, <4>5, <4>6 DEF OneLivePerPath
    <3> QED BY <2>5, <3>3, <3>4 DEF NameDisappeared
  <2>6. ASSUME UNCHANGED <<reg, watchers, expired, timers>>,
               \A x \in Backends : x \in Running' => x \in Running,
               \A x \in Started : tunnel[x].path \in BoundTo(x)' => tunnel[x].path \in BoundTo(x)
        PROVE  OneLivePerPath'
    BY <1>3, <2>6, FewerLive DEF CanRestart, Started
  <2>7. ASSUME NEW b \in Backends,
               ResetReleased(b) \/ NullBackend(b) \/ RegisterClient(b) \/ BackendDies(b)
        PROVE  OneLivePerPath'
    <3>1. UNCHANGED <<objects, session, reg, watchers, expired, timers>>
      BY <2>7 DEF ResetReleased, NullBackend, RegisterClient, BackendDies, mgrVars
    <3>2. \A x \in Backends : x \in Running' => x \in Running
      BY <2>7 DEF ResetReleased, NullBackend, RegisterClient, BackendDies, Running, TypeOK
    <3> QED BY <1>3, <2>6, <3>1, <3>2 DEF BoundTo
  <2>8. ASSUME NEW p \in Paths, NEW event \in {"connected", "other"}, StatusChange(p, event)
        PROVE  OneLivePerPath'
    <3>1. UNCHANGED <<proc, objects, reg, watchers, expired, timers>>
      BY <2>8 DEF StatusChange
    <3>2. \A q \in Paths : session'[q].be = session[q].be
      BY <2>8 DEF StatusChange, TypeOK, Session
    <3> QED BY <1>3, <2>6, <3>1, <3>2 DEF BoundTo, Running, TypeOK
  <2>9. ASSUME NEW k \in Callers, NEW p \in Paths, AccessDeadBackend(k, p)
        PROVE  OneLivePerPath'
    <3>1. UNCHANGED <<proc, objects, reg, watchers, expired, timers>>
      BY <2>9 DEF AccessDeadBackend
    <3>2. \A q \in Paths : session'[q].be \in {session[q].be, None}
      BY <2>9 DEF AccessDeadBackend, TypeOK, Session
    <3> QED BY <1>3, <2>6, <3>1, <3>2, NoneAssumption DEF BoundTo, Running, Started, TypeOK
  <2>10. ASSUME NEW k \in Callers, NEW p \in Paths, NEW u \in Users, Disconnect(k, u, p)
         PROVE  OneLivePerPath'
    <3>1. UNCHANGED <<objects, reg, watchers, expired, timers>>
      BY <2>10 DEF Disconnect
    <3>2. \A q \in Paths : session'[q].be = session[q].be
      BY <2>10 DEF Disconnect, TypeOK, Session
    <3>3. \A x \in Backends : x \in Running' => x \in Running
      BY <2>10 DEF Disconnect, Running, TypeOK
    <3> QED BY <1>3, <2>6, <3>1, <3>2, <3>3 DEF BoundTo, TypeOK
  <2>11. ASSUME UNCHANGED <<proc, session, reg, watchers, expired, timers, objects>>
         PROVE  OneLivePerPath'
    BY <1>3, <2>6, <2>11 DEF BoundTo, Running
  <2>12. ASSUME UNCHANGED <<proc, reg, watchers, expired, timers>>, objects' \subseteq objects,
                \A q \in Paths : session'[q].be = session[q].be
         PROVE  OneLivePerPath'
    BY <1>3, <2>6, <2>12 DEF BoundTo, Running, TypeOK
  <2>13. ASSUME NEW k \in Callers, CloseRemove(k)
         PROVE  OneLivePerPath'
    <3>1. \A q \in Paths : session'[q].be = session[q].be
      BY <2>13 DEF CloseRemove, Removed, TypeOK, Session
    <3> QED BY <2>12, <2>13, <3>1 DEF CloseRemove
  <2>14. ASSUME NEW u \in Users, NEW v \in Guests, NEW p \in Paths,
                AccessGrant(u, v, p) \/ AccessRevoke(u, v, p)
         PROVE  OneLivePerPath'
    <3>1. \A q \in Paths : session'[q].be = session[q].be
      BY <2>14 DEF AccessGrant, AccessRevoke, TypeOK, Session
    <3> QED BY <2>12, <2>14, <3>1 DEF AccessGrant, AccessRevoke
  <2> QED
    BY <1>1, <1>2, <2>1, <2>2, <2>3, <2>4, <2>5, <2>7, <2>8, <2>9, <2>10, <2>11, <2>13, <2>14
    DEF Next, MainLoop, SetOverride, mgrVars, vars
<1> QED BY <1>1, <1>2, <1>3, OthersStartNone

\* However crashes, timers, registrations and closes interleave, a session path never has
\* two running client processes.
THEOREM OneProcessPerSession == Spec => []OneRunningPerPath
<1>1. Init => NotWatchedYet /\ OneLivePerPath
  BY DEF Init, NotWatchedYet, OneLivePerPath, Started, Idle
<1>2. /\ TypeOK /\ TokenKnown /\ TokenOrigin /\ Origins
      /\ NotWatchedYet /\ OneLivePerPath /\ [Next]_vars
      => NotWatchedYet' /\ OneLivePerPath'
  BY WatchStep, LiveStep
<1>3. OneLivePerPath => OneRunningPerPath
  BY DEF OneLivePerPath, OneRunningPerPath, CanRestart, Running, Started
<1> QED BY <1>1, <1>2, <1>3, Inductive, PTL DEF Spec
===========================================================================
