--------------------------- MODULE FrontEndProofs ---------------------------
(* Proofs about the front-ends: the types of their state, and that           *)
(* session-start leaves no session behind of which it reported an error.     *)
(* Then about the commands that list and share sessions: they tell what they *)
(* have done, and show a session to those who may see it.                    *)
EXTENDS MCFrontEnd, FiniteSetTheorems, FunctionTheorems, TLAPS

(***************************************************************************)
(* The operators of the model: what a step makes of a session, of the      *)
(* signals on their way and of a process that ends.                        *)
(***************************************************************************)
\* A process has a result exactly when it has ended.
Ended(r) == r.pc = "end" <=> r.result # "none"

(* A process that ends has a state of the model. *)
LEMMA StoppedType ==
    ASSUME TypeOK, NEW f \in Fronts, NEW result \in Results \ {"none"}
    PROVE  Stopped(f, result) \in FrontState /\ Ended(Stopped(f, result))
<1>1. front[f] \in FrontState
  BY DEF TypeOK
<1>2. 0 \in 0..MaxLoops /\ {} \in SUBSET Slots /\ {} \in SUBSET Sessions
  BY FrontEndBounds
<1>. DEFINE orphan == front[f].cmd = "start" /\ result = "error"
            c == IF orphan THEN front[f].cmd ELSE "none"
            s == IF orphan THEN front[f].session ELSE NoSession
            w == IF result = "quiet" THEN front[f].reason ELSE "NONE"
<1>3. /\ Idle \in FrontState /\ Idle.after = "none"
      /\ c \in CommandNames /\ s \in Sessions \cup {NoSession} /\ w \in Reasons
  BY <1>1, <1>2 DEF Idle, FrontState, CommandNames, Pcs, Reasons, Modes, Options, Afters, Results
<1>4. Stopped(f, result) = [Idle EXCEPT !.pc = "end", !.result = result, !.cmd = c,
                                        !.session = s, !.reason = w]
  BY DEF Stopped
<1>5. "end" \in Pcs /\ result \in Results
  BY DEF Pcs
<1>. HIDE DEF c, s, w
<1>. QED
  BY <1>3, <1>4, <1>5 DEF FrontState, Ended

(* The signal of a session reaches the processes that listen. *)
LEMMA BroadcastType ==
    ASSUME TypeOK, NEW e \in Signals, Broadcast(e)
    PROVE  inbox' \in [Fronts -> Seq(Signals)]
<1>. SUFFICES ASSUME NEW f \in Fronts PROVE Append(inbox[f], e) \in Seq(Signals)
  BY DEF Broadcast, TypeOK
<1>1. inbox[f] \in Seq(Signals)
  BY DEF TypeOK
<1>. QED
  BY <1>1

(* The signals a process has not seen yet when it takes the first. *)
LEMMA TailType ==
    ASSUME TypeOK, NEW f \in Fronts, inbox[f] # <<>>
    PROVE  /\ Head(inbox[f]) \in Signals /\ Tail(inbox[f]) \in Seq(Signals)
           /\ <<>> \in Seq(Signals)
           /\ \E i \in DOMAIN inbox[f] : Head(inbox[f]) = inbox[f][i]
           /\ \A i \in DOMAIN Tail(inbox[f]) : \E j \in DOMAIN inbox[f] : Tail(inbox[f])[i] = inbox[f][j]
<1>1. inbox[f] \in Seq(Signals)
  BY DEF TypeOK
<1>2. Head(inbox[f]) \in Signals /\ Tail(inbox[f]) \in Seq(Signals) /\ Head(inbox[f]) = inbox[f][1]
      /\ Len(inbox[f]) \in Nat \ {0} /\ Len(Tail(inbox[f])) = Len(inbox[f]) - 1
      /\ \A i \in 1..Len(Tail(inbox[f])) : Tail(inbox[f])[i] = inbox[f][i + 1]
  BY <1>1
<1>3. DOMAIN inbox[f] = 1..Len(inbox[f]) /\ DOMAIN Tail(inbox[f]) = 1..Len(Tail(inbox[f]))
  BY <1>1, <1>2
<1>4. ASSUME NEW i \in DOMAIN Tail(inbox[f])
      PROVE  \E j \in DOMAIN inbox[f] : Tail(inbox[f])[i] = inbox[f][j]
  <2>1. i + 1 \in DOMAIN inbox[f] /\ Tail(inbox[f])[i] = inbox[f][i + 1]
    BY <1>2, <1>3, <1>4
  <2>. QED
    BY <2>1
<1>5. 1 \in DOMAIN inbox[f]
  BY <1>2, <1>3
<1>. QED
  BY <1>2, <1>4, <1>5

(* Called counts the calls that fail; only sessions that exist answer. *)
LEMMA CalledType ==
    ASSUME TypeOK, NEW f \in Fronts, NEW ok \in BOOLEAN, Called(f, ok)
    PROVE  /\ faults' \in Nat /\ faults' >= faults
           /\ ok => front[f].session \in Sessions /\ Exists(front[f].session)
           /\ ~ok /\ faults' = 0 => ~Exists(front[f].session)
<1>1. front[f].session \in Sessions \cup {NoSession} /\ faults \in Nat
  BY DEF TypeOK, FrontState
<1>. QED
  BY <1>1 DEF Called, Exists

(***************************************************************************)
(* The inductive invariant.                                                *)
(***************************************************************************)
Confirmed == {"up", "gone"}

\* Of session-start: it works with a session from NewTunnel() on, with a
\* confirmed one from the signal on; it calls Disconnect only before it tries
\* again or ends with an error; and without a fault an error it has met, or
\* ended with, means that the session is gone.  S and n are the sessions and
\* the number of faults.
StartOK(r, S, n) ==
    /\ r.pc \in {"wait", "dco", "end"} \cup InStartSession
    /\ r.session \in Sessions
    /\ r.pc \in InStartSession \cup {"dco"} => S[r.session].phase \in Confirmed
    /\ r.pc = "drop" => r.after \in {"again", "error", "timeout"}
    /\ n = 0 /\ r.reason = "ERROR" /\ r.pc \in InStartSession \ {"prompt", "drop"}
          => S[r.session].phase = "gone"
    /\ n = 0 /\ r.result = "error" => S[r.session].phase = "gone"

FrontOK(r, S, n) == /\ r.pc = "idle" => r.cmd = "none"
                    /\ r.pc \in {"idle", "wait", "dco"} => r.reason = "NONE"
                    /\ r.cmd = "start" => StartOK(r, S, n)

\* A session is announced once the client is confirmed.
InboxOK(q, S) ==
    \A i \in DOMAIN q : q[i][1] = "SESS_CREATED" => S[q[i][2]].phase \in Confirmed

StartInv == \A f \in Fronts : FrontOK(front[f], sessions, faults)
InboxInv == \A f \in Fronts : InboxOK(inbox[f], sessions)
IInv == TypeOK /\ StartInv /\ InboxInv

\* No step takes a confirmed session back, or makes one that is gone again.
PhasesKept(S, T) ==
    \A s \in Sessions : /\ S[s].phase \in Confirmed => T[s].phase \in Confirmed
                        /\ S[s].phase = "gone" => T[s].phase = "gone"

(* What holds of a process is not disturbed by what others do to the sessions. *)
LEMMA FrontKept ==
    ASSUME NEW r \in FrontState, NEW S, NEW T, NEW m \in Nat, NEW n \in Nat,
           PhasesKept(S, T), n >= m, Ended(r), FrontOK(r, S, m)
    PROVE  FrontOK(r, T, n)
<1>1. CASE r.cmd = "start"
  <2>1. StartOK(r, S, m) /\ (n = 0 => m = 0) /\ r.session \in Sessions \cup {NoSession}
    BY <1>1 DEF FrontOK, FrontState
  <2>2. r.session \in Sessions
    BY <2>1 DEF StartOK
  <2>3. StartOK(r, T, n)
    BY <2>1, <2>2 DEF StartOK, PhasesKept, Confirmed
  <2>. QED
    BY <2>3 DEF FrontOK
<1>. QED
  BY <1>1 DEF FrontOK

(* Nor are the signals on their way. *)
LEMMA InboxKept ==
    ASSUME NEW q \in Seq(Signals), NEW S, NEW T, PhasesKept(S, T), InboxOK(q, S)
    PROVE  InboxOK(q, T)
<1>. SUFFICES ASSUME NEW i \in DOMAIN q, q[i][1] = "SESS_CREATED"
              PROVE  T[q[i][2]].phase \in Confirmed
  BY DEF InboxOK
<1>1. q[i] \in Signals
  OBVIOUS
<1>2. q[i][2] \in Sessions
  BY <1>1 DEF Signals
<1>. QED
  BY <1>2 DEF InboxOK, PhasesKept

(* The sessions change and the signals are kept: the processes stay as they were. *)
LEMMA SessionStep ==
    ASSUME IInv, UNCHANGED <<front, faults>>, events' \in Nat,
           sessions' \in [Sessions -> SessionState], inbox' \in [Fronts -> Seq(Signals)],
           PhasesKept(sessions, sessions'), InboxInv'
    PROVE  IInv'
<1>1. TypeOK'
  BY DEF IInv, TypeOK
<1>2. ASSUME NEW f \in Fronts PROVE FrontOK(front'[f], sessions', faults')
  <2>1. front[f] \in FrontState /\ Ended(front[f]) /\ FrontOK(front[f], sessions, faults)
        /\ faults \in Nat /\ faults >= faults
    BY DEF IInv, TypeOK, Ended, StartInv
  <2>2. FrontOK(front[f], sessions', faults)
    BY <2>1, FrontKept
  <2>. QED
    BY <2>2
<1>. QED
  BY <1>1, <1>2 DEF IInv, StartInv

(* A step of a process. *)
LEMMA FrontStep ==
    ASSUME IInv, NEW f \in Fronts, NEW r \in FrontState, Ended(r),
           front' = [front EXCEPT ![f] = r], events' \in Nat,
           faults' \in Nat, faults' >= faults,
           sessions' \in [Sessions -> SessionState], inbox' \in [Fronts -> Seq(Signals)],
           PhasesKept(sessions, sessions'), InboxInv', FrontOK(r, sessions', faults')
    PROVE  IInv'
<1>1. TypeOK'
  BY DEF IInv, TypeOK, Ended
<1>2. ASSUME NEW g \in Fronts PROVE FrontOK(front'[g], sessions', faults')
  <2>1. CASE g = f
    BY <2>1 DEF IInv, TypeOK
  <2>2. CASE g # f
    <3>1. /\ front[g] \in FrontState /\ Ended(front[g]) /\ FrontOK(front[g], sessions, faults)
          /\ faults \in Nat /\ front'[g] = front[g]
      BY <2>2 DEF IInv, TypeOK, Ended, StartInv
    <3>2. FrontOK(front[g], sessions', faults')
      BY <3>1, FrontKept
    <3>. QED
      BY <3>1, <3>2
  <2>. QED
    BY <2>1, <2>2
<1>. QED
  BY <1>1, <1>2 DEF IInv, StartInv

(* A process takes a step and sees no signal. *)
LEMMA MoveStep ==
    ASSUME IInv, NEW f \in Fronts, NEW r \in FrontState, Ended(r),
           front' = [front EXCEPT ![f] = r], events' \in Nat,
           faults' \in Nat, faults' >= faults,
           sessions' \in [Sessions -> SessionState], UNCHANGED inbox,
           PhasesKept(sessions, sessions'), FrontOK(r, sessions', faults')
    PROVE  IInv'
<1>1. inbox' \in [Fronts -> Seq(Signals)]
  BY DEF IInv, TypeOK
<1>2. ASSUME NEW g \in Fronts PROVE InboxOK(inbox'[g], sessions')
  <2>1. inbox[g] \in Seq(Signals) /\ InboxOK(inbox[g], sessions)
    BY DEF IInv, TypeOK, InboxInv
  <2>. QED
    BY <2>1, InboxKept
<1>3. InboxInv'
  BY <1>2 DEF InboxInv
<1>. QED
  BY <1>1, <1>3, FrontStep

(* A process ends: after an error of session-start the session must be gone. *)
LEMMA EndStep ==
    ASSUME IInv, NEW f \in Fronts, NEW result \in Results \ {"none"}, End(f, result),
           events' \in Nat, faults' \in Nat, faults' >= faults,
           sessions' \in [Sessions -> SessionState], PhasesKept(sessions, sessions'),
           front[f].cmd = "start" /\ result = "error" /\ faults' = 0
             => sessions'[front[f].session].phase = "gone"
    PROVE  IInv'
<1>. DEFINE r == Stopped(f, result)
<1>0. TypeOK
  BY DEF IInv
<1>1. r \in FrontState /\ Ended(r)
  BY <1>0, StoppedType
<1>2. /\ r.pc = "end" /\ r.result = result
      /\ r.cmd = "start" => result = "error" /\ front[f].cmd = "start" /\ r.session = front[f].session
  BY DEF Stopped, Idle
<1>3. front' = [front EXCEPT ![f] = r] /\ inbox' = [inbox EXCEPT ![f] = <<>>]
  BY DEF End
<1>. HIDE DEF r
<1>4. FrontOK(r, sessions', faults')
  <2>1. front[f].cmd = "start" => front[f].session \in Sessions
    BY DEF IInv, StartInv, FrontOK, StartOK
  <2>. QED
    BY <1>2, <2>1 DEF FrontOK, StartOK, InStartSession
<1>5. ASSUME NEW g \in Fronts
      PROVE  inbox'[g] \in Seq(Signals) /\ InboxOK(inbox'[g], sessions')
  <2>1. inbox[g] \in Seq(Signals) /\ InboxOK(inbox[g], sessions)
    BY DEF IInv, TypeOK, InboxInv
  <2>2. CASE g = f
    <3>1. inbox'[g] = <<>>
      BY <1>0, <1>3, <2>2 DEF TypeOK
    <3>. QED
      BY <3>1 DEF InboxOK
  <2>3. CASE g # f
    <3>1. inbox'[g] = inbox[g]
      BY <1>0, <1>3, <2>3 DEF TypeOK
    <3>. QED
      BY <2>1, <3>1, InboxKept
  <2>. QED
    BY <2>2, <2>3
<1>6. inbox' \in [Fronts -> Seq(Signals)]
  BY <1>0, <1>3, <1>5 DEF TypeOK
<1>7. InboxInv'
  BY <1>5 DEF InboxInv
<1>. QED
  BY <1>1, <1>3, <1>4, <1>6, <1>7, FrontStep

(***************************************************************************)
(* The session manager and the VPN clients.                                *)
(***************************************************************************)
(* A signal is added to what the processes have not seen; one that announces *)
(* a session does so when it is confirmed.                                   *)
LEMMA BroadcastInbox ==
    ASSUME IInv, NEW s \in Sessions, NEW k \in {"SESS_CREATED", "SESS_DESTROYED"},
           Broadcast(<<k, s>>), PhasesKept(sessions, sessions'),
           k = "SESS_CREATED" => sessions'[s].phase \in Confirmed
    PROVE  inbox' \in [Fronts -> Seq(Signals)] /\ InboxInv'
<1>. DEFINE e == <<k, s>>
<1>1. e \in Signals
  BY DEF Signals
<1>2. TypeOK
  BY DEF IInv
<1>3. ASSUME NEW f \in Fronts PROVE InboxOK(inbox'[f], sessions')
  <2>1. inbox[f] \in Seq(Signals) /\ InboxOK(inbox[f], sessions)
    BY DEF IInv, TypeOK, InboxInv
  <2>2. InboxOK(inbox[f], sessions')
    BY <2>1, InboxKept
  <2>3. CASE inbox'[f] = inbox[f]
    BY <2>2, <2>3
  <2>4. CASE inbox'[f] = Append(inbox[f], e)
    <3>. SUFFICES ASSUME NEW i \in DOMAIN Append(inbox[f], e),
                         Append(inbox[f], e)[i][1] = "SESS_CREATED"
                  PROVE  sessions'[Append(inbox[f], e)[i][2]].phase \in Confirmed
      BY <2>4 DEF InboxOK
    <3>. HIDE DEF e
    <3>1. /\ DOMAIN inbox[f] = 1..Len(inbox[f]) /\ Len(inbox[f]) \in Nat
          /\ DOMAIN Append(inbox[f], e) = 1..(Len(inbox[f]) + 1)
          /\ Append(inbox[f], e)[Len(inbox[f]) + 1] = e
          /\ \A j \in 1..Len(inbox[f]) : Append(inbox[f], e)[j] = inbox[f][j]
      BY <1>1, <2>1
    <3>2. CASE i = Len(inbox[f]) + 1
      <4>1. Append(inbox[f], e)[i] = e
        BY <3>1, <3>2
      <4>2. e[1] = k /\ e[2] = s
        BY DEF e
      <4>. QED
        BY <4>1, <4>2
    <3>3. CASE i # Len(inbox[f]) + 1
      <4>1. i \in DOMAIN inbox[f] /\ Append(inbox[f], e)[i] = inbox[f][i]
        BY <3>1, <3>3
      <4>. QED
        BY <2>2, <4>1 DEF InboxOK
    <3>. QED
      BY <3>2, <3>3
  <2>5. inbox'[f] = inbox[f] \/ inbox'[f] = Append(inbox[f], e)
    BY DEF Broadcast
  <2>. QED
    BY <2>3, <2>4, <2>5
<1>. QED
  BY <1>1, <1>2, <1>3, BroadcastType DEF InboxInv

(* The sessions change and no signal is sent or seen. *)
LEMMA QuietInbox ==
    ASSUME IInv, UNCHANGED inbox, PhasesKept(sessions, sessions')
    PROVE  inbox' \in [Fronts -> Seq(Signals)] /\ InboxInv'
<1>1. ASSUME NEW g \in Fronts PROVE InboxOK(inbox'[g], sessions')
  <2>1. inbox[g] \in Seq(Signals) /\ InboxOK(inbox[g], sessions)
    BY DEF IInv, TypeOK, InboxInv
  <2>. QED
    BY <2>1, InboxKept
<1>. QED
  BY <1>1 DEF IInv, TypeOK, InboxInv

(* One session changes: its phase may not go back. *)
LEMMA SessionChange ==
    ASSUME IInv, NEW s \in Sessions, NEW x \in SessionState,
           sessions' = [sessions EXCEPT ![s] = x],
           sessions[s].phase \in Confirmed => x.phase \in Confirmed,
           sessions[s].phase = "gone" => x.phase = "gone"
    PROVE  /\ sessions' \in [Sessions -> SessionState] /\ sessions'[s] = x
           /\ PhasesKept(sessions, sessions')
  BY DEF IInv, TypeOK, PhasesKept

(* Disconnect removes a session that exists. *)
LEMMA RemoveStep ==
    ASSUME IInv, NEW s \in Sessions, sessions[s].phase \in {"registering", "up"}, RemoveSession(s)
    PROVE  /\ sessions' \in [Sessions -> SessionState] /\ PhasesKept(sessions, sessions')
           /\ sessions[s].phase = "up" => sessions'[s].phase = "gone"
           /\ inbox' \in [Fronts -> Seq(Signals)] /\ InboxInv'
<1>1. sessions[s] \in SessionState
  BY DEF IInv, TypeOK
<1>2. /\ Gone(s) \in SessionState
      /\ sessions[s].phase = "up" => Gone(s).phase = "gone"
  BY <1>1 DEF Gone, SessionState, Phases, Statuses
<1>3. /\ sessions' \in [Sessions -> SessionState] /\ PhasesKept(sessions, sessions')
      /\ sessions'[s] = Gone(s)
  BY <1>2, SessionChange DEF RemoveSession, Confirmed
<1>4. inbox' \in [Fronts -> Seq(Signals)] /\ InboxInv'
  BY <1>3, BroadcastInbox DEF RemoveSession
<1>. QED
  BY <1>2, <1>3, <1>4

LEMMA BackendStep ==
    ASSUME IInv, NEW s \in Sessions, Backend(s)
    PROVE  IInv'
<1>1. sessions[s] \in SessionState /\ events \in Nat
  BY DEF IInv, TypeOK
<1>2. CASE Register(s)
  <2>. DEFINE x == [sessions[s] EXCEPT !.phase = "registering"]
  <2>1. x \in SessionState /\ sessions' = [sessions EXCEPT ![s] = x] /\ sessions[s].phase = "requested"
    BY <1>1, <1>2 DEF Register, SessionState, Phases
  <2>. HIDE DEF x
  <2>2. sessions' \in [Sessions -> SessionState] /\ PhasesKept(sessions, sessions')
    BY <2>1, SessionChange DEF Confirmed
  <2>. QED
    BY <1>1, <1>2, <2>2, QuietInbox, SessionStep DEF Register
<1>3. CASE Confirm(s)
  <2>1. CASE sessions[s].phase = "removed"
    <3>. DEFINE x == [sessions[s] EXCEPT !.phase = "gone"]
    <3>1. x \in SessionState /\ x.phase = "gone" /\ sessions' = [sessions EXCEPT ![s] = x]
      BY <1>1, <1>3, <2>1 DEF Confirm, SessionState, Phases
    <3>. HIDE DEF x
    <3>2. sessions' \in [Sessions -> SessionState] /\ PhasesKept(sessions, sessions')
          /\ sessions'[s].phase \in Confirmed
      BY <2>1, <3>1, SessionChange DEF Confirmed
    <3>. QED
      BY <1>1, <1>3, <3>2, BroadcastInbox, SessionStep DEF Confirm
  <2>2. CASE sessions[s].phase # "removed"
    <3>1. PICK p \in {{}, Slots} :
            sessions' = [sessions EXCEPT ![s] =
                  [phase |-> "up", pending |-> p,
                   status |-> IF p = {} THEN "CFG_OK" ELSE "CFG_REQUIRE_USER"]]
      BY <1>3, <2>2 DEF Confirm
    <3>. DEFINE x == [phase |-> "up", pending |-> p,
                      status |-> IF p = {} THEN "CFG_OK" ELSE "CFG_REQUIRE_USER"]
    <3>2. x \in SessionState /\ x.phase = "up" /\ sessions' = [sessions EXCEPT ![s] = x]
      BY <3>1 DEF SessionState, Phases, Statuses
    <3>3. sessions[s].phase = "registering"
      BY <1>3, <2>2 DEF Confirm
    <3>. HIDE DEF x
    <3>4. sessions' \in [Sessions -> SessionState] /\ PhasesKept(sessions, sessions')
          /\ sessions'[s].phase \in Confirmed
      BY <3>2, <3>3, SessionChange DEF Confirmed
    <3>. QED
      BY <1>1, <1>3, <3>4, BroadcastInbox, SessionStep DEF Confirm
  <2>. QED
    BY <2>1, <2>2
<1>4. CASE RegistrationFails(s)
  <2>. DEFINE x == [sessions[s] EXCEPT !.phase = "gone"]
  <2>1. x \in SessionState /\ x.phase = "gone" /\ sessions' = [sessions EXCEPT ![s] = x]
    BY <1>1, <1>4 DEF RegistrationFails, SessionState, Phases
  <2>. HIDE DEF x
  <2>2. sessions' \in [Sessions -> SessionState] /\ PhasesKept(sessions, sessions')
    BY <2>1, SessionChange DEF Confirmed
  <2>3. inbox' \in [Fronts -> Seq(Signals)] /\ InboxInv'
    BY <1>4, <2>2, BroadcastInbox, QuietInbox DEF RegistrationFails
  <2>4. events' \in Nat /\ UNCHANGED <<front, faults>>
    BY <1>1, <1>4 DEF RegistrationFails
  <2>. QED
    BY <2>2, <2>3, <2>4, SessionStep
<1>5. CASE ClientEvent(s)
  <2>1. PICK st \in ClientEvents(sessions[s].status) :
         sessions' = [sessions EXCEPT ![s].status = st,
                        ![s].pending = IF st = "CFG_REQUIRE_USER" THEN Slots ELSE @]
    BY <1>5 DEF ClientEvent
  <2>2. st \in Statuses
    BY <2>1 DEF ClientEvents, Statuses
  <2>. DEFINE p == IF st = "CFG_REQUIRE_USER" THEN Slots ELSE sessions[s].pending
              x == [sessions[s] EXCEPT !.status = st, !.pending = p]
  <2>3. sessions' = [sessions EXCEPT ![s] = x]
    BY <1>1, <2>1 DEF IInv, TypeOK
  <2>4. x \in SessionState /\ x.phase = sessions[s].phase
    BY <1>1, <2>2 DEF SessionState
  <2>. HIDE DEF x
  <2>5. sessions' \in [Sessions -> SessionState] /\ PhasesKept(sessions, sessions')
    BY <2>3, <2>4, SessionChange
  <2>6. events' \in Nat /\ UNCHANGED <<front, inbox, faults>>
    BY <1>1, <1>5 DEF ClientEvent
  <2>. QED
    BY <2>5, <2>6, QuietInbox, SessionStep
<1>6. CASE ClientDies(s)
  <2>1. events' \in Nat /\ UNCHANGED <<front, faults>> /\ RemoveSession(s) /\ sessions[s].phase = "up"
    BY <1>1, <1>6 DEF ClientDies
  <2>. QED
    BY <2>1, RemoveStep, SessionStep
<1>. QED
  BY <1>2, <1>3, <1>4, <1>5, <1>6 DEF Backend

(***************************************************************************)
(* The steps of a process.                                                 *)
(***************************************************************************)
(* What a step may use of the process that takes it. *)
LEMMA FrontFacts ==
    ASSUME IInv, NEW f \in Fronts
    PROVE  /\ front[f] \in FrontState /\ Ended(front[f])
           /\ FrontOK(front[f], sessions, faults)
           /\ front[f].session \in Sessions \cup {NoSession}
           /\ events \in Nat /\ faults \in Nat /\ faults >= faults
           /\ sessions \in [Sessions -> SessionState] /\ PhasesKept(sessions, sessions)
           /\ MaxLoops \in Nat /\ NoSession \notin Sessions
  BY FrontEndBounds, FrontEndSets
     DEF IInv, TypeOK, StartInv, Ended, FrontState, PhasesKept, NoSession

(* A process takes a step that changes neither a session nor a signal. *)
LEMMA PlainStep ==
    ASSUME IInv, NEW f \in Fronts, NEW r \in FrontState, Ended(r),
           front' = [front EXCEPT ![f] = r], UNCHANGED <<sessions, inbox, events>>,
           faults' \in Nat, faults' >= faults, FrontOK(r, sessions, faults')
    PROVE  IInv'
  BY FrontFacts, MoveStep

(* A process ends and the sessions stay as they are. *)
LEMMA PlainEnd ==
    ASSUME IInv, NEW f \in Fronts, NEW result \in Results \ {"none"}, End(f, result),
           UNCHANGED <<sessions, events>>, faults' \in Nat, faults' >= faults,
           front[f].cmd = "start" /\ result = "error" /\ faults' = 0
             => sessions[front[f].session].phase = "gone"
    PROVE  IInv'
  BY FrontFacts, EndStep

(* session-start works with a confirmed session, and a call to it fails     *)
(* without a fault only if the session is gone.                             *)
LEMMA CalledFacts ==
    ASSUME IInv, NEW f \in Fronts, NEW ok \in BOOLEAN, Called(f, ok)
    PROVE  /\ faults' \in Nat /\ faults' >= faults
           /\ ok => front[f].session \in Sessions /\ sessions[front[f].session].phase \in {"registering", "up"}
           /\ front[f].cmd = "start" /\ front[f].pc \in InStartSession \cup {"dco"} =>
                /\ front[f].session \in Sessions
                /\ sessions[front[f].session].phase \in Confirmed
                /\ ~ok /\ faults' = 0 => sessions[front[f].session].phase = "gone"
<1>1. /\ faults' \in Nat /\ faults' >= faults
      /\ ok => front[f].session \in Sessions /\ Exists(front[f].session)
      /\ ~ok /\ faults' = 0 => ~Exists(front[f].session)
  BY CalledType DEF IInv
<1>2. ASSUME front[f].cmd = "start", front[f].pc \in InStartSession \cup {"dco"}
      PROVE  /\ front[f].session \in Sessions
             /\ sessions[front[f].session].phase \in Confirmed
  BY <1>2, FrontFacts DEF FrontOK, StartOK, InStartSession
<1>3. NoSession \notin Sessions
  BY FrontFacts
<1>. QED
  BY <1>1, <1>2, <1>3 DEF Exists, Confirmed

LEMMA DBusErrorStep ==
    ASSUME IInv, NEW f \in Fronts, DBusError(f), UNCHANGED <<sessions, events>>,
           faults' \in Nat, faults' >= faults,
           front[f].pc \in InStartSession \ {"prompt", "drop"}
    PROVE  IInv'
<1>1. front[f].cmd = "start" /\ front[f].reason = "ERROR" /\ faults' = 0
        => sessions[front[f].session].phase = "gone"
  BY FrontFacts DEF FrontOK, StartOK
<1>2. {"error", "quiet"} \subseteq Results \ {"none"}
  BY DEF Results
<1>3. CASE front[f].reason = "ERROR"
  <2>1. End(f, "error")
    BY <1>3 DEF DBusError
  <2>. QED
    BY <1>1, <1>2, <1>3, <2>1, PlainEnd
<1>4. CASE front[f].reason # "ERROR"
  <2>1. End(f, "quiet")
    BY <1>4 DEF DBusError
  <2>. QED
    BY <1>2, <2>1, PlainEnd
<1>. QED
  BY <1>3, <1>4

LEMMA NewTunnelStep ==
    ASSUME IInv, NEW f \in Fronts, NewTunnel(f)
    PROVE  IInv'
<1>1. PICK s \in Sessions, opt \in Options :
        /\ sessions[s].phase = "none"
        /\ sessions' = [sessions EXCEPT ![s].phase = "requested"]
        /\ front' = [front EXCEPT ![f] = [@ EXCEPT !.pc = "wait", !.cmd = "start",
                        !.session = s, !.opt = opt]]
  BY DEF NewTunnel
<1>. DEFINE r == [front[f] EXCEPT !.pc = "wait", !.cmd = "start", !.session = s, !.opt = opt]
            x == [sessions[s] EXCEPT !.phase = "requested"]
<1>2. sessions[s] \in SessionState /\ front[f] \in FrontState /\ front[f].result = "none"
      /\ events \in Nat /\ faults \in Nat
  BY FrontFacts DEF Ended, NewTunnel
<1>3. x \in SessionState /\ sessions' = [sessions EXCEPT ![s] = x]
  BY <1>1, <1>2, FrontFacts DEF SessionState, Phases
<1>4. /\ r \in FrontState /\ Ended(r) /\ front' = [front EXCEPT ![f] = r]
      /\ r.pc = "wait" /\ r.session = s /\ r.result = "none" /\ r.reason = "NONE"
  <2>1. /\ front[f].pc = "idle" /\ front[f].reason = "NONE"
        /\ "wait" \in Pcs /\ "start" \in CommandNames
    BY FrontFacts DEF FrontOK, NewTunnel, Pcs, CommandNames
  <2>2. front' = [front EXCEPT ![f] = r]
    BY <1>1
  <2>. QED
    BY <1>2, <2>1, <2>2 DEF FrontState, Ended
<1>. HIDE DEF x, r
<1>5. sessions' \in [Sessions -> SessionState] /\ PhasesKept(sessions, sessions')
  BY <1>1, <1>3, SessionChange DEF Confirmed
<1>6. FrontOK(r, sessions', faults')
  BY <1>4 DEF FrontOK, StartOK, InStartSession
<1>7. UNCHANGED inbox /\ events' \in Nat /\ faults' \in Nat /\ faults' >= faults
  BY <1>2 DEF NewTunnel
<1>. QED
  BY <1>4, <1>5, <1>6, <1>7, MoveStep

(* session-start leaves NewTunnel() when its session is confirmed. *)
LEMMA NewTunnelSignalStep ==
    ASSUME IInv, NEW f \in Fronts, NewTunnelSignal(f)
    PROVE  IInv'
<1>. DEFINE e == Head(inbox[f])
            mine == ForThisSession(f, e)
            r == IF mine THEN [front[f] EXCEPT !.pc = "dco", !.loops = MaxLoops] ELSE front[f]
<1>1. /\ front[f].pc = "wait" /\ inbox[f] # <<>> /\ UNCHANGED <<sessions, events, faults>>
      /\ inbox' = [inbox EXCEPT ![f] = IF mine THEN <<>> ELSE Tail(inbox[f])]
      /\ front' = [front EXCEPT ![f] = r]
  BY DEF NewTunnelSignal
<1>2. /\ front[f] \in FrontState /\ front[f].result = "none" /\ MaxLoops \in 0..MaxLoops
      /\ FrontOK(front[f], sessions, faults) /\ Ended(front[f])
  BY <1>1, FrontFacts DEF Ended
<1>3. /\ e \in Signals /\ Tail(inbox[f]) \in Seq(Signals) /\ <<>> \in Seq(Signals)
      /\ \E i \in DOMAIN inbox[f] : e = inbox[f][i]
      /\ \A i \in DOMAIN Tail(inbox[f]) : \E j \in DOMAIN inbox[f] : Tail(inbox[f])[i] = inbox[f][j]
  BY <1>1, TailType DEF IInv
<1>4. mine => sessions[front[f].session].phase \in Confirmed
  BY <1>3 DEF IInv, InboxInv, InboxOK, ForThisSession
<1>5. r \in FrontState /\ Ended(r)
  BY <1>2 DEF FrontState, Ended, Pcs, InStartSession
<1>6. FrontOK(r, sessions, faults)
  <2>1. CASE mine
    <3>1. /\ r.pc = "dco" /\ r.session = front[f].session /\ r.result = "none" /\ r.cmd = front[f].cmd
          /\ r.reason = front[f].reason
      BY <1>2, <2>1 DEF FrontState
    <3>2. r.reason = "NONE"
      BY <1>1, <1>2, <3>1 DEF FrontOK
    <3>. QED
      BY <1>1, <1>2, <1>4, <2>1, <3>1, <3>2 DEF FrontOK, StartOK, InStartSession
  <2>2. CASE ~mine
    BY <1>2, <2>2
  <2>. QED
    BY <2>1, <2>2
<1>. HIDE DEF r, e, mine
<1>7. ASSUME NEW g \in Fronts
      PROVE  inbox'[g] \in Seq(Signals) /\ InboxOK(inbox'[g], sessions)
  <2>1. inbox[g] \in Seq(Signals) /\ InboxOK(inbox[g], sessions)
    BY DEF IInv, TypeOK, InboxInv
  <2>2. inbox'[g] = inbox[g] \/ inbox'[g] = <<>> \/ (g = f /\ inbox'[g] = Tail(inbox[f]))
    BY <1>1 DEF IInv, TypeOK
  <2>3. InboxOK(<<>>, sessions)
    BY DEF InboxOK
  <2>4. ASSUME g = f PROVE InboxOK(Tail(inbox[f]), sessions)
    BY <1>3, <2>1, <2>4 DEF InboxOK
  <2>. QED
    BY <1>3, <2>1, <2>2, <2>3, <2>4
<1>8. inbox' \in [Fronts -> Seq(Signals)] /\ InboxInv'
  BY <1>1, <1>7 DEF IInv, TypeOK, InboxInv
<1>. QED
  BY <1>1, <1>5, <1>6, <1>8, FrontFacts, FrontStep

LEMMA NewTunnelTimeoutStep ==
    ASSUME IInv, NEW f \in Fronts, NewTunnelTimeout(f)
    PROVE  IInv'
<1>1. End(f, "late") /\ "late" \in Results \ {"none"} /\ UNCHANGED <<sessions, events, faults>>
  BY DEF NewTunnelTimeout, Results
<1>. QED
  BY <1>1, FrontFacts, PlainEnd

(* --dco: when the call fails and nothing was at fault, the session is gone. *)
LEMMA SetDCOStep ==
    ASSUME IInv, NEW f \in Fronts, SetDCO(f)
    PROVE  IInv'
<1>0. /\ front[f].pc = "dco" /\ UNCHANGED <<sessions, events>>
      /\ {"option", "error"} \subseteq Results \ {"none"}
  BY DEF SetDCO, Results
<1>1. ASSUME Goto(f, "ready"), UNCHANGED inbox, faults' \in Nat, faults' >= faults
      PROVE  IInv'
  <2>. DEFINE r == [front[f] EXCEPT !.pc = "ready"]
  <2>1. /\ front[f] \in FrontState /\ front[f].result = "none" /\ front[f].reason = "NONE"
        /\ FrontOK(front[f], sessions, faults)
    BY <1>0, FrontFacts DEF Ended, FrontOK
  <2>2. r \in FrontState /\ r.pc = "ready" /\ r.cmd = front[f].cmd /\ r.result = "none"
        /\ r.session = front[f].session /\ r.reason = "NONE"
    BY <2>1 DEF FrontState, Pcs, InStartSession
  <2>3. front' = [front EXCEPT ![f] = r]
    BY <1>1 DEF Goto
  <2>. HIDE DEF r
  <2>4. Ended(r) /\ FrontOK(r, sessions, faults')
    BY <1>0, <2>1, <2>2 DEF Ended, FrontOK, StartOK, InStartSession
  <2>. QED
    BY <1>0, <1>1, <2>2, <2>3, <2>4, PlainStep
<1>2. CASE Goto(f, "ready") /\ UNCHANGED <<inbox, faults>>
  BY <1>1, <1>2, FrontFacts
<1>3. CASE End(f, "option") /\ UNCHANGED faults
  BY <1>0, <1>3, FrontFacts, PlainEnd
<1>4. ASSUME NEW ok \in BOOLEAN, Called(f, ok),
             IF ok THEN Goto(f, "ready") /\ UNCHANGED inbox ELSE End(f, "error")
      PROVE  IInv'
  <2>1. /\ faults' \in Nat /\ faults' >= faults
        /\ front[f].cmd = "start" /\ ~ok /\ faults' = 0 => sessions[front[f].session].phase = "gone"
    BY <1>0, <1>4, CalledFacts
  <2>2. CASE ok
    BY <1>1, <1>4, <2>1, <2>2
  <2>3. CASE ~ok
    BY <1>0, <1>4, <2>1, <2>3, PlainEnd
  <2>. QED
    BY <2>2, <2>3
<1>. QED
  BY <1>2, <1>3, <1>4 DEF SetDCO

(* start_session() goes on with the same session: the reason to stop stays, *)
(* and Disconnect is for trying again or ending with an error.              *)
LEMMA GoOnStep ==
    ASSUME IInv, NEW f \in Fronts, front[f].pc \in InStartSession,
           NEW r \in FrontState, front' = [front EXCEPT ![f] = r],
           UNCHANGED <<sessions, inbox, events>>, faults' \in Nat, faults' >= faults,
           r.pc \in InStartSession, r.cmd = front[f].cmd, r.session = front[f].session,
           r.result = front[f].result,
           r.pc = "drop" => \/ r.after \in {"again", "error", "timeout"}
                            \/ front[f].pc = "drop" /\ r.after = front[f].after,
           front[f].cmd = "start" /\ faults' = 0 /\ r.reason = "ERROR" /\ r.pc \notin {"prompt", "drop"}
             => sessions[front[f].session].phase = "gone"
    PROVE  IInv'
<1>1. Ended(r) /\ front[f].result = "none"
  BY FrontFacts DEF Ended, InStartSession
<1>2. FrontOK(r, sessions, faults')
  <2>1. ASSUME r.cmd = "start" PROVE StartOK(r, sessions, faults')
    <3>1. StartOK(front[f], sessions, faults)
      BY <2>1, FrontFacts DEF FrontOK
    <3>. QED
      BY <1>1, <2>1, <3>1 DEF StartOK, InStartSession
  <2>. QED
    BY <2>1 DEF FrontOK, InStartSession
<1>. QED
  BY <1>1, <1>2, PlainStep

(* The reason to stop that start_session() keeps. *)
LEMMA ReasonKept ==
    ASSUME IInv, NEW f \in Fronts, front[f].pc \in InStartSession \ {"prompt", "drop"},
           faults' \in Nat, faults' >= faults, front[f].cmd = "start", faults' = 0,
           front[f].reason = "ERROR"
    PROVE  sessions[front[f].session].phase = "gone"
  BY FrontFacts DEF FrontOK, StartOK

LEMMA AskUserStep ==
    ASSUME IInv, NEW f \in Fronts, AskUser(f), UNCHANGED <<sessions, inbox, events>>,
           faults' \in Nat, faults' >= faults, front[f].pc \in {"ready", "poll"}
    PROVE  IInv'
<1>. DEFINE r == [front[f] EXCEPT !.pc = "notready", !.loops = MaxLoops]
<1>1. front[f] \in FrontState /\ MaxLoops \in 0..MaxLoops
  BY FrontFacts
<1>2. r \in FrontState /\ r.pc = "notready" /\ r.cmd = front[f].cmd /\ r.result = front[f].result
      /\ r.session = front[f].session /\ r.reason = front[f].reason
  BY <1>1 DEF FrontState, Pcs, InStartSession
<1>3. front' = [front EXCEPT ![f] = r]
  BY <1>1 DEF AskUser, IInv, TypeOK
<1>. HIDE DEF r
<1>. QED
  BY <1>2, <1>3, ReasonKept, GoOnStep DEF InStartSession

LEMMA ReadyStep ==
    ASSUME IInv, NEW f \in Fronts, Ready(f)
    PROVE  IInv'
<1>0. /\ front[f].pc = "ready" /\ UNCHANGED <<sessions, events>> /\ "quiet" \in Results \ {"none"}
      /\ front[f].pc \in InStartSession \ {"prompt", "drop"}
  BY DEF Ready, InStartSession, Results
<1>1. CASE AllTried(f)
  BY <1>0, <1>1, FrontFacts, PlainEnd DEF Ready
<1>2. CASE ~AllTried(f)
  <2>1. PICK ok \in BOOLEAN :
          /\ Called(f, ok)
          /\ IF ok
             THEN /\ IF NotReady(front[f].session) THEN AskUser(f)
                     ELSE front' = [front EXCEPT ![f].loops = @ - 1, ![f].pc = "begin"]
                  /\ UNCHANGED inbox
             ELSE DBusError(f)
    BY <1>2 DEF Ready
  <2>2. faults' \in Nat /\ faults' >= faults
    BY <2>1, CalledFacts
  <2>3. CASE ~ok
    BY <1>0, <2>1, <2>2, <2>3, DBusErrorStep
  <2>4. CASE ok /\ NotReady(front[f].session)
    BY <1>0, <2>1, <2>2, <2>4, AskUserStep
  <2>5. CASE ok /\ ~NotReady(front[f].session)
    <3>. DEFINE r == [front[f] EXCEPT !.loops = front[f].loops - 1, !.pc = "begin"]
    <3>1. front[f] \in FrontState /\ front[f].loops - 1 \in 0..MaxLoops
      BY <1>2, FrontFacts DEF AllTried, FrontState
    <3>2. front' = [front EXCEPT ![f] = r]
      BY <2>1, <2>5, <3>1 DEF IInv, TypeOK
    <3>3. r \in FrontState /\ r.pc = "begin" /\ r.cmd = front[f].cmd /\ r.result = front[f].result
          /\ r.session = front[f].session /\ r.reason = front[f].reason
      BY <3>1 DEF FrontState, Pcs, InStartSession
    <3>. HIDE DEF r
    <3>. QED
      BY <1>0, <2>1, <2>2, <2>5, <3>2, <3>3, ReasonKept, GoOnStep DEF InStartSession
  <2>. QED
    BY <2>3, <2>4, <2>5
<1>. QED
  BY <1>1, <1>2

LEMMA BeginStep ==
    ASSUME IInv, NEW f \in Fronts, Begin(f)
    PROVE  IInv'
<1>0. /\ front[f].pc = "begin" /\ UNCHANGED events /\ "running" \in Results \ {"none"}
      /\ front[f].pc \in InStartSession \ {"prompt", "drop"}
  BY DEF Begin, InStartSession, Results
<1>1. PICK ok \in BOOLEAN :
         /\ Called(f, ok)
         /\ IF ~ok \/ Refuses(front[f].session, front[f].mode)
            THEN DBusError(f) /\ UNCHANGED sessions
            ELSE /\ sessions' = Began(front[f].session, front[f].mode)
                 /\ IF front[f].opt = "background" THEN End(f, "running")
                    ELSE /\ front' = [front EXCEPT ![f].pc = "poll", ![f].mode = "START"]
                         /\ UNCHANGED inbox
  BY DEF Begin
<1>2. faults' \in Nat /\ faults' >= faults /\ (ok => front[f].session \in Sessions)
  BY <1>1, CalledFacts
<1>3. CASE ~ok \/ Refuses(front[f].session, front[f].mode)
  BY <1>0, <1>1, <1>2, <1>3, DBusErrorStep
<1>4. CASE ok /\ ~Refuses(front[f].session, front[f].mode)
  <2>. DEFINE s == front[f].session
  <2>1. /\ sessions' \in [Sessions -> SessionState] /\ PhasesKept(sessions, sessions')
        /\ sessions'[s].phase = sessions[s].phase
    <3>1. CASE sessions' = sessions
      BY <3>1, FrontFacts
    <3>2. CASE sessions' = [sessions EXCEPT ![s].status = "CONN_CONNECTING"]
      <4>. DEFINE x == [sessions[s] EXCEPT !.status = "CONN_CONNECTING"]
      <4>1. x \in SessionState /\ x.phase = sessions[s].phase
        BY <1>2, <1>4, FrontFacts DEF SessionState, Statuses
      <4>2. sessions' = [sessions EXCEPT ![s] = x]
        BY <3>2
      <4>. HIDE DEF x
      <4>. QED
        BY <1>2, <1>4, <4>1, <4>2, SessionChange
    <3>. QED
      BY <1>1, <1>4, <3>1, <3>2 DEF Began
  <2>2. CASE front[f].opt = "background"
    BY <1>0, <1>1, <1>2, <1>4, <2>1, <2>2, FrontFacts, EndStep
  <2>3. CASE front[f].opt # "background"
    <3>. DEFINE r == [front[f] EXCEPT !.pc = "poll", !.mode = "START"]
    <3>1. front[f] \in FrontState /\ front[f].result = "none"
      BY <1>0, FrontFacts DEF Ended
    <3>2. front' = [front EXCEPT ![f] = r] /\ UNCHANGED inbox
      BY <1>1, <1>4, <2>3, <3>1 DEF IInv, TypeOK
    <3>3. r \in FrontState /\ r.pc = "poll" /\ r.cmd = front[f].cmd /\ r.result = front[f].result
          /\ r.session = front[f].session /\ r.reason = front[f].reason
      BY <3>1 DEF FrontState, Pcs, InStartSession, Modes
    <3>. HIDE DEF r
    <3>4. Ended(r)
      BY <3>1, <3>3 DEF Ended
    <3>5. FrontOK(r, sessions, faults)
      BY <1>0, <3>1, <3>3, FrontFacts DEF FrontOK, StartOK, InStartSession
    <3>6. FrontOK(r, sessions', faults')
      BY <1>2, <2>1, <3>3, <3>4, <3>5, FrontFacts, FrontKept
    <3>. QED
      BY <1>0, <1>2, <2>1, <3>2, <3>3, <3>4, <3>6, FrontFacts, MoveStep
  <2>. QED
    BY <2>2, <2>3
<1>. QED
  BY <1>3, <1>4

(* Only the place in the program changes. *)
LEMMA GotoStep ==
    ASSUME IInv, NEW f \in Fronts, NEW pc \in InStartSession \ {"drop"}, Goto(f, pc),
           front[f].pc \in InStartSession \ {"prompt", "drop"},
           UNCHANGED <<sessions, inbox, events>>, faults' \in Nat, faults' >= faults
    PROVE  IInv'
<1>. DEFINE r == [front[f] EXCEPT !.pc = pc]
<1>1. front[f] \in FrontState
  BY FrontFacts
<1>2. r \in FrontState /\ r.pc = pc /\ r.cmd = front[f].cmd /\ r.result = front[f].result
      /\ r.session = front[f].session /\ r.reason = front[f].reason
  BY <1>1 DEF FrontState, Pcs
<1>3. front' = [front EXCEPT ![f] = r]
  BY DEF Goto
<1>. HIDE DEF r
<1>. QED
  BY <1>2, <1>3, ReasonKept, GoOnStep

LEMMA DropStep ==
    ASSUME IInv, NEW f \in Fronts, NEW after \in {"error", "timeout"}, Drop(f, after),
           front[f].pc = "poll", UNCHANGED <<sessions, events>>, faults' \in Nat, faults' >= faults
    PROVE  IInv'
<1>. DEFINE r == [front[f] EXCEPT !.pc = "drop", !.after = after]
<1>1. front[f] \in FrontState
  BY FrontFacts
<1>2. r \in FrontState /\ r.pc = "drop" /\ r.cmd = front[f].cmd /\ r.result = front[f].result
      /\ r.session = front[f].session /\ r.after \in {"again", "error", "timeout"}
  BY <1>1 DEF FrontState, Pcs, InStartSession, Afters
<1>3. front' = [front EXCEPT ![f] = r] /\ UNCHANGED inbox
  BY <1>1 DEF Drop, IInv, TypeOK
<1>. HIDE DEF r
<1>. QED
  BY <1>2, <1>3, GoOnStep DEF InStartSession

LEMMA PollStep ==
    ASSUME IInv, NEW f \in Fronts, Poll(f)
    PROVE  IInv'
<1>0. /\ front[f].pc = "poll" /\ UNCHANGED <<sessions, events>>
      /\ {"running", "error"} \subseteq Results \ {"none"}
      /\ front[f].pc \in InStartSession \ {"prompt", "drop"}
      /\ {"details", "ready"} \subseteq InStartSession \ {"drop"}
  BY DEF Poll, InStartSession, Results
<1>1. PICK ok \in BOOLEAN :
        /\ Called(f, ok)
        /\ \/ ~ok /\ End(f, "error")
           \/ ok /\ \E opened \in BOOLEAN : UrlAuth(f, opened)
           \/ Goto(f, "details") /\ UNCHANGED inbox
           \/ Drop(f, "error")
           \/ AskUser(f) /\ UNCHANGED inbox
           \/ OutOfTime(f)
           \/ Goto(f, "ready") /\ UNCHANGED inbox
  BY DEF Poll
<1>2. /\ faults' \in Nat /\ faults' >= faults
      /\ front[f].cmd = "start" /\ ~ok /\ faults' = 0 => sessions[front[f].session].phase = "gone"
  BY <1>0, <1>1, CalledFacts
<1>3. CASE ~ok /\ End(f, "error")
  BY <1>0, <1>2, <1>3, PlainEnd
<1>4. CASE \E opened \in BOOLEAN : UrlAuth(f, opened)
  <2>1. CASE End(f, "running")
    BY <1>0, <1>2, <2>1, PlainEnd
  <2>2. CASE front' = [front EXCEPT ![f].reason = "DONE"] /\ UNCHANGED inbox
    <3>. DEFINE r == [front[f] EXCEPT !.reason = "DONE"]
    <3>1. front[f] \in FrontState
      BY FrontFacts
    <3>2. r \in FrontState /\ r.pc = "poll" /\ r.cmd = front[f].cmd /\ r.result = front[f].result
          /\ r.session = front[f].session /\ r.reason = "DONE"
      BY <1>0, <3>1 DEF FrontState, Reasons
    <3>3. front' = [front EXCEPT ![f] = r] /\ UNCHANGED inbox
      BY <2>2
    <3>. HIDE DEF r
    <3>. QED
      BY <1>0, <1>2, <3>2, <3>3, GoOnStep
  <2>. QED
    BY <1>4, <2>1, <2>2 DEF UrlAuth
<1>5. CASE Goto(f, "details") /\ UNCHANGED inbox
  BY <1>0, <1>2, <1>5, GotoStep
<1>6. CASE Drop(f, "error")
  BY <1>0, <1>2, <1>6, DropStep
<1>7. CASE AskUser(f) /\ UNCHANGED inbox
  BY <1>0, <1>2, <1>7, AskUserStep
<1>8. CASE OutOfTime(f)
  BY <1>0, <1>2, <1>8, DropStep DEF OutOfTime
<1>9. CASE Goto(f, "ready") /\ UNCHANGED inbox
  BY <1>0, <1>2, <1>9, GotoStep
<1>. QED
  BY <1>1, <1>3, <1>4, <1>5, <1>6, <1>7, <1>8, <1>9

LEMMA DetailsStep ==
    ASSUME IInv, NEW f \in Fronts, Details(f)
    PROVE  IInv'
<1>0. /\ UNCHANGED <<sessions, events>> /\ "running" \in Results \ {"none"}
      /\ front[f].pc \in InStartSession \ {"prompt", "drop"}
  BY DEF Details, InStartSession, Results
<1>1. PICK ok \in BOOLEAN : Called(f, ok) /\ (End(f, "running") \/ DBusError(f))
  BY DEF Details
<1>2. faults' \in Nat /\ faults' >= faults
  BY <1>1, CalledFacts
<1>3. CASE End(f, "running")
  BY <1>0, <1>2, <1>3, PlainEnd
<1>4. CASE DBusError(f)
  BY <1>0, <1>2, <1>4, DBusErrorStep
<1>. QED
  BY <1>1, <1>3, <1>4

LEMMA ReadyExceptionStep ==
    ASSUME IInv, NEW f \in Fronts, ReadyException(f)
    PROVE  IInv'
<1>0. /\ UNCHANGED <<sessions, events>> /\ {"running", "error"} \subseteq Results \ {"none"}
      /\ front[f].pc \in InStartSession \ {"prompt", "drop"}
      /\ "query" \in InStartSession \ {"drop"}
  BY DEF ReadyException, InStartSession, Results
<1>1. PICK ok \in BOOLEAN :
        /\ Called(f, ok)
        /\ \/ ~ok /\ End(f, "error")
           \/ End(f, "running")
           \/ Goto(f, "query") /\ UNCHANGED inbox
  BY DEF ReadyException
<1>2. /\ faults' \in Nat /\ faults' >= faults
      /\ front[f].cmd = "start" /\ ~ok /\ faults' = 0 => sessions[front[f].session].phase = "gone"
  BY <1>0, <1>1, CalledFacts
<1>3. CASE ~ok /\ End(f, "error")
  BY <1>0, <1>2, <1>3, PlainEnd
<1>4. CASE End(f, "running")
  BY <1>0, <1>2, <1>4, PlainEnd
<1>5. CASE Goto(f, "query") /\ UNCHANGED inbox
  BY <1>0, <1>2, <1>5, GotoStep
<1>. QED
  BY <1>1, <1>3, <1>4, <1>5

LEMMA QueueFetchAllStep ==
    ASSUME IInv, NEW f \in Fronts, QueueFetchAll(f)
    PROVE  IInv'
<1>0. /\ UNCHANGED <<sessions, events>> /\ "error" \in Results \ {"none"}
      /\ front[f].pc \in InStartSession \ {"prompt", "drop"}
      /\ front[f] \in FrontState
  BY FrontFacts DEF QueueFetchAll, InStartSession, Results
<1>1. PICK ok \in BOOLEAN :
        /\ Called(f, ok)
        /\ \/ /\ ok /\ UNCHANGED inbox
              /\ front' = [front EXCEPT ![f].pc = "prompt", ![f].slots = Session(f).pending]
           \/ ~ok /\ End(f, "error")
           \/ /\ ~ok /\ UNCHANGED inbox
              /\ front' = [front EXCEPT ![f] = [@ EXCEPT !.reason = "ERROR", !.pc = "ready"]]
  BY DEF QueueFetchAll
<1>2. /\ faults' \in Nat /\ faults' >= faults /\ (ok => front[f].session \in Sessions)
      /\ front[f].cmd = "start" /\ ~ok /\ faults' = 0 => sessions[front[f].session].phase = "gone"
  BY <1>0, <1>1, CalledFacts
<1>3. CASE ok /\ UNCHANGED inbox
           /\ front' = [front EXCEPT ![f].pc = "prompt", ![f].slots = Session(f).pending]
  <2>. DEFINE p == Session(f).pending
              r == [front[f] EXCEPT !.pc = "prompt", !.slots = p]
  <2>1. p \in SUBSET Slots
    BY <1>2, <1>3, FrontFacts DEF Session, SessionState
  <2>. HIDE DEF p
  <2>2. front' = [front EXCEPT ![f] = r]
    BY <1>0, <1>3 DEF IInv, TypeOK, p
  <2>3. r \in FrontState /\ r.pc = "prompt" /\ r.cmd = front[f].cmd /\ r.result = front[f].result
        /\ r.session = front[f].session
    BY <1>0, <2>1 DEF FrontState, Pcs, InStartSession
  <2>. HIDE DEF r
  <2>. QED
    BY <1>0, <1>2, <1>3, <2>2, <2>3, GoOnStep DEF InStartSession
<1>4. CASE ~ok /\ End(f, "error")
  BY <1>0, <1>2, <1>4, PlainEnd
<1>5. CASE ~ok /\ UNCHANGED inbox
           /\ front' = [front EXCEPT ![f] = [@ EXCEPT !.reason = "ERROR", !.pc = "ready"]]
  <2>. DEFINE r == [front[f] EXCEPT !.reason = "ERROR", !.pc = "ready"]
  <2>1. front' = [front EXCEPT ![f] = r]
    BY <1>5
  <2>2. r \in FrontState /\ r.pc = "ready" /\ r.cmd = front[f].cmd /\ r.result = front[f].result
        /\ r.session = front[f].session
    BY <1>0 DEF FrontState, Pcs, InStartSession, Reasons
  <2>. HIDE DEF r
  <2>. QED
    BY <1>0, <1>2, <1>5, <2>1, <2>2, GoOnStep DEF InStartSession
<1>. QED
  BY <1>1, <1>3, <1>4, <1>5

(* Disconnect: whether it succeeds or there is no fault, the session is gone. *)
LEMMA CallDisconnectStep ==
    ASSUME IInv, NEW f \in Fronts, CallDisconnect(f)
    PROVE  IInv'
<1>0. /\ front[f] \in FrontState /\ front[f].result = "none" /\ front[f].pc = "drop"
      /\ front[f].pc \in InStartSession /\ events' \in Nat
  BY FrontFacts DEF CallDisconnect, Ended, InStartSession
<1>1. PICK ok \in BOOLEAN :
         /\ Called(f, ok)
         /\ \/ front[f].after = "again" /\ Goto(f, "ready")
            \/ front[f].after = "list" /\ Goto(f, "look")
            \/ /\ front[f].after \notin {"again", "list"}
               /\ front' = [front EXCEPT ![f] = Stopped(f, DropResult(f, ok))]
         /\ IF ok THEN RemoveSession(front[f].session) ELSE UNCHANGED <<sessions, inbox>>
  BY DEF CallDisconnect
<1>. DEFINE s == front[f].session
<1>2. /\ faults' \in Nat /\ faults' >= faults
      /\ ok => s \in Sessions /\ sessions[s].phase \in {"registering", "up"}
      /\ front[f].cmd = "start" =>
           s \in Sessions /\ sessions[s].phase \in Confirmed
           /\ (~ok /\ faults' = 0 => sessions[s].phase = "gone")
  BY <1>0, <1>1, CalledFacts
<1>3. /\ sessions' \in [Sessions -> SessionState] /\ PhasesKept(sessions, sessions')
      /\ inbox' \in [Fronts -> Seq(Signals)] /\ InboxInv'
      /\ front[f].cmd = "start" => /\ sessions'[s].phase \in Confirmed
                                   /\ faults' = 0 => sessions'[s].phase = "gone"
  <2>1. CASE ok
    BY <1>1, <1>2, <2>1, RemoveStep DEF Confirmed
  <2>2. CASE ~ok
    <3>1. UNCHANGED <<sessions, inbox>>
      BY <1>1, <2>2
    <3>2. sessions' \in [Sessions -> SessionState] /\ PhasesKept(sessions, sessions')
      BY <3>1, FrontFacts
    <3>3. inbox' \in [Fronts -> Seq(Signals)] /\ InboxInv'
      BY <3>1, <3>2, QuietInbox
    <3>. QED
      BY <1>2, <2>2, <3>1, <3>2, <3>3
  <2>. QED
    BY <2>1, <2>2
<1>4. ASSUME NEW pc \in {"ready", "look"}, Goto(f, pc), front[f].after \in {"again", "list"},
             pc = "look" => front[f].after = "list"
      PROVE  IInv'
  <2>. DEFINE r == [front[f] EXCEPT !.pc = pc]
  <2>1. /\ r \in FrontState /\ r.pc = pc /\ r.cmd = front[f].cmd /\ r.result = "none"
        /\ r.session = s
    BY <1>0, <1>4 DEF FrontState, Pcs, InStartSession
  <2>2. front' = [front EXCEPT ![f] = r]
    BY <1>4 DEF Goto
  <2>3. front[f].cmd = "start" => pc = "ready"
    BY <1>0, <1>4, FrontFacts DEF FrontOK, StartOK
  <2>. HIDE DEF r
  <2>4. Ended(r)
    BY <2>1 DEF Ended
  <2>5. FrontOK(r, sessions', faults')
    BY <1>2, <1>3, <2>1, <2>3 DEF FrontOK, StartOK, InStartSession
  <2>. QED
    BY <1>0, <1>2, <1>3, <2>1, <2>2, <2>4, <2>5, FrontStep
<1>5. ASSUME front' = [front EXCEPT ![f] = Stopped(f, DropResult(f, ok))]
      PROVE  IInv'
  <2>. DEFINE result == DropResult(f, ok)
              r == Stopped(f, result)
  <2>1. result \in Results \ {"none"}
    BY DEF DropResult, Results
  <2>. HIDE DEF result
  <2>2. r \in FrontState /\ Ended(r)
    BY <2>1, StoppedType DEF IInv
  <2>3. /\ r.pc = "end" /\ (r.cmd = "start" => front[f].cmd = "start" /\ r.session = s)
    BY DEF Stopped, Idle
  <2>4. front' = [front EXCEPT ![f] = r]
    BY <1>5 DEF result
  <2>. HIDE DEF r
  <2>5. FrontOK(r, sessions', faults')
    BY <1>2, <1>3, <2>3 DEF FrontOK, StartOK, InStartSession
  <2>. QED
    BY <1>0, <1>2, <1>3, <2>2, <2>4, <2>5, FrontStep
<1>. QED
  BY <1>1, <1>4, <1>5

LEMMA ProvideResponseStep ==
    ASSUME IInv, NEW f \in Fronts, ProvideResponse(f)
    PROVE  IInv'
<1>. DEFINE s == front[f].session
            taken(i, ok) == ok /\ i \in sessions[s].pending
            reason(i, ok) == IF ~Exists(s) THEN "ABORTED" ELSE IF ~taken(i, ok) THEN "ERROR" ELSE "NONE"
<1>0. /\ front[f] \in FrontState /\ front[f].pc = "prompt" /\ events' \in Nat /\ UNCHANGED inbox
      /\ front[f].result = "none"
  BY FrontFacts DEF ProvideResponse, Ended
<1>1. PICK i \in front[f].slots, ok \in BOOLEAN :
         /\ Called(f, ok)
         /\ sessions' = IF taken(i, ok) THEN [sessions EXCEPT ![s].pending = @ \ {i}] ELSE sessions
         /\ front' = [front EXCEPT ![f].slots = @ \ {i}, ![f].reason = reason(i, ok)]
  BY DEF ProvideResponse
<1>2. faults' \in Nat /\ faults' >= faults /\ (ok => s \in Sessions)
  BY <1>1, CalledFacts
<1>3. sessions' \in [Sessions -> SessionState] /\ PhasesKept(sessions, sessions')
  <2>1. CASE taken(i, ok)
    <3>. DEFINE x == [sessions[s] EXCEPT !.pending = sessions[s].pending \ {i}]
    <3>1. x \in SessionState /\ x.phase = sessions[s].phase
      BY <1>2, <2>1, FrontFacts DEF SessionState
    <3>2. sessions' = [sessions EXCEPT ![s] = x]
      BY <1>1, <2>1
    <3>. HIDE DEF x
    <3>. QED
      BY <1>2, <2>1, <3>1, <3>2, SessionChange
  <2>2. CASE ~taken(i, ok)
    BY <1>1, <2>2, FrontFacts
  <2>. QED
    BY <2>1, <2>2
<1>4. reason(i, ok) \in Reasons
  BY DEF Reasons
<1>. DEFINE w == reason(i, ok)
            r == [front[f] EXCEPT !.slots = front[f].slots \ {i}, !.reason = w]
<1>5. front' = [front EXCEPT ![f] = r]
  BY <1>0, <1>1 DEF IInv, TypeOK
<1>. HIDE DEF w
<1>6. w \in Reasons
  BY <1>4 DEF w
<1>7. r \in FrontState /\ r.pc = "prompt" /\ r.cmd = front[f].cmd /\ r.result = "none" /\ r.session = s
  BY <1>0, <1>6 DEF FrontState
<1>. HIDE DEF r
<1>8. Ended(r)
  BY <1>7 DEF Ended
<1>9. FrontOK(r, sessions, faults)
  BY <1>0, <1>7, FrontFacts DEF FrontOK, StartOK, InStartSession
<1>10. FrontOK(r, sessions', faults')
  BY <1>2, <1>3, <1>7, <1>8, <1>9, FrontFacts, FrontKept
<1>. QED
  BY <1>0, <1>2, <1>3, <1>5, <1>7, <1>8, <1>10, MoveStep

LEMMA EmptyInputStep ==
    ASSUME IInv, NEW f \in Fronts, EmptyInput(f)
    PROVE  IInv'
<1>0. /\ front[f] \in FrontState /\ front[f].pc = "prompt"
      /\ UNCHANGED <<sessions, inbox, events, faults>>
  BY FrontFacts DEF EmptyInput
<1>1. PICK i \in front[f].slots : front' = [front EXCEPT ![f].slots = @ \ {i}]
  BY DEF EmptyInput
<1>. DEFINE r == [front[f] EXCEPT !.slots = front[f].slots \ {i}]
<1>2. front' = [front EXCEPT ![f] = r]
  BY <1>1
<1>3. r \in FrontState /\ r.pc = "prompt" /\ r.cmd = front[f].cmd /\ r.result = front[f].result
      /\ r.session = front[f].session
  BY <1>0 DEF FrontState
<1>. HIDE DEF r
<1>. QED
  BY <1>0, <1>2, <1>3, FrontFacts, GoOnStep DEF InStartSession

LEMMA QueryDoneStep ==
    ASSUME IInv, NEW f \in Fronts, QueryDone(f)
    PROVE  IInv'
<1>0. /\ front[f] \in FrontState /\ front[f].pc = "prompt"
      /\ UNCHANGED <<sessions, inbox, events, faults>>
  BY FrontFacts DEF QueryDone
<1>. DEFINE p == IF front[f].reason \in {"NONE", "DONE"} THEN "ready" ELSE "drop"
            a == AfterQuery(f)
            r == [front[f] EXCEPT !.slots = {}, !.pc = p, !.after = a]
<1>1. front' = [front EXCEPT ![f] = r]
  BY DEF QueryDone
<1>2. /\ p \in {"ready", "drop"} /\ a \in Afters
      /\ p = "drop" => a \in {"again", "error"}
      /\ p = "ready" => front[f].reason # "ERROR"
  BY DEF AfterQuery, Afters
<1>. HIDE DEF p, a
<1>3. r \in FrontState /\ r.pc = p /\ r.cmd = front[f].cmd /\ r.result = front[f].result
      /\ r.session = front[f].session /\ r.after = a /\ r.reason = front[f].reason
  BY <1>0, <1>2 DEF FrontState, Pcs, InStartSession
<1>. HIDE DEF r
<1>. QED
  BY <1>0, <1>1, <1>2, <1>3, FrontFacts, GoOnStep DEF InStartSession

LEMMA InterruptStep ==
    ASSUME IInv, NEW f \in Fronts, sigint_handler(f)
    PROVE  IInv'
<1>0. /\ front[f] \in FrontState /\ front[f].pc \in InStartSession
      /\ UNCHANGED <<sessions, inbox, events, faults>>
  BY FrontFacts DEF sigint_handler
<1>. DEFINE r == [front[f] EXCEPT !.reason = "CTRL_C"]
<1>1. front' = [front EXCEPT ![f] = r]
  BY DEF sigint_handler
<1>2. r \in FrontState /\ r.pc = front[f].pc /\ r.cmd = front[f].cmd /\ r.result = front[f].result
      /\ r.session = front[f].session /\ r.after = front[f].after /\ r.reason = "CTRL_C"
  BY <1>0 DEF FrontState, Reasons
<1>. HIDE DEF r
<1>. QED
  BY <1>0, <1>1, <1>2, FrontFacts, GoOnStep

LEMMA KilledStep ==
    ASSUME IInv, NEW f \in Fronts, Killed(f)
    PROVE  IInv'
<1>1. End(f, "killed") /\ "killed" \in Results \ {"none"} /\ UNCHANGED <<sessions, events, faults>>
  BY DEF Killed, Results
<1>. QED
  BY <1>1, FrontFacts, PlainEnd

(***************************************************************************)
(* The commands that do not start a session.                               *)
(***************************************************************************)
(* A command other than session-start goes on. *)
LEMMA OtherStep ==
    ASSUME IInv, NEW f \in Fronts, NEW r \in FrontState, front' = [front EXCEPT ![f] = r],
           r.cmd # "start", r.pc \notin {"idle", "wait", "dco", "end"}, r.result = "none",
           UNCHANGED <<sessions, inbox, events>>, faults' \in Nat, faults' >= faults
    PROVE  IInv'
<1>1. Ended(r) /\ FrontOK(r, sessions, faults')
  BY DEF Ended, FrontOK
<1>. QED
  BY <1>1, PlainStep

(* A command other than session-start ends. *)
LEMMA OtherEnd ==
    ASSUME IInv, NEW f \in Fronts, NEW result \in Results \ {"none"}, End(f, result),
           front[f].cmd # "start", UNCHANGED <<sessions, events>>,
           faults' \in Nat, faults' >= faults
    PROVE  IInv'
  BY PlainEnd

(* A process that has not got a command yet. *)
LEMMA IdleFacts ==
    ASSUME IInv, NEW f \in Fronts, front[f].pc = "idle"
    PROVE  front[f] \in FrontState /\ front[f].cmd = "none" /\ front[f].result = "none"
  BY FrontFacts DEF FrontOK, Ended

LEMMA StartSessionStep ==
    ASSUME IInv, NEW f \in Fronts, front[f].pc = "idle",
           NEW c \in {"auth", "manage"}, NEW s \in Sessions, NEW opt \in Options, NEW mode \in Modes,
           StartSession(f, c, s, opt, mode), UNCHANGED <<sessions, inbox, events, faults>>
    PROVE  IInv'
<1>. DEFINE r == [front[f] EXCEPT !.cmd = c, !.session = s, !.opt = opt,
                                  !.pc = "ready", !.mode = mode, !.loops = MaxLoops]
<1>1. front[f] \in FrontState /\ front[f].result = "none" /\ MaxLoops \in 0..MaxLoops
  BY IdleFacts, FrontFacts
<1>2. c \in CommandNames /\ "ready" \in Pcs
  BY DEF CommandNames, Pcs, InStartSession
<1>3. front' = [front EXCEPT ![f] = r]
  BY DEF StartSession
<1>4. r \in FrontState /\ r.pc = "ready" /\ r.cmd = c /\ r.result = "none"
  BY <1>1, <1>2 DEF FrontState
<1>. HIDE DEF r
<1>. QED
  BY <1>3, <1>4, FrontFacts, OtherStep

LEMMA CommandsStep ==
    ASSUME IInv, NEW f \in Fronts, Commands(f)
    PROVE  IInv'
<1>0. {"done", "error"} \subseteq Results \ {"none"}
  BY DEF Results
<1>1. CASE NewTunnel(f)
  BY <1>1, NewTunnelStep
<1>2. CASE LogCommand(f)
  <2>. DEFINE r == [front[f] EXCEPT !.pc = "lookup", !.cmd = "log"]
  <2>1. front[f] \in FrontState /\ front[f].result = "none" /\ UNCHANGED <<sessions, inbox, events, faults>>
    BY <1>2, IdleFacts DEF LogCommand
  <2>2. front' = [front EXCEPT ![f] = r]
    BY <1>2, <2>1 DEF LogCommand, IInv, TypeOK
  <2>3. r \in FrontState /\ r.pc = "lookup" /\ r.cmd = "log" /\ r.result = "none"
    BY <2>1 DEF FrontState, Pcs, CommandNames
  <2>. HIDE DEF r
  <2>. QED
    BY <2>1, <2>2, <2>3, FrontFacts, OtherStep
<1>3. CASE AuthComplete(f)
  <2>1. PICK s \in Sessions :
          \/ StartSession(f, "auth", s, "none", "START") /\ UNCHANGED inbox
          \/ End(f, IF Exists(s) THEN "done" ELSE "error")
    BY <1>3 DEF AuthComplete
  <2>2. front[f].pc = "idle" /\ front[f].cmd = "none" /\ UNCHANGED <<sessions, events, faults>>
    BY <1>3, IdleFacts DEF AuthComplete
  <2>3. CASE StartSession(f, "auth", s, "none", "START") /\ UNCHANGED inbox
    BY <2>2, <2>3, StartSessionStep DEF Options, Modes
  <2>4. CASE End(f, IF Exists(s) THEN "done" ELSE "error")
    <3>1. End(f, "done") \/ End(f, "error")
      BY <2>4
    <3>. QED
      BY <1>0, <2>2, <3>1, FrontFacts, OtherEnd
  <2>. QED
    BY <2>1, <2>3, <2>4
<1>4. CASE ManageStart(f)
  <2>1. PICK s \in Sessions, opt \in {"timed", "background"}, mode \in {"RESUME", "RESTART"} :
          \/ StartSession(f, "manage", s, opt, mode) /\ UNCHANGED inbox
          \/ End(f, "error")
    BY <1>4 DEF ManageStart
  <2>2. front[f].pc = "idle" /\ front[f].cmd = "none" /\ UNCHANGED <<sessions, events, faults>>
    BY <1>4, IdleFacts DEF ManageStart
  <2>3. CASE StartSession(f, "manage", s, opt, mode) /\ UNCHANGED inbox
    BY <2>2, <2>3, StartSessionStep DEF Options, Modes
  <2>4. CASE End(f, "error")
    BY <1>0, <2>2, <2>4, FrontFacts, OtherEnd
  <2>. QED
    BY <2>1, <2>3, <2>4
<1>5. CASE ManagePause(f)
  <2>1. PICK s \in Sessions :
          /\ \/ sessions' = [sessions EXCEPT ![s].status = "CONN_PAUSED"]
             \/ sessions' = sessions
          /\ End(f, "done") \/ End(f, "error")
    BY <1>5 DEF ManagePause
  <2>2. front[f].cmd = "none" /\ events' \in Nat /\ faults' \in Nat /\ faults' >= faults
    BY <1>5, IdleFacts, FrontFacts DEF ManagePause
  <2>3. sessions' \in [Sessions -> SessionState] /\ PhasesKept(sessions, sessions')
    <3>1. CASE sessions' = [sessions EXCEPT ![s].status = "CONN_PAUSED"]
      <4>. DEFINE x == [sessions[s] EXCEPT !.status = "CONN_PAUSED"]
      <4>1. x \in SessionState /\ x.phase = sessions[s].phase
        BY FrontFacts DEF SessionState, Statuses
      <4>2. sessions' = [sessions EXCEPT ![s] = x]
        BY <3>1
      <4>. HIDE DEF x
      <4>. QED
        BY <4>1, <4>2, SessionChange
    <3>2. CASE sessions' = sessions
      BY <3>2, FrontFacts
    <3>. QED
      BY <2>1, <3>1, <3>2
  <2>. QED
    BY <1>0, <2>1, <2>2, <2>3, EndStep
<1>6. CASE ManageDisconnect(f)
  <2>1. PICK s \in Sessions :
          \/ /\ front' = [front EXCEPT ![f] =
                 [@ EXCEPT !.pc = "drop", !.cmd = "manage", !.session = s, !.after = "done"]]
             /\ UNCHANGED inbox
          \/ End(f, "error")
    BY <1>6 DEF ManageDisconnect
  <2>2. /\ front[f] \in FrontState /\ front[f].cmd = "none" /\ front[f].result = "none"
        /\ UNCHANGED <<sessions, events, faults>>
    BY <1>6, IdleFacts DEF ManageDisconnect
  <2>3. CASE /\ front' = [front EXCEPT ![f] =
                 [@ EXCEPT !.pc = "drop", !.cmd = "manage", !.session = s, !.after = "done"]]
             /\ UNCHANGED inbox
    <3>. DEFINE r == [front[f] EXCEPT !.pc = "drop", !.cmd = "manage", !.session = s, !.after = "done"]
    <3>1. front' = [front EXCEPT ![f] = r] /\ UNCHANGED inbox
      BY <2>3
    <3>2. r \in FrontState /\ r.pc = "drop" /\ r.cmd = "manage" /\ r.result = "none"
      BY <2>2 DEF FrontState, Pcs, InStartSession, CommandNames, Afters
    <3>. HIDE DEF r
    <3>. QED
      BY <2>2, <3>1, <3>2, FrontFacts, OtherStep
  <2>4. CASE End(f, "error")
    BY <1>0, <2>2, <2>4, FrontFacts, OtherEnd
  <2>. QED
    BY <2>1, <2>3, <2>4
<1>7. CASE CleanupList(f)
  <2>. DEFINE l == {s \in Sessions : Exists(s)}
              r == [front[f] EXCEPT !.pc = "look", !.cmd = "cleanup", !.list = l]
  <2>1. /\ front[f] \in FrontState /\ front[f].result = "none" /\ l \in SUBSET Sessions
        /\ UNCHANGED <<sessions, inbox, events, faults>>
    BY <1>7, IdleFacts DEF CleanupList
  <2>2. front' = [front EXCEPT ![f] = r]
    BY <1>7 DEF CleanupList
  <2>. HIDE DEF l
  <2>3. r \in FrontState /\ r.pc = "look" /\ r.cmd = "cleanup" /\ r.result = "none"
    BY <2>1 DEF FrontState, Pcs, CommandNames
  <2>. HIDE DEF r
  <2>. QED
    BY <2>1, <2>2, <2>3, FrontFacts, OtherStep
<1>. QED
  BY <1>1, <1>2, <1>3, <1>4, <1>5, <1>6, <1>7 DEF Commands

LEMMA CleanupCheckStep ==
    ASSUME IInv, NEW f \in Fronts, CleanupCheck(f)
    PROVE  IInv'
<1>0. /\ front[f] \in FrontState /\ front[f].pc = "look" /\ front[f].cmd = "cleanup"
      /\ front[f].result = "none" /\ UNCHANGED <<sessions, inbox, events>>
  BY FrontFacts DEF CleanupCheck, Ended
<1>1. PICK s \in front[f].list, ok \in BOOLEAN :
         LET stale == ~ok \/ sessions[s].status = "UNSET" IN
         /\ faults' = IF ~ok /\ Exists(s) THEN faults + 1 ELSE faults
         /\ front' = [front EXCEPT ![f] =
              IF stale THEN [@ EXCEPT !.list = front[f].list \ {s}, !.session = s,
                                      !.pc = "drop", !.after = "list"]
              ELSE [@ EXCEPT !.list = front[f].list \ {s}]]
  BY DEF CleanupCheck
<1>. DEFINE stale == ~ok \/ sessions[s].status = "UNSET"
            l == front[f].list \ {s}
            r == IF stale THEN [front[f] EXCEPT !.list = l, !.session = s, !.pc = "drop", !.after = "list"]
                 ELSE [front[f] EXCEPT !.list = l]
<1>2. front' = [front EXCEPT ![f] = r]
  BY <1>1
<1>3. l \in SUBSET Sessions /\ s \in Sessions
  BY <1>0, <1>1 DEF FrontState
<1>. HIDE DEF l
<1>4. r \in FrontState /\ r.pc \in {"look", "drop"} /\ r.cmd = "cleanup" /\ r.result = "none"
  BY <1>0, <1>3 DEF FrontState, Pcs, InStartSession, Afters
<1>. HIDE DEF r
<1>5. faults' \in Nat /\ faults' >= faults
  BY <1>1, FrontFacts
<1>. QED
  BY <1>0, <1>2, <1>4, <1>5, OtherStep

(* log is never session-start: the places it waits at are its own. *)
LEMMA LogFacts ==
    ASSUME IInv, NEW f \in Fronts, front[f].pc \in {"look", "lookup", "check", "follow"}
    PROVE  front[f] \in FrontState /\ front[f].cmd # "start" /\ front[f].result = "none"
<1>1. front[f].pc \notin {"wait", "dco", "end"} \cup InStartSession
  BY DEF InStartSession
<1>. QED
  BY <1>1, FrontFacts DEF FrontOK, StartOK, Ended

LEMMA LogGoto ==
    ASSUME IInv, NEW f \in Fronts, front[f].pc \in {"lookup", "check", "follow"},
           NEW pc \in {"lookup", "follow"}, Goto(f, pc),
           UNCHANGED <<sessions, inbox, events>>, faults' \in Nat, faults' >= faults
    PROVE  IInv'
<1>. DEFINE r == [front[f] EXCEPT !.pc = pc]
<1>1. front[f] \in FrontState /\ front[f].cmd # "start" /\ front[f].result = "none"
  BY LogFacts
<1>2. r \in FrontState /\ r.pc = pc /\ r.cmd # "start" /\ r.result = "none"
  BY <1>1 DEF FrontState, Pcs
<1>3. front' = [front EXCEPT ![f] = r]
  BY DEF Goto
<1>. HIDE DEF r
<1>. QED
  BY <1>2, <1>3, OtherStep

LEMMA LookupStep ==
    ASSUME IInv, NEW f \in Fronts, lookup_config_name(f)
    PROVE  IInv'
<1>. DEFINE paths == {s \in Sessions : sessions[s].phase = "up"}
<1>0. /\ front[f].pc = "lookup" /\ UNCHANGED <<sessions, events, faults>>
      /\ front[f] \in FrontState /\ front[f].cmd # "start" /\ front[f].result = "none"
      /\ "error" \in Results \ {"none"}
  BY LogFacts DEF lookup_config_name, Results
<1>1. \/ End(f, "error")
      \/ /\ Cardinality(paths) = 1
         /\ front' = [front EXCEPT ![f].session = CHOOSE s \in paths : TRUE, ![f].pc = "check"]
         /\ UNCHANGED inbox
      \/ Goto(f, "follow") /\ UNCHANGED inbox
  BY DEF lookup_config_name
<1>2. CASE End(f, "error")
  BY <1>0, <1>2, FrontFacts, OtherEnd
<1>3. CASE /\ Cardinality(paths) = 1
           /\ front' = [front EXCEPT ![f].session = CHOOSE s \in paths : TRUE, ![f].pc = "check"]
           /\ UNCHANGED inbox
  <2>. DEFINE s0 == CHOOSE s \in paths : TRUE
              r == [front[f] EXCEPT !.session = s0, !.pc = "check"]
  <2>0. paths \subseteq Sessions
    OBVIOUS
  <2>. HIDE DEF paths
  <2>1. paths # {}
    BY <1>3, FS_EmptySet
  <2>2. s0 \in Sessions
    <3>1. s0 \in paths
      BY <2>1
    <3>. QED
      BY <2>0, <3>1
  <2>3. front' = [front EXCEPT ![f].session = s0, ![f].pc = "check"]
    BY <1>3
  <2>. HIDE DEF s0
  <2>4. front' = [front EXCEPT ![f] = r]
    BY <1>0, <2>3 DEF IInv, TypeOK
  <2>5. r \in FrontState /\ r.pc = "check" /\ r.cmd # "start" /\ r.result = "none"
    BY <1>0, <2>2 DEF FrontState, Pcs
  <2>. HIDE DEF r
  <2>. QED
    BY <1>0, <1>3, <2>4, <2>5, FrontFacts, OtherStep
<1>4. CASE Goto(f, "follow") /\ UNCHANGED inbox
  BY <1>0, <1>4, FrontFacts, LogGoto
<1>. QED
  BY <1>1, <1>2, <1>3, <1>4

LEMMA LoggerStep ==
    ASSUME IInv, NEW f \in Fronts, setup_session_logger(f)
    PROVE  IInv'
<1>1. PICK ok \in BOOLEAN : Called(f, ok) /\ ((Goto(f, "follow") /\ UNCHANGED inbox) \/ End(f, "error"))
  BY DEF setup_session_logger
<1>2. /\ front[f].pc = "check" /\ UNCHANGED <<sessions, events>> /\ front[f].cmd # "start"
      /\ faults' \in Nat /\ faults' >= faults /\ "error" \in Results \ {"none"}
  BY <1>1, LogFacts, CalledFacts DEF setup_session_logger, Results
<1>. QED
  BY <1>1, <1>2, LogGoto, OtherEnd

LEMMA EventStep ==
    ASSUME IInv, NEW f \in Fronts, sessionmgr_event(f)
    PROVE  IInv'
<1>0. /\ front[f].pc = "follow" /\ UNCHANGED <<sessions, events, faults>> /\ inbox[f] # <<>>
      /\ front[f] \in FrontState /\ front[f].cmd # "start" /\ front[f].result = "none"
      /\ "done" \in Results \ {"none"}
  BY LogFacts DEF sessionmgr_event, Results
<1>1. CASE End(f, "done")
  BY <1>0, <1>1, FrontFacts, OtherEnd
<1>2. CASE /\ Goto(f, "lookup") \/ UNCHANGED front
           /\ inbox' = [inbox EXCEPT ![f] = Tail(@)]
  <2>. DEFINE r == IF Goto(f, "lookup") THEN [front[f] EXCEPT !.pc = "lookup"] ELSE front[f]
  <2>1. front' = [front EXCEPT ![f] = r]
    BY <1>0, <1>2 DEF Goto, IInv, TypeOK
  <2>2. r \in FrontState /\ r.pc \in {"lookup", "follow"} /\ r.cmd # "start" /\ r.result = "none"
    BY <1>0 DEF FrontState, Pcs
  <2>. HIDE DEF r
  <2>3. Ended(r) /\ FrontOK(r, sessions, faults)
    BY <2>2 DEF Ended, FrontOK
  <2>4. /\ Tail(inbox[f]) \in Seq(Signals)
        /\ \A i \in DOMAIN Tail(inbox[f]) : \E j \in DOMAIN inbox[f] : Tail(inbox[f])[i] = inbox[f][j]
    BY <1>0, TailType DEF IInv
  <2>5. ASSUME NEW g \in Fronts
        PROVE  inbox'[g] \in Seq(Signals) /\ InboxOK(inbox'[g], sessions)
    <3>1. inbox[g] \in Seq(Signals) /\ InboxOK(inbox[g], sessions)
      BY DEF IInv, TypeOK, InboxInv
    <3>2. inbox'[g] = inbox[g] \/ (g = f /\ inbox'[g] = Tail(inbox[f]))
      BY <1>2 DEF IInv, TypeOK
    <3>3. ASSUME g = f PROVE InboxOK(Tail(inbox[f]), sessions)
      BY <2>4, <3>1, <3>3 DEF InboxOK
    <3>. QED
      BY <2>4, <3>1, <3>2, <3>3
  <2>6. inbox' \in [Fronts -> Seq(Signals)] /\ InboxInv'
    BY <1>0, <1>2, <2>5 DEF IInv, TypeOK, InboxInv
  <2>. QED
    BY <1>0, <2>1, <2>2, <2>3, <2>6, FrontFacts, FrontStep
<1>3. \/ End(f, "done")
      \/ /\ Goto(f, "lookup") \/ UNCHANGED front
         /\ inbox' = [inbox EXCEPT ![f] = Tail(@)]
  BY DEF sessionmgr_event
<1>. QED
  BY <1>1, <1>2, <1>3

(***************************************************************************)
(* The invariant and the theorems.                                         *)
(***************************************************************************)
LEMMA Initial == Init => IInv
<1>. SUFFICES ASSUME Init PROVE IInv
  OBVIOUS
<1>1. Idle \in FrontState /\ Idle.pc = "idle" /\ Idle.cmd = "none" /\ Idle.reason = "NONE"
      /\ Idle.result = "none"
  <2>1. 0 \in 0..MaxLoops
    BY FrontEndBounds
  <2>. QED
    BY <2>1 DEF Idle, FrontState, CommandNames, Pcs, Reasons, Modes, Options, Afters, Results
<1>2. [phase |-> "none", status |-> "UNSET", pending |-> {}] \in SessionState
  BY DEF SessionState, Phases, Statuses
<1>3. TypeOK
  BY <1>1, <1>2 DEF Init, TypeOK
<1>4. StartInv
  BY <1>1 DEF Init, StartInv, FrontOK
<1>5. InboxInv
  BY DEF Init, InboxInv, InboxOK
<1>. QED
  BY <1>3, <1>4, <1>5 DEF IInv

LEMMA Inductive == IInv /\ [Next]_vars => IInv'
<1>. SUFFICES ASSUME IInv, [Next]_vars PROVE IInv'
  OBVIOUS
<1>1. CASE UNCHANGED vars
  BY <1>1 DEF vars, IInv, TypeOK, StartInv, InboxInv
<1>2. CASE \E s \in Sessions : Backend(s)
  BY <1>2, BackendStep
<1>3. ASSUME NEW f \in Fronts, Commands(f) \/ Step(f) \/ User(f) PROVE IInv'
  <2>1. CASE Commands(f)
    BY <2>1, CommandsStep
  <2>2. CASE User(f)
    BY <2>2, ProvideResponseStep, EmptyInputStep, InterruptStep, KilledStep DEF User
  <2>3. CASE Step(f)
    <3>1. CASE CleanupDone(f)
      <4>1. /\ End(f, "done") /\ UNCHANGED <<sessions, events, faults>> /\ front[f].cmd # "start"
            /\ "done" \in Results \ {"none"}
        BY <3>1 DEF CleanupDone, Results
      <4>. QED
        BY <4>1, FrontFacts, OtherEnd
    <3>2. CASE PollTimeout(f)
      <4>1. /\ Drop(f, "timeout") /\ front[f].pc = "poll"
            /\ UNCHANGED <<sessions, events, faults>>
        BY <3>2 DEF PollTimeout, OutOfTime
      <4>. QED
        BY <4>1, FrontFacts, DropStep
    <3>. QED
      BY <2>3, <3>1, <3>2, NewTunnelSignalStep, NewTunnelTimeoutStep, SetDCOStep, ReadyStep, BeginStep,
         PollStep, DetailsStep, CallDisconnectStep, ReadyExceptionStep, QueueFetchAllStep,
         QueryDoneStep, CleanupCheckStep, LookupStep, LoggerStep, EventStep DEF Step
  <2>. QED
    BY <1>3, <2>1, <2>2, <2>3
<1>. QED
  BY <1>1, <1>2, <1>3 DEF Next

(* The sessions, the processes and the signals on their way keep their types, *)
(* and a process has a result exactly when it has ended.                      *)
THEOREM TypeCorrect == Spec => []TypeOK
<1>1. IInv => TypeOK
  BY DEF IInv
<1>. QED
  BY <1>1, Initial, Inductive, PTL DEF Spec

(***************************************************************************)
(* NewTunnel() does not miss the signal of its session.                    *)
(***************************************************************************)
\* The signal of session s is on its way.
Announced(q, s) == \E i \in DOMAIN q : q[i][1] = "SESS_CREATED" /\ q[i][2] = s

WaitOK(f) == front[f].pc = "wait" /\ sessions[front[f].session].phase = "up"
               => Announced(inbox[f], front[f].session)
WaitInv == \A f \in Fronts : front[f].cmd = "start" => WaitOK(f)

(* A signal that is on its way stays when another one is sent, *)
(* and when a process takes one that is not the one it awaits. *)
LEMMA StillAnnounced ==
    ASSUME NEW q \in Seq(Signals), NEW s, Announced(q, s)
    PROVE  /\ \A e \in Signals : Announced(Append(q, e), s)
           /\ q # <<>> /\ ~(Head(q)[1] = "SESS_CREATED" /\ Head(q)[2] = s) => Announced(Tail(q), s)
<1>1. PICK i \in DOMAIN q : q[i][1] = "SESS_CREATED" /\ q[i][2] = s
  BY DEF Announced
<1>2. DOMAIN q = 1..Len(q) /\ Len(q) \in Nat
  OBVIOUS
<1>3. ASSUME NEW e \in Signals PROVE Announced(Append(q, e), s)
  <2>1. i \in DOMAIN Append(q, e) /\ Append(q, e)[i] = q[i]
    BY <1>2
  <2>. QED
    BY <1>1, <2>1 DEF Announced
<1>4. ASSUME q # <<>>, ~(Head(q)[1] = "SESS_CREATED" /\ Head(q)[2] = s) PROVE Announced(Tail(q), s)
  <2>1. Head(q) = q[1] /\ DOMAIN Tail(q) = 1..(Len(q) - 1)
    BY <1>2, <1>4
  <2>2. i - 1 \in DOMAIN Tail(q) /\ Tail(q)[i - 1] = q[i]
    BY <1>1, <1>2, <1>4, <2>1
  <2>. QED
    BY <1>1, <2>2 DEF Announced
<1>. QED
  BY <1>3, <1>4

(* What is sent when a session is confirmed arrives. *)
LEMMA NowAnnounced ==
    ASSUME NEW q \in Seq(Signals), NEW s \in Sessions
    PROVE  Announced(Append(q, <<"SESS_CREATED", s>>), s)
<1>. DEFINE e == <<"SESS_CREATED", s>>
<1>1. e \in Signals /\ e[1] = "SESS_CREATED" /\ e[2] = s
  BY DEF Signals
<1>. HIDE DEF e
<1>2. Len(q) + 1 \in DOMAIN Append(q, e) /\ Append(q, e)[Len(q) + 1] = e
  BY <1>1
<1>3. Announced(Append(q, e), s)
  BY <1>1, <1>2 DEF Announced
<1>. QED
  BY <1>3 DEF e

(* The session manager confirms a session and tells those who wait. *)
LEMMA BackendWaits ==
    ASSUME IInv, WaitInv, NEW s \in Sessions, Backend(s)
    PROVE  WaitInv'
<1>1. UNCHANGED front
  BY DEF Backend, Register, Confirm, RegistrationFails, ClientEvent, ClientDies
<1>. SUFFICES ASSUME NEW f \in Fronts, front[f].cmd = "start", front[f].pc = "wait",
                     sessions'[front[f].session].phase = "up"
              PROVE  Announced(inbox'[f], front[f].session)
  BY <1>1 DEF WaitInv, WaitOK
<1>2. /\ front[f].session \in Sessions /\ inbox[f] \in Seq(Signals)
      /\ sessions \in [Sessions -> SessionState] /\ NoSession \notin Sessions
  BY FrontFacts DEF IInv, TypeOK, StartInv, FrontOK, StartOK
<1>3. /\ <<"SESS_CREATED", s>> \in Signals /\ <<"SESS_DESTROYED", s>> \in Signals
  BY DEF Signals
<1>4. \/ inbox'[f] = inbox[f]
      \/ inbox'[f] = Append(inbox[f], <<"SESS_CREATED", s>>)
      \/ inbox'[f] = Append(inbox[f], <<"SESS_DESTROYED", s>>)
  BY DEF Backend, Register, Confirm, RegistrationFails, ClientEvent, ClientDies, RemoveSession, Broadcast
<1>5. CASE sessions[front[f].session].phase = "up"
  <2>1. Announced(inbox[f], front[f].session)
    BY <1>5 DEF WaitInv, WaitOK
  <2>. QED
    BY <1>2, <1>3, <1>4, <2>1, StillAnnounced
<1>6. CASE sessions[front[f].session].phase # "up"
  <2>1. front[f].session = s /\ Confirm(s)
    BY <1>2, <1>6 DEF Backend, Register, Confirm, RegistrationFails, ClientEvent, ClientDies,
                      RemoveSession, Gone, SessionState
  <2>2. inbox'[f] = Append(inbox[f], <<"SESS_CREATED", s>>)
    BY <2>1 DEF Confirm, Broadcast
  <2>. QED
    BY <1>2, <2>1, <2>2, NowAnnounced
<1>. QED
  BY <1>5, <1>6

\* What a step of process f does to the others, and that it confirms no session.
Alone(f) == /\ \A g \in Fronts \ {f} : /\ front'[g] = front[g]
                                       /\ \/ inbox'[g] = inbox[g]
                                          \/ \E e \in Signals : inbox'[g] = Append(inbox[g], e)
            /\ \A s \in Sessions : sessions'[s].phase = "up" => sessions[s].phase = "up"
            /\ front'[f].pc = "wait" => NewTunnel(f) \/ NewTunnelSignal(f)

(* A process that ends does nothing else. *)
LEMMA EndAlone ==
    ASSUME IInv, NEW f \in Fronts, NEW result, End(f, result), UNCHANGED sessions
    PROVE  Alone(f)
<1>1. front \in [Fronts -> FrontState] /\ inbox \in [Fronts -> Seq(Signals)]
  BY DEF IInv, TypeOK
<1>2. front'[f] = Stopped(f, result) /\ Stopped(f, result).pc = "end"
  BY <1>1 DEF End, Stopped, Idle
<1>. QED
  BY <1>1, <1>2 DEF Alone, End

\* The process that takes the step goes on to a place where it does not wait for its session.
Aside(f) == front'[f].pc # "wait" /\ \A g \in Fronts \ {f} : front'[g] = front[g]

(* Nor does one that goes on. *)
LEMMA MoveAlone ==
    ASSUME IInv, NEW f \in Fronts, Aside(f),
           UNCHANGED inbox \/ inbox' = [inbox EXCEPT ![f] = Tail(@)],
           \A s \in Sessions : sessions'[s].phase = "up" => sessions[s].phase = "up"
    PROVE  Alone(f)
<1>1. inbox \in [Fronts -> Seq(Signals)]
  BY DEF IInv, TypeOK
<1>. QED
  BY <1>1 DEF Alone, Aside

(* Every step of a process: it sends at most the signal of a session that is *)
(* closed, and waits only in NewTunnel().                                    *)
LEMMA StepAlone ==
    ASSUME IInv, NEW f \in Fronts, Commands(f) \/ Step(f) \/ User(f)
    PROVE  Alone(f)
<1>1. /\ front \in [Fronts -> FrontState] /\ inbox \in [Fronts -> Seq(Signals)]
      /\ sessions \in [Sessions -> SessionState] /\ front[f] \in FrontState
  BY DEF IInv, TypeOK
<1>2. CASE NewTunnel(f) \/ NewTunnelSignal(f)
  <2>1. \A g \in Fronts \ {f} : front'[g] = front[g] /\ inbox'[g] = inbox[g]
    BY <1>1, <1>2 DEF NewTunnel, NewTunnelSignal
  <2>2. \A s \in Sessions : sessions'[s].phase = "up" => sessions[s].phase = "up"
    BY <1>1, <1>2 DEF NewTunnel, NewTunnelSignal, SessionState
  <2>. QED
    BY <1>2, <2>1, <2>2 DEF Alone
<1>3. CASE \/ LogCommand(f) \/ AuthComplete(f) \/ ManageStart(f) \/ ManageDisconnect(f) \/ CleanupList(f)
  <2>1. UNCHANGED sessions
    BY <1>3 DEF LogCommand, AuthComplete, ManageStart, ManageDisconnect, CleanupList
  <2>2. CASE LogCommand(f) \/ CleanupList(f)
    <3>1. Aside(f) /\ UNCHANGED inbox
      BY <1>1, <2>2 DEF Aside, LogCommand, CleanupList, FrontState
    <3>. QED
      BY <2>1, <3>1, MoveAlone
  <2>3. CASE AuthComplete(f)
    <3>1. PICK s \in Sessions : \/ StartSession(f, "auth", s, "none", "START") /\ UNCHANGED inbox
                               \/ End(f, IF Exists(s) THEN "done" ELSE "error")
      BY <2>3 DEF AuthComplete
    <3>2. ASSUME StartSession(f, "auth", s, "none", "START") PROVE Aside(f)
      BY <1>1, <3>2 DEF Aside, StartSession, FrontState
    <3>. QED
      BY <2>1, <3>1, <3>2, EndAlone, MoveAlone
  <2>4. CASE ManageStart(f)
    <3>1. PICK s \in Sessions, opt \in {"timed", "background"}, mode \in {"RESUME", "RESTART"} :
            \/ StartSession(f, "manage", s, opt, mode) /\ UNCHANGED inbox
            \/ End(f, "error")
      BY <2>4 DEF ManageStart
    <3>2. ASSUME StartSession(f, "manage", s, opt, mode) PROVE Aside(f)
      BY <1>1, <3>2 DEF Aside, StartSession, FrontState
    <3>. QED
      BY <2>1, <3>1, <3>2, EndAlone, MoveAlone
  <2>5. CASE ManageDisconnect(f)
    <3>1. PICK s \in Sessions :
            \/ /\ front' = [front EXCEPT ![f] =
                   [@ EXCEPT !.pc = "drop", !.cmd = "manage", !.session = s, !.after = "done"]]
               /\ UNCHANGED inbox
            \/ End(f, "error")
      BY <2>5 DEF ManageDisconnect
    <3>2. ASSUME front' = [front EXCEPT ![f] =
                   [@ EXCEPT !.pc = "drop", !.cmd = "manage", !.session = s, !.after = "done"]]
          PROVE  Aside(f)
      BY <1>1, <3>2 DEF Aside, FrontState
    <3>. QED
      BY <2>1, <3>1, <3>2, EndAlone, MoveAlone
  <2>. QED
    BY <1>3, <2>2, <2>3, <2>4, <2>5
<1>4. CASE ManagePause(f)
  <2>1. PICK result \in {"done", "error"} : End(f, result)
    BY <1>4 DEF ManagePause
  <2>2. \A s \in Sessions : sessions'[s].phase = sessions[s].phase
    BY <1>1, <1>4 DEF ManagePause, SessionState
  <2>3. front'[f] = Stopped(f, result) /\ Stopped(f, result).pc = "end"
    BY <1>1, <2>1 DEF End, Stopped, Idle
  <2>. QED
    BY <1>1, <2>1, <2>2, <2>3 DEF Alone, End
<1>5. CASE Begin(f)
  <2>1. \A s \in Sessions : sessions'[s].phase = sessions[s].phase
    <3>1. \/ sessions' = sessions
          \/ sessions' = [sessions EXCEPT ![front[f].session].status = "CONN_CONNECTING"]
      BY <1>5 DEF Begin, Began
    <3>. QED
      BY <1>1, <3>1 DEF SessionState
  <2>2. \/ \E result \in Results : End(f, result)
        \/ front' = [front EXCEPT ![f].pc = "poll", ![f].mode = "START"] /\ UNCHANGED inbox
    BY <1>5 DEF Begin, DBusError, Results
  <2>3. CASE \E result \in Results : End(f, result)
    <3>1. PICK result \in Results : End(f, result)
      BY <2>3
    <3>2. front'[f] = Stopped(f, result) /\ Stopped(f, result).pc = "end"
      BY <1>1, <3>1 DEF End, Stopped, Idle
    <3>. QED
      BY <1>1, <2>1, <3>1, <3>2 DEF Alone, End
  <2>4. CASE front' = [front EXCEPT ![f].pc = "poll", ![f].mode = "START"] /\ UNCHANGED inbox
    BY <1>1, <2>1, <2>4 DEF Alone, FrontState
  <2>. QED
    BY <2>2, <2>3, <2>4
<1>6. CASE CallDisconnect(f)
  <2>1. /\ \/ front' = [front EXCEPT ![f].pc = "ready"]
           \/ front' = [front EXCEPT ![f].pc = "look"]
           \/ \E result \in Results : front' = [front EXCEPT ![f] = Stopped(f, result)]
        /\ \/ UNCHANGED <<sessions, inbox>>
           \/ front[f].session \in Sessions /\ RemoveSession(front[f].session)
    <3>1. PICK ok \in BOOLEAN :
         /\ Called(f, ok)
         /\ \/ Goto(f, "ready")
            \/ Goto(f, "look")
            \/ front' = [front EXCEPT ![f] = Stopped(f, DropResult(f, ok))]
         /\ IF ok THEN RemoveSession(front[f].session) ELSE UNCHANGED <<sessions, inbox>>
      BY <1>6 DEF CallDisconnect
    <3>2. ok => front[f].session \in Sessions
      BY <3>1, CalledFacts
    <3>3. DropResult(f, ok) \in Results
      BY DEF DropResult, Results
    <3>. QED
      BY <3>1, <3>2, <3>3 DEF Goto
  <2>2. front'[f].pc # "wait" /\ \A g \in Fronts \ {f} : front'[g] = front[g]
    <3>1. CASE \E result \in Results : front' = [front EXCEPT ![f] = Stopped(f, result)]
      <4>1. PICK result \in Results : front' = [front EXCEPT ![f] = Stopped(f, result)]
        BY <3>1
      <4>2. Stopped(f, result).pc = "end"
        BY DEF Stopped, Idle
      <4>. QED
        BY <1>1, <4>1, <4>2
    <3>2. CASE \/ front' = [front EXCEPT ![f].pc = "ready"]
               \/ front' = [front EXCEPT ![f].pc = "look"]
      BY <1>1, <3>2 DEF FrontState
    <3>. QED
      BY <2>1, <3>1, <3>2
  <2>3. CASE UNCHANGED <<sessions, inbox>>
    BY <2>2, <2>3 DEF Alone
  <2>4. CASE front[f].session \in Sessions /\ RemoveSession(front[f].session)
    <3>1. <<"SESS_DESTROYED", front[f].session>> \in Signals
      BY <2>4 DEF Signals
    <3>2. \A g \in Fronts : \/ inbox'[g] = inbox[g]
                             \/ inbox'[g] = Append(inbox[g], <<"SESS_DESTROYED", front[f].session>>)
      BY <2>4 DEF RemoveSession, Broadcast
    <3>3. \A s \in Sessions : sessions'[s].phase = "up" => sessions[s].phase = "up"
      BY <1>1, <2>4 DEF RemoveSession, Gone, SessionState
    <3>. QED
      BY <2>2, <3>1, <3>2, <3>3 DEF Alone
  <2>. QED
    BY <2>1, <2>3, <2>4
<1>7. CASE ProvideResponse(f)
  <2>1. \A s \in Sessions : sessions'[s].phase = sessions[s].phase
    BY <1>1, <1>7 DEF ProvideResponse, SessionState
  <2>2. /\ UNCHANGED inbox /\ front'[f].pc = "prompt"
        /\ \A g \in Fronts \ {f} : front'[g] = front[g]
    BY <1>1, <1>7 DEF ProvideResponse, FrontState
  <2>. QED
    BY <2>1, <2>2 DEF Alone
<1>8. CASE EmptyInput(f) \/ sigint_handler(f) \/ QueryDone(f)
  <2>1. Aside(f)
    BY <1>1, <1>8 DEF Aside, EmptyInput, sigint_handler, QueryDone, FrontState, InStartSession
  <2>. QED
    BY <1>8, <2>1, MoveAlone DEF EmptyInput, sigint_handler, QueryDone
<1>9. CASE Killed(f) \/ NewTunnelTimeout(f) \/ CleanupDone(f) \/ Details(f)
  BY <1>9, EndAlone DEF Killed, NewTunnelTimeout, CleanupDone, Details, DBusError
<1>10. ASSUME NEW pc, Goto(f, pc), pc # "wait" PROVE Aside(f)
  BY <1>1, <1>10 DEF Aside, Goto, FrontState
<1>11. CASE SetDCO(f)
  BY <1>10, <1>11, EndAlone, MoveAlone DEF SetDCO
<1>12. ASSUME AskUser(f) PROVE Aside(f)
  BY <1>1, <1>12 DEF Aside, AskUser, FrontState
<1>13. CASE Ready(f)
  <2>1. ASSUME front' = [front EXCEPT ![f].loops = @ - 1, ![f].pc = "begin"] PROVE Aside(f)
    BY <1>1, <2>1 DEF Aside, FrontState
  <2>. QED
    BY <1>12, <1>13, <2>1, EndAlone, MoveAlone DEF Ready, DBusError
<1>14. ASSUME NEW after, Drop(f, after) PROVE Aside(f) /\ UNCHANGED inbox
  BY <1>1, <1>14 DEF Aside, Drop, FrontState
<1>15. CASE Poll(f) \/ PollTimeout(f)
  <2>1. /\ UNCHANGED sessions
        /\ \/ End(f, "error")
           \/ \E opened \in BOOLEAN : front[f].pc = "poll" /\ UrlAuth(f, opened)
           \/ (Goto(f, "details") \/ Goto(f, "ready") \/ AskUser(f)) /\ UNCHANGED inbox
           \/ Drop(f, "error") \/ Drop(f, "timeout")
    BY <1>15 DEF Poll, PollTimeout, OutOfTime
  <2>2. ASSUME front[f].pc = "poll", front' = [front EXCEPT ![f].reason = "DONE"] PROVE Aside(f)
    BY <1>1, <2>2 DEF Aside, FrontState
  <2>. QED
    BY <1>10, <1>12, <1>14, <2>1, <2>2, EndAlone, MoveAlone DEF UrlAuth
<1>16. CASE ReadyException(f)
  BY <1>10, <1>16, EndAlone, MoveAlone DEF ReadyException
<1>17. CASE QueueFetchAll(f)
  <2>1. ASSUME front' = [front EXCEPT ![f].pc = "prompt", ![f].slots = Session(f).pending] PROVE Aside(f)
    BY <1>1, <2>1 DEF Aside, FrontState
  <2>2. ASSUME front' = [front EXCEPT ![f] = [@ EXCEPT !.reason = "ERROR", !.pc = "ready"]] PROVE Aside(f)
    BY <1>1, <2>2 DEF Aside, FrontState
  <2>. QED
    BY <1>17, <2>1, <2>2, EndAlone, MoveAlone DEF QueueFetchAll
<1>18. CASE CleanupCheck(f)
  <2>1. PICK s \in front[f].list :
          \/ front' = [front EXCEPT ![f] = [front[f] EXCEPT !.list = front[f].list \ {s}, !.session = s,
                                                !.pc = "drop", !.after = "list"]]
          \/ front' = [front EXCEPT ![f] = [front[f] EXCEPT !.list = front[f].list \ {s}]]
    BY <1>18 DEF CleanupCheck
  <2>2. front[f].pc = "look" /\ UNCHANGED <<sessions, inbox>>
    BY <1>18 DEF CleanupCheck
  <2>3. Aside(f)
    BY <1>1, <2>1, <2>2 DEF Aside, FrontState
  <2>. QED
    BY <2>2, <2>3, MoveAlone
<1>19. CASE lookup_config_name(f)
  <2>1. /\ UNCHANGED sessions
        /\ \/ End(f, "error")
           \/ Goto(f, "follow") /\ UNCHANGED inbox
           \/ /\ front' = [front EXCEPT ![f].session = CHOOSE s \in {s \in Sessions : sessions[s].phase = "up"} : TRUE,
                                       ![f].pc = "check"]
              /\ UNCHANGED inbox
    BY <1>19 DEF lookup_config_name
  <2>2. ASSUME NEW x, front' = [front EXCEPT ![f].session = x, ![f].pc = "check"] PROVE Aside(f)
    BY <1>1, <2>2 DEF Aside, FrontState
  <2>. QED
    BY <1>10, <2>1, <2>2, EndAlone, MoveAlone
<1>20. CASE setup_session_logger(f)
  BY <1>10, <1>20, EndAlone, MoveAlone DEF setup_session_logger
<1>21. CASE sessionmgr_event(f)
  <2>1. /\ UNCHANGED sessions /\ front[f].pc = "follow"
        /\ \/ End(f, "done")
           \/ /\ Goto(f, "lookup") \/ UNCHANGED front
              /\ inbox' = [inbox EXCEPT ![f] = Tail(@)]
    BY <1>21 DEF sessionmgr_event
  <2>2. ASSUME UNCHANGED front PROVE Aside(f)
    BY <2>1, <2>2 DEF Aside
  <2>. QED
    BY <1>10, <2>1, <2>2, EndAlone, MoveAlone
<1>. QED
  BY <1>2, <1>3, <1>4, <1>5, <1>6, <1>7, <1>8, <1>9, <1>11, <1>13, <1>15, <1>16, <1>17, <1>18, <1>19, <1>20, <1>21
     DEF Commands, Step, User

(* NewTunnel() asks for a session that is not there, and drops only signals of others. *)
LEMMA OwnWait ==
    ASSUME IInv, WaitInv, NEW f \in Fronts, NewTunnel(f) \/ NewTunnelSignal(f), front'[f].cmd = "start"
    PROVE  WaitOK(f)'
<1>1. /\ front \in [Fronts -> FrontState] /\ inbox \in [Fronts -> Seq(Signals)]
      /\ sessions \in [Sessions -> SessionState] /\ front[f] \in FrontState /\ inbox[f] \in Seq(Signals)
  BY DEF IInv, TypeOK
<1>2. CASE NewTunnel(f)
  <2>1. PICK s \in Sessions, opt \in Options :
          /\ sessions' = [sessions EXCEPT ![s].phase = "requested"]
          /\ front' = [front EXCEPT ![f] = [front[f] EXCEPT !.pc = "wait", !.cmd = "start",
                                                          !.session = s, !.opt = opt]]
    BY <1>2 DEF NewTunnel
  <2>2. front'[f].session = s
    BY <1>1, <2>1 DEF FrontState
  <2>3. sessions'[s].phase = "requested"
    BY <1>1, <2>1 DEF SessionState
  <2>. QED
    BY <2>2, <2>3 DEF WaitOK
<1>3. CASE NewTunnelSignal(f)
  <2>1. CASE ForThisSession(f, Head(inbox[f]))
    <3>1. front'[f].pc = "dco"
      BY <1>1, <1>3, <2>1 DEF NewTunnelSignal, FrontState
    <3>. QED
      BY <3>1 DEF WaitOK
  <2>2. CASE ~ForThisSession(f, Head(inbox[f]))
    <3>1. /\ front'[f] = front[f] /\ UNCHANGED sessions /\ inbox[f] # <<>> /\ inbox'[f] = Tail(inbox[f])
          /\ front[f].pc = "wait"
      BY <1>1, <1>3, <2>2 DEF NewTunnelSignal
    <3>2. ASSUME sessions[front[f].session].phase = "up" PROVE Announced(Tail(inbox[f]), front[f].session)
      <4>1. Announced(inbox[f], front[f].session)
        BY <3>1, <3>2 DEF WaitInv, WaitOK
      <4>. QED
        BY <1>1, <2>2, <3>1, <4>1, StillAnnounced DEF ForThisSession
    <3>. QED
      BY <3>1, <3>2 DEF WaitOK
  <2>. QED
    BY <2>1, <2>2
<1>. QED
  BY <1>2, <1>3

LEMMA WaitKept == IInv /\ WaitInv /\ [Next]_vars => WaitInv'
<1>. SUFFICES ASSUME IInv, WaitInv, [Next]_vars PROVE WaitInv'
  OBVIOUS
<1>1. CASE UNCHANGED vars
  BY <1>1 DEF vars, WaitInv, WaitOK
<1>2. CASE \E s \in Sessions : Backend(s)
  BY <1>2, BackendWaits
<1>3. ASSUME NEW f \in Fronts, Commands(f) \/ Step(f) \/ User(f) PROVE WaitInv'
  <2>. SUFFICES ASSUME NEW g \in Fronts, front'[g].cmd = "start" PROVE WaitOK(g)'
    BY DEF WaitInv
  <2>1. Alone(f)
    BY <1>3, StepAlone
  <2>2. CASE g = f
    BY <2>1, <2>2, OwnWait DEF Alone, WaitOK
  <2>3. CASE g # f
    <3>1. /\ front'[g] = front[g]
          /\ inbox'[g] = inbox[g] \/ \E e \in Signals : inbox'[g] = Append(inbox[g], e)
          /\ front[g].session \in Sessions /\ inbox[g] \in Seq(Signals)
          /\ sessions'[front[g].session].phase = "up" => sessions[front[g].session].phase = "up"
      BY <2>1, <2>3 DEF Alone, IInv, TypeOK, StartInv, FrontOK, StartOK
    <3>2. ASSUME front[g].pc = "wait", sessions'[front[g].session].phase = "up"
          PROVE  Announced(inbox'[g], front[g].session)
      <4>1. Announced(inbox[g], front[g].session)
        BY <3>1, <3>2 DEF WaitInv, WaitOK
      <4>. QED
        BY <3>1, <4>1, StillAnnounced
    <3>. QED
      BY <3>1, <3>2 DEF WaitOK
  <2>. QED
    BY <2>2, <2>3
<1>. QED
  BY <1>1, <1>2, <1>3 DEF Next

(* NO ORPHAN, of NewTunnel() and start_session(): however many front-ends and *)
(* sessions there are and whatever the others do, session-start works with    *)
(* a confirmed session only, never gives up on one that it could have been    *)
(* told of, and when it ends with an error after NewTunnel() although no call *)
(* failed its session is gone; a refused --dco is the exception.              *)
THEOREM ErrorsLeaveNoSession == Spec => []NoOrphan
<1>1. IInv /\ WaitInv => NoOrphan
  <2>. SUFFICES ASSUME IInv, WaitInv, NEW f \in Fronts, front[f].cmd = "start"
                PROVE  /\ StartedAfterCreated(f)
                       /\ front[f].result = "error" /\ faults = 0
                             => sessions[front[f].session].phase = "gone"
    BY DEF NoOrphan
  <2>1. StartOK(front[f], sessions, faults)
    BY DEF IInv, StartInv, FrontOK
  <2>2. front[f].pc \in InStartSession \cup {"dco"} => sessions[front[f].session].phase \in {"up", "gone"}
    BY <2>1 DEF StartOK, Confirmed
  <2>3. front[f].pc = "wait" /\ sessions[front[f].session].phase = "up" =>
          \E i \in DOMAIN inbox[f] : ForThisSession(f, inbox[f][i])
    BY DEF WaitInv, WaitOK, Announced, ForThisSession
  <2>. QED
    BY <2>1, <2>2, <2>3 DEF StartOK, StartedAfterCreated
<1>2. Init => WaitInv
  BY DEF Init, WaitInv, Idle
<1>3. IInv /\ WaitInv /\ [Next]_vars => WaitInv'
  BY WaitKept
<1>. QED
  BY <1>1, <1>2, <1>3, Initial, Inductive, PTL DEF Spec


-----------------------------------------------------------------------------
(* The commands that share sessions (SessionCommand): the inductive invariant *)

\* Everything a process may call, and what it may name in a call.
GetOps == {<<"get", p>> : p \in {"owner", "public_access", "restrict_log_access", "public_again", "acl", "statistics"}}
Ops == GetOps \cup UNION {l.ops : l \in Lines}
Args == {o[2] : o \in Ops}

ColumnNames == {"config", "device_name", "status"}

ShareACL == [owner: {Owner}, acl: SUBSET Args, public: {FALSE} \cup Args]
ShareSession == [acl: ShareACL, restrict: BOOLEAN, name: Names,
                 device: Paths \cup {None}, alive: BOOLEAN]
ShareCommand ==
    [user: People, line: Lines, stage: {"start", "open", "run", "list", "end"},
     path: Paths \cup {l.path : l \in Lines} \cup {None}, ops: Seq(Ops), todo: Seq(Ops \cup ColumnNames),
     done: SUBSET Ops, waived: SUBSET Ops, code: {0, 3}, list: SUBSET (Paths \cup {None}),
     left: SUBSET Paths, shown: SUBSET Paths, out: {"none", "ok", "partial", "error"}]


\* SetToSeq() lists each element of a finite set.
LEMMA OptionsListed ==
    ASSUME NEW S, IsFiniteSet(S)
    PROVE  /\ Share!SetToSeq(S) \in Seq(S)
           /\ \A x \in S : \E i \in 1..Len(Share!SetToSeq(S)) : Share!SetToSeq(S)[i] = x
<1> DEFINE n == Cardinality(S)
           f == Share!SetToSeq(S)
<1>1. n \in Nat /\ Bijection(1..n, S) # {}
  BY FS_CardinalityType, Fun_ExistsBij
<1>2. PICK g \in Bijection(1..n, S) : TRUE
  BY <1>1
<1>3. g \in [1..n -> S] /\ IsInjective(g)
  BY <1>2 DEF Bijection, Injection
<1>4. Share!Cardinality(S) = n
  BY DEF Share!Cardinality, Cardinality
<1>5. f = CHOOSE h \in [1..n -> S] : Share!IsInjective(h)
  BY <1>4 DEF Share!SetToSeq
<1>6. Share!IsInjective(g)
  BY <1>3 DEF Share!IsInjective, IsInjective
<1>7. f \in [1..n -> S] /\ Share!IsInjective(f)
  BY <1>3, <1>5, <1>6
<1>8. f \in Injection(1..n, S)
  BY <1>7 DEF Injection, Share!IsInjective, IsInjective
<1>9. IsFiniteSet(1..n) /\ Cardinality(1..n) = n
  BY <1>1, FS_Interval
<1>10. f \in Surjection(1..n, S)
  BY <1>8, <1>9, FS_Injection
<1>11. \A x \in S : \E i \in 1..n : f[i] = x
  BY <1>10 DEF Surjection
<1> HIDE DEF f, n
<1>12. f \in Seq(S) /\ Len(f) = n
  BY <1>1, <1>7
<1> QED BY <1>11, <1>12 DEF f

LEMMA OrderedSeq == ASSUME NEW l \in Lines, IsFiniteSet(l.ops) PROVE Share!Ordered(l.ops) \in Seq(Ops)
<1> DEFINE K(kind) == {o \in l.ops : o[1] = kind}
           Of(kind) == Share!SetToSeq(K(kind))
<1>1. ASSUME NEW kind PROVE Of(kind) \in Seq(Ops)
  <2>1. K(kind) \subseteq l.ops /\ K(kind) \subseteq Ops
    BY DEF Ops
  <2>2. IsFiniteSet(K(kind))
    BY <2>1, FS_Subset
  <2>3. Of(kind) \in Seq(K(kind))
    BY <2>2, OptionsListed
  <2> HIDE DEF Of, K
  <2> QED BY <2>1, <2>3
<1>2. Share!Ordered(l.ops) = Of("grant") \o Of("revoke") \o Of("public") \o Of("log")
  BY DEF Share!Ordered
<1> HIDE DEF Of
<1> QED BY <1>1, <1>2

Listed(q, x) == \E i \in 1..Len(q) : q[i] = x

\* An element of one of two sequences is one of their concatenation.
LEMMA JoinLists ==
    ASSUME NEW S, NEW a \in Seq(S), NEW b \in Seq(S), NEW x, Listed(a, x) \/ Listed(b, x)
    PROVE  Listed(a \o b, x)
<1>1. /\ Len(a \o b) = Len(a) + Len(b) /\ Len(a) \in Nat /\ Len(b) \in Nat
      /\ \A i \in 1..Len(a) : (a \o b)[i] = a[i]
      /\ \A i \in 1..Len(b) : (a \o b)[Len(a) + i] = b[i]
  OBVIOUS
<1>2. ASSUME NEW i \in 1..Len(a), a[i] = x PROVE \E j \in 1..Len(a \o b) : (a \o b)[j] = x
  BY <1>1, <1>2
<1>3. ASSUME NEW i \in 1..Len(b), b[i] = x PROVE \E j \in 1..Len(a \o b) : (a \o b)[j] = x
  <2>1. Len(a) + i \in 1..Len(a \o b) /\ (a \o b)[Len(a) + i] = x
    BY <1>1, <1>3
  <2> QED BY <2>1
<1> QED BY <1>2, <1>3 DEF Listed

\* No option is forgotten: the operations of session-acl are its options, kind by kind.
LEMMA OrderedAll ==
    ASSUME NEW ops, IsFiniteSet(ops), \A o \in ops : o[1] \in {"grant", "revoke", "public", "log"}
    PROVE  Share!Ordered(ops) \in Seq(ops) /\ \A o \in ops : Listed(Share!Ordered(ops), o)
<1> DEFINE K(kind) == {o \in ops : o[1] = kind}
           Of(kind) == Share!SetToSeq(K(kind))
           q2 == Of("grant") \o Of("revoke")
           q3 == q2 \o Of("public")
           q4 == q3 \o Of("log")
<1>1. ASSUME NEW kind
      PROVE  Of(kind) \in Seq(ops) /\ \A o \in ops : o[1] = kind => Listed(Of(kind), o)
  <2>1. K(kind) \subseteq ops /\ \A o \in ops : o[1] = kind => o \in K(kind)
    OBVIOUS
  <2>2. IsFiniteSet(K(kind))
    BY <2>1, FS_Subset
  <2>3. Of(kind) \in Seq(K(kind)) /\ \A x \in K(kind) : \E i \in 1..Len(Of(kind)) : Of(kind)[i] = x
    BY <2>2, OptionsListed
  <2> HIDE DEF Of, K
  <2> QED BY <2>1, <2>3 DEF Listed
<1>2. Share!Ordered(ops) = q4
  BY DEF Share!Ordered
<1> HIDE DEF Of
<1>3. q2 \in Seq(ops) /\ q3 \in Seq(ops) /\ q4 \in Seq(ops)
  BY <1>1
<1> SUFFICES ASSUME NEW o \in ops PROVE Listed(q4, o)
  BY <1>2, <1>3
<1>4. /\ Of("grant") \in Seq(ops) /\ (o[1] = "grant" => Listed(Of("grant"), o))
      /\ Of("revoke") \in Seq(ops) /\ (o[1] = "revoke" => Listed(Of("revoke"), o))
      /\ Of("public") \in Seq(ops) /\ (o[1] = "public" => Listed(Of("public"), o))
      /\ Of("log") \in Seq(ops) /\ (o[1] = "log" => Listed(Of("log"), o))
  BY <1>1
<1>5. o[1] \in {"grant", "revoke"} => Listed(q2, o)
  BY <1>4, JoinLists
<1> HIDE DEF q2
<1>6. o[1] \in {"grant", "revoke", "public"} => Listed(q3, o)
  BY <1>3, <1>4, <1>5, JoinLists
<1> HIDE DEF q3
<1> QED BY <1>3, <1>4, <1>6, JoinLists

\* The session objects and who has ever been granted access.
SessionsOK ==
    /\ sess \in [Paths -> ShareSession \cup {None}] /\ ever \in [Paths -> SUBSET (Args \cup People)]
    /\ \A s \in Paths : sess[s] # None => sess[s].acl.acl \subseteq ever[s]

\* Process c has carried out or waived the first n of its operations.
Carried(c, n) ==
    /\ Len(c.todo) = Len(c.ops) - n /\ \A i \in 1..Len(c.todo) : c.todo[i] = c.ops[n + i]
    /\ c.done \cup c.waived = {c.ops[i] : i \in 1..n}

CommandOK(c) ==
    /\ c.stage \in {"start", "open", "list"} => c.ops = <<>> /\ c.done = {} /\ c.waived = {} /\ c.out = "none"
    /\ c.stage = "run" => c.out = "none" /\ \E n \in 0..Len(c.ops) : Carried(c, n)
    /\ c.code # 3 => \A o \in c.waived : o[2] = None
    /\ \A o \in c.waived : o[2] = None \/ o[1] \in {"grant", "revoke"}
    /\ c.stage = "end" => Share!AclDone(c)

MaySee(uid, s, granted) == uid \in {Owner, Root, OpenVPN} \cup granted[s]

ShareInv ==
    /\ SessionsOK
    /\ cmd \in [Fronts -> ShareCommand]
    /\ \A f \in Fronts : CommandOK(cmd[f]) /\ \A s \in cmd[f].shown : MaySee(cmd[f].user, s, ever)

-----------------------------------------------------------------------------
(* The calls a command makes *)

LEMMA EffectKeeps ==
    ASSUME NEW r \in ShareSession, NEW o, o \in Ops \/ o[1] = "get" PROVE Share!Effect(r, o) \in ShareSession
<1>1. o \in Ops => o[2] \in Args
  BY DEF Args
<1>2. CASE o[1] = "get"
  BY <1>2 DEF Share!Effect, ShareSession
<1>3. CASE o \in Ops
  BY <1>1, <1>3 DEF Share!Effect, ShareSession, ShareACL, Share!ACL!GrantAccess, Share!ACL!RevokeAccess,
                    Share!ACL!SetPublicAccess
<1> QED BY <1>2, <1>3

\* A call leaves the sessions in order, whoever makes it; the grants that were ever
\* made are kept, and a property is given only to those who may see it.
LEMMA CallKeeps ==
    ASSUME SessionsOK, NEW s, NEW uid, NEW o, o \in Ops \/ o[1] = "get", Share!Call(s, uid, o)
    PROVE  /\ SessionsOK' /\ \A p \in Paths : ever[p] \subseteq ever'[p]
           /\ Share!Answers(s, uid, o) /\ o[1] = "get" => s \in Paths /\ MaySee(uid, s, ever')
<1> DEFINE new == IF s \in Share!live /\ Share!Closed(s, uid, o) THEN None
                  ELSE IF Share!Answers(s, uid, o) THEN Share!Effect(sess[s], o) ELSE sess[s]
<1>1. /\ sess' = [sess EXCEPT ![s] = new]
      /\ ever' = IF s \in Share!live /\ ~Share!Closed(s, uid, o)
                 THEN [ever EXCEPT ![s] = ever[s] \cup Share!Sharers(sess'[s])] ELSE ever
  BY DEF Share!Call
<1>2. sess \in [Paths -> ShareSession \cup {None}] /\ ever \in [Paths -> SUBSET (Args \cup People)]
  BY DEF SessionsOK
<1>3. s \in Share!live => s \in Paths /\ sess[s] \in ShareSession
  BY <1>2 DEF Share!live
<1>4. Share!Answers(s, uid, o) => s \in Share!live
  BY DEF Share!Answers
<1>5. /\ s \in Share!live => new \in ShareSession \cup {None}
      /\ s \in Share!live /\ ~Share!Closed(s, uid, o) => new \in ShareSession
      /\ s \in Share!live /\ Share!Closed(s, uid, o) => new = None
  BY <1>3, <1>4, EffectKeeps
<1>6. s \notin Share!live => new = sess[s]
  BY <1>4
<1> HIDE DEF new
<1>7. CASE s \notin Share!live
  <2>1. sess' = sess /\ ever' = ever
    BY <1>1, <1>2, <1>6, <1>7
  <2> QED BY <1>4, <1>7, <2>1 DEF SessionsOK
<1>8. CASE s \in Share!live
  <2>1. sess'[s] = new /\ \A p \in Paths \ {s} : sess'[p] = sess[p]
    BY <1>1, <1>2, <1>3, <1>8
  <2>2. /\ ever'[s] = IF Share!Closed(s, uid, o) THEN ever[s] ELSE ever[s] \cup Share!Sharers(new)
        /\ \A p \in Paths \ {s} : ever'[p] = ever[p]
    BY <1>1, <1>2, <1>3, <1>8, <2>1
  <2>3. ~Share!Closed(s, uid, o) => /\ Share!Sharers(new) \subseteq Args \cup People
                                    /\ new.acl.acl \subseteq Share!Sharers(new)
    BY <1>5, <1>8 DEF ShareSession, ShareACL, Share!Sharers
  <2>4. sess' \in [Paths -> ShareSession \cup {None}]
    BY <1>1, <1>2, <1>5, <1>8
  <2>5. ever' \in [Paths -> SUBSET (Args \cup People)]
    BY <1>1, <1>2, <1>8, <2>1, <2>3
  <2>6. SessionsOK'
    BY <1>5, <1>8, <2>1, <2>2, <2>3, <2>4, <2>5 DEF SessionsOK
  <2>7. \A p \in Paths : ever[p] \subseteq ever'[p]
    BY <1>3, <1>8, <2>2
  <2>8. ASSUME Share!Answers(s, uid, o), o[1] = "get" PROVE MaySee(uid, s, ever')
    <3>1. uid \in sess[s].acl.acl \cup {Root, sess[s].acl.owner, OpenVPN}
      BY <2>8 DEF Share!Answers, Share!Allowed, Share!ACL!CheckACL
    <3>2. sess[s].acl.owner = Owner /\ sess[s].acl.acl \subseteq ever[s]
      BY <1>3, <1>8 DEF ShareSession, ShareACL, SessionsOK, Share!live
    <3> QED BY <1>3, <1>8, <2>7, <3>1, <3>2 DEF MaySee
  <2> QED BY <1>3, <1>8, <2>6, <2>7, <2>8
<1> QED BY <1>7, <1>8

\* Process f goes on to record r.
LEMMA MoveKeeps ==
    ASSUME ShareInv, SessionsOK', \A p \in Paths : ever[p] \subseteq ever'[p],
           NEW f \in Fronts, NEW r \in ShareCommand, cmd' = [cmd EXCEPT ![f] = r],
           CommandOK(r), r.user = cmd[f].user,
           \A s \in r.shown : s \in cmd[f].shown \/ MaySee(r.user, s, ever')
    PROVE  ShareInv'
<1>1. cmd \in [Fronts -> ShareCommand]
  BY DEF ShareInv
<1>2. cmd'[f] = r /\ \A g \in Fronts \ {f} : cmd'[g] = cmd[g]
  BY <1>1
<1>3. cmd' \in [Fronts -> ShareCommand]
  BY <1>1
<1>4. \A g \in Fronts : cmd[g].shown \subseteq Paths
  BY <1>1 DEF ShareCommand
<1>5. ASSUME NEW g \in Fronts, NEW s \in cmd[g].shown PROVE MaySee(cmd[g].user, s, ever')
  BY <1>4 DEF ShareInv, MaySee
<1>6. \A g \in Fronts : \A s \in cmd'[g].shown : MaySee(cmd'[g].user, s, ever')
  BY <1>2, <1>5
<1>7. \A g \in Fronts : CommandOK(cmd'[g])
  BY <1>2 DEF ShareInv
<1>8. (\A g \in Fronts : CommandOK(cmd[g]) /\ \A s \in cmd[g].shown : MaySee(cmd[g].user, s, ever))'
  BY <1>6, <1>7 DEF MaySee, CommandOK, Carried, Share!AclDone
<1> QED BY <1>3, <1>8 DEF ShareInv

LEMMA EndedFields ==
    ASSUME NEW c \in ShareCommand, NEW out \in {"ok", "partial", "error"}
    PROVE  LET r == Share!Ended(c, out) IN
           /\ r \in ShareCommand /\ r.stage = "end" /\ r.out = out
           /\ r.user = c.user /\ r.shown = c.shown /\ r.code = c.code
           /\ r.ops = c.ops /\ r.done = c.done /\ r.waived = c.waived
<1> DEFINE nothing == <<>>
           r == [c EXCEPT !.stage = "end", !.out = out, !.todo = nothing]
<1>1. nothing \in Seq(Ops \cup ColumnNames)
  OBVIOUS
<1>2. Share!Ended(c, out) = r
  BY DEF Share!Ended
<1> HIDE DEF nothing
<1>3. r \in ShareCommand
  BY <1>1 DEF ShareCommand
<1>4. /\ r.stage = "end" /\ r.out = out
      /\ r.user = c.user /\ r.shown = c.shown /\ r.code = c.code
      /\ r.ops = c.ops /\ r.done = c.done /\ r.waived = c.waived
  BY DEF ShareCommand
<1> QED BY <1>2, <1>3, <1>4

\* A command that has carried out nothing ends, or goes on to its next stage.
LEMMA NothingDone ==
    ASSUME NEW c \in ShareCommand, CommandOK(c), c.stage \in {"start", "open", "list"}
    PROVE  /\ \A out \in {"ok", "error"} : Share!Ended(c, out) \in ShareCommand /\ CommandOK(Share!Ended(c, out))
                                          /\ Share!Ended(c, out).user = c.user /\ Share!Ended(c, out).shown = c.shown
           /\ \A s \in Paths \cup {l.path : l \in Lines} :
                Share!Opened(c, s) \in ShareCommand /\ CommandOK(Share!Opened(c, s))
                /\ Share!Opened(c, s).user = c.user /\ Share!Opened(c, s).shown = c.shown
<1>1. c.ops = <<>> /\ c.done = {} /\ c.waived = {} /\ c.out = "none"
  BY DEF CommandOK
<1>2. ASSUME NEW out \in {"ok", "error"}
      PROVE  /\ Share!Ended(c, out) \in ShareCommand /\ CommandOK(Share!Ended(c, out))
             /\ Share!Ended(c, out).user = c.user /\ Share!Ended(c, out).shown = c.shown
  <2> DEFINE r == Share!Ended(c, out)
  <2>1. /\ r \in ShareCommand /\ r.stage = "end" /\ r.ops = <<>> /\ r.done = {} /\ r.waived = {}
        /\ r.user = c.user /\ r.shown = c.shown
    BY <1>1, EndedFields
  <2> HIDE DEF r
  <2>2. DOMAIN r.ops = {}
    BY <2>1
  <2>. Share!Range(r.ops) = r.done \cup r.waived
    BY <2>1, <2>2 DEF Share!Range
  <2>3. Share!AclDone(r)
    BY <2>1, <2>2 DEF Share!AclDone
  <2>4. CommandOK(r)
    BY <2>1, <2>3 DEF CommandOK
  <2> QED BY <2>1, <2>4 DEF r
<1>3. ASSUME NEW s \in Paths \cup {l.path : l \in Lines}
      PROVE  /\ Share!Opened(c, s) \in ShareCommand /\ CommandOK(Share!Opened(c, s))
             /\ Share!Opened(c, s).user = c.user /\ Share!Opened(c, s).shown = c.shown
  <2> DEFINE r == Share!Opened(c, s)
  <2>1. /\ r \in ShareCommand /\ r.stage = "open" /\ r.ops = <<>> /\ r.done = {} /\ r.waived = {}
        /\ r.user = c.user /\ r.shown = c.shown /\ r.out = "none"
    BY <1>1 DEF Share!Opened, ShareCommand
  <2> HIDE DEF r
  <2>2. CommandOK(r)
    BY <2>1 DEF CommandOK
  <2> QED BY <2>1, <2>2 DEF r
<1> QED BY <1>2, <1>3

-----------------------------------------------------------------------------
(* One step of a command *)

LEMMA QuietMove ==
    ASSUME ShareInv, Share!Quietly
    PROVE  SessionsOK' /\ \A p \in Paths : ever[p] \subseteq ever'[p]
BY DEF ShareInv, SessionsOK, Share!Quietly

LEMMA CommandType ==
    ASSUME ShareInv, NEW f \in Fronts PROVE cmd[f] \in ShareCommand /\ CommandOK(cmd[f])
BY DEF ShareInv

\* The look-ups see sessions of the manager.
LEMMA LookupPaths ==
    ASSUME NEW uid, NEW x
    PROVE  /\ Share!helper_retrieve_sessions(uid) \subseteq Paths
           /\ Share!method_lookup_config(uid, x) \subseteq Paths
           /\ Share!method_lookup_interf(uid, x) \subseteq Paths
BY DEF Share!helper_retrieve_sessions, Share!live, Share!method_lookup_config, Share!method_lookup_interf

LEMMA SingleKeeps ==
    ASSUME NEW c \in ShareCommand, CommandOK(c), c.stage = "start", NEW paths \in SUBSET Paths
    PROVE  /\ Share!Single(c, paths) \in ShareCommand /\ CommandOK(Share!Single(c, paths))
           /\ Share!Single(c, paths).user = c.user /\ Share!Single(c, paths).shown = c.shown
<1>1. CASE Share!Cardinality(paths) = 1
  <2>1. paths # {}
    <3>1. Share!Cardinality({}) = 0
      <4>1. Share!Cardinality({}) = Cardinality({})
        BY DEF Share!Cardinality, Cardinality
      <4> QED BY <4>1, FS_EmptySet
    <3> QED BY <1>1, <3>1
  <2>2. PICK s \in paths : s = CHOOSE p \in paths : TRUE
    BY <2>1
  <2>3. Share!Single(c, paths) = Share!Opened(c, s)
    BY <1>1, <2>2 DEF Share!Single
  <2>4. s \in Paths \cup {l.path : l \in Lines}
    OBVIOUS
  <2> QED BY <2>3, <2>4, NothingDone
<1>2. CASE Share!Cardinality(paths) # 1
  <2>1. Share!Single(c, paths) = Share!Ended(c, "error")
    BY <1>2 DEF Share!Single
  <2> QED BY <2>1, NothingDone
<1> QED BY <1>1, <1>2

LEMMA LookupKeeps ==
    ASSUME ShareInv, NEW f \in Fronts,
           Share!LookupConfigName(f) \/ Share!LookupInterface(f) \/ Share!Retrieve(f)
    PROVE  ShareInv'
<1> DEFINE c == cmd[f]
<1>1. c \in ShareCommand /\ CommandOK(c) /\ c.stage = "start" /\ Share!Quietly
  BY CommandType DEF Share!LookupConfigName, Share!LookupInterface, Share!Retrieve, Share!Running
<1>2. PICK r : r \in ShareCommand /\ CommandOK(r) /\ r.user = c.user /\ r.shown = c.shown /\ Share!Now(f, r)
  <2>1. CASE Share!LookupConfigName(f)
    BY <1>1, <2>1, LookupPaths, SingleKeeps DEF Share!LookupConfigName
  <2>2. CASE Share!LookupInterface(f)
    BY <1>1, <2>2, LookupPaths, SingleKeeps DEF Share!LookupInterface
  <2>3. CASE Share!Retrieve(f)
    <3>1. c.line.path \in Paths \cup {l.path : l \in Lines}
      BY <1>1 DEF ShareCommand
    <3> QED BY <1>1, <2>3, <3>1, NothingDone DEF Share!Retrieve
  <2> QED BY <2>1, <2>2, <2>3
<1> QED BY <1>1, <1>2, QuietMove, MoveKeeps DEF Share!Now

LEMMA OpenKeeps ==
    ASSUME \A l \in Lines : IsFiniteSet(l.ops), ShareInv, NEW f \in Fronts, Share!CheckSessionExists(f)
    PROVE  ShareInv'
<1> DEFINE c == cmd[f]
           ops == IF c.line.cmd = "session-stats" THEN Share!Statistics
                  ELSE Share!Ordered(c.line.ops) \o (IF c.line.show THEN Share!Show ELSE <<>>)
           r == [c EXCEPT !.stage = "run", !.ops = ops, !.todo = ops]
<1>1. /\ c \in ShareCommand /\ CommandOK(c) /\ c.stage = "open" /\ Share!Quietly
      /\ Share!Now(f, r) \/ Share!Now(f, Share!Ended(c, "error"))
  BY CommandType DEF Share!CheckSessionExists, Share!Running
<1>2. CASE Share!Now(f, Share!Ended(c, "error"))
  <2>1. /\ Share!Ended(c, "error") \in ShareCommand /\ CommandOK(Share!Ended(c, "error"))
        /\ Share!Ended(c, "error").user = c.user /\ Share!Ended(c, "error").shown = c.shown
    BY <1>1, NothingDone
  <2> QED BY <1>1, <1>2, <2>1, QuietMove, MoveKeeps DEF Share!Now
<1>3. CASE Share!Now(f, r)
  <2>1. Share!Ordered(c.line.ops) \in Seq(Ops)
    BY <1>1, OrderedSeq DEF ShareCommand
  <2>2. Share!Show \in Seq(Ops) /\ Share!Statistics \in Seq(Ops)
    <3>1. /\ <<"get", "owner">> \in Ops /\ <<"get", "public_access">> \in Ops /\ <<"get", "restrict_log_access">> \in Ops
          /\ <<"get", "public_again">> \in Ops /\ <<"get", "statistics">> \in Ops
      BY DEF Ops, GetOps
    <3> QED BY <3>1 DEF Share!Show, Share!Statistics
  <2>3. ops \in Seq(Ops)
    BY <2>1, <2>2
  <2> HIDE DEF ops
  <2>4. ops \in Seq(Ops \cup ColumnNames)
    BY <2>3
  <2>5. c.out = "none" /\ c.done = {} /\ c.waived = {}
    BY <1>1 DEF CommandOK
  <2>6. /\ r \in ShareCommand /\ r.stage = "run" /\ r.ops = ops /\ r.todo = ops /\ r.out = "none"
        /\ r.done = {} /\ r.waived = {} /\ r.user = c.user /\ r.shown = c.shown
    BY <1>1, <2>3, <2>4, <2>5 DEF ShareCommand
  <2> HIDE DEF r
  <2>7. Carried(r, 0) /\ 0 \in 0..Len(r.ops)
    BY <2>3, <2>6 DEF Carried
  <2>8. CommandOK(r)
    BY <2>6, <2>7 DEF CommandOK
  <2> QED BY <1>1, <1>3, <2>6, <2>8, QuietMove, MoveKeeps DEF Share!Now
<1> QED BY <1>1, <1>2, <1>3

\* The first operation of those that are left is the next one, and the error that ends a
\* command comes before the last.
LEMMA NextCarried ==
    ASSUME NEW c \in ShareCommand, CommandOK(c), c.stage = "run", c.todo # <<>>
    PROVE  \E n \in 0..(Len(c.ops) - 1) :
             /\ Carried(c, n) /\ Head(c.todo) = c.ops[n + 1] /\ Head(c.todo) \in Ops
             /\ Len(Tail(c.todo)) = Len(c.ops) - (n + 1)
             /\ \A i \in 1..Len(Tail(c.todo)) : Tail(c.todo)[i] = c.ops[n + 1 + i]
<1>1. c.ops \in Seq(Ops) /\ c.todo \in Seq(Ops \cup ColumnNames)
  BY DEF ShareCommand
<1>2. PICK n \in 0..Len(c.ops) : Carried(c, n)
  BY DEF CommandOK
<1>3. Len(c.todo) \in Nat \ {0} /\ Len(c.todo) = Len(c.ops) - n
  BY <1>1, <1>2 DEF Carried
<1>4. n \in 0..(Len(c.ops) - 1)
  BY <1>1, <1>3
<1>5. Head(c.todo) = c.todo[1] /\ c.todo[1] = c.ops[n + 1]
  BY <1>1, <1>2, <1>3 DEF Carried
<1>6. c.ops[n + 1] \in Ops
  BY <1>1, <1>4
<1>7. /\ Len(Tail(c.todo)) = Len(c.ops) - (n + 1)
      /\ \A i \in 1..Len(Tail(c.todo)) : Tail(c.todo)[i] = c.todo[i + 1]
  BY <1>1, <1>3
<1>8. \A i \in 1..Len(Tail(c.todo)) : Tail(c.todo)[i] = c.ops[n + 1 + i]
  BY <1>1, <1>2, <1>3, <1>7 DEF Carried
<1> QED BY <1>2, <1>4, <1>5, <1>6, <1>7, <1>8

\* An error in the middle of a command.
LEMMA StoppedShort ==
    ASSUME NEW c \in ShareCommand, CommandOK(c), c.stage = "run", c.todo # <<>>
    PROVE  /\ Share!Ended(c, "error") \in ShareCommand /\ CommandOK(Share!Ended(c, "error"))
           /\ Share!Ended(c, "error").user = c.user /\ Share!Ended(c, "error").shown = c.shown
<1> DEFINE r == Share!Ended(c, "error")
<1>1. /\ r \in ShareCommand /\ r.stage = "end" /\ r.ops = c.ops /\ r.done = c.done /\ r.waived = c.waived
      /\ r.user = c.user /\ r.shown = c.shown /\ r.out = "error"
  BY EndedFields
<1>2. r.code = c.code
  BY EndedFields
<1> HIDE DEF r
<1>3. PICK n \in 0..(Len(c.ops) - 1) : Carried(c, n)
  BY NextCarried
<1>4. c.done \cup c.waived = {c.ops[i] : i \in 1..n}
  BY <1>3 DEF Carried
<1>5. \A o \in c.waived : o[2] = None \/ o[1] \in {"grant", "revoke"}
  BY DEF CommandOK
<1>6. Share!AclDone(r)
  BY <1>1, <1>4, <1>5 DEF Share!AclDone
<1>7. CommandOK(r)
  BY <1>1, <1>2, <1>6 DEF CommandOK
<1> QED BY <1>1, <1>7 DEF r

\* One more operation is carried out or waived, and others may come behind the last.
LEMMA OneMore ==
    ASSUME NEW c \in ShareCommand, CommandOK(c), c.stage = "run", c.todo # <<>>,
           NEW then \in Seq(Ops), NEW r \in ShareCommand,
           r.ops = c.ops \o then, r.todo = Tail(c.todo) \o then,
           r.done \cup r.waived = (c.done \cup c.waived) \cup {Head(c.todo)}
    PROVE  \E m \in 0..Len(r.ops) : Carried(r, m)
<1>1. c.ops \in Seq(Ops) /\ Tail(c.todo) \in Seq(Ops \cup ColumnNames) /\ then \in Seq(Ops \cup ColumnNames)
  BY DEF ShareCommand
<1>2. PICK n \in 0..(Len(c.ops) - 1) :
         /\ Carried(c, n) /\ Head(c.todo) = c.ops[n + 1]
         /\ Len(Tail(c.todo)) = Len(c.ops) - (n + 1)
         /\ \A i \in 1..Len(Tail(c.todo)) : Tail(c.todo)[i] = c.ops[n + 1 + i]
  BY NextCarried
<1>q. PICK q \in Seq(Ops \cup ColumnNames) : q = Tail(c.todo)
  BY <1>1
<1> DEFINE k == n + 1
<1>3. /\ Len(r.ops) = Len(c.ops) + Len(then) /\ Len(c.ops) \in Nat /\ Len(then) \in Nat
      /\ \A i \in 1..Len(c.ops) : r.ops[i] = c.ops[i]
      /\ \A i \in 1..Len(then) : r.ops[Len(c.ops) + i] = then[i]
  BY <1>1
<1>4. Len(q) = Len(c.ops) - k /\ \A i \in 1..Len(q) : q[i] = c.ops[k + i]
  BY <1>2, <1>q
<1>5. /\ Len(r.todo) = Len(q) + Len(then) /\ Len(q) \in Nat
      /\ \A i \in 1..Len(q) : r.todo[i] = q[i]
      /\ \A i \in 1..Len(then) : r.todo[Len(q) + i] = then[i]
  <2>1. q \o then = r.todo
    BY <1>q
  <2>2. q \in Seq(Ops \cup ColumnNames) /\ then \in Seq(Ops \cup ColumnNames)
    BY <1>1
  <2>3. /\ Len(q \o then) = Len(q) + Len(then) /\ Len(q) \in Nat
    BY <2>2
  <2>4. \A i \in 1..Len(q) : (q \o then)[i] = q[i]
    BY <2>2
  <2>5. \A i \in 1..Len(then) : (q \o then)[Len(q) + i] = then[i]
    BY <2>2
  <2> QED BY <2>1, <2>3, <2>4, <2>5
<1>k. k \in Nat /\ 1 <= k /\ k <= Len(c.ops)
  BY <1>3
<1> HIDE DEF k
<1>6. k \in 0..Len(r.ops) /\ k \in 1..Len(c.ops) /\ Len(r.todo) = Len(r.ops) - k
  BY <1>k, <1>3, <1>4, <1>5
<1>7. ASSUME NEW i \in 1..Len(r.todo) PROVE r.todo[i] = r.ops[k + i]
  <2>1. CASE i \in 1..Len(q)
    <3>1. r.todo[i] = c.ops[k + i]
      BY <1>4, <1>5, <2>1
    <3>2. k + i \in 1..Len(c.ops)
      BY <1>k, <1>3, <1>4, <2>1
    <3> QED BY <1>3, <3>1, <3>2
  <2>2. CASE i \notin 1..Len(q)
    <3>1. i - Len(q) \in 1..Len(then) /\ i = Len(q) + (i - Len(q))
      BY <1>5, <2>2
    <3>2. r.todo[i] = then[i - Len(q)]
      BY <1>5, <3>1
    <3>3. k + i = Len(c.ops) + (i - Len(q))
      BY <1>3, <1>4, <1>5, <1>6
    <3>4. r.ops[Len(c.ops) + (i - Len(q))] = then[i - Len(q)]
      BY <1>3, <3>1
    <3> QED BY <3>2, <3>3, <3>4
  <2> QED BY <2>1, <2>2
<1>8. r.done \cup r.waived = {r.ops[i] : i \in 1..k}
  <2>1. c.done \cup c.waived = {c.ops[i] : i \in 1..n}
    BY <1>2 DEF Carried
  <2>2. \A i \in 1..k : r.ops[i] = c.ops[i]
    BY <1>3, <1>6
  <2>3. 1..k = 1..n \cup {k} /\ c.ops[k] = Head(c.todo)
    BY <1>2 DEF k
  <2>4. {r.ops[i] : i \in 1..k} = {c.ops[i] : i \in 1..k}
    BY <2>2
  <2>5. {c.ops[i] : i \in 1..k} = {c.ops[i] : i \in 1..n} \cup {Head(c.todo)}
    BY <2>3
  <2> QED BY <2>1, <2>4, <2>5
<1>9. Carried(r, k)
  BY <1>6, <1>7, <1>8 DEF Carried
<1> QED BY <1>6, <1>9

LEMMA ShowsThen ==
    ASSUME NEW s, NEW o PROVE Share!ThenShow(s, o) \in Seq(Ops)
<1>1. <<"get", "acl">> \in Ops
  BY DEF Ops, GetOps
<1> QED BY <1>1 DEF Share!ThenShow

LEMMA OperationKeeps ==
    ASSUME ShareInv, NEW f \in Fronts, Share!Operation(f)
    PROVE  ShareInv'
<1> DEFINE c == cmd[f]
           o == Head(c.todo)
           then == Share!ThenShow(c.path, o)
           answers == Share!Answers(c.path, c.user, o)
<1>1. /\ c \in ShareCommand /\ CommandOK(c) /\ c.stage = "run" /\ c.todo # <<>> /\ Share!Call(c.path, c.user, o)
      /\ Share!Now(f, IF answers
              THEN [c EXCEPT !.done = c.done \cup {o}, !.ops = c.ops \o then, !.todo = Tail(c.todo) \o then,
                             !.shown = IF o[1] = "get" THEN c.shown \cup {c.path} ELSE c.shown]
              ELSE IF Share!Tolerated(o)
                   THEN [c EXCEPT !.todo = Tail(c.todo), !.waived = c.waived \cup {o}, !.code = 3]
              ELSE Share!Ended(c, "error"))
  BY CommandType DEF Share!Operation, Share!Running
<1>2. o \in Ops
  BY <1>1, NextCarried
<1>3. /\ SessionsOK' /\ \A p \in Paths : ever[p] \subseteq ever'[p]
      /\ answers /\ o[1] = "get" => c.path \in Paths /\ MaySee(c.user, c.path, ever')
  BY <1>1, <1>2, CallKeeps DEF ShareInv
<1>4. Tail(c.todo) \in Seq(Ops \cup ColumnNames) /\ c.ops \in Seq(Ops)
  BY <1>1 DEF ShareCommand
<1>5. CASE answers
  <2>1. then \in Seq(Ops)
    BY ShowsThen
  <2> DEFINE ops == c.ops \o then
             todo == Tail(c.todo) \o then
             shown == IF o[1] = "get" THEN c.shown \cup {c.path} ELSE c.shown
             done == c.done \cup {o}
             r == [c EXCEPT !.done = done, !.ops = ops, !.todo = todo, !.shown = shown]
  <2> HIDE DEF then, answers
  <2>2. ops \in Seq(Ops) /\ todo \in Seq(Ops \cup ColumnNames)
    BY <1>4, <2>1
  <2>3. shown \in SUBSET Paths /\ done \in SUBSET Ops
    BY <1>1, <1>2, <1>3, <1>5 DEF ShareCommand
  <2>4. Share!Now(f, r)
    BY <1>1, <1>5
  <2>5. /\ \A s \in shown : s \in c.shown \/ MaySee(c.user, s, ever')
        /\ done = c.done \cup {o} /\ ops = c.ops \o then /\ todo = Tail(c.todo) \o then
    BY <1>3, <1>5
  <2> HIDE DEF ops, todo, shown, done
  <2>6. r \in ShareCommand
    BY <1>1, <2>2, <2>3 DEF ShareCommand
  <2>7. /\ r.stage = "run" /\ r.ops = ops /\ r.todo = todo /\ r.done = done /\ r.shown = shown
        /\ r.waived = c.waived /\ r.code = c.code /\ r.user = c.user /\ r.out = c.out
    BY <1>1 DEF ShareCommand
  <2> HIDE DEF r
  <2>8. r.done \cup r.waived = (c.done \cup c.waived) \cup {o}
    BY <2>5, <2>7
  <2>9. \E m \in 0..Len(r.ops) : Carried(r, m)
    BY <1>1, <2>1, <2>5, <2>6, <2>7, <2>8, OneMore
  <2>10. CommandOK(r)
    BY <1>1, <2>7, <2>9 DEF CommandOK
  <2> QED BY <1>3, <2>4, <2>5, <2>6, <2>7, <2>10, MoveKeeps DEF Share!Now
<1>6. CASE ~answers /\ Share!Tolerated(o)
  <2> DEFINE todo == Tail(c.todo)
             waived == c.waived \cup {o}
             r == [c EXCEPT !.todo = todo, !.waived = waived, !.code = 3]
  <2>1. Share!Now(f, r)
    BY <1>1, <1>6
  <2>2. waived \in SUBSET Ops /\ todo \in Seq(Ops \cup ColumnNames)
    BY <1>1, <1>2, <1>4 DEF ShareCommand
  <2>3. waived = c.waived \cup {o} /\ todo = Tail(c.todo)
    OBVIOUS
  <2> HIDE DEF todo, waived, answers
  <2>4. r \in ShareCommand
    BY <1>1, <2>2 DEF ShareCommand
  <2>5. /\ r.stage = "run" /\ r.ops = c.ops /\ r.todo = todo /\ r.done = c.done /\ r.shown = c.shown
        /\ r.waived = waived /\ r.code = 3 /\ r.user = c.user /\ r.out = c.out
    BY <1>1 DEF ShareCommand
  <2> HIDE DEF r
  <2>6. r.done \cup r.waived = (c.done \cup c.waived) \cup {o}
    BY <2>3, <2>5
  <2>7. <<>> \in Seq(Ops) /\ c.ops \o <<>> = c.ops /\ Tail(c.todo) \o <<>> = Tail(c.todo)
    BY <1>4
  <2>8. \E m \in 0..Len(r.ops) : Carried(r, m)
    BY <1>1, <2>3, <2>4, <2>5, <2>6, <2>7, OneMore
  <2>9. CommandOK(r)
    BY <1>1, <1>6, <2>3, <2>5, <2>8 DEF CommandOK, Share!Tolerated
  <2> QED BY <1>3, <2>1, <2>4, <2>5, <2>9, MoveKeeps DEF Share!Now
<1>7. CASE ~answers /\ ~Share!Tolerated(o)
  <2>1. Share!Now(f, Share!Ended(c, "error"))
    BY <1>1, <1>7
  <2>2. /\ Share!Ended(c, "error") \in ShareCommand /\ CommandOK(Share!Ended(c, "error"))
        /\ Share!Ended(c, "error").user = c.user /\ Share!Ended(c, "error").shown = c.shown
    BY <1>1, StoppedShort
  <2> QED BY <1>3, <2>1, <2>2, MoveKeeps DEF Share!Now
<1> QED BY <1>5, <1>6, <1>7

LEMMA BadArgumentKeeps ==
    ASSUME ShareInv, NEW f \in Fronts, Share!BadArgument(f)
    PROVE  ShareInv'
<1> DEFINE c == cmd[f]
           o == Head(c.todo)
           todo == Tail(c.todo)
           waived == c.waived \cup {o}
           code == IF o[1] = "public" THEN 3 ELSE c.code
           r == [c EXCEPT !.todo = todo, !.waived = waived, !.code = code]
<1>1. /\ c \in ShareCommand /\ CommandOK(c) /\ c.stage = "run" /\ c.todo # <<>> /\ o[2] = None
      /\ Share!Now(f, r) /\ Share!Quietly
  BY CommandType DEF Share!BadArgument, Share!Running
<1>2. o \in Ops
  BY <1>1, NextCarried
<1>3. Tail(c.todo) \in Seq(Ops \cup ColumnNames) /\ c.ops \in Seq(Ops)
  BY <1>1 DEF ShareCommand
<1>4. waived \in SUBSET Ops /\ todo \in Seq(Ops \cup ColumnNames) /\ code \in {0, 3}
  BY <1>1, <1>2, <1>3 DEF ShareCommand
<1>5. waived = c.waived \cup {o} /\ todo = Tail(c.todo) /\ (code # 3 => c.code # 3)
  OBVIOUS
<1> HIDE DEF todo, waived, code
<1>6. r \in ShareCommand
  BY <1>1, <1>4 DEF ShareCommand
<1>7. /\ r.stage = "run" /\ r.ops = c.ops /\ r.todo = todo /\ r.done = c.done /\ r.shown = c.shown
      /\ r.waived = waived /\ r.code = code /\ r.user = c.user /\ r.out = c.out
  BY <1>1 DEF ShareCommand
<1> HIDE DEF r
<1>8. r.done \cup r.waived = (c.done \cup c.waived) \cup {o}
  BY <1>5, <1>7
<1>9. <<>> \in Seq(Ops) /\ c.ops \o <<>> = c.ops /\ Tail(c.todo) \o <<>> = Tail(c.todo)
  BY <1>3
<1>10. \E m \in 0..Len(r.ops) : Carried(r, m)
  BY <1>1, <1>5, <1>6, <1>7, <1>8, <1>9, OneMore
<1>11. CommandOK(r)
  BY <1>1, <1>5, <1>7, <1>10 DEF CommandOK
<1> QED BY <1>1, <1>6, <1>7, <1>11, QuietMove, MoveKeeps DEF Share!Now

LEMMA FinishKeeps ==
    ASSUME ShareInv, NEW f \in Fronts, Share!Finish(f)
    PROVE  ShareInv'
<1> DEFINE c == cmd[f]
           out == IF c.code = 3 THEN "partial" ELSE "ok"
           r == Share!Ended(c, out)
<1>1. /\ c \in ShareCommand /\ CommandOK(c) /\ c.stage = "run" /\ c.todo = <<>>
      /\ Share!Now(f, r) /\ Share!Quietly
  BY CommandType DEF Share!Finish, Share!Running
<1>2. out \in {"ok", "partial", "error"} /\ (out = "ok" => c.code # 3) /\ out # "error"
  OBVIOUS
<1> HIDE DEF out
<1>3. /\ r \in ShareCommand /\ r.stage = "end" /\ r.out = out
      /\ r.user = c.user /\ r.shown = c.shown /\ r.code = c.code
      /\ r.ops = c.ops /\ r.done = c.done /\ r.waived = c.waived
  BY <1>1, <1>2, EndedFields
<1> HIDE DEF r
<1>4. PICK n \in 0..Len(c.ops) : Carried(c, n)
  BY <1>1 DEF CommandOK
<1>5. c.ops \in Seq(Ops) /\ Len(c.todo) = 0
  BY <1>1 DEF ShareCommand
<1>6. n = Len(c.ops) /\ DOMAIN c.ops = 1..Len(c.ops)
  BY <1>4, <1>5 DEF Carried
<1>7. Share!Range(r.ops) = r.done \cup r.waived
  BY <1>3, <1>4, <1>6 DEF Carried, Share!Range
<1>8. Share!AclDone(r)
  BY <1>1, <1>2, <1>3, <1>7 DEF Share!AclDone, CommandOK
<1>9. CommandOK(r)
  BY <1>1, <1>3, <1>8 DEF CommandOK
<1> QED BY <1>1, <1>3, <1>9, QuietMove, MoveKeeps DEF Share!Now

-----------------------------------------------------------------------------
(* Lists, the VPN clients, and the theorem *)

LEMMA FetchKeeps ==
    ASSUME ShareInv, NEW f \in Fronts, Share!FetchAvailableSessionPaths(f)
    PROVE  ShareInv'
<1> DEFINE c == cmd[f]
           paths == Share!method_fetch_avail_sessions(c.user)
           todo == IF c.line.by = "list" THEN Share!Columns ELSE <<"config">>
           r == [c EXCEPT !.stage = "list", !.list = paths, !.left = paths, !.todo = todo]
<1>1. /\ c \in ShareCommand /\ CommandOK(c) /\ c.stage = "start" /\ Share!Now(f, r) /\ Share!Quietly
  BY CommandType DEF Share!FetchAvailableSessionPaths, Share!Running
<1>2. paths \in SUBSET Paths /\ paths \in SUBSET (Paths \cup {None})
  BY LookupPaths DEF Share!method_fetch_avail_sessions
<1>3. todo \in Seq(Ops \cup ColumnNames)
  <2>1. Share!Columns \in Seq(Ops \cup ColumnNames) /\ <<"config">> \in Seq(Ops \cup ColumnNames)
    BY DEF Share!Columns, ColumnNames
  <2> QED BY <2>1
<1> HIDE DEF paths, todo
<1>4. r \in ShareCommand
  BY <1>1, <1>2, <1>3 DEF ShareCommand
<1>5. /\ r.stage = "list" /\ r.ops = c.ops /\ r.done = c.done /\ r.waived = c.waived /\ r.code = c.code
      /\ r.out = c.out /\ r.user = c.user /\ r.shown = c.shown
  BY <1>1 DEF ShareCommand
<1> HIDE DEF r
<1>6. CommandOK(r)
  BY <1>1, <1>5 DEF CommandOK
<1> QED BY <1>1, <1>4, <1>5, <1>6, QuietMove, MoveKeeps DEF Share!Now

LEMMA ReadColumnKeeps ==
    ASSUME ShareInv, NEW f \in Fronts, Share!ReadColumn(f)
    PROVE  ShareInv'
<1> DEFINE c == cmd[f]
           s == CHOOSE p \in c.left : TRUE
           o == <<"get", Head(c.todo)>>
           got == Share!Answers(s, c.user, o)
           shown == IF got THEN c.shown \cup {s} ELSE c.shown
           left == IF Len(c.todo) = 1 THEN c.left \ {s} ELSE c.left
           todo == IF Len(c.todo) > 1 THEN Tail(c.todo)
                   ELSE IF c.line.by = "list" THEN Share!Columns ELSE c.todo
           r == [c EXCEPT !.shown = shown, !.left = left, !.todo = todo]
<1>1. /\ c \in ShareCommand /\ CommandOK(c) /\ c.stage = "list" /\ c.left # {} /\ Share!Call(s, c.user, o)
      /\ Share!Now(f, Share!Ended(c, "error")) \/ Share!Now(f, r)
  BY CommandType DEF Share!ReadColumn, Share!Running, Share!GetProperty
<1>2. o[1] = "get"
  OBVIOUS
<1>3. /\ SessionsOK' /\ \A p \in Paths : ever[p] \subseteq ever'[p]
      /\ got => s \in Paths /\ MaySee(c.user, s, ever')
  BY <1>1, <1>2, CallKeeps DEF ShareInv
<1>4. CASE Share!Now(f, Share!Ended(c, "error"))
  <2>1. /\ Share!Ended(c, "error") \in ShareCommand /\ CommandOK(Share!Ended(c, "error"))
        /\ Share!Ended(c, "error").user = c.user /\ Share!Ended(c, "error").shown = c.shown
    BY <1>1, NothingDone
  <2> QED BY <1>3, <1>4, <2>1, MoveKeeps DEF Share!Now
<1>5. CASE Share!Now(f, r)
  <2> HIDE DEF got, s
  <2>1. c.todo \in Seq(Ops \cup ColumnNames) /\ c.left \in SUBSET Paths /\ c.shown \in SUBSET Paths
    BY <1>1 DEF ShareCommand
  <2>2. Share!Columns \in Seq(Ops \cup ColumnNames)
    BY DEF Share!Columns, ColumnNames
  <2>3. Len(c.todo) > 1 => Tail(c.todo) \in Seq(Ops \cup ColumnNames)
    BY <2>1
  <2>4. todo \in Seq(Ops \cup ColumnNames) /\ left \in SUBSET Paths /\ shown \in SUBSET Paths
    BY <1>3, <2>1, <2>2, <2>3
  <2>5. \A x \in shown : x \in c.shown \/ MaySee(c.user, x, ever')
    BY <1>3
  <2> HIDE DEF todo, left, shown
  <2>6. r \in ShareCommand
    BY <1>1, <2>4 DEF ShareCommand
  <2>7. /\ r.stage = "list" /\ r.ops = c.ops /\ r.done = c.done /\ r.waived = c.waived /\ r.code = c.code
        /\ r.out = c.out /\ r.user = c.user /\ r.shown = shown
    BY <1>1 DEF ShareCommand
  <2> HIDE DEF r
  <2>8. CommandOK(r)
    BY <1>1, <2>7 DEF CommandOK
  <2> QED BY <1>3, <1>5, <2>5, <2>6, <2>7, <2>8, MoveKeeps DEF Share!Now
<1> QED BY <1>1, <1>4, <1>5

LEMMA ListEndsKeeps ==
    ASSUME ShareInv, NEW f \in Fronts, Share!ListEnds(f) \/ Share!FetchManagedInterfaces(f)
    PROVE  ShareInv'
<1> DEFINE c == cmd[f]
           e == Share!Ended(c, "ok")
           list == Share!method_fetch_managed_interf(c.user) \ {None}
           r == [e EXCEPT !.list = list]
<1>1. /\ c \in ShareCommand /\ CommandOK(c) /\ c.stage \in {"start", "list"} /\ Share!Quietly
      /\ Share!Now(f, e) \/ Share!Now(f, r)
  BY CommandType DEF Share!ListEnds, Share!FetchManagedInterfaces, Share!Running
<1>2. e \in ShareCommand /\ CommandOK(e) /\ e.user = c.user /\ e.shown = c.shown
  BY <1>1, NothingDone
<1> HIDE DEF e
<1>3. CASE Share!Now(f, e)
  BY <1>1, <1>2, <1>3, QuietMove, MoveKeeps DEF Share!Now
<1>4. CASE Share!Now(f, r)
  <2>1. list \in SUBSET (Paths \cup {None})
    <3> SUFFICES ASSUME NEW p \in Share!helper_retrieve_sessions(c.user)
                 PROVE  Share!GetDeviceName(p) \in Paths \cup {None}
      BY DEF Share!method_fetch_managed_interf
    <3>1. p \in Paths /\ sess[p] \in ShareSession
      BY DEF Share!helper_retrieve_sessions, Share!live, ShareInv, SessionsOK
    <3> QED BY <3>1 DEF Share!GetDeviceName, ShareSession
  <2> HIDE DEF list
  <2>2. r \in ShareCommand
    BY <1>2, <2>1 DEF ShareCommand
  <2>3. /\ r.stage = e.stage /\ r.ops = e.ops /\ r.done = e.done /\ r.waived = e.waived /\ r.code = e.code
        /\ r.todo = e.todo /\ r.out = e.out /\ r.user = e.user /\ r.shown = e.shown
    BY <1>2 DEF ShareCommand
  <2> HIDE DEF r
  <2>4. CommandOK(r)
    BY <1>2, <2>3 DEF CommandOK, Carried, Share!AclDone
  <2> QED BY <1>1, <1>2, <1>4, <2>2, <2>3, <2>4, QuietMove, MoveKeeps DEF Share!Now
<1> QED BY <1>1, <1>3, <1>4

LEMMA ClientKeeps ==
    ASSUME ShareInv, NEW s \in Paths, Share!DeviceUp(s) \/ Share!ClientDies(s)
    PROVE  ShareInv'
<1>1. /\ sess[s] \in ShareSession /\ sess[s] # None /\ UNCHANGED <<cmd, ever>>
      /\ \/ sess' = [sess EXCEPT ![s] = [sess[s] EXCEPT !.device = s]]
         \/ sess' = [sess EXCEPT ![s] = [sess[s] EXCEPT !.alive = FALSE]]
  BY DEF Share!DeviceUp, Share!ClientDies, Share!live, ShareInv, SessionsOK
<1>2. PICK r \in ShareSession : r.acl = sess[s].acl /\ sess' = [sess EXCEPT ![s] = r]
  BY <1>1 DEF ShareSession
<1>3. sess \in [Paths -> ShareSession \cup {None}] /\ sess[s].acl.acl \subseteq ever[s]
  BY <1>1 DEF ShareInv, SessionsOK
<1>4. sess'[s] = r /\ \A p \in Paths \ {s} : sess'[p] = sess[p]
  BY <1>2, <1>3
<1>5. sess' \in [Paths -> ShareSession \cup {None}]
  BY <1>2, <1>3
<1>6. SessionsOK'
  BY <1>1, <1>2, <1>3, <1>4, <1>5 DEF ShareInv, SessionsOK
<1> QED BY <1>1, <1>6 DEF ShareInv, MaySee

LEMMA ShareStart == ASSUME Share!Init PROVE ShareInv
<1>1. SessionsOK
  <2>1. PICK name \in [Paths -> Names] : sess = [s \in Paths |-> Share!Session(name[s])]
    BY DEF Share!Init
  <2>2. \A s \in Paths : Share!Session(name[s]) \in ShareSession /\ Share!Session(name[s]).acl.acl = {}
    BY DEF Share!Session, ShareSession, ShareACL, Share!ACL!Create
  <2> QED BY <2>1, <2>2 DEF SessionsOK, Share!Init
<1>2. PICK uid \in [Fronts -> People], line \in [Fronts -> Lines] :
        cmd = [f \in Fronts |-> Share!Command(uid[f], line[f])]
  BY DEF Share!Init
<1>3. ASSUME NEW f \in Fronts
      PROVE  cmd[f] \in ShareCommand /\ CommandOK(cmd[f]) /\ cmd[f].shown = {}
  <2> DEFINE c == Share!Command(uid[f], line[f])
  <2>1. <<>> \in Seq(Ops) /\ <<>> \in Seq(Ops \cup ColumnNames)
    OBVIOUS
  <2>2. c \in ShareCommand
    BY <2>1 DEF Share!Command, ShareCommand
  <2>3. c.stage = "start" /\ c.ops = <<>> /\ c.done = {} /\ c.waived = {} /\ c.out = "none" /\ c.shown = {}
    BY DEF Share!Command
  <2> HIDE DEF c
  <2>4. CommandOK(c)
    BY <2>3 DEF CommandOK
  <2> QED BY <1>2, <2>2, <2>3, <2>4 DEF c
<1>4. cmd \in [Fronts -> ShareCommand]
  BY <1>2, <1>3
<1> QED BY <1>1, <1>3, <1>4 DEF ShareInv

-----------------------------------------------------------------------------
(* What session-acl has done took effect *)

TookEffect(o, s, granted) ==
    /\ s \in Paths
    /\ o[1] = "grant" => o[2] \in granted[s]
    /\ o = <<"public", TRUE>> => People \subseteq granted[s]

TookInv == \A f \in Fronts : \A o \in cmd[f].done : TookEffect(o, cmd[f].path, ever)

(* A call that is answered. *)
LEMMA CallTakes ==
    ASSUME SessionsOK, NEW s, NEW uid, NEW o \in Ops, Share!Call(s, uid, o), Share!Answers(s, uid, o)
    PROVE  TookEffect(o, s, ever')
<1> DEFINE new == Share!Effect(sess[s], o)
<1>1. s \in Share!live /\ ~Share!Closed(s, uid, o)
  BY DEF Share!Answers
<1>2. s \in Paths /\ sess[s] \in ShareSession /\ sess[s] # None
  BY <1>1 DEF Share!live, SessionsOK
<1>3. new \in ShareSession
  BY <1>2, EffectKeeps
<1>4. sess'[s] = new
  BY <1>1, <1>2 DEF Share!Call, SessionsOK
<1>5. o[1] = "grant" => o[2] \in new.acl.acl
  <2> SUFFICES ASSUME o[1] = "grant" PROVE o[2] \in new.acl.acl
    OBVIOUS
  <2>1. new.acl = Share!ACL!GrantAccess(sess[s].acl, o[2])
    BY <1>2 DEF Share!Effect, ShareSession
  <2> QED BY <1>2, <2>1 DEF ShareSession, ShareACL, Share!ACL!GrantAccess
<1>7. o = <<"public", TRUE>> => new.acl.public = TRUE
  <2> SUFFICES ASSUME o = <<"public", TRUE>> PROVE new.acl.public = TRUE
    OBVIOUS
  <2>1. o[1] = "public" /\ o[2] = TRUE
    OBVIOUS
  <2>2. new.acl = Share!ACL!SetPublicAccess(sess[s].acl, o[2])
    BY <1>2, <2>1 DEF Share!Effect, ShareSession
  <2>3. new.acl.public = o[2]
    BY <1>2, <2>2 DEF ShareSession, ShareACL, Share!ACL!SetPublicAccess
  <2> QED BY <2>1, <2>3
<1> HIDE DEF new
<1>6. ever'[s] = ever[s] \cup Share!Sharers(new)
  BY <1>1, <1>2, <1>4 DEF Share!Call, SessionsOK
<1> QED BY <1>2, <1>5, <1>6, <1>7 DEF TookEffect, Share!Sharers

(* Nobody loses the access that was given. *)
LEMMA EverGrows ==
    ASSUME ShareInv, Share!Next
    PROVE  \A p \in Paths : ever[p] \subseteq ever'[p]
<1>1. ASSUME Share!Quietly PROVE \A p \in Paths : ever[p] \subseteq ever'[p]
  BY <1>1 DEF Share!Quietly
<1>2. ASSUME NEW f \in Fronts, Share!Operation(f) PROVE \A p \in Paths : ever[p] \subseteq ever'[p]
  <2>1. cmd[f] \in ShareCommand /\ CommandOK(cmd[f]) /\ cmd[f].stage = "run" /\ cmd[f].todo # <<>>
    BY <1>2, CommandType DEF Share!Operation, Share!Running
  <2>2. Head(cmd[f].todo) \in Ops
    BY <2>1, NextCarried
  <2>3. Share!Call(cmd[f].path, cmd[f].user, Head(cmd[f].todo)) /\ SessionsOK
    BY <1>2 DEF Share!Operation, ShareInv
  <2> QED BY <2>2, <2>3, CallKeeps
<1>3. ASSUME NEW f \in Fronts, Share!ReadColumn(f) PROVE \A p \in Paths : ever[p] \subseteq ever'[p]
  <2> DEFINE o == <<"get", Head(cmd[f].todo)>>
  <2>1. PICK s : Share!Call(s, cmd[f].user, o) /\ SessionsOK
    BY <1>3 DEF Share!ReadColumn, ShareInv
  <2>2. o[1] = "get"
    OBVIOUS
  <2> QED BY <2>1, <2>2, CallKeeps
<1>4. ASSUME NEW s \in Paths, Share!DeviceUp(s) \/ Share!ClientDies(s) PROVE UNCHANGED ever
  BY <1>4 DEF Share!DeviceUp, Share!ClientDies
<1> QED BY <1>1, <1>2, <1>3, <1>4 DEF Share!Next, Share!Step, Share!LookupConfigName, Share!LookupInterface,
             Share!Retrieve, Share!CheckSessionExists, Share!BadArgument, Share!Finish,
             Share!FetchAvailableSessionPaths, Share!ListEnds, Share!FetchManagedInterfaces

(* What a step adds to what a process has done. *)
LEMMA NewlyDone ==
    ASSUME ShareInv, NEW f \in Fronts, Share!Step(f), NEW o \in cmd'[f].done
    PROVE  \/ o \in cmd[f].done /\ cmd'[f].path = cmd[f].path
           \/ TookEffect(o, cmd'[f].path, ever')
<1> DEFINE c == cmd[f]
<1>1. cmd \in [Fronts -> ShareCommand] /\ c \in ShareCommand /\ CommandOK(c)
  BY CommandType DEF ShareInv
<1>2. ASSUME NEW r, Share!Now(f, r) PROVE cmd'[f] = r
  BY <1>1, <1>2 DEF Share!Now
<1>0. ASSUME NEW out PROVE Share!Ended(c, out).done = c.done /\ Share!Ended(c, out).path = c.path
  BY <1>1 DEF Share!Ended, ShareCommand
<1>3. CASE Share!LookupConfigName(f) \/ Share!LookupInterface(f) \/ Share!Retrieve(f)
  <2>1. c.done = {}
    BY <1>1, <1>3 DEF Share!LookupConfigName, Share!LookupInterface, Share!Retrieve, Share!Running, CommandOK
  <2>2. PICK r : Share!Now(f, r) /\ (r = Share!Ended(c, "error") \/ \E x : r = Share!Opened(c, x))
    BY <1>3 DEF Share!LookupConfigName, Share!LookupInterface, Share!Retrieve, Share!Single
  <2>3. r.done = c.done
    BY <1>0, <1>1, <2>2 DEF Share!Opened, ShareCommand
  <2> QED BY <1>2, <2>1, <2>2, <2>3
<1>4. CASE Share!CheckSessionExists(f)
  <2>1. c.done = {}
    BY <1>1, <1>4 DEF Share!CheckSessionExists, Share!Running, CommandOK
  <2>2. PICK r : Share!Now(f, r) /\ (r = Share!Ended(c, "error")
                   \/ \E ops : r = [c EXCEPT !.stage = "run", !.ops = ops, !.todo = ops])
    BY <1>4 DEF Share!CheckSessionExists
  <2>3. r.done = c.done
    BY <1>0, <1>1, <2>2 DEF ShareCommand
  <2> QED BY <1>2, <2>1, <2>2, <2>3
<1>8. CASE Share!FetchAvailableSessionPaths(f)
  <2>1. c.done = {}
    BY <1>1, <1>8 DEF Share!FetchAvailableSessionPaths, Share!Running, CommandOK
  <2>2. PICK p, q : Share!Now(f, [c EXCEPT !.stage = "list", !.list = p, !.left = p, !.todo = q])
    BY <1>8 DEF Share!FetchAvailableSessionPaths
  <2>3. [c EXCEPT !.stage = "list", !.list = p, !.left = p, !.todo = q].done = c.done
    BY <1>1 DEF ShareCommand
  <2> QED BY <1>2, <2>1, <2>2, <2>3
<1>5. CASE Share!BadArgument(f)
  <2>1. PICK q, w, k : Share!Now(f, [c EXCEPT !.todo = q, !.waived = w, !.code = k])
    BY <1>5 DEF Share!BadArgument
  <2> DEFINE r == [c EXCEPT !.todo = q, !.waived = w, !.code = k]
  <2>2. r.done = c.done /\ r.path = c.path
    BY <1>1 DEF ShareCommand
  <2> QED BY <1>2, <2>1, <2>2
<1>9. CASE Share!Finish(f) \/ Share!ListEnds(f)
  <2>1. PICK out : Share!Now(f, Share!Ended(c, out))
    BY <1>9 DEF Share!Finish, Share!ListEnds
  <2> QED BY <1>0, <1>2, <2>1
<1>6. CASE Share!ReadColumn(f)
  <2> DEFINE s == CHOOSE p \in c.left : TRUE
             shown == IF Share!GetProperty(s, c.user, Head(c.todo)) THEN c.shown \cup {s} ELSE c.shown
             left == IF Len(c.todo) = 1 THEN c.left \ {s} ELSE c.left
             todo == IF Len(c.todo) > 1 THEN Tail(c.todo)
                     ELSE IF c.line.by = "list" THEN Share!Columns ELSE c.todo
             r == [c EXCEPT !.shown = shown, !.left = left, !.todo = todo]
  <2>1. Share!Now(f, Share!Ended(c, "error")) \/ Share!Now(f, r)
    BY <1>6 DEF Share!ReadColumn
  <2> HIDE DEF shown, left, todo
  <2>2. r.done = c.done /\ r.path = c.path
    BY <1>1 DEF ShareCommand
  <2> HIDE DEF r
  <2> QED BY <1>0, <1>2, <2>1, <2>2
<1>10. CASE Share!FetchManagedInterfaces(f)
  <2>1. PICK q : Share!Now(f, [Share!Ended(c, "ok") EXCEPT !.list = q])
    BY <1>10 DEF Share!FetchManagedInterfaces
  <2> DEFINE r == [Share!Ended(c, "ok") EXCEPT !.list = q]
  <2>2. r.done = c.done /\ r.path = c.path
    BY <1>1 DEF ShareCommand, Share!Ended
  <2> QED BY <1>2, <2>1, <2>2
<1>7. CASE Share!Operation(f)
  <2> DEFINE x == Head(c.todo)
             answers == Share!Answers(c.path, c.user, x)
  <2>1. /\ c.stage = "run" /\ c.todo # <<>> /\ Share!Call(c.path, c.user, x) /\ SessionsOK
        /\ Share!Now(f, IF answers
              THEN [c EXCEPT !.done = c.done \cup {x}, !.ops = c.ops \o Share!ThenShow(c.path, x),
                             !.todo = Tail(c.todo) \o Share!ThenShow(c.path, x),
                             !.shown = IF x[1] = "get" THEN c.shown \cup {c.path} ELSE c.shown]
              ELSE IF Share!Tolerated(x)
                   THEN [c EXCEPT !.todo = Tail(c.todo), !.waived = c.waived \cup {x}, !.code = 3]
              ELSE Share!Ended(c, "error"))
    BY <1>7 DEF Share!Operation, Share!Running, ShareInv
  <2>2. x \in Ops
    BY <1>1, <2>1, NextCarried
  <2>3. answers => TookEffect(x, c.path, ever')
    BY <2>1, <2>2, CallTakes
  <2> HIDE DEF answers, x
  <2>4. cmd'[f].path = c.path /\ cmd'[f].done = IF answers THEN c.done \cup {x} ELSE c.done
    BY <1>1, <2>1 DEF Share!Now, Share!Ended, ShareCommand
  <2> QED BY <2>3, <2>4
<1> QED BY <1>3, <1>4, <1>5, <1>6, <1>7, <1>8, <1>9, <1>10 DEF Share!Step

LEMMA TookKept == ShareInv /\ TookInv /\ [Share!Next]_Share!vars => TookInv'
<1> SUFFICES ASSUME ShareInv, TookInv, [Share!Next]_Share!vars PROVE TookInv'
  OBVIOUS
<1>1. CASE UNCHANGED Share!vars
  BY <1>1 DEF Share!vars, TookInv, TookEffect
<1>2. CASE Share!Next
  <2> SUFFICES ASSUME NEW g \in Fronts, NEW o \in cmd'[g].done PROVE TookEffect(o, cmd'[g].path, ever')
    BY DEF TookInv, TookEffect
  <2>1. \A p \in Paths : ever[p] \subseteq ever'[p]
    BY <1>2, EverGrows
  <2>2. ASSUME o \in cmd[g].done, cmd'[g].path = cmd[g].path PROVE TookEffect(o, cmd'[g].path, ever')
    <3>1. TookEffect(o, cmd[g].path, ever)
      BY <2>2 DEF TookInv
    <3> QED BY <2>1, <2>2, <3>1 DEF TookEffect
  <2>3. ASSUME NEW f \in Fronts, Share!Step(f), g # f PROVE cmd'[g] = cmd[g]
    <3>1. \E r : Share!Now(f, r)
      BY <2>3 DEF Share!Step, Share!LookupConfigName, Share!LookupInterface, Share!Retrieve,
              Share!CheckSessionExists, Share!Operation, Share!BadArgument, Share!Finish,
              Share!FetchAvailableSessionPaths, Share!ReadColumn, Share!ListEnds, Share!FetchManagedInterfaces
    <3> QED BY <2>3, <3>1 DEF Share!Now, ShareInv
  <2>4. ASSUME NEW s \in Paths, Share!DeviceUp(s) \/ Share!ClientDies(s) PROVE UNCHANGED cmd
    BY <2>4 DEF Share!DeviceUp, Share!ClientDies
  <2>5. ASSUME NEW f \in Fronts, Share!Step(f) PROVE TookEffect(o, cmd'[g].path, ever')
    <3>1. CASE g = f
      BY <2>2, <2>5, <3>1, NewlyDone
    <3>2. CASE g # f
      BY <2>2, <2>3, <2>5, <3>2
    <3> QED BY <3>1, <3>2
  <2> QED BY <1>2, <2>2, <2>4, <2>5 DEF Share!Next
<1> QED BY <1>1, <1>2

(* session-acl tells what it has done, and that took effect on the session;  *)
(* the properties of a session are shown to its owner, to root and the       *)
(* openvpn user and to users that have been given access, for any users,     *)
(* sessions, processes and command lines, whenever the VPN clients die       *)
(* (cmd_session_acl, Session::Authorize).                                    *)
THEOREM SharedAsAskedHolds == Share!Spec => []SharedAsAsked
<1>1. Share!Init => ShareInv
  BY ShareStart
<1>2. ShareInv /\ [Share!Next]_Share!vars => ShareInv'
  <2> SUFFICES ASSUME ShareInv, [Share!Next]_Share!vars PROVE ShareInv'
    OBVIOUS
  <2>1. CASE UNCHANGED Share!vars
    BY <2>1 DEF Share!vars, ShareInv, SessionsOK, MaySee
  <2>2. ASSUME NEW f \in Fronts, Share!Step(f) PROVE ShareInv'
    BY <2>2, LinesAssumption, LookupKeeps, OpenKeeps, OperationKeeps, BadArgumentKeeps, FinishKeeps, FetchKeeps,
       ReadColumnKeeps, ListEndsKeeps DEF Share!Step
  <2> QED BY <2>1, <2>2, ClientKeeps DEF Share!Next
<1>3. ShareInv /\ TookInv => SharedAsAsked
  <2> SUFFICES ASSUME ShareInv, TookInv, NEW f \in Fronts
               PROVE  /\ Share!AclDone(cmd[f])
                      /\ \A o \in cmd[f].done : Share!Took(o, cmd[f].path)
                      /\ \A s \in cmd[f].shown : cmd[f].user \in {Owner, Root, OpenVPN} \cup ever[s]
    BY DEF SharedAsAsked, Share!SharedAsAsked
  <2>1. CommandOK(cmd[f]) /\ cmd[f] \in ShareCommand
    BY DEF ShareInv
  <2>2. cmd[f].stage # "end" => cmd[f].out = "none"
    BY <2>1 DEF CommandOK, ShareCommand
  <2>3. Share!AclDone(cmd[f])
    BY <2>1, <2>2 DEF CommandOK, Share!AclDone
  <2>4. \A o \in cmd[f].done : Share!Took(o, cmd[f].path)
    BY DEF TookInv, TookEffect, Share!Took
  <2> QED BY <2>3, <2>4 DEF ShareInv, MaySee
<1>4. Share!Init => TookInv
  <2> SUFFICES ASSUME Share!Init PROVE TookInv
    OBVIOUS
  <2>1. \A f \in Fronts : cmd[f].done = {}
    BY DEF Share!Init, Share!Command
  <2> QED BY <2>1 DEF TookInv
<1>5. ShareInv /\ TookInv /\ [Share!Next]_Share!vars => TookInv'
  BY TookKept
<1> QED BY <1>1, <1>2, <1>3, <1>4, <1>5, PTL DEF Share!Spec
=============================================================================
