-------------------------- MODULE RestartBackoff --------------------------
(***************************************************************************)
(* The restart timer of one session: how the session manager spaces and    *)
(* limits the restarts of a VPN client process that keeps disappearing     *)
(* (the NameDisappeared handler of src/src/sessionmgr/tunnel-queue.cpp).   *)
(*                                                                         *)
(* The operators are used by SessionManager; the actions follow one        *)
(* session through any sequence of crashes, with the wall clock, and are   *)
(* composed with the client process in RestartedClient.                    *)
(***************************************************************************)
EXTENDS Naturals

CONSTANTS
    MaxRetries,   \* the limit on `retries' (10 in the code)
    Uptimes,      \* how long, in seconds, a process may live from its start to its crash
    MaxRuns       \* bound on the number of processes followed

ASSUME MaxRetriesAssumption == MaxRetries \in Nat \ {0}
ASSUME UptimesAssumption == Uptimes \subseteq Nat
ASSUME MaxRunsAssumption == MaxRuns \in Nat

VARIABLES
    timer,      \* the entry of the session in restart_timers
    last,       \* Session::GetLastEvent(): is it CONN_CONNECTED?
    alive,      \* is there a running client process?
    armings,    \* restarts since `retries' was last set to 1
    runs        \* number of client processes so far

vars == <<timer, last, alive, armings, runs>>

(***************************************************************************)
(* An entry of restart_timers: the retry counter and whether the timer     *)
(* waits.  No entry is retries = 0.                                        *)
(***************************************************************************)
NoEntry == [retries |-> 0, armed |-> FALSE]

Delay(retries) == LET d == 3 * 2^(retries - 1) IN IF d < 768 THEN d ELSE 768

\* The delay the timer was last armed with: arming it increments the counter.
Waited(t) == IF t.retries < 2 THEN 0 ELSE Delay(t.retries - 1)

Entry(t) == IF t.retries = 0 THEN [t EXCEPT !.retries = 1] ELSE t

\* last_triggered is 0 in a new entry, so more than 90 s have always passed.
LongAgo(t, elapsed) == t.retries = 0 \/ elapsed > 90

Reset(t, wasConnected, longAgo) ==
    IF wasConnected /\ longAgo THEN [Entry(t) EXCEPT !.retries = 1] ELSE Entry(t)

\* Mutant of the limit: one restart too many.
GivesUpLate(t) == t.retries > MaxRetries + 1

GivesUp(t) == t.retries > MaxRetries

\* When it gives up, the timer is left as it is.
Arm(t) ==
    IF GivesUp(t) THEN t
    ELSE [retries |-> t.retries + 1, armed |-> TRUE]

Disappeared(t, wasConnected, longAgo) == Arm(Reset(t, wasConnected, longAgo))

Fired(t) == [t EXCEPT !.armed = FALSE]

(***************************************************************************)
(* One session.                                                            *)
(***************************************************************************)
Init ==
    /\ timer = NoEntry
    /\ last = FALSE
    /\ alive = TRUE
    /\ armings = 0
    /\ runs = 1

\* A StatusChange signal of the running process reaches the session object.
StatusChange(isConnected) ==
    /\ alive
    /\ last' = isConnected
    /\ UNCHANGED <<timer, alive, armings, runs>>

\* The process disappears: last_triggered is the time of the previous crash, so the
\* delay of the restart and the life of the process lie in between.
Crash(uptime) ==
    /\ alive
    /\ alive' = FALSE
    /\ LET r == Reset(timer, last, LongAgo(timer, Waited(timer) + uptime)) IN
       /\ timer' = Arm(r)
       /\ armings' = (IF r.retries = 1 THEN 0 ELSE armings) + (IF GivesUp(r) THEN 0 ELSE 1)
    /\ UNCHANGED <<last, runs>>

\* The timer fires and the new process registers with the existing session object, whose
\* last event stays what the previous process reported.
Restart ==
    /\ timer.armed
    /\ runs < MaxRuns
    /\ timer' = Fired(timer)
    /\ alive' = TRUE
    /\ runs' = runs + 1
    /\ UNCHANGED <<last, armings>>

(***************************************************************************)
(* Properties.                                                             *)
(***************************************************************************)
\* Between two resets of the retry counter at most MaxRetries restarts are started, and
\* exactly one fewer than the counter says (NameDisappeared handler).
BoundedRestarts ==
    /\ armings <= MaxRetries
    /\ timer.retries > 0 => timer.retries = armings + 1

=============================================================================
