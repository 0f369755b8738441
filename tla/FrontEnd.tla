------------------------------ MODULE FrontEnd ------------------------------
(***************************************************************************)
(* The command line front-ends that start and manage sessions              *)
(* (src/src/ovpn3cli/commands/session/ and commands/log/) and the proxy    *)
(* they use (src/src/sessionmgr/proxy-sessionmgr.hpp): session-start,      *)
(* session-auth, session-manage and log.  Each front-end is a process that *)
(* runs one command; several may work with the same session.               *)
(*                                                                         *)
(* The session manager and the VPN client behind it are seen only through  *)
(* what their calls do to a session (module SessionManager and module      *)
(* BackendClient model them): every method is one step.  A call to a       *)
(* session that is gone fails; at most MaxFaults calls fail although the   *)
(* session is there (a D-Bus time-out).                                    *)
(***************************************************************************)
EXTENDS Naturals, Sequences, FiniteSets

CONSTANTS
    Fronts,       \* front-end processes, numbered in the order they are started in
    Sessions,     \* session paths
    Slots,        \* user input slots a session may ask for
    MaxLoops,     \* attempts of start_session(), 10 in the code
    MaxEvents,    \* bound on the events of the VPN clients
    MaxFaults     \* bound on the calls that fail

ASSUME FrontEndBounds == {MaxLoops, MaxEvents, MaxFaults} \subseteq Nat
ASSUME FrontEndSets == Fronts \subseteq Nat /\ Sessions \subseteq Nat \ {0}

VARIABLES
    sessions,   \* the sessions: their phase, last status and unanswered slots
    front,      \* the front-end processes
    inbox,      \* SessionManagerEvent signals on their way to a front-end
    events,     \* events of the VPN clients so far
    faults      \* calls that failed so far

vars == <<sessions, front, inbox, events, faults>>

(***************************************************************************)
(* "registering": the object exists and the client is being confirmed;     *)
(* "removed": it was removed while that goes on.                           *)
(***************************************************************************)
Phases == {"none", "requested", "registering", "removed", "up", "gone"}
Statuses == {"UNSET", "CFG_OK", "CFG_REQUIRE_USER", "CONN_CONNECTING", "CONN_CONNECTED",
             "CONN_PAUSED", "CONN_DISCONNECTED", "CONN_AUTH_FAILED", "CONN_FAILED",
             "SESS_AUTH_URL"}
Modes == {"START", "RESUME", "RESTART"}
Reasons == {"NONE", "DONE", "CTRL_C", "ABORTED", "ERROR"}
\* --background, --timeout or neither: the command waits for ever.
Options == {"none", "timed", "background"}
\* "late": NewTunnel() gave up waiting; "option": --dco was refused.
Results == {"none", "running", "quiet", "done", "error", "late", "option", "killed"}
CommandNames == {"none", "start", "auth", "manage", "cleanup", "log"}
InStartSession == {"ready", "begin", "poll", "details", "notready", "query", "prompt", "drop"}
Pcs == InStartSession \cup {"idle", "wait", "dco", "look", "lookup", "check", "follow", "end"}
Afters == {"none", "again", "list", "error", "done", "timeout"}
NoSession == 0

SessionState == [phase: Phases, status: Statuses, pending: SUBSET Slots]
FrontState == [cmd: CommandNames, pc: Pcs, session: Sessions \cup {NoSession}, reason: Reasons,
               mode: Modes, loops: 0..MaxLoops, opt: Options, slots: SUBSET Slots,
               list: SUBSET Sessions, after: Afters, result: Results]
Signals == {"SESS_CREATED", "SESS_DESTROYED"} \X Sessions

TypeOK ==
    /\ sessions \in [Sessions -> SessionState]
    /\ front \in [Fronts -> FrontState]
    /\ inbox \in [Fronts -> Seq(Signals)]
    /\ events \in Nat /\ faults \in Nat
    /\ \A f \in Fronts : front[f].pc = "end" <=> front[f].result # "none"

(***************************************************************************)
(* Sessions.                                                               *)
(***************************************************************************)
Exists(s) == s # NoSession /\ sessions[s].phase \in {"registering", "up"}
Broadcast(e) ==
    inbox' = [f \in Fronts |-> IF front[f].pc \in {"wait", "lookup", "check", "follow"}
                               THEN Append(inbox[f], e) ELSE inbox[f]]

\* What Disconnect leaves of a session.
Gone(s) == [sessions[s] EXCEPT !.phase = IF @ = "registering" THEN "removed" ELSE "gone",
                               !.pending = {}, !.status = "UNSET"]
RemoveSession(s) == /\ sessions' = [sessions EXCEPT ![s] = Gone(s)]
                    /\ Broadcast(<<"SESS_DESTROYED", s>>)

\* The client says it is not ready.
NotReady(s) == sessions[s].pending # {} \/ sessions[s].status = "SESS_AUTH_URL"

\* The statuses in which the VPN client drops its connection object at the
\* next call, and those in which it starts a connection when asked to.
NoClient == {"CFG_REQUIRE_USER", "CONN_DISCONNECTED", "CONN_FAILED"}
CanConnect == NoClient \cup {"UNSET", "CFG_OK"}

\* The session manager starts a client for the request, which registers; it
\* is confirmed or fails, and may also not start at all.
Register(s) ==
    /\ sessions[s].phase = "requested"
    /\ sessions' = [sessions EXCEPT ![s].phase = "registering"]
    /\ UNCHANGED <<front, inbox, events, faults>>

Confirm(s) ==
    /\ sessions[s].phase \in {"registering", "removed"}
    /\ IF sessions[s].phase = "removed"
       THEN sessions' = [sessions EXCEPT ![s].phase = "gone"]
       ELSE \E p \in {{}, Slots} :
              sessions' = [sessions EXCEPT ![s] =
                  [phase |-> "up", pending |-> p,
                   status |-> IF p = {} THEN "CFG_OK" ELSE "CFG_REQUIRE_USER"]]
    /\ Broadcast(<<"SESS_CREATED", s>>)
    /\ UNCHANGED <<front, events, faults>>

RegistrationFails(s) ==
    /\ sessions[s].phase \in {"requested", "registering", "removed"}
    /\ events < MaxEvents /\ events' = events + 1
    /\ sessions' = [sessions EXCEPT ![s].phase = "gone"]
    /\ IF sessions[s].phase = "registering"
       THEN Broadcast(<<"SESS_DESTROYED", s>>) ELSE UNCHANGED inbox
    /\ UNCHANGED <<front, faults>>

\* What may become of the status of a connection without a call.
ClientEvents(st) ==
    IF st = "CONN_CONNECTING"
    THEN {"CONN_CONNECTED", "CONN_DISCONNECTED", "CONN_AUTH_FAILED", "CONN_FAILED",
          "SESS_AUTH_URL", "CFG_REQUIRE_USER"}
    ELSE IF st = "SESS_AUTH_URL" THEN {"CONN_CONNECTED", "CONN_AUTH_FAILED", "CFG_REQUIRE_USER"}
    ELSE IF st = "CONN_CONNECTED" THEN {"CONN_DISCONNECTED", "CONN_CONNECTING"}
    ELSE {}

ClientEvent(s) ==
    /\ sessions[s].phase = "up" /\ events < MaxEvents
    /\ \E st \in ClientEvents(sessions[s].status) :
         sessions' = [sessions EXCEPT ![s].status = st,
                        ![s].pending = IF st = "CFG_REQUIRE_USER" THEN Slots ELSE @]
    /\ events' = events + 1
    /\ UNCHANGED <<front, inbox, faults>>

\* The client process ends and the session manager removes the session.
ClientDies(s) ==
    /\ sessions[s].phase = "up" /\ events < MaxEvents
    /\ events' = events + 1
    /\ RemoveSession(s)
    /\ UNCHANGED <<front, faults>>

(***************************************************************************)
(* Steps of a front-end.                                                   *)
(***************************************************************************)
Session(f) == sessions[front[f].session]
Goto(f, pc) == front' = [front EXCEPT ![f].pc = pc]
Idle == [cmd |-> "none", pc |-> "idle", session |-> NoSession, reason |-> "NONE", mode |-> "START",
         loops |-> 0, opt |-> "none", slots |-> {}, list |-> {},
         after |-> "none", result |-> "none"]

\* What matters of a process that has ended: the session it leaves after an
\* error, and why it kept quiet.
Stopped(f, result) ==
    LET orphan == front[f].cmd = "start" /\ result = "error"
    IN  [Idle EXCEPT !.pc = "end", !.result = result,
                     !.cmd = IF orphan THEN front[f].cmd ELSE "none",
                     !.session = IF orphan THEN front[f].session ELSE NoSession,
                     !.reason = IF result = "quiet" THEN front[f].reason ELSE "NONE"]
End(f, result) == /\ front' = [front EXCEPT ![f] = Stopped(f, result)]
                  /\ inbox' = [inbox EXCEPT ![f] = <<>>]

\* A method of the session is called; ok says whether the caller gets an answer.
Called(f, ok) ==
    /\ ok => Exists(front[f].session)
    /\ (~ok /\ Exists(front[f].session)) => faults < MaxFaults
    /\ faults' = IF ~ok /\ Exists(front[f].session) THEN faults + 1 ELSE faults

\* The catch clause of start_session() for any other D-Bus error.
DBusError(f) == End(f, IF front[f].reason = "ERROR" THEN "error" ELSE "quiet")

(***************************************************************************)
(* session-start: NewTunnel subscribes to SessionManagerEvent before it    *)
(* calls the session manager, and the handler of the signal waits until    *)
(* the path of the new session is known.                                   *)
(***************************************************************************)
NewTunnel(f) ==
    /\ front[f].pc = "idle"
    /\ \E s \in Sessions, opt \in Options :
         /\ sessions[s].phase = "none"
         /\ \A r \in Sessions : r < s => sessions[r].phase # "none"
         /\ sessions' = [sessions EXCEPT ![s].phase = "requested"]
         /\ front' = [front EXCEPT ![f] = [@ EXCEPT !.pc = "wait", !.cmd = "start",
                        !.session = s, !.opt = opt]]
    /\ UNCHANGED <<inbox, events, faults>>

\* The test of the signal handler.
ForThisSession(f, e) == e[1] = "SESS_CREATED" /\ e[2] = front[f].session

NewTunnelSignal(f) ==
    /\ front[f].pc = "wait" /\ inbox[f] # <<>>
    /\ inbox' = [inbox EXCEPT ![f] = IF ForThisSession(f, Head(@)) THEN <<>> ELSE Tail(@)]
    /\ front' = [front EXCEPT ![f] = IF ForThisSession(f, Head(inbox[f]))
                                     THEN [@ EXCEPT !.pc = "dco", !.loops = MaxLoops] ELSE @]
    /\ UNCHANGED <<sessions, events, faults>>

\* 15 seconds have passed; signals that were sent have arrived by then.  The
\* command ends and has no object for the session, which may still register.
NewTunnelTimeout(f) ==
    /\ front[f].pc = "wait" /\ inbox[f] = <<>>
    /\ End(f, "late")
    /\ UNCHANGED <<sessions, events, faults>>

\* --dco, if given, is set once the session exists.  Its value may be none that
\* GetBoolValue() knows, and the setter refuses when another front-end has
\* connected the session already: the command ends and leaves the session.
SetDCO(f) ==
    /\ front[f].pc = "dco"
    /\ \/ Goto(f, "ready") /\ UNCHANGED <<inbox, faults>>
       \/ End(f, "option") /\ UNCHANGED faults
       \/ \E ok \in BOOLEAN :
            /\ Called(f, ok)
            /\ IF ok THEN Goto(f, "ready") /\ UNCHANGED inbox ELSE End(f, "error")
    /\ UNCHANGED <<sessions, events>>

(***************************************************************************)
(* start_session().                                                        *)
(***************************************************************************)
\* A ReadyException; its handler gives the loop all its attempts again.
AskUser(f) == front' = [front EXCEPT ![f].pc = "notready", ![f].loops = MaxLoops]

AllTried(f) == front[f].loops = 0

Ready(f) ==
    /\ front[f].pc = "ready"
    /\ IF AllTried(f) THEN End(f, "quiet") /\ UNCHANGED faults
       ELSE \E ok \in BOOLEAN :
              /\ Called(f, ok)
              /\ IF ok
                 THEN /\ IF NotReady(front[f].session) THEN AskUser(f)
                         ELSE front' = [front EXCEPT ![f].loops = @ - 1, ![f].pc = "begin"]
                      /\ UNCHANGED inbox
                 ELSE DBusError(f)
    /\ UNCHANGED <<sessions, events>>

\* Connect, Resume or Restart of the client: whether it refuses and the status
\* it leaves.  CONN_CONNECTING stands for resuming and reconnecting too.
Refuses(s, mode) ==
    \/ mode = "START" /\ sessions[s].status \in CanConnect /\ sessions[s].pending # {}
    \/ mode = "RESUME" /\ sessions[s].status # "CONN_PAUSED"
    \/ mode = "RESTART" /\ sessions[s].status \in NoClient
Began(s, mode) ==
    IF mode = "START" /\ sessions[s].status \notin CanConnect
    THEN sessions ELSE [sessions EXCEPT ![s].status = "CONN_CONNECTING"]

Begin(f) ==
    /\ front[f].pc = "begin"
    /\ \E ok \in BOOLEAN :
         /\ Called(f, ok)
         /\ IF ~ok \/ Refuses(front[f].session, front[f].mode)
            THEN DBusError(f) /\ UNCHANGED sessions
            ELSE /\ sessions' = Began(front[f].session, front[f].mode)
                 /\ IF front[f].opt = "background" THEN End(f, "running")
                    ELSE /\ front' = [front EXCEPT ![f].pc = "poll", ![f].mode = "START"]
                         /\ UNCHANGED inbox
    /\ UNCHANGED events

\* Disconnect is called next, and what follows it.
Drop(f, after) == /\ front' = [front EXCEPT ![f].pc = "drop", ![f].after = after]
                  /\ UNCHANGED inbox

\* start_url_auth() of an address: the server may have sent an invalid one.
UrlAuth(f, opened) ==
    IF opened THEN End(f, "running")
    ELSE front' = [front EXCEPT ![f].reason = "DONE"] /\ UNCHANGED inbox

MutantOutOfTime(f) == End(f, "error") \* Mutant: gives up without Disconnect

\* The polling loop ended without a connection.
OutOfTime(f) == Drop(f, "timeout")

Poll(f) ==
    /\ front[f].pc = "poll"
    /\ \E ok \in BOOLEAN :
         /\ Called(f, ok)
         /\ LET st == IF ok THEN Session(f).status ELSE "UNSET" IN
              \/ ~ok /\ End(f, "error")
              \/ ok /\ st = "SESS_AUTH_URL" /\ \E opened \in BOOLEAN : UrlAuth(f, opened)
              \/ ok /\ st = "CONN_CONNECTED" /\ Goto(f, "details") /\ UNCHANGED inbox
              \/ ok /\ st \in {"CONN_AUTH_FAILED", "CONN_FAILED"} /\ Drop(f, "error")
              \/ ok /\ st = "CFG_REQUIRE_USER" /\ AskUser(f) /\ UNCHANGED inbox
              \/ ok /\ st = "CONN_DISCONNECTED" /\ OutOfTime(f)
              \/ ok /\ st = "CONN_DISCONNECTED" /\ front[f].opt = "timed" /\ Goto(f, "ready") /\ UNCHANGED inbox
              \/ /\ ok /\ st \in {"UNSET", "CFG_OK", "CONN_CONNECTING", "CONN_PAUSED"}
                 /\ front[f].reason \in {"CTRL_C", "ERROR"} /\ Drop(f, "error")
    /\ UNCHANGED <<sessions, events>>

\* The time given with --timeout is over when the loop is tested again.
PollTimeout(f) ==
    /\ front[f].pc = "poll" /\ front[f].opt = "timed"
    /\ OutOfTime(f)
    /\ UNCHANGED <<sessions, inbox, events, faults>>

\* GetConnectedToInfo() and GetSessionName() for the message.
Details(f) ==
    /\ front[f].pc = "details"
    /\ \E ok \in BOOLEAN : Called(f, ok) /\ IF ok THEN End(f, "running") ELSE DBusError(f)
    /\ UNCHANGED <<sessions, events>>

\* How the command ends when Disconnect has been called: with an error after a failed login
\* or an interruption, after a time-out, and if the call was all it had to do and failed.
DropFails(f, ok) ==
    \/ front[f].after = "error"
    \/ front[f].after = "done" /\ ~ok
    \/ front[f].after = "timeout" /\ (ok \/ front[f].reason = "ERROR")
DropResult(f, ok) ==
    IF DropFails(f, ok) THEN "error" ELSE IF front[f].after = "done" THEN "done" ELSE "quiet"

CallDisconnect(f) ==
    /\ front[f].pc = "drop"
    /\ \E ok \in BOOLEAN :
         /\ Called(f, ok)
         /\ \/ front[f].after = "again" /\ Goto(f, "ready")
            \/ front[f].after = "list" /\ Goto(f, "look")
            \/ /\ front[f].after \notin {"again", "list"}
               /\ front' = [front EXCEPT ![f] = Stopped(f, DropResult(f, ok))]
         /\ IF ok THEN RemoveSession(front[f].session) ELSE UNCHANGED <<sessions, inbox>>
    /\ UNCHANGED events

\* The handler of ReadyException reads the status before it asks the user.
ReadyException(f) ==
    /\ front[f].pc = "notready"
    /\ \E ok \in BOOLEAN :
         /\ Called(f, ok)
         /\ IF ~ok THEN End(f, "error")
            ELSE IF Session(f).status = "SESS_AUTH_URL" THEN End(f, "running")
            ELSE Goto(f, "query") /\ UNCHANGED inbox
    /\ UNCHANGED <<sessions, events>>

(***************************************************************************)
(* query_user_input(): the list of the slots is fetched first, then the    *)
(* user is asked for one after the other.  An earlier exit reason skips    *)
(* the questions.                                                          *)
(***************************************************************************)
QueueFetchAll(f) ==
    /\ front[f].pc = "query"
    /\ \E ok \in BOOLEAN :
         /\ Called(f, ok)
         /\ IF ok THEN front' = [front EXCEPT ![f].pc = "prompt", ![f].slots = Session(f).pending]
                       /\ UNCHANGED inbox
            ELSE \/ ~Exists(front[f].session) /\ End(f, "error")
                 \/ /\ front' = [front EXCEPT ![f] =
                            [@ EXCEPT !.reason = "ERROR", !.pc = "ready"]]
                    /\ UNCHANGED inbox
    /\ UNCHANGED <<sessions, events>>

\* The user gives a value for the next slot, or an empty line.
ProvideResponse(f) ==
    /\ front[f].pc = "prompt" /\ front[f].reason = "NONE"
    /\ \E i \in front[f].slots, ok \in BOOLEAN :
         /\ Called(f, ok)
         /\ LET s == front[f].session
                taken == ok /\ i \in sessions[s].pending
                reason == IF ~Exists(s) THEN "ABORTED" ELSE IF ~taken THEN "ERROR" ELSE "NONE"
            IN  /\ sessions' = IF taken THEN [sessions EXCEPT ![s].pending = @ \ {i}] ELSE sessions
                /\ front' = [front EXCEPT ![f].slots = @ \ {i}, ![f].reason = reason]
    /\ UNCHANGED <<inbox, events>>

EmptyInput(f) ==
    /\ front[f].pc = "prompt" /\ front[f].reason = "NONE" /\ Exists(front[f].session)
    /\ \E i \in front[f].slots : front' = [front EXCEPT ![f].slots = @ \ {i}]
    /\ UNCHANGED <<sessions, inbox, events, faults>>

AfterQuery(f) ==
    IF front[f].reason \in {"NONE", "DONE"} THEN "none"
    ELSE IF front[f].reason = "ABORTED" THEN "error" ELSE "again"

MutantQueryDone(f) == \* Mutant: a reason to stop does not end the questions
    /\ front[f].pc = "prompt" /\ front[f].slots = {}
    /\ front' = [front EXCEPT ![f] =
         [@ EXCEPT !.pc = IF front[f].reason \in {"NONE", "DONE"} THEN "ready" ELSE "drop",
                   !.after = AfterQuery(f)]]
    /\ UNCHANGED <<sessions, inbox, events, faults>>

QueryDone(f) ==
    /\ front[f].pc = "prompt" /\ (front[f].slots = {} \/ front[f].reason # "NONE")
    /\ front' = [front EXCEPT ![f] =
         [@ EXCEPT !.slots = {},
                   !.pc = IF front[f].reason \in {"NONE", "DONE"} THEN "ready" ELSE "drop",
                   !.after = AfterQuery(f)]]
    /\ UNCHANGED <<sessions, inbox, events, faults>>

\* Ctrl-C; the handler is installed when start_session() begins.
sigint_handler(f) ==
    /\ front[f].pc \in InStartSession /\ front[f].after \notin {"done", "list"}
    /\ front[f].reason # "CTRL_C"
    /\ front' = [front EXCEPT ![f].reason = "CTRL_C"]
    /\ UNCHANGED <<sessions, inbox, events, faults>>

\* The process is killed, or gets the Ctrl-C before the handler is installed.
Killed(f) ==
    /\ front[f].pc \notin {"idle", "end"}
    /\ End(f, "killed")
    /\ UNCHANGED <<sessions, events, faults>>

(***************************************************************************)
(* session-auth and session-manage.  The session is one that was looked up *)
(* earlier, by path, name or interface: it may be gone by now.             *)
(***************************************************************************)
Found(s) == sessions[s].phase \in {"up", "gone"}
StartSession(f, cmd, s, opt, mode) ==
    front' = [front EXCEPT ![f] = [@ EXCEPT !.cmd = cmd, !.session = s, !.opt = opt,
                                   !.pc = "ready", !.mode = mode, !.loops = MaxLoops]]

\* session-auth reads the status and continues with start_session().
AuthComplete(f) ==
    /\ front[f].pc = "idle"
    /\ \E s \in Sessions :
         /\ Found(s)
         /\ IF Exists(s) /\ sessions[s].status = "CFG_REQUIRE_USER"
            THEN StartSession(f, "auth", s, "none", "START") /\ UNCHANGED inbox
            ELSE End(f, IF Exists(s) THEN "done" ELSE "error")
    /\ UNCHANGED <<sessions, events, faults>>

\* --resume and --restart wait for the connection only if a --timeout is given.
ManageStart(f) ==
    /\ front[f].pc = "idle"
    /\ \E s \in Sessions, opt \in {"timed", "background"}, mode \in {"RESUME", "RESTART"} :
         /\ Found(s)
         /\ IF Exists(s) THEN StartSession(f, "manage", s, opt, mode) /\ UNCHANGED inbox
            ELSE End(f, "error")
    /\ UNCHANGED <<sessions, events, faults>>

ManagePause(f) ==
    /\ front[f].pc = "idle"
    /\ \E s \in Sessions :
         LET pauses == Exists(s) /\ sessions[s].status \notin NoClient \cup {"CONN_PAUSED"} IN
         /\ Found(s)
         /\ sessions' = IF pauses THEN [sessions EXCEPT ![s].status = "CONN_PAUSED"] ELSE sessions
         /\ End(f, IF pauses THEN "done" ELSE "error")
    /\ UNCHANGED <<events, faults>>

ManageDisconnect(f) ==
    /\ front[f].pc = "idle"
    /\ \E s \in Sessions :
         /\ Found(s)
         /\ IF Exists(s) THEN front' = [front EXCEPT ![f] =
                 [@ EXCEPT !.pc = "drop", !.cmd = "manage", !.session = s, !.after = "done"]]
                 /\ UNCHANGED inbox
            ELSE End(f, "error")
    /\ UNCHANGED <<sessions, events, faults>>

\* session-manage --cleanup: the sessions are listed and looked at one after
\* the other; one is dropped when its status is unset or cannot be read.
CleanupList(f) ==
    /\ front[f].pc = "idle"
    /\ front' = [front EXCEPT ![f] = [@ EXCEPT !.pc = "look", !.cmd = "cleanup",
                                     !.list = {s \in Sessions : Exists(s)}]]
    /\ UNCHANGED <<sessions, inbox, events, faults>>

CleanupCheck(f) ==
    /\ front[f].pc = "look" /\ front[f].cmd = "cleanup" /\ front[f].list # {}
    /\ \E s \in front[f].list, ok \in BOOLEAN :
         LET stale == ~ok \/ sessions[s].status = "UNSET" IN
         /\ ok => Exists(s)
         /\ (~ok /\ Exists(s)) => faults < MaxFaults
         /\ faults' = IF ~ok /\ Exists(s) THEN faults + 1 ELSE faults
         /\ front' = [front EXCEPT ![f] =
              IF stale THEN [@ EXCEPT !.list = front[f].list \ {s}, !.session = s,
                                      !.pc = "drop", !.after = "list"]
              ELSE [@ EXCEPT !.list = front[f].list \ {s}]]
    /\ UNCHANGED <<sessions, inbox, events>>

CleanupDone(f) ==
    /\ front[f].pc = "look" /\ front[f].cmd = "cleanup" /\ front[f].list = {}
    /\ End(f, "done")
    /\ UNCHANGED <<sessions, events, faults>>

(***************************************************************************)
(* log: attaches to the session of a configuration name, waits for one if  *)
(* there is none, gives up if there are several, and ends when the session *)
(* is closed.  All the sessions use the profile of that name.              *)
(***************************************************************************)
LogCommand(f) ==
    /\ front[f].pc = "idle"
    /\ front' = [front EXCEPT ![f].pc = "lookup", ![f].cmd = "log"]
    /\ UNCHANGED <<sessions, inbox, events, faults>>

lookup_config_name(f) ==
    /\ front[f].pc = "lookup"
    /\ LET paths == {s \in Sessions : sessions[s].phase = "up"} IN
         \/ Cardinality(paths) > 1 /\ End(f, "error")
         \/ /\ Cardinality(paths) = 1
            /\ front' = [front EXCEPT ![f].session = CHOOSE s \in paths : TRUE, ![f].pc = "check"]
            /\ UNCHANGED inbox
         \/ paths = {} /\ Goto(f, "follow") /\ UNCHANGED inbox
    /\ UNCHANGED <<sessions, events, faults>>

setup_session_logger(f) ==
    /\ front[f].pc = "check"
    /\ \E ok \in BOOLEAN : /\ Called(f, ok)
                           /\ IF ok THEN Goto(f, "follow") /\ UNCHANGED inbox
                              ELSE End(f, "error")
    /\ UNCHANGED <<sessions, events>>

\* The event is about another session than the one that is followed.
OtherSession(f, s) == s # front[f].session

sessionmgr_event(f) ==
    /\ front[f].pc = "follow" /\ inbox[f] # <<>>
    /\ LET e == Head(inbox[f]) IN
         IF e[1] = "SESS_DESTROYED" /\ ~OtherSession(f, e[2]) THEN End(f, "done")
         ELSE /\ IF e[1] = "SESS_CREATED" /\ front[f].session = NoSession
                 THEN Goto(f, "lookup") ELSE UNCHANGED front
              /\ inbox' = [inbox EXCEPT ![f] = Tail(@)]
    /\ UNCHANGED <<sessions, events, faults>>

-----------------------------------------------------------------------------
Init ==
    /\ sessions = [s \in Sessions |-> [phase |-> "none", status |-> "UNSET", pending |-> {}]]
    /\ front = [f \in Fronts |-> Idle]
    /\ inbox = [f \in Fronts |-> <<>>]
    /\ events = 0 /\ faults = 0

Commands(f) ==
    /\ \A g \in Fronts : g < f => front[g].pc # "idle"
    /\ \/ NewTunnel(f) \/ LogCommand(f) \/ AuthComplete(f)
       \/ ManageStart(f) \/ ManagePause(f) \/ ManageDisconnect(f) \/ CleanupList(f)

\* What the program of a front-end does by itself once it runs.
Step(f) ==
    \/ NewTunnelSignal(f) \/ NewTunnelTimeout(f) \/ SetDCO(f)
    \/ Ready(f) \/ Begin(f) \/ Poll(f) \/ PollTimeout(f) \/ Details(f) \/ CallDisconnect(f)
    \/ ReadyException(f) \/ QueueFetchAll(f) \/ QueryDone(f)
    \/ CleanupCheck(f) \/ CleanupDone(f)
    \/ lookup_config_name(f) \/ setup_session_logger(f) \/ sessionmgr_event(f)

User(f) == ProvideResponse(f) \/ EmptyInput(f) \/ sigint_handler(f) \/ Killed(f)

Backend(s) == Register(s) \/ Confirm(s) \/ RegistrationFails(s) \/ ClientEvent(s) \/ ClientDies(s)

Next == \/ \E s \in Sessions : Backend(s)
        \/ \E f \in Fronts : Commands(f) \/ Step(f) \/ User(f)

Spec == Init /\ [][Next]_vars

\* A front-end that can go on without an error does so; the user, the client
\* and the calls that fail are not obliged to anything.
Fairness == \A f \in Fronts : WF_vars(Step(f) /\ faults' = faults)

-----------------------------------------------------------------------------
(* session-start works with its session only once the session manager has  *)
(* confirmed the client: other sessions that are created meanwhile do not  *)
(* make NewTunnel() return.  And NewTunnel() does not miss the signal: it  *)
(* never gives up on a session that is there.                              *)
StartedAfterCreated(f) ==
    /\ front[f].pc \in InStartSession \cup {"dco"} => sessions[front[f].session].phase \in {"up", "gone"}
    /\ front[f].pc = "wait" /\ sessions[front[f].session].phase = "up" =>
          \E i \in DOMAIN inbox[f] : ForThisSession(f, inbox[f][i])

(***************************************************************************)
(* NO ORPHAN: when session-start ends with an error after NewTunnel(), its *)
(* session is gone, whatever the other front-ends did, unless a call       *)
(* failed: no connection is left of which the user was told that it could  *)
(* not be made; and until then it works with a confirmed session only, one *)
(* it has not missed.  Two errors are not covered, for the code leaves the *)
(* session: a --dco that is refused, and the end of the wait in NewTunnel()*)
(* for a client that registers later.                                      *)
(***************************************************************************)
NoOrphan ==
    \A f \in Fronts : front[f].cmd = "start" =>
        /\ StartedAfterCreated(f)
        /\ front[f].result = "error" /\ faults = 0 => sessions[front[f].session].phase = "gone"

(***************************************************************************)
(* A command with a reason to end does end, when no more than finitely     *)
(* many calls fail: start_session() after a Ctrl-C, also when a Disconnect *)
(* fails on its way, and log when the session it follows is closed.        *)
(* (start_session() tries for ever if Disconnect always fails.)  The       *)
(* exception is a web authentication address that could not be used, which *)
(* overwrites the reason with DONE.                                        *)
(***************************************************************************)
CommandEnds ==
    \A f \in Fronts :
        (\/ front[f].reason = "CTRL_C"
         \/ front[f].pc = "follow" /\ front[f].session # NoSession /\ ~Exists(front[f].session))
        ~> (front[f].pc = "end" \/ front[f].reason = "DONE")

=============================================================================
