------------------------ MODULE BackendClientProofs ------------------------
(***************************************************************************)
(* Proofs about a VPN client process, for any number of worker threads,    *)
(* any profiles and any bounds: it never has two connections at a time,    *)
(* its connection can be reached and the end of it is reported, it starts  *)
(* with all the answers it asked for, and Ready means that it will start.  *)
(***************************************************************************)
EXTENDS BackendClient, WellFoundedInduction, TLAPS

\* The connection that exists is the one the client thread was started for.
LiveIsThread == \A c \in Clients : Live(c) => client_thread = c

ObjectsOK == obj \in [Clients -> CoreVPNClient]

ThreadInv == ObjectsOK /\ LiveIsThread

\* A step that leaves client_thread alone and makes no connection live keeps the invariant.
OnlyEnds == client_thread' = client_thread /\ (\A c \in Clients : Live(c)' => Live(c))

LEMMA OnlyEndsKeeps ==
    ASSUME ThreadInv, ObjectsOK', OnlyEnds
    PROVE  ThreadInv'
BY DEF ThreadInv, LiveIsThread, OnlyEnds

\* What is left of an object by an update of one of its members.
LEMMA UpdateClient ==
    ASSUME ObjectsOK, NEW c, NEW r \in CoreVPNClient, obj' = [obj EXCEPT ![c] = r],
           c \in Clients => (r.core \in {"starting", "running", "ending", "failed", "returned"} => Live(c)),
           client_thread' = client_thread
    PROVE  ObjectsOK' /\ OnlyEnds
BY DEF ObjectsOK, OnlyEnds, Live

LEMMA SameClient ==
    ASSUME ObjectsOK, obj' = obj, client_thread' = client_thread
    PROVE  ObjectsOK' /\ OnlyEnds
BY DEF ObjectsOK, OnlyEnds, Live

(* Init and every step keep the invariant: only StartThread makes an object *)
(* live, and it does so after it has joined the thread of the old one.      *)
LEMMA InitThreadInv == Init => ThreadInv
BY DEF Init, ThreadInv, ObjectsOK, LiveIsThread, Live, NewClient, CoreVPNClient, RunStatus, Core

LEMMA StartKeeps ==
    ASSUME ThreadInv, NEW k \in Callers, StartThread(k)
    PROVE  ThreadInv'
<1>1. obj' = [obj EXCEPT ![vpnclient].core = "starting"] /\ client_thread' = vpnclient
    BY DEF StartThread
<1>2. ObjectsOK'
    BY <1>1 DEF ThreadInv, ObjectsOK, CoreVPNClient, Core
<1>3. \A c \in Clients : ~Live(c)
    <2>1. client_thread # 0 => ~Live(client_thread)
        BY DEF StartThread, Joined
    <2>2. 0 \notin Clients
        BY ClientBounds DEF Clients
    <2> QED BY <2>1, <2>2 DEF ThreadInv, LiveIsThread
<1>4. \A c \in Clients : c # vpnclient => ~Live(c)'
    BY <1>1, <1>3 DEF ThreadInv, ObjectsOK, Live
<1> QED BY <1>1, <1>2, <1>4 DEF ThreadInv, LiveIsThread

LEMMA MethodKeeps ==
    ASSUME ThreadInv, NEW k \in Callers, Method(k)
    PROVE  ThreadInv'
<1> USE DEF ThreadInv
<1>0. ObjectsOK
    OBVIOUS
<1>1. CASE obj' = obj /\ client_thread' = client_thread
    BY <1>1, <1>0, SameClient, OnlyEndsKeeps
<1>2. CASE Query(k) \/ RegistrationConfirmation(k) \/ Connect(k) \/ DisconnectIdle(k) \/ ForceShutdown(k)
    BY <1>1, <1>2 DEF Query, RegistrationConfirmation, Connect, DisconnectIdle, ForceShutdown, object
<1>3. CASE \E tg \in Groups, id \in 0..(MaxSlots - 1) :
                \/ UserInputProvide(k, tg, id, id + 1)
                \/ Blanks /\ UserInputProvide(k, tg, id, Blank)
    BY <1>1, <1>3 DEF UserInputProvide
<1>4. ASSUME NEW r, client_thread' = client_thread,
             \/ r = [obj[vpnclient] EXCEPT !.held = FALSE]
             \/ r = [obj[vpnclient] EXCEPT !.held = obj[vpnclient].core = "running"]
             \/ r = [obj[vpnclient] EXCEPT !.stop = TRUE],
             obj' = [obj EXCEPT ![vpnclient] = r]
      PROVE  ThreadInv'
    <2>1. CASE vpnclient \in Clients
        <3>1. obj[vpnclient] \in CoreVPNClient
            BY <1>0, <2>1 DEF ObjectsOK
        <3>2. r \in CoreVPNClient /\ r.core = obj[vpnclient].core
            BY <1>4, <3>1 DEF CoreVPNClient
        <3> QED BY <1>0, <1>4, <3>2, UpdateClient, OnlyEndsKeeps DEF Live
    <2>2. CASE vpnclient \notin Clients
        <3>1. obj' = obj
            BY <1>0, <1>4, <2>2 DEF ObjectsOK
        <3> QED BY <3>1, <1>1, <1>4
    <2> QED BY <2>1, <2>2
<1>5. CASE Pause(k)
    BY <1>4, <1>5 DEF Pause
<1>6. CASE Resume(k)
    BY <1>4, <1>6 DEF Resume
<1>7. CASE Restart(k)
    BY <1>4, <1>7 DEF Restart
<1>8. CASE Disconnect(k)
    BY <1>4, <1>8 DEF Disconnect, StopClient, object
<1> QED BY <1>2, <1>3, <1>5, <1>6, <1>7, <1>8 DEF Method

LEMMA ContinueKeeps ==
    ASSUME ThreadInv, NEW k \in Callers, Continue(k)
    PROVE  ThreadInv'
<1>1. CASE obj' = obj /\ client_thread' = client_thread
    BY <1>1, SameClient, OnlyEndsKeeps DEF ThreadInv
<1>2. CASE Recheck(k) \/ GiveUp(k) \/ Answer(k) \/ Disconnected(k)
    BY <1>1, <1>2 DEF Recheck, GiveUp, Answer, Disconnected, object
<1>3. CASE Prepare(k) \/ Refuse(k) \/ CredsRefused(k) \/ PrepareFails(k)
    BY <1>1, <1>3 DEF Prepare, Refuse, CredsRefused, PrepareFails
<1>4. CASE StartThread(k)
    BY <1>4, StartKeeps
<1> QED BY <1>2, <1>3, <1>4 DEF Continue

\* The steps of the client thread and of the core: each changes the object of a live connection.
LEMMA LiveStepKeeps ==
    ASSUME ThreadInv, NEW c \in Clients, Live(c), client_thread' = client_thread,
           NEW r \in CoreVPNClient, obj' = [obj EXCEPT ![c] = r]
    PROVE  ThreadInv'
BY UpdateClient, OnlyEndsKeeps DEF ThreadInv

LEMMA ProgressKeeps ==
    ASSUME ThreadInv, NEW c \in Clients, Progress(c)
    PROVE  ThreadInv'
<1> DEFINE o == obj[c]
<1>1. o \in CoreVPNClient
    BY DEF ThreadInv, ObjectsOK
<1>2. Live(c) /\ client_thread' = client_thread
    BY DEF Progress, ThreadConnects, CoreStops, DISCONNECTED, ThreadEnds, Live, object
<1>3. \E r \in CoreVPNClient : obj' = [obj EXCEPT ![c] = r]
    <2>1. CASE ThreadConnects(c)
        <3>1. [o EXCEPT !.core = "running"] \in CoreVPNClient
            BY <1>1 DEF CoreVPNClient, Core
        <3> QED BY <2>1, <3>1 DEF ThreadConnects
    <2>2. CASE CoreStops(c)
        <3>1. [o EXCEPT !.core = "ending"] \in CoreVPNClient
            BY <1>1 DEF CoreVPNClient, Core
        <3> QED BY <2>2, <3>1 DEF CoreStops
    <2>3. CASE DISCONNECTED(c)
        <3>1. /\ [o EXCEPT !.core = "returned"] \in CoreVPNClient
              /\ [o EXCEPT !.run = "CONN_DISCONNECTED", !.core = "returned"] \in CoreVPNClient
            BY <1>1 DEF CoreVPNClient, Core, RunStatus
        <3> QED BY <2>3, <3>1 DEF DISCONNECTED
    <2>4. CASE ThreadEnds(c)
        <3>1. [o EXCEPT !.core = "ended"] \in CoreVPNClient
            BY <1>1 DEF CoreVPNClient, Core
        <3> QED BY <2>4, <3>1 DEF ThreadEnds
    <2> QED BY <2>1, <2>2, <2>3, <2>4 DEF Progress
<1> QED BY <1>2, <1>3, LiveStepKeeps

LEMMA CoreEventKeeps ==
    ASSUME ThreadInv, NEW c \in Clients, CoreEvent(c)
    PROVE  ThreadInv'
<1> DEFINE o == obj[c]
<1>1. o \in CoreVPNClient
    BY DEF ThreadInv, ObjectsOK
<1>2. \A run \in RunStatus, core \in Core, b \in BOOLEAN :
        /\ [o EXCEPT !.run = run] \in CoreVPNClient
        /\ [o EXCEPT !.core = core] \in CoreVPNClient
        /\ [o EXCEPT !.pending = TRUE] \in CoreVPNClient
        /\ [o EXCEPT !.run = run, !.initial = FALSE] \in CoreVPNClient
        /\ [o EXCEPT !.run = run, !.failed = TRUE] \in CoreVPNClient
        /\ [o EXCEPT !.run = run, !.core = core] \in CoreVPNClient
        /\ [o EXCEPT !.run = run, !.failed = TRUE, !.core = core] \in CoreVPNClient
        /\ [o EXCEPT !.run = run, !.core = core, !.failed = b] \in CoreVPNClient
    BY <1>1 DEF CoreVPNClient
<1>3. /\ "ending" \in Core /\ "failed" \in Core
      /\ {"CONN_CONNECTING", "CONN_CONNECTED", "CONN_RECONNECTING", "CONN_DISCONNECTING",
          "CONN_FAILED", "CONN_AUTH_FAILED", "CFG_REQUIRE_USER", "SESS_AUTH_CHALLENGE",
          "SESS_AUTH_URL"} \subseteq RunStatus
    BY DEF Core, RunStatus
<1>4. ASSUME obj[c].core = "running",
             client_thread' = client_thread,
             \E r \in CoreVPNClient : obj' = [obj EXCEPT ![c] = r]
      PROVE  ThreadInv'
    BY <1>4, LiveStepKeeps DEF Live
<1>5. CASE CONNECTING(c) \/ RECONNECTING(c) \/ OPEN_URL(c)
    BY <1>2, <1>3, <1>4, <1>5 DEF CONNECTING, RECONNECTING, OPEN_URL, Event, Reports, object
<1>6. CASE CONNECTED(c)
    BY <1>2, <1>3, <1>4, <1>6 DEF CONNECTED, Event, object
<1>7. CASE DYNAMIC_CHALLENGE(c)
    <2>1. obj[c].core = "running" /\ client_thread' = client_thread
        BY <1>7 DEF DYNAMIC_CHALLENGE, Event
    <2>2. \/ obj' = [obj EXCEPT ![c] = [o EXCEPT !.run = "CFG_REQUIRE_USER", !.core = "ending"]]
          \/ obj' = [obj EXCEPT ![c] = [o EXCEPT !.core = "failed"]]
        BY <1>7 DEF DYNAMIC_CHALLENGE
    <2> QED BY <1>2, <1>3, <1>4, <2>1, <2>2
<1>8. CASE PROXY_NEED_CREDS(c)
    BY <1>2, <1>3, <1>4, <1>8 DEF PROXY_NEED_CREDS, Event
<1>9. CASE AUTH_PENDING(c)
    BY <1>2, <1>3, <1>4, <1>9 DEF AUTH_PENDING, Event, object
<1>10. CASE CR_TEXT(c)
    BY <1>2, <1>3, <1>4, <1>10 DEF CR_TEXT, Event
<1>11. CASE CR_TEXT_invalid(c)
    BY <1>2, <1>3, <1>4, <1>11 DEF CR_TEXT_invalid, Event, object
<1>12. CASE AUTH_FAILED(c)
    BY <1>2, <1>3, <1>4, <1>12 DEF AUTH_FAILED, Event, object
<1>13. CASE ConnectionFails(c)
    <2>1. PICK failed \in {TRUE, obj[c].failed} :
            obj' = [obj EXCEPT ![c] = [@ EXCEPT !.run = "CONN_FAILED", !.core = "ending",
                                                !.failed = failed]]
        BY <1>13 DEF ConnectionFails
    <2>2. failed \in BOOLEAN
        BY <1>1 DEF CoreVPNClient
    <2>3. obj' = [obj EXCEPT ![c] = [o EXCEPT !.run = "CONN_FAILED", !.core = "ending",
                                              !.failed = failed]]
        BY <2>1
    <2>4. obj[c].core = "running" /\ client_thread' = client_thread
        BY <1>13 DEF ConnectionFails, Event, object
    <2> QED BY <1>2, <1>3, <1>4, <2>2, <2>3, <2>4
<1>14. CASE ConnectionTimeout(c)
    BY <1>2, <1>3, <1>4, <1>14 DEF ConnectionTimeout, Event, object
<1>15. CASE FatalEvent(c) \/ SetupFails(c) \/ CoreEnds(c)
    BY <1>2, <1>3, <1>4, <1>15 DEF FatalEvent, SetupFails, CoreEnds, Event, object
<1> QED
    BY <1>5, <1>6, <1>7, <1>8, <1>9, <1>10, <1>11, <1>12, <1>13, <1>14, <1>15 DEF CoreEvent

LEMMA NextThreadInv == ThreadInv /\ [Next]_vars => ThreadInv'
<1> SUFFICES ASSUME ThreadInv, [Next]_vars PROVE ThreadInv'
    OBVIOUS
<1>1. CASE obj' = obj /\ client_thread' = client_thread
    BY <1>1, SameClient, OnlyEndsKeeps DEF ThreadInv
<1>2. CASE Die \/ UNCHANGED vars
    BY <1>1, <1>2 DEF Die, vars, object
<1>3. CASE \E k \in Callers : Method(k) \/ Continue(k)
    BY <1>3, MethodKeeps, ContinueKeeps
<1>4. CASE \E c \in Clients : Progress(c) \/ CoreEvent(c)
    BY <1>4, ProgressKeeps, CoreEventKeeps
<1> QED BY <1>2, <1>3, <1>4 DEF Next

(* A client process never has two connections at a time: connect() joins   *)
(* the thread of the old connection before it starts the thread of a new   *)
(* one, and no other step of a worker thread or of the core starts one.    *)
THEOREM ConnectionIsUnique == Spec => []OneConnection
<1>1. ThreadInv => OneConnection
    BY DEF ThreadInv, LiveIsThread, OneConnection
<1> QED BY <1>1, InitThreadInv, NextThreadInv, PTL DEF Spec

-----------------------------------------------------------------------------
(* The running connection is the one that can be reached, and its end is   *)
(* reported.                                                               *)

Dropped == {"CFG_REQUIRE_USER", "CONN_DISCONNECTED", "CONN_FAILED"}
Reached(c) == obj[c].core \in {"starting", "running"}

\* What an object is made as, and what a running connection never reports.
ObjectInv ==
    /\ clients \in 0..MaxClients /\ vpnclient \in 0..clients
    /\ \A c \in Clients :
        /\ c > clients => obj[c].core = "new"
        /\ obj[c].core \in {"new", "starting"} => obj[c].run = "CONN_INIT" /\ ~obj[c].failed
        /\ obj[c].core = "running" => obj[c].run \notin Dropped

\* A Connect at the join holds the mutex, and vpnclient is the object it made.
JoinInv ==
    /\ call \in [Callers -> {"idle", "guard", "poll", "join", "ignored", "refused", "started", "disconnect"}]
    /\ ~registered => clients = 0 /\ Undecided = {}
    /\ \A k \in Callers : call[k] = "join" =>
        connect_guard = k /\ vpnclient # 0 /\ obj[vpnclient].core = "new"

\* Nothing runs when a Connect has been let through; the object of one that
\* polls has reported something.
PatientInv ==
    Patient =>
        /\ \A j, k \in Undecided : j = k
        /\ \A k \in Callers :
            /\ call[k] \in {"guard", "join"} => \A c \in Clients : ~Reached(c)
            /\ call[k] = "poll" => vpnclient = 0 \/ obj[vpnclient].run # "CONN_INIT"
        /\ \A c \in Clients : Reached(c) => vpnclient = c

\* While the last status says that a connection is being set up or is
\* established, its thread has yet to report the end.
Unreported(c) == \/ obj[c].core \in {"running", "failed"}
                 \/ obj[c].core = "ending" /\ ~AlreadyReported(c)

ReportInv ==
    "pending" \notin Kinds =>
        /\ \A c \in Clients : obj[c].core = "running" => ~AlreadyReported(c)
        /\ proc = "up" /\ status \in {"CONN_CONNECTING", "CONN_CONNECTED"} => \E c \in Clients : Unreported(c)

CInv == ThreadInv /\ ObjectInv /\ JoinInv /\ PatientInv /\ ReportInv

Up == {"CONN_CONNECTING", "CONN_CONNECTED"}

\* The objects keep what the invariant speaks of.
SameObjects == \A c \in Clients :
    obj'[c].core = obj[c].core /\ obj'[c].run = obj[c].run /\ obj'[c].failed = obj[c].failed

\* No call starts to wait for its decision, its mutex or its join.
NoNewConnect == \A k \in Callers : call'[k] = call[k] \/ call'[k] \notin {"guard", "poll", "join"}

\* The process is not revived, and no connection is announced.
NothingAnnounced == (proc' = "up" => proc = "up") /\ (status' \in Up => status \in Up)

Calls == [Callers -> {"idle", "guard", "poll", "join", "ignored", "refused", "started", "disconnect"}]

LEMMA AuthorizeFacts ==
    ASSUME CInv
    PROVE  /\ Authorize \in {0, vpnclient}
           /\ Authorize # vpnclient => /\ vpnclient \in Clients /\ Authorize = 0
                                       /\ ~Reached(vpnclient) /\ obj[vpnclient].core # "new"
           /\ Authorize # 0 => obj[vpnclient].run \notin Dropped
           /\ vpnclient # 0 => vpnclient \in Clients
           /\ 0 \notin Clients
<1>1. /\ vpnclient # 0 => vpnclient \in Clients
      /\ 0 \notin Clients
  BY ClientBounds DEF CInv, ObjectInv, Clients
<1>2. Authorize \in {0, vpnclient} /\ (Authorize # vpnclient => vpnclient # 0 /\ obj[vpnclient].run \in Dropped)
  BY DEF Authorize, Dropped
<1>3. ASSUME Authorize # vpnclient
      PROVE  /\ vpnclient \in Clients /\ Authorize = 0
             /\ ~Reached(vpnclient) /\ obj[vpnclient].core # "new"
  BY <1>1, <1>2, <1>3 DEF CInv, ObjectInv, Reached, Dropped
<1>4. Authorize # 0 => obj[vpnclient].run \notin Dropped
  BY DEF Authorize, Dropped
<1> QED BY <1>1, <1>2, <1>3, <1>4

\* The steps that neither make an object nor let a Connect through.
LEMMA QuietKeeps ==
    ASSUME Patient' => Patient, CInv, ThreadInv', SameObjects, vpnclient' \in {vpnclient, Authorize}, UNCHANGED <<clients, registered, connect_guard>>,
           call' \in Calls, NoNewConnect, NothingAnnounced
    PROVE  CInv'
<1>1. ObjectInv'
  <2>1. vpnclient' \in 0..clients
    BY AuthorizeFacts DEF CInv, ObjectInv
  <2> QED BY <2>1 DEF CInv, ObjectInv, SameObjects
<1>2. \A k \in Callers : call'[k] \in {"guard", "poll", "join"} => call[k] = call'[k]
  BY DEF NoNewConnect
<1>3. \A k \in Undecided' : k \in Undecided
  BY <1>2 DEF Undecided
<1>4. JoinInv'
  <2>1. ASSUME NEW k \in Callers, call'[k] = "join"
        PROVE  connect_guard' = k /\ vpnclient' # 0 /\ obj'[vpnclient'].core = "new"
    <3>1. call[k] = "join" /\ vpnclient # 0 /\ obj[vpnclient].core = "new" /\ connect_guard = k
      BY <1>2, <2>1 DEF CInv, JoinInv
    <3>2. vpnclient' = vpnclient /\ vpnclient \in Clients
      BY <3>1, AuthorizeFacts
    <3> QED BY <3>1, <3>2 DEF SameObjects
  <2>2. ~registered' => clients' = 0 /\ Undecided' = {}
    BY <1>3 DEF CInv, JoinInv
  <2> QED BY <2>1, <2>2 DEF JoinInv, Calls
<1>5. \A c \in Clients : Reached(c)' <=> Reached(c)
  BY DEF Reached, SameObjects
<1>6. PatientInv'
  <2> SUFFICES ASSUME Patient, Patient' PROVE PatientInv'
    BY DEF PatientInv
  <2>1. \A j, k \in Undecided' : j = k
    BY <1>3 DEF CInv, PatientInv
  <2>2. ASSUME NEW k \in Callers, call'[k] \in {"guard", "join"} PROVE \A c \in Clients : ~Reached(c)'
    BY <1>2, <1>5, <2>2 DEF CInv, PatientInv
  <2>3. ASSUME NEW k \in Callers, call'[k] = "poll" PROVE vpnclient' = 0 \/ obj'[vpnclient'].run # "CONN_INIT"
    <3>1. vpnclient = 0 \/ obj[vpnclient].run # "CONN_INIT"
      BY <1>2, <2>3 DEF CInv, PatientInv
    <3> QED BY <3>1, AuthorizeFacts DEF SameObjects
  <2>4. ASSUME NEW c \in Clients, Reached(c)' PROVE vpnclient' = c
    <3>1. vpnclient = c /\ Reached(c)
      BY <1>5, <2>4 DEF CInv, PatientInv
    <3> QED BY <3>1, AuthorizeFacts
  <2> QED BY <2>1, <2>2, <2>3, <2>4 DEF PatientInv
<1>7. ReportInv'
  <2>1. \A c \in Clients :
            (AlreadyReported(c)' <=> AlreadyReported(c)) /\ (Unreported(c)' <=> Unreported(c)) /\ obj'[c].core = obj[c].core
    BY DEF AlreadyReported, Unreported, SameObjects
  <2> QED BY <2>1 DEF CInv, ReportInv, NothingAnnounced, Up
<1> QED BY <1>1, <1>4, <1>6, <1>7 DEF CInv

LEMMA UnchangedObjects == obj' = obj => SameObjects
BY DEF SameObjects

\* Pause, Resume, Restart and Disconnect change how the core is held or stopped.
LEMMA FlagsKeep ==
    ASSUME CInv, NEW r, obj' = [obj EXCEPT ![vpnclient] = r],
           \/ r = [obj[vpnclient] EXCEPT !.held = FALSE]
           \/ r = [obj[vpnclient] EXCEPT !.held = obj[vpnclient].core = "running"]
           \/ r = [obj[vpnclient] EXCEPT !.stop = TRUE]
    PROVE  SameObjects
<1>1. CASE vpnclient \in Clients
  <2>1. obj[vpnclient] \in CoreVPNClient /\ obj \in [Clients -> CoreVPNClient]
    BY <1>1 DEF CInv, ThreadInv, ObjectsOK
  <2>2. r.core = obj[vpnclient].core /\ r.run = obj[vpnclient].run /\ r.failed = obj[vpnclient].failed
    BY <2>1 DEF CoreVPNClient
  <2> QED BY <2>1, <2>2 DEF SameObjects
<1>2. CASE vpnclient \notin Clients
  BY <1>2 DEF CInv, ThreadInv, ObjectsOK, SameObjects
<1> QED BY <1>1, <1>2

LEMMA CallsType ==
    ASSUME CInv
    PROVE  /\ call \in Calls
           /\ \A k \in Callers : \A x \in {"idle", "guard", "poll", "join", "ignored", "refused", "started", "disconnect"} :
                call' = [call EXCEPT ![k] = x] =>
                    /\ call' \in Calls /\ call'[k] = x
                    /\ \A j \in Callers : j # k => call'[j] = call[j]
                    /\ x \notin {"guard", "poll", "join"} => NoNewConnect
BY DEF CInv, JoinInv, Calls, NoNewConnect

LEMMA MethodQuiet ==
    ASSUME Patient' => Patient, CInv, ThreadInv', NEW k \in Callers, Method(k), ~RegistrationConfirmation(k), ~Connect(k)
    PROVE  CInv'
<1>0. NoNewConnect \/ call' # call
  BY DEF NoNewConnect
<1>1. CASE Query(k) \/ DisconnectIdle(k) \/ ForceShutdown(k)
  <2>1. /\ obj' = obj /\ vpnclient' \in {vpnclient, Authorize} /\ UNCHANGED <<clients, registered, connect_guard, call>>
        /\ NothingAnnounced
    BY <1>1 DEF Query, DisconnectIdle, ForceShutdown, object, NothingAnnounced, Up
  <2> QED BY <1>0, <2>1, UnchangedObjects, CallsType, QuietKeeps
<1>2. CASE Pause(k) \/ Resume(k) \/ Restart(k)
  <2>1. /\ vpnclient' \in {vpnclient, Authorize} /\ UNCHANGED <<clients, registered, connect_guard, call>>
        /\ NothingAnnounced
    BY <1>2 DEF Pause, Resume, Restart, NothingAnnounced, Up
  <2>2. SameObjects
    BY <1>2, FlagsKeep DEF Pause, Resume, Restart
  <2> QED BY <1>0, <2>1, <2>2, CallsType, QuietKeeps
<1>3. CASE Disconnect(k)
  <2>1. /\ vpnclient' \in {vpnclient, Authorize} /\ UNCHANGED <<clients, registered, connect_guard>>
        /\ NothingAnnounced /\ call' = [call EXCEPT ![k] = "disconnect"]
        /\ obj' = [obj EXCEPT ![vpnclient] = [obj[vpnclient] EXCEPT !.stop = TRUE]]
    BY <1>3 DEF Disconnect, StopClient, object, NothingAnnounced, Up
  <2>2. SameObjects
    BY <2>1, FlagsKeep
  <2>3. call' \in Calls /\ NoNewConnect
    BY <2>1, CallsType
  <2> QED BY <2>1, <2>2, <2>3, QuietKeeps
<1>4. CASE \E tg \in Groups, id \in 0..(MaxSlots - 1) :
                \/ UserInputProvide(k, tg, id, id + 1)
                \/ Blanks /\ UserInputProvide(k, tg, id, Blank)
  <2>1. /\ obj' = obj /\ vpnclient' \in {vpnclient, Authorize} /\ UNCHANGED <<clients, registered, connect_guard, call>>
        /\ NothingAnnounced
    BY <1>4 DEF UserInputProvide, NothingAnnounced
  <2> QED BY <1>0, <2>1, UnchangedObjects, CallsType, QuietKeeps
<1> QED BY <1>1, <1>2, <1>3, <1>4 DEF Method

LEMMA ContinueQuiet ==
    ASSUME Patient' => Patient, CInv, ThreadInv', NEW k \in Callers, GiveUp(k) \/ Answer(k) \/ Disconnected(k)
    PROVE  CInv'
<1>1. /\ obj' = obj /\ vpnclient' = vpnclient /\ UNCHANGED <<clients, registered, connect_guard>>
      /\ NothingAnnounced /\ call' = [call EXCEPT ![k] = "idle"]
  BY DEF GiveUp, Answer, Disconnected, object, NothingAnnounced, Up
<1>2. call' \in Calls /\ NoNewConnect
  BY <1>1, CallsType
<1> QED BY <1>1, <1>2, UnchangedObjects, QuietKeeps

\* initialize_client(): the object it leaves in vpnclient is new, or none, or
\* the old one.
LEMMA InitializeFacts ==
    ASSUME CInv, NEW err, initialize_client(err), clients < MaxClients
    PROVE  /\ clients' \in 0..MaxClients /\ clients <= clients' /\ vpnclient' \in 0..clients'
           /\ vpnclient' \in {vpnclient, 0, clients + 1}
           /\ err = "ok" => vpnclient' = clients + 1
           /\ clients + 1 \in Clients /\ obj[clients + 1].core = "new" /\ obj[clients + 1].run = "CONN_INIT"
<1>1. clients' \in {clients, clients + 1} /\ vpnclient' = MadeClient(err) /\ (err # "unavailable" => clients' = clients + 1)
  BY DEF initialize_client
<1>2. clients \in Nat /\ clients + 1 \in 0..MaxClients /\ vpnclient \in 0..clients /\ clients + 1 \in Clients /\ clients + 1 > clients
  BY ClientBounds DEF CInv, ObjectInv, Clients
<1>3. obj[clients + 1].core = "new" /\ obj[clients + 1].run = "CONN_INIT"
  BY <1>2 DEF CInv, ObjectInv
<1>4. /\ vpnclient' \in {vpnclient, 0, clients + 1}
      /\ err = "ok" => vpnclient' = clients + 1
      /\ vpnclient' = clients + 1 => clients' = clients + 1 \/ vpnclient = clients + 1
  BY <1>1 DEF MadeClient
<1>5. clients' \in 0..MaxClients /\ clients <= clients'
  BY <1>1, <1>2, ClientBounds
<1>6. vpnclient' \in 0..clients'
  BY <1>1, <1>2, <1>4, <1>5
<1> QED BY <1>2, <1>3, <1>4, <1>5, <1>6

\* A Connect call that holds the mutex, and the first initialize_client().
LEMMA InitializeKeeps ==
    ASSUME Patient' => Patient, CInv, ThreadInv', obj' = obj, NEW err, initialize_client(err), clients < MaxClients,
           registered', call' \in Calls, NothingAnnounced,
           \A k \in Callers : call[k] # "join",
           Patient => /\ \A c \in Clients : ~Reached(c)
                      /\ \A j, k \in Undecided' : j = k
                      /\ \A k \in Callers : call'[k] # "poll",
           \A k \in Callers : call'[k] = "join" => err = "ok" /\ connect_guard' = k
    PROVE  CInv'
<1>0. /\ clients' \in 0..MaxClients /\ clients <= clients' /\ vpnclient' \in 0..clients'
      /\ err = "ok" => vpnclient' = clients + 1
      /\ clients + 1 \in Clients /\ obj[clients + 1].core = "new" /\ obj[clients + 1].run = "CONN_INIT"
  BY InitializeFacts
<1>1. ObjectInv'
  <2>1. \A c \in Clients : c > clients' => c > clients
    BY <1>0, ClientBounds DEF CInv, ObjectInv, Clients
  <2> QED BY <1>0, <2>1 DEF CInv, ObjectInv
<1>2. JoinInv'
  <2>1. clients + 1 # 0
    BY <1>0, ClientBounds DEF Clients
  <2> QED BY <1>0, <2>1 DEF CInv, JoinInv, Calls
<1>3. PatientInv'
  <2> SUFFICES ASSUME Patient, Patient' PROVE PatientInv'
    BY DEF PatientInv
  <2>1. \A c \in Clients : ~Reached(c)'
    BY DEF Reached
  <2> QED BY <2>1 DEF PatientInv
<1>4. ReportInv'
  BY DEF CInv, ReportInv, NothingAnnounced, Up, AlreadyReported, Unreported
<1> QED BY <1>1, <1>2, <1>3, <1>4 DEF CInv

\* The objects of a process that is not registered are all unused.
LEMMA Unregistered ==
    ASSUME CInv, ~registered
    PROVE  /\ \A c \in Clients : obj[c].core = "new"
           /\ \A k \in Callers : call[k] \notin {"guard", "poll", "join"}
<1>1. clients = 0 /\ Undecided = {}
  BY DEF CInv, JoinInv
<1>2. \A c \in Clients : c > clients
  BY <1>1, ClientBounds DEF Clients
<1> QED BY <1>1, <1>2 DEF CInv, ObjectInv, Undecided

LEMMA RegistrationKeeps ==
    ASSUME Patient' => Patient, CInv, ThreadInv', NEW k \in Callers, RegistrationConfirmation(k)
    PROVE  CInv'
<1>1. /\ obj' = obj /\ initialize_client(InitializeError) /\ clients < MaxClients /\ registered'
      /\ UNCHANGED call /\ ~registered
  BY DEF RegistrationConfirmation, RoomToInitialize
<1>2. call' \in Calls
  BY <1>1, CallsType
<1>3. NothingAnnounced
  <2>1. InitialStatus(InitializeError) \in {"CFG_ERROR", "CFG_REQUIRE_USER", "CFG_OK", status}
    BY DEF InitialStatus
  <2>2. status' = InitialStatus(InitializeError) /\ proc' \in {proc, "dying"}
    BY DEF RegistrationConfirmation, LogFATAL
  <2> QED BY <2>1, <2>2 DEF NothingAnnounced, Up
<1>4. /\ \A j \in Callers : call[j] \notin {"guard", "poll", "join"}
      /\ \A c \in Clients : ~Reached(c)
      /\ Undecided' = {}
  BY <1>1, Unregistered DEF Reached, Undecided
<1> HIDE DEF Undecided
<1> QED BY <1>1, <1>2, <1>3, <1>4, InitializeKeeps

LEMMA PrepareKeeps ==
    ASSUME Patient' => Patient, CInv, ThreadInv', NEW k \in Callers, Prepare(k) \/ Refuse(k) \/ CredsRefused(k) \/ PrepareFails(k)
    PROVE  CInv'
<1>1. /\ obj' = obj /\ clients < MaxClients /\ call[k] = "guard" /\ registered' = registered
      /\ connect_guard = None
  BY DEF Prepare, Refuse, CredsRefused, PrepareFails, HasMutex, RoomToInitialize
<1>2. registered
  BY <1>1, Unregistered
<1>3. \A j \in Callers : call[j] # "join"
  BY <1>1, NoneAssumption DEF CInv, JoinInv
<1>4. Patient => /\ \A c \in Clients : ~Reached(c)
                 /\ \A i, j \in Undecided : i = j
  BY <1>1 DEF CInv, PatientInv
<1>5. Patient => \A j \in Callers : call[j] \in {"guard", "poll", "join"} => j = k
  <2>1. k \in Undecided
    BY <1>1 DEF Undecided
  <2>2. \A j \in Callers : call[j] \in {"guard", "poll", "join"} => j \in Undecided
    BY DEF Undecided
  <2> QED BY <1>4, <2>1, <2>2
<1>6. ASSUME NEW x \in {"join", "refused"}, call' = [call EXCEPT ![k] = x]
      PROVE  /\ call' \in Calls /\ \A j \in Callers : call'[j] = "join" => j = k /\ x = "join"
             /\ Patient => /\ \A i, j \in Undecided' : i = j
                           /\ \A j \in Callers : call'[j] # "poll"
  <2>1. call' \in Calls /\ call'[k] = x /\ \A j \in Callers : j # k => call'[j] = call[j]
    BY <1>6, CallsType
  <2>2. \A j \in Callers : call'[j] = "join" => j = k /\ x = "join"
    BY <1>3, <2>1
  <2>3. Patient => \A j \in Callers : call'[j] \in {"guard", "poll", "join"} => j = k /\ x = "join"
    BY <1>5, <2>1
  <2> QED BY <2>1, <2>2, <2>3 DEF Undecided
<1>7. CASE Prepare(k)
  <2>1. /\ initialize_client("ok") /\ call' = [call EXCEPT ![k] = "join"] /\ connect_guard' = k
        /\ status' = InitialStatus("ok") /\ proc' = proc
    BY <1>7 DEF Prepare
  <2>2. NothingAnnounced
    BY <2>1 DEF NothingAnnounced, InitialStatus, Up
  <2> QED BY <1>1, <1>2, <1>3, <1>4, <1>6, <2>1, <2>2, InitializeKeeps
<1>8. CASE Refuse(k) \/ CredsRefused(k) \/ PrepareFails(k)
  <2>1. call' = [call EXCEPT ![k] = "refused"] /\ (initialize_client("ok") \/ initialize_client(InitializeError))
    BY <1>8 DEF Refuse, CredsRefused, PrepareFails
  <2>2. NothingAnnounced
    BY <1>8 DEF Refuse, CredsRefused, PrepareFails, LogFATAL, NothingAnnounced, InitialStatus, Up
  <2>3. PICK err : initialize_client(err)
    BY <2>1
  <2> QED BY <1>1, <1>2, <1>3, <1>4, <1>6, <2>1, <2>2, <2>3, InitializeKeeps
<1> QED BY <1>7, <1>8

LEMMA ConnectKeeps ==
    ASSUME Patient' => Patient, CInv, ThreadInv', NEW k \in Callers, Connect(k)
    PROVE  CInv'
<1> DEFINE x == ConnectDecision(Authorize)
<1>0. /\ obj' = obj /\ vpnclient' = Authorize /\ call' = [call EXCEPT ![k] = x]
      /\ registered /\ UNCHANGED <<clients, registered, connect_guard, proc, status>> /\ call[k] = "idle"
  BY DEF Connect, Called, object
<1>1. x \in {"guard", "poll", "ignored"}
  BY DEF ConnectDecision
<1>2. /\ x = "guard" => Authorize = 0 \/ obj[Authorize].run \in Clean
      /\ x = "poll" => Authorize # 0 /\ obj[Authorize].run # "CONN_INIT"
  BY DEF ConnectDecision, Changing
<1> HIDE DEF x
<1>3. call' \in Calls /\ call'[k] = x /\ \A j \in Callers : j # k => call'[j] = call[j]
  BY <1>0, <1>1, CallsType
<1> SUFFICES ASSUME x # "ignored" PROVE CInv'
  <2>1. CASE x = "ignored"
    <3>1. NoNewConnect /\ NothingAnnounced
      BY <1>0, <1>3, <2>1 DEF NoNewConnect, NothingAnnounced
    <3> QED BY <1>0, <1>3, <3>1, UnchangedObjects, QuietKeeps
  <2> QED BY <2>1
<1>4. ObjectInv' /\ ReportInv'
  <2>1. vpnclient' \in 0..clients
    BY <1>0, AuthorizeFacts DEF CInv, ObjectInv
  <2> QED BY <1>0, <2>1 DEF CInv, ObjectInv, ReportInv, AlreadyReported, Unreported
<1>5. JoinInv'
  <2>1. ASSUME NEW j \in Callers, call'[j] = "join"
        PROVE  connect_guard' = j /\ vpnclient' # 0 /\ obj'[vpnclient'].core = "new"
    <3>1. call[j] = "join"
      BY <1>1, <1>3, <2>1
    <3>2. connect_guard = j /\ vpnclient # 0 /\ obj[vpnclient].core = "new"
      BY <3>1 DEF CInv, JoinInv
    <3> QED BY <1>0, <3>2, AuthorizeFacts
  <2> QED BY <1>0, <1>3, <2>1 DEF JoinInv, Calls
<1>6. PatientInv'
  <2> SUFFICES ASSUME Patient, Patient' PROVE PatientInv'
    BY DEF PatientInv
  <2>1. /\ \A j \in Callers : call[j] \notin {"guard", "poll", "join"}
        /\ \A c \in Clients : Live(c) => obj[c].run # "CONN_INIT"
    <3>1. ~Overlaps
      BY DEF Connect, Patient, x
    <3> QED BY <3>1 DEF Overlaps, Undecided
  <2>2. \A j \in Callers : call'[j] \in {"guard", "poll", "join"} => j = k
    BY <1>3, <2>1
  <2>3. \A i, j \in Undecided' : i = j
    BY <2>2 DEF Undecided
  <2>4. ASSUME NEW c \in Clients, Reached(c) PROVE Authorize = c /\ vpnclient = c /\ x # "guard"
    <3>1. vpnclient = c
      BY <2>4 DEF CInv, PatientInv
    <3>2. Authorize = c /\ c # 0
      BY <2>4, <3>1, AuthorizeFacts
    <3>3. obj[c].run \notin Clean
      <4>1. Live(c)
        BY <2>4 DEF Reached, Live
      <4>2. obj[c].run # "CONN_INIT" /\ obj[c].run \notin Dropped
        BY <2>1, <3>1, <3>2, <4>1, AuthorizeFacts
      <4>3. obj[c].run \in RunStatus
        BY DEF CInv, ThreadInv, ObjectsOK, CoreVPNClient
      <4> QED BY <4>2, <4>3 DEF Clean, Dropped, RunStatus
    <3> QED BY <1>2, <3>1, <3>2, <3>3
  <2>5. \A c \in Clients : Reached(c)' <=> Reached(c)
    BY <1>0 DEF Reached
  <2>6. ASSUME NEW j \in Callers
        PROVE  /\ call'[j] \in {"guard", "join"} => \A c \in Clients : ~Reached(c)'
               /\ call'[j] = "poll" => vpnclient' = 0 \/ obj'[vpnclient'].run # "CONN_INIT"
    <3>1. call'[j] \in {"guard", "poll", "join"} => j = k /\ call'[j] = x
      BY <1>3, <2>2
    <3> QED BY <1>0, <1>1, <1>2, <2>4, <2>5, <3>1
  <2> QED BY <1>0, <2>3, <2>4, <2>5, <2>6 DEF PatientInv
<1> QED BY <1>4, <1>5, <1>6 DEF CInv

LEMMA RecheckKeeps ==
    ASSUME Patient' => Patient, CInv, ThreadInv', NEW k \in Callers, Recheck(k)
    PROVE  CInv'
<1>0. /\ obj' = obj /\ vpnclient' = vpnclient /\ call[k] = "poll"
      /\ UNCHANGED <<clients, registered, connect_guard, status>>
  BY DEF Recheck, object
<1>1. CASE vpnclient = 0
  <2>1. call' = call /\ proc' = "crashed"
    BY <1>1 DEF Recheck
  <2>2. NoNewConnect /\ NothingAnnounced /\ call' \in Calls
    BY <1>0, <2>1, CallsType DEF NoNewConnect, NothingAnnounced
  <2> QED BY <1>0, <2>2, UnchangedObjects, QuietKeeps
<1>2. CASE vpnclient # 0 /\ ConnectDecision(vpnclient) = "ignored"
  <2>1. call' = [call EXCEPT ![k] = "ignored"] /\ proc' = proc
    BY <1>2 DEF Recheck
  <2>2. NoNewConnect /\ NothingAnnounced /\ call' \in Calls
    BY <1>0, <2>1, CallsType DEF NothingAnnounced
  <2> QED BY <1>0, <2>2, UnchangedObjects, QuietKeeps
<1>3. CASE vpnclient # 0 /\ ConnectDecision(vpnclient) = "guard"
  <2>1. call' = [call EXCEPT ![k] = "guard"] /\ proc' = proc /\ obj[vpnclient].run \in Clean
    BY <1>3 DEF Recheck, ConnectDecision
  <2>2. call' \in Calls /\ call'[k] = "guard" /\ \A j \in Callers : j # k => call'[j] = call[j]
    BY <2>1, CallsType
  <2>3. ObjectInv' /\ ReportInv'
    BY <1>0, <2>1 DEF CInv, ObjectInv, ReportInv, AlreadyReported, Unreported
  <2>4. JoinInv'
    <3>1. registered
      BY <1>0, Unregistered
    <3>2. \A j \in Callers : call'[j] = "join" => call[j] = "join"
      BY <2>2
    <3> QED BY <1>0, <2>2, <3>1, <3>2 DEF CInv, JoinInv, Calls
  <2>5. PatientInv'
    <3> SUFFICES ASSUME Patient, Patient' PROVE PatientInv'
      BY DEF PatientInv
    <3>1. \A j \in Callers : call'[j] \in {"guard", "poll", "join"} => call[j] \in {"guard", "poll", "join"}
      BY <1>0, <2>2
    <3>2. \A i, j \in Undecided' : i = j
      BY <3>1 DEF Undecided, CInv, PatientInv
    <3>3. obj[vpnclient].run # "CONN_INIT" /\ vpnclient \in Clients
      BY <1>0, <1>3, AuthorizeFacts DEF CInv, PatientInv
    <3>4. ~Reached(vpnclient)
      <4>1. obj[vpnclient].run \in RunStatus
        BY <3>3 DEF CInv, ThreadInv, ObjectsOK, CoreVPNClient
      <4>2. obj[vpnclient].run \in Dropped
        BY <2>1, <3>3, <4>1 DEF Clean, Dropped, RunStatus
      <4> QED BY <3>3, <4>2 DEF CInv, ObjectInv, Reached
    <3>5. \A c \in Clients : ~Reached(c) /\ ~Reached(c)'
      BY <1>0, <3>4 DEF CInv, PatientInv, Reached
    <3>6. \A j \in Callers : call'[j] # "poll"
      <4>1. k \in Undecided /\ \A j \in Callers : call[j] = "poll" => j \in Undecided
        BY <1>0 DEF Undecided
      <4>2. \A j \in Callers : call[j] = "poll" => j = k
        BY <4>1 DEF CInv, PatientInv
      <4> QED BY <2>2, <4>2
    <3> QED BY <3>2, <3>5, <3>6 DEF PatientInv
  <2> QED BY <2>3, <2>4, <2>5 DEF CInv
<1> QED
  <2>1. ConnectDecision(vpnclient) \in {"guard", "poll", "ignored"}
    BY DEF ConnectDecision
  <2>2. vpnclient # 0 => ConnectDecision(vpnclient) # "poll"
    BY DEF Recheck
  <2> QED BY <1>1, <1>2, <1>3, <2>1, <2>2

\* The thread of the new object starts, after the join of the old one.
LEMMA StartThreadKeeps ==
    ASSUME Patient' => Patient, CInv, ThreadInv', NEW k \in Callers, StartThread(k)
    PROVE  CInv'
<1>0. /\ call[k] = "join" /\ call' = [call EXCEPT ![k] = "started"] /\ vpnclient' = vpnclient
      /\ obj' = [obj EXCEPT ![vpnclient].core = "starting"]
      /\ UNCHANGED <<clients, registered, status, proc>>
  BY DEF StartThread
<1>1. vpnclient \in Clients /\ obj[vpnclient].core = "new" /\ obj[vpnclient] \in CoreVPNClient
  BY <1>0, AuthorizeFacts DEF CInv, JoinInv, ThreadInv, ObjectsOK
<1>2. call' \in Calls /\ call'[k] = "started" /\ \A j \in Callers : j # k => call'[j] = call[j]
  BY <1>0, CallsType
<1> DEFINE r == [obj[vpnclient] EXCEPT !.core = "starting"]
<1>3. r.core = "starting" /\ r.run = obj[vpnclient].run /\ r.failed = obj[vpnclient].failed
  BY <1>1 DEF CoreVPNClient
<1>4. obj'[vpnclient] = r /\ \A c \in Clients : c # vpnclient => obj'[c] = obj[c]
  BY <1>0, <1>1 DEF CInv, ThreadInv, ObjectsOK
<1> HIDE DEF r
<1>5. ObjectInv'
  <2>1. obj[vpnclient].run = "CONN_INIT" /\ ~obj[vpnclient].failed
    BY <1>1 DEF CInv, ObjectInv
  <2>2. ~(vpnclient > clients)
    BY ClientBounds DEF CInv, ObjectInv
  <2> QED BY <1>0, <1>3, <1>4, <2>1, <2>2 DEF CInv, ObjectInv
<1>6. \A j \in Callers : call'[j] # "join" /\ (call'[j] \in {"guard", "poll"} => call[j] = call'[j] /\ j # k)
  BY <1>0, <1>2, NoneAssumption DEF CInv, JoinInv
<1>7. JoinInv'
  <2>1. registered
    BY <1>0, Unregistered
  <2> QED BY <1>0, <1>2, <1>6, <2>1 DEF JoinInv, Calls
<1>8. PatientInv'
  <2> SUFFICES ASSUME Patient, Patient' PROVE PatientInv'
    BY DEF PatientInv
  <2>1. \A j \in Callers : call'[j] \notin {"guard", "poll", "join"}
    <3>1. k \in Undecided /\ \A j \in Callers : call[j] \in {"guard", "poll"} => j \in Undecided
      BY <1>0 DEF Undecided
    <3>2. \A j \in Callers : call[j] \in {"guard", "poll"} => j = k
      BY <3>1 DEF CInv, PatientInv
    <3> QED BY <1>6, <3>2
  <2>2. \A c \in Clients : ~Reached(c)
    BY <1>0 DEF CInv, PatientInv
  <2>3. \A c \in Clients : Reached(c)' => c = vpnclient
    BY <1>4, <2>2 DEF Reached
  <2> QED BY <1>0, <2>1, <2>3 DEF PatientInv, Undecided
<1>9. ReportInv'
  <2>1. \A c \in Clients : Unreported(c) => c # vpnclient
    BY <1>1 DEF Unreported
  <2>2. \A c \in Clients : c # vpnclient => (Unreported(c)' <=> Unreported(c)) /\ (AlreadyReported(c)' <=> AlreadyReported(c))
    BY <1>4 DEF Unreported, AlreadyReported
  <2>3. \A c \in Clients : obj'[c].core = "running" => c # vpnclient /\ obj[c].core = "running"
    BY <1>3, <1>4
  <2> QED BY <1>0, <2>1, <2>2, <2>3 DEF CInv, ReportInv
<1> QED BY <1>5, <1>7, <1>8, <1>9 DEF CInv

\* The object of a connection becomes r.  ReportedBy and PendsAs are
\* AlreadyReported and Unreported of it.
ReportedBy(r) == r.failed \/ r.run \in {"CONN_AUTH_FAILED", "CFG_REQUIRE_USER"}
PendsAs(r) == r.core \in {"running", "failed"} \/ (r.core = "ending" /\ ~ReportedBy(r))

Becomes(c, r) ==
    /\ r.core \notin {"new", "starting"}
    /\ r.core = "running" => Reached(c) /\ r.run \notin Dropped
    /\ r.run = "CONN_INIT" => obj[c].run = "CONN_INIT"
    /\ proc' = "up" => proc = "up"
    /\ "pending" \notin Kinds =>
        /\ r.core = "running" => ~ReportedBy(r)
        /\ proc' = "up" /\ status' \in Up /\ (status \in Up => Unreported(c)) => PendsAs(r)

LEMMA CoreStepKeeps ==
    ASSUME Patient' => Patient, CInv, ThreadInv', NEW c \in Clients, Live(c), NEW r \in CoreVPNClient, Becomes(c, r),
           obj' = [obj EXCEPT ![c] = r], UNCHANGED <<vpnclient, clients, registered, connect_guard, call>>
    PROVE  CInv'
<1>0. obj'[c] = r /\ \A d \in Clients : d # c => obj'[d] = obj[d]
  BY DEF CInv, ThreadInv, ObjectsOK
<1>1. ObjectInv'
  <2>1. ~(c > clients)
    BY DEF CInv, ObjectInv, Live
  <2> QED BY <1>0, <2>1 DEF CInv, ObjectInv, Becomes
<1>2. JoinInv'
  <2>1. ASSUME NEW k \in Callers, call[k] = "join" PROVE vpnclient \in Clients /\ vpnclient # c
    BY <2>1, AuthorizeFacts DEF CInv, JoinInv, Live
  <2>2. call \in Calls
    BY CallsType
  <2> QED BY <1>0, <2>1, <2>2 DEF CInv, JoinInv, Calls, Undecided
<1>3. PatientInv'
  <2> SUFFICES ASSUME Patient, Patient' PROVE PatientInv'
    BY DEF PatientInv
  <2>1. \A d \in Clients : Reached(d)' => Reached(d)
    BY <1>0 DEF Reached, Becomes
  <2>2. Undecided' = Undecided
    BY DEF Undecided
  <2>3. ASSUME NEW k \in Callers, call[k] = "poll" PROVE vpnclient = 0 \/ obj'[vpnclient].run # "CONN_INIT"
    <3>1. vpnclient = 0 \/ obj[vpnclient].run # "CONN_INIT"
      BY <2>3 DEF CInv, PatientInv
    <3> QED BY <1>0, <3>1, AuthorizeFacts DEF Becomes
  <2> QED BY <2>1, <2>2, <2>3 DEF CInv, PatientInv
<1>4. ReportInv'
  <2> SUFFICES ASSUME "pending" \notin Kinds PROVE ReportInv'
    BY DEF ReportInv
  <2>1. \A d \in Clients : d # c => (AlreadyReported(d)' <=> AlreadyReported(d)) /\ (Unreported(d)' <=> Unreported(d))
    BY <1>0 DEF AlreadyReported, Unreported
  <2>2. (AlreadyReported(c)' <=> ReportedBy(r)) /\ (Unreported(c)' <=> PendsAs(r))
    BY <1>0 DEF AlreadyReported, Unreported, ReportedBy, PendsAs
  <2>3. \A d \in Clients : obj'[d].core = "running" => ~AlreadyReported(d)'
    BY <1>0, <2>1, <2>2 DEF CInv, ReportInv, Becomes
  <2>4. ASSUME proc' = "up", status' \in Up PROVE \E d \in Clients : Unreported(d)'
    <3>1. ASSUME status \in Up PROVE Unreported(c)
      <4>1. PICK d \in Clients : Unreported(d)
        BY <2>4, <3>1 DEF CInv, ReportInv, Becomes, Up
      <4>2. Live(d)
        BY <4>1 DEF Unreported, Live
      <4>3. d = c
        BY <4>2 DEF CInv, ThreadInv, LiveIsThread
      <4> QED BY <4>1, <4>3
    <3>2. PendsAs(r)
      BY <2>4, <3>1 DEF Becomes
    <3> QED BY <2>2, <3>2
  <2> QED BY <2>3, <2>4 DEF ReportInv, Up
<1> QED BY <1>1, <1>2, <1>3, <1>4 DEF CInv

\* What holds of the object of a running connection.
LEMMA RunningObject ==
    ASSUME CInv, NEW c \in Clients
    PROVE  /\ obj[c] \in CoreVPNClient
           /\ obj[c].core = "running" => Live(c) /\ Reached(c) /\ obj[c].run \notin Dropped
           /\ obj[c].core = "running" /\ "pending" \notin Kinds => ~ReportedBy(obj[c])
BY DEF CInv, ThreadInv, ObjectsOK, ObjectInv, ReportInv, Live, Reached, AlreadyReported, ReportedBy

\* A step that ends the connection, or keeps it running with another report.
LEMMA RunningStep ==
    ASSUME Patient' => Patient, CInv, ThreadInv', NEW c \in Clients, obj[c].core = "running", NEW r \in CoreVPNClient,
           obj' = [obj EXCEPT ![c] = r], UNCHANGED <<vpnclient, clients, registered, connect_guard, call>>,
           r.core \in {"running", "ending", "failed"},
           r.core = "running" => r.run \notin Dropped,
           r.run = "CONN_INIT" => obj[c].run = "CONN_INIT",
           proc' \in {proc, "dying"},
           "pending" \notin Kinds => \/ r.core # "ending" /\ ~ReportedBy(r)
                                     \/ r.core = "failed"
                                     \/ r.core = "ending" /\ (~ReportedBy(r) \/ status' \notin Up)
    PROVE  CInv'
<1>1. Live(c) /\ Reached(c)
  BY RunningObject
<1>2. Becomes(c, r)
  BY <1>1 DEF Becomes, PendsAs
<1> QED BY <1>1, <1>2, CoreStepKeeps

LEMMA EventKeepsC ==
    ASSUME Patient' => Patient, CInv, ThreadInv', NEW c \in Clients, CoreEvent(c)
    PROVE  CInv'
<1> DEFINE o == obj[c]
<1>0. o \in CoreVPNClient /\ o.core = "running" /\ o.run \notin Dropped
      /\ ("pending" \notin Kinds => ~ReportedBy(o))
  <2>1. obj[c].core = "running"
    BY DEF CoreEvent, CONNECTING, CONNECTED, RECONNECTING, DYNAMIC_CHALLENGE, PROXY_NEED_CREDS, AUTH_PENDING,
           CR_TEXT, CR_TEXT_invalid, OPEN_URL, AUTH_FAILED, ConnectionFails, ConnectionTimeout, FatalEvent,
           SetupFails, CoreEnds, Event
  <2> QED BY <2>1, RunningObject
<1>1. UNCHANGED <<vpnclient, clients, registered, connect_guard, call>> /\ proc' \in {proc, "dying"}
  BY DEF CoreEvent, CONNECTING, CONNECTED, RECONNECTING, DYNAMIC_CHALLENGE, PROXY_NEED_CREDS, AUTH_PENDING,
         CR_TEXT, CR_TEXT_invalid, OPEN_URL, AUTH_FAILED, ConnectionFails, ConnectionTimeout, FatalEvent,
         SetupFails, CoreEnds, object, LogFATAL
<1>2. /\ "ending" \in Core /\ "failed" \in Core
      /\ {"CONN_CONNECTING", "CONN_CONNECTED", "CONN_RECONNECTING", "CONN_DISCONNECTING",
          "CONN_FAILED", "CONN_AUTH_FAILED", "CFG_REQUIRE_USER", "SESS_AUTH_CHALLENGE",
          "SESS_AUTH_URL"} \subseteq RunStatus
  BY DEF Core, RunStatus
<1>3. CASE CONNECTING(c) \/ RECONNECTING(c) \/ OPEN_URL(c)
  <2>1. PICK run \in {"CONN_CONNECTING", "CONN_RECONNECTING", "SESS_AUTH_URL"} :
          obj' = [obj EXCEPT ![c] = [o EXCEPT !.run = run]]
    BY <1>3 DEF CONNECTING, RECONNECTING, OPEN_URL, Reports
  <2> DEFINE r == [o EXCEPT !.run = run]
  <2>2. r \in CoreVPNClient /\ r.core = "running" /\ r.run = run /\ r.failed = o.failed
    BY <1>0, <1>2 DEF CoreVPNClient
  <2>3. r.run \notin Dropped /\ r.run # "CONN_INIT" /\ ("pending" \notin Kinds => ~ReportedBy(r))
    BY <1>0, <2>2 DEF Dropped, ReportedBy
  <2> HIDE DEF r
  <2> QED BY <1>0, <1>1, <2>1, <2>2, <2>3, RunningStep DEF r
<1>4. CASE CONNECTED(c)
  <2> DEFINE r == [o EXCEPT !.run = "CONN_CONNECTED", !.initial = FALSE]
  <2>1. obj' = [obj EXCEPT ![c] = r]
    BY <1>4 DEF CONNECTED
  <2>2. r \in CoreVPNClient /\ r.core = "running" /\ r.run = "CONN_CONNECTED" /\ r.failed = o.failed
    BY <1>0, <1>2 DEF CoreVPNClient
  <2>3. r.run \notin Dropped /\ r.run # "CONN_INIT" /\ ("pending" \notin Kinds => ~ReportedBy(r))
    BY <1>0, <2>2 DEF Dropped, ReportedBy
  <2> HIDE DEF r
  <2> QED BY <1>0, <1>1, <2>1, <2>2, <2>3, RunningStep
<1>5. CASE DYNAMIC_CHALLENGE(c) \/ PROXY_NEED_CREDS(c)
  <2>1. CASE obj' = [obj EXCEPT ![c] = [o EXCEPT !.run = "CFG_REQUIRE_USER", !.core = "ending"]] /\ status' = "CFG_REQUIRE_USER"
    <3> DEFINE r == [o EXCEPT !.run = "CFG_REQUIRE_USER", !.core = "ending"]
    <3>1. r \in CoreVPNClient /\ r.core = "ending" /\ r.run = "CFG_REQUIRE_USER"
      BY <1>0, <1>2 DEF CoreVPNClient
    <3>2. obj' = [obj EXCEPT ![c] = r] /\ status' \notin Up
      BY <2>1 DEF Up
    <3> HIDE DEF r
    <3> QED BY <1>0, <1>1, <3>1, <3>2, RunningStep
  <2>2. CASE obj' = [obj EXCEPT ![c] = [o EXCEPT !.core = "failed"]]
    <3> DEFINE r == [o EXCEPT !.core = "failed"]
    <3>1. r \in CoreVPNClient /\ r.core = "failed" /\ r.run = o.run
      BY <1>0, <1>2 DEF CoreVPNClient
    <3>2. obj' = [obj EXCEPT ![c] = r]
      BY <2>2
    <3> HIDE DEF r
    <3> QED BY <1>0, <1>1, <3>1, <3>2, RunningStep
  <2> QED BY <1>5, <2>1, <2>2 DEF DYNAMIC_CHALLENGE, PROXY_NEED_CREDS
<1>6. CASE AUTH_PENDING(c) \/ CR_TEXT(c) \/ CR_TEXT_invalid(c)
  <2>0. "pending" \in Kinds
    BY <1>6 DEF AUTH_PENDING, CR_TEXT, CR_TEXT_invalid, Event
  <2>1. PICK r \in CoreVPNClient :
          /\ obj' = [obj EXCEPT ![c] = r] /\ r.core = "running"
          /\ r.run \in {o.run, "SESS_AUTH_CHALLENGE", "CONN_AUTH_FAILED"}
    <3>1. CASE AUTH_PENDING(c)
      <4>1. [o EXCEPT !.pending = TRUE] \in CoreVPNClient /\ [o EXCEPT !.pending = TRUE].core = "running"
            /\ [o EXCEPT !.pending = TRUE].run = o.run
        BY <1>0 DEF CoreVPNClient
      <4> QED BY <3>1, <4>1 DEF AUTH_PENDING
    <3>2. CASE CR_TEXT(c)
      <4>1. [o EXCEPT !.run = "SESS_AUTH_CHALLENGE"] \in CoreVPNClient /\ [o EXCEPT !.run = "SESS_AUTH_CHALLENGE"].core = "running"
            /\ [o EXCEPT !.run = "SESS_AUTH_CHALLENGE"].run = "SESS_AUTH_CHALLENGE"
        BY <1>0, <1>2 DEF CoreVPNClient
      <4> QED BY <3>2, <4>1 DEF CR_TEXT
    <3>3. CASE CR_TEXT_invalid(c)
      <4> DEFINE x == [o EXCEPT !.run = "CONN_AUTH_FAILED", !.failed = TRUE]
      <4>1. x \in CoreVPNClient /\ x.core = "running" /\ x.run = "CONN_AUTH_FAILED"
        BY <1>0, <1>2 DEF CoreVPNClient
      <4> QED BY <3>3, <4>1 DEF CR_TEXT_invalid
    <3> QED BY <1>6, <3>1, <3>2, <3>3
  <2>2. r.run \notin Dropped /\ (r.run = "CONN_INIT" => o.run = "CONN_INIT")
    BY <1>0, <2>1 DEF Dropped
  <2> QED BY <1>0, <1>1, <2>0, <2>1, <2>2, RunningStep
<1>7. CASE AUTH_FAILED(c)
  <2> DEFINE r == [o EXCEPT !.run = "CONN_AUTH_FAILED", !.failed = TRUE, !.core = "ending"]
  <2>1. r \in CoreVPNClient /\ r.core = "ending" /\ r.run = "CONN_AUTH_FAILED"
    BY <1>0, <1>2 DEF CoreVPNClient
  <2>2. obj' = [obj EXCEPT ![c] = r] /\ status' \notin Up
    BY <1>7 DEF AUTH_FAILED, Up
  <2> HIDE DEF r
  <2> QED BY <1>0, <1>1, <2>1, <2>2, RunningStep
<1>8. CASE ConnectionFails(c)
  <2>1. PICK f \in {TRUE, obj[c].failed} :
          obj' = [obj EXCEPT ![c] = [@ EXCEPT !.run = "CONN_FAILED", !.core = "ending", !.failed = f]]
    BY <1>8 DEF ConnectionFails
  <2> DEFINE r == [o EXCEPT !.run = "CONN_FAILED", !.core = "ending", !.failed = f]
  <2>2. f \in BOOLEAN
    BY <1>0 DEF CoreVPNClient
  <2>3. r \in CoreVPNClient /\ r.core = "ending" /\ r.run = "CONN_FAILED"
    BY <1>0, <1>2, <2>2 DEF CoreVPNClient
  <2>4. obj' = [obj EXCEPT ![c] = r] /\ status' \notin Up
    BY <1>8, <2>1 DEF ConnectionFails, Up
  <2> HIDE DEF r
  <2> QED BY <1>0, <1>1, <2>3, <2>4, RunningStep
<1>9. CASE ConnectionTimeout(c)
  <2> DEFINE r == [o EXCEPT !.run = "CONN_DISCONNECTING", !.core = "ending"]
  <2>1. r \in CoreVPNClient /\ r.core = "ending" /\ r.run = "CONN_DISCONNECTING"
    BY <1>0, <1>2 DEF CoreVPNClient
  <2>2. obj' = [obj EXCEPT ![c] = r] /\ status' \notin Up
    BY <1>9 DEF ConnectionTimeout, Up
  <2> HIDE DEF r
  <2> QED BY <1>0, <1>1, <2>1, <2>2, RunningStep
<1>10. CASE FatalEvent(c) \/ SetupFails(c) \/ CoreEnds(c)
  <2>1. PICK core \in {"ending", "failed"} : obj' = [obj EXCEPT ![c] = [o EXCEPT !.core = core]]
    BY <1>10 DEF FatalEvent, SetupFails, CoreEnds
  <2> DEFINE r == [o EXCEPT !.core = core]
  <2>2. r \in CoreVPNClient /\ r.core = core /\ r.run = o.run /\ r.failed = o.failed
    BY <1>0, <1>2 DEF CoreVPNClient
  <2>3. "pending" \notin Kinds => ~ReportedBy(r)
    BY <1>0, <2>2 DEF ReportedBy
  <2>4. obj' = [obj EXCEPT ![c] = r]
    BY <2>1
  <2> HIDE DEF r
  <2> QED BY <1>0, <1>1, <2>2, <2>3, <2>4, RunningStep
<1> QED BY <1>3, <1>4, <1>5, <1>6, <1>7, <1>8, <1>9, <1>10 DEF CoreEvent

LEMMA ProgressKeepsC ==
    ASSUME Patient' => Patient, CInv, ThreadInv', NEW c \in Clients, Progress(c)
    PROVE  CInv'
<1> DEFINE o == obj[c]
<1>0. o \in CoreVPNClient
  BY RunningObject
<1>1. UNCHANGED <<vpnclient, clients, registered, connect_guard, call>> /\ proc' \in {proc, "dying"}
  BY DEF Progress, ThreadConnects, CoreStops, DISCONNECTED, ThreadEnds, object, LogFATAL
<1>2. {"running", "ending", "returned", "ended"} \subseteq Core /\ "CONN_DISCONNECTED" \in RunStatus
  BY DEF Core, RunStatus
<1>3. CASE ThreadConnects(c)
  <2> DEFINE r == [o EXCEPT !.core = "running"]
  <2>1. r \in CoreVPNClient /\ r.core = "running" /\ r.run = o.run /\ r.failed = o.failed
    BY <1>0, <1>2 DEF CoreVPNClient
  <2>2. obj' = [obj EXCEPT ![c] = r] /\ o.core = "starting"
    BY <1>3 DEF ThreadConnects
  <2>3. o.run = "CONN_INIT" /\ ~o.failed
    BY <2>2 DEF CInv, ObjectInv
  <2> HIDE DEF r
  <2>4. Becomes(c, r) /\ Live(c)
    BY <1>1, <2>1, <2>2, <2>3 DEF Becomes, Reached, Dropped, ReportedBy, PendsAs, Live
  <2> QED BY <1>1, <2>1, <2>2, <2>4, CoreStepKeeps
<1>4. CASE CoreStops(c)
  <2> DEFINE r == [o EXCEPT !.core = "ending"]
  <2>1. r \in CoreVPNClient /\ r.core = "ending" /\ r.run = o.run /\ r.failed = o.failed
    BY <1>0, <1>2 DEF CoreVPNClient
  <2>2. obj' = [obj EXCEPT ![c] = r] /\ o.core = "running"
    BY <1>4 DEF CoreStops
  <2>3. "pending" \notin Kinds => ~ReportedBy(r)
    BY <2>1, <2>2, RunningObject DEF ReportedBy
  <2> HIDE DEF r
  <2> QED BY <1>1, <2>1, <2>2, <2>3, RunningStep
<1>5. CASE DISCONNECTED(c)
  <2>0. o.core = "ending" /\ Live(c)
    BY <1>5 DEF DISCONNECTED, Live
  <2>1. CASE AlreadyReported(c)
    <3> DEFINE r == [o EXCEPT !.core = "returned"]
    <3>1. r \in CoreVPNClient /\ r.core = "returned" /\ r.run = o.run
      BY <1>0, <1>2 DEF CoreVPNClient
    <3>2. obj' = [obj EXCEPT ![c] = r] /\ status' = status /\ ~Unreported(c)
      BY <1>5, <2>0, <2>1 DEF DISCONNECTED, Unreported
    <3> HIDE DEF r
    <3>3. Becomes(c, r)
      BY <1>1, <3>1, <3>2 DEF Becomes
    <3> QED BY <1>1, <2>0, <3>1, <3>2, <3>3, CoreStepKeeps
  <2>2. CASE ~AlreadyReported(c)
    <3> DEFINE r == [o EXCEPT !.run = "CONN_DISCONNECTED", !.core = "returned"]
    <3>1. r \in CoreVPNClient /\ r.core = "returned" /\ r.run = "CONN_DISCONNECTED"
      BY <1>0, <1>2 DEF CoreVPNClient
    <3>2. obj' = [obj EXCEPT ![c] = r] /\ status' \notin Up
      BY <1>5, <2>2 DEF DISCONNECTED, Up
    <3> HIDE DEF r
    <3>3. Becomes(c, r)
      BY <1>1, <3>1, <3>2 DEF Becomes
    <3> QED BY <1>1, <2>0, <3>1, <3>2, <3>3, CoreStepKeeps
  <2> QED BY <2>1, <2>2
<1>6. CASE ThreadEnds(c)
  <2> DEFINE r == [o EXCEPT !.core = "ended"]
  <2>1. r \in CoreVPNClient /\ r.core = "ended" /\ r.run = o.run
    BY <1>0, <1>2 DEF CoreVPNClient
  <2>2. obj' = [obj EXCEPT ![c] = r] /\ Live(c)
    BY <1>6 DEF ThreadEnds, Live
  <2>3. (status' = status /\ ~Unreported(c)) \/ status' \notin Up \/ proc' # "up"
    BY <1>6 DEF ThreadEnds, Unreported, LogFATAL, Up
  <2> HIDE DEF r
  <2>4. Becomes(c, r)
    BY <1>1, <2>1, <2>3 DEF Becomes
  <2> QED BY <1>1, <2>1, <2>2, <2>4, CoreStepKeeps
<1> QED BY <1>3, <1>4, <1>5, <1>6 DEF Progress

LEMMA InitialC == Init => CInv
<1> SUFFICES ASSUME Init PROVE CInv
  OBVIOUS
<1>1. ThreadInv
  BY InitThreadInv
<1>2. \A c \in Clients : obj[c].core = "new" /\ obj[c].run = "CONN_INIT" /\ ~obj[c].failed
  BY DEF Init, NewClient
<1>3. ObjectInv
  BY <1>2, ClientBounds DEF Init, ObjectInv
<1>4. JoinInv
  BY DEF Init, JoinInv, Undecided
<1>5. PatientInv /\ ReportInv
  BY <1>2 DEF Init, PatientInv, ReportInv, Reached, Undecided
<1> QED BY <1>1, <1>3, <1>4, <1>5 DEF CInv

\* No step takes back that two Connect calls have overlapped.
LEMMA StaysPatient ==
    ASSUME [Next]_vars
    PROVE  Patient' => Patient
<1>1. ASSUME NEW k \in Callers, Method(k) PROVE overlap' \in {overlap, "yes"}
  BY <1>1 DEF Method, Query, RegistrationConfirmation, Connect, Pause, Resume, Restart, Disconnect, DisconnectIdle,
              ForceShutdown, UserInputProvide
<1>2. ASSUME NEW k \in Callers, Continue(k) PROVE overlap' = overlap
  BY <1>2 DEF Continue, Recheck, GiveUp, Prepare, Refuse, CredsRefused, PrepareFails, StartThread, Answer, Disconnected
<1>3. ASSUME NEW c \in Clients, Progress(c) PROVE overlap' = overlap
  BY <1>3 DEF Progress, ThreadConnects, CoreStops, DISCONNECTED, ThreadEnds
<1>4. ASSUME NEW c \in Clients, CoreEvent(c) PROVE overlap' = overlap
  BY <1>4 DEF CoreEvent, CONNECTING, CONNECTED, RECONNECTING, DYNAMIC_CHALLENGE, PROXY_NEED_CREDS, AUTH_PENDING,
              CR_TEXT, CR_TEXT_invalid, OPEN_URL, AUTH_FAILED, ConnectionFails, ConnectionTimeout, FatalEvent,
              SetupFails, CoreEnds
<1>5. Die \/ UNCHANGED vars => overlap' = overlap
  BY DEF Die, vars
<1> QED BY <1>1, <1>2, <1>3, <1>4, <1>5 DEF Next, Patient

LEMMA InductiveC == CInv /\ [Next]_vars => CInv'
<1> SUFFICES ASSUME CInv, [Next]_vars, Patient' => Patient PROVE CInv'
  BY StaysPatient
<1>1. ThreadInv'
  BY NextThreadInv DEF CInv
<1>2. ASSUME NEW k \in Callers, Method(k) \/ Continue(k) PROVE CInv'
  <2>1. CASE Method(k)
    BY <1>1, <2>1, MethodQuiet, RegistrationKeeps, ConnectKeeps
  <2>2. CASE Continue(k)
    BY <1>1, <2>2, ContinueQuiet, RecheckKeeps, PrepareKeeps, StartThreadKeeps DEF Continue
  <2> QED BY <1>2, <2>1, <2>2
<1>3. ASSUME NEW c \in Clients, Progress(c) \/ CoreEvent(c) PROVE CInv'
  BY <1>1, <1>3, ProgressKeepsC, EventKeepsC
<1>4. CASE Die \/ UNCHANGED vars
  <2>1. /\ obj' = obj /\ vpnclient' = vpnclient /\ UNCHANGED <<clients, registered, connect_guard, call, status>>
        /\ (proc' = "up" => proc = "up")
    BY <1>4 DEF Die, vars, object
  <2>2. NoNewConnect /\ NothingAnnounced /\ call' \in Calls
    BY <2>1, CallsType DEF NoNewConnect, NothingAnnounced
  <2> QED BY <1>1, <2>1, <2>2, UnchangedObjects, QuietKeeps
<1> QED BY <1>2, <1>3, <1>4 DEF Next

LEMMA InvariantC == Spec => []CInv
BY InitialC, InductiveC, PTL DEF Spec

(* As long as no two Connect calls have overlapped, the connection that    *)
(* runs is the one of the vpnclient object, so Pause, Restart and          *)
(* Disconnect reach it, for any profiles, worker threads and events of the *)
(* core (Authorize(), initialize_client(), cb_connect()).                  *)
THEOREM RunningConnectionIsReachable == Spec => []RunningIsReachable
<1>1. CInv => RunningIsReachable
  BY DEF CInv, PatientInv, Reached, RunningIsReachable
<1> QED BY <1>1, InvariantC, PTL

(* The end of a connection is reported, whoever asked for it and however   *)
(* impatient the front-ends are, in a process that meets no CR_TEXT        *)
(* (event(), and the end of the client thread).                            *)
THEOREM EndOfConnectionIsReported == "pending" \notin Kinds => (Spec => []EndIsReported)
<1>1. ASSUME "pending" \notin Kinds, CInv PROVE EndIsReported
  <2>1. proc = "up" /\ status \in {"CONN_CONNECTING", "CONN_CONNECTED"} => \E c \in Clients : Unreported(c)
    BY <1>1 DEF CInv, ReportInv
  <2>2. \A c \in Clients : Unreported(c) => Live(c)
    BY DEF Unreported, Live
  <2> QED BY <2>1, <2>2 DEF EndIsReported
<1>2. CASE "pending" \notin Kinds
  <2>1. CInv => EndIsReported
    BY <1>1, <1>2
  <2> QED BY <2>1, InvariantC, PTL
<1> QED BY <1>2

-----------------------------------------------------------------------------
(* What the process asks its user.  A queue is well-formed if it has       *)
(* counters that do not run ahead of its slots, and slots of the profile's *)
(* kind whose values are not empty.                                        *)

SlotType == [tg: Groups, id: Nat, name: Names, value: Nat, provided: BOOLEAN]
QueueType == [slots: Seq(SlotType), reqids: [Q!Indexes -> Nat]]

\* A slot of this kind is asked for under this profile.
Fits(tg, name) ==
    /\ tg \in Groups /\ name \in Names
    /\ name = "username" => tg = USER_PASSWORD
    /\ name = "password" => tg \in {USER_PASSWORD, PASSWORD_ONLY}
    /\ name \in {"http_proxy_user", "http_proxy_pass"} => tg = HTTP_PROXY_CREDS
    /\ name = "pk_passphrase" <=> tg = PK_PASSPHRASE
    /\ name = "static_challenge" => tg = CHALLENGE_STATIC
    /\ name \in {"dynamic_challenge", "dynamic_challenge_cookie"} => tg = CHALLENGE_DYNAMIC
    /\ tg = PASSWORD_ONLY => name = "password" /\ profile.flow = "password-only"
    /\ tg = USER_PASSWORD => profile.flow = "username-password"
    /\ tg = CHALLENGE_STATIC => profile.static /\ profile.flow # "autologin"

GoodSlot(e) == e \in SlotType /\ Fits(e.tg, e.name) /\ (e.provided => e.value # 0)

Good(q) ==
    /\ q \in QueueType
    /\ \A x \in Q!Indexes : q.reqids[x] <= Len(q.slots)
    /\ \A i \in DOMAIN q.slots : GoodSlot(q.slots[i])

Has(q, tg, name) == \E i \in DOMAIN q.slots : q.slots[i].tg = tg /\ q.slots[i].name = name
HasAny(q, tg) == \E i \in DOMAIN q.slots : q.slots[i].tg = tg

\* Everything that the profile needs has been asked for.
Asked(q) ==
    /\ profile.flow = "password-only" => Has(q, PASSWORD_ONLY, "password")
    /\ profile.flow = "username-password" => Has(q, USER_PASSWORD, "username") /\ Has(q, USER_PASSWORD, "password")
    /\ profile.pk => Has(q, PK_PASSPHRASE, "pk_passphrase")

\* Everything that was asked has been answered and is at hand for the connection.
Complete(q, cr) ==
    \A i \in DOMAIN q.slots : q.slots[i].name # "auth_pending" => q.slots[i].provided /\ cr[q.slots[i].name] # 0

QueueInv ==
    /\ profile \in Profiles
    /\ creds \in [Names -> Nat]
    /\ Good(userinputq)
    /\ ~registered => userinputq.slots = <<>> /\ creds["pk_passphrase"] = 0
    /\ registered /\ profile.load = "ok" => Asked(userinputq)

\* A dynamic challenge follows a login, whose password is kept.
PasswordInv ==
    Patient =>
        /\ \/ HasAny(userinputq, CHALLENGE_DYNAMIC)
           \/ \E c \in Clients : Reached(c)
           \/ \E k \in Callers : call[k] = "join"
           => (profile.flow = "username-password" => creds["password"] # 0)
        /\ (\E c \in Clients : obj[c].core = "starting") \/ (\E k \in Callers : call[k] = "join") =>
            Complete(userinputq, creds)

UInv == QueueInv /\ PasswordInv

\* The first of a set of positions is one of them.
LEMMA FirstInSet ==
    ASSUME NEW S, S \subseteq Nat, S # {}
    PROVE  Q!First(S) \in S
<1> DEFINE R == OpToRel(<, Nat)
<1>1. \E k \in S : \A j \in S : ~(<<j, k>> \in R)
  BY WFMin, NatLessThanWellFounded
<1>2. \A j, k \in S : j < k => <<j, k>> \in R
  BY DEF OpToRel
<1> HIDE DEF R
<1>3. PICK k \in S : \A j \in S : ~(j < k)
  BY <1>1, <1>2
<1>4. \A j \in S : k <= j
  BY <1>3
<1> QED BY <1>4 DEF Q!First

\* The names and groups that RequireAdd() is called with.
LEMMA GroupFacts ==
    /\ USER_PASSWORD \in Groups /\ PASSWORD_ONLY \in Groups /\ HTTP_PROXY_CREDS \in Groups
    /\ PK_PASSPHRASE \in Groups /\ CHALLENGE_STATIC \in Groups /\ CHALLENGE_DYNAMIC \in Groups
    /\ CHALLENGE_AUTH_PENDING \in Groups
    /\ USER_PASSWORD \notin {PASSWORD_ONLY, PK_PASSPHRASE, CHALLENGE_STATIC, CHALLENGE_DYNAMIC, HTTP_PROXY_CREDS, CHALLENGE_AUTH_PENDING}
    /\ PASSWORD_ONLY \notin {PK_PASSPHRASE, CHALLENGE_STATIC, CHALLENGE_DYNAMIC, HTTP_PROXY_CREDS, CHALLENGE_AUTH_PENDING}
    /\ PK_PASSPHRASE \notin {CHALLENGE_STATIC, CHALLENGE_DYNAMIC, HTTP_PROXY_CREDS, CHALLENGE_AUTH_PENDING}
    /\ CHALLENGE_STATIC \notin {CHALLENGE_DYNAMIC, HTTP_PROXY_CREDS, CHALLENGE_AUTH_PENDING}
    /\ CHALLENGE_DYNAMIC \notin {HTTP_PROXY_CREDS, CHALLENGE_AUTH_PENDING}
    /\ HTTP_PROXY_CREDS # CHALLENGE_AUTH_PENDING
BY DEF Groups, USER_PASSWORD, PASSWORD_ONLY, HTTP_PROXY_CREDS, PK_PASSPHRASE, CHALLENGE_STATIC,
       CHALLENGE_DYNAMIC, CHALLENGE_AUTH_PENDING

LEMMA FitsFacts ==
    /\ profile.flow = "username-password" => Fits(USER_PASSWORD, "username") /\ Fits(USER_PASSWORD, "password")
    /\ profile.flow = "password-only" => Fits(PASSWORD_ONLY, "password")
    /\ profile.static /\ profile.flow # "autologin" => Fits(CHALLENGE_STATIC, "static_challenge")
    /\ Fits(PK_PASSPHRASE, "pk_passphrase")
    /\ Fits(HTTP_PROXY_CREDS, "http_proxy_user") /\ Fits(HTTP_PROXY_CREDS, "http_proxy_pass")
    /\ Fits(CHALLENGE_DYNAMIC, "dynamic_challenge") /\ Fits(CHALLENGE_DYNAMIC, "dynamic_challenge_cookie")
    /\ Fits(CHALLENGE_AUTH_PENDING, "auth_pending")
BY GroupFacts DEF Fits, Names

\* r is q with slots of the groups G added, which are yet to be filled in.
Extends(q, r, G) ==
    /\ Good(r)
    /\ DOMAIN q.slots \subseteq DOMAIN r.slots
    /\ \A i \in DOMAIN q.slots : r.slots[i] = q.slots[i]
    /\ \A i \in DOMAIN r.slots : i \notin DOMAIN q.slots => ~r.slots[i].provided /\ r.slots[i].tg \in G

LEMMA AddExtends ==
    ASSUME NEW q, Good(q), NEW tg, NEW name, Fits(tg, name)
    PROVE  /\ Extends(q, Q!RequireAdd(q, tg, name), {tg})
           /\ Has(Q!RequireAdd(q, tg, name), tg, name)
           /\ ~AllProvided(Q!RequireAdd(q, tg, name))
           /\ Len(Q!RequireAdd(q, tg, name).slots) = Len(q.slots) + 1
           /\ LET e == Q!RequireAdd(q, tg, name).slots[Len(q.slots) + 1]
              IN  e.tg = tg /\ e.id = q.reqids[Q!get_reqid_index(tg)]
<1> DEFINE x == Q!get_reqid_index(tg)
           e == [tg |-> tg, id |-> q.reqids[x], name |-> name, value |-> 0, provided |-> FALSE]
           r == Q!RequireAdd(q, tg, name)
           n == Len(q.slots)
<1>1. q.slots \in Seq(SlotType) /\ q.reqids \in [Q!Indexes -> Nat] /\ tg \in Groups /\ name \in Names
  BY DEF Good, QueueType, Fits
<1>2. x \in Q!Indexes
  BY <1>1 DEF Q!Indexes
<1>3. e \in SlotType
  BY <1>1, <1>2 DEF SlotType
<1>4. r = [slots |-> Append(q.slots, e), reqids |-> [q.reqids EXCEPT ![x] = @ + 1]]
  BY DEF Q!RequireAdd
<1>5. r.slots = Append(q.slots, e) /\ r.reqids = [q.reqids EXCEPT ![x] = @ + 1]
  BY <1>4
<1>6. e.tg = tg /\ e.id = q.reqids[x] /\ e.name = name /\ e.provided = FALSE /\ GoodSlot(e)
  BY <1>3 DEF GoodSlot
<1> HIDE DEF x, e, r
<1>7. /\ r.slots \in Seq(SlotType) /\ Len(r.slots) = n + 1 /\ n \in Nat
      /\ DOMAIN r.slots = 1..(n + 1) /\ DOMAIN q.slots = 1..n
      /\ r.slots[n + 1] = e /\ \A i \in 1..n : r.slots[i] = q.slots[i]
  BY <1>1, <1>3, <1>5
<1>8. r \in QueueType /\ \A y \in Q!Indexes : r.reqids[y] <= n + 1
  <2>1. r.reqids \in [Q!Indexes -> Nat]
    BY <1>1, <1>2, <1>5
  <2>2. \A y \in Q!Indexes : q.reqids[y] <= n
    BY DEF Good
  <2>3. \A y \in Q!Indexes : r.reqids[y] <= n + 1
    BY <1>1, <1>2, <1>5, <1>7, <2>2
  <2> QED BY <1>4, <1>5, <1>7, <2>1, <2>3 DEF QueueType, r
<1> HIDE DEF n
<1>9. \A i \in 1..(n + 1) : i \in 1..n \/ i = n + 1
  BY <1>7
<1>10. n + 1 \in 1..(n + 1) /\ n + 1 \notin 1..n /\ 1..n \subseteq 1..(n + 1)
  BY <1>7
<1>11. Good(r)
  <2>1. \A i \in DOMAIN r.slots : GoodSlot(r.slots[i])
    BY <1>6, <1>7, <1>9 DEF Good
  <2> QED BY <1>7, <1>8, <2>1 DEF Good
<1>12. Extends(q, r, {tg})
  BY <1>6, <1>7, <1>9, <1>10, <1>11 DEF Extends
<1>13. Has(r, tg, name) /\ ~AllProvided(r)
  BY <1>6, <1>7, <1>10 DEF Has, AllProvided, Q!QueueAllDone
<1> QED BY <1>6, <1>7, <1>12, <1>13 DEF r, n, x

LEMMA ExtendsTwice ==
    ASSUME NEW q, NEW r, NEW s, NEW G, NEW H, NEW K, Extends(q, r, G), Extends(r, s, H), G \subseteq K, H \subseteq K
    PROVE  Extends(q, s, K)
BY DEF Extends

LEMMA ExtendsSelf ==
    ASSUME NEW q, Good(q), NEW G
    PROVE  Extends(q, q, G)
BY DEF Extends

LEMMA ExtendsKeeps ==
    ASSUME NEW q, NEW r, NEW G, Extends(q, r, G)
    PROVE  /\ \A tg, name : Has(q, tg, name) => Has(r, tg, name)
           /\ \A tg : HasAny(r, tg) => HasAny(q, tg) \/ tg \in G
           /\ AllProvided(r) => AllProvided(q)
           /\ Asked(q) => Asked(r)
<1>1. \A tg, name : Has(q, tg, name) => Has(r, tg, name)
  BY DEF Extends, Has
<1>2. \A tg : HasAny(r, tg) => HasAny(q, tg) \/ tg \in G
  BY DEF Extends, HasAny
<1>3. AllProvided(r) => AllProvided(q)
  BY DEF Extends, AllProvided, Q!QueueAllDone
<1> QED BY <1>1, <1>2, <1>3 DEF Asked

\* Nothing was added if everything is filled in.
LEMMA ExtendsDone ==
    ASSUME NEW q, NEW r, NEW G, Good(q), Extends(q, r, G), AllProvided(r)
    PROVE  q.slots = r.slots
<1>1. DOMAIN q.slots = DOMAIN r.slots /\ \A i \in DOMAIN q.slots : r.slots[i] = q.slots[i]
  BY DEF Extends, AllProvided, Q!QueueAllDone
<1>2. q.slots \in Seq(SlotType) /\ r.slots \in Seq(SlotType)
  BY DEF Extends, Good, QueueType
<1> QED BY <1>1, <1>2

LEMMA CountFacts ==
    ASSUME NEW q, NEW tg
    PROVE  Q!QueueCount(q, tg) # {} <=> HasAny(q, tg)
BY DEF Q!QueueCount, Q!SlotsOf, HasAny

\* GetResponse() of a queue that is filled in.
LEMMA ResponseFacts ==
    ASSUME NEW q, Good(q), NEW tg, NEW name
    PROVE  /\ Q!GetResponse(q, tg, name).val \in Nat
           /\ Has(q, tg, name) /\ AllProvided(q) =>
                Q!GetResponse(q, tg, name).err = "ok" /\ Q!GetResponse(q, tg, name).val # 0
<1> DEFINE S == Q!ByName(q, tg, name)
           f == Q!First(S)
<1>1. q.slots \in Seq(SlotType)
  BY DEF Good, QueueType
<1>2. S \subseteq DOMAIN q.slots /\ DOMAIN q.slots \subseteq Nat
  BY <1>1 DEF Q!ByName, Q!SlotsOf
<1>3. S # {} <=> Has(q, tg, name)
  BY DEF Q!ByName, Q!SlotsOf, Has
<1>4. Q!GetResponse(q, tg, name) = Q!ResponseOf(q, S)
  BY DEF Q!GetResponse
<1> HIDE DEF S
<1>5. S # {} => f \in DOMAIN q.slots
  BY <1>2, FirstInSet
<1>6. S # {} => GoodSlot(q.slots[f])
  BY <1>5 DEF Good
<1>7. S # {} => q.slots[f].value \in Nat /\ (q.slots[f].provided => q.slots[f].value # 0)
  BY <1>6 DEF GoodSlot, SlotType
<1>8. CASE S = {}
  BY <1>3, <1>4, <1>8 DEF Q!ResponseOf
<1>9. CASE S # {}
  <2>1. AllProvided(q) => q.slots[f].provided
    BY <1>5, <1>9 DEF AllProvided, Q!QueueAllDone
  <2>2. Q!ResponseOf(q, S) = IF ~q.slots[f].provided THEN [err |-> "never-provided", val |-> 0]
                             ELSE [err |-> "ok", val |-> q.slots[f].value]
    BY <1>9 DEF Q!ResponseOf
  <2> HIDE DEF f
  <2> QED BY <1>4, <1>7, <1>9, <2>1, <2>2
<1> QED BY <1>8, <1>9

\* UpdateEntry(): one slot is filled in, and no other changes.
LEMMA UpdateFacts ==
    ASSUME NEW q, Good(q), NEW tg, NEW id, NEW v \in 1..MaxSlots, Q!ById(q, tg, id) # {}
    PROVE  LET f == Q!First(Q!ById(q, tg, id))
               r == Q!UpdateEntry(q, tg, id, v)
           IN  /\ Good(r)
               /\ f \in DOMAIN q.slots
               /\ DOMAIN r.slots = DOMAIN q.slots
               /\ \A i \in DOMAIN q.slots : i # f => r.slots[i] = q.slots[i]
               /\ \A i \in DOMAIN q.slots : r.slots[i].tg = q.slots[i].tg /\ r.slots[i].name = q.slots[i].name
               /\ r.slots[f].provided
<1> DEFINE S == Q!ById(q, tg, id)
           f == Q!First(S)
           r == Q!UpdateEntry(q, tg, id, v)
           e == [q.slots[f] EXCEPT !.provided = TRUE, !.value = v]
<1>1. q.slots \in Seq(SlotType) /\ q \in QueueType /\ q.reqids \in [Q!Indexes -> Nat]
  BY DEF Good, QueueType
<1>2. S \subseteq DOMAIN q.slots /\ DOMAIN q.slots \subseteq Nat
  BY <1>1 DEF Q!ById, Q!SlotsOf
<1>3. f \in DOMAIN q.slots
  BY <1>2, FirstInSet
<1>4. Filtered[v] = v /\ v \in Nat /\ v # 0
  BY ClientBounds DEF Filtered, Blank
<1>5. r = [q EXCEPT !.slots[f] = e]
  BY <1>4 DEF Q!UpdateEntry
<1>6. GoodSlot(q.slots[f])
  BY <1>3 DEF Good
<1> HIDE DEF f, S
<1>7. e \in SlotType /\ e.tg = q.slots[f].tg /\ e.name = q.slots[f].name /\ e.provided = TRUE /\ e.value = v
  BY <1>4, <1>6 DEF GoodSlot, SlotType
<1>8. GoodSlot(e)
  BY <1>4, <1>6, <1>7 DEF GoodSlot
<1> HIDE DEF e, r
<1>9. r.slots = [q.slots EXCEPT ![f] = e] /\ r.reqids = q.reqids /\ r \in QueueType
  <2>1. r = [q EXCEPT !.slots = [q.slots EXCEPT ![f] = e]]
    BY <1>5
  <2>2. [q.slots EXCEPT ![f] = e] \in Seq(SlotType)
    BY <1>1, <1>3, <1>7
  <2> QED BY <1>1, <2>1, <2>2 DEF QueueType
<1>10. /\ DOMAIN r.slots = DOMAIN q.slots /\ Len(r.slots) = Len(q.slots) /\ r.slots[f] = e
       /\ \A i \in DOMAIN q.slots : i # f => r.slots[i] = q.slots[i]
  BY <1>1, <1>3, <1>7, <1>9
<1>11. Good(r)
  BY <1>8, <1>9, <1>10 DEF Good
<1> QED BY <1>3, <1>7, <1>10, <1>11 DEF f, r, S

\* initialize_client() adds what the profile needs and has not been asked for; the static
\* challenge is asked for again each time.
Initial == {USER_PASSWORD, PASSWORD_ONLY, CHALLENGE_STATIC, PK_PASSPHRASE}

LEMMA LoginFacts ==
    ASSUME NEW q, Good(q)
    PROVE  /\ Extends(q, RequireLogin(q), Initial)
           /\ profile.flow = "password-only" => Has(RequireLogin(q), PASSWORD_ONLY, "password")
           /\ profile.flow = "username-password" /\ ~HasAny(q, USER_PASSWORD) =>
                Has(RequireLogin(q), USER_PASSWORD, "username") /\ Has(RequireLogin(q), USER_PASSWORD, "password")
           /\ Asked(q) => RequireLogin(q) = q
<1> DEFINE r == RequireLogin(q)
<1>1. CASE profile.flow = "password-only" /\ ~HasAny(q, PASSWORD_ONLY)
  <2>1. r = Q!RequireAdd(q, PASSWORD_ONLY, "password")
    BY <1>1, CountFacts DEF RequireLogin
  <2>2. ~Asked(q)
    BY <1>1 DEF Asked, Has, HasAny
  <2>3. Extends(q, r, {PASSWORD_ONLY}) /\ Has(r, PASSWORD_ONLY, "password")
    BY <1>1, <2>1, FitsFacts, AddExtends
  <2>4. Extends(q, r, Initial)
    BY <2>3 DEF Extends, Initial
  <2> QED BY <1>1, <2>2, <2>3, <2>4
<1>2. CASE profile.flow = "username-password" /\ ~HasAny(q, USER_PASSWORD)
  <2> DEFINE s == Q!RequireAdd(q, USER_PASSWORD, "username")
  <2>1. r = Q!RequireAdd(s, USER_PASSWORD, "password")
    BY <1>2, CountFacts DEF RequireLogin
  <2>2. ~Asked(q)
    BY <1>2 DEF Asked, Has, HasAny
  <2>3. Extends(q, s, {USER_PASSWORD}) /\ Has(s, USER_PASSWORD, "username")
    BY <1>2, FitsFacts, AddExtends
  <2>4. Good(s)
    BY <2>3 DEF Extends
  <2> HIDE DEF s
  <2>5. Extends(s, r, {USER_PASSWORD}) /\ Has(r, USER_PASSWORD, "password")
    BY <1>2, <2>1, <2>4, FitsFacts, AddExtends
  <2>6. Extends(q, r, Initial)
    BY <2>3, <2>5, ExtendsTwice DEF Initial
  <2>7. Has(r, USER_PASSWORD, "username")
    BY <2>3, <2>5, ExtendsKeeps
  <2> QED BY <1>2, <2>2, <2>5, <2>6, <2>7
<1>3. CASE /\ profile.flow = "password-only" => HasAny(q, PASSWORD_ONLY)
           /\ profile.flow = "username-password" => HasAny(q, USER_PASSWORD)
  <2>1. r = q
    BY <1>3, CountFacts DEF RequireLogin
  <2>2. HasAny(q, PASSWORD_ONLY) => Has(q, PASSWORD_ONLY, "password")
    BY DEF HasAny, Has, Good, GoodSlot, Fits
  <2> QED BY <1>3, <2>1, <2>2, ExtendsSelf
<1> QED BY <1>1, <1>2, <1>3

\* The password of the private key is asked for if it is needed and not known.
LEMMA KeyFacts ==
    ASSUME QueueInv
    PROVE  /\ PrivateKeyPassword \in Nat
           /\ HasAny(userinputq, PK_PASSPHRASE) => Has(userinputq, PK_PASSPHRASE, "pk_passphrase")
           /\ HasAny(userinputq, PK_PASSPHRASE) /\ AllProvided(userinputq) => PrivateKeyPassword # 0
           /\ ~HasAny(userinputq, PK_PASSPHRASE) => PrivateKeyPassword = creds["pk_passphrase"]
<1>1. Good(userinputq) /\ creds["pk_passphrase"] \in Nat
  BY DEF QueueInv, Names
<1>2. HasAny(userinputq, PK_PASSPHRASE) => Has(userinputq, PK_PASSPHRASE, "pk_passphrase")
  BY <1>1 DEF HasAny, Has, Good, GoodSlot, Fits
<1>3. CASE HasAny(userinputq, PK_PASSPHRASE)
  <2>1. PrivateKeyPassword = Q!GetResponse(userinputq, PK_PASSPHRASE, "pk_passphrase").val
    BY <1>3, CountFacts DEF PrivateKeyPassword
  <2> QED BY <1>1, <1>2, <1>3, <2>1, ResponseFacts
<1>4. CASE ~HasAny(userinputq, PK_PASSPHRASE)
  <2>1. PrivateKeyPassword = creds["pk_passphrase"]
    BY <1>4, CountFacts DEF PrivateKeyPassword
  <2> QED BY <1>1, <1>4, <2>1
<1> QED BY <1>2, <1>3, <1>4

LEMMA InitializeOK ==
    ASSUME QueueInv, InitializeError = "ok"
    PROVE  profile.load = "ok"
BY DEF InitializeError

LEMMA RequiredFacts ==
    ASSUME QueueInv, profile.load = "ok"
    PROVE  /\ Extends(userinputq, Required, Initial)
           /\ Asked(Required)
           /\ profile.static /\ profile.flow # "autologin" => ~AllProvided(Required)
           /\ registered /\ ~profile.static /\ AllProvided(userinputq) => Required = userinputq
<1> DEFINE q == userinputq
           a == RequireLogin(q)
           b == RequireStatic(a)
<1>0. Good(q) /\ (registered => Asked(q)) /\ (~registered => q.slots = <<>> /\ creds["pk_passphrase"] = 0)
  BY DEF QueueInv
<1>1. Extends(q, a, Initial) /\ (Asked(q) => a = q)
  BY <1>0, LoginFacts
<1>2. Good(a)
  BY <1>1 DEF Extends
<1>3. ~registered => ~HasAny(q, USER_PASSWORD) /\ ~HasAny(q, PK_PASSPHRASE)
  <2>1. q.slots = <<>> => \A tg : ~HasAny(q, tg)
    BY DEF HasAny
  <2> QED BY <1>0, <2>1
<1>4. /\ profile.flow = "password-only" => Has(a, PASSWORD_ONLY, "password")
      /\ profile.flow = "username-password" => Has(a, USER_PASSWORD, "username") /\ Has(a, USER_PASSWORD, "password")
  <2>1. CASE registered
    BY <1>0, <1>1, <2>1 DEF Asked
  <2>2. CASE ~registered
    BY <1>0, <1>3, <2>2, LoginFacts
  <2> QED BY <2>1, <2>2
<1> HIDE DEF a
<1>5. /\ Extends(a, b, Initial)
      /\ profile.static /\ profile.flow # "autologin" => ~AllProvided(b)
      /\ ~profile.static => b = a
  <2>1. CASE profile.flow # "autologin" /\ profile.static
    <3>1. b = Q!RequireAdd(a, CHALLENGE_STATIC, "static_challenge")
      BY <2>1 DEF RequireStatic
    <3>2. Extends(a, b, {CHALLENGE_STATIC}) /\ ~AllProvided(b)
      BY <1>2, <2>1, <3>1, FitsFacts, AddExtends
    <3>3. Extends(a, b, Initial)
      BY <3>2 DEF Extends, Initial
    <3> QED BY <2>1, <3>2, <3>3
  <2>2. CASE ~(profile.flow # "autologin" /\ profile.static)
    <3>1. b = a
      BY <2>2 DEF RequireStatic
    <3> QED BY <1>2, <2>2, <3>1, ExtendsSelf
  <2> QED BY <2>1, <2>2
<1>6. Good(b) /\ Required = RequirePassphrase(b)
  BY <1>5 DEF Extends, Required, a
<1> HIDE DEF b
<1>7. /\ Extends(b, Required, Initial)
      /\ profile.pk => Has(Required, PK_PASSPHRASE, "pk_passphrase")
      /\ registered /\ AllProvided(q) => Required = b
  <2>1. CASE NeedsPassphrase
    <3>1. Required = Q!RequireAdd(b, PK_PASSPHRASE, "pk_passphrase")
      BY <1>6, <2>1 DEF RequirePassphrase
    <3>2. Extends(b, Required, {PK_PASSPHRASE}) /\ Has(Required, PK_PASSPHRASE, "pk_passphrase")
      BY <1>6, <3>1, FitsFacts, AddExtends
    <3>3. Extends(b, Required, Initial)
      BY <3>2 DEF Extends, Initial
    <3>4. ~(registered /\ AllProvided(q))
      <4>1. profile.pk /\ PrivateKeyPassword = 0
        BY <2>1 DEF NeedsPassphrase
      <4>2. Has(q, PK_PASSPHRASE, "pk_passphrase") => HasAny(q, PK_PASSPHRASE)
        BY DEF Has, HasAny
      <4> QED BY <1>0, <4>1, <4>2, KeyFacts DEF Asked
    <3> QED BY <3>2, <3>3, <3>4
  <2>2. CASE ~NeedsPassphrase
    <3>1. Required = b
      BY <1>6, <2>2 DEF RequirePassphrase
    <3>2. profile.pk => Has(q, PK_PASSPHRASE, "pk_passphrase")
      <4>1. profile.pk => PrivateKeyPassword # 0
        BY <2>2 DEF NeedsPassphrase
      <4> QED BY <1>0, <1>3, <4>1, KeyFacts DEF Asked
    <3>3. profile.pk => Has(b, PK_PASSPHRASE, "pk_passphrase")
      BY <1>1, <1>5, <3>2, ExtendsKeeps
    <3> QED BY <1>6, <3>1, <3>3, ExtendsSelf
  <2> QED BY <2>1, <2>2
<1>8. Extends(a, Required, Initial)
  BY <1>5, <1>7, ExtendsTwice
<1>9. Extends(q, Required, Initial)
  BY <1>1, <1>8, ExtendsTwice
<1>10. Asked(Required)
  BY <1>4, <1>7, <1>8, ExtendsKeeps DEF Asked
<1>11. profile.static /\ profile.flow # "autologin" => ~AllProvided(Required)
  BY <1>5, <1>7, ExtendsKeeps
<1>12. registered /\ ~profile.static /\ AllProvided(q) => Required = q
  BY <1>0, <1>1, <1>5, <1>7
<1> QED BY <1>9, <1>10, <1>11, <1>12

\* The values taken for the connection.
LEMMA ProvideFacts ==
    ASSUME NEW q, creds \in [Names -> Nat]
    PROVE  LET cr == ProvideCreds(q) IN
           /\ DOMAIN cr = Names
           /\ cr["pk_passphrase"] = PrivateKeyPassword
           /\ cr["username"] = Response(q, USER_PASSWORD, "username")
           /\ cr["password"] =
                IF ~HasAny(q, USER_PASSWORD) /\ HasAny(q, PASSWORD_ONLY) THEN Response(q, PASSWORD_ONLY, "password")
                ELSE IF HasAny(q, CHALLENGE_DYNAMIC) THEN creds["password"] ELSE Response(q, USER_PASSWORD, "password")
           /\ cr["static_challenge"] \in {creds["static_challenge"], Response(q, CHALLENGE_STATIC, "static_challenge")}
           /\ cr["dynamic_challenge"] = Response(q, CHALLENGE_DYNAMIC, "dynamic_challenge")
           /\ cr["dynamic_challenge_cookie"] = Response(q, CHALLENGE_DYNAMIC, "dynamic_challenge_cookie")
           /\ cr["http_proxy_user"] = Response(q, HTTP_PROXY_CREDS, "http_proxy_user")
           /\ cr["http_proxy_pass"] = Response(q, HTTP_PROXY_CREDS, "http_proxy_pass")
           /\ cr["auth_pending"] = creds["auth_pending"]
<1>1. /\ Q!QueueCount(q, USER_PASSWORD) # {} <=> HasAny(q, USER_PASSWORD)
      /\ Q!QueueCount(q, PASSWORD_ONLY) # {} <=> HasAny(q, PASSWORD_ONLY)
      /\ Q!QueueCount(q, CHALLENGE_DYNAMIC) # {} <=> HasAny(q, CHALLENGE_DYNAMIC)
  BY CountFacts
<1> QED BY <1>1 DEF ProvideCreds, Names

LEMMA TakenFacts ==
    ASSUME NEW q, Good(q), NEW tg, NEW name, creds \in [Names -> Nat], name \in Names
    PROVE  /\ Response(q, tg, name) \in Nat
           /\ Has(q, tg, name) /\ AllProvided(q) => Response(q, tg, name) # 0
<1>1. creds[name] \in Nat
  OBVIOUS
<1>2. Has(q, tg, name) => Q!QueueCount(q, tg) # {}
  BY CountFacts DEF Has, HasAny
<1> QED BY <1>1, <1>2, ResponseFacts DEF Response

LEMMA ProvideType ==
    ASSUME NEW q, Good(q), QueueInv
    PROVE  ProvideCreds(q) \in [Names -> Nat]
<1> DEFINE cr == ProvideCreds(q)
<1>1. creds \in [Names -> Nat] /\ PrivateKeyPassword \in Nat
  BY KeyFacts DEF QueueInv
<1>2. \A n \in Names : creds[n] \in Nat
  BY <1>1
<1>3. \A n \in Names, tg \in Groups : Response(q, tg, n) \in Nat
  BY <1>1, TakenFacts
<1>4. \A n \in Names : cr[n] \in Nat
  BY <1>1, <1>2, <1>3, ProvideFacts, GroupFacts DEF Names
<1>5. cr = [n \in Names |-> cr[n]]
  BY <1>1 DEF ProvideCreds
<1> QED BY <1>4, <1>5

\* A connection is prepared only with an answer to everything that was asked.
LEMMA PreparedFacts ==
    ASSUME QueueInv, profile.load = "ok", AllProvided(Required),
           profile.flow = "username-password" /\ HasAny(userinputq, CHALLENGE_DYNAMIC) => creds["password"] # 0
    PROVE  /\ Complete(Required, ProvideCreds(Required))
           /\ profile.flow = "username-password" => ProvideCreds(Required)["password"] # 0
<1> DEFINE q == Required
           cr == ProvideCreds(q)
<1>1. Extends(userinputq, q, Initial) /\ Asked(q) /\ ~(profile.static /\ profile.flow # "autologin")
  BY RequiredFacts
<1>2. Good(q) /\ Good(userinputq) /\ creds \in [Names -> Nat]
  BY <1>1 DEF Extends, QueueInv
<1>3. userinputq.slots = q.slots
  BY <1>1, <1>2, ExtendsDone
<1>4. AllProvided(userinputq) /\ \A tg : HasAny(userinputq, tg) <=> HasAny(q, tg)
  BY <1>3 DEF AllProvided, Q!QueueAllDone, HasAny
<1>5. \A tg, n : n \in Names /\ Has(q, tg, n) => Response(q, tg, n) # 0 /\ HasAny(q, tg)
  <2> TAKE tg, n
  <2>1. Has(q, tg, n) => HasAny(q, tg)
    BY DEF Has, HasAny
  <2> QED BY <1>2, <2>1, TakenFacts
<1>6. PrivateKeyPassword # 0 \/ ~HasAny(q, PK_PASSPHRASE)
  BY <1>4, KeyFacts
<1>7. HasAny(q, PASSWORD_ONLY) => ~HasAny(q, USER_PASSWORD)
  BY <1>2 DEF Good, GoodSlot, Fits, HasAny
<1>8. ASSUME NEW i \in DOMAIN q.slots, q.slots[i].name # "auth_pending"
      PROVE  q.slots[i].provided /\ cr[q.slots[i].name] # 0
  <2> DEFINE n == q.slots[i].name
             tg == q.slots[i].tg
  <2>1. q.slots[i].provided
    BY DEF AllProvided, Q!QueueAllDone
  <2>2. Has(q, tg, n) /\ HasAny(q, tg)
    BY DEF Has, HasAny
  <2>3. Fits(tg, n) /\ n \in Names /\ tg \in Groups
    BY <1>2 DEF Good, GoodSlot, Fits
  <2> HIDE DEF n, tg, q
  <2>4. Response(q, tg, n) # 0
    BY <1>5, <2>2, <2>3
  <2>5. CASE n = "password"
    <3>1. cr[n] \in {Response(q, tg, n), creds["password"]} /\ (cr[n] # Response(q, tg, n) => tg = USER_PASSWORD /\ HasAny(q, CHALLENGE_DYNAMIC))
      BY <1>2, <1>7, <2>2, <2>3, <2>5, ProvideFacts DEF Fits
    <3> QED BY <1>4, <2>1, <2>3, <2>4, <3>1 DEF Fits, n
  <2>6. CASE n = "static_challenge"
    BY <1>1, <2>3, <2>6 DEF Fits
  <2>7. CASE n = "pk_passphrase"
    BY <1>2, <1>6, <2>1, <2>2, <2>3, <2>7, ProvideFacts DEF Fits, n
  <2>8. CASE n \notin {"password", "static_challenge", "pk_passphrase"}
    <3>1. n \in {"username", "http_proxy_user", "http_proxy_pass", "dynamic_challenge", "dynamic_challenge_cookie"}
      BY <2>3, <2>8, <1>8 DEF Names, n
    <3>2. cr[n] = Response(q, tg, n)
      BY <1>2, <2>3, <3>1, ProvideFacts DEF Fits
    <3> QED BY <2>1, <2>4, <3>2 DEF n
  <2> QED BY <2>5, <2>6, <2>7, <2>8
<1>9. Complete(q, cr)
  BY <1>8 DEF Complete
<1>10. profile.flow = "username-password" => cr["password"] # 0
  BY <1>1, <1>9 DEF Asked, Has, Complete
<1> QED BY <1>9, <1>10

\* The invariant of a queue q and values cr after a step.
LEMMA NextInput ==
    ASSUME Patient' => Patient, NEW q, NEW cr, profile' = profile, userinputq' = q, creds' = cr,
           profile \in Profiles, Good(q), cr \in [Names -> Nat],
           ~registered' => q.slots = <<>> /\ cr["pk_passphrase"] = 0,
           registered' /\ profile.load = "ok" => Asked(q),
           Patient =>
               /\ \/ HasAny(q, CHALLENGE_DYNAMIC)
                  \/ \E c \in Clients : obj'[c].core \in {"starting", "running"}
                  \/ \E k \in Callers : call'[k] = "join"
                  => (profile.flow = "username-password" => cr["password"] # 0)
               /\ (\E c \in Clients : obj'[c].core = "starting") \/ (\E k \in Callers : call'[k] = "join") =>
                   Complete(q, cr)
    PROVE  UInv'
<1>1. Good(userinputq)'
  BY DEF Good, GoodSlot, Fits
<1>2. (registered /\ profile.load = "ok" => Asked(userinputq))'
  BY DEF Asked, Has
<1>3. QueueInv'
  BY <1>1, <1>2 DEF QueueInv
<1>4. HasAny(userinputq, CHALLENGE_DYNAMIC)' <=> HasAny(q, CHALLENGE_DYNAMIC)
  BY DEF HasAny, CHALLENGE_DYNAMIC
<1>5. Complete(userinputq, creds)' <=> Complete(q, cr)
  BY DEF Complete
<1>6. PasswordInv'
  BY <1>4, <1>5 DEF PasswordInv, Reached
<1> QED BY <1>3, <1>6 DEF UInv

\* The steps that leave the queue and the values alone, and start no connection.
LEMMA SameInput ==
    ASSUME Patient' => Patient, UInv, UNCHANGED <<profile, registered, userinputq, creds>>,
           \A c \in Clients : (Reached(c)' => Reached(c)) /\ (obj'[c].core = "starting" => obj[c].core = "starting"),
           \A k \in Callers : call'[k] = "join" => call[k] = "join"
    PROVE  UInv'
<1>1. QueueInv /\ PasswordInv
  BY DEF UInv
<1> QED BY <1>1, NextInput DEF QueueInv, PasswordInv, Reached

\* A queue that was extended while no connection starts.
LEMMA ExtendedInput ==
    ASSUME Patient' => Patient, UInv, NEW q, NEW G, Extends(userinputq, q, G), profile' = profile, registered' = registered, registered,
           userinputq' = q, NEW cr \in [Names -> Nat], creds' = cr, cr["password"] = creds["password"],
           Patient => /\ \A c \in Clients : obj'[c].core # "starting"
                      /\ \A k \in Callers : call'[k] # "join"
                      /\ \A c \in Clients : Reached(c)' => Reached(c)
                      /\ CHALLENGE_DYNAMIC \notin G \/ \E c \in Clients : Reached(c)
    PROVE  UInv'
<1>1. QueueInv /\ PasswordInv
  BY DEF UInv
<1>2. Good(q) /\ profile \in Profiles /\ (profile.load = "ok" => Asked(q))
  BY <1>1, ExtendsKeeps DEF Extends, QueueInv
<1>3. HasAny(q, CHALLENGE_DYNAMIC) => HasAny(userinputq, CHALLENGE_DYNAMIC) \/ CHALLENGE_DYNAMIC \in G
  BY ExtendsKeeps
<1> QED BY <1>1, <1>2, <1>3, NextInput DEF PasswordInv, Reached

\* What the callback of a stored value does to the values for the connection.
LEMMA SentFacts ==
    ASSUME NEW c, NEW q, Good(q), creds \in [Names -> Nat]
    PROVE  /\ AuthPendingSent(c, q) \in [Names -> Nat]
           /\ \A n \in Names : n # "auth_pending" => AuthPendingSent(c, q)[n] = creds[n]
<1>1. "auth_pending" \in Names
  BY DEF Names
<1>2. Response(q, CHALLENGE_AUTH_PENDING, "auth_pending") \in Nat
  BY <1>1, TakenFacts
<1> QED BY <1>1, <1>2 DEF AuthPendingSent

LEMMA ProvideKeeps ==
    ASSUME Patient' => Patient, UInv, CInv, NEW k \in Callers, NEW tg, NEW id \in 0..(MaxSlots - 1), UserInputProvide(k, tg, id, id + 1)
    PROVE  UInv'
<1> DEFINE q == Q!UpdateEntry(userinputq, tg, id, id + 1)
           f == Q!First(Q!ById(userinputq, tg, id))
           cr == AuthPendingSent(Authorize, q)
<1>0. /\ UNCHANGED <<profile, registered, obj, call>> /\ userinputq' = q /\ creds' = cr
      /\ Q!UpdateEntryError(userinputq, tg, id) = "ok"
  BY DEF UserInputProvide
<1>1. Q!ById(userinputq, tg, id) # {} /\ ~userinputq.slots[f].provided
  BY <1>0 DEF Q!UpdateEntryError
<1>2. id + 1 \in 1..MaxSlots
  BY ClientBounds
<1>3. QueueInv /\ PasswordInv /\ Good(userinputq) /\ creds \in [Names -> Nat] /\ profile \in Profiles
  BY DEF UInv, QueueInv
<1>4. /\ Good(q) /\ f \in DOMAIN userinputq.slots /\ DOMAIN q.slots = DOMAIN userinputq.slots
      /\ \A i \in DOMAIN q.slots : i # f => q.slots[i] = userinputq.slots[i]
      /\ \A i \in DOMAIN q.slots : q.slots[i].tg = userinputq.slots[i].tg /\ q.slots[i].name = userinputq.slots[i].name
  BY <1>1, <1>2, <1>3, UpdateFacts
<1> HIDE DEF q, f
<1>5. cr \in [Names -> Nat] /\ \A n \in Names : n # "auth_pending" => cr[n] = creds[n]
  BY <1>3, <1>4, SentFacts
<1> HIDE DEF cr
<1>6. registered
  <2>1. ~registered => userinputq.slots = <<>>
    BY <1>3 DEF QueueInv
  <2> QED BY <1>4, <2>1
<1>7. profile.load = "ok" => Asked(q)
  BY <1>3, <1>4, <1>6 DEF QueueInv, Asked, Has
<1>8. HasAny(q, CHALLENGE_DYNAMIC) => HasAny(userinputq, CHALLENGE_DYNAMIC)
  BY <1>4 DEF HasAny
<1>9. Complete(userinputq, creds) => Complete(q, cr)
  <2> SUFFICES ASSUME Complete(userinputq, creds), NEW i \in DOMAIN q.slots, q.slots[i].name # "auth_pending"
               PROVE  q.slots[i].provided /\ cr[q.slots[i].name] # 0
    BY DEF Complete
  <2>1. userinputq.slots[i].provided /\ creds[userinputq.slots[i].name] # 0
    BY <1>4 DEF Complete
  <2>2. i # f
    BY <1>1, <2>1
  <2>3. q.slots[i].name \in Names
    BY <1>4 DEF Good, GoodSlot, SlotType
  <2> QED BY <1>4, <1>5, <2>1, <2>2, <2>3
<1>10. cr["password"] = creds["password"]
  BY <1>5 DEF Names
<1> QED BY <1>0, <1>3, <1>4, <1>5, <1>6, <1>7, <1>8, <1>9, <1>10, NextInput DEF PasswordInv, Reached

\* No event and no progress of a connection starts another one.
NoneStarts ==
    \A d \in Clients : (Reached(d)' => Reached(d)) /\ (obj'[d].core = "starting" => obj[d].core = "starting")

LEMMA OneChanges ==
    ASSUME NEW c \in Clients, \A d \in Clients : d # c => obj'[d] = obj[d],
           obj'[c].core # "starting", obj'[c].core = "running" => Reached(c)
    PROVE  NoneStarts
BY DEF NoneStarts, Reached

LEMMA EventStartsNone ==
    ASSUME CInv, NEW c \in Clients, CoreEvent(c)
    PROVE  obj[c].core = "running" /\ Reached(c) /\ NoneStarts
<1>1. obj[c].core = "running" /\ obj[c] \in CoreVPNClient
  BY RunningObject
     DEF CoreEvent, CONNECTING, CONNECTED, RECONNECTING, DYNAMIC_CHALLENGE, PROXY_NEED_CREDS, AUTH_PENDING,
         CR_TEXT, CR_TEXT_invalid, OPEN_URL, AUTH_FAILED, ConnectionFails, ConnectionTimeout, FatalEvent,
         SetupFails, CoreEnds, Event
<1>2. Reached(c)
  BY <1>1 DEF Reached
<1>0. obj \in [Clients -> CoreVPNClient]
  BY DEF CInv, ThreadInv, ObjectsOK
<1>3. (\A d \in Clients : d # c => obj'[d] = obj[d]) /\ obj'[c].core \in {"running", "ending", "failed"}
  <2>1. CASE CONNECTING(c) \/ CONNECTED(c) \/ RECONNECTING(c) \/ OPEN_URL(c) \/ AUTH_PENDING(c) \/ CR_TEXT(c) \/ CR_TEXT_invalid(c)
    BY <1>0, <1>1, <2>1 DEF CONNECTING, CONNECTED, RECONNECTING, OPEN_URL, AUTH_PENDING, CR_TEXT, CR_TEXT_invalid, Reports, CoreVPNClient
  <2>2. CASE DYNAMIC_CHALLENGE(c) \/ PROXY_NEED_CREDS(c)
    BY <1>0, <1>1, <2>2 DEF DYNAMIC_CHALLENGE, PROXY_NEED_CREDS, CoreVPNClient
  <2>3. CASE ConnectionFails(c)
    BY <1>0, <1>1, <2>3 DEF ConnectionFails, CoreVPNClient
  <2>4. CASE AUTH_FAILED(c) \/ ConnectionTimeout(c)
    BY <1>0, <1>1, <2>4 DEF AUTH_FAILED, ConnectionTimeout, CoreVPNClient
  <2>5. CASE FatalEvent(c) \/ SetupFails(c) \/ CoreEnds(c)
    BY <1>0, <1>1, <2>5 DEF FatalEvent, SetupFails, CoreEnds, CoreVPNClient
  <2> QED BY <2>1, <2>2, <2>3, <2>4, <2>5 DEF CoreEvent
<1> QED BY <1>1, <1>2, <1>3, OneChanges

LEMMA ProgressStartsNone ==
    ASSUME CInv, NEW c \in Clients, Progress(c)
    PROVE  NoneStarts
<1>1. obj[c] \in CoreVPNClient
  BY RunningObject
<1>0. obj \in [Clients -> CoreVPNClient]
  BY DEF CInv, ThreadInv, ObjectsOK
<1>2. (\A d \in Clients : d # c => obj'[d] = obj[d]) /\ obj'[c].core # "starting" /\ (obj'[c].core = "running" => Reached(c))
  BY <1>0, <1>1 DEF Progress, ThreadConnects, CoreStops, DISCONNECTED, ThreadEnds, CoreVPNClient, Reached
<1> QED BY <1>2, OneChanges

\* A patient front-end's running connection: nothing else starts or is about to.
LEMMA NothingElse ==
    ASSUME CInv, NEW c \in Clients, obj[c].core = "running"
    PROVE  /\ registered
           /\ \A d \in Clients : obj[d].core # "starting"
           /\ Patient => \A k \in Callers : call[k] # "join"
<1>1. registered
  BY Unregistered
<1>2. Live(c) /\ \A d \in Clients : obj[d].core = "starting" => Live(d)
  BY DEF Live
<1>3. \A d \in Clients : obj[d].core # "starting"
  BY <1>2 DEF CInv, ThreadInv, LiveIsThread
<1> QED BY <1>1, <1>3 DEF CInv, PatientInv, Reached

\* The dynamic challenge, whose cookie is filled in at once.
LEMMA ChallengeExtends ==
    ASSUME NEW q, Good(q), Len(q.slots) + 2 <= MaxSlots
    PROVE  LET asked == Q!RequireAdd(q, CHALLENGE_DYNAMIC, "dynamic_challenge")
               cookie == asked.reqids[Q!get_reqid_index(CHALLENGE_DYNAMIC)]
               stored == Q!UpdateEntry(Q!RequireAdd(asked, CHALLENGE_DYNAMIC, "dynamic_challenge_cookie"),
                                       CHALLENGE_DYNAMIC, cookie, cookie + 1)
           IN  Good(stored) /\ (Asked(q) => Asked(stored))
<1> DEFINE a == Q!RequireAdd(q, CHALLENGE_DYNAMIC, "dynamic_challenge")
           x == Q!get_reqid_index(CHALLENGE_DYNAMIC)
           b == Q!RequireAdd(a, CHALLENGE_DYNAMIC, "dynamic_challenge_cookie")
           s == Q!UpdateEntry(b, CHALLENGE_DYNAMIC, a.reqids[x], a.reqids[x] + 1)
<1>1. Extends(q, a, {CHALLENGE_DYNAMIC}) /\ Len(a.slots) = Len(q.slots) + 1
  BY FitsFacts, AddExtends
<1>2. Good(a)
  BY <1>1 DEF Extends
<1> HIDE DEF a
<1>3. /\ Extends(a, b, {CHALLENGE_DYNAMIC}) /\ Len(b.slots) = Len(a.slots) + 1
      /\ b.slots[Len(a.slots) + 1].tg = CHALLENGE_DYNAMIC /\ b.slots[Len(a.slots) + 1].id = a.reqids[x]
  BY <1>2, FitsFacts, AddExtends
<1> HIDE DEF b
<1>4. Good(b) /\ Extends(q, b, {CHALLENGE_DYNAMIC})
  BY <1>1, <1>3, ExtendsTwice DEF Extends
<1>5. x \in Q!Indexes
  BY GroupFacts DEF Q!Indexes
<1> HIDE DEF x
<1>6. a.reqids[x] + 1 \in 1..MaxSlots
  <2>1. Len(q.slots) \in Nat
    BY DEF Good, QueueType
  <2>2. a.reqids[x] \in Nat /\ a.reqids[x] <= Len(a.slots)
    BY <1>2, <1>5 DEF Good, QueueType
  <2> QED BY <1>1, <2>1, <2>2, ClientBounds
<1>7. Q!ById(b, CHALLENGE_DYNAMIC, a.reqids[x]) # {}
  <2>1. Len(a.slots) + 1 \in DOMAIN b.slots
    BY <1>2, <1>3, <1>4 DEF Good, QueueType
  <2> QED BY <1>3, <2>1 DEF Q!ById, Q!SlotsOf
<1>8. Good(s) /\ DOMAIN s.slots = DOMAIN b.slots
      /\ \A i \in DOMAIN b.slots : s.slots[i].tg = b.slots[i].tg /\ s.slots[i].name = b.slots[i].name
  BY <1>4, <1>6, <1>7, UpdateFacts
<1> HIDE DEF s
<1>9. Asked(q) => Asked(b)
  BY <1>4, ExtendsKeeps
<1>10. Asked(b) => Asked(s)
  BY <1>8 DEF Asked, Has
<1> QED BY <1>8, <1>9, <1>10 DEF s, b, a, x

LEMMA EventKeepsU ==
    ASSUME Patient' => Patient, UInv, CInv, NEW c \in Clients, CoreEvent(c)
    PROVE  UInv'
<1>0. UNCHANGED <<profile, registered, call>>
  BY DEF CoreEvent, CONNECTING, CONNECTED, RECONNECTING, DYNAMIC_CHALLENGE, PROXY_NEED_CREDS, AUTH_PENDING,
         CR_TEXT, CR_TEXT_invalid, OPEN_URL, AUTH_FAILED, ConnectionFails, ConnectionTimeout, FatalEvent,
         SetupFails, CoreEnds, object
<1>1. Reached(c) /\ NoneStarts /\ obj[c].core = "running"
  BY EventStartsNone
<1>2. registered /\ (\A d \in Clients : obj'[d].core # "starting") /\ (Patient => \A k \in Callers : call'[k] # "join")
  BY <1>0, <1>1, NothingElse DEF NoneStarts
<1>3. QueueInv /\ PasswordInv /\ Good(userinputq) /\ creds \in [Names -> Nat] /\ profile \in Profiles
  BY DEF UInv, QueueInv
<1>4. CASE DYNAMIC_CHALLENGE(c)
  <2> DEFINE asked == Q!RequireAdd(userinputq, CHALLENGE_DYNAMIC, "dynamic_challenge")
             cookie == asked.reqids[Q!get_reqid_index(CHALLENGE_DYNAMIC)]
             stored == Q!UpdateEntry(Q!RequireAdd(asked, CHALLENGE_DYNAMIC, "dynamic_challenge_cookie"),
                                     CHALLENGE_DYNAMIC, cookie, cookie + 1)
             cr == AuthPendingSent(vpnclient, stored)
  <2>1. userinputq' = stored /\ creds' = cr /\ Len(userinputq.slots) + 2 <= MaxSlots
    BY <1>4 DEF DYNAMIC_CHALLENGE
  <2>2. Good(stored) /\ (Asked(userinputq) => Asked(stored))
    BY <1>3, <2>1, ChallengeExtends
  <2> HIDE DEF stored
  <2>3. cr \in [Names -> Nat] /\ cr["password"] = creds["password"]
    BY <1>3, <2>2, SentFacts DEF Names
  <2> HIDE DEF cr
  <2>4. Patient => (profile.flow = "username-password" => cr["password"] # 0)
    BY <1>1, <1>3, <2>3 DEF PasswordInv
  <2>5. profile.load = "ok" => Asked(stored)
    BY <1>2, <1>3, <2>2 DEF QueueInv
  <2> QED BY <1>0, <1>2, <1>3, <2>1, <2>2, <2>3, <2>4, <2>5, NextInput
<1>5. CASE PROXY_NEED_CREDS(c)
  <2> DEFINE a == Q!RequireAdd(userinputq, HTTP_PROXY_CREDS, "http_proxy_user")
             b == Q!RequireAdd(a, HTTP_PROXY_CREDS, "http_proxy_pass")
  <2>1. userinputq' = b /\ creds' = creds
    BY <1>5 DEF PROXY_NEED_CREDS
  <2>2. Extends(userinputq, a, {HTTP_PROXY_CREDS})
    BY <1>3, FitsFacts, AddExtends
  <2>3. Good(a)
    BY <2>2 DEF Extends
  <2> HIDE DEF a
  <2>4. Extends(a, b, {HTTP_PROXY_CREDS})
    BY <2>3, FitsFacts, AddExtends
  <2> HIDE DEF b
  <2>5. Extends(userinputq, b, {HTTP_PROXY_CREDS})
    BY <2>2, <2>4, ExtendsTwice
  <2> QED BY <1>0, <1>1, <1>2, <1>3, <2>1, <2>5, ExtendedInput DEF NoneStarts
<1>6. CASE CR_TEXT(c)
  <2> DEFINE a == Q!RequireAdd(userinputq, CHALLENGE_AUTH_PENDING, "auth_pending")
  <2>1. userinputq' = a /\ creds' = creds
    BY <1>6 DEF CR_TEXT
  <2>2. Extends(userinputq, a, {CHALLENGE_AUTH_PENDING})
    BY <1>3, FitsFacts, AddExtends
  <2> HIDE DEF a
  <2> QED BY <1>0, <1>1, <1>2, <1>3, <2>1, <2>2, ExtendedInput DEF NoneStarts
<1>7. CASE ~DYNAMIC_CHALLENGE(c) /\ ~PROXY_NEED_CREDS(c) /\ ~CR_TEXT(c)
  <2>1. UNCHANGED <<userinputq, creds>>
    BY <1>7
       DEF CoreEvent, CONNECTING, CONNECTED, RECONNECTING, AUTH_PENDING, CR_TEXT_invalid, OPEN_URL, AUTH_FAILED,
           ConnectionFails, ConnectionTimeout, FatalEvent, SetupFails, CoreEnds, object
  <2> QED BY <1>0, <1>1, <2>1, SameInput DEF NoneStarts
<1> QED BY <1>4, <1>5, <1>6, <1>7

LEMMA ProgressKeepsU ==
    ASSUME Patient' => Patient, UInv, CInv, NEW c \in Clients, Progress(c)
    PROVE  UInv'
<1>1. UNCHANGED <<profile, registered, call, userinputq, creds>>
  BY DEF Progress, ThreadConnects, CoreStops, DISCONNECTED, ThreadEnds, object
<1> QED BY <1>1, ProgressStartsNone, SameInput DEF NoneStarts

LEMMA QuietInput ==
    ASSUME Patient' => Patient, UInv, SameObjects, UNCHANGED <<profile, registered, userinputq, creds>>,
           \A j \in Callers : call'[j] = "join" => call[j] = "join"
    PROVE  UInv'
<1>1. \A c \in Clients : (Reached(c)' => Reached(c)) /\ (obj'[c].core = "starting" => obj[c].core = "starting")
  BY DEF SameObjects, Reached
<1> QED BY <1>1, SameInput

LEMMA MethodKeepsU ==
    ASSUME Patient' => Patient, UInv, CInv, ~Blanks, NEW k \in Callers, Method(k), ~RegistrationConfirmation(k)
    PROVE  UInv'
<1>1. CASE Query(k) \/ DisconnectIdle(k) \/ ForceShutdown(k)
  <2>1. obj' = obj /\ UNCHANGED <<profile, registered, userinputq, creds, call>>
    BY <1>1 DEF Query, DisconnectIdle, ForceShutdown, object
  <2> QED BY <2>1, UnchangedObjects, QuietInput
<1>2. CASE Pause(k) \/ Resume(k) \/ Restart(k)
  <2>1. UNCHANGED <<profile, registered, userinputq, creds, call>>
    BY <1>2 DEF Pause, Resume, Restart
  <2>2. SameObjects
    BY <1>2, FlagsKeep DEF Pause, Resume, Restart
  <2> QED BY <2>1, <2>2, QuietInput
<1>3. CASE Disconnect(k)
  <2>1. /\ UNCHANGED <<profile, registered, userinputq, creds>> /\ call' = [call EXCEPT ![k] = "disconnect"]
        /\ obj' = [obj EXCEPT ![vpnclient] = [obj[vpnclient] EXCEPT !.stop = TRUE]]
    BY <1>3 DEF Disconnect, StopClient, object
  <2>2. SameObjects
    BY <2>1, FlagsKeep
  <2>3. \A j \in Callers : call'[j] = "join" => call[j] = "join"
    BY <2>1, CallsType
  <2> QED BY <2>1, <2>2, <2>3, QuietInput
<1>4. CASE Connect(k)
  <2>1. /\ UNCHANGED <<profile, registered, userinputq, creds, obj>>
        /\ call' = [call EXCEPT ![k] = ConnectDecision(Authorize)]
    BY <1>4 DEF Connect, object
  <2>2. ConnectDecision(Authorize) \in {"guard", "poll", "ignored"}
    BY DEF ConnectDecision
  <2>3. \A j \in Callers : call'[j] = "join" => call[j] = "join"
    BY <2>1, <2>2, CallsType
  <2> QED BY <2>1, <2>3, UnchangedObjects, QuietInput
<1>5. CASE \E tg \in Groups, id \in 0..(MaxSlots - 1) : UserInputProvide(k, tg, id, id + 1)
  BY <1>5, ProvideKeeps
<1> QED BY <1>1, <1>2, <1>3, <1>4, <1>5 DEF Method

LEMMA RegistrationKeepsU ==
    ASSUME Patient' => Patient, UInv, CInv, NEW k \in Callers, RegistrationConfirmation(k)
    PROVE  UInv'
<1>0. /\ UNCHANGED <<profile, call, obj>> /\ ~registered /\ registered'
      /\ creds' = [creds EXCEPT !["pk_passphrase"] = PrivateKeyPassword]
      /\ userinputq' = IF InitializeError = "ok" THEN Required ELSE userinputq
  BY DEF RegistrationConfirmation, initialize_client
<1>1. /\ QueueInv /\ Good(userinputq) /\ creds \in [Names -> Nat] /\ profile \in Profiles
      /\ userinputq.slots = <<>>
  BY <1>0 DEF UInv, QueueInv
<1>2. \A tg : ~HasAny(userinputq, tg)
  BY <1>1 DEF HasAny
<1>3. InitializeError = "ok" <=> profile.load = "ok"
  BY <1>2, CountFacts DEF InitializeError
<1>4. [creds EXCEPT !["pk_passphrase"] = PrivateKeyPassword] \in [Names -> Nat]
  BY <1>1, KeyFacts
<1>5. /\ \A c \in Clients : obj'[c].core = "new"
      /\ \A j \in Callers : call'[j] # "join"
  BY <1>0, Unregistered
<1>6. CASE InitializeError = "ok"
  <2>1. Extends(userinputq, Required, Initial) /\ Asked(Required)
    BY <1>1, <1>3, <1>6, RequiredFacts
  <2>2. ~HasAny(Required, CHALLENGE_DYNAMIC)
    BY <1>2, <2>1, ExtendsKeeps, GroupFacts DEF Initial
  <2>3. Good(Required) /\ userinputq' = Required
    BY <1>0, <1>6, <2>1 DEF Extends
  <2> QED BY <1>0, <1>1, <1>4, <1>5, <2>1, <2>2, <2>3, NextInput
<1>7. CASE InitializeError # "ok"
  <2>1. userinputq' = userinputq /\ profile.load # "ok" /\ ~HasAny(userinputq, CHALLENGE_DYNAMIC)
    BY <1>0, <1>2, <1>3, <1>7
  <2> QED BY <1>0, <1>1, <1>4, <1>5, <2>1, NextInput
<1> QED BY <1>6, <1>7

\* A Connect call that holds the mutex is alone with it.
LEMMA AloneAtTheMutex ==
    ASSUME CInv, NEW k \in Callers, call[k] = "guard"
    PROVE  /\ registered
           /\ Patient => /\ \A c \in Clients : ~Reached(c) /\ obj[c].core # "starting"
                         /\ \A j \in Callers : call[j] = "join" => j = k
<1>1. registered
  BY Unregistered
<1>2. k \in Undecided /\ \A j \in Callers : call[j] = "join" => j \in Undecided
  BY DEF Undecided
<1> QED BY <1>1, <1>2 DEF CInv, PatientInv, Reached

LEMMA PrepareKeepsU ==
    ASSUME Patient' => Patient, UInv, CInv, NEW k \in Callers, Prepare(k) \/ Refuse(k) \/ CredsRefused(k) \/ PrepareFails(k)
    PROVE  UInv'
<1>0. UNCHANGED <<profile, registered, obj>> /\ call[k] = "guard"
  BY DEF Prepare, Refuse, CredsRefused, PrepareFails, HasMutex
<1>1. QueueInv /\ PasswordInv /\ Good(userinputq) /\ creds \in [Names -> Nat] /\ profile \in Profiles
  BY DEF UInv, QueueInv
<1>2. /\ registered
      /\ Patient => /\ \A c \in Clients : ~Reached(c) /\ obj'[c].core \notin {"starting", "running"}
                    /\ \A j \in Callers : call[j] = "join" => j = k
  BY <1>0, AloneAtTheMutex DEF Reached
<1>3. CASE Prepare(k) \/ CredsRefused(k)
  <2>1. /\ userinputq' = Required /\ creds' = ProvideCreds(Required)
        /\ InitializeError = "ok" /\ AllProvided(Required)
    BY <1>3 DEF Prepare, CredsRefused, initialize_client
  <2>2. profile.load = "ok"
    BY <1>1, <2>1, InitializeOK
  <2>3. Good(Required) /\ Asked(Required)
    BY <1>1, <2>2, RequiredFacts DEF Extends
  <2>4. ProvideCreds(Required) \in [Names -> Nat]
    BY <1>1, <2>3, ProvideType
  <2>5. Patient => /\ Complete(Required, ProvideCreds(Required))
                   /\ profile.flow = "username-password" => ProvideCreds(Required)["password"] # 0
    BY <1>1, <2>1, <2>2, PreparedFacts DEF PasswordInv
  <2> QED BY <1>0, <1>1, <1>2, <2>1, <2>2, <2>3, <2>4, <2>5, NextInput
<1>4. CASE Refuse(k)
  <2>1. /\ userinputq' = Required /\ creds' = [creds EXCEPT !["pk_passphrase"] = PrivateKeyPassword]
        /\ InitializeError = "ok" /\ call' = [call EXCEPT ![k] = "refused"]
    BY <1>4 DEF Refuse, initialize_client
  <2>2. Extends(userinputq, Required, Initial)
    BY <1>1, <2>1, InitializeOK, RequiredFacts
  <2>3. creds' \in [Names -> Nat] /\ creds'["password"] = creds["password"]
    BY <1>1, <2>1, KeyFacts DEF Names
  <2>4. Patient => \A j \in Callers : call'[j] # "join"
    BY <1>2, <2>1, CallsType
  <2>5. CHALLENGE_DYNAMIC \notin Initial
    BY GroupFacts DEF Initial
  <2>6. \A c \in Clients : Reached(c)' => Reached(c)
    BY <1>0 DEF Reached
  <2> QED BY <1>0, <1>2, <2>1, <2>2, <2>3, <2>4, <2>5, <2>6, ExtendedInput
<1>5. CASE PrepareFails(k)
  <2>1. UNCHANGED <<userinputq, creds>> /\ call' = [call EXCEPT ![k] = "refused"]
    BY <1>5 DEF PrepareFails, initialize_client
  <2>2. \A j \in Callers : call'[j] = "join" => call[j] = "join"
    BY <2>1, CallsType
  <2> QED BY <1>0, <2>1, <2>2, UnchangedObjects, QuietInput
<1> QED BY <1>3, <1>4, <1>5

LEMMA StartThreadKeepsU ==
    ASSUME Patient' => Patient, UInv, CInv, NEW k \in Callers, StartThread(k)
    PROVE  UInv'
<1>0. /\ UNCHANGED <<profile, registered, userinputq, creds>> /\ call[k] = "join"
  BY DEF StartThread
<1>1. QueueInv /\ PasswordInv /\ Good(userinputq) /\ creds \in [Names -> Nat] /\ profile \in Profiles
  BY DEF UInv, QueueInv
<1>2. Patient => Complete(userinputq, creds) /\ (profile.flow = "username-password" => creds["password"] # 0)
  BY <1>0, <1>1 DEF PasswordInv
<1> QED BY <1>0, <1>1, <1>2, NextInput DEF QueueInv

LEMMA InitialU == Init => UInv
<1> SUFFICES ASSUME Init PROVE UInv
  OBVIOUS
<1>1. Q!EmptyQueue.slots = <<>> /\ Q!EmptyQueue.reqids = [x \in Q!Indexes |-> 0]
  BY DEF Q!EmptyQueue
<1>2. userinputq = Q!EmptyQueue /\ creds = [n \in Names |-> 0] /\ profile \in Profiles /\ ~registered
  BY DEF Init
<1>3. Q!EmptyQueue \in QueueType
  BY <1>1 DEF Q!EmptyQueue, QueueType
<1>4. Good(userinputq)
  BY <1>1, <1>2, <1>3 DEF Good
<1>5. QueueInv
  BY <1>1, <1>2, <1>4 DEF QueueInv, Names
<1>6. ~HasAny(userinputq, CHALLENGE_DYNAMIC)
  BY <1>1, <1>2 DEF HasAny
<1>7. (\A c \in Clients : obj[c].core = "new") /\ (\A k \in Callers : call[k] = "idle")
  BY DEF Init, NewClient
<1>8. PasswordInv
  BY <1>6, <1>7 DEF PasswordInv, Reached
<1> QED BY <1>5, <1>8 DEF UInv

LEMMA InductiveU ==
    ASSUME ~Blanks, CInv, UInv, [Next]_vars
    PROVE  UInv'
<1> SUFFICES ASSUME Patient' => Patient PROVE UInv'
  BY StaysPatient
<1>1. ASSUME NEW k \in Callers, Method(k) PROVE UInv'
  BY <1>1, MethodKeepsU, RegistrationKeepsU
<1>2. ASSUME NEW k \in Callers, Continue(k) PROVE UInv'
  <2>1. CASE Recheck(k) \/ GiveUp(k) \/ Answer(k) \/ Disconnected(k)
    <3>1. /\ obj' = obj /\ UNCHANGED <<profile, registered, userinputq, creds>>
          /\ call' = call \/ call' = [call EXCEPT ![k] = "idle"] \/ call' = [call EXCEPT ![k] = ConnectDecision(vpnclient)]
      BY <2>1 DEF Recheck, GiveUp, Answer, Disconnected, object
    <3>2. ConnectDecision(vpnclient) \in {"guard", "poll", "ignored"}
      BY DEF ConnectDecision
    <3>3. \A j \in Callers : call'[j] = "join" => call[j] = "join"
      BY <3>1, <3>2, CallsType
    <3> QED BY <3>1, <3>3, UnchangedObjects, QuietInput
  <2>2. CASE Prepare(k) \/ Refuse(k) \/ CredsRefused(k) \/ PrepareFails(k)
    BY <2>2, PrepareKeepsU
  <2>3. CASE StartThread(k)
    BY <2>3, StartThreadKeepsU
  <2> QED BY <1>2, <2>1, <2>2, <2>3 DEF Continue
<1>3. ASSUME NEW c \in Clients, Progress(c) \/ CoreEvent(c) PROVE UInv'
  BY <1>3, ProgressKeepsU, EventKeepsU
<1>4. CASE Die \/ UNCHANGED vars
  <2>1. obj' = obj /\ UNCHANGED <<profile, registered, userinputq, creds, call>>
    BY <1>4 DEF Die, vars, object
  <2> QED BY <2>1, UnchangedObjects, QuietInput
<1> QED BY <1>1, <1>2, <1>3, <1>4 DEF Next

LEMMA InvariantU == ~Blanks => (Spec => []UInv)
<1>1. CASE ~Blanks
  <2>1. CInv /\ UInv /\ [Next]_vars => UInv'
    BY <1>1, InductiveU
  <2> QED BY <2>1, InitialU, InvariantC, PTL DEF Spec
<1> QED BY <1>1

(* When no blank values are provided, and as long as no two Connect calls  *)
(* have overlapped, a connection is started only with a value for          *)
(* everything the process has asked the user so far, for any sequence of   *)
(* challenges, failures and Connect calls (cb_connect() and connect()).    *)
(* That the value was meant for the latest challenge is not claimed.       *)
THEOREM CredentialsAreComplete == ~Blanks => (Spec => []CredentialsComplete)
<1>1. UInv => CredentialsComplete
  BY DEF UInv, PasswordInv, Complete, CredentialsComplete
<1>2. CASE ~Blanks
  <2>1. Spec => []UInv
    BY <1>2, InvariantU
  <2> QED BY <1>1, <2>1, PTL
<1> QED BY <1>2

\* Only these steps refuse a Connect call that waits for the mutex.
LEMMA Refusals ==
    ASSUME CInv, Next, NEW k \in Callers, call[k] = "guard", call'[k] = "refused"
    PROVE  Refuse(k) \/ CredsRefused(k) \/ PrepareFails(k)
<1>1. ASSUME NEW j \in Callers, j # k \/ call[j] # "guard", NEW x, call' = [call EXCEPT ![j] = x] PROVE FALSE
  BY <1>1 DEF CInv, JoinInv
<1>2. ASSUME NEW x, x # "refused", call' = [call EXCEPT ![k] = x] PROVE FALSE
  BY <1>2 DEF CInv, JoinInv
<1>3. ASSUME NEW j \in Callers, Method(j) PROVE FALSE
  <2>1. call[j] # "guard"
    BY <1>3 DEF Method, Query, RegistrationConfirmation, Connect, Pause, Resume, Restart, Disconnect,
                DisconnectIdle, ForceShutdown, UserInputProvide, Called
  <2>2. call' = call \/ call' = [call EXCEPT ![j] = ConnectDecision(Authorize)] \/ call' = [call EXCEPT ![j] = "disconnect"]
    BY <1>3 DEF Method, Query, RegistrationConfirmation, Connect, Pause, Resume, Restart, Disconnect,
                DisconnectIdle, ForceShutdown, UserInputProvide
  <2> QED BY <1>1, <2>1, <2>2
<1>4. ASSUME NEW j \in Callers, Recheck(j) \/ GiveUp(j) \/ StartThread(j) \/ Answer(j) \/ Disconnected(j) PROVE FALSE
  <2>1. call[j] # "guard"
    BY <1>4 DEF Recheck, GiveUp, StartThread, Answer, Disconnected
  <2>2. \/ call' = call \/ call' = [call EXCEPT ![j] = ConnectDecision(vpnclient)]
        \/ call' = [call EXCEPT ![j] = "idle"] \/ call' = [call EXCEPT ![j] = "started"]
    BY <1>4 DEF Recheck, GiveUp, StartThread, Answer, Disconnected
  <2> QED BY <1>1, <2>1, <2>2
<1>5. ASSUME NEW j \in Callers, Prepare(j) PROVE FALSE
  <2>1. call' = [call EXCEPT ![j] = "join"]
    BY <1>5 DEF Prepare
  <2> QED BY <1>1, <1>2, <2>1
<1>6. ASSUME NEW j \in Callers, Refuse(j) \/ CredsRefused(j) \/ PrepareFails(j) PROVE j = k
  <2>1. call' = [call EXCEPT ![j] = "refused"]
    BY <1>6 DEF Refuse, CredsRefused, PrepareFails
  <2> QED BY <1>1, <2>1
<1>7. call' # call
  OBVIOUS
<1>8. ~Die /\ \A c \in Clients : ~Progress(c) /\ ~CoreEvent(c)
  BY <1>7 DEF Die, Progress, ThreadConnects, CoreStops, DISCONNECTED, ThreadEnds, CoreEvent, CONNECTING, CONNECTED,
              RECONNECTING, DYNAMIC_CHALLENGE, PROXY_NEED_CREDS, AUTH_PENDING, CR_TEXT, CR_TEXT_invalid, OPEN_URL,
              AUTH_FAILED, ConnectionFails, ConnectionTimeout, FatalEvent, SetupFails, CoreEnds
<1> QED BY <1>3, <1>4, <1>5, <1>6, <1>8 DEF Next, Continue

\* This is the action of ReadyMeansConnect.
RefusedForInput ==
    \A k \in Callers : call[k] = "guard" /\ call'[k] = "refused" /\ proc' = "up"
        => profile.static \/ ~Q!QueueAllDone(userinputq)

(* A process that is Ready does not refuse Connect for missing input, if   *)
(* no blank value was provided and the profile has no static challenge     *)
(* (Ready, cb_connect() and initialize_client()).                          *)
THEOREM ReadyProcessesConnect == ~Blanks => (Spec => ReadyMeansConnect)
<1>1. ASSUME CInv, UInv, Next PROVE RefusedForInput
  <2> SUFFICES ASSUME NEW k \in Callers, call[k] = "guard", call'[k] = "refused", proc' = "up",
                      ~profile.static, AllProvided(userinputq)
               PROVE  FALSE
    BY DEF RefusedForInput, AllProvided
  <2>0. registered /\ QueueInv /\ Good(userinputq)
    BY <1>1, AloneAtTheMutex DEF UInv, QueueInv
  <2>1. Refuse(k) \/ CredsRefused(k) \/ PrepareFails(k)
    BY <1>1, Refusals
  <2>2. CASE Refuse(k)
    <3>1. profile.load = "ok" /\ ~AllProvided(Required)
      BY <2>0, <2>2, InitializeOK DEF Refuse
    <3>2. Required = userinputq
      BY <2>0, <3>1, RequiredFacts
    <3> QED BY <3>1, <3>2
  <2>3. CASE CredsRefused(k)
    BY <2>3 DEF CredsRefused, LogFATAL
  <2>4. CASE PrepareFails(k)
    <3>1. InitializeError = "passphrase"
      BY <2>4 DEF PrepareFails, LogFATAL
    <3>2. profile.load # "passphrase"
      BY <2>0, ProfilesAssumption DEF QueueInv
    <3>3. /\ HasAny(userinputq, PK_PASSPHRASE)
          /\ Q!GetResponse(userinputq, PK_PASSPHRASE, "pk_passphrase").err # "ok"
      BY <3>1, <3>2, CountFacts DEF InitializeError
    <3> QED BY <2>0, <3>3, KeyFacts, ResponseFacts
  <2> QED BY <2>1, <2>2, <2>3, <2>4
<1>2. CInv /\ UInv /\ [Next]_vars => [RefusedForInput]_vars
  BY <1>1
<1>3. ReadyMeansConnect <=> [][RefusedForInput]_vars
  BY PTL DEF ReadyMeansConnect, RefusedForInput
<1>4. CASE ~Blanks
  <2>1. Spec => []UInv
    BY <1>4, InvariantU
  <2> QED BY <1>2, <1>3, <2>1, InvariantC, PTL DEF Spec
<1> QED BY <1>4

=============================================================================
