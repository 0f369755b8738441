----------------------- MODULE RestartedClientProofs -----------------------
(***************************************************************************)
(* Proofs about a session and the row of client processes that serve it:   *)
(* the restarts are bounded by the retry counter, and every process        *)
(* connects with the DCO setting and the log level that were chosen.  Then *)
(* about the identity of the host that each of them sends to the server:   *)
(* it is the same one (module MachineId, which shares no state with the    *)
(* others).                                                                *)
(***************************************************************************)
EXTENDS MCRestartedClient, FiniteSetTheorems, TLAPS

-----------------------------------------------------------------------------
(* The restart timer *)

TimerType == timer \in [retries: Nat, armed: BOOLEAN] /\ armings \in Nat

\* The limit alone is not inductive: the counter has to be tied to the number of
\* restarts, also before the first crash.
TimerInv ==
    /\ TimerType
    /\ BoundedRestarts
    /\ timer.retries = 0 => armings = 0

LEMMA ResetType ==
    ASSUME NEW t \in [retries: Nat, armed: BOOLEAN], NEW c, NEW l
    PROVE  /\ Reset(t, c, l) \in [retries: Nat \ {0}, armed: BOOLEAN]
           /\ Reset(t, c, l).retries \in {1, t.retries}
BY DEF Reset, Entry

LEMMA CrashKeepsTimer ==
    ASSUME TimerInv, NEW d \in Uptimes, Crash(d)
    PROVE  TimerInv'
<1> DEFINE r == Reset(timer, last, LongAgo(timer, Waited(timer) + d))
<1>1. r \in [retries: Nat \ {0}, armed: BOOLEAN] /\ r.retries \in {1, timer.retries}
  BY ResetType DEF TimerInv, TimerType
<1>2. /\ timer' = Arm(r)
      /\ armings' = (IF r.retries = 1 THEN 0 ELSE armings) + (IF GivesUp(r) THEN 0 ELSE 1)
  BY DEF Crash
<1> HIDE DEF r
<1>3. CASE GivesUp(r)
  <2>1. r.retries > 1
    BY <1>1, <1>3, MaxRetriesAssumption DEF GivesUp
  <2> QED BY <1>1, <1>2, <1>3, <2>1, MaxRetriesAssumption DEF TimerInv, TimerType, BoundedRestarts, Arm, GivesUp
<1>4. CASE ~GivesUp(r)
  BY <1>1, <1>2, <1>4, MaxRetriesAssumption DEF TimerInv, TimerType, BoundedRestarts, Arm, GivesUp
<1> QED BY <1>3, <1>4

LEMMA TimerStep == TimerInv /\ [SystemNext]_systemVars => TimerInv'
<1> SUFFICES ASSUME TimerInv, [SystemNext]_systemVars PROVE TimerInv'
  OBVIOUS
<1>1. CASE UNCHANGED backoffVars
  BY <1>1 DEF TimerInv, TimerType, BoundedRestarts, backoffVars, vars
<1>2. ASSUME NEW c \in BOOLEAN, Reports(c) PROVE TimerInv'
  BY <1>2 DEF Reports, StatusChange, TimerInv, TimerType, BoundedRestarts
<1>3. ASSUME NEW d \in Uptimes, Disappears(d) PROVE TimerInv'
  BY <1>3, CrashKeepsTimer DEF Disappears
<1>4. CASE RestartProcess
  BY <1>4 DEF RestartProcess, Restart, Fired, TimerInv, TimerType, BoundedRestarts
<1> QED BY <1>1, <1>2, <1>3, <1>4 DEF SystemNext, systemVars

(* BOUNDED RESTARTS: whatever the processes do and however long they live,  *)
(* between two resets of the retry counter at most MaxRetries restarts are  *)
(* started (NameDisappeared handler of tunnel-queue.cpp).                   *)
THEOREM RestartsAreBounded == SystemSpec => []BoundedRestarts
<1>1. SystemInit => TimerInv
  BY MaxRetriesAssumption DEF SystemInit, Init, NoEntry, TimerInv, TimerType, BoundedRestarts
<1>2. TimerInv => BoundedRestarts
  BY DEF TimerInv
<1> QED BY <1>1, <1>2, TimerStep, PTL DEF SystemSpec

-----------------------------------------------------------------------------
(* The settings a process connects with *)

LogLevel == Nat \cup {None}
Text == [verb: LogLevel, compatible: BOOLEAN, valid: BOOLEAN]

SettingsType ==
    /\ client \in [level: Nat, log: LogLevel, dco: BOOLEAN, text: Texts \cup {None}, doomed: BOOLEAN]
    /\ session \in [exists: BOOLEAN, dco: BOOLEAN, level: Nat, status: {"UNCHANGED", "MODIFIED", "LOCKED"},
                    pre: BOOLEAN]
    /\ profile \in [dco: BOOLEAN, log: LogLevels, text: Texts]
    /\ wanted \in [choice: {"none", "on", "off"}, fetched: BOOLEAN, before: BOOLEAN, again: BOOLEAN, late: BOOLEAN]

FetchedLevel(c) == IF c.log # None THEN c.log ELSE Client!DefaultLevel

\* What the process has got hold of so far, stage by stage.
LevelInv ==
    /\ stage \in {"attached", "named"} => client.log = None /\ client.level = Client!DefaultLevel
    /\ stage = "fetching" => client.level = FetchedLevel(client)
    /\ stage \in Client!Watched => client.text # None /\ client.level = Client!ChosenLevel(client)

\* Where the user's choice is kept: in the session object while it is MODIFIED, which it
\* is until the first Connect locks it.
ChoiceInv ==
    /\ wanted.before <=> session.status = "LOCKED"
    /\ session.status = "MODIFIED" => wanted.choice = Client!OnOff(session.dco)
    /\ session.status = "UNCHANGED" => wanted.choice = "none"

\* The process has what counts for it once Connect has passed it on.
Passed == ~wanted.late => (client.dco /\ client.text.compatible) = (Client!Chosen(wanted) /\ client.text.compatible)

\* What the process has: the profile's setting before that.
DcoInv ==
    /\ stage \in {"fetching"} \cup Client!Watched =>
        wanted.again \in BOOLEAN /\ (wanted.again => session.status = "LOCKED")
    /\ stage = "fetching" =>
        client.dco = wanted.fetched /\ ~wanted.late /\ (session.status = "LOCKED" => wanted.again)
    /\ stage \in {"ready", "idle"} /\ session.status # "LOCKED" =>
        ~wanted.late /\ client.dco = (wanted.fetched /\ client.text.compatible)
    /\ stage \in {"ready", "idle"} /\ session.status = "LOCKED" => Passed
    /\ stage \in {"pushed", "locked"} => Passed
    /\ stage \in {"locked", "connected"} => session.status = "LOCKED"
    /\ Client!DcoAsChosen

SettingsInv == SettingsType /\ LevelInv /\ ChoiceInv /\ DcoInv

\* Leaving a setting alone at a stage before the process has any, or after its end.
Early == {"none", "child", "launcher", "daemon", "copy", "gone"}

LEMMA EarlyKeeps ==
    ASSUME SettingsInv, stage' \in Early, client' \in {client, Client!NewClient},
           session' \in {session, [session EXCEPT !.exists = FALSE]}, UNCHANGED <<profile, wanted>>
    PROVE  SettingsInv'
<1>1. Client!NewClient \in [level: Nat, log: LogLevel, dco: BOOLEAN, text: Texts \cup {None}, doomed: BOOLEAN]
  BY DEF Client!NewClient, Client!DefaultLevel, LogLevel
<1>2. SettingsType'
  BY <1>1 DEF SettingsInv, SettingsType
<1>3. LevelInv' /\ DcoInv'
  BY DEF LevelInv, DcoInv, Early, Client!Watched, Client!DcoAsChosen
<1>4. ChoiceInv'
  BY DEF SettingsInv, SettingsType, ChoiceInv
<1> QED BY <1>2, <1>3, <1>4 DEF SettingsInv

LEMMA SameKeeps ==
    ASSUME SettingsInv, UNCHANGED <<stage, client, session, wanted>>, profile' \in [dco: BOOLEAN, log: LogLevels, text: Texts]
    PROVE  SettingsInv'
<1>1. SettingsType' /\ ChoiceInv'
  BY DEF SettingsInv, SettingsType, ChoiceInv
<1>2. LevelInv'
  BY DEF SettingsInv, LevelInv, Client!Watched, Client!ChosenLevel, FetchedLevel
<1>3. DcoInv'
  BY DEF SettingsInv, DcoInv, Passed, Client!Watched, Client!DcoAsChosen, Client!Chosen
<1> QED BY <1>1, <1>2, <1>3 DEF SettingsInv

\* What the properties of the session object other than "dco" and the reading of "dco" change.
LEMMA OtherKeeps ==
    ASSUME SettingsInv, UNCHANGED <<stage, client, profile, wanted>>,
           session' \in [exists: BOOLEAN, dco: BOOLEAN, level: Nat, status: {"UNCHANGED", "MODIFIED", "LOCKED"},
                         pre: BOOLEAN],
           session'.status = session.status, session.status = "MODIFIED" => session'.dco = session.dco
    PROVE  SettingsInv'
<1>1. SettingsType' /\ ChoiceInv'
  BY DEF SettingsInv, SettingsType, ChoiceInv
<1>2. LevelInv'
  BY DEF SettingsInv, LevelInv, Client!Watched, Client!ChosenLevel, FetchedLevel
<1>3. DcoInv'
  BY DEF SettingsInv, DcoInv, Passed, Client!Watched, Client!DcoAsChosen, Client!Chosen
<1> QED BY <1>1, <1>2, <1>3 DEF SettingsInv

\* Connect passes on a choice that it has not passed on before.
LEMMA PushKeeps ==
    ASSUME SettingsInv, NEW from \in {"ready", "idle"}, Client!ConnectPush(from)
    PROVE  SettingsInv'
<1>1. /\ stage \in {"ready", "idle"} /\ stage' = "pushed" /\ UNCHANGED <<session, profile, wanted>>
      /\ client' = IF session.status = "MODIFIED" THEN [client EXCEPT !.dco = session.dco] ELSE client
  BY DEF Client!ConnectPush, Client!To
<1>2. SettingsType' /\ client'.level = client.level /\ client'.log = client.log /\ client'.text = client.text
      /\ client'.dco = IF session.status = "MODIFIED" THEN session.dco ELSE client.dco
  BY <1>1 DEF SettingsInv, SettingsType
<1>3. LevelInv' /\ ChoiceInv'
  BY <1>1, <1>2 DEF SettingsInv, LevelInv, ChoiceInv, Client!Watched, Client!ChosenLevel
<1>4. Passed'
  <2>1. CASE session.status = "LOCKED"
    BY <1>1, <1>2, <2>1 DEF SettingsInv, SettingsType, DcoInv, Passed, Client!Chosen
  <2>2. CASE session.status = "MODIFIED"
    <3>1. ~wanted.again /\ wanted.choice = Client!OnOff(session.dco) /\ session.dco \in BOOLEAN
      BY <1>1, <2>2 DEF SettingsInv, SettingsType, ChoiceInv, DcoInv, Client!Watched
    <3>2. Client!Chosen(wanted) = session.dco
      BY <3>1 DEF Client!Chosen, Client!OnOff
    <3>3. client'.dco = session.dco
      BY <1>2, <2>2
    <3> QED BY <1>1, <3>2, <3>3 DEF Passed, Client!Chosen
  <2>3. CASE session.status = "UNCHANGED"
    <3>1. wanted.choice = "none" /\ client'.dco = (wanted.fetched /\ client.text.compatible) /\ client'.text = client.text
      BY <1>1, <1>2, <2>3 DEF SettingsInv, SettingsType, ChoiceInv, DcoInv
    <3>2. Client!Chosen(wanted) = wanted.fetched
      BY <3>1 DEF Client!Chosen
    <3> QED BY <1>1, <3>1, <3>2 DEF Passed, Client!Chosen
  <2> QED BY <2>1, <2>2, <2>3 DEF SettingsInv, SettingsType
<1>5. DcoInv'
  BY <1>1, <1>4 DEF SettingsInv, SettingsType, DcoInv, Client!DcoAsChosen, Client!Watched
<1> QED BY <1>2, <1>3, <1>5 DEF SettingsInv

\* cb_connect() initialises the client object, whether it refuses or not.
LEMMA InitializeKeeps ==
    ASSUME SettingsInv, stage = "locked", stage' \in {"connected", "idle"}, UNCHANGED <<session, profile, wanted>>,
           client' = Client!initialize_client(client)
    PROVE  SettingsInv'
<1>1. /\ client.text \in Text /\ client.text # None /\ client.text \in Texts /\ client.log \in LogLevel
      /\ client.level = Client!ChosenLevel(client)
  BY TextsAssumption DEF SettingsInv, SettingsType, LevelInv, Text, LogLevel, Client!Watched
<1>2. client'.text = client.text /\ client'.log = client.log
  BY DEF SettingsInv, SettingsType, Client!initialize_client
<1>3. client'.level = Client!ChosenLevel(client') /\ client'.level \in Nat
  BY <1>1, <1>2 DEF SettingsInv, SettingsType, Client!initialize_client, Client!ChosenLevel, Client!Capped,
                    Text, LogLevel, Client!DefaultLevel
<1>4. client'.dco = (client.dco /\ client.text.compatible) /\ client'.dco \in BOOLEAN
  BY <1>1 DEF SettingsInv, SettingsType, Client!initialize_client
<1>5. SettingsType'
  BY <1>2, <1>3, <1>4 DEF SettingsInv, SettingsType, Client!initialize_client
<1>6. LevelInv' /\ ChoiceInv'
  BY <1>1, <1>2, <1>3 DEF SettingsInv, LevelInv, ChoiceInv
<1>7. Passed
  BY DEF SettingsInv, DcoInv
<1>8. ~wanted.late => client'.dco = (Client!Chosen(wanted) /\ client'.text.compatible)
  BY <1>2, <1>4, <1>7 DEF Passed
<1>9. Client!Chosen(wanted)' = Client!Chosen(wanted)
  BY DEF Client!Chosen
<1>10. Passed' /\ Client!DcoAsChosen'
  BY <1>8, <1>9 DEF Passed, Client!DcoAsChosen
<1>11. stage' = "idle" => session.status = "LOCKED"
  BY DEF SettingsInv, DcoInv
<1>12. DcoInv'
  BY <1>10, <1>11 DEF SettingsInv, SettingsType, DcoInv, Client!Watched
<1> QED BY <1>5, <1>6, <1>12 DEF SettingsInv

LEMMA StartsKeeps == SettingsInv /\ Client!Starts => SettingsInv'
<1> SUFFICES ASSUME SettingsInv, Client!Starts PROVE SettingsInv'
  OBVIOUS
<1>1. CASE Client!Activate \/ Client!Reap(FALSE)
  BY <1>1, SameKeeps DEF SettingsInv, SettingsType, Client!Activate, Client!Reap
<1>2. ASSUME NEW uid \in Uids, Client!StartClient(uid) PROVE SettingsInv'
  BY <1>2, EarlyKeeps DEF Client!StartClient, Early
<1>3. CASE Client!Exec \/ Client!Daemonize
  BY <1>3, EarlyKeeps DEF Client!Exec, Client!Daemonize, Client!To, Early
<1>4. CASE Client!ConstructService
  BY <1>4 DEF Client!ConstructService, Client!To, Client!NewClient, Client!DefaultLevel, Client!Watched,
              Client!DcoAsChosen, LogLevel, SettingsInv, SettingsType, LevelInv, ChoiceInv, DcoInv
<1>5. CASE Client!BusNameAcquired
  BY <1>5 DEF Client!BusNameAcquired, Client!To, Client!Watched, Client!DcoAsChosen,
              SettingsInv, SettingsType, LevelInv, ChoiceInv, DcoInv
<1>6. CASE Client!FetchSettings
  <2> DEFINE fetched == [client EXCEPT !.dco = profile.dco]
             h == IF session.exists THEN wanted ELSE Client!NewHistory
  <2>1. /\ stage = "named" /\ stage' = "fetching" /\ UNCHANGED profile
        /\ client' = Client!set_overrides(fetched, profile.log)
        /\ session' = IF session.exists THEN [session EXCEPT !.pre = TRUE] ELSE Client!NewSession
        /\ wanted' = [h EXCEPT !.fetched = profile.dco, !.again = h.before, !.late = FALSE]
    BY <1>6 DEF Client!FetchSettings
  <2>2. profile.log \in LogLevel /\ profile.dco \in BOOLEAN /\ None \notin Nat
    BY LogLevelsAssumption DEF SettingsInv, SettingsType, LogLevel
  <2>3. client'.level = FetchedLevel(client') /\ client'.dco = profile.dco
    BY <2>1, <2>2 DEF SettingsInv, SettingsType, LevelInv, LogLevel, FetchedLevel, Client!set_overrides,
                      Client!SetLogLevelOk, Client!DefaultLevel
  <2>4. /\ wanted' \in [choice: {"none", "on", "off"}, fetched: BOOLEAN, before: BOOLEAN, again: BOOLEAN, late: BOOLEAN]
        /\ wanted'.choice = h.choice /\ wanted'.before = h.before /\ wanted'.fetched = profile.dco
        /\ wanted'.again = h.before /\ wanted'.late = FALSE
    BY <2>1, <2>2 DEF SettingsInv, SettingsType, Client!NewHistory
  <2>5. SettingsType'
    BY <2>1, <2>2, <2>4 DEF SettingsInv, SettingsType, LogLevel, Client!set_overrides, Client!SetLogLevelOk,
                      Client!NewSession, Client!DefaultLevel
  <2>6. LevelInv'
    BY <2>1, <2>3 DEF LevelInv, Client!Watched
  <2>7. ChoiceInv'
    BY <2>1, <2>4 DEF SettingsInv, SettingsType, ChoiceInv, Client!NewSession, Client!NewHistory
  <2>8. DcoInv'
    BY <2>1, <2>3, <2>4, <2>7 DEF SettingsInv, SettingsType, ChoiceInv, DcoInv, Client!DcoAsChosen
  <2> QED BY <2>5, <2>6, <2>7, <2>8 DEF SettingsInv
<1>7. CASE Client!FetchText
  <2> DEFINE c == [client EXCEPT !.text = profile.text]
  <2>1. /\ stage = "fetching" /\ stage' \in {"ready", "idle"} /\ UNCHANGED <<session, profile, wanted>>
        /\ client' = Client!initialize_client(c)
    BY <1>7 DEF Client!FetchText, Client!To
  <2>2. /\ profile.text \in Texts /\ profile.text \in Text /\ profile.text # None
        /\ client.log \in LogLevel /\ client.level \in Nat /\ client.dco \in BOOLEAN
        /\ client.level = FetchedLevel(client)
    BY <2>1, TextsAssumption DEF SettingsInv, SettingsType, LevelInv, Text, LogLevel
  <2>3. client'.text = profile.text /\ client'.log = client.log /\ client'.doomed = client.doomed
    BY <2>1 DEF SettingsInv, SettingsType, Client!initialize_client
  <2>4. client'.level = Client!ChosenLevel(client') /\ client'.level \in Nat
    BY <2>1, <2>2, <2>3 DEF SettingsInv, SettingsType, Client!initialize_client, Client!ChosenLevel, FetchedLevel, Client!Capped,
                            Text, LogLevel, Client!DefaultLevel
  <2>5. client'.dco = (client.dco /\ client'.text.compatible) /\ client'.dco \in BOOLEAN
    BY <2>1, <2>2, <2>3 DEF SettingsInv, SettingsType, Client!initialize_client
  <2>6. SettingsType'
    BY <2>1, <2>2, <2>3, <2>4, <2>5 DEF SettingsInv, SettingsType, Client!initialize_client
  <2>7. LevelInv'
    BY <2>1, <2>2, <2>3, <2>4 DEF LevelInv
  <2>8. ChoiceInv' /\ DcoInv'
    BY <2>1, <2>5 DEF SettingsInv, SettingsType, ChoiceInv, DcoInv, Passed, Client!DcoAsChosen, Client!Chosen
  <2> QED BY <2>6, <2>7, <2>8 DEF SettingsInv
<1>8. CASE Client!ConnectPush("ready")
  BY <1>8, PushKeeps
<1>9. CASE Client!ConnectLock
  <2>1. /\ stage = "pushed" /\ stage' = "locked" /\ UNCHANGED <<client, profile>>
        /\ session' = [session EXCEPT !.status = "LOCKED", !.level = client.level]
        /\ wanted' = [wanted EXCEPT !.before = TRUE]
    BY <1>9 DEF Client!ConnectLock
  <2>2. SettingsType' /\ ChoiceInv'
    BY <2>1 DEF SettingsInv, SettingsType, ChoiceInv
  <2>3. LevelInv'
    BY <2>1 DEF SettingsInv, LevelInv, Client!Watched, Client!ChosenLevel
  <2>4. DcoInv'
    BY <2>1 DEF SettingsInv, SettingsType, DcoInv, Passed, Client!DcoAsChosen, Client!Chosen, Client!Watched
  <2> QED BY <2>2, <2>3, <2>4 DEF SettingsInv
<1>10. CASE Client!ConnectStart
  BY <1>10, InitializeKeeps DEF Client!ConnectStart, Client!To
<1> QED BY <1>1, <1>2, <1>3, <1>4, <1>5, <1>6, <1>7, <1>8, <1>9, <1>10 DEF Client!Starts

LEMMA FailsKeeps == SettingsInv /\ Client!Fails => SettingsInv'
<1> SUFFICES ASSUME SettingsInv, Client!Fails PROVE SettingsInv'
  OBVIOUS
<1>1. CASE Client!ActivateFails \/ Client!Reap(TRUE) \/ Client!CallTimeout \/ Client!IdleExit \/ Client!StartClientFails
  BY <1>1, SameKeeps DEF SettingsInv, SettingsType, Client!ActivateFails, Client!Reap, Client!CallTimeout,
                         Client!IdleExit, Client!StartClientFails
<1>2. CASE Client!ExecFails \/ Client!DaemonizeFails \/ Client!ConstructServiceFails
  BY <1>2, EarlyKeeps DEF Client!ExecFails, Client!DaemonizeFails, Client!ConstructServiceFails, Client!To, Early
<1>3. CASE Client!FetchTextFails \/ Client!DiesUnwatched
  BY <1>3, EarlyKeeps DEF Client!FetchTextFails, Client!DiesUnwatched, Client!Ends, Early
<1>4. CASE Client!ReadyThrows
  BY <1>4 DEF Client!ReadyThrows, Client!To, SettingsInv, SettingsType, LevelInv, ChoiceInv, DcoInv, Passed,
     Client!Watched, Client!ChosenLevel, Client!Chosen, Client!DcoAsChosen
<1>5. CASE Client!ConnectRefused
  BY <1>5, InitializeKeeps DEF Client!ConnectRefused, Client!To
<1> QED BY <1>1, <1>2, <1>3, <1>4, <1>5 DEF Client!Fails

LEMMA UsersKeep == SettingsInv /\ Client!Users => SettingsInv'
<1> SUFFICES ASSUME SettingsInv, Client!Users PROVE SettingsInv'
  OBVIOUS
<1>1. ASSUME NEW value \in BOOLEAN, Client!SetDCO(value) PROVE SettingsInv'
  <2>1. /\ UNCHANGED <<stage, client, profile>> /\ stage \in Client!Watched
        /\ session' = [session EXCEPT !.dco = value, !.status = "MODIFIED"]
        /\ wanted' = [wanted EXCEPT !.choice = Client!OnOff(value), !.late = stage = "pushed"]
        /\ session.status # "LOCKED"
    BY <1>1 DEF Client!SetDCO
  <2>2. SettingsType' /\ ChoiceInv'
    BY <2>1 DEF SettingsInv, SettingsType, ChoiceInv, Client!OnOff
  <2>3. LevelInv'
    BY <2>1 DEF SettingsInv, LevelInv, Client!ChosenLevel, Client!Watched
  <2>4. stage # "locked" /\ (stage = "connected" => FALSE)
    BY <2>1 DEF SettingsInv, DcoInv
  <2>5. session'.status = "MODIFIED" /\ stage \in {"idle", "ready", "pushed"} /\ ~wanted.again
    BY <2>1, <2>4 DEF SettingsInv, SettingsType, DcoInv, Client!Watched
  <2>6. stage \in {"ready", "idle"} => client.dco = (wanted.fetched /\ client.text.compatible)
    BY <2>1 DEF SettingsInv, DcoInv
  <2>8. wanted'.fetched = wanted.fetched /\ wanted'.again = wanted.again /\ wanted'.late = (stage = "pushed")
    BY <2>1 DEF SettingsInv, SettingsType
  <2>9. (stage = "pushed" => wanted'.late) /\ (stage # "pushed" => ~wanted'.late)
    BY <2>8
  <2>7. DcoInv'
    <3>1. CASE stage = "pushed"
      BY <2>1, <2>5, <2>8, <2>9, <3>1 DEF SettingsInv, DcoInv, Passed, Client!DcoAsChosen, Client!Watched
    <3>2. CASE stage \in {"idle", "ready"}
      BY <2>1, <2>5, <2>6, <2>8, <2>9, <3>2 DEF SettingsInv, DcoInv, Client!DcoAsChosen, Client!Watched
    <3> QED BY <2>5, <3>1, <3>2
  <2> QED BY <2>2, <2>3, <2>7 DEF SettingsInv
<1>2. ASSUME NEW level \in LogLevels \ {None}, Client!SetLogVerbosity(level) PROVE SettingsInv'
  BY <1>2, LogLevelsAssumption, OtherKeeps DEF Client!SetLogVerbosity, SettingsInv, SettingsType
<1>3. CASE Client!GetDCO
  BY <1>3, OtherKeeps DEF Client!GetDCO, SettingsInv, SettingsType
<1>4. CASE Client!EditProfile
  <2>1. profile \in [dco: BOOLEAN, log: LogLevels, text: Texts]
    BY DEF SettingsInv, SettingsType
  <2>2. profile' \in [dco: BOOLEAN, log: LogLevels, text: Texts]
    BY <1>4, <2>1 DEF Client!EditProfile
  <2> QED BY <1>4, <2>2, SameKeeps DEF Client!EditProfile
<1>5. CASE Client!ConnectPush("idle")
  BY <1>5, PushKeeps
<1> QED BY <1>1, <1>2, <1>3, <1>4, <1>5 DEF Client!Users

LEMMA SettingsStep == SettingsInv /\ [SystemNext]_systemVars => SettingsInv'
<1> SUFFICES ASSUME SettingsInv, [SystemNext]_systemVars PROVE SettingsInv'
  OBVIOUS
<1>1. CASE UNCHANGED clientVars
  BY <1>1, SameKeeps DEF clientVars, SettingsInv, SettingsType
<1>2. ASSUME NEW d \in Uptimes, Disappears(d) PROVE SettingsInv'
  BY <1>2, EarlyKeeps DEF Disappears, Client!DiesWatched, Client!Ends, Early
<1>3. CASE RestartProcess
  BY <1>3, EarlyKeeps DEF RestartProcess, Client!CallStartClient, Early
<1> QED BY <1>1, <1>2, <1>3, StartsKeeps, FailsKeeps, UsersKeep DEF SystemNext, systemVars, Reports

LEMMA SettingsInit == SystemInit => SettingsInv
<1> SUFFICES ASSUME SystemInit PROVE SettingsInv
  OBVIOUS
<1>1. stage = "none"
  BY DEF SystemInit, Client!Init
<1>2. LevelInv /\ DcoInv
  BY <1>1 DEF LevelInv, DcoInv, Client!Watched, Client!DcoAsChosen
<1>3. client = Client!NewClient /\ session = [Client!NewSession EXCEPT !.exists = FALSE] /\ wanted = Client!NewHistory
      /\ profile \in [dco: BOOLEAN, log: LogLevels, text: Texts]
  BY DEF SystemInit, Client!Init
<1>4. SettingsType /\ ChoiceInv
  BY <1>3 DEF SettingsType, ChoiceInv, Client!NewClient, Client!NewSession, Client!NewHistory, Client!DefaultLevel, LogLevel
<1> QED BY <1>2, <1>4 DEF SettingsInv

(* Only ConnectStart leads from "locked" to "connected". *)
LEMMA LevelStep == SettingsInv /\ SettingsInv' /\ [SystemNext]_systemVars => Client!LevelAsChosen
<1> SUFFICES ASSUME SettingsInv, SettingsInv', [SystemNext]_systemVars, stage = "locked", stage' = "connected"
             PROVE  client'.level = Client!ChosenLevel(client') /\ client.level = client'.level
  BY DEF Client!LevelAsChosen
<1>1. Client!ConnectStart
  BY DEF SystemNext, systemVars, clientVars, Reports, Disappears, RestartProcess, Client!CallStartClient,
         Client!DiesWatched, Client!Ends, Client!Starts, Client!Activate, Client!Reap, Client!StartClient, Client!Exec,
         Client!Daemonize, Client!ConstructService, Client!BusNameAcquired, Client!FetchSettings, Client!FetchText,
         Client!ConnectPush, Client!ConnectLock, Client!To, Client!Fails, Client!ActivateFails, Client!CallTimeout,
         Client!IdleExit, Client!StartClientFails, Client!ExecFails, Client!DaemonizeFails,
         Client!ConstructServiceFails, Client!FetchTextFails, Client!DiesUnwatched, Client!Users, Client!SetDCO,
         Client!SetLogVerbosity, Client!GetDCO, Client!EditProfile, Client!ReadyThrows, Client!ConnectRefused
<1>2. client' = Client!initialize_client(client)
  BY <1>1 DEF Client!ConnectStart
<1>3. client.level = Client!ChosenLevel(client) /\ client'.level = Client!ChosenLevel(client')
  BY DEF SettingsInv, LevelInv, Client!Watched
<1>4. client'.log = client.log /\ client'.text = client.text
  BY <1>2 DEF SettingsInv, SettingsType, Client!initialize_client
<1> QED BY <1>3, <1>4 DEF Client!ChosenLevel

(* CONNECTS AS CHOSEN: the first process of a session that is told to        *)
(* connect uses data channel offload if and only if the user's last choice,  *)
(* or else the profile, says so and the profile allows it; one restarted     *)
(* after that goes by the profile.  Each has the log level of its override   *)
(* or else of its text (Session::Connect, initialize_client, set_overrides). *)
THEOREM ProcessesConnectAsChosen == SystemSpec => ConnectsAsChosen
<1>1. SettingsInv => Client!DcoAsChosen
  BY DEF SettingsInv, DcoInv
<1>2. SettingsInv /\ [SystemNext]_systemVars => [Client!DcoAsChosen' /\ Client!LevelAsChosen]_clientVars
  <2>1. SettingsInv' => Client!DcoAsChosen'
    BY <1>1, PTL
  <2> QED BY <2>1, SettingsStep, LevelStep
<1> QED BY <1>2, SettingsInit, SettingsStep, PTL DEF SystemSpec, ConnectsAsChosen

-----------------------------------------------------------------------------
(* The identity of the host: the inductive invariant *)

HostType ==
    /\ etc \in {None, Empty, System} /\ local \in {None, Empty} \cup Programs
    /\ program \in [Programs -> [phase: {"idle", "create", "write", "done"}, id: Identities \cup {None},
                                 source: {"NONE", "SYSTEMD_API", "SYSTEM", "LOCAL", "RANDOM"},
                                 failed: BOOLEAN]]
    /\ \A p \in Programs : program[p].phase = "idle" \/ program[p].id \in Identities
    /\ overlap \in BOOLEAN /\ static \subseteq Identities

\* What a process that starts now would read.
Known == IF etc = None THEN local ELSE etc

\* Process p has an identity that success() will call static.
HasStatic(p) == program[p].phase = "done" /\ ~program[p].failed

\* Whatever is static is what the next process reads.
SameId ==
    /\ static \subseteq {Known}
    /\ \A p \in Programs : HasStatic(p) => program[p].id = Known /\ Known # None

\* A process makes an identity only while there is none, and alone.
MakesAlone(p) ==
    Host!Generating(p) =>
        /\ etc = None /\ static = {}
        /\ \A q \in Programs : ~HasStatic(q) /\ (Host!Generating(q) => q = p)
        /\ program[p].phase = "create" => local = None
        /\ program[p].phase = "write" => local = Empty

HostInv == HostType /\ (~overlap => SameId /\ \A p \in Programs : MakesAlone(p))

-----------------------------------------------------------------------------
(* Steps of the processes that ask for the identity *)

\* Process p changes to record r, and the others stay as they are.
LEMMA ProcessTo ==
    ASSUME HostType, NEW p \in Programs, NEW r, program' = [program EXCEPT ![p] = r]
    PROVE  program'[p] = r /\ \A q \in Programs \ {p} : program'[q] = program[q]
BY DEF HostType

LEMMA BootKeeps == ASSUME HostInv, Host!SystemBoot PROVE HostInv'
<1>1. HostType'
  BY DEF Host!SystemBoot, HostInv, HostType
<1>2. ASSUME ~overlap' PROVE static = {} /\ \A q \in Programs : program'[q].phase = "idle"
  BY <1>2 DEF Host!SystemBoot
<1>3. ASSUME ~overlap' PROVE SameId' /\ \A p \in Programs : MakesAlone(p)'
  BY <1>2, <1>3 DEF Host!SystemBoot, SameId, MakesAlone, HasStatic, Host!Generating
<1> QED BY <1>1, <1>3 DEF HostInv

LEMMA StartKeeps ==
    ASSUME HostInv, NEW p \in Programs, Host!MachineID(p) PROVE HostInv'
<1>1. /\ program[p].phase = "idle" /\ UNCHANGED <<etc, local, static>>
      /\ overlap' = (overlap \/ \E q \in Programs : Host!Generating(q))
  BY DEF Host!MachineID
<1>2. PICK r \in [phase: {"create", "done"}, id: Identities,
                  source: {"NONE", "SYSTEMD_API", "SYSTEM", "LOCAL"}, failed: {FALSE}] :
        /\ program' = [program EXCEPT ![p] = r]
        /\ r.phase = "done" => Known # None /\ r.id = Known
        /\ r.phase = "create" => Known = None
  <2> DEFINE R == [phase: {"create", "done"}, id: Identities,
                   source: {"NONE", "SYSTEMD_API", "SYSTEM", "LOCAL"}, failed: {FALSE}]
  <2>1. CASE etc = System /\ \E s \in {"SYSTEMD_API", "SYSTEM"} : Host!Has(p, "done", System, s, FALSE)
    <3>1. PICK s \in {"SYSTEMD_API", "SYSTEM"} : Host!Has(p, "done", System, s, FALSE)
      BY <2>1
    <3>2. [phase |-> "done", id |-> System, source |-> s, failed |-> FALSE] \in R
      BY DEF Identities
    <3> QED BY <2>1, <3>1, <3>2, IdentitiesAssumption DEF Host!Has, Known, Identities
  <2>2. CASE etc = Empty /\ Host!Has(p, "done", Empty, "SYSTEM", FALSE)
    <3>2. [phase |-> "done", id |-> Empty, source |-> "SYSTEM", failed |-> FALSE] \in R
      BY DEF Identities
    <3> QED BY <2>2, <3>2, IdentitiesAssumption DEF Host!Has, Known, Identities
  <2>3. CASE etc = None /\ local # None /\ Host!Has(p, "done", local, "LOCAL", FALSE)
    <3>2. [phase |-> "done", id |-> local, source |-> "LOCAL", failed |-> FALSE] \in R
      BY <2>3 DEF Identities, HostInv, HostType
    <3> QED BY <2>3, <3>2 DEF Host!Has, Known
  <2>4. CASE etc = None /\ local = None /\ Host!Has(p, "create", p, "NONE", FALSE)
    <3>2. [phase |-> "create", id |-> p, source |-> "NONE", failed |-> FALSE] \in R
      BY DEF Identities
    <3> QED BY <2>4, <3>2 DEF Host!Has, Known
  <2> QED BY <2>1, <2>2, <2>3, <2>4 DEF Host!MachineID
<1>3. program'[p] = r /\ \A q \in Programs \ {p} : program'[q] = program[q]
  BY <1>2, ProcessTo DEF HostInv
<1>4. HostType'
  BY <1>1, <1>2, <1>3 DEF HostInv, HostType
<1>5. ASSUME ~overlap' PROVE SameId' /\ \A q \in Programs : MakesAlone(q)'
  <2>1. ~overlap /\ SameId /\ \A q \in Programs : MakesAlone(q) /\ ~Host!Generating(q)
    BY <1>1, <1>5 DEF HostInv
  <2>2. Known' = Known
    BY <1>1 DEF Known
  <2>3. SameId'
    BY <1>1, <1>2, <1>3, <2>1, <2>2 DEF SameId, HasStatic
  <2>4. ASSUME NEW q \in Programs, Host!Generating(q)' PROVE q = p /\ r.phase = "create"
    BY <1>2, <1>3, <2>1, <2>4 DEF Host!Generating
  <2>5. Known = None => static = {} /\ \A q \in Programs : ~HasStatic(q)
    BY <2>1, IdentitiesAssumption DEF SameId, HostInv, HostType
  <2>6. ASSUME NEW q \in Programs, r.phase = "create" PROVE ~HasStatic(q)'
    BY <1>2, <1>3, <2>5, <2>6 DEF HasStatic
  <2>7. \A q \in Programs : MakesAlone(q)'
    <3> SUFFICES ASSUME NEW q \in Programs, Host!Generating(q)' PROVE MakesAlone(q)'
      BY DEF MakesAlone
    <3>1. q = p /\ r.phase = "create" /\ etc = None /\ local = None
      BY <1>2, <2>4, IdentitiesAssumption DEF Known, HostInv, HostType, Identities
    <3>2. etc' = None /\ local' = None /\ static' = {}
      BY <1>1, <1>2, <2>5, <3>1
    <3> QED BY <1>3, <2>4, <2>6, <3>1, <3>2 DEF MakesAlone
  <2> QED BY <2>3, <2>7
<1> QED BY <1>4, <1>5 DEF HostInv

\* A process that makes an identity goes on, has one, or is killed.
LEMMA MakesKeeps ==
    ASSUME HostInv, NEW p \in Programs, Host!Create(p) \/ Host!Write(p) \/ Host!Killed(p)
    PROVE  HostInv'
<1> DEFINE R == [phase: {"idle", "write", "done"}, id: {p, None}, source: {"NONE", "LOCAL", "RANDOM"},
                 failed: BOOLEAN]
<1>1. /\ Host!Generating(p) /\ UNCHANGED <<etc, overlap, static>>
      /\ \E r \in R :
           /\ program' = [program EXCEPT ![p] = r]
           /\ r.phase = "idle" \/ r.id = p
           /\ \/ r.phase = "write" /\ program[p].phase = "create" /\ local' = Empty
              \/ r.phase # "write" /\ (r.phase = "done" => r.failed) /\ local' = local
              \/ r.phase = "done" /\ r.id = p /\ local' = p
  <2>1. CASE Host!Create(p) /\ p \in Privileged
    <3>1. [phase |-> "write", id |-> p, source |-> "NONE", failed |-> FALSE] \in R
      OBVIOUS
    <3> QED BY <2>1, <3>1 DEF Host!Create, Host!Has, Host!Generating
  <2>2. CASE Host!Create(p) /\ p \notin Privileged
    <3>1. [phase |-> "done", id |-> p, source |-> "RANDOM", failed |-> TRUE] \in R
      OBVIOUS
    <3> QED BY <2>2, <3>1 DEF Host!Create, Host!Has, Host!Generating
  <2>3. CASE Host!Write(p)
    <3>1. /\ [phase |-> "done", id |-> p, source |-> "LOCAL", failed |-> FALSE] \in R
          /\ [phase |-> "done", id |-> p, source |-> "RANDOM", failed |-> TRUE] \in R
      OBVIOUS
    <3> QED BY <2>3, <3>1 DEF Host!Write, Host!Has, Host!Generating
  <2>4. CASE Host!Killed(p)
    <3>1. Host!NoProgram \in R /\ Host!NoProgram.phase = "idle"
      BY DEF Host!NoProgram
    <3> QED BY <2>4, <3>1 DEF Host!Killed
  <2> QED BY <2>1, <2>2, <2>3, <2>4
<1>2. PICK r \in R :
           /\ program' = [program EXCEPT ![p] = r]
           /\ r.phase = "idle" \/ r.id = p
           /\ \/ r.phase = "write" /\ program[p].phase = "create" /\ local' = Empty
              \/ r.phase # "write" /\ (r.phase = "done" => r.failed) /\ local' = local
              \/ r.phase = "done" /\ r.id = p /\ local' = p
  BY <1>1
<1>3. program'[p] = r /\ \A q \in Programs \ {p} : program'[q] = program[q]
  BY <1>2, ProcessTo DEF HostInv
<1>4. HostType'
  BY <1>1, <1>2, <1>3 DEF HostInv, HostType, Identities
<1>5. ASSUME ~overlap' PROVE SameId' /\ \A q \in Programs : MakesAlone(q)'
  <2>1. /\ etc = None /\ static = {}
        /\ \A q \in Programs : ~HasStatic(q) /\ (Host!Generating(q) => q = p)
    BY <1>1, <1>5 DEF HostInv, MakesAlone
  <2>2. /\ \A q \in Programs \ {p} : ~HasStatic(q)' /\ ~Host!Generating(q)'
        /\ HasStatic(p)' => r.id = p /\ local' = p
        /\ Host!Generating(p)' => r.phase = "write" /\ local' = Empty
    BY <1>2, <1>3, <2>1 DEF HasStatic, Host!Generating
  <2>3. SameId'
    BY <1>1, <1>2, <1>3, <2>1, <2>2, IdentitiesAssumption DEF SameId, Known, Identities
  <2>4. r.phase = "write" => ~HasStatic(p)'
    BY <1>3 DEF HasStatic
  <2>5. \A q \in Programs : MakesAlone(q)'
    BY <1>1, <1>3, <2>1, <2>2, <2>4 DEF MakesAlone
  <2> QED BY <2>3, <2>5
<1> QED BY <1>4, <1>5 DEF HostInv

LEMMA EndsKeeps == ASSUME HostInv, NEW p \in Programs, Host!Ends(p) PROVE HostInv'
<1>1. /\ program[p].phase = "done" /\ program' = [program EXCEPT ![p] = Host!NoProgram]
      /\ static' = static \cup {id \in {program[p].id} : Host!success(p)}
      /\ UNCHANGED <<etc, local, overlap>>
  BY DEF Host!Ends
<1>2. program'[p] = Host!NoProgram /\ \A q \in Programs \ {p} : program'[q] = program[q]
  BY <1>1, ProcessTo DEF HostInv
<1>3. HasStatic(p) <=> Host!success(p)
  BY <1>1 DEF HasStatic, Host!success
<1>4. Host!NoProgram \in [phase: {"idle"}, id: {None}, source: {"NONE"}, failed: {FALSE}]
  BY DEF Host!NoProgram
<1>5. HostType'
  BY <1>1, <1>2, <1>4 DEF HostInv, HostType, Identities
<1>6. ASSUME ~overlap PROVE SameId' /\ \A q \in Programs : MakesAlone(q)'
  <2>1. SameId /\ \A q \in Programs : MakesAlone(q)
    BY <1>6 DEF HostInv
  <2>2. static' \subseteq {Known}
    BY <1>1, <1>3, <2>1 DEF SameId
  <2>3. \A q \in Programs : (HasStatic(q)' => HasStatic(q) /\ program'[q] = program[q])
                            /\ (Host!Generating(q)' => Host!Generating(q) /\ program'[q] = program[q])
    BY <1>2, <1>4 DEF HasStatic, Host!Generating
  <2>4. SameId'
    BY <1>1, <2>1, <2>2, <2>3 DEF SameId, Known
  <2>5. \A q \in Programs : MakesAlone(q)'
    BY <1>1, <1>3, <2>1, <2>3 DEF MakesAlone
  <2> QED BY <2>4, <2>5
<1> QED BY <1>1, <1>5, <1>6 DEF HostInv

\* Of identities that are all the same there is at most one.
LEMMA OneIdentity == ASSUME HostInv PROVE Host!StaticIdentity
<1>1. Host!Cardinality(static) = Cardinality(static)
  BY DEF Host!Cardinality, Cardinality
<1>2. ASSUME ~overlap PROVE Cardinality(static) <= 1
  <2>1. static = {} \/ static = {Known}
    BY <1>2 DEF HostInv, SameId
  <2>2. Cardinality({}) = 0 /\ Cardinality({Known}) = 1
    BY FS_EmptySet, FS_Singleton
  <2> QED BY <2>1, <2>2
<1> QED BY <1>1, <1>2 DEF Host!StaticIdentity

(* All processes for which success() does not throw have the same identity,  *)
(* for any processes and whoever may write the file: failed writes, kills    *)
(* and the boot of the system included (MachineID::success).                 *)
THEOREM StaticIdentityHolds == Host!Spec => []StaticIdentity
<1>1. Host!Init => HostInv
  <2> SUFFICES ASSUME Host!Init PROVE HostInv
    OBVIOUS
  <2>1. Host!NoProgram \in [phase: {"idle"}, id: {None}, source: {"NONE"}, failed: {FALSE}]
    BY DEF Host!NoProgram
  <2>2. HostType /\ \A p \in Programs : program[p].phase = "idle"
    BY <2>1 DEF Host!Init, HostType
  <2> QED BY <2>2 DEF Host!Init, HostInv, SameId, MakesAlone, HasStatic, Host!Generating
<1>2. HostInv /\ [Host!Next]_Host!vars => HostInv'
  <2> SUFFICES ASSUME HostInv, [Host!Next]_Host!vars PROVE HostInv'
    OBVIOUS
  <2>1. CASE UNCHANGED Host!vars
    BY <2>1 DEF Host!vars, HostInv, HostType, SameId, Known, MakesAlone, HasStatic, Host!Generating
  <2>2. CASE Host!Next
    BY <2>2, BootKeeps, StartKeeps, MakesKeeps, EndsKeeps
       DEF Host!Next, Host!initialize_client, Host!cmd_variables
  <2> QED BY <2>1, <2>2
<1>3. HostInv => StaticIdentity
  BY OneIdentity DEF StaticIdentity
<1> QED BY <1>1, <1>2, <1>3, PTL DEF Host!Spec
=============================================================================
