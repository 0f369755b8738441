--------------------------- MODULE ClientProcess ---------------------------
(***************************************************************************)
(* How a VPN client process comes to life and by which settings it then    *)
(* connects: the backend starter                                           *)
(* (src/src/client/openvpn3-service-backendstart.cpp), main() and the      *)
(* registration of src/src/client/openvpn3-service-client.cpp, and the DCO *)
(* and log level settings that travel between the configuration profile,   *)
(* the session object and the client process.                              *)
(*                                                                         *)
(* One session is followed through the client processes that serve it; a   *)
(* new process is only started when the last one is gone.  stage says how  *)
(* far the current process has come.                                       *)
(***************************************************************************)
EXTENDS Naturals

CONSTANTS
    None,        \* a setting that is not given, or a profile not fetched
    Texts,       \* profile texts: [verb, compatible, valid]
    LogLevels,   \* values of the log-level override, None among them
    Uids,        \* users that may call the starter
    ProcessUid,  \* the user the starter runs as
    MaxEdits     \* changes that users make in a behaviour

VARIABLES
    starter,  \* the backend starter: "absent", "idle" or "waiting" for its child
    answer,   \* what the session manager got from StartClient
    stage,    \* of the client process
    profile,  \* the configuration profile: its text, and what users may change
    client,   \* settings of the BackendClientObject
    session,  \* settings of the Session object
    edits,    \* changes made by users so far
    wanted    \* history: who chose which DCO setting, see NewHistory

vars == <<starter, answer, stage, profile, client, session, edits, wanted>>

-----------------------------------------------------------------------------
(* Stages.  A process is known to the bus from "attached" on, and watched by *)
(* the session manager once its registration is confirmed: from then on it   *)
(* is "idle" until a front-end calls Connect, or "ready" for the Connect that *)
(* the session manager calls after a restart.                                *)

Unstarted == {"none", "gone"}
InStarter == {"child", "copy", "launcher"}  \* the starter waits for the exit of these
Starting == {"daemon", "attached", "named", "fetching"}
Watched == {"idle", "ready", "pushed", "locked", "connected"}

DefaultLevel == 3

\* BackendClientObject: the options --log-level and --disable-protect-socket are handed
\* to the ClientService after its constructor has made this object from the defaults, so
\* they do not reach it.
NewClient == [level |-> DefaultLevel, log |-> None, dco |-> FALSE, text |-> None, doomed |-> FALSE]

\* pre is pre_existing_session of the last registration.
NewSession == [exists |-> TRUE, dco |-> FALSE, status |-> "UNCHANGED", level |-> DefaultLevel, pre |-> FALSE]

OnOff(value) == IF value THEN "on" ELSE "off"

\* The user's last choice, if any, and the profile's when the process fetched it; whether a
\* Connect has been called for the session, and had been when the process was started;
\* whether the last choice came when Connect had passed on the setting.
NewHistory == [choice |-> "none", fetched |-> FALSE, before |-> FALSE, again |-> FALSE, late |-> FALSE]

SetLogLevelOk(n) == n <= 6

Capped(verb) == IF verb > 6 THEN 6 ELSE verb

\* What initialize_client() does to the settings: --verb counts unless the profile has a
\* log-level override, and DCO is dropped when the profile does not allow it.
initialize_client(c) ==
    [c EXCEPT !.level = IF c.log = None /\ c.text.verb # None THEN Capped(c.text.verb) ELSE @,
              !.dco = @ /\ c.text.compatible]

\* It throws without a text, and when the text is not a valid profile.
CanInitialize(c) == c.text # None /\ c.text.valid

\* A level above 6 makes SetLogLevel() throw out of fetch_configuration(), whose handler
\* has the process killed in three seconds, and goes on.
set_overrides(c, log) ==
    IF log = None THEN c
    ELSE IF SetLogLevelOk(log) THEN [c EXCEPT !.level = log, !.log = log]
    ELSE [c EXCEPT !.doomed = TRUE]

-----------------------------------------------------------------------------
(* The backend starter. *)

\* Methods are open to the user the starter runs as only.
Authorize(uid) == uid = ProcessUid

\* D-Bus activation; the starter attaches to the log service or ends at once.
Activate ==
    /\ starter = "absent" /\ answer = "pending"
    /\ starter' = "idle"
    /\ UNCHANGED <<answer, stage, profile, client, session, edits, wanted>>

ActivateFails ==
    /\ starter = "absent" /\ answer = "pending"
    /\ answer' = "error"
    /\ UNCHANGED <<starter, stage, profile, client, session, edits, wanted>>

IdleExit ==
    /\ starter = "idle" /\ answer # "pending"
    /\ starter' = "absent"
    /\ UNCHANGED <<answer, stage, profile, client, session, edits, wanted>>

\* AddTunnel() of the session manager calls StartClient.
CallStartClient ==
    /\ stage \in Unstarted /\ answer # "pending"
    /\ answer' = "pending"
    /\ stage' = "none"
    /\ client' = NewClient
    /\ UNCHANGED <<starter, profile, session, edits, wanted>>

\* start_backend_process() forks.
StartClient(uid) ==
    /\ starter = "idle" /\ answer = "pending" /\ stage = "none"
    /\ Authorize(uid)
    /\ starter' = "waiting"
    /\ stage' = "child"
    /\ UNCHANGED <<answer, profile, client, session, edits, wanted>>

\* The session manager gets an error: fork() failed.
StartClientFails ==
    /\ starter = "idle" /\ answer = "pending" /\ stage = "none"
    /\ answer' = "error"
    /\ UNCHANGED <<starter, stage, profile, client, session, edits, wanted>>

\* waitpid() returns when the child has ended, or at once with an error; both the exit
\* code and the -1 of the error path become the pid that StartClient returns.
Reap(early) ==
    /\ starter = "waiting"
    /\ early \/ stage \notin InStarter
    /\ starter' = "idle"
    /\ answer' = IF answer = "pending" THEN "pid" ELSE answer
    /\ UNCHANGED <<stage, profile, client, session, edits, wanted>>

\* The call times out in the session manager while the starter waits.
CallTimeout ==
    /\ starter = "waiting" /\ answer = "pending"
    /\ answer' = "error"
    /\ UNCHANGED <<starter, stage, profile, client, session, edits, wanted>>

-----------------------------------------------------------------------------
(* The process. *)

To(s) == stage' = s /\ UNCHANGED <<starter, answer, profile, session, edits, wanted>>

\* execve(); when it fails the child throws in its copy of the starter, which may live on.
Exec == stage = "child" /\ To("launcher") /\ UNCHANGED client
ExecFails == stage = "child" /\ (To("gone") \/ To("copy")) /\ UNCHANGED client

\* client_service(): setsid(), then a second fork; the parent exits.
Daemonize == stage = "launcher" /\ To("daemon") /\ UNCHANGED client
DaemonizeFails == stage = "launcher" /\ To("gone") /\ UNCHANGED client

\* The ClientService attaches to the log service and makes the BackendClientObject.
ConstructService == stage = "daemon" /\ To("attached") /\ client' = NewClient
ConstructServiceFails == stage = "daemon" /\ To("gone") /\ UNCHANGED client

MutantBusNameAcquired == \* Mutant: the process does not ask to be registered.
    stage = "attached" /\ To("attached") /\ UNCHANGED client

\* The bus name is acquired: RegisterClient() sends the RegistrationRequest.
BusNameAcquired == stage = "attached" /\ To("named") /\ UNCHANGED client

\* The session manager makes the session object, unless the process is a restarted one,
\* and calls RegistrationConfirmation: fetch_configuration() first reads the settings ...
FetchSettings ==
    /\ stage = "named"
    /\ session' = IF session.exists THEN [session EXCEPT !.pre = TRUE] ELSE NewSession
    /\ client' = set_overrides([client EXCEPT !.dco = profile.dco], profile.log)
    /\ wanted' = LET h == IF session.exists THEN wanted ELSE NewHistory
                 IN  [h EXCEPT !.fetched = profile.dco, !.again = h.before, !.late = FALSE]
    /\ stage' = "fetching"
    /\ UNCHANGED <<starter, answer, profile, edits>>

\* ... and then the text, from which the client object is initialised.
FetchText ==
    LET c == [client EXCEPT !.text = profile.text] IN
    /\ stage = "fetching" /\ CanInitialize(c)
    /\ client' = initialize_client(c)
    /\ To(IF session.pre THEN "ready" ELSE "idle")

\* The text cannot be had or is not valid: RegistrationConfirmation throws, the session
\* manager calls ForceShutdown and removes the session object.
FetchTextFails ==
    /\ stage = "fetching"
    /\ stage' = "gone"
    /\ session' = [session EXCEPT !.exists = FALSE]
    /\ UNCHANGED <<starter, answer, profile, client, edits, wanted>>

-----------------------------------------------------------------------------
(* Session::Connect(), and cb_connect() in the process. *)

\* After a restart process_registration() calls Ready first.  It throws when the process
\* misses user input, and then nobody calls Connect but a front-end.
ReadyThrows == stage = "ready" /\ To("idle") /\ UNCHANGED client

MutantConnectPush(from) == \* Mutant: the setting is always pushed.
    /\ stage = from
    /\ client' = [client EXCEPT !.dco = session.dco]
    /\ To("pushed")

\* A DCO setting that a user has changed is passed on to the process, but only until the
\* first Connect has locked it: a process that is restarted later does not get it.
ConnectPush(from) ==
    /\ stage = from
    /\ client' = IF session.status = "MODIFIED" THEN [client EXCEPT !.dco = session.dco] ELSE client
    /\ To("pushed")

\* DCO can no longer be changed, and the session takes over the log level of the process.
ConnectLock ==
    /\ stage = "pushed"
    /\ session' = [session EXCEPT !.status = "LOCKED", !.level = client.level]
    /\ wanted' = [wanted EXCEPT !.before = TRUE]
    /\ stage' = "locked"
    /\ UNCHANGED <<starter, answer, profile, client, edits>>

\* cb_connect() initialises the client object anew and starts the connection, or refuses
\* because user input is missing.
ConnectStart ==
    /\ stage = "locked"
    /\ client' = initialize_client(client)
    /\ To("connected")

ConnectRefused ==
    /\ stage = "locked"
    /\ client' = initialize_client(client)
    /\ To("idle")

-----------------------------------------------------------------------------
(* Users and the end of a process. *)

Edit == edits < MaxEdits /\ edits' = edits + 1

\* The "dco" property of the session object.  It is accepted also when Connect has passed
\* the setting on and not locked it yet.
SetDCO(value) ==
    /\ Edit
    /\ session.exists /\ stage \in Watched /\ session.status # "LOCKED"
    /\ session' = [session EXCEPT !.dco = value, !.status = "MODIFIED"]
    /\ wanted' = [wanted EXCEPT !.choice = OnOff(value), !.late = stage = "pushed"]
    /\ UNCHANGED <<starter, answer, stage, profile, client>>

\* Reading it stores what the process says: without a connection it says "no".
GetDCO ==
    /\ session.exists /\ stage \in Watched /\ session.status # "MODIFIED"
    /\ session' = [session EXCEPT !.dco = stage = "connected" /\ client.dco]
    /\ UNCHANGED <<starter, answer, stage, profile, client, edits, wanted>>

\* The "log_verbosity" property of the session object.
SetLogVerbosity(level) ==
    /\ Edit
    /\ session.exists /\ stage \in Watched /\ SetLogLevelOk(level)
    /\ session' = [session EXCEPT !.level = level]
    /\ UNCHANGED <<starter, answer, stage, profile, client, wanted>>

\* The profile is changed in the configuration manager.
EditProfile ==
    /\ Edit
    /\ \/ profile' = [profile EXCEPT !.dco = ~@]
       \/ \E log \in LogLevels \ {profile.log} : profile' = [profile EXCEPT !.log = log]
    /\ UNCHANGED <<starter, answer, stage, client, session, wanted>>

\* A process ends: by itself, or by the SIGHUP it was doomed to.
Ends == /\ stage' = "gone"
        /\ UNCHANGED <<starter, answer, profile, client, session, edits, wanted>>
DiesUnwatched == stage \in Starting \cup {"copy"} /\ Ends
DiesWatched == stage \in Watched /\ Ends

-----------------------------------------------------------------------------
Init ==
    /\ starter = "absent" /\ answer = "pending" /\ stage = "none"
    /\ profile \in [dco: BOOLEAN, log: LogLevels, text: Texts]
    /\ client = NewClient
    /\ session = [NewSession EXCEPT !.exists = FALSE]
    /\ edits = 0 /\ wanted = NewHistory

\* What the starter, the process and the session manager do on their own.
Starts ==
    \/ Activate \/ Reap(FALSE)
    \/ \E uid \in Uids : StartClient(uid)
    \/ Exec \/ Daemonize \/ ConstructService \/ BusNameAcquired
    \/ FetchSettings \/ FetchText
    \/ ConnectPush("ready") \/ ConnectLock \/ ConnectStart

Fails ==
    \/ ActivateFails \/ Reap(TRUE) \/ CallTimeout \/ IdleExit
    \/ StartClientFails
    \/ ExecFails \/ DaemonizeFails \/ ConstructServiceFails \/ FetchTextFails
    \/ DiesUnwatched \/ ReadyThrows \/ ConnectRefused

\* Front-ends: nobody has to call Connect.
Users ==
    \/ ConnectPush("idle")
    \/ \E value \in BOOLEAN : SetDCO(value)
    \/ \E level \in LogLevels \ {None} : SetLogVerbosity(level)
    \/ GetDCO \/ EditProfile

-----------------------------------------------------------------------------
\* The choice that counts for the present process: the one of the session's user, unless
\* Connect was called for the session before the process was started, or the profile's.
Chosen(h) == IF h.choice # "none" /\ ~h.again THEN h.choice = "on" ELSE h.fetched

(* The first process of a session that is told to connect uses data channel  *)
(* offload if and only if the user of the session asked for it, or else the  *)
(* profile did when it was fetched, and the profile allows it; a process     *)
(* that replaces it goes by the profile.  Reading the property, later        *)
(* changes of the profile and refused Connects do not matter.  A choice that *)
(* is accepted between the push and the lock of Connect is lost: late        *)
(* (Session::Connect, initialize_client).                                    *)
DcoAsChosen ==
    stage = "connected" /\ ~wanted.late => client.dco = (Chosen(wanted) /\ client.text.compatible)

ChosenLevel(c) == IF c.log # None THEN c.log
                  ELSE IF c.text.verb # None THEN Capped(c.text.verb) ELSE DefaultLevel

(* However often the client object was initialised, it connects with the log *)
(* level of the override it fetched, or else with --verb of the profile's    *)
(* text, and it had that level already when Connect stored it in the session *)
(* object (Session::Connect, initialize_client).                             *)
LevelAsChosen ==
    stage = "locked" /\ stage' = "connected" =>
        client'.level = ChosenLevel(client') /\ client.level = client'.level
=============================================================================
