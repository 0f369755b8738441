-------------------------- MODULE RestartedClient --------------------------
(***************************************************************************)
(* A session whose client processes keep ending, composed of the restart   *)
(* timer of the session manager (RestartBackoff) and of the way from       *)
(* StartClient to a connection (ClientProcess).  The two share the steps   *)
(* that cross the process boundary: the timer starts a process, a watched  *)
(* process disappears, and a status of the process reaches the session.    *)
(***************************************************************************)
EXTENDS RestartBackoff

CONSTANTS None, Texts, LogLevels, Uids, ProcessUid, MaxEdits

\* --verb and the log-level override are unsigned integers or not given.
ASSUME TextsAssumption ==
    /\ Texts \subseteq [verb: Nat \cup {None}, compatible: BOOLEAN, valid: BOOLEAN]
    /\ None \notin Texts
ASSUME LogLevelsAssumption == LogLevels \subseteq Nat \cup {None} /\ None \notin Nat

VARIABLES starter, answer, stage, profile, client, session, edits, wanted

Client == INSTANCE ClientProcess

backoffVars == vars
clientVars == <<starter, answer, stage, profile, client, session, edits, wanted>>
systemVars == <<backoffVars, clientVars>>

\* The timer fires: AddTunnel() calls StartClient.
RestartProcess == Restart /\ stage = "gone" /\ Client!CallStartClient

\* The bus name of a process the session manager watches disappears.
Disappears(uptime) == Crash(uptime) /\ session.exists /\ Client!DiesWatched

\* Only a process with a connection reports CONN_CONNECTED.
Reports(isConnected) ==
    /\ stage \in Client!Watched
    /\ isConnected => stage = "connected"
    /\ StatusChange(isConnected)
    /\ UNCHANGED clientVars

SystemInit == Init /\ Client!Init

SystemNext ==
    \/ Client!Starts /\ UNCHANGED backoffVars
    \/ Client!Fails /\ UNCHANGED backoffVars
    \/ Client!Users /\ UNCHANGED backoffVars
    \/ \E c \in BOOLEAN : Reports(c)
    \/ \E d \in Uptimes : Disappears(d)
    \/ RestartProcess

\* The starter and the processes are scheduled.
Fairness == WF_systemVars(Client!Starts /\ UNCHANGED backoffVars)

SystemSpec == SystemInit /\ [][SystemNext]_systemVars /\ Fairness

(* CONNECTS AS CHOSEN: each process of the session connects with the DCO       *)
(* setting that the user chose before the first Connect, or that the profile   *)
(* had when the process fetched it; a process that was restarted after that    *)
(* Connect always goes by the profile.  It has the log level of its profile,   *)
(* and the session shows that level (Session::Connect, initialize_client,      *)
(* set_overrides).                                                             *)
ConnectsAsChosen == [][Client!DcoAsChosen' /\ Client!LevelAsChosen]_clientVars

(* START SETTLES: a process that was forked off gets registered and waits for  *)
(* a front-end, connects, ends, or is left behind as a copy of the starter;    *)
(* none hangs on the way, and no front-end is needed (start_backend_process,   *)
(* client_service, ClientService, RegisterClient, process_registration).       *)
StartSettles == stage = "child" ~> stage \in {"idle", "connected", "gone", "copy"}
=============================================================================
