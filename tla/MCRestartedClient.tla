------------------------- MODULE MCRestartedClient -------------------------
(* RestartedClient for TLC: the limit of the code, lifetimes on both sides of *)
(* the 90 s threshold, and profile texts with and without --verb, of which    *)
(* one does not allow data channel offload.  A behaviour is either one of     *)
(* RestartedClient or one of MachineId, which gives each client process the   *)
(* identity of the host; they share no state.                                 *)
EXTENDS RestartedClient

CONSTANTS Programs, Privileged, Empty, System

VARIABLES etc, local, program, overlap, static

MCUptimes == {0, 50, 91}
MCText(verb, compatible) == [verb |-> verb, compatible |-> compatible, valid |-> TRUE]
MCTexts == {MCText(None, TRUE), MCText(9, FALSE)}
MCLogLevels == {None, 2, 8}

\* A file that is not there is told apart from every identity, and an empty one from
\* the system's.
Identities == Programs \cup {Empty, System}
ASSUME IdentitiesAssumption == None \notin Identities /\ Empty # System

Host == INSTANCE MachineId

hostVars == <<etc, local, program, overlap, static>>

NoHost == etc = None /\ local = None /\ program = None /\ overlap = None /\ static = None
WithHost == program # None

\* There is no session and no process.
NoClient == /\ starter = None /\ answer = None /\ stage = None /\ profile = None
            /\ client = None /\ session = None /\ edits = None /\ wanted = None

MCInit == \/ SystemInit /\ NoHost
          \/ Init /\ NoClient /\ Host!Init

MCNext == \/ ~WithHost /\ SystemNext /\ UNCHANGED hostVars
          \/ WithHost /\ Host!Next /\ UNCHANGED systemVars

MCSpec == MCInit /\ [][MCNext]_<<systemVars, hostVars>> /\ Fairness

\* STATIC IDENTITY, in the behaviours it is about.
StaticIdentity == WithHost => Host!StaticIdentity
=============================================================================
