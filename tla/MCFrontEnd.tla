---------------------------- MODULE MCFrontEnd ----------------------------
(* The command line front-ends that work with sessions, for TLC: those that  *)
(* start and drive sessions (FrontEnd) and those that list and share them    *)
(* (SessionCommand).  The first see the status of a session and the others   *)
(* its access control, and so they share no state: all processes of a        *)
(* behaviour run commands of the same kind.                                  *)
EXTENDS FrontEnd

CONSTANTS Root, OpenVPN, None, Owner, People, Paths, Names, Lines

VARIABLES sess, cmd, ever

Other == CHOOSE u \in People \ {Owner} : TRUE

SessionLine(c, by, ops, show) ==
    [cmd |-> c, by |-> by, name |-> 1, device |-> 1, path |-> 1, ops |-> ops, show |-> show]

SessionLines ==
    {SessionLine("session-acl", "path",
                 {<<"grant", Other>>, <<"grant", None>>, <<"public", FALSE>>, <<"log", TRUE>>}, FALSE),
     SessionLine("session-acl", "name", {<<"revoke", Other>>, <<"public", TRUE>>}, TRUE),
     SessionLine("session-acl", "interface", {<<"public", None>>}, TRUE),
     SessionLine("session-stats", "name", {}, FALSE),
     SessionLine("session-stats", "path", {}, FALSE),
     SessionLine("sessions-list", "list", {}, FALSE),
     SessionLine("complete", "names", {}, FALSE),
     SessionLine("complete", "interfaces", {}, FALSE)}

\* A command line has finitely many options.
ASSUME LinesAssumption == \A l \in Lines : IsFiniteSet(l.ops)

Share == INSTANCE SessionCommand

\* The first session has the first name, and of two processes of two users the first is
\* the owner's: the other cases are the same with the numbers exchanged.
ShareInit == /\ Share!Init
             /\ sess[1].name = 1
             /\ \A f, g \in Fronts : f < g /\ cmd[g].user = Owner => cmd[f].user = Owner

NoShare == /\ sess = [s \in Paths |-> None] /\ ever = [s \in Paths |-> {}]
           /\ cmd = [f \in Fronts |-> Share!Ended(Share!Command(Root, CHOOSE l \in Lines : TRUE), "none")]

NoStart == /\ sessions = [s \in Sessions |-> [phase |-> "none", status |-> "UNSET", pending |-> {}]]
           /\ inbox = [f \in Fronts |-> <<>>] /\ events = 0 /\ faults = 0
           /\ front = [f \in Fronts |-> [Idle EXCEPT !.pc = "end", !.result = "done"]]

shareVars == <<sess, cmd, ever>>

CommandsInit == \/ Init /\ NoShare
                \/ NoStart /\ ShareInit

CommandsNext == \/ Next /\ UNCHANGED shareVars
                \/ Share!Next /\ UNCHANGED vars

CommandsSpec == CommandsInit /\ [][CommandsNext]_<<vars, shareVars>> /\ Fairness

\* SHARED AS ASKED, of the commands of SessionCommand.
SharedAsAsked == Share!SharedAsAsked
=============================================================================
