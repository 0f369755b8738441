----------------------------- MODULE MachineId -----------------------------
(***************************************************************************)
(* The identity of the host (src/src/common/machineid.cpp) as the client   *)
(* processes and the command "variables --machine-id" get it: from the     *)
(* system, or from a file that the first process to miss it writes.        *)
(* Nothing keeps two processes from writing it at the same time, and a     *)
(* file that is there but empty is taken for an identity.                  *)
(***************************************************************************)
EXTENDS Naturals, FiniteSets

CONSTANTS
    Programs,   \* processes that ask for the identity
    Privileged, \* those that may write the state directory
    None,
    Empty,      \* what an empty file yields
    System      \* the identity the system has

VARIABLES
    etc,      \* /etc/machine-id: None, Empty or System
    local,    \* OPENVPN3_MACHINEID: None, Empty or the process whose identity it holds
    program,  \* [phase, id, source, failed] of each process
    overlap,  \* history: a process started while another one made an identity
    static    \* history: identities that success() called static

vars == <<etc, local, program, overlap, static>>

NoProgram == [phase |-> "idle", id |-> None, source |-> "NONE", failed |-> FALSE]

Generating(p) == program[p].phase \in {"create", "write"}

Has(p, phase, id, source, failed) ==
    program' = [program EXCEPT ![p] = [phase |-> phase, id |-> id, source |-> source, failed |-> failed]]

\* systemd finds no identity in an empty file and writes one early at boot; an identity
\* that comes later is another one than those used before.
SystemBoot ==
    /\ etc # System
    /\ etc' = System
    /\ overlap' = (overlap \/ static # {} \/ \E q \in Programs : program[q].phase # "idle")
    /\ UNCHANGED <<local, program, static>>

\* MachineID::MachineID(): the systemd API, where the build has it, then /etc/machine-id,
\* then the local file.  The files only have to open.  The hash that is made of what was
\* read tells identities apart just as well, and is left out.
MachineID(p) ==
    /\ program[p].phase = "idle"
    /\ overlap' = (overlap \/ \E q \in Programs : Generating(q))
    /\ \/ etc = System /\ \E s \in {"SYSTEMD_API", "SYSTEM"} : Has(p, "done", System, s, FALSE)
       \/ etc = Empty /\ Has(p, "done", Empty, "SYSTEM", FALSE)
       \/ etc = None /\ local # None /\ Has(p, "done", local, "LOCAL", FALSE)
       \/ etc = None /\ local = None /\ Has(p, "create", p, "NONE", FALSE)
    /\ UNCHANGED <<etc, local, static>>

\* generate_machine_id(): opening the file truncates it.
Create(p) ==
    /\ program[p].phase = "create"
    /\ \/ p \in Privileged /\ local' = Empty /\ Has(p, "write", p, "NONE", FALSE)
       \/ p \notin Privileged /\ UNCHANGED local /\ Has(p, "done", p, "RANDOM", TRUE)
    /\ UNCHANGED <<etc, overlap, static>>

\* Mutant: a failed write goes unnoticed.
WriteUnchecked(p) ==
    /\ program[p].phase = "write"
    /\ \/ local' = p \/ UNCHANGED local
    /\ Has(p, "done", p, "LOCAL", FALSE)
    /\ UNCHANGED <<etc, overlap, static>>

Write(p) ==
    /\ program[p].phase = "write"
    /\ \/ local' = p /\ Has(p, "done", p, "LOCAL", FALSE)
       \/ UNCHANGED local /\ Has(p, "done", p, "RANDOM", TRUE)
    /\ UNCHANGED <<etc, overlap, static>>

success(p) == ~program[p].failed

\* The process has used its identity and ends; another one may start.
Ends(p) ==
    /\ program[p].phase = "done"
    /\ static' = static \cup {id \in {program[p].id} : success(p)}
    /\ program' = [program EXCEPT ![p] = NoProgram]
    /\ UNCHANGED <<etc, local, overlap>>

\* The client process sends the identity to the server if success() does not throw.
initialize_client(p) == p \in Privileged /\ Ends(p)

\* The command shows it in any case; only its exit code says that it is random.
cmd_variables(p) == p \notin Privileged /\ Ends(p)

Killed(p) ==
    /\ Generating(p)
    /\ program' = [program EXCEPT ![p] = NoProgram]
    /\ UNCHANGED <<etc, local, overlap, static>>

Init ==
    /\ etc \in {None, Empty, System} /\ local = None
    /\ program = [p \in Programs |-> NoProgram]
    /\ overlap = FALSE /\ static = {}

Next ==
    \/ SystemBoot
    \/ \E p \in Programs : MachineID(p) \/ Create(p) \/ Write(p) \/ Killed(p)
                          \/ initialize_client(p) \/ cmd_variables(p)

Spec == Init /\ [][Next]_vars

-----------------------------------------------------------------------------
(* STATIC IDENTITY: all processes for which success() does not throw have    *)
(* the same identity, through failed writes, kills and users who may not     *)
(* write the file; unless a process starts while another makes an identity,  *)
(* or the system gets one after some were handed out (MachineID::success).   *)
StaticIdentity == ~overlap => Cardinality(static) <= 1
=============================================================================
