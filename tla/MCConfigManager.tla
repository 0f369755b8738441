-------------------------- MODULE MCConfigManager --------------------------
(* The configuration manager and the commands that use it, for TLC.  A       *)
(* behaviour is either one of ConfigManager, where the calls are taken apart,*)
(* or one of ConfigCommand, where a call is one step and several commands    *)
(* interleave: the two share the operators on profiles and no state.         *)
EXTENDS ConfigManager, TLC

CONSTANTS CommandPaths, CommandKeys, Owner, People, Fronts, Lines

VARIABLES shown, profiles, cmd

MCContents == {{"client", "dev", "ca", "remote"}, {"client", "dev", "connection"}}
MCSymmetry == Permutations(Workers)

path1 == CHOOSE q \in CommandPaths : TRUE
key1 == CHOOSE k \in CommandKeys : TRUE
tag1 == CHOOSE t \in Tags : TRUE
Other == CHOOSE u \in People \ {Owner} : TRUE

Line(c, by, ops, show, force) ==
    [cmd |-> c, by |-> by, name |-> FALSE, path |-> path1, ops |-> ops, show |-> show, force |-> force]

MCLines ==
    {Line("config-manage", "name",
          {<<"rename", TRUE>>, <<"tag", tag1>>} \cup {<<"set", k>> : k \in CommandKeys}, FALSE, FALSE),
     Line("config-manage", "path", {<<"untag", tag1>>, <<"unset", key1>>, <<"dco", TRUE>>}, TRUE, FALSE),
     Line("config-manage", "path", {}, TRUE, FALSE),
     Line("config-acl", "path",
          {<<"grant", Other>>, <<"grant", None>>, <<"lock", TRUE>>, <<"public", TRUE>>}, FALSE, FALSE),
     Line("config-acl", "path", {<<"revoke", Other>>, <<"transfer", TRUE>>, <<"seal", TRUE>>}, FALSE, FALSE),
     Line("config-remove", "name", {<<"remove", TRUE>>}, FALSE, FALSE),
     Line("config-remove", "path", {<<"remove", TRUE>>}, FALSE, TRUE),
     Line("config-import", "file", {<<"set", key1>>, <<"tag", tag1>>}, FALSE, FALSE),
     Line("session-start", "name", {<<"validate", TRUE>>, <<"set", key1>>}, FALSE, FALSE),
     Line("config-dump", "path", {<<"fetch", TRUE>>, <<"read", TRUE>>}, FALSE, FALSE),
     Line("configs-list", "tag", {}, FALSE, FALSE),
     Line("configs-list", "owner", {}, FALSE, FALSE),
     Line("configs-list", "all", {}, FALSE, FALSE),
     Line("complete", "names", {}, FALSE, FALSE)}

AllUsers == Users \cup People

Command == INSTANCE ConfigCommand WITH
    Users <- AllUsers, Paths <- CommandPaths, Keys <- CommandKeys,
    live <- shown, mem <- profiles

ASSUME LinesAssumption == Command!WellFormed

commandVars == <<shown, profiles, cmd>>

NoCommand == shown = None /\ profiles = None /\ cmd = None

\* The service is not started and takes no calls.
NoService == /\ up = FALSE /\ live = {} /\ calls = MaxCalls
             /\ mem = [p \in Paths |-> None] /\ file = mem
             /\ call = [w \in Workers |-> Idle]
             /\ overlap = {} /\ sealed = {} /\ removed = {}

MCInit == \/ Init /\ NoCommand
          \/ NoService /\ Command!Init

Commands == cmd # None

MCNext == \/ ~Commands /\ Next /\ UNCHANGED commandVars
          \/ Commands /\ Command!Next /\ UNCHANGED vars

MCSpec == MCInit /\ [][MCNext]_<<vars, commandVars>>

\* OUTCOME TOLD, in the behaviours with commands.
OutcomeTold == Commands => Command!OutcomeTold
=============================================================================
