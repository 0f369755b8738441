---------------------------- MODULE MCLogService ----------------------------
(***************************************************************************)
(* For TLC: the log service, the options that it and the netcfg service    *)
(* are given (ServiceConfig) and the completion of the commands' options   *)
(* (CommandLine).  A behaviour is one of the three, which share no state.  *)
(***************************************************************************)
EXTENDS LogService

CONSTANTS Absent, Workers, Admins, CommandLine, Commands, Levels, Unknown, MaxCommands, MaxKills, MaxWords

VARIABLES svc, file, up, mem, eff, work, admin, last, kills, commands,
          name, words, meant, result

Flag(o) == [option |-> o, values |-> <<>>]
Valued(o, v) == [option |-> o, values |-> <<v>>]
Extra(v) == [option |-> None, values |-> <<v>>]

\* The log service is started with syslog on its command line, so that the
\* file has something to win over.
MCCommandLine ==
    [log |-> <<Flag("state-dir"), Flag("syslog")>>,
     netcfg |-> <<Flag("state-dir"), Valued("resolv-conf", "path")>>]

Sets(cmd, o, v) == [cmd |-> cmd, tokens |-> <<Valued("config-set", o), Extra(v)>>]
Unsets(cmd, o) == [cmd |-> cmd, tokens |-> <<Valued("config-unset", o)>>]

\* Command lines that are refused or change nothing.
Odd(cmd, o) ==
    {[cmd |-> cmd, tokens |-> t] : t \in {
        <<Valued("config-unset", o), Extra("yes")>>,
        <<Valued("config-unset", o), Valued("config-set", o), Extra("no"), Flag("config-file-override")>>,
        <<Flag("config-show")>>,
        <<Flag("help"), Valued("config-set", o), Extra("yes")>>}}

InitConfigs == {[cmd |-> "init-config", tokens |-> <<Flag("write-configs")>>],
                [cmd |-> "init-config", tokens |-> <<Flag("write-configs"), Flag("force")>>]}

MCCommands ==
    [log |-> {Sets("log-service", "journald", "yes"), Unsets("log-service", "journald"),
              Sets("log-service", "colour", "no"),
              Sets("log-service", "syslog-facility", "bad"), Sets("log-service", "log-level", "bad")}
             \cup Odd("log-service", "journald") \cup InitConfigs,
     netcfg |-> {Sets("netcfg-service", "systemd-resolved", "1"), Unsets("netcfg-service", "systemd-resolved"),
                 Sets("netcfg-service", "resolv-conf", "path"),
                 Sets("netcfg-service", "redirect-method", "bad")}
                \cup Odd("netcfg-service", "systemd-resolved") \cup InitConfigs]

MCSymmetry == Permutations(Admins)

Option(o, short, alias, required, values) ==
    [option |-> o, short |-> short, alias |-> alias, required |-> required, helper |-> values]

\* The kinds of options the commands register: with an alias, a short name, required and
\* optional values, and with and without a helper for them.
MCRegistered ==
    << [command |-> "config-manage", alias |-> None, options |->
         << Option("path", "o", "config-path", TRUE, {"p1", "p2"}), Option("rename", "r", None, TRUE, {}),
            Option("show", "s", None, FALSE, {}), Option("dco", None, None, FALSE, {"true", "false"}) >>],
       [command |-> "version", alias |-> None, options |-> <<>>] >>

Opt == INSTANCE ServiceConfig
Shell == INSTANCE CommandLine WITH Registered <- MCRegistered, Typed <- {"text"}

ASSUME InstalledAssumption == Opt!Installed

optVars == <<svc, file, up, mem, eff, work, admin, last, kills, commands>>
shellVars == <<name, words, meant, result>>

NoOptions == /\ svc = None /\ file = None /\ up = None /\ mem = None /\ eff = None /\ work = None
             /\ admin = None /\ last = None /\ kills = None /\ commands = None
NoShell == name = Absent /\ words = Absent /\ meant = Absent /\ result = Absent

WithOptions == svc # None
WithShell == name # Absent

ServicesInit == Init /\ \/ NoOptions /\ NoShell
                        \/ Opt!Init /\ NoShell
                        \/ NoOptions /\ Shell!Init

ServicesNext == \/ ~WithOptions /\ ~WithShell /\ Next /\ UNCHANGED <<optVars, shellVars>>
                \/ WithOptions /\ Opt!Next /\ UNCHANGED <<vars, shellVars>>
                \/ WithShell /\ Shell!Next /\ UNCHANGED <<vars, optVars>>

ServicesSpec == ServicesInit /\ [][ServicesNext]_<<vars, optVars, shellVars>>

\* FILE STAYS USABLE, SETTINGS KEPT and COMPLETED AS MEANT, in the behaviours they are
\* about.
FileStaysUsable == WithOptions => Opt!FileStaysUsable
SettingsKept == WithOptions => Opt!SettingsKept
CompletedAsMeant == WithShell => Shell!CompletedAsMeant
=============================================================================
