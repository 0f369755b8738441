--------------------------- MODULE ServiceConfig ---------------------------
(***************************************************************************)
(* The option file of a service: log-service.json of the log service       *)
(* (src/src/log/openvpn3-service-log.cpp), which also writes it when a     *)
(* D-Bus property is set, or netcfg.json of the netcfg service             *)
(* (src/src/netcfg/netcfg-options.hpp); and the administrator's commands   *)
(* that write it, "log-service", "netcfg-service" and "init-config"        *)
(* (src/src/ovpn3cli/commands/).  Nothing locks the file: a save truncates *)
(* it and then writes, and each program writes the whole of what it loaded *)
(* earlier.                                                                *)
(*                                                                         *)
(* Options that take no part in a check, and that no property sets, are    *)
(* left out of the mappings.                                               *)
(***************************************************************************)
EXTENDS CmdArgs

CONSTANTS
    Workers,     \* threads of the log service that set a property
    Admins,      \* processes of the administrator
    CommandLine, \* what each service is started with
    Commands,    \* [cmd, tokens]: command lines of the administrator
    Levels,      \* log levels the services know
    Unknown,     \* other values: a level above 6, an unknown facility or method
    MaxCommands, \* commands of the administrator
    MaxKills     \* processes killed while they run

Services == {"log", "netcfg"}

LogServiceConfigFile ==
    << [option |-> "journald",        group |-> "log_method", type |-> "Present"],
       [option |-> "syslog",          group |-> "log_method", type |-> "Present"],
       [option |-> "syslog-facility", group |-> None,         type |-> "String"],
       [option |-> "log-file",        group |-> "log_method", type |-> "String"],
       [option |-> "colour",          group |-> None,         type |-> "Present"],
       [option |-> "log-level",       group |-> None,         type |-> "Int"],
       [option |-> "timestamp",       group |-> None,         type |-> "Present"] >>

NetCfgConfigFile ==
    << [option |-> "log-level",        group |-> None,           type |-> "Int"],
       [option |-> "resolv-conf",      group |-> "DNS-resolver", type |-> "String"],
       [option |-> "systemd-resolved", group |-> "DNS-resolver", type |-> "Present"],
       [option |-> "redirect-method",  group |-> None,           type |-> "String"] >>

Mapping == [log |-> LogServiceConfigFile, netcfg |-> NetCfgConfigFile]

VARIABLES
    svc,     \* the service this behaviour is about
    file,    \* its option file: [exists, map]; empty and truncated are alike
    up,      \* is the service running?
    mem,     \* the options the service loaded; the log service adds to them
    eff,     \* the settings in effect in the running service
    work,    \* the log service's threads: "idle" or "saving"
    admin,   \* the administrator's processes: [phase, args, map]
    last,    \* history: is the running "service" the last that wrote, or tried to
             \* write, the file, and did it succeed?  "other" if not
    kills,
    commands

vars == <<svc, file, up, mem, eff, work, admin, last, kills, commands>>

M == Mapping[svc]
NoAdmin == [phase |-> "idle", cmd |-> None, args |-> ParsedArgs, map |-> NoOptions(M)]

(***************************************************************************)
(* Starting and stopping the service.                                      *)
(***************************************************************************)

\* The exclusive groups the service checks its command line against.  The
\* second group of the log service has no counterpart in the option file.
StartGroups ==
    [log |-> {{"syslog", "journald", "log-file"}, {"syslog", "journald", "colour"}},
     netcfg |-> {{"resolv-conf", "systemd-resolved"}}]

\* The options whose value a service checks when it starts; the facility only
\* when syslog is used.
Checked == [log |-> {"log-level", "syslog-facility"}, netcfg |-> {"redirect-method"}]
ValidValues(s, args) ==
    \A o \in Checked[s] \cap args.present :
        o # "syslog-facility" \/ "syslog" \in args.present => GetValue(args, o) \notin Unknown

\* What the services are installed with: command lines that they accept.  A log
\* level is a number.
Installed ==
    /\ \A s \in Services :
          LET args == parse_commandline(CommandLine[s])
          IN /\ ArgsExclusive(args, StartGroups[s])
             /\ \A o \in Checked[s] \cap args.present : GetValue(args, o) \notin Unknown
    /\ Levels \cap Unknown = {}
    /\ Absent \notin Flags \cup Levels /\ "" \notin Levels
    /\ None \notin {"log_method", "DNS-resolver"}

StartArgs(f) == ImportConfigFile(parse_commandline(CommandLine[svc]), M, f.map)

\* Does the service start with option file f?  Only the log service checks
\* the groups of the file itself.
Starts(f) ==
    LET args == StartArgs(f)
    IN /\ svc = "log" => FileExclusive(M, f.map)
       /\ ArgsExclusive(args, StartGroups[svc])
       /\ ValidValues(svc, args)

\* The settings a start with file f leads to.  The log file of the log service
\* is looked up as "logfile", an option that does not exist, so it is never
\* used.  systemd-resolved is set up after resolv-conf and replaces it.
Method(args) ==
    IF svc = "log"
    THEN IF "syslog" \in args.present THEN "syslog"
         ELSE IF "journald" \in args.present THEN "journald" ELSE "stdout"
    ELSE IF "systemd-resolved" \in args.present THEN "systemd-resolved"
         ELSE IF "resolv-conf" \in args.present THEN "resolv-conf" ELSE "none"

Settings(f) ==
    LET args == StartArgs(f)
    IN [method |-> Method(args),
        level |-> IF "log-level" \notin args.present THEN Absent
                  ELSE IF svc = "log" THEN GetValue(args, "log-level")
                  ELSE GetLastValue(args, "log-level"),
        timestamp |-> "timestamp" \in args.present]

NoSettings == [method |-> None, level |-> Absent, timestamp |-> FALSE]

Start ==
    /\ ~up /\ Starts(file)
    /\ up' = TRUE
    /\ mem' = file.map
    /\ eff' = Settings(file)
    /\ last' = "other"
    /\ UNCHANGED <<svc, file, work, admin, kills, commands>>

\* What the process knew is gone.
Exit == /\ up' = FALSE
        /\ mem' = NoOptions(M)
        /\ eff' = NoSettings
        /\ last' = "other"

\* Idle exit, shutdown of the host: no property is being set.
Stop ==
    /\ up /\ \A w \in Workers : work[w] = "idle"
    /\ Exit
    /\ UNCHANGED <<svc, file, work, admin, kills, commands>>

Kill ==
    /\ kills < MaxKills /\ kills' = kills + 1
    /\ \/ /\ up /\ Exit
          /\ work' = [w \in Workers |-> "idle"]
          /\ UNCHANGED admin
       \/ \E a \in Admins : /\ admin[a].phase # "idle"
                            /\ admin' = [admin EXCEPT ![a] = NoAdmin]
                            /\ UNCHANGED <<up, mem, eff, work, last>>
    /\ UNCHANGED <<svc, file, commands>>

(***************************************************************************)
(* Setting a property of the log service.                                  *)
(***************************************************************************)
Truncate(who) == /\ file' = [exists |-> TRUE, map |-> NoOptions(M)]
                 /\ last' = who
Write(map, who) == /\ file' = [exists |-> TRUE, map |-> map]
                   /\ last' = who

\* Mutant: a log level that is set is not put into the saved options.
MutantSetProperty(w) ==
    /\ svc = "log" /\ up /\ work[w] = "idle"
    /\ \/ \E l \in Levels : eff' = [eff EXCEPT !.level = l] /\ UNCHANGED mem
       \/ \E b \in BOOLEAN : /\ eff' = [eff EXCEPT !.timestamp = b]
                             /\ mem' = SetValue(M, mem, "timestamp", IF b THEN "true" ELSE "false")
    /\ work' = [work EXCEPT ![w] = "saving"]
    /\ Truncate("service")
    /\ UNCHANGED <<svc, up, admin, kills, commands>>

\* The property takes effect, save_property() puts it into the service's own
\* copy of the options and Save() opens the file.  When that fails, its
\* exception is none that save_property() catches: the caller gets an error, but
\* the property keeps its effect.
SetProperty(w) ==
    /\ svc = "log" /\ up /\ work[w] = "idle"
    /\ \/ \E l \in Levels : /\ eff' = [eff EXCEPT !.level = l]
                            /\ mem' = SetValue(M, mem, "log-level", l)
       \/ \E b \in BOOLEAN : /\ eff' = [eff EXCEPT !.timestamp = b]
                             /\ mem' = SetValue(M, mem, "timestamp", IF b THEN "true" ELSE "false")
    /\ \/ work' = [work EXCEPT ![w] = "saving"] /\ Truncate("service")
       \/ last' = "other" /\ UNCHANGED <<file, work>>
    /\ UNCHANGED <<svc, up, admin, kills, commands>>

\* The options are written, or the disk is full and the file stays empty.
SavePropertyWrite(w) ==
    /\ work[w] = "saving"
    /\ work' = [work EXCEPT ![w] = "idle"]
    /\ \/ Write(mem, "service")
       \/ last' = "other" /\ UNCHANGED file
    /\ UNCHANGED <<svc, up, mem, eff, admin, kills, commands>>

(***************************************************************************)
(* The administrator's commands.                                           *)
(***************************************************************************)
CfgModes == <<"config-show", "config-set", "config-unset">>
Mode(args) == FirstPresent(args, CfgModes)

\* The file's name comes from the service, which D-Bus starts for that, unless
\* it is given.  netcfg-service refuses two modes at once; log-service takes
\* the first in the order of CfgModes.
Reaches(c, args) ==
    CASE c.cmd = "init-config" -> TRUE
      [] c.cmd = "log-service" -> /\ Mode(args) # None
                                  /\ up \/ "config-file-override" \in args.present
      [] c.cmd = "netcfg-service" -> /\ Mode(args) # None
                                     /\ ArgsExclusive(args, {ToSet(CfgModes)})
                                     /\ up \/ "config-file-override" \in args.present

Load(a) ==
    /\ admin[a].phase = "idle"
    /\ commands < MaxCommands /\ commands' = commands + 1
    /\ \E c \in Commands[svc] :
          LET args == parse_commandline(c.tokens)
          IN /\ args.completed /\ Reaches(c, args)
             /\ admin' = [admin EXCEPT ![a] =
                    [phase |-> "loaded", cmd |-> c.cmd, args |-> args, map |-> file.map]]
    /\ UNCHANGED <<svc, file, up, mem, eff, work, last, kills>>

\* A wrong number of extra arguments ends the command before any change.
WellFormed(args) == Len(args.extra_args) = IF Mode(args) = "config-set" THEN 1 ELSE 0

\* UnsetOption() of an option that is not in the mapping of a file that was
\* not there, or was empty, changes nothing that would be saved.
Changed(a) ==
    LET args == admin[a].args
        o == GetLastValue(args, Mode(args))
    IN IF Mode(args) = "config-unset" THEN UnsetOption(admin[a].map, o)
       ELSE SetValue(M, admin[a].map, o, Head(args.extra_args))

Saves(a, map) ==
    /\ Truncate("other")
    /\ admin' = [admin EXCEPT ![a] = [NoAdmin EXCEPT !.phase = "saving", !.map = map]]

Gives(a) == admin' = [admin EXCEPT ![a] = NoAdmin] /\ UNCHANGED <<file, last>>

\* Mutant: the changed options are saved without the check.
ManageUnchecked(a) ==
    /\ admin[a].phase = "loaded" /\ admin[a].cmd # "init-config"
    /\ IF Mode(admin[a].args) = "config-show" \/ ~WellFormed(admin[a].args)
       THEN Gives(a)
       ELSE Saves(a, Changed(a))
    /\ UNCHANGED <<svc, up, mem, eff, work, kills, commands>>

\* manage_config_file(): change, check, save.
Manage(a) ==
    /\ admin[a].phase = "loaded" /\ admin[a].cmd # "init-config"
    /\ IF \/ Mode(admin[a].args) = "config-show"
          \/ ~WellFormed(admin[a].args)
          \/ ~FileExclusive(M, Changed(a))
       THEN Gives(a)
       ELSE Saves(a, Changed(a))
    /\ UNCHANGED <<svc, up, mem, eff, work, kills, commands>>

\* configure_logger() and configure_netcfg() drop these options before they
\* set the ones that suit the host; "colour" is not among them.
UnsetByInit == IF svc = "log" THEN {"journald", "syslog", "log-file", "timestamp"}
               ELSE {"systemd-resolved", "resolv-conf"}
Detected(map) ==
    IF svc = "log" THEN {SetValue(M, map, o, "true") : o \in {"journald", "syslog"}}
    ELSE {map, SetValue(M, map, "systemd-resolved", "true"), SetValue(M, map, "resolv-conf", "path")}

\* init-config: save_config_file() looks again whether the file exists.
InitConfig(a) ==
    /\ admin[a].phase = "loaded" /\ admin[a].cmd = "init-config"
    /\ IF /\ "write-configs" \in admin[a].args.present
          /\ ~file.exists \/ "force" \in admin[a].args.present
       THEN \E map \in Detected([o \in DOMAIN admin[a].map |->
                                  IF o \in UnsetByInit THEN Absent ELSE admin[a].map[o]]) :
               Saves(a, map)
       ELSE Gives(a)
    /\ UNCHANGED <<svc, up, mem, eff, work, kills, commands>>

SaveWrite(a) ==
    /\ admin[a].phase = "saving"
    /\ Write(admin[a].map, "other")
    /\ admin' = [admin EXCEPT ![a] = NoAdmin]
    /\ UNCHANGED <<svc, up, mem, eff, work, kills, commands>>

Init ==
    /\ svc \in Services
    /\ file = [exists |-> FALSE, map |-> NoOptions(M)]
    /\ up = FALSE
    /\ mem = NoOptions(M)
    /\ eff = NoSettings
    /\ work = [w \in Workers |-> "idle"]
    /\ admin = [a \in Admins |-> NoAdmin]
    /\ last = "other"
    /\ kills = 0
    /\ commands = 0

Next ==
    \/ Start \/ Stop \/ Kill
    \/ \E w \in Workers : SetProperty(w) \/ SavePropertyWrite(w)
    \/ \E a \in Admins : Load(a) \/ Manage(a) \/ InitConfig(a) \/ SaveWrite(a)

Spec == Init /\ [][Next]_vars

(***************************************************************************)
(* Properties.                                                             *)
(***************************************************************************)

\* Every piece of state has its type; the file's options are those of the
\* service's mapping with a value of the option's type, whatever was given to
\* --config-set.
TypeOK ==
    /\ svc \in Services
    /\ file.exists \in BOOLEAN
    /\ \A map \in {file.map, mem} \cup {admin[a].map : a \in Admins} :
          /\ DOMAIN map = MappedOptions(M)
          /\ \A o \in DOMAIN map :
                map[o] \in {Absent} \cup (IF Entry(M, o).type = "Present" THEN Flags
                                          ELSE Levels \cup Unknown \cup {"path"})
    /\ up \in BOOLEAN
    /\ eff.level \in Levels \cup Unknown \cup {Absent} /\ eff.timestamp \in BOOLEAN
    /\ work \in [Workers -> {"idle", "saving"}]
    /\ \A a \in Admins : admin[a].phase \in {"idle", "loaded", "saving"}
    /\ last \in {"service", "other"}
    /\ kills \in 0..MaxKills /\ commands \in 0..MaxCommands

\* A running service uses the log method or the resolver of the file it was started with.
FileWins ==
    up => \A o \in DOMAIN mem :
            IsPresent(mem, o) /\ o \in {"journald", "syslog", "systemd-resolved", "resolv-conf"}
                => eff.method = o

\* Whatever programs save the file in whatever order, and whichever of them is
\* killed, it never names two options of one exclusive group, it never clashes
\* with the command line, over which it wins, and the service can be started
\* with it.  Two things can prevent that, both out of what --config-set does not
\* check: "colour", in the file or on the command line, and a value in the file that the
\* service refuses (CheckExclusiveOptions, ImportConfigFile, SetLogLevel).
FileStaysUsable ==
    /\ FileExclusive(M, file.map)
    /\ FileWins
    /\ ~Starts(file) => \/ svc = "log" /\ "colour" \in StartArgs(file).present
                        \/ \E o \in DOMAIN file.map : file.map[o] \in Unknown

\* When the running log service was the last to write the file, none of its saves
\* has failed since and none is under way, a restart brings back the log method, the log level and every
\* flag that is on (log-service.hpp save_property).
SettingsKept ==
    (up /\ last = "service" /\ \A w \in Workers : work[w] = "idle") =>
        LET again == Settings(file)
        IN /\ Starts(file)
           /\ again.method = eff.method
           /\ again.level = eff.level
           /\ eff.timestamp => again.timestamp
=============================================================================
