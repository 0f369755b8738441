------------------------------ MODULE CmdArgs ------------------------------
(***************************************************************************)
(* Parsed command lines (src/src/common/cmdargparser.cpp) and option files *)
(* (src/src/common/configfileparser.cpp), and how a file is imported into  *)
(* a command line.                                                         *)
(*                                                                         *)
(* A token is what getopt_long() yields: an option with a sequence of at   *)
(* most one value, or an extra argument (option None).  An option file is  *)
(* described by its mapping, a sequence of entries with the option's name, *)
(* exclusive group and type, and its contents are a function from options  *)
(* to values, Absent when the entry is not present.                        *)
(***************************************************************************)
EXTENDS Naturals, Sequences, FiniteSets, SequencesExt

CONSTANTS None, Absent

Flags == {"true", "false"}

(* ParsedArgs *)

ParsedArgs == [key_value |-> [k \in {} |-> <<>>], present |-> {}, extra_args |-> <<>>,
               completed |-> FALSE]

GetAllValues(args, k) == IF k \in DOMAIN args.key_value THEN args.key_value[k] ELSE <<>>
GetValue(args, k) == Head(GetAllValues(args, k))
GetLastValue(args, k) == Last(GetAllValues(args, k))

\* The first option of the list that was given; None where the code throws
\* OptionNotFound.
FirstPresent(args, optlist) ==
    LET given == SelectSeq(optlist, LAMBDA k : k \in args.present)
    IN IF given = <<>> THEN None ELSE Head(given)

\* register_option(): the values of an option, or the extra arguments, one
\* behind the other.
register_option(tokens, k) ==
    FlattenSeq([i \in DOMAIN tokens |-> IF tokens[i].option = k THEN tokens[i].values ELSE <<>>])

\* remove_arg() for every option of a set.
remove_arg(args, opts) ==
    [args EXCEPT !.key_value = [x \in DOMAIN @ \cup opts |-> IF x \in opts THEN <<>> ELSE @[x]],
                 !.present = @ \ opts]

\* --help, --version and an unknown option end the parsing: the command's
\* function is not called.
parse_commandline(tokens) ==
    LET given == {tokens[i].option : i \in DOMAIN tokens} \ {None}
    IN IF given \cap {"help", "version", "unknown"} # {}
       THEN ParsedArgs
       ELSE [key_value |-> [k \in given |-> register_option(tokens, k)], present |-> given,
             extra_args |-> register_option(tokens, None), completed |-> TRUE]

AtMostOne(S) == \A x, y \in S : x = y

\* ParsedArgs::CheckExclusiveOptions() does not throw.
ArgsExclusive(args, groups) == \A g \in groups : AtMostOne(g \cap args.present)

(* Configuration::File *)

MappedOptions(mapping) == {mapping[i].option : i \in DOMAIN mapping}
Entry(mapping, o) == CHOOSE e \in ToSet(mapping) : e.option = o
NoOptions(mapping) == [o \in MappedOptions(mapping) |-> Absent]
IsPresent(map, o) == map[o] # Absent
IsEmpty(map) == \A o \in DOMAIN map : ~IsPresent(map, o)

\* GetOptions(): the present options; their places in the mapping give their order.
GetOptions(mapping, map) == {i \in DOMAIN mapping : IsPresent(map, mapping[i].option)}

\* Only "1", "yes" and "true" make a flag true; any other value given to one
\* makes it present and false.
SetValue(mapping, map, o, value) ==
    IF Entry(mapping, o).type = "Present"
    THEN [map EXCEPT ![o] = IF value \in {"1", "yes", "true"} THEN "true" ELSE "false"]
    ELSE [map EXCEPT ![o] = IF value = "" THEN Absent ELSE value]

UnsetOption(map, o) == [map EXCEPT ![o] = Absent]

GroupsOf(mapping) ==
    {{e.option : e \in {x \in ToSet(mapping) : x.group = g}} :
        g \in {e.group : e \in ToSet(mapping)} \ {None}}

GetRelatedExclusiveOptions(mapping, o) ==
    (UNION {g \in GroupsOf(mapping) : o \in g}) \ {o}

\* File::CheckExclusiveOptions() does not throw.  It asks whether an option is
\* present, whatever its value.
FileExclusive(mapping, map) ==
    \A g \in GroupsOf(mapping) : AtMostOne({o \in g : IsPresent(map, o)})

\* ImportConfigFile(): one after the other, the options of the file take the
\* place of themselves and of the other options of their group, those of the
\* file that came before included.  A flag becomes present even when the file
\* says it is false.
Replaces(mapping, i) ==
    GetRelatedExclusiveOptions(mapping, mapping[i].option) \cup {mapping[i].option}

ImportConfigFile(args, mapping, map) ==
    LET given == GetOptions(mapping, map)
        gone == UNION {Replaces(mapping, i) : i \in given}
        kept == {mapping[i].option : i \in
                    {j \in given : \A k \in given : k > j => mapping[j].option \notin Replaces(mapping, k)}}
        left == remove_arg(args, gone)
    IN [left EXCEPT !.key_value = [x \in DOMAIN @ |-> IF x \in kept THEN <<map[x]>> ELSE @[x]],
                    !.present = @ \cup kept]
=============================================================================
