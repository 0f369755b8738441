---------------------------- MODULE CommandLine ----------------------------
(***************************************************************************)
(* Typing a command with shell completion and running it                   *)
(* (src/src/common/cmdargparser.cpp): what the shell-completion command    *)
(* offers and what the parser makes of it are computed from the registered *)
(* options by different code.                                              *)
(*                                                                         *)
(* A word is an option, short or long, with the value attached to it after *)
(* "=" (None without "="), or a plain word.  getopt_long() is external.    *)
(***************************************************************************)
EXTENDS CmdArgs

CONSTANTS
    Registered,  \* sequence of [command, alias, options]: the commands of the program
    Typed,       \* what a user types where nothing is offered
    MaxWords     \* words after the command

VARIABLES
    name,    \* the command that was typed
    words,   \* the words after it
    meant,   \* history: <<option, value>> for each word offered and picked
    result   \* what the program made of it, None while the line is typed

vars == <<name, words, meant, result>>

Word(kind, text, value) == [kind |-> kind, text |-> text, value |-> value]

(* SingleCommandOption: [option, short, alias, required, helper].  Every option *)
(* that does not require a value is registered with an optional one.           *)

help == [option |-> "help", short |-> "h", alias |-> None, required |-> FALSE, helper |-> {}]

OptionsOf(c) == <<help>> \o c.options

check_short_option(o, w) == w.kind = "short" /\ w.text = o.short
check_long_option(o, w) == w.kind = "long" /\ w.text \in {o.option, o.alias}

\* get_option_list_prefixed(): "--name=" is offered next to "--name" where the value
\* is optional; the value "" stands for the one still to come.
get_option_list_prefixed(o) ==
    LET long == {o.option} \cup ({o.alias} \ {None})
    IN {Word("short", s, None) : s \in {o.short} \ {None}}
       \cup {Word("long", l, v) : l \in long, v \in IF o.required THEN {None} ELSE {None, ""}}

\* CallArgumentHelper(): the first option the word names is asked; an optional value is
\* only suggested after "=".
CallArgumentHelper(c, w) ==
    LET named == SelectSeq(OptionsOf(c), LAMBDA o : check_short_option(o, w) \/ check_long_option(o, w))
    IN IF named = <<>> THEN {}
       ELSE IF ~Head(named).required /\ w.value = None THEN {} ELSE Head(named).helper

(* Parsing *)

\* Mutant: the alias of an option is not put in the table for getopt_long().
InitGetoptWithoutAlias(o) == {<<"long", o.option>>, <<"short", o.short>>}

\* init_getopt() and get_struct_option(): the names getopt_long() knows an option by.
init_getopt(o) == {<<"long", o.option>>, <<"long", o.alias>>, <<"short", o.short>>}

\* getopt_long() and the loop around it.  An option that requires a value and has none
\* attached takes the next word, whatever it is; pending is such an option.
Token(o, values) == [option |-> o, values |-> values]

Attached(w) == IF w.value = None THEN <<>> ELSE <<w.value>>

GetoptStep(c, s, w) ==
    LET known == SelectSeq(OptionsOf(c), LAMBDA o : <<w.kind, w.text>> \in init_getopt(o))
        o == Head(known)
    IN CASE s.pending # None -> [tokens |-> Append(s.tokens, Token(s.pending, <<w.text>>)), pending |-> None]
         [] s.pending = None /\ w.kind = "plain" -> [s EXCEPT !.tokens = Append(@, Token(None, <<w.text>>))]
         [] s.pending = None /\ w.kind # "plain" /\ known = <<>> ->
              [s EXCEPT !.tokens = Append(@, Token("unknown", <<>>))]
         [] s.pending = None /\ known # <<>> /\ o.required /\ w.value = None -> [s EXCEPT !.pending = o.option]
         [] OTHER -> [s EXCEPT !.tokens = Append(@, Token(o.option, Attached(w)))]

getopt_long(c, ws) ==
    LET Step(s, w) == GetoptStep(c, s, w)
        end == FoldLeft(Step, [tokens |-> <<>>, pending |-> None], ws)
    IN IF end.pending = None THEN end.tokens ELSE Append(end.tokens, Token("unknown", <<>>))

CheckCommandName(c, n) == n = c.command \/ (c.alias # None /\ n = c.alias)

\* ProcessCommandLine(): without a command, or with one nobody registered, it ends with 1.
\* An unknown option makes it throw.  The command's function is left to its own module.
ProcessCommandLine(n, ws) ==
    LET found == SelectSeq(Registered, LAMBDA c : CheckCommandName(c, n))
    IN CASE n = None -> "missing"
         [] n = "help" -> "help"
         [] n \notin {None, "help"} /\ found = <<>> -> "unknown command"
         [] OTHER -> parse_commandline(getopt_long(Head(found), ws))

-----------------------------------------------------------------------------
(* The user at the shell *)

Command == CHOOSE c \in ToSet(Registered) : c.command = name

\* list_commands(): all but the completion itself.
PickCommand ==
    /\ name = None /\ result = None
    /\ name' \in {c.command : c \in ToSet(Registered)} \cup {"help", "mistyped"}
    /\ UNCHANGED <<words, meant, result>>

Typing == name \in {c.command : c \in ToSet(Registered)} /\ result = None /\ Len(words) < MaxWords

\* list_options() and then, where there is a value to give, call_arg_helper(); the user
\* types one if none is offered.
Offered(c, w) == IF CallArgumentHelper(c, w) = {} THEN Typed ELSE CallArgumentHelper(c, w)

PickOption ==
    /\ Typing
    /\ \E o \in ToSet(OptionsOf(Command)) : \E w \in get_option_list_prefixed(o) :
        \/ /\ ~o.required /\ w.value = None
           /\ words' = Append(words, w)
           /\ meant' = Append(meant, Token(o.option, <<>>))
        \/ /\ ~o.required /\ w.value = ""
           /\ \E v \in Offered(Command, w) :
                /\ words' = Append(words, [w EXCEPT !.value = v])
                /\ meant' = Append(meant, Token(o.option, <<v>>))
        \/ /\ o.required
           /\ \E v \in Offered(Command, w) :
                /\ words' = words \o <<w, Word("plain", v, None)>>
                /\ meant' = Append(meant, Token(o.option, <<v>>))
    /\ UNCHANGED <<name, result>>

TypeWord ==
    /\ Typing
    /\ \E v \in Typed : words' = Append(words, Word("plain", v, None)) /\ meant' = Append(meant, Token(None, <<v>>))
    /\ UNCHANGED <<name, result>>

Run ==
    /\ result = None
    /\ result' = ProcessCommandLine(name, words)
    /\ UNCHANGED <<name, words, meant>>

Init == name = None /\ words = <<>> /\ meant = <<>> /\ result = None

Next == PickCommand \/ PickOption \/ TypeWord \/ Run

Spec == Init /\ [][Next]_vars

-----------------------------------------------------------------------------
(* COMPLETED AS MEANT: a line put together from what completion offers is      *)
(* accepted, and every option gets the values picked for it, in their order,  *)
(* by whichever of its names it was picked; only --help makes the rest of the *)
(* line void (ShellCompletion, SingleCommand::parse_commandline).             *)
CompletedAsMeant ==
    result # None /\ name \in {c.command : c \in ToSet(Registered)} =>
        \/ \E i \in DOMAIN meant : meant[i].option = "help"
        \/ /\ result.completed
           /\ result.present = {meant[i].option : i \in DOMAIN meant} \ {None}
           /\ \A o \in result.present \cup {None} :
                LET of == SelectSeq(meant, LAMBDA t : t.option = o)
                    vals == FoldLeft(LAMBDA a, t : a \o t.values, <<>>, of)
                IN vals = IF o = None THEN result.extra_args ELSE GetAllValues(result, o)
=============================================================================
