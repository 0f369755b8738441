----------------------------- MODULE InputBoard -----------------------------
(***************************************************************************)
(* What the queue of user input promises to the client process that asks   *)
(* and to the front-ends that answer (src/src/common/requiresqueue.hpp): a *)
(* board of questions, each with a key of its own, that are answered once. *)
(* It has no order, no counters and no loops that stop at the first match; *)
(* RequiresQueueBoard says how the queue implements it.                    *)
(***************************************************************************)
CONSTANTS
    TypeGroups, \* what the questions are about
    Names,      \* the variable names of questions
    Ids,        \* the ids a caller may use
    Inputs,     \* what a front-end may answer
    Filter,     \* what is stored of an answer
    Empty       \* no answer

VARIABLES
    board,   \* from keys <<type/group, id>> to [name, provided, value]
    reply    \* what the last call returned

vars == <<board, reply>>

Reply(call, ok, val) == reply'.call = call /\ reply'.ok = ok /\ reply'.val = val

Init ==
    /\ board = [k \in {} |-> Empty]
    /\ reply = [call |-> "none", ok |-> TRUE, val |-> Empty]

\* A question gets a key that no other one on the board has.
Ask(tg, name) ==
    /\ Reply("RequireAdd", TRUE, Empty)
    /\ \E k \in DOMAIN board' \ DOMAIN board :
          /\ k[1] = tg
          /\ board' = [j \in DOMAIN board \cup {k} |->
                          IF j = k THEN [name |-> name, provided |-> FALSE, value |-> Empty]
                          ELSE board[j]]

Open(k) == k \in DOMAIN board /\ ~board[k].provided
Answered(k) == k \in DOMAIN board /\ board[k].provided

\* Exactly the questions that are open can be answered, and an answer goes to the
\* question with the key that was given.
Provide(k, v) ==
    /\ Reply("UserInputProvide", v # Empty /\ Open(k), Empty)
    /\ board' = IF v # Empty /\ Open(k)
                THEN [board EXCEPT ![k] = [name |-> @.name, provided |-> TRUE, value |-> Filter[v]]]
                ELSE board

Reset(k) ==
    /\ Reply("ResetValue", k \in DOMAIN board, Empty)
    /\ board' = IF k \in DOMAIN board
                THEN [board EXCEPT ![k] = [name |-> @.name, provided |-> FALSE, value |-> Empty]]
                ELSE board

Clear ==
    /\ Reply("ClearAll", TRUE, Empty)
    /\ board' = [k \in {} |-> Empty]

Fetch(k) ==
    /\ Reply("UserInputQueueFetch", Open(k), Empty)
    /\ UNCHANGED board

Response(k) ==
    /\ Reply("GetResponseById", Answered(k), IF Answered(k) THEN board[k].value ELSE Empty)
    /\ UNCHANGED board

\* A name may have been asked for more than once: the reply is about one of them.
ResponseByName(tg, name) ==
    LET Named == {k \in DOMAIN board : k[1] = tg /\ board[k].name = name} IN
    /\ \/ Named = {} /\ Reply("GetResponse", FALSE, Empty)
       \/ \E k \in Named :
             Reply("GetResponse", Answered(k), IF Answered(k) THEN board[k].value ELSE Empty)
    /\ UNCHANGED board

Next ==
    \/ \E tg \in TypeGroups, name \in Names : Ask(tg, name) \/ ResponseByName(tg, name)
    \/ \E tg \in TypeGroups, id \in Ids :
          \/ \E v \in Inputs : Provide(<<tg, id>>, v)
          \/ Reset(<<tg, id>>) \/ Fetch(<<tg, id>>) \/ Response(<<tg, id>>)
    \/ Clear

Spec == Init /\ [][Next]_vars
=============================================================================
