------------------------- MODULE RequiresQueueBoard -------------------------
(***************************************************************************)
(* The queue of user input implements the board of questions: a slot is    *)
(* the question whose key is its type/group pair and its id.               *)
(***************************************************************************)
EXTENDS RequiresQueue

Keys(q) == {<<q.slots[i].tg, q.slots[i].id>> : i \in DOMAIN q.slots}

\* What a look-up finds under a key.
Question(q, k) ==
    LET s == q.slots[First(ById(q, k[1], k[2]))]
    IN [name |-> s.name, provided |-> s.provided, value |-> s.value]

BoardOf(q) == [k \in Keys(q) |-> Question(q, k)]

Board == INSTANCE InputBoard WITH
    board <- BoardOf(queue),
    reply <- [call |-> result.call, ok |-> result.err = "ok", val |-> result.val],
    Ids <- 0..MaxSlots

(* ANSWERED ONCE: the queue does what the board of questions promises.  A   *)
(* question gets a key of its own, although ids are counted under           *)
(* type * 100 + group and restart with ClearAll(); an answer goes to the    *)
(* question it names, is accepted exactly once and stays until ResetValue() *)
(* or ClearAll(), although every look-up stops at the first slot that       *)
(* matches; and the client process reads the answer that was accepted       *)
(* (RequireAdd, UpdateEntry, ResetValue, QueueFetchGVariant, GetResponse).  *)
AnsweredOnce == Board!Spec
=============================================================================
