--------------------------- MODULE RequiresQueue ---------------------------
(***************************************************************************)
(* The queue of user input a VPN client process still needs                *)
(* (src/src/common/requiresqueue.cpp).  The client process adds slots; the *)
(* front-end lists, fetches and fills them in through the session manager. *)
(*                                                                         *)
(* Every operation is a function from a queue to a queue, so that a        *)
(* component that owns a queue (BackendClient) can use several of them in  *)
(* one step; the state machine at the end of the module is the queue on    *)
(* its own, driven by any sequence of calls.                               *)
(***************************************************************************)
EXTENDS Naturals, Sequences

CONSTANTS
    TypeGroups, \* pairs <<type, group>>: ClientAttentionType x ClientAttentionGroup
    Names,      \* the variable names of slots
    Inputs,     \* what a front-end may send as a value
    Values,     \* what is stored in a slot after the control characters are removed
    Filter,     \* filter_ctrl_chars(v, true), a function from Inputs to Values
    Empty,      \* the empty string
    MaxSlots    \* bound on the number of slots (the code has none)

\* get_reqid_index() maps a pair to type * 100 + group; both enums are far
\* below 100, which is what keeps the indexes of different pairs apart.
ASSUME TypeGroupsAssumption == TypeGroups \subseteq Nat \X (0..99)
ASSUME ValuesAssumption ==
    /\ Filter \in [Inputs -> Values]
    /\ Empty \in Inputs
    /\ Empty \in Values
ASSUME MaxSlotsAssumption == MaxSlots \in Nat

VARIABLES
    queue,   \* [slots |-> vector<RequiresSlot>, reqids |-> map index -> next id]
    result   \* how the last call ended: the call, its error ("ok" if none), what it returned

vars == <<queue, result>>

(***************************************************************************)
(* State of a queue.                                                       *)
(***************************************************************************)
Slot == [tg: TypeGroups, id: Nat, name: Names, value: Values, provided: BOOLEAN]

get_reqid_index(tg) == tg[1] * 100 + tg[2]

Indexes == {get_reqid_index(tg) : tg \in TypeGroups}

Queue == [slots: Seq(Slot), reqids: [Indexes -> Nat]]

\* std::map::operator[] makes a missing counter 0.
EmptyQueue == [slots |-> <<>>, reqids |-> [i \in Indexes |-> 0]]

\* Positions of the slots of a type/group pair, and of those still to be filled in.
SlotsOf(q, tg) == {i \in DOMAIN q.slots : q.slots[i].tg = tg}
Pending(q, tg) == {i \in SlotsOf(q, tg) : ~q.slots[i].provided}

\* Every loop over the vector stops at the first slot that matches.
First(S) == CHOOSE i \in S : \A j \in S : i <= j

\* Mutant of the look-up by id: the group is not compared.
ByIdAnyGroup(q, tg, id) == {i \in DOMAIN q.slots : q.slots[i].id = id}

ById(q, tg, id) == {i \in SlotsOf(q, tg) : q.slots[i].id = id}
ByName(q, tg, name) == {i \in SlotsOf(q, tg) : q.slots[i].name = name}

(***************************************************************************)
(* Queries.                                                                *)
(***************************************************************************)
QueueCount(q, tg) == SlotsOf(q, tg)    \* callers compare its size with 0
QueueCheck(q, tg) == {q.slots[i].id : i \in Pending(q, tg)}
QueueCheckTypeGroup(q) == {q.slots[i].tg : i \in {j \in DOMAIN q.slots : ~q.slots[j].provided}}
QueueAllDone(q) == \A i \in DOMAIN q.slots : q.slots[i].provided
QueueDone(q, tg) == QueueCheck(q, tg) = {}

\* GetResponse() by id and by name: the slot found decides; an error unless it is provided.
ResponseOf(q, S) ==
    IF S = {} THEN [err |-> "no-matching-entry", val |-> Empty]
    ELSE IF ~q.slots[First(S)].provided THEN [err |-> "never-provided", val |-> Empty]
    ELSE [err |-> "ok", val |-> q.slots[First(S)].value]

GetResponseById(q, tg, id) == ResponseOf(q, ById(q, tg, id))
GetResponse(q, tg, name) == ResponseOf(q, ByName(q, tg, name))

\* QueueFetchGVariant(): refuses a slot that is already provided.
QueueFetchError(q, tg, id) ==
    LET S == ById(q, tg, id) IN
    IF S = {} THEN "element-not-found"
    ELSE IF q.slots[First(S)].provided THEN "already-provided"
    ELSE "ok"

(***************************************************************************)
(* Operations that change the queue.                                       *)
(***************************************************************************)
RequireAdd(q, tg, name) ==
    LET index == get_reqid_index(tg)
        elmt == [tg |-> tg, id |-> q.reqids[index], name |-> name,
                 value |-> Empty, provided |-> FALSE]
    IN [slots |-> Append(q.slots, elmt),
        reqids |-> [q.reqids EXCEPT ![index] = @ + 1]]

\* Mutant of UpdateEntry(): a slot that is already provided is written again.
UpdateEntryErrorOverwrites(q, tg, id) ==
    IF QueueDone(q, tg) THEN "not-required"
    ELSE IF ById(q, tg, id) = {} THEN "invalid-input"
    ELSE "ok"

\* UpdateEntry(type, group, id, value): the error it throws, "ok" when it stores the value.
UpdateEntryError(q, tg, id) ==
    LET S == ById(q, tg, id) IN
    IF QueueDone(q, tg) THEN "not-required"
    ELSE IF S = {} THEN "invalid-input"
    ELSE IF q.slots[First(S)].provided THEN "input-already-provided"
    ELSE "ok"

\* Mutant of UpdateEntry(): the value is stored as it was received.
UpdateEntryUnfiltered(q, tg, id, v) ==
    [q EXCEPT !.slots[First(ById(q, tg, id))] = [@ EXCEPT !.provided = TRUE, !.value = v]]

UpdateEntry(q, tg, id, v) ==
    [q EXCEPT !.slots[First(ById(q, tg, id))] = [@ EXCEPT !.provided = TRUE, !.value = Filter[v]]]

ResetValue(q, tg, id) ==
    [q EXCEPT !.slots[First(ById(q, tg, id))] = [@ EXCEPT !.provided = FALSE, !.value = Empty]]

(***************************************************************************)
(* The queue on its own: any sequence of calls.                            *)
(***************************************************************************)
Calls == {"none", "RequireAdd", "UserInputProvide", "ResetValue", "ClearAll",
          "UserInputQueueFetch", "GetResponse", "GetResponseById"}

Errors == {"ok", "no-matching-entry", "never-provided", "element-not-found", "already-provided",
           "not-required", "invalid-input", "input-already-provided"}

Returned(call, err, val) == result' = [call |-> call, err |-> err, val |-> val]

Init ==
    /\ queue = EmptyQueue
    /\ result = [call |-> "none", err |-> "ok", val |-> Empty]

CallRequireAdd(tg, name) ==
    /\ Len(queue.slots) < MaxSlots
    /\ queue' = RequireAdd(queue, tg, name)
    /\ Returned("RequireAdd", "ok", Empty)

\* UpdateEntry(GVariant): an empty value is refused before anything else is looked at.
CallProvide(tg, id, v) ==
    LET err == IF v = Empty THEN "invalid-input" ELSE UpdateEntryError(queue, tg, id) IN
    /\ queue' = IF err = "ok" THEN UpdateEntry(queue, tg, id, v) ELSE queue
    /\ Returned("UserInputProvide", err, Empty)

CallResetValue(tg, id) ==
    /\ IF ById(queue, tg, id) = {}
       THEN queue' = queue /\ Returned("ResetValue", "no-matching-entry", Empty)
       ELSE queue' = ResetValue(queue, tg, id) /\ Returned("ResetValue", "ok", Empty)

\* Mutant of ClearAll(): the counters are cleared but the slots are kept.
ClearCountersOnly ==
    /\ queue' = [queue EXCEPT !.reqids = EmptyQueue.reqids]
    /\ Returned("ClearAll", "ok", Empty)

CallClearAll ==
    /\ queue' = EmptyQueue
    /\ Returned("ClearAll", "ok", Empty)

CallFetch(tg, id) ==
    /\ UNCHANGED queue
    /\ Returned("UserInputQueueFetch", QueueFetchError(queue, tg, id), Empty)

CallGetResponse(tg, name) ==
    /\ UNCHANGED queue
    /\ LET r == GetResponse(queue, tg, name) IN Returned("GetResponse", r.err, r.val)

CallGetResponseById(tg, id) ==
    /\ UNCHANGED queue
    /\ LET r == GetResponseById(queue, tg, id) IN Returned("GetResponseById", r.err, r.val)

Next ==
    \/ \E tg \in TypeGroups, name \in Names : CallRequireAdd(tg, name) \/ CallGetResponse(tg, name)
    \/ \E tg \in TypeGroups, id \in 0..MaxSlots :
          \/ \E v \in Inputs : CallProvide(tg, id, v)
          \/ CallResetValue(tg, id)
          \/ CallFetch(tg, id)
          \/ CallGetResponseById(tg, id)
    \/ CallClearAll

Spec == Init /\ [][Next]_vars

(***************************************************************************)
(* Properties.                                                             *)
(***************************************************************************)
\* The queue holds well-formed slots and one counter per type/group index.
TypeOK ==
    /\ queue \in Queue
    /\ result \in [call: Calls, err: Errors, val: Values]

\* Two slots of the same type/group pair never share an id, although the counters
\* are kept under type * 100 + group and ClearAll() restarts them
\* (RequireAdd(), get_reqid_index(), ClearAll()).
UniqueIds ==
    \A i, j \in DOMAIN queue.slots :
        (queue.slots[i].tg = queue.slots[j].tg /\ queue.slots[i].id = queue.slots[j].id) => i = j

\* The strengthening UniqueIds needs: the next id of a pair is above all ids in use.
IdsBelowCounter ==
    \A i \in DOMAIN queue.slots :
        queue.slots[i].id < queue.reqids[get_reqid_index(queue.slots[i].tg)]

IdInv == UniqueIds /\ IdsBelowCounter

\* Everything the front-end is told to provide can be provided: an id that
\* UserInputQueueCheck lists is accepted by UserInputQueueFetch and by
\* UserInputProvide, and reaches the very slot that was listed.
ListedIsProvidable ==
    \A tg \in TypeGroups : \A i \in Pending(queue, tg) :
        LET id == queue.slots[i].id IN
        /\ QueueFetchError(queue, tg, id) = "ok"
        /\ UpdateEntryError(queue, tg, id) = "ok"
        /\ First(ById(queue, tg, id)) = i

\* What a front-end provided stays: only ResetValue() and ClearAll() take a provided
\* value away, and no call replaces it by another one.
ProvidedIsFinal ==
    [][\A i \in DOMAIN queue.slots :
          queue.slots[i].provided =>
             \/ i \in DOMAIN queue'.slots /\ queue'.slots[i] = queue.slots[i]
             \/ result'.call \in {"ResetValue", "ClearAll"}]_vars
=============================================================================
