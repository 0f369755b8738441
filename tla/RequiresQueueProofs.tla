------------------------ MODULE RequiresQueueProofs ------------------------
(***************************************************************************)
(* Proofs about RequiresQueue for any set of type/group pairs, names and   *)
(* values and any number of slots.                                         *)
(***************************************************************************)
EXTENDS RequiresQueueBoard, WellFoundedInduction, TLAPS

\* get_reqid_index() keeps the counters of different type/group pairs apart, because
\* no group number reaches 100.
LEMMA IndexInjective ==
    ASSUME NEW a \in TypeGroups, NEW b \in TypeGroups, get_reqid_index(a) = get_reqid_index(b)
    PROVE  a = b
<1>1. a \in Nat \X (0..99) /\ b \in Nat \X (0..99)
  BY TypeGroupsAssumption
<1>2. PICK a1 \in Nat, a2 \in 0..99 : a = <<a1, a2>>
  BY <1>1
<1>3. PICK b1 \in Nat, b2 \in 0..99 : b = <<b1, b2>>
  BY <1>1
<1>4. a1 * 100 + a2 = b1 * 100 + b2
  BY <1>2, <1>3 DEF get_reqid_index
<1>5. a1 = b1 /\ a2 = b2
  BY <1>4
<1> QED BY <1>2, <1>3, <1>5

\* First() of a set of positions that is not empty is its least element: the slot a
\* loop over the vector stops at.
LEMMA FirstIsLeast ==
    ASSUME NEW S, S \subseteq Nat, S # {}
    PROVE  First(S) \in S /\ \A j \in S : First(S) <= j
<1> DEFINE R == OpToRel(<, Nat)
<1>1. \E k \in S : \A j \in S : ~(<<j, k>> \in R)
  BY WFMin, NatLessThanWellFounded
<1>2. \A j, k \in S : j < k => <<j, k>> \in R
  BY DEF OpToRel
<1> HIDE DEF R
<1>3. PICK k \in S : \A j \in S : ~(j < k)
  BY <1>1, <1>2
<1>4. \A j \in S : k <= j
  BY <1>3
<1> QED BY <1>4 DEF First

\* A slot found by id or by name is a slot of the queue.
LEMMA FoundInQueue ==
    ASSUME NEW q \in Queue, NEW tg, NEW x
    PROVE  /\ ById(q, tg, x) # {} => /\ First(ById(q, tg, x)) \in ById(q, tg, x)
                                     /\ First(ById(q, tg, x)) \in DOMAIN q.slots
           /\ ByName(q, tg, x) # {} => /\ First(ByName(q, tg, x)) \in ByName(q, tg, x)
                                       /\ First(ByName(q, tg, x)) \in DOMAIN q.slots
<1>1. ById(q, tg, x) \subseteq DOMAIN q.slots /\ ByName(q, tg, x) \subseteq DOMAIN q.slots
  BY DEF ById, ByName, SlotsOf
<1>2. DOMAIN q.slots \subseteq Nat
  BY DEF Queue
<1> QED BY <1>1, <1>2, FirstIsLeast

\* The operations of the queue return queues.
LEMMA RequireAddType ==
    ASSUME NEW q \in Queue, NEW tg \in TypeGroups, NEW name \in Names
    PROVE  RequireAdd(q, tg, name) \in Queue
<1>1. get_reqid_index(tg) \in Indexes
  BY DEF Indexes
<1>2. q.reqids[get_reqid_index(tg)] \in Nat
  BY <1>1 DEF Queue
<1> QED BY <1>1, <1>2, ValuesAssumption DEF RequireAdd, Queue, Slot

LEMMA SlotUpdateType ==
    ASSUME NEW q \in Queue, NEW i \in DOMAIN q.slots, NEW v \in Values, NEW p \in BOOLEAN
    PROVE  [q EXCEPT !.slots[i] = [@ EXCEPT !.provided = p, !.value = v]] \in Queue
<1>1. q.slots \in Seq(Slot) /\ q.slots[i] \in Slot
  BY DEF Queue
<1>2. [q.slots[i] EXCEPT !.provided = p, !.value = v] \in Slot
  BY <1>1 DEF Slot
<1>3. [q.slots EXCEPT ![i] = [@ EXCEPT !.provided = p, !.value = v]] \in Seq(Slot)
  BY <1>1, <1>2
<1> QED BY <1>3 DEF Queue

LEMMA EmptyQueueType == EmptyQueue \in Queue
BY DEF EmptyQueue, Queue

LEMMA ResponseType ==
    ASSUME NEW q \in Queue, NEW tg, NEW x
    PROVE  /\ GetResponse(q, tg, x) \in [err: Errors, val: Values]
           /\ GetResponseById(q, tg, x) \in [err: Errors, val: Values]
<1>1. ASSUME NEW S, S \subseteq DOMAIN q.slots, S # {} => First(S) \in S
      PROVE  ResponseOf(q, S) \in [err: Errors, val: Values]
  <2>1. CASE S = {}
    BY <2>1, ValuesAssumption DEF ResponseOf, Errors
  <2>2. CASE S # {}
    <3>1. q.slots[First(S)] \in Slot
      BY <1>1, <2>2 DEF Queue
    <3>2. q.slots[First(S)].value \in Values
      BY <3>1 DEF Slot
    <3> QED BY <2>2, <3>2, ValuesAssumption DEF ResponseOf, Errors
  <2> QED BY <2>1, <2>2
<1>2. ById(q, tg, x) \subseteq DOMAIN q.slots /\ ByName(q, tg, x) \subseteq DOMAIN q.slots
  BY DEF ById, ByName, SlotsOf
<1> QED BY <1>1, <1>2, FoundInQueue DEF GetResponse, GetResponseById

\* Every call leaves the queue well-formed and returns a value of the expected kind.
THEOREM TypeCorrect == Spec => []TypeOK
<1>1. Init => TypeOK
  BY EmptyQueueType, ValuesAssumption DEF Init, TypeOK, Calls, Errors
<1>2. ASSUME TypeOK, [Next]_vars PROVE TypeOK'
  <2> USE <1>2, ValuesAssumption DEF TypeOK, Returned, Calls
  <2>1. CASE \E tg \in TypeGroups, name \in Names : CallRequireAdd(tg, name)
    BY <2>1, RequireAddType DEF CallRequireAdd, Errors
  <2>2. CASE \E tg \in TypeGroups, name \in Names : CallGetResponse(tg, name)
    <3>1. PICK tg \in TypeGroups, name \in Names : CallGetResponse(tg, name)
      BY <2>2
    <3>2. GetResponse(queue, tg, name) \in [err: Errors, val: Values]
      BY ResponseType
    <3> QED BY <3>1, <3>2 DEF CallGetResponse
  <2>3. ASSUME NEW tg \in TypeGroups, NEW id, NEW v \in Inputs, CallProvide(tg, id, v)
        PROVE  TypeOK'
    <3>1. CASE UpdateEntryError(queue, tg, id) = "ok" /\ v # Empty
      <4>1. ById(queue, tg, id) # {}
        BY <3>1 DEF UpdateEntryError
      <4>2. First(ById(queue, tg, id)) \in DOMAIN queue.slots
        BY <4>1, FoundInQueue
      <4>3. UpdateEntry(queue, tg, id, v) \in Queue
        BY <4>2, SlotUpdateType DEF UpdateEntry
      <4> QED BY <2>3, <3>1, <4>3 DEF CallProvide, Errors
    <3>2. CASE UpdateEntryError(queue, tg, id) # "ok" \/ v = Empty
      <4>1. UpdateEntryError(queue, tg, id) \in Errors
        BY DEF UpdateEntryError, Errors
      <4> QED BY <2>3, <3>2, <4>1 DEF CallProvide, Errors
    <3> QED BY <3>1, <3>2
  <2>4. ASSUME NEW tg \in TypeGroups, NEW id, CallResetValue(tg, id)
        PROVE  TypeOK'
    <3>1. CASE ById(queue, tg, id) # {}
      <4>1. First(ById(queue, tg, id)) \in DOMAIN queue.slots
        BY <3>1, FoundInQueue
      <4>2. ResetValue(queue, tg, id) \in Queue
        BY <4>1, SlotUpdateType DEF ResetValue
      <4> QED BY <2>4, <3>1, <4>2 DEF CallResetValue, Errors
    <3>2. CASE ById(queue, tg, id) = {}
      BY <2>4, <3>2 DEF CallResetValue, Errors
    <3> QED BY <3>1, <3>2
  <2>5. ASSUME NEW tg \in TypeGroups, NEW id, CallFetch(tg, id)
        PROVE  TypeOK'
    <3>1. QueueFetchError(queue, tg, id) \in Errors
      BY DEF QueueFetchError, Errors
    <3> QED BY <2>5, <3>1 DEF CallFetch
  <2>6. ASSUME NEW tg \in TypeGroups, NEW id, CallGetResponseById(tg, id)
        PROVE  TypeOK'
    <3>1. GetResponseById(queue, tg, id) \in [err: Errors, val: Values]
      BY ResponseType
    <3> QED BY <2>6, <3>1 DEF CallGetResponseById
  <2>7. CASE CallClearAll
    BY <2>7, EmptyQueueType DEF CallClearAll, Errors
  <2>8. CASE UNCHANGED vars
    BY <2>8 DEF vars
  <2> QED BY <1>2, <2>1, <2>2, <2>3, <2>4, <2>5, <2>6, <2>7, <2>8 DEF Next
<1> QED BY <1>1, <1>2, PTL DEF Spec

\* The ids of the slots stay apart and below the counter of their pair as long as an
\* operation only changes the value of a slot.
LEMMA SlotUpdateIds ==
    ASSUME TypeOK, IdInv, NEW i \in DOMAIN queue.slots, NEW v \in Values, NEW p \in BOOLEAN,
           queue' = [queue EXCEPT !.slots[i] = [@ EXCEPT !.provided = p, !.value = v]]
    PROVE  IdInv'
<1>1. queue.slots \in Seq(Slot) /\ queue.slots[i] \in Slot
  BY DEF TypeOK, Queue
<1>2. queue'.slots = [queue.slots EXCEPT ![i] = [@ EXCEPT !.provided = p, !.value = v]]
  BY <1>1 DEF TypeOK, Queue
<1>3. queue'.reqids = queue.reqids
  BY DEF TypeOK, Queue
<1>4. DOMAIN queue'.slots = DOMAIN queue.slots
  BY <1>1, <1>2
<1>5. \A j \in DOMAIN queue.slots : /\ queue'.slots[j].tg = queue.slots[j].tg
                                    /\ queue'.slots[j].id = queue.slots[j].id
  BY <1>1, <1>2 DEF Slot
<1> QED BY <1>3, <1>4, <1>5 DEF IdInv, UniqueIds, IdsBelowCounter

\* A slot that RequireAdd() appends takes the counter's value, which is above every id of
\* its pair; the counters of the other pairs do not move.
LEMMA RequireAddIds ==
    ASSUME TypeOK, IdInv, NEW tg \in TypeGroups, NEW name \in Names,
           queue' = RequireAdd(queue, tg, name)
    PROVE  IdInv'
<1> DEFINE n == Len(queue.slots)
           x == get_reqid_index(tg)
           e == [tg |-> tg, id |-> queue.reqids[x], name |-> name,
                 value |-> Empty, provided |-> FALSE]
<1>1. /\ queue.slots \in Seq(Slot)
      /\ queue.reqids \in [Indexes -> Nat]
      /\ x \in Indexes
  BY DEF TypeOK, Queue, Indexes
<1>2. /\ queue'.slots = Append(queue.slots, e)
      /\ queue'.reqids = [queue.reqids EXCEPT ![x] = @ + 1]
  BY DEF RequireAdd
<1>3. e \in Slot
  BY <1>1, ValuesAssumption DEF Slot
<1>4. /\ DOMAIN queue'.slots = 1..(n + 1)
      /\ DOMAIN queue.slots = 1..n
      /\ n \in Nat
      /\ queue'.slots[n + 1] = e
      /\ \A j \in 1..n : queue'.slots[j] = queue.slots[j]
  BY <1>1, <1>2, <1>3
<1>5. \A j \in 1..n : queue.slots[j].id < queue.reqids[get_reqid_index(queue.slots[j].tg)]
  BY <1>4 DEF IdInv, IdsBelowCounter
<1>6. \A j \in 1..n : /\ queue.slots[j].tg \in TypeGroups
                      /\ queue.slots[j].id \in Nat
                      /\ get_reqid_index(queue.slots[j].tg) \in Indexes
  <2> TAKE j \in 1..n
  <2>1. queue.slots[j] \in Slot
    BY <1>1, <1>4
  <2>2. queue.slots[j].tg \in TypeGroups /\ queue.slots[j].id \in Nat
    BY <2>1 DEF Slot
  <2> HIDE DEF n
  <2> QED BY <2>2 DEF Indexes
<1>7. \A j \in 1..n : queue.slots[j].tg = tg => queue.slots[j].id < e.id
  BY <1>5
<1>8. UniqueIds'
  <2>1. \A j \in 1..n : ~(queue.slots[j].tg = e.tg /\ queue.slots[j].id = e.id)
    BY <1>1, <1>6, <1>7
  <2>2. \A j, k \in 1..n : (queue.slots[j].tg = queue.slots[k].tg
                             /\ queue.slots[j].id = queue.slots[k].id) => j = k
    BY <1>4 DEF IdInv, UniqueIds
  <2>3. \A j \in 1..(n + 1) : j \in 1..n \/ j = n + 1
    BY <1>4
  <2> HIDE DEF e, n
  <2> QED BY <1>4, <2>1, <2>2, <2>3 DEF UniqueIds
<1>9. IdsBelowCounter'
  <2>1. \A j \in 1..n : queue'.slots[j].id < queue'.reqids[get_reqid_index(queue'.slots[j].tg)]
    <3> TAKE j \in 1..n
    <3>1. CASE get_reqid_index(queue.slots[j].tg) = x
      BY <1>1, <1>2, <1>4, <1>5, <1>6, <3>1
    <3>2. CASE get_reqid_index(queue.slots[j].tg) # x
      BY <1>1, <1>2, <1>4, <1>5, <1>6, <3>2
    <3> QED BY <3>1, <3>2
  <2>2. queue'.slots[n + 1].id < queue'.reqids[get_reqid_index(queue'.slots[n + 1].tg)]
    BY <1>1, <1>2, <1>4
  <2>3. \A j \in 1..(n + 1) : j \in 1..n \/ j = n + 1
    BY <1>4
  <2> HIDE DEF n
  <2> QED BY <1>4, <2>1, <2>2, <2>3 DEF IdsBelowCounter
<1> QED BY <1>8, <1>9 DEF IdInv

\* Whatever calls are made, no two slots of a type/group pair have the same id.
THEOREM IdsStayUnique == Spec => []UniqueIds
<1>1. Init => IdInv
  BY DEF Init, EmptyQueue, IdInv, UniqueIds, IdsBelowCounter
<1>2. ASSUME TypeOK, IdInv, [Next]_vars PROVE IdInv'
  <2>0. ASSUME UNCHANGED queue PROVE IdInv'
    BY <1>2, <2>0 DEF IdInv, UniqueIds, IdsBelowCounter
  <2>1. CASE \E tg \in TypeGroups, name \in Names : CallRequireAdd(tg, name)
    BY <1>2, <2>1, RequireAddIds DEF CallRequireAdd
  <2>2. CASE \E tg \in TypeGroups, name \in Names : CallGetResponse(tg, name)
    BY <2>0, <2>2 DEF CallGetResponse
  <2>3. ASSUME NEW tg \in TypeGroups, NEW id, NEW v \in Inputs, CallProvide(tg, id, v)
        PROVE  IdInv'
    <3>1. CASE UpdateEntryError(queue, tg, id) = "ok" /\ v # Empty
      <4>1. ById(queue, tg, id) # {}
        BY <3>1 DEF UpdateEntryError
      <4>2. First(ById(queue, tg, id)) \in DOMAIN queue.slots
        BY <1>2, <4>1, FoundInQueue DEF TypeOK
      <4>3. Filter[v] \in Values
        BY ValuesAssumption
      <4> QED BY <1>2, <2>3, <3>1, <4>2, <4>3, SlotUpdateIds DEF CallProvide, UpdateEntry
    <3>2. CASE UpdateEntryError(queue, tg, id) # "ok" \/ v = Empty
      BY <2>0, <2>3, <3>2 DEF CallProvide
    <3> QED BY <3>1, <3>2
  <2>4. ASSUME NEW tg \in TypeGroups, NEW id, CallResetValue(tg, id)
        PROVE  IdInv'
    <3>1. CASE ById(queue, tg, id) # {}
      <4>1. First(ById(queue, tg, id)) \in DOMAIN queue.slots
        BY <1>2, <3>1, FoundInQueue DEF TypeOK
      <4> QED BY <1>2, <2>4, <3>1, <4>1, SlotUpdateIds, ValuesAssumption
              DEF CallResetValue, ResetValue
    <3>2. CASE ById(queue, tg, id) = {}
      BY <2>0, <2>4, <3>2 DEF CallResetValue
    <3> QED BY <3>1, <3>2
  <2>5. CASE \E tg \in TypeGroups, id \in 0..MaxSlots :
                CallFetch(tg, id) \/ CallGetResponseById(tg, id)
    BY <2>0, <2>5 DEF CallFetch, CallGetResponseById
  <2>6. CASE CallClearAll
    BY <2>6 DEF CallClearAll, EmptyQueue, IdInv, UniqueIds, IdsBelowCounter
  <2>7. CASE UNCHANGED vars
    BY <2>0, <2>7 DEF vars
  <2> QED BY <1>2, <2>1, <2>2, <2>3, <2>4, <2>5, <2>6, <2>7 DEF Next
<1>3. IdInv => UniqueIds
  BY DEF IdInv
<1> QED BY <1>1, <1>2, <1>3, TypeCorrect, PTL DEF Spec

\* Whatever UserInputQueueCheck lists, UserInputQueueFetch and UserInputProvide accept,
\* and the value ends up in the slot that was listed.
THEOREM ListedCanBeProvided == Spec => []ListedIsProvidable
<1>1. ASSUME TypeOK, UniqueIds PROVE ListedIsProvidable
  <2> SUFFICES ASSUME NEW tg \in TypeGroups, NEW i \in Pending(queue, tg)
               PROVE  LET id == queue.slots[i].id IN
                      /\ QueueFetchError(queue, tg, id) = "ok"
                      /\ UpdateEntryError(queue, tg, id) = "ok"
                      /\ First(ById(queue, tg, id)) = i
    BY DEF ListedIsProvidable
  <2> DEFINE id == queue.slots[i].id
             S == ById(queue, tg, id)
  <2>1. i \in DOMAIN queue.slots /\ queue.slots[i].tg = tg /\ queue.slots[i].provided = FALSE
    BY <1>1 DEF Pending, SlotsOf, TypeOK, Queue, Slot
  <2>2. i \in S
    BY <2>1 DEF ById, SlotsOf
  <2>3. \A j \in S : j = i
    BY <1>1, <2>1 DEF ById, SlotsOf, UniqueIds
  <2>4. First(S) \in S
    BY <1>1, <2>2, FoundInQueue DEF TypeOK
  <2>5. First(S) = i /\ S # {}
    BY <2>2, <2>3, <2>4
  <2>6. ~QueueDone(queue, tg)
    BY DEF QueueDone, QueueCheck
  <2> HIDE DEF S
  <2> QED BY <2>1, <2>5, <2>6 DEF QueueFetchError, UpdateEntryError, S
<1> QED BY <1>1, TypeCorrect, IdsStayUnique, PTL


\* What one call may do to the slots that are provided: this is the action of
\* ProvidedIsFinal.
KeepsProvided ==
    \A i \in DOMAIN queue.slots :
        queue.slots[i].provided =>
            \/ i \in DOMAIN queue'.slots /\ queue'.slots[i] = queue.slots[i]
            \/ result'.call \in {"ResetValue", "ClearAll"}

\* What a front-end provided is not replaced by another value and not taken away, except
\* by ResetValue() and ClearAll(): UpdateEntry() writes to the first slot with the id, and
\* only if that slot is not provided; RequireAdd() appends.
THEOREM ProvidedValuesAreFinal == Spec => ProvidedIsFinal
<1>1. ASSUME TypeOK, Next PROVE KeepsProvided
  <2>0. ASSUME UNCHANGED queue PROVE KeepsProvided
    BY <2>0 DEF KeepsProvided
  <2>1. ASSUME NEW tg \in TypeGroups, NEW name \in Names, CallRequireAdd(tg, name)
        PROVE  KeepsProvided
    <3>1. queue.slots \in Seq(Slot)
      BY <1>1 DEF TypeOK, Queue
    <3>2. PICK e : queue'.slots = Append(queue.slots, e)
      BY <2>1 DEF CallRequireAdd, RequireAdd
    <3>3. \A i \in DOMAIN queue.slots : i \in DOMAIN queue'.slots /\ queue'.slots[i] = queue.slots[i]
      BY <3>1, <3>2
    <3> QED BY <3>3 DEF KeepsProvided
  <2>2. ASSUME NEW tg \in TypeGroups, NEW id, NEW v \in Inputs, CallProvide(tg, id, v)
        PROVE  KeepsProvided
    <3>1. CASE UpdateEntryError(queue, tg, id) = "ok" /\ v # Empty
      <4> DEFINE f == First(ById(queue, tg, id))
                 e == [queue.slots[f] EXCEPT !.provided = TRUE, !.value = Filter[v]]
      <4>1. ById(queue, tg, id) # {} /\ ~queue.slots[f].provided
        BY <3>1 DEF UpdateEntryError
      <4>2. f \in DOMAIN queue.slots
        BY <1>1, <4>1, FoundInQueue DEF TypeOK
      <4>3. queue' = UpdateEntry(queue, tg, id, v)
        BY <2>2, <3>1 DEF CallProvide
      <4>4. queue'.slots = [queue.slots EXCEPT ![f] = e]
        BY <1>1, <4>3 DEF UpdateEntry, TypeOK, Queue
      <4> HIDE DEF f, e
      <4>5. DOMAIN queue'.slots = DOMAIN queue.slots
            /\ \A i \in DOMAIN queue.slots : i # f => queue'.slots[i] = queue.slots[i]
        BY <1>1, <4>4 DEF TypeOK, Queue
      <4> QED BY <4>1, <4>5 DEF KeepsProvided
    <3>2. CASE UpdateEntryError(queue, tg, id) # "ok" \/ v = Empty
      BY <2>0, <2>2, <3>2 DEF CallProvide
    <3> QED BY <3>1, <3>2
  <2>3. CASE \E tg \in TypeGroups, id \in 0..MaxSlots : CallResetValue(tg, id)
    <3>1. result'.call = "ResetValue"
      BY <2>3 DEF CallResetValue, Returned
    <3> QED BY <3>1 DEF KeepsProvided
  <2>4. CASE CallClearAll
    <3>1. result'.call = "ClearAll"
      BY <2>4 DEF CallClearAll, Returned
    <3> QED BY <3>1 DEF KeepsProvided
  <2>5. CASE \/ \E tg \in TypeGroups, name \in Names : CallGetResponse(tg, name)
             \/ \E tg \in TypeGroups, id \in 0..MaxSlots : CallFetch(tg, id) \/ CallGetResponseById(tg, id)
    BY <2>0, <2>5 DEF CallGetResponse, CallFetch, CallGetResponseById
  <2> QED BY <1>1, <2>1, <2>2, <2>3, <2>4, <2>5 DEF Next
<1>2. ASSUME TypeOK, [Next]_vars PROVE [KeepsProvided]_vars
  BY <1>1, <1>2
<1>3. ProvidedIsFinal <=> [][KeepsProvided]_vars
  BY PTL DEF ProvidedIsFinal, KeepsProvided
<1> QED BY <1>2, <1>3, TypeCorrect, PTL DEF Spec

-----------------------------------------------------------------------------
(* The queue implements the board of questions. *)

\* A look-up under the key of a slot finds that slot.
LEMMA FoundByKey ==
    ASSUME NEW q \in Queue, NEW i \in DOMAIN q.slots,
           \A j, k \in DOMAIN q.slots :
               (q.slots[j].tg = q.slots[k].tg /\ q.slots[j].id = q.slots[k].id) => j = k
    PROVE  First(ById(q, q.slots[i].tg, q.slots[i].id)) = i
<1> DEFINE S == ById(q, q.slots[i].tg, q.slots[i].id)
<1>1. i \in S /\ \A j \in S : j = i
  BY DEF ById, SlotsOf
<1>2. First(S) \in S
  BY <1>1, FoundInQueue
<1> QED BY <1>1, <1>2

\* What is on the board: the slots under their keys.
OnBoard(q, b) ==
    /\ DOMAIN b = Keys(q) /\ b = [k \in DOMAIN b |-> b[k]]
    /\ \A i \in DOMAIN q.slots :
          b[<<q.slots[i].tg, q.slots[i].id>>] =
              [name |-> q.slots[i].name, provided |-> q.slots[i].provided, value |-> q.slots[i].value]

LEMMA BoardShows ==
    ASSUME NEW q \in Queue,
           \A j, k \in DOMAIN q.slots :
               (q.slots[j].tg = q.slots[k].tg /\ q.slots[j].id = q.slots[k].id) => j = k
    PROVE  OnBoard(q, BoardOf(q))
<1>1. DOMAIN BoardOf(q) = Keys(q) /\ BoardOf(q) = [k \in Keys(q) |-> BoardOf(q)[k]]
  BY DEF BoardOf
<1>2. ASSUME NEW i \in DOMAIN q.slots
      PROVE  BoardOf(q)[<<q.slots[i].tg, q.slots[i].id>>] =
              [name |-> q.slots[i].name, provided |-> q.slots[i].provided, value |-> q.slots[i].value]
  <2> DEFINE k == <<q.slots[i].tg, q.slots[i].id>>
  <2>1. k \in Keys(q) /\ k[1] = q.slots[i].tg /\ k[2] = q.slots[i].id
    BY DEF Keys
  <2>2. First(ById(q, q.slots[i].tg, q.slots[i].id)) = i
    BY FoundByKey
  <2>3. BoardOf(q)[k] = Question(q, k)
    BY <2>1 DEF BoardOf
  <2> HIDE DEF k
  <2>4. Question(q, k) = [name |-> q.slots[i].name, provided |-> q.slots[i].provided, value |-> q.slots[i].value]
    BY <2>1, <2>2 DEF Question
  <2> QED BY <2>3, <2>4 DEF k
<1> QED BY <1>1, <1>2 DEF OnBoard

QueueOK == TypeOK /\ UniqueIds

\* A look-up by key, and what the board shows there.
LEMMA KeyFound ==
    ASSUME QueueOK, NEW tg, NEW id
    PROVE  /\ <<tg, id>> \in Keys(queue) <=> ById(queue, tg, id) # {}
           /\ ById(queue, tg, id) # {} =>
                 LET i == First(ById(queue, tg, id)) IN
                 /\ i \in DOMAIN queue.slots /\ queue.slots[i].tg = tg /\ queue.slots[i].id = id
                 /\ queue.slots[i] \in Slot
                 /\ BoardOf(queue)[<<tg, id>>] = [name |-> queue.slots[i].name,
                        provided |-> queue.slots[i].provided, value |-> queue.slots[i].value]
<1>1. OnBoard(queue, BoardOf(queue))
  BY BoardShows DEF QueueOK, TypeOK, UniqueIds
<1>2. <<tg, id>> \in Keys(queue) <=> ById(queue, tg, id) # {}
  BY DEF Keys, ById, SlotsOf
<1>3. ASSUME ById(queue, tg, id) # {}
      PROVE  LET i == First(ById(queue, tg, id)) IN
             /\ i \in DOMAIN queue.slots /\ queue.slots[i].tg = tg /\ queue.slots[i].id = id
             /\ queue.slots[i] \in Slot
  <2> DEFINE i == First(ById(queue, tg, id))
  <2>1. queue \in Queue
    BY DEF QueueOK, TypeOK
  <2>2. i \in ById(queue, tg, id) /\ i \in DOMAIN queue.slots
    BY <1>3, <2>1, FoundInQueue
  <2> HIDE DEF i
  <2>3. queue.slots[i].tg = tg /\ queue.slots[i].id = id
    BY <2>2 DEF ById, SlotsOf
  <2>4. queue.slots[i] \in Slot
    BY <2>1, <2>2 DEF Queue
  <2> QED BY <2>2, <2>3, <2>4 DEF i
<1> QED BY <1>1, <1>2, <1>3 DEF OnBoard

\* The value and the flag of one slot are written, and nothing else.
Writes(i, p, v) ==
    /\ DOMAIN queue'.slots = DOMAIN queue.slots
    /\ \A j \in DOMAIN queue.slots : j # i => queue'.slots[j] = queue.slots[j]
    /\ queue'.slots[i].tg = queue.slots[i].tg /\ queue'.slots[i].id = queue.slots[i].id
    /\ queue'.slots[i].name = queue.slots[i].name
    /\ queue'.slots[i].provided = p /\ queue'.slots[i].value = v

LEMMA SlotWritten ==
    ASSUME QueueOK, NEW i \in DOMAIN queue.slots, NEW v, NEW p, NEW e,
           e = [queue.slots[i] EXCEPT !.provided = p, !.value = v],
           queue'.slots = [queue.slots EXCEPT ![i] = e]
    PROVE  Writes(i, p, v)
<1>1. queue.slots[i] \in Slot /\ queue.slots \in Seq(Slot)
  BY DEF QueueOK, TypeOK, Queue
<1>2. /\ e.tg = queue.slots[i].tg /\ e.id = queue.slots[i].id /\ e.name = queue.slots[i].name
      /\ e.provided = p /\ e.value = v
  BY <1>1 DEF Slot
<1>3. queue'.slots = [queue.slots EXCEPT ![i] = e]
  OBVIOUS
<1>4. /\ DOMAIN queue'.slots = DOMAIN queue.slots /\ queue'.slots[i] = e
      /\ \A j \in DOMAIN queue.slots : j # i => queue'.slots[j] = queue.slots[j]
  BY <1>3
<1> QED BY <1>2, <1>4 DEF Writes

LEMMA EntryUpdated ==
    ASSUME QueueOK, NEW tg, NEW id, NEW v, First(ById(queue, tg, id)) \in DOMAIN queue.slots,
           queue' = UpdateEntry(queue, tg, id, v)
    PROVE  Writes(First(ById(queue, tg, id)), TRUE, Filter[v])
<1> DEFINE i == First(ById(queue, tg, id))
           e == [queue.slots[i] EXCEPT !.provided = TRUE, !.value = Filter[v]]
<1>1. queue'.slots = [queue.slots EXCEPT ![i] = e]
  BY DEF UpdateEntry, QueueOK, TypeOK, Queue
<1>2. i \in DOMAIN queue.slots /\ e = [queue.slots[i] EXCEPT !.provided = TRUE, !.value = Filter[v]]
  OBVIOUS
<1> HIDE DEF i, e
<1>3. Writes(i, TRUE, Filter[v])
  BY <1>1, <1>2, SlotWritten
<1> QED BY <1>3 DEF i

LEMMA EntryReset ==
    ASSUME QueueOK, NEW tg, NEW id, First(ById(queue, tg, id)) \in DOMAIN queue.slots,
           queue' = ResetValue(queue, tg, id)
    PROVE  Writes(First(ById(queue, tg, id)), FALSE, Empty)
<1> DEFINE i == First(ById(queue, tg, id))
           e == [queue.slots[i] EXCEPT !.provided = FALSE, !.value = Empty]
<1>1. queue'.slots = [queue.slots EXCEPT ![i] = e]
  BY DEF ResetValue, QueueOK, TypeOK, Queue
<1>2. i \in DOMAIN queue.slots /\ e = [queue.slots[i] EXCEPT !.provided = FALSE, !.value = Empty]
  OBVIOUS
<1> HIDE DEF i, e
<1>3. Writes(i, FALSE, Empty)
  BY <1>1, <1>2, SlotWritten
<1> QED BY <1>3 DEF i

\* Changing one slot changes one question.
LEMMA OneQuestion ==
    ASSUME QueueOK, QueueOK', NEW i \in DOMAIN queue.slots, NEW v, NEW p, Writes(i, p, v),
           NEW k, k = <<queue.slots[i].tg, queue.slots[i].id>>
    PROVE  BoardOf(queue') = [BoardOf(queue) EXCEPT ![k] = [name |-> @.name, provided |-> p, value |-> v]]
<1> DEFINE b == BoardOf(queue)
           c == BoardOf(queue')
           n == [b EXCEPT ![k] = [name |-> @.name, provided |-> p, value |-> v]]
<1>1. OnBoard(queue, b) /\ OnBoard(queue', c)
  BY BoardShows DEF QueueOK, TypeOK, UniqueIds
<1>3. /\ queue'.slots[i].tg = queue.slots[i].tg /\ queue'.slots[i].id = queue.slots[i].id
      /\ queue'.slots[i].name = queue.slots[i].name
      /\ queue'.slots[i].provided = p /\ queue'.slots[i].value = v
  BY DEF Writes
<1>5. /\ DOMAIN queue'.slots = DOMAIN queue.slots
      /\ \A j \in DOMAIN queue.slots : j # i => queue'.slots[j] = queue.slots[j]
  BY DEF Writes
<1> HIDE DEF b, c
<1>6. \A j \in DOMAIN queue.slots : queue'.slots[j].tg = queue.slots[j].tg /\ queue'.slots[j].id = queue.slots[j].id
  BY <1>3, <1>5
<1>7. Keys(queue') = Keys(queue)
  BY <1>5, <1>6 DEF Keys
<1>8. DOMAIN n = Keys(queue) /\ n = [x \in Keys(queue) |-> n[x]]
  BY <1>1 DEF OnBoard
<1>9. ASSUME NEW x \in Keys(queue) PROVE c[x] = n[x]
  <2>1. PICK j \in DOMAIN queue.slots : x = <<queue.slots[j].tg, queue.slots[j].id>>
    BY DEF Keys
  <2>2. x = <<queue'.slots[j].tg, queue'.slots[j].id>> /\ j \in DOMAIN queue'.slots
    BY <1>5, <1>6, <2>1
  <2>3. c[x] = [name |-> queue'.slots[j].name, provided |-> queue'.slots[j].provided, value |-> queue'.slots[j].value]
    BY <1>1, <2>2 DEF OnBoard
  <2>4. b[x] = [name |-> queue.slots[j].name, provided |-> queue.slots[j].provided, value |-> queue.slots[j].value]
    BY <1>1, <2>1 DEF OnBoard
  <2>5. CASE j = i
    <3>1. x = k
      BY <2>1, <2>5
    <3>2. n[x] = [name |-> b[x].name, provided |-> p, value |-> v]
      BY <1>1, <3>1 DEF OnBoard
    <3>3. n[x] = [name |-> queue.slots[i].name, provided |-> p, value |-> v]
      <4>1. b[x].name = queue.slots[i].name
        BY <2>4, <2>5
      <4> HIDE DEF n
      <4> QED BY <3>2, <4>1
    <3> QED BY <1>3, <1>5, <2>3, <2>5, <3>3
  <2>6. CASE j # i
    <3>1. x # k
      BY <2>1, <2>6 DEF QueueOK, UniqueIds
    <3>2. n[x] = b[x]
      BY <1>1, <3>1 DEF OnBoard
    <3> QED BY <1>5, <2>3, <2>4, <2>6, <3>2
  <2> QED BY <2>5, <2>6
<1> HIDE DEF n
<1>10. c = [x \in Keys(queue) |-> c[x]]
  BY <1>1, <1>7 DEF OnBoard
<1>11. c = n
  BY <1>8, <1>9, <1>10
<1> QED BY <1>11 DEF n, b, c

\* An appended slot is a question with a new key.
LEMMA NewQuestion ==
    ASSUME QueueOK, QueueOK', NEW tg \in TypeGroups, NEW name \in Names,
           queue' = RequireAdd(queue, tg, name)
    PROVE  \E k \in DOMAIN BoardOf(queue') \ DOMAIN BoardOf(queue) :
              /\ k[1] = tg
              /\ BoardOf(queue') = [j \in DOMAIN BoardOf(queue) \cup {k} |->
                    IF j = k THEN [name |-> name, provided |-> FALSE, value |-> Empty]
                    ELSE BoardOf(queue)[j]]
<1> DEFINE b == BoardOf(queue)
           c == BoardOf(queue')
           n == Len(queue.slots)
           e == [tg |-> tg, id |-> queue.reqids[get_reqid_index(tg)], name |-> name,
                 value |-> Empty, provided |-> FALSE]
           k == <<e.tg, e.id>>
           r == [name |-> name, provided |-> FALSE, value |-> Empty]
<1>1. OnBoard(queue, b) /\ OnBoard(queue', c)
  BY BoardShows DEF QueueOK, TypeOK, UniqueIds
<1>2. queue.slots \in Seq(Slot) /\ queue'.slots = Append(queue.slots, e)
  BY DEF QueueOK, TypeOK, Queue, RequireAdd
<1>3. e.name = name /\ e.provided = FALSE /\ e.value = Empty /\ k[1] = tg
  OBVIOUS
<1> HIDE DEF b, c, e
<1>4. /\ DOMAIN queue'.slots = 1..(n + 1) /\ DOMAIN queue.slots = 1..n /\ n \in Nat
      /\ queue'.slots[n + 1] = e /\ \A j \in 1..n : queue'.slots[j] = queue.slots[j]
  BY <1>2
<1>5. \A j \in 1..(n + 1) : j \in 1..n \/ j = n + 1
  BY <1>4
<1>6. \A j \in 1..n : j \in 1..(n + 1) /\ j # n + 1
  BY <1>4
<1>7. n + 1 \in 1..(n + 1)
  BY <1>4
<1> HIDE DEF n, r
<1>8. Keys(queue') = Keys(queue) \cup {k}
  <2>1. Keys(queue') = {<<queue'.slots[j].tg, queue'.slots[j].id>> : j \in 1..(n + 1)}
    BY <1>4 DEF Keys
  <2>2. Keys(queue) = {<<queue.slots[j].tg, queue.slots[j].id>> : j \in 1..n}
    BY <1>4 DEF Keys
  <2>3. ASSUME NEW x \in Keys(queue') PROVE x \in Keys(queue) \cup {k}
    BY <1>4, <1>5, <2>1, <2>2
  <2>4. ASSUME NEW x \in Keys(queue) PROVE x \in Keys(queue')
    BY <1>4, <1>6, <2>1, <2>2
  <2>5. k \in Keys(queue')
    BY <1>4, <1>7, <2>1
  <2> QED BY <2>3, <2>4, <2>5
<1>9. k \notin Keys(queue)
  <2> SUFFICES ASSUME k \in Keys(queue) PROVE FALSE
    OBVIOUS
  <2>1. PICK j \in 1..n : k = <<queue.slots[j].tg, queue.slots[j].id>>
    BY <1>4 DEF Keys
  <2>2. queue.slots[j].tg = e.tg /\ queue.slots[j].id = e.id
    BY <2>1
  <2>3. j = n + 1
    BY <1>4, <1>6, <1>7, <2>2 DEF QueueOK, UniqueIds
  <2> QED BY <1>6, <2>3
<1>10. ASSUME NEW x \in Keys(queue) PROVE c[x] = b[x]
  <2>1. PICK j \in 1..n : x = <<queue.slots[j].tg, queue.slots[j].id>>
    BY <1>4 DEF Keys
  <2>2. queue'.slots[j] = queue.slots[j] /\ j \in DOMAIN queue'.slots /\ j \in DOMAIN queue.slots
    BY <1>4, <1>6
  <2>3. b[x] = [name |-> queue.slots[j].name, provided |-> queue.slots[j].provided, value |-> queue.slots[j].value]
    BY <1>1, <2>1, <2>2 DEF OnBoard
  <2>4. x = <<queue'.slots[j].tg, queue'.slots[j].id>>
    BY <2>1, <2>2
  <2>5. c[x] = [name |-> queue'.slots[j].name, provided |-> queue'.slots[j].provided, value |-> queue'.slots[j].value]
    BY <1>1, <2>2, <2>4 DEF OnBoard
  <2> QED BY <2>2, <2>3, <2>5
<1>11. c[k] = r
  <2>1. c[k] = [name |-> e.name, provided |-> e.provided, value |-> e.value]
    BY <1>1, <1>4, <1>7 DEF OnBoard
  <2> QED BY <1>3, <2>1 DEF r
<1>12. DOMAIN b = Keys(queue) /\ DOMAIN c = Keys(queue') /\ c = [x \in Keys(queue') |-> c[x]]
  BY <1>1 DEF OnBoard
<1> HIDE DEF k
<1>13. c = [j \in DOMAIN b \cup {k} |-> IF j = k THEN r ELSE b[j]]
  BY <1>8, <1>9, <1>10, <1>11, <1>12
<1>14. k \in DOMAIN c \ DOMAIN b
  BY <1>8, <1>9, <1>12
<1> QED BY <1>3, <1>13, <1>14 DEF b, c, r

LEMMA EmptyBoard ==
    ASSUME NEW q, q = EmptyQueue PROVE BoardOf(q) = [k \in {} |-> Empty]
<1>1. Keys(q) = {}
  BY DEF Keys, EmptyQueue
<1> QED BY <1>1 DEF BoardOf

\* The calls of the queue are the operations of the board.
LEMMA AskImplemented ==
    ASSUME QueueOK, QueueOK', NEW tg \in TypeGroups, NEW name \in Names, CallRequireAdd(tg, name)
    PROVE  Board!Ask(tg, name)
<1>1. queue' = RequireAdd(queue, tg, name) /\ Returned("RequireAdd", "ok", Empty)
  BY DEF CallRequireAdd
<1>2. Board!Reply("RequireAdd", TRUE, Empty)
  BY <1>1 DEF Returned, Board!Reply
<1>3. \E k \in DOMAIN BoardOf(queue') \ DOMAIN BoardOf(queue) :
        /\ k[1] = tg
        /\ BoardOf(queue') = [j \in DOMAIN BoardOf(queue) \cup {k} |->
              IF j = k THEN [name |-> name, provided |-> FALSE, value |-> Empty]
              ELSE BoardOf(queue)[j]]
  BY <1>1, NewQuestion
<1>4. BoardOf(queue)' = BoardOf(queue')
  OBVIOUS
<1> QED BY <1>2, <1>3, <1>4 DEF Board!Ask

LEMMA ProvideImplemented ==
    ASSUME QueueOK, QueueOK', NEW tg \in TypeGroups, NEW id, NEW v \in Inputs, CallProvide(tg, id, v)
    PROVE  Board!Provide(<<tg, id>>, v)
<1> DEFINE S == ById(queue, tg, id)
           i == First(S)
           k == <<tg, id>>
           err == IF v = Empty THEN "invalid-input" ELSE UpdateEntryError(queue, tg, id)
           b == BoardOf(queue)
<1>1. /\ k \in Keys(queue) <=> S # {}
      /\ S # {} => /\ i \in DOMAIN queue.slots /\ queue.slots[i].tg = tg /\ queue.slots[i].id = id
                   /\ queue.slots[i] \in Slot
                   /\ b[k] = [name |-> queue.slots[i].name, provided |-> queue.slots[i].provided,
                               value |-> queue.slots[i].value]
  BY KeyFound
<1>2. DOMAIN b = Keys(queue)
  BY DEF BoardOf
<1>3. Board!Open(k) <=> S # {} /\ ~queue.slots[i].provided
  <2> HIDE DEF S, i, k
  <2>1. S # {} => b[k].provided = queue.slots[i].provided
    BY <1>1
  <2> QED BY <1>1, <1>2, <2>1 DEF Board!Open
<1>4. S # {} /\ ~queue.slots[i].provided => ~QueueDone(queue, tg)
  <2> SUFFICES ASSUME S # {}, ~queue.slots[i].provided PROVE ~QueueDone(queue, tg)
    OBVIOUS
  <2>1. i \in Pending(queue, tg)
    BY <1>1 DEF Pending, SlotsOf
  <2> QED BY <2>1 DEF QueueDone, QueueCheck
<1>5. err = "ok" <=> v # Empty /\ Board!Open(k)
  BY <1>3, <1>4 DEF UpdateEntryError
<1>6. /\ queue' = IF err = "ok" THEN UpdateEntry(queue, tg, id, v) ELSE queue
      /\ Returned("UserInputProvide", err, Empty)
  BY DEF CallProvide
<1> HIDE DEF err, b
<1>7. Board!Reply("UserInputProvide", v # Empty /\ Board!Open(k), Empty)
  BY <1>5, <1>6 DEF Returned, Board!Reply
<1>8. CASE v # Empty /\ Board!Open(k)
  <2>1. queue' = UpdateEntry(queue, tg, id, v)
    BY <1>5, <1>6, <1>8
  <2>3. i \in DOMAIN queue.slots /\ k = <<queue.slots[i].tg, queue.slots[i].id>>
    BY <1>1, <1>3, <1>8
  <2> DEFINE w == Filter[v]
             t == TRUE
  <2>2. Writes(i, t, w)
    BY <2>1, <2>3, EntryUpdated
  <2> HIDE DEF w, i, k, t
  <2>4. BoardOf(queue') = [BoardOf(queue) EXCEPT ![k] = [name |-> @.name, provided |-> t, value |-> w]]
    BY <2>2, <2>3, OneQuestion
  <2>5. BoardOf(queue)' = BoardOf(queue')
    OBVIOUS
  <2>6. Board!Provide(k, v)
    BY <1>7, <1>8, <2>4, <2>5 DEF Board!Provide, w, t
  <2> QED BY <2>6 DEF k
<1>9. CASE ~(v # Empty /\ Board!Open(k))
  <2>1. queue' = queue
    BY <1>5, <1>6, <1>9
  <2> QED BY <1>7, <1>9, <2>1 DEF Board!Provide
<1> QED BY <1>8, <1>9

LEMMA ResetImplemented ==
    ASSUME QueueOK, QueueOK', NEW tg \in TypeGroups, NEW id, CallResetValue(tg, id)
    PROVE  Board!Reset(<<tg, id>>)
<1> DEFINE S == ById(queue, tg, id)
           i == First(S)
           k == <<tg, id>>
<1>1. /\ k \in Keys(queue) <=> S # {}
      /\ S # {} => i \in DOMAIN queue.slots /\ queue.slots[i].tg = tg /\ queue.slots[i].id = id
  BY KeyFound
<1>2. DOMAIN BoardOf(queue) = Keys(queue)
  BY DEF BoardOf
<1>3. BoardOf(queue)' = BoardOf(queue')
  OBVIOUS
<1>4. CASE S # {}
  <2>1. queue' = ResetValue(queue, tg, id) /\ Returned("ResetValue", "ok", Empty)
    BY <1>4 DEF CallResetValue
  <2>2. i \in DOMAIN queue.slots /\ k = <<queue.slots[i].tg, queue.slots[i].id>> /\ k \in DOMAIN BoardOf(queue)
    BY <1>1, <1>2, <1>4
  <2> DEFINE t == FALSE
  <2>3. Writes(i, t, Empty)
    BY <2>1, <2>2, EntryReset
  <2> HIDE DEF i, k, t
  <2>4. BoardOf(queue') = [BoardOf(queue) EXCEPT ![k] = [name |-> @.name, provided |-> t, value |-> Empty]]
    BY <2>2, <2>3, OneQuestion
  <2>5. Board!Reply("ResetValue", k \in DOMAIN BoardOf(queue), Empty)
    BY <2>1, <2>2 DEF Returned, Board!Reply
  <2>6. Board!Reset(k)
    BY <1>3, <2>2, <2>4, <2>5 DEF Board!Reset, t
  <2> QED BY <2>6 DEF k
<1>5. CASE S = {}
  <2>1. queue' = queue /\ Returned("ResetValue", "no-matching-entry", Empty)
    BY <1>5 DEF CallResetValue
  <2>2. k \notin DOMAIN BoardOf(queue)
    BY <1>1, <1>2, <1>5
  <2> HIDE DEF k
  <2>3. Board!Reply("ResetValue", k \in DOMAIN BoardOf(queue), Empty)
    BY <2>1, <2>2 DEF Returned, Board!Reply
  <2>4. Board!Reset(k)
    BY <2>1, <2>2, <2>3 DEF Board!Reset
  <2> QED BY <2>4 DEF k
<1> QED BY <1>4, <1>5

LEMMA ClearImplemented ==
    ASSUME CallClearAll PROVE Board!Clear
<1>1. queue' = EmptyQueue /\ Returned("ClearAll", "ok", Empty)
  BY DEF CallClearAll
<1>2. BoardOf(queue') = [k \in {} |-> Empty]
  BY <1>1, EmptyBoard
<1>3. BoardOf(queue)' = BoardOf(queue')
  OBVIOUS
<1>4. Board!Reply("ClearAll", TRUE, Empty)
  BY <1>1 DEF Returned, Board!Reply
<1> QED BY <1>2, <1>3, <1>4 DEF Board!Clear

\* Open and answered questions in terms of the slot found.
LEMMA QuestionState ==
    ASSUME QueueOK, NEW tg, NEW id
    PROVE  LET S == ById(queue, tg, id) IN
           /\ Board!Open(<<tg, id>>) <=> S # {} /\ ~queue.slots[First(S)].provided
           /\ Board!Answered(<<tg, id>>) <=> S # {} /\ queue.slots[First(S)].provided
           /\ S # {} => BoardOf(queue)[<<tg, id>>].value = queue.slots[First(S)].value
<1> DEFINE S == ById(queue, tg, id)
           i == First(S)
           k == <<tg, id>>
           b == BoardOf(queue)
<1>1. /\ k \in Keys(queue) <=> S # {}
      /\ S # {} => b[k] = [name |-> queue.slots[i].name, provided |-> queue.slots[i].provided,
                           value |-> queue.slots[i].value]
  BY KeyFound
<1>2. DOMAIN b = Keys(queue)
  BY DEF BoardOf
<1> HIDE DEF S, i, k
<1>3. S # {} => b[k].provided = queue.slots[i].provided /\ b[k].value = queue.slots[i].value
  BY <1>1
<1>4. /\ Board!Open(k) <=> S # {} /\ ~queue.slots[i].provided
      /\ Board!Answered(k) <=> S # {} /\ queue.slots[i].provided
  BY <1>1, <1>2, <1>3 DEF Board!Open, Board!Answered
<1> QED BY <1>3, <1>4 DEF S, i, k

LEMMA FetchImplemented ==
    ASSUME QueueOK, NEW tg \in TypeGroups, NEW id, CallFetch(tg, id)
    PROVE  Board!Fetch(<<tg, id>>)
<1> DEFINE k == <<tg, id>>
           err == QueueFetchError(queue, tg, id)
<1>1. queue' = queue /\ Returned("UserInputQueueFetch", err, Empty)
  BY DEF CallFetch
<1>2. err = "ok" <=> Board!Open(k)
  BY QuestionState DEF QueueFetchError
<1> HIDE DEF k, err
<1>3. Board!Reply("UserInputQueueFetch", Board!Open(k), Empty)
  BY <1>1, <1>2 DEF Returned, Board!Reply, Board!Open
<1>4. Board!Fetch(k)
  BY <1>1, <1>3 DEF Board!Fetch
<1> QED BY <1>4 DEF k

\* What a look-up returns about the slot it found is what the board shows of its question.
LEMMA ReplyAbout ==
    ASSUME QueueOK, NEW S, S \subseteq DOMAIN queue.slots, S # {}, First(S) \in S, NEW k,
           k = <<queue.slots[First(S)].tg, queue.slots[First(S)].id>>,
           NEW call, Returned(call, ResponseOf(queue, S).err, ResponseOf(queue, S).val)
    PROVE  Board!Reply(call, Board!Answered(k), IF Board!Answered(k) THEN BoardOf(queue)[k].value ELSE Empty)
<1> DEFINE i == First(S)
           b == BoardOf(queue)
<1>1. OnBoard(queue, b)
  BY BoardShows DEF QueueOK, TypeOK, UniqueIds
<1>2. i \in DOMAIN queue.slots /\ k = <<queue.slots[i].tg, queue.slots[i].id>>
  OBVIOUS
<1> HIDE DEF i
<1>3. b[k] = [name |-> queue.slots[i].name, provided |-> queue.slots[i].provided, value |-> queue.slots[i].value]
  BY <1>1, <1>2 DEF OnBoard
<1>4. k \in DOMAIN b
  BY <1>1, <1>2 DEF OnBoard, Keys
<1>5. b[k].provided = queue.slots[i].provided /\ b[k].value = queue.slots[i].value
  BY <1>3
<1>6. queue.slots[i] \in Slot
  BY <1>2 DEF QueueOK, TypeOK, Queue
<1>7. CASE queue.slots[i].provided
  <2>1. Board!Answered(k)
    BY <1>4, <1>5, <1>7 DEF Board!Answered
  <2>2. ResponseOf(queue, S).err = "ok" /\ ResponseOf(queue, S).val = b[k].value
    BY <1>5, <1>7 DEF ResponseOf, i
  <2>3. Board!Reply(call, TRUE, b[k].value)
    BY <2>2 DEF Returned, Board!Reply
  <2> QED BY <2>1, <2>3 DEF Board!Reply
<1>8. CASE ~queue.slots[i].provided
  <2>1. Board!Answered(k) = FALSE
    BY <1>4, <1>5, <1>8 DEF Board!Answered
  <2>2. ResponseOf(queue, S).err = "never-provided" /\ ResponseOf(queue, S).val = Empty
    BY <1>8 DEF ResponseOf, i
  <2>3. Board!Reply(call, FALSE, Empty)
    BY <2>2 DEF Returned, Board!Reply
  <2> QED BY <2>1, <2>3 DEF Board!Reply
<1> QED BY <1>7, <1>8

LEMMA ResponseImplemented ==
    ASSUME QueueOK, NEW tg \in TypeGroups, NEW id, CallGetResponseById(tg, id)
    PROVE  Board!Response(<<tg, id>>)
<1> DEFINE S == ById(queue, tg, id)
           k == <<tg, id>>
<1>1. queue' = queue /\ Returned("GetResponseById", ResponseOf(queue, S).err, ResponseOf(queue, S).val)
  BY DEF CallGetResponseById, GetResponseById
<1>2. CASE S = {}
  <2>0. ~Board!Answered(k)
    BY <1>2, QuestionState
  <2>1. Board!Answered(k) = FALSE
    BY <2>0 DEF Board!Answered
  <2>2. ResponseOf(queue, S).err = "no-matching-entry" /\ ResponseOf(queue, S).val = Empty
    BY <1>2 DEF ResponseOf
  <2> HIDE DEF S, k
  <2>3. Board!Reply("GetResponseById", FALSE, Empty)
    BY <1>1, <2>2 DEF Returned, Board!Reply
  <2>4. Board!Reply("GetResponseById", Board!Answered(k), IF Board!Answered(k) THEN BoardOf(queue)[k].value ELSE Empty)
    BY <2>1, <2>3 DEF Board!Reply
  <2>5. Board!Response(k)
    BY <1>1, <2>4 DEF Board!Response
  <2> QED BY <2>5 DEF k
<1>3. CASE S # {}
  <2>1. S \subseteq DOMAIN queue.slots /\ First(S) \in S
    <3>1. S \subseteq DOMAIN queue.slots
      BY DEF ById, SlotsOf
    <3>2. First(S) \in S
      BY <1>3, FoundInQueue DEF QueueOK, TypeOK
    <3> QED BY <3>1, <3>2
  <2>2. k = <<queue.slots[First(S)].tg, queue.slots[First(S)].id>>
    BY <2>1 DEF ById, SlotsOf
  <2> HIDE DEF S, k
  <2>3. Board!Reply("GetResponseById", Board!Answered(k), IF Board!Answered(k) THEN BoardOf(queue)[k].value ELSE Empty)
    BY <1>1, <1>3, <2>1, <2>2, ReplyAbout
  <2>4. Board!Response(k)
    BY <1>1, <2>3 DEF Board!Response
  <2> QED BY <2>4 DEF k
<1> QED BY <1>2, <1>3

LEMMA ResponseByNameImplemented ==
    ASSUME QueueOK, NEW tg \in TypeGroups, NEW name \in Names, CallGetResponse(tg, name)
    PROVE  Board!ResponseByName(tg, name)
<1> DEFINE S == ByName(queue, tg, name)
           b == BoardOf(queue)
           Named == {k \in DOMAIN b : k[1] = tg /\ b[k].name = name}
<1>1. queue' = queue /\ Returned("GetResponse", ResponseOf(queue, S).err, ResponseOf(queue, S).val)
  BY DEF CallGetResponse, GetResponse
<1>2. OnBoard(queue, b)
  BY BoardShows DEF QueueOK, TypeOK, UniqueIds
<1>3. S \subseteq DOMAIN queue.slots /\ \A j \in S : queue.slots[j].tg = tg /\ queue.slots[j].name = name
  BY DEF ByName, SlotsOf
<1>4. BoardOf(queue)' = BoardOf(queue')
  OBVIOUS
<1>5. CASE S = {}
  <2>1. ASSUME NEW k \in Named PROVE FALSE
    <3>1. k \in Keys(queue) /\ k[1] = tg /\ b[k].name = name
      BY <1>2 DEF OnBoard
    <3>2. PICK j \in DOMAIN queue.slots : k = <<queue.slots[j].tg, queue.slots[j].id>>
      BY <3>1 DEF Keys
    <3>3. b[k] = [name |-> queue.slots[j].name, provided |-> queue.slots[j].provided, value |-> queue.slots[j].value]
      BY <1>2, <3>2 DEF OnBoard
    <3>4. queue.slots[j].name = name /\ queue.slots[j].tg = tg
      BY <3>1, <3>2, <3>3
    <3>5. j \in S
      BY <3>4 DEF ByName, SlotsOf
    <3> QED BY <1>5, <3>5
  <2>2. ResponseOf(queue, S).err = "no-matching-entry" /\ ResponseOf(queue, S).val = Empty
    BY <1>5 DEF ResponseOf
  <2> HIDE DEF S
  <2>3. Board!Reply("GetResponse", FALSE, Empty)
    BY <1>1, <2>2 DEF Returned, Board!Reply
  <2>4. Named = {}
    BY <2>1
  <2> QED BY <1>1, <2>3, <2>4 DEF Board!ResponseByName
<1>6. CASE S # {}
  <2> DEFINE i == First(S)
             k == <<queue.slots[i].tg, queue.slots[i].id>>
  <2>1. First(S) \in S
    BY <1>6, FoundInQueue DEF QueueOK, TypeOK
  <2>2. Board!Reply("GetResponse", Board!Answered(k), IF Board!Answered(k) THEN BoardOf(queue)[k].value ELSE Empty)
    <3> HIDE DEF S
    <3> QED BY <1>1, <1>3, <1>6, <2>1, ReplyAbout
  <2>3. i \in DOMAIN queue.slots /\ queue.slots[i].tg = tg /\ queue.slots[i].name = name
    BY <1>3, <2>1
  <2> HIDE DEF S, i
  <2>4. k \in DOMAIN b /\ k[1] = tg
    BY <1>2, <2>3 DEF OnBoard, Keys
  <2>5. b[k] = [name |-> queue.slots[i].name, provided |-> queue.slots[i].provided, value |-> queue.slots[i].value]
    BY <1>2, <2>3 DEF OnBoard
  <2>6. b[k].name = name
    BY <2>3, <2>5
  <2> HIDE DEF k
  <2>7. k \in Named
    BY <2>4, <2>6
  <2> QED BY <1>1, <2>2, <2>7 DEF Board!ResponseByName
<1> QED BY <1>5, <1>6

\* Every step of the queue is a step of the board, or leaves it as it is.
LEMMA QueueStepOnBoard ==
    ASSUME QueueOK, QueueOK', [Next]_vars PROVE [Board!Next]_(Board!vars)
<1>1. ASSUME NEW tg \in TypeGroups, NEW name \in Names, CallRequireAdd(tg, name) PROVE Board!Next
  <2>1. Board!Ask(tg, name)
    BY <1>1, AskImplemented
  <2> QED BY <2>1 DEF Board!Next
<1>2. ASSUME NEW tg \in TypeGroups, NEW name \in Names, CallGetResponse(tg, name) PROVE Board!Next
  <2>1. Board!ResponseByName(tg, name)
    BY <1>2, ResponseByNameImplemented
  <2> QED BY <2>1 DEF Board!Next
<1>3. ASSUME NEW tg \in TypeGroups, NEW id \in 0..MaxSlots, NEW v \in Inputs, CallProvide(tg, id, v)
      PROVE  Board!Next
  <2>1. Board!Provide(<<tg, id>>, v)
    BY <1>3, ProvideImplemented
  <2> QED BY <2>1 DEF Board!Next
<1>4. ASSUME NEW tg \in TypeGroups, NEW id \in 0..MaxSlots, CallResetValue(tg, id) PROVE Board!Next
  <2>1. Board!Reset(<<tg, id>>)
    BY <1>4, ResetImplemented
  <2> QED BY <2>1 DEF Board!Next
<1>5. ASSUME NEW tg \in TypeGroups, NEW id \in 0..MaxSlots, CallFetch(tg, id) PROVE Board!Next
  <2>1. Board!Fetch(<<tg, id>>)
    BY <1>5, FetchImplemented
  <2> QED BY <2>1 DEF Board!Next
<1>6. ASSUME NEW tg \in TypeGroups, NEW id \in 0..MaxSlots, CallGetResponseById(tg, id) PROVE Board!Next
  <2>1. Board!Response(<<tg, id>>)
    BY <1>6, ResponseImplemented
  <2> QED BY <2>1 DEF Board!Next
<1>7. ASSUME CallClearAll PROVE Board!Next
  <2>1. Board!Clear
    BY <1>7, ClearImplemented
  <2> QED BY <2>1 DEF Board!Next
<1>8. ASSUME UNCHANGED vars PROVE UNCHANGED Board!vars
  BY <1>8 DEF vars, Board!vars
<1>9. Next => Board!Next
  BY <1>1, <1>2, <1>3, <1>4, <1>5, <1>6, <1>7 DEF Next
<1> QED BY <1>8, <1>9

(* The queue implements the board of questions (AnsweredOnce), for any       *)
(* questions, inputs and number of slots: every question has a key of its    *)
(* own, an answer reaches the question it names and is accepted once, and    *)
(* the answer that was accepted is the one that is read (RequireAdd(),       *)
(* UpdateEntry(), ResetValue(), ClearAll(), GetResponse()).                  *)
THEOREM QueueImplementsBoard == Spec => AnsweredOnce
<1>1. Init => Board!Init
  <2> SUFFICES ASSUME Init PROVE Board!Init
    OBVIOUS
  <2>1. BoardOf(queue) = [k \in {} |-> Empty]
    BY EmptyBoard DEF Init
  <2>2. [call |-> result.call, ok |-> result.err = "ok", val |-> result.val]
            = [call |-> "none", ok |-> TRUE, val |-> Empty]
    BY DEF Init
  <2> QED BY <2>1, <2>2 DEF Board!Init
<1>2. QueueOK /\ QueueOK' /\ [Next]_vars => [Board!Next]_(Board!vars)
  BY QueueStepOnBoard
<1>3. Spec => []TypeOK
  BY TypeCorrect
<1>4. Spec => []UniqueIds
  BY IdsStayUnique
<1>5. QueueOK <=> TypeOK /\ UniqueIds
  BY DEF QueueOK
<1> QED BY <1>1, <1>2, <1>3, <1>4, <1>5, PTL DEF Spec, AnsweredOnce, Board!Spec
==============================================================================
