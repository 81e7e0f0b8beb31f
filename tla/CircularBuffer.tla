---------------------------- MODULE CircularBuffer ----------------------------
(***************************************************************************)
(* core/circular_buffer.py: the growing ring buffer under every queue of   *)
(* the simulator.  push counts the new item BEFORE it looks for room, so   *)
(* the buffer doubles while one slot is still free; the two indices say    *)
(* "empty" when they are equal and are never equal on a full buffer.       *)
(***************************************************************************)
EXTENDS Integers, Sequences

CONSTANTS
  Item,          \* what is buffered
  None,          \* an unused slot
  StartingSize,  \* the constructor's argument (8 unless the caller says)
  MaxCount       \* bound on the number of items buffered at once

\* With a size of 1 the very first push doubles the array; a size of 0 would
\* divide by zero in push.
ASSUME StartingSizeAssumption == StartingSize \in Nat \ {0}
ASSUME MaxCountAssumption == MaxCount \in Nat
ASSUME NoneAssumption == None \notin Item

VARIABLES
  count,      \* _count
  next_push,  \* _next_push
  next_pop,   \* _next_pop
  size,       \* _size
  queue,      \* _queue, a list of size slots
  result      \* the items the last call returned

vars == <<count, next_push, next_pop, size, queue, result>>

Init ==
  /\ count = 0
  /\ next_push = 0
  /\ next_pop = 0
  /\ size = StartingSize
  /\ queue = [i \in 0 .. StartingSize - 1 |-> None]
  /\ result = {}

\* The slips the checks must notice: an array that doubles only when the new
\* item does not fit, and a doubling that leaves the wrapped part behind.
GrowsLate == count = size
ForgetsWrapped ==
  [i \in 0 .. 2 * size - 1 |-> IF i < size THEN queue[i] ELSE None]

\* push has counted the new item already: it grows while a slot is still free.
MustGrow == count + 1 = size

\* The doubled array: a copy of the old one and, when the content wraps round
\* its end, a second copy of the wrapped part behind it.
Doubled ==
  [i \in 0 .. 2 * size - 1 |->
     IF i < size THEN queue[i]
     ELSE IF next_push < next_pop /\ i < size + next_push THEN queue[i - size]
     ELSE None]

\* Where the item goes once the array has been doubled.
DoubledPush == IF next_push < next_pop THEN next_push + size ELSE next_push

Push(item) ==
  /\ count < MaxCount
  /\ count' = count + 1
  /\ IF MustGrow
     THEN /\ size' = 2 * size
          /\ queue' = [Doubled EXCEPT ![DoubledPush] = item]
          /\ next_push' = (DoubledPush + 1) % (2 * size)
     ELSE /\ size' = size
          /\ queue' = [queue EXCEPT ![next_push] = item]
          /\ next_push' = (next_push + 1) % size
  /\ result' = {}
  /\ UNCHANGED next_pop

\* pop: the item stays in its slot, only the index moves.
Pop ==
  /\ count > 0
  /\ result' = {queue[next_pop]}
  /\ next_pop' = (next_pop + 1) % size
  /\ count' = count - 1
  /\ UNCHANGED <<next_push, size, queue>>

\* pop_front: takes back the item pushed last.
PopFront ==
  /\ count > 0
  /\ next_push' = (next_push + size - 1) % size
  /\ result' = {queue[(next_push + size - 1) % size]}
  /\ count' = count - 1
  /\ UNCHANGED <<next_pop, size, queue>>

Next ==
  \/ \E item \in Item : Push(item)
  \/ Pop
  \/ PopFront

Spec == Init /\ [][Next]_vars
------------------------------------------------------------------------------
TypeOK ==
  /\ count \in Nat
  /\ size \in Nat \ {0}
  /\ next_push \in 0 .. size - 1
  /\ next_pop \in 0 .. size - 1
  /\ queue \in [0 .. size - 1 -> Item \cup {None}]
  /\ result \in SUBSET Item

\* The two indices and the count agree (circular_buffer.py:131-145, _validate,
\* which nothing calls): one slot stays free, so equal indices mean "empty".
Validate ==
  /\ count < size
  /\ next_push > next_pop => next_push - next_pop = count
  /\ next_push = next_pop => count = 0
  /\ next_push < next_pop => next_push + size - next_pop = count

\* The slot of a buffered item, from the oldest (0) to the newest (count - 1).
Slot(k) == (next_pop + k) % size

\* The buffered items, the oldest first.
Contents == [i \in 1 .. count |-> queue[Slot(i - 1)]]

\* A slot between next_pop and next_push holds an item that was pushed: no
\* caller gets the None of an unused slot, before or after a doubling.
ContentsAreItems == \A k \in 0 .. count - 1 : queue[Slot(k)] \in Item

\* What every operation preserves.
IndInv == TypeOK /\ Validate /\ ContentsAreItems

\* The ring buffer, through every wrap and every doubling, is the unbounded
\* buffer of module Deque (circular_buffer.py:42-98).
D == INSTANCE Deque WITH elements <- Contents
RefinesDeque == D!Spec
==============================================================================
