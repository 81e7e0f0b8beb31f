------------------------- MODULE CircularBufferProofs -------------------------
(***************************************************************************)
(* The ring buffer of core/circular_buffer.py is an unbounded buffer, for  *)
(* every starting size, every set of items and every number of items.      *)
(***************************************************************************)
EXTENDS CircularBuffer, SequenceTheorems, TLAPS

\* An index that ran past the end comes back by one size.
LEMMA WrapOnce ==
  ASSUME NEW s \in Nat, NEW p \in Nat, NEW k \in Nat, p < s, k < s
  PROVE  (p + k) % s = IF p + k < s THEN p + k ELSE p + k - s
  OBVIOUS

\* Where the buffered items and the next free slot are, without a modulus.
LEMMA SlotValue ==
  ASSUME TypeOK, Validate, NEW k \in 0 .. count
  PROVE  /\ Slot(k) = IF next_pop + k < size THEN next_pop + k ELSE next_pop + k - size
         /\ Slot(k) \in 0 .. size - 1
         /\ Slot(count) = next_push
         /\ k < count => Slot(k) # next_push
  <1>1. /\ size \in Nat /\ next_pop \in Nat /\ next_pop < size
        /\ k \in Nat /\ k <= count /\ count \in Nat /\ count < size
        /\ next_push \in 0 .. size - 1
    BY DEF TypeOK, Validate
  <1>2. Slot(k) = IF next_pop + k < size THEN next_pop + k ELSE next_pop + k - size
    <2>1. k < size
      BY <1>1
    <2>2. (next_pop + k) % size = IF next_pop + k < size THEN next_pop + k
                                                         ELSE next_pop + k - size
      BY <1>1, <2>1, WrapOnce
    <2>3. QED BY <2>2 DEF Slot
  <1>3. Slot(count) = IF next_pop + count < size THEN next_pop + count
                                                 ELSE next_pop + count - size
    BY <1>1, WrapOnce DEF Slot
  <1>4. Slot(count) = next_push
    BY <1>1, <1>3 DEF Validate
  <1>5. QED BY <1>1, <1>2, <1>3, <1>4

\* A push that doubles the array leaves every item where the doubled indices
\* find it, and puts the new item behind them.
LEMMA PushGrows ==
  ASSUME IndInv, NEW item \in Item, Push(item), MustGrow
  PROVE  /\ TypeOK' /\ Validate'
         /\ \A k \in 0 .. count :
              queue'[Slot(k)'] = IF k = count THEN item ELSE queue[Slot(k)]
  <1>1. /\ count \in Nat /\ size = count + 1 /\ size \in Nat
        /\ next_pop \in 0 .. size - 1 /\ next_push \in 0 .. size - 1
        /\ queue \in [0 .. size - 1 -> Item \cup {None}]
        /\ TypeOK /\ Validate
    BY DEF IndInv, TypeOK, MustGrow
  <1>2. /\ count' = count + 1 /\ next_pop' = next_pop /\ size' = 2 * size
        /\ queue' = [Doubled EXCEPT ![DoubledPush] = item]
        /\ next_push' = (DoubledPush + 1) % (2 * size)
        /\ result' = {}
    BY DEF Push
  <1>3. DoubledPush = next_pop + count
    BY <1>1 DEF DoubledPush, Validate
  <1>4. next_push' = next_pop + count + 1
    <2>1. /\ 2 * size \in Nat /\ DoubledPush \in Nat
          /\ DoubledPush < 2 * size /\ DoubledPush + 1 < 2 * size /\ 1 < 2 * size
      BY <1>1, <1>3
    <2>2. (DoubledPush + 1) % (2 * size) = DoubledPush + 1
      BY <2>1, WrapOnce
    <2>3. QED BY <1>2, <1>3, <2>2
  <1>5. /\ Doubled \in [0 .. 2 * size - 1 -> Item \cup {None}]
        /\ DoubledPush \in 0 .. 2 * size - 1
    BY <1>1, <1>3 DEF Doubled
  <1>6. TypeOK'
    BY <1>1, <1>2, <1>4, <1>5 DEF TypeOK
  <1>7. Validate'
    BY <1>1, <1>2, <1>4 DEF Validate
  <1>8. ASSUME NEW k \in 0 .. count
        PROVE  Slot(k)' = next_pop + k
    <2>1. /\ size' \in Nat /\ next_pop' \in Nat /\ k \in Nat
          /\ next_pop' < size' /\ k < size' /\ next_pop' + k < size'
      BY <1>1, <1>2
    <2>2. (next_pop' + k) % size' = next_pop' + k
      BY <2>1, WrapOnce
    <2>3. QED BY <1>2, <2>2 DEF Slot
  <1>9. ASSUME NEW k \in 0 .. count, k = count
        PROVE  queue'[Slot(k)'] = item
    BY <1>1, <1>2, <1>3, <1>5, <1>8, <1>9
  <1>10. ASSUME NEW k \in 0 .. count - 1
         PROVE  queue'[Slot(k)'] = queue[Slot(k)]
    <2>1. /\ next_pop + k \in 0 .. 2 * size - 1
          /\ next_pop + k # DoubledPush
      BY <1>1, <1>3
    <2>2. queue'[Slot(k)'] = Doubled[next_pop + k]
      BY <1>1, <1>2, <1>5, <1>8, <2>1
    <2>3. Slot(k) = IF next_pop + k < size THEN next_pop + k ELSE next_pop + k - size
      BY <1>1, SlotValue
    <2>4. next_pop + k >= size => next_push < next_pop /\ next_pop + k < size + next_push
      BY <1>1 DEF Validate
    <2>5. Doubled[next_pop + k] = queue[Slot(k)]
      BY <1>1, <2>1, <2>3, <2>4 DEF Doubled
    <2>6. QED BY <2>2, <2>5
  <1>11. \A k \in 0 .. count : k = count \/ k \in 0 .. count - 1
    BY <1>1
  <1>12. QED BY <1>1, <1>6, <1>7, <1>9, <1>10, <1>11

\* A push into a free slot disturbs none of the buffered items.
LEMMA PushFits ==
  ASSUME IndInv, NEW item \in Item, Push(item), ~MustGrow
  PROVE  /\ TypeOK' /\ Validate'
         /\ \A k \in 0 .. count :
              queue'[Slot(k)'] = IF k = count THEN item ELSE queue[Slot(k)]
  <1>1. /\ count \in Nat /\ size \in Nat /\ count + 1 < size
        /\ next_pop \in 0 .. size - 1 /\ next_push \in 0 .. size - 1
        /\ queue \in [0 .. size - 1 -> Item \cup {None}]
        /\ TypeOK /\ Validate
    BY DEF IndInv, TypeOK, Validate, MustGrow
  <1>2. /\ count' = count + 1 /\ next_pop' = next_pop /\ size' = size
        /\ queue' = [queue EXCEPT ![next_push] = item]
        /\ next_push' = (next_push + 1) % size
        /\ result' = {}
    BY DEF Push
  <1>3. next_push' = IF next_push + 1 < size THEN next_push + 1 ELSE 0
    <2>1. size \in Nat /\ next_push \in Nat /\ next_push < size /\ 1 < size
      BY <1>1
    <2>2. (next_push + 1) % size =
            IF next_push + 1 < size THEN next_push + 1 ELSE next_push + 1 - size
      BY <2>1, WrapOnce
    <2>3. QED BY <1>2, <2>1, <2>2
  <1>4. TypeOK'
    BY <1>1, <1>2, <1>3 DEF TypeOK
  <1>5. Validate'
    BY <1>1, <1>2, <1>3 DEF Validate
  <1>6. \A k : Slot(k)' = Slot(k)
    BY <1>2 DEF Slot
  <1>7. ASSUME NEW k \in 0 .. count
        PROVE  queue'[Slot(k)'] = IF k = count THEN item ELSE queue[Slot(k)]
    <2>1. /\ Slot(count) = next_push
          /\ Slot(k) \in 0 .. size - 1
          /\ k < count => Slot(k) # next_push
      BY <1>1, SlotValue
    <2>2. k = count \/ k < count
      BY <1>1
    <2>3. QED BY <1>1, <1>2, <1>6, <2>1, <2>2
  <1>8. QED BY <1>4, <1>5, <1>7

\* push is Append, whichever way it finds room.
LEMMA PushStep ==
  ASSUME IndInv, NEW item \in Item, Push(item)
  PROVE  IndInv' /\ Contents' = Append(Contents, item)
  <1>1. /\ TypeOK' /\ Validate'
        /\ \A k \in 0 .. count :
             queue'[Slot(k)'] = IF k = count THEN item ELSE queue[Slot(k)]
    BY PushGrows, PushFits
  <1>2. count \in Nat /\ count' = count + 1
    BY DEF IndInv, TypeOK, Push
  <1>3. ContentsAreItems'
    <2>1. ASSUME NEW k \in 0 .. count' - 1
          PROVE  queue'[Slot(k)'] \in Item
      <3>1. k \in 0 .. count /\ (k # count => k \in 0 .. count - 1)
        BY <1>2
      <3>2. k # count => queue[Slot(k)] \in Item
        BY <3>1 DEF IndInv, ContentsAreItems
      <3>3. QED BY <1>1, <3>1, <3>2
    <2>2. QED BY <2>1 DEF ContentsAreItems
  <1>4. Contents' = [i \in 1 .. count + 1 |-> IF i = count + 1 THEN item
                                              ELSE queue[Slot(i - 1)]]
    <2>1. ASSUME NEW i \in 1 .. count + 1
          PROVE  queue'[Slot(i - 1)'] = IF i = count + 1 THEN item ELSE queue[Slot(i - 1)]
      <3>1. i - 1 \in 0 .. count /\ (i - 1 = count <=> i = count + 1)
        BY <1>2
      <3>2. QED BY <1>1, <3>1
    <2>2. QED BY <1>2, <2>1 DEF Contents
  <1>5. Contents \in Seq(Item) /\ Len(Contents) = count
    BY <1>2 DEF Contents, ContentsAreItems, IndInv
  <1>6. Append(Contents, item) = [i \in 1 .. count + 1 |-> IF i = count + 1 THEN item
                                                           ELSE queue[Slot(i - 1)]]
    BY <1>2, <1>5 DEF Contents
  <1>7. QED BY <1>1, <1>3, <1>4, <1>6 DEF IndInv

\* pop is Tail and hands back the Head.
LEMMA PopStep ==
  ASSUME IndInv, Pop
  PROVE  /\ IndInv'
         /\ Contents # << >>
         /\ Contents' = Tail(Contents)
         /\ result' = {Head(Contents)}
  <1>1. /\ count \in Nat \ {0} /\ size \in Nat /\ count < size
        /\ next_pop \in 0 .. size - 1 /\ next_push \in 0 .. size - 1
        /\ queue \in [0 .. size - 1 -> Item \cup {None}]
        /\ TypeOK /\ Validate /\ ContentsAreItems
    BY DEF IndInv, TypeOK, Validate, Pop
  <1>2. /\ count' = count - 1 /\ size' = size /\ queue' = queue
        /\ next_push' = next_push /\ result' = {queue[next_pop]}
        /\ next_pop' = (next_pop + 1) % size
    BY DEF Pop
  <1>3. next_pop' = IF next_pop + 1 < size THEN next_pop + 1 ELSE 0
    <2>1. size \in Nat /\ next_pop \in Nat /\ next_pop < size /\ 1 < size
      BY <1>1
    <2>2. (next_pop + 1) % size =
            IF next_pop + 1 < size THEN next_pop + 1 ELSE next_pop + 1 - size
      BY <2>1, WrapOnce
    <2>3. QED BY <1>2, <2>1, <2>2
  <1>4. Slot(0) = next_pop
    BY <1>1, SlotValue
  <1>5. queue[next_pop] \in Item
    BY <1>1, <1>4 DEF ContentsAreItems
  <1>6. TypeOK'
    BY <1>1, <1>2, <1>3, <1>5 DEF TypeOK
  <1>7. Validate'
    BY <1>1, <1>2, <1>3 DEF Validate
  <1>8. ASSUME NEW k \in 0 .. count - 2
        PROVE  Slot(k)' = Slot(k + 1)
    <2>1. /\ size' \in Nat /\ next_pop' \in Nat /\ k \in Nat
          /\ next_pop' < size' /\ k < size'
      BY <1>1, <1>2, <1>3
    <2>2. (next_pop' + k) % size' = IF next_pop' + k < size' THEN next_pop' + k
                                                             ELSE next_pop' + k - size'
      BY <2>1, WrapOnce
    <2>3. k + 1 \in 0 .. count
      BY <1>1
    <2>4. Slot(k + 1) = IF next_pop + (k + 1) < size THEN next_pop + (k + 1)
                        ELSE next_pop + (k + 1) - size
      BY <1>1, <2>3, SlotValue
    <2>5. (next_pop' + k) % size' = Slot(k + 1)
      BY <1>1, <1>2, <1>3, <2>2, <2>4
    <2>6. QED BY <2>5 DEF Slot
  <1>9. ContentsAreItems'
    <2>1. ASSUME NEW k \in 0 .. count' - 1
          PROVE  queue'[Slot(k)'] \in Item
      <3>1. k \in 0 .. count - 2 /\ k + 1 \in 0 .. count - 1
        BY <1>1, <1>2
      <3>2. queue[Slot(k + 1)] \in Item
        BY <1>1, <3>1 DEF ContentsAreItems
      <3>3. QED BY <1>2, <1>8, <3>1, <3>2
    <2>2. QED BY <2>1 DEF ContentsAreItems
  <1>10. Contents \in Seq(Item) /\ Len(Contents) = count
    BY <1>1 DEF Contents, ContentsAreItems
  <1>11. Contents' = Tail(Contents)
    <2>1. Tail(Contents) = [i \in 1 .. count - 1 |-> Contents[i + 1]]
      <3>1. /\ Tail(Contents) \in Seq(Item) /\ Len(Tail(Contents)) = count - 1
            /\ \A i \in 1 .. count - 1 : Tail(Contents)[i] = Contents[i + 1]
        BY <1>1, <1>10
      <3>2. Tail(Contents) \in [1 .. count - 1 -> Item]
        BY <3>1, LenProperties
      <3>3. QED BY <3>1, <3>2
    <2>2. ASSUME NEW i \in 1 .. count - 1
          PROVE  queue'[Slot(i - 1)'] = Contents[i + 1]
      <3>1. i - 1 \in 0 .. count - 2 /\ i + 1 \in 1 .. count
            /\ (i - 1) + 1 = i /\ (i + 1) - 1 = i
        BY <1>1
      <3>2. Slot(i - 1)' = Slot(i)
        BY <1>8, <3>1
      <3>3. Contents[i + 1] = queue[Slot(i)]
        BY <3>1 DEF Contents
      <3>4. QED BY <1>2, <3>2, <3>3
    <2>3. Contents' = [i \in 1 .. count - 1 |-> queue'[Slot(i - 1)']]
      BY <1>2 DEF Contents
    <2>4. QED BY <2>1, <2>2, <2>3
  <1>12. result' = {Head(Contents)} /\ Contents # << >>
    <2>1. Contents[1] = queue[Slot(0)]
      BY <1>1 DEF Contents
    <2>2. QED BY <1>1, <1>2, <1>4, <1>10, <2>1
  <1>13. QED BY <1>6, <1>7, <1>9, <1>11, <1>12 DEF IndInv

\* pop_front drops the item pushed last and hands it back.
LEMMA PopFrontStep ==
  ASSUME IndInv, PopFront
  PROVE  /\ IndInv'
         /\ Contents # << >>
         /\ Contents' = SubSeq(Contents, 1, Len(Contents) - 1)
         /\ result' = {Contents[Len(Contents)]}
  <1>1. /\ count \in Nat \ {0} /\ size \in Nat /\ count < size
        /\ next_pop \in 0 .. size - 1 /\ next_push \in 0 .. size - 1
        /\ queue \in [0 .. size - 1 -> Item \cup {None}]
        /\ TypeOK /\ Validate /\ ContentsAreItems
    BY DEF IndInv, TypeOK, Validate, PopFront
  <1>2. /\ count' = count - 1 /\ size' = size /\ queue' = queue
        /\ next_pop' = next_pop /\ result' = {queue[(next_push + size - 1) % size]}
        /\ next_push' = (next_push + size - 1) % size
    BY DEF PopFront
  <1>3. next_push' = IF next_push = 0 THEN size - 1 ELSE next_push - 1
    <2>1. /\ size \in Nat /\ next_push \in Nat /\ next_push < size
          /\ size - 1 \in Nat /\ size - 1 < size
      BY <1>1
    <2>2. (next_push + (size - 1)) % size =
            IF next_push + (size - 1) < size THEN next_push + (size - 1)
                                             ELSE next_push + (size - 1) - size
      BY <2>1, WrapOnce
    <2>3. next_push + (size - 1) = next_push + size - 1
      BY <2>1
    <2>4. QED BY <1>2, <2>1, <2>2, <2>3
  <1>4. Slot(count - 1) = next_push'
    <2>1. count - 1 \in 0 .. count
      BY <1>1
    <2>2. Slot(count - 1) = IF next_pop + (count - 1) < size THEN next_pop + (count - 1)
                            ELSE next_pop + (count - 1) - size
      BY <1>1, <2>1, SlotValue
    <2>3. QED BY <1>1, <1>3, <2>2 DEF Validate
  <1>5. queue[next_push'] \in Item
    BY <1>1, <1>4 DEF ContentsAreItems
  <1>6. TypeOK'
    BY <1>1, <1>2, <1>3, <1>5 DEF TypeOK
  <1>7. Validate'
    BY <1>1, <1>2, <1>3 DEF Validate
  <1>8. \A k : Slot(k)' = Slot(k)
    BY <1>2 DEF Slot
  <1>9. ContentsAreItems'
    BY <1>1, <1>2, <1>8 DEF ContentsAreItems
  <1>10. Contents \in Seq(Item) /\ Len(Contents) = count
    BY <1>1 DEF Contents, ContentsAreItems
  <1>11. Contents' = SubSeq(Contents, 1, count - 1)
    <2>1. SubSeq(Contents, 1, count - 1) = [i \in 1 .. count - 1 |-> Contents[i]]
      BY <1>1, <1>10
    <2>2. \A i \in 1 .. count - 1 : Contents[i] = queue[Slot(i - 1)]
      BY <1>1 DEF Contents
    <2>3. QED BY <1>2, <1>8, <2>1, <2>2 DEF Contents
  <1>12. result' = {Contents[count]} /\ Contents # << >>
    <2>1. Contents[count] = queue[Slot(count - 1)]
      BY <1>1 DEF Contents
    <2>2. QED BY <1>1, <1>2, <1>4, <1>10, <2>1
  <1>13. QED BY <1>6, <1>7, <1>9, <1>10, <1>11, <1>12 DEF IndInv

LEMMA InitStep ==
  ASSUME Init
  PROVE  IndInv /\ Contents = << >>
  <1>1. /\ count = 0 /\ next_push = 0 /\ next_pop = 0 /\ size = StartingSize
        /\ StartingSize \in Nat \ {0} /\ result = {}
        /\ queue = [i \in 0 .. StartingSize - 1 |-> None]
    BY StartingSizeAssumption DEF Init
  <1>2. TypeOK /\ Validate
    BY <1>1 DEF TypeOK, Validate
  <1>3. ContentsAreItems
    BY <1>1 DEF ContentsAreItems
  <1>4. Contents = << >>
    BY <1>1 DEF Contents
  <1>5. QED BY <1>2, <1>3, <1>4 DEF IndInv

LEMMA StutterStep ==
  ASSUME IndInv, UNCHANGED vars
  PROVE  IndInv' /\ UNCHANGED <<Contents, result>>
  <1>1. /\ UNCHANGED <<count, next_push, next_pop, size, queue, result>>
        /\ \A k : Slot(k)' = Slot(k)
    BY DEF vars, Slot
  <1>2. TypeOK' /\ Validate' /\ ContentsAreItems'
    BY <1>1 DEF IndInv, TypeOK, Validate, ContentsAreItems
  <1>3. Contents' = Contents
    BY <1>1 DEF Contents
  <1>4. QED BY <1>1, <1>2, <1>3 DEF IndInv
------------------------------------------------------------------------------
\* The indices and the count that circular_buffer.py:131-145 would assert, with
\* the types of all the state and real items in every occupied slot, hold after
\* any sequence of push, pop and pop_front.
THEOREM Invariance == Spec => []IndInv
  <1>1. Init => IndInv
    BY InitStep
  <1>2. IndInv /\ [Next]_vars => IndInv'
    BY PushStep, PopStep, PopFrontStep, StutterStep DEF Next
  <1>3. QED BY <1>1, <1>2, PTL DEF Spec

\* The consistency check that the class has and never calls.
THEOREM ValidateHolds == Spec => [](Validate /\ ContentsAreItems)
  <1>1. IndInv => Validate /\ ContentsAreItems
    BY DEF IndInv
  <1>2. QED BY <1>1, Invariance, PTL

\* The ring's indices stay inside it through every doubling, and what it holds
\* are items or slots that were never filled.
THEOREM RingTypeCorrect == Spec => []TypeOK
  <1>1. IndInv => TypeOK
    BY DEF IndInv
  <1>2. QED BY <1>1, Invariance, PTL

\* The buffer of circular_buffer.py:42-98 implements the unbounded buffer of
\* module Deque: nothing is lost, duplicated, reordered or made up, however
\* often the array wraps and doubles.
THEOREM Refinement == Spec => RefinesDeque
  <1>1. Init => D!Init
    BY InitStep DEF D!Init, Init
  <1>2. IndInv /\ [Next]_vars => [D!Next]_(D!dvars)
    <2> SUFFICES ASSUME IndInv, [Next]_vars
                 PROVE  [D!Next]_(D!dvars)
      OBVIOUS
    <2>1. ASSUME NEW item \in Item, Push(item)
          PROVE  D!Next
      <3>1. Len(Contents) = count
        BY DEF IndInv, TypeOK, Contents
      <3>2. D!Push(item)
        BY <2>1, <3>1, PushStep DEF D!Push, Push
      <3>3. QED BY <3>2 DEF D!Next
    <2>2. ASSUME Pop
          PROVE  D!Next
      <3>1. D!Pop
        BY <2>2, PopStep DEF D!Pop
      <3>2. QED BY <3>1 DEF D!Next
    <2>3. ASSUME PopFront
          PROVE  D!Next
      <3>1. D!PopFront
        BY <2>3, PopFrontStep DEF D!PopFront
      <3>2. QED BY <3>1 DEF D!Next
    <2>4. ASSUME UNCHANGED vars
          PROVE  UNCHANGED D!dvars
      BY <2>4, StutterStep DEF D!dvars
    <2>5. QED BY <2>1, <2>2, <2>3, <2>4 DEF Next
  <1>3. QED BY <1>1, <1>2, Invariance, PTL DEF Spec, RefinesDeque, D!Spec
==============================================================================
