------------------------------ MODULE LinkProofs ------------------------------
(***************************************************************************)
(* A link whose pipe never holds more packets than its ring began with, for*)
(* any such size and any packets: every packet object is in one place, and *)
(* neither the queue nor the pipe falls asleep over what it holds, and the *)
(* pipe only delays.  With more packets two of them may share a record.    *)
(***************************************************************************)
EXTENDS Link, Sums, SequenceTheorems

Roomy == MaxInFlight =< StartSize

\* The slot of the k-th packet under way, in a ring that is read from p on.
SlotOf(p, k, s) == IF p + k - 1 < s THEN p + k - 1 ELSE p + k - 1 - s

LEMMA WrapOnce ==
  ASSUME NEW s \in Nat, s >= 2, NEW a \in 0 .. s - 1
  PROVE  (a + 1) % s = IF a + 1 < s THEN a + 1 ELSE a + 1 - s
  OBVIOUS

\* Growing once copies a reference only to the slot one old ring further on.
SharedAcross(v, s) ==
  \A i, j \in 0 .. s - 1 : v[i] = v[j] => i = j \/ i = j + StartSize \/ j = i + StartSize

\* Packets no more than the old ring had slots never share a record.
LEMMA RecordsApart ==
  ASSUME StartSize \in Nat, NEW s \in {StartSize, 2 * StartSize}, NEW v, SharedAcross(v, s),
         NEW p \in 0 .. s - 1, NEW k \in 1 .. StartSize, NEW l \in 1 .. StartSize, k # l
  PROVE  v[SlotOf(p, k, s)] # v[SlotOf(p, l, s)]
  <1> DEFINE a == SlotOf(p, k, s)
             b == SlotOf(p, l, s)
  <1>1. a \in 0 .. s - 1 /\ b \in 0 .. s - 1
    BY DEF SlotOf
  <1>2. a # b /\ a # b + StartSize /\ b # a + StartSize
    BY DEF SlotOf
  <1>3. QED BY <1>1, <1>2 DEF SharedAcross
------------------------------------------------------------------------------
Record == [time : 0 .. Delay, pkt : Packet \cup {None}]

Ref(k) == inflight_v[SlotOf(next_pop, k, size)]
Carried(k) == record[Ref(k)]

\* The ring, grown at most once.
Shape ==
  /\ size \in {StartSize, 2 * StartSize}
  /\ count \in 0 .. MaxInFlight /\ count < size
  /\ next_pop \in 0 .. size - 1
  /\ next_insert = SlotOf(next_pop, count + 1, size)
  /\ inflight_v \in [0 .. size - 1 -> 0 .. size - 1]
  /\ SharedAcross(inflight_v, size)
  /\ record \in [0 .. size - 1 -> Record]

LEMMA SlotIsInRing ==
  ASSUME NEW s \in Nat, NEW p \in 0 .. s - 1, NEW k \in 1 .. s
  PROVE  SlotOf(p, k, s) \in 0 .. s - 1
  BY DEF SlotOf

LEMMA RefsAreRecords ==
  ASSUME Shape, NEW k \in 1 .. count + 1
  PROVE  Ref(k) \in 0 .. size - 1 /\ Carried(k) \in Record
  <1>1. size \in Nat /\ k \in 1 .. size
    BY PipeAssumption DEF Shape
  <1>2. SlotOf(next_pop, k, size) \in 0 .. size - 1
    BY <1>1, SlotIsInRing DEF Shape
  <1>3. QED BY <1>2 DEF Shape, Ref, Carried

\* What the ring is when a packet has been made room for.
Room(b) ==
  /\ b.size \in {StartSize, 2 * StartSize} /\ count + 1 < b.size /\ size =< b.size
  /\ b.next_insert = SlotOf(next_pop, count + 1, b.size)
  /\ b.inflight_v \in [0 .. b.size - 1 -> 0 .. b.size - 1]
  /\ SharedAcross(b.inflight_v, b.size)
  /\ b.record \in [0 .. b.size - 1 -> Record]
  /\ \A k \in 1 .. count : b.inflight_v[SlotOf(next_pop, k, b.size)] = Ref(k)
  /\ \A r \in 0 .. size - 1 : b.record[r] = record[r]

LEMMA SameIsRoom ==
  ASSUME Roomy, Shape, count < MaxInFlight, ~P!Full
  PROVE  Room(P!Same)
  <1>1. count + 1 < size /\ size =< size
    BY PipeAssumption DEF Roomy, Shape, P!Full
  <1>2. /\ P!Same.size = size /\ P!Same.next_insert = next_insert
        /\ P!Same.inflight_v = inflight_v /\ P!Same.record = record
    BY DEF P!Same
  <1>3. QED BY <1>1, <1>2 DEF Room, Shape, Ref

LEMMA ResizedIsRoom ==
  ASSUME Roomy, Shape, count < MaxInFlight, P!Full
  PROVE  Room(P!Resized)
  <1> DEFINE v == P!Resized.inflight_v
             rec == P!Resized.record
             new == [time |-> 0, pkt |-> None]
  <1>1. /\ StartSize \in Nat /\ StartSize >= 2 /\ MaxInFlight \in Nat /\ Delay \in Nat
        /\ size = StartSize /\ count = size - 1
        /\ next_pop \in 0 .. size - 1
    BY PipeAssumption DEF Roomy, Shape, P!Full
  <1>2. P!Resized.size = 2 * StartSize
    BY <1>1 DEF P!Resized
  <1>3. next_insert = IF next_pop = 0 THEN size - 1 ELSE next_pop - 1
    BY <1>1 DEF Shape, SlotOf
  <1>4. P!Resized.next_insert = next_pop + size - 1
    BY <1>1, <1>3 DEF P!Resized
  <1>5. \A i \in 0 .. 2 * size - 1 :
          v[i] = IF i < size THEN inflight_v[i]
                 ELSE IF next_insert < next_pop /\ i - size < next_insert
                      THEN inflight_v[i - size] ELSE i
    BY DEF P!Resized
  <1>6. \A i \in 0 .. 2 * size - 1 :
          rec[i] = IF i < size THEN record[i] ELSE new
    BY DEF P!Resized
  <1>7. v = [i \in 0 .. 2 * size - 1 |-> v[i]] /\ rec = [i \in 0 .. 2 * size - 1 |-> rec[i]]
    BY DEF P!Resized
  <1> HIDE DEF v, rec
  <1>8. \A i \in 0 .. size - 1 : inflight_v[i] \in 0 .. size - 1
    BY DEF Shape
  <1>9. v \in [0 .. 2 * size - 1 -> 0 .. 2 * size - 1]
    <2>1. ASSUME NEW i \in 0 .. 2 * size - 1
          PROVE  v[i] \in 0 .. 2 * size - 1
      <3>1. CASE i < size
        BY <1>1, <1>5, <1>8, <3>1
      <3>2. CASE i >= size
        <4>1. i - size \in 0 .. size - 1
          BY <1>1, <3>2
        <4>2. QED BY <1>1, <1>5, <1>8, <3>2, <4>1
      <3>3. QED BY <1>1, <3>1, <3>2
    <2>2. QED BY <1>7, <2>1
  <1>10. rec \in [0 .. 2 * size - 1 -> Record]
    <2>1. new \in Record
      BY <1>1 DEF Record
    <2>2. \A i \in 0 .. size - 1 : record[i] \in Record
      BY DEF Shape
    <2> HIDE DEF new
    <2>3. ASSUME NEW i \in 0 .. 2 * size - 1
          PROVE  rec[i] \in Record
      BY <1>1, <1>6, <2>1, <2>2
    <2>4. QED BY <1>7, <2>3
  <1>11. SharedAcross(v, 2 * size)
    <2>1. \A i, j \in 0 .. size - 1 : inflight_v[i] = inflight_v[j] => i = j
      BY <1>1 DEF Shape, SharedAcross
    <2>2. ASSUME NEW i \in 0 .. 2 * size - 1, NEW j \in 0 .. 2 * size - 1, v[i] = v[j]
          PROVE  i = j \/ i = j + size \/ j = i + size
      <3>1. i < size \/ i - size \in 0 .. size - 1
        BY <1>1
      <3>2. j < size \/ j - size \in 0 .. size - 1
        BY <1>1
      <3>3. CASE i < size /\ j < size
        BY <1>1, <1>5, <2>1, <2>2, <3>3
      <3>4. CASE i < size /\ j >= size
        <4>1. v[i] = inflight_v[i] /\ v[i] < size
          BY <1>1, <1>5, <1>8, <3>4
        <4>2. v[j] = j \/ v[j] = inflight_v[j - size]
          BY <1>1, <1>5, <3>4
        <4>3. v[j] < size
          BY <2>2, <4>1
        <4>4. inflight_v[i] = inflight_v[j - size]
          BY <1>1, <2>2, <3>4, <4>1, <4>2, <4>3
        <4>5. i = j - size
          BY <1>1, <2>1, <3>2, <3>4, <4>4
        <4>6. QED BY <1>1, <4>5
      <3>5. CASE i >= size /\ j < size
        <4>1. v[j] = inflight_v[j] /\ v[j] < size
          BY <1>1, <1>5, <1>8, <3>5
        <4>2. v[i] = i \/ v[i] = inflight_v[i - size]
          BY <1>1, <1>5, <3>5
        <4>3. v[i] < size
          BY <2>2, <4>1
        <4>4. inflight_v[j] = inflight_v[i - size]
          BY <1>1, <2>2, <3>5, <4>1, <4>2, <4>3
        <4>5. j = i - size
          BY <1>1, <2>1, <3>1, <3>5, <4>4
        <4>6. QED BY <1>1, <4>5
      <3>6. CASE i >= size /\ j >= size
        <4>1. v[i] = i \/ v[i] = inflight_v[i - size]
          BY <1>5, <1>1, <3>6
        <4>2. v[j] = j \/ v[j] = inflight_v[j - size]
          BY <1>5, <1>1, <3>6
        <4>3. inflight_v[i - size] < size /\ inflight_v[j - size] < size
          BY <1>1, <1>8, <3>1, <3>2, <3>6
        <4>4. QED BY <1>1, <2>1, <2>2, <3>1, <3>2, <3>6, <4>1, <4>2, <4>3
      <3>7. QED BY <1>1, <3>3, <3>4, <3>5, <3>6
    <2>3. QED BY <1>1, <2>2 DEF SharedAcross
  <1>12. ASSUME NEW k \in 1 .. count
         PROVE  v[SlotOf(next_pop, k, 2 * size)] = Ref(k)
    <2>1. SlotOf(next_pop, k, 2 * size) = next_pop + k - 1
      BY <1>1 DEF SlotOf
    <2>2. next_pop + k - 1 \in 0 .. 2 * size - 1
      BY <1>1
    <2>3. CASE next_pop + k - 1 < size
      BY <1>1, <1>5, <2>1, <2>2, <2>3 DEF Ref, SlotOf
    <2>4. CASE next_pop + k - 1 >= size
      <3>1. /\ next_insert < next_pop /\ next_pop + k - 1 - size < next_insert
            /\ SlotOf(next_pop, k, size) = next_pop + k - 1 - size
        BY <1>1, <1>3, <2>4 DEF SlotOf
      <3>2. QED BY <1>1, <1>5, <2>1, <2>2, <2>4, <3>1 DEF Ref
    <2>5. QED BY <1>1, <2>3, <2>4
  <1>13. P!Resized.next_insert = SlotOf(next_pop, count + 1, 2 * size)
    BY <1>1, <1>4 DEF SlotOf
  <1>14. \A r \in 0 .. size - 1 : rec[r] = record[r]
    BY <1>1, <1>6
  <1>15. count + 1 < 2 * size /\ size =< 2 * size
    BY <1>1
  <1>16. P!Resized.size = 2 * size /\ 2 * size \in {StartSize, 2 * StartSize}
    BY <1>1, <1>2
  <1>17. v = P!Resized.inflight_v /\ rec = P!Resized.record
    BY DEF v, rec
  <1> HIDE DEF P!Resized
  <1>18. QED BY <1>9, <1>10, <1>11, <1>12, <1>13, <1>14, <1>15, <1>16, <1>17 DEF Room
------------------------------------------------------------------------------
\* What the three steps do to the packets under way.

LEMMA ReceiveShape ==
  ASSUME Roomy, Shape, NEW p \in Packet, P!ReceivePacket(p)
  PROVE  /\ Shape' /\ count' = count + 1
         /\ \A k \in 1 .. count : Carried(k)' = Carried(k)
         /\ Carried(count)' = [time |-> Delay, pkt |-> p]
  <1> DEFINE b == IF P!Full THEN P!Resized ELSE P!Same
             at == b.next_insert
             r == b.inflight_v[at]
             entry == [time |-> Delay, pkt |-> p]
  <1>1. /\ count < MaxInFlight /\ count' = count + 1 /\ next_pop' = next_pop
        /\ size' = b.size /\ inflight_v' = b.inflight_v
        /\ record' = [b.record EXCEPT ![r] = entry]
        /\ next_insert' = (at + 1) % b.size
    BY DEF P!ReceivePacket
  <1>2. Room(b)
    <2>1. CASE P!Full
      BY <1>1, <2>1, ResizedIsRoom
    <2>2. CASE ~P!Full
      BY <1>1, <2>2, SameIsRoom
    <2>3. QED BY <2>1, <2>2
  <1> HIDE DEF b
  <1>3. /\ StartSize \in Nat /\ MaxInFlight \in Nat /\ MaxInFlight =< StartSize
        /\ b.size \in {StartSize, 2 * StartSize} /\ b.size \in Nat /\ b.size >= 2
        /\ size \in Nat /\ size =< b.size
        /\ count \in Nat /\ count + 1 < b.size /\ count + 1 =< StartSize
        /\ next_pop \in 0 .. b.size - 1
    <2>1. /\ StartSize \in Nat /\ StartSize >= 2 /\ MaxInFlight \in Nat
          /\ MaxInFlight =< StartSize
      BY PipeAssumption DEF Roomy
    <2>2. size \in Nat /\ count \in Nat /\ next_pop \in 0 .. size - 1
      BY <2>1 DEF Shape
    <2>3. b.size \in {StartSize, 2 * StartSize} /\ count + 1 < b.size /\ size =< b.size
      BY <1>2 DEF Room
    <2>4. b.size \in Nat
      BY <2>1, <2>3
    <2>5. count + 1 =< StartSize
      BY <1>1, <2>1, <2>2
    <2>6. b.size >= 2 /\ next_pop \in 0 .. b.size - 1
      BY <2>1, <2>2, <2>3, <2>4
    <2>7. QED BY <2>1, <2>2, <2>3, <2>4, <2>5, <2>6
  <1>4. at = SlotOf(next_pop, count + 1, b.size) /\ at \in 0 .. b.size - 1
    <2>1. count + 1 \in 1 .. b.size
      BY <1>3
    <2>2. QED BY <1>2, <1>3, <2>1, SlotIsInRing DEF Room
  <1>5. r \in 0 .. b.size - 1
    BY <1>2, <1>4 DEF Room
  <1>6. next_insert' = SlotOf(next_pop, count + 2, b.size)
    <2> HIDE DEF at
    <2>1. (at + 1) % b.size = IF at + 1 < b.size THEN at + 1 ELSE at + 1 - b.size
      BY <1>3, <1>4, WrapOnce
    <2>2. QED BY <1>1, <1>3, <1>4, <2>1 DEF SlotOf
  <1>7. entry \in Record
    BY PipeAssumption DEF Record
  <1>8. record' \in [0 .. b.size - 1 -> Record]
    <2> HIDE DEF entry, r
    <2>1. QED BY <1>1, <1>2, <1>7 DEF Room
  <1>9. Shape'
    <2>1. count' + 1 = count + 2 /\ count' \in 0 .. MaxInFlight /\ count' < b.size
      BY <1>1, <1>3
    <2>2. QED BY <1>1, <1>2, <1>3, <1>6, <1>8, <2>1 DEF Shape, Room
  <1>10. ASSUME NEW k \in 1 .. count
         PROVE  Carried(k)' = Carried(k)
    <2>1. Ref(k)' = Ref(k)
      BY <1>1, <1>2 DEF Ref, Room
    <2>2. Ref(k) \in 0 .. size - 1 /\ k \in 1 .. count + 1
      BY <1>3, RefsAreRecords
    <2>3. Ref(k) \in 0 .. b.size - 1 /\ b.record[Ref(k)] = record[Ref(k)]
      BY <1>2, <1>3, <2>2 DEF Room
    <2>4. Ref(k) # r
      <3>1. k \in 1 .. StartSize /\ count + 1 \in 1 .. StartSize /\ k # count + 1
        BY <1>3
      <3>2. b.inflight_v[SlotOf(next_pop, k, b.size)]
              # b.inflight_v[SlotOf(next_pop, count + 1, b.size)]
        BY <1>2, <1>3, <3>1, RecordsApart DEF Room
      <3>3. QED BY <1>2, <1>4, <3>2 DEF Room
    <2>5. record'[Ref(k)] = record[Ref(k)]
      <3> HIDE DEF entry, r
      <3>1. QED BY <1>1, <1>2, <2>3, <2>4 DEF Room
    <2>6. QED BY <2>1, <2>5 DEF Carried
  <1>11. Carried(count)' = entry
    <2>1. Carried(count)' = record'[b.inflight_v[SlotOf(next_pop, count + 1, b.size)]]
      BY <1>1 DEF Carried, Ref
    <2>2. record'[r] = entry
      <3> HIDE DEF entry, r
      <3>1. QED BY <1>1, <1>2, <1>5 DEF Room
    <2>3. QED BY <1>4, <2>1, <2>2
  <1>12. QED BY <1>1, <1>9, <1>10, <1>11

LEMMA DeliverShape ==
  ASSUME Roomy, Shape, P!DoNextEvent
  PROVE  /\ Shape' /\ count' = count - 1
         /\ \A k \in 1 .. count - 1 : Carried(k)' = Carried(k + 1)
         /\ P!HeadPacket = Carried(1).pkt
         /\ count > 1 => record[inflight_v[(next_pop + 1) % size]] = Carried(2)
  <1>1. /\ count > 0 /\ count' = count - 1 /\ next_pop' = (next_pop + 1) % size
        /\ next_insert' = next_insert /\ size' = size
        /\ inflight_v' = inflight_v /\ record' = record
    BY DEF P!DoNextEvent
  <1>2. /\ size \in Nat /\ size >= 2 /\ MaxInFlight \in Nat
        /\ count \in Nat /\ count =< MaxInFlight /\ count < size
        /\ next_pop \in 0 .. size - 1
    BY PipeAssumption DEF Shape
  <1>3. (next_pop + 1) % size = IF next_pop + 1 < size THEN next_pop + 1 ELSE 0
    BY <1>2, WrapOnce
  <1>4. \A k \in 1 .. count : SlotOf(next_pop', k, size) = SlotOf(next_pop, k + 1, size)
    BY <1>1, <1>2, <1>3 DEF SlotOf
  <1>5. Shape'
    <2>1. next_insert = SlotOf(next_pop', count' + 1, size)
      <3>1. count \in 1 .. count /\ count' + 1 = count
        BY <1>1, <1>2
      <3>2. QED BY <1>4, <3>1 DEF Shape
    <2>2. next_pop' \in 0 .. size - 1 /\ count' \in 0 .. MaxInFlight /\ count' < size
      BY <1>1, <1>2, <1>3
    <2>3. QED BY <1>1, <2>1, <2>2 DEF Shape
  <1>6. ASSUME NEW k \in 1 .. count - 1
        PROVE  Carried(k)' = Carried(k + 1)
    <2>1. k \in 1 .. count
      BY <1>2
    <2>2. QED BY <1>1, <1>4, <2>1 DEF Carried, Ref
  <1>7. SlotOf(next_pop, 1, size) = next_pop
    BY <1>2 DEF SlotOf
  <1>8. P!HeadPacket = Carried(1).pkt
    BY <1>7 DEF P!HeadPacket, Carried, Ref
  <1>9. SlotOf(next_pop, 2, size) = (next_pop + 1) % size
    BY <1>2, <1>3 DEF SlotOf
  <1>10. record[inflight_v[(next_pop + 1) % size]] = Carried(2)
    BY <1>9 DEF Carried, Ref
  <1>11. QED BY <1>1, <1>5, <1>6, <1>8, <1>10

LEMMA TickShape ==
  ASSUME Shape, P!Tick
  PROVE  /\ Shape' /\ count' = count
         /\ \A k \in 1 .. count :
              /\ Carried(k)'.pkt = Carried(k).pkt
              /\ Carried(k)'.time = IF Carried(k).time = 0 THEN 0 ELSE Carried(k).time - 1
  <1>1. /\ count' = count /\ next_pop' = next_pop /\ next_insert' = next_insert
        /\ size' = size /\ inflight_v' = inflight_v
        /\ record' = [r \in DOMAIN record |->
                        [record[r] EXCEPT !.time = IF @ = 0 THEN 0 ELSE @ - 1]]
    BY DEF P!Tick
  <1>2. DOMAIN record = 0 .. size - 1 /\ \A r \in 0 .. size - 1 : record[r] \in Record
    BY DEF Shape
  <1>3. ASSUME NEW r \in 0 .. size - 1
        PROVE  /\ record'[r] \in Record
               /\ record'[r].pkt = record[r].pkt
               /\ record'[r].time = IF record[r].time = 0 THEN 0 ELSE record[r].time - 1
    <2>1. record'[r] = [record[r] EXCEPT !.time = IF @ = 0 THEN 0 ELSE @ - 1]
      BY <1>1, <1>2
    <2>2. record[r] \in Record
      BY <1>2
    <2>3. QED BY <2>1, <2>2, PipeAssumption DEF Record
  <1>4. record' \in [0 .. size - 1 -> Record]
    BY <1>1, <1>2, <1>3
  <1>5. Shape'
    BY <1>1, <1>4 DEF Shape
  <1>6. ASSUME NEW k \in 1 .. count
        PROVE  /\ Carried(k)'.pkt = Carried(k).pkt
               /\ Carried(k)'.time = IF Carried(k).time = 0 THEN 0 ELSE Carried(k).time - 1
    <2>1. Ref(k) \in 0 .. size - 1 /\ Ref(k)' = Ref(k)
      <3>1. k \in 1 .. count + 1
        BY DEF Shape
      <3>2. QED BY <1>1, <3>1, RefsAreRecords DEF Ref
    <2>2. QED BY <1>3, <2>1 DEF Carried
  <1>7. QED BY <1>1, <1>5, <1>6
------------------------------------------------------------------------------
\* The pipe: what is under way has its route before it, and is woken for.

Carriers == {Carried(k).pkt : k \in 1 .. count}

Held ==
  /\ \A k \in 1 .. count : Carried(k).pkt \in Packet \ spent
  /\ \A k, l \in 1 .. count : Carried(k).pkt = Carried(l).pkt => k = l
  /\ wake = None <=> count = 0
  /\ count > 0 => wake = Carried(1).time
  /\ spent \subseteq Packet

LEMMA SlotIsRemainder ==
  ASSUME Shape, NEW k \in 1 .. count
  PROVE  (next_pop + k - 1) % size = SlotOf(next_pop, k, size)
  <1> DEFINE n == next_pop + k - 1
  <1>1. size \in Nat /\ size >= 2 /\ count \in Nat /\ count < size /\ next_pop \in 0 .. size - 1
    BY PipeAssumption DEF Shape
  <1>2. n \in Nat /\ n < 2 * size
    BY <1>1
  <1>3. n % size = IF n < size THEN n ELSE n - size
    <2> HIDE DEF n
    <2>1. QED BY <1>1, <1>2
  <1>4. SlotOf(next_pop, k, size) = IF n < size THEN n ELSE n - size
    BY <1>1 DEF SlotOf
  <1>5. n % size = SlotOf(next_pop, k, size)
    <2> HIDE DEF n
    <2>1. QED BY <1>3, <1>4
  <1>6. QED BY <1>5

LEMMA CarriersAreInPipe ==
  ASSUME Shape
  PROVE  InPipe = Carriers
  <1>1. ASSUME NEW k \in 1 .. count
        PROVE  P!Line[k].pkt = Carried(k).pkt
    BY SlotIsRemainder DEF P!Line, Carried, Ref
  <1>2. QED BY <1>1 DEF InPipe, Carriers

LEMMA ReceiveHeld ==
  ASSUME Roomy, Shape, Held, NEW p \in Packet, p \notin Carriers, P!ReceivePacket(p)
  PROVE  Shape' /\ Held' /\ Carriers' = Carriers \cup {p}
  <1>1. /\ Shape' /\ count' = count + 1
        /\ \A k \in 1 .. count : Carried(k)' = Carried(k)
        /\ Carried(count)' = [time |-> Delay, pkt |-> p]
    BY ReceiveShape
  <1>2. /\ wake' = IF count = 0 THEN Delay ELSE wake
        /\ spent' = spent \ {p}
    BY DEF P!ReceivePacket
  <1>3. count \in Nat
    BY PipeAssumption DEF Shape
  <1>4. \A k \in 1 .. count' : k \in 1 .. count \/ k = count'
    BY <1>1, <1>3
  <1>5. \A k \in 1 .. count : Carried(k)'.pkt = Carried(k).pkt /\ Carried(k).pkt # p
    BY <1>1 DEF Carriers
  <1>6. ASSUME NEW k \in 1 .. count'
        PROVE  Carried(k)'.pkt = IF k = count' THEN p ELSE Carried(k).pkt
    <2>1. CASE k = count'
      BY <1>1, <2>1
    <2>2. CASE k # count'
      BY <1>4, <1>5, <2>2
    <2>3. QED BY <2>1, <2>2
  <1>7. \A k \in 1 .. count' : Carried(k)'.pkt \in Packet \ spent'
    BY <1>2, <1>4, <1>5, <1>6 DEF Held
  <1>8. \A k, l \in 1 .. count' : Carried(k)'.pkt = Carried(l)'.pkt => k = l
    BY <1>4, <1>5, <1>6 DEF Held
  <1>9. wake' # None /\ count' # 0 /\ wake' = Carried(1)'.time
    <2>1. Delay # None
      BY NoneAssumption, PipeAssumption
    <2>2. CASE count = 0
      BY <1>1, <1>2, <2>1, <2>2
    <2>3. CASE count # 0
      <3>1. 1 \in 1 .. count
        BY <1>3, <2>3
      <3>2. QED BY <1>1, <1>2, <1>3, <2>3, <3>1 DEF Held
    <2>4. QED BY <2>2, <2>3
  <1>10. Held'
    BY <1>2, <1>7, <1>8, <1>9 DEF Held
  <1>11. Carriers' = Carriers \cup {p}
    <2>1. 1 .. count' = (1 .. count) \cup {count'} /\ count' \notin 1 .. count
      BY <1>1, <1>3
    <2>2. Carriers' = {Carried(k)'.pkt : k \in 1 .. count'}
      BY DEF Carriers
    <2>3. QED BY <1>5, <1>6, <2>1, <2>2 DEF Carriers
  <1>12. QED BY <1>1, <1>10, <1>11

LEMMA DeliverHeld ==
  ASSUME Roomy, Shape, Held, P!DoNextEvent
  PROVE  /\ Shape' /\ Held'
         /\ P!HeadPacket \in Carriers /\ P!HeadPacket \notin spent
         /\ P!HeadPacket \in Packet
         /\ Carriers' = Carriers \ {P!HeadPacket}
  <1> DEFINE h == P!HeadPacket
  <1>1. /\ Shape' /\ count' = count - 1
        /\ \A k \in 1 .. count - 1 : Carried(k)' = Carried(k + 1)
        /\ h = Carried(1).pkt
        /\ count > 1 => record[inflight_v[(next_pop + 1) % size]] = Carried(2)
    BY DeliverShape
  <1>2. /\ count > 0
        /\ wake' = IF h \in spent THEN None
                   ELSE P!WakesAgain(count - 1, record[inflight_v[(next_pop + 1) % size]].time)
        /\ spent' = spent \cup {h}
    BY DEF P!DoNextEvent
  <1> HIDE DEF h
  <1>3. count \in Nat /\ 1 \in 1 .. count
    BY <1>2, PipeAssumption DEF Shape
  <1>4. h \in Packet \ spent /\ h \in Carriers
    BY <1>1, <1>3 DEF Held, Carriers
  <1>5. \A k \in 1 .. count' : k + 1 \in 1 .. count /\ Carried(k)'.pkt = Carried(k + 1).pkt
    BY <1>1, <1>3
  <1>6. \A k \in 1 .. count' : Carried(k + 1).pkt # h
    BY <1>1, <1>3, <1>5 DEF Held
  <1>7. \A k \in 1 .. count' : Carried(k)'.pkt \in Packet \ spent'
    BY <1>2, <1>5, <1>6 DEF Held
  <1>8. ASSUME NEW k \in 1 .. count', NEW l \in 1 .. count', Carried(k)'.pkt = Carried(l)'.pkt
        PROVE  k = l
    <2>1. k + 1 = l + 1
      BY <1>5, <1>8 DEF Held
    <2>2. QED BY <1>1, <1>3, <2>1
  <1>9. (wake' = None <=> count' = 0) /\ (count' > 0 => wake' = Carried(1)'.time)
    <2>1. CASE count = 1
      BY <1>1, <1>2, <1>4, <2>1 DEF P!WakesAgain
    <2>2. CASE count > 1
      <3>1. wake' = Carried(2).time /\ Carried(1)' = Carried(2)
        <4>1. wake' = Carried(2).time
          BY <1>1, <1>2, <1>3, <1>4, <2>2 DEF P!WakesAgain
        <4>2. 1 \in 1 .. count - 1 /\ 1 + 1 = 2
          BY <1>3, <2>2
        <4>3. Carried(1)' = Carried(1 + 1)
          BY <1>1, <4>2
        <4>4. QED BY <4>1, <4>2, <4>3
      <3>2. Carried(2) \in Record
        <4>1. 2 \in 1 .. count + 1
          BY <1>3
        <4>2. QED BY <4>1, RefsAreRecords
      <3>3. Carried(2).time # None
        BY <3>2, NoneAssumption, PipeAssumption DEF Record
      <3>4. QED BY <1>1, <1>3, <2>2, <3>1, <3>3
    <2>3. QED BY <1>2, <1>3, <2>1, <2>2
  <1>10. Held'
    BY <1>2, <1>4, <1>7, <1>8, <1>9 DEF Held
  <1>11. Carriers' = Carriers \ {h}
    <2>1. Carriers' = {Carried(k)'.pkt : k \in 1 .. count'}
      BY DEF Carriers
    <2>2. Carriers' \subseteq Carriers \ {h}
      BY <1>5, <1>6, <2>1 DEF Carriers
    <2>3. ASSUME NEW k \in 1 .. count, Carried(k).pkt # h
          PROVE  Carried(k).pkt \in Carriers'
      <3>1. k # 1
        BY <1>1, <2>3
      <3>2. k - 1 \in 1 .. count' /\ (k - 1) + 1 = k
        BY <1>1, <1>3, <3>1
      <3>3. Carried(k - 1)'.pkt = Carried(k).pkt
        BY <1>5, <3>2
      <3>4. QED BY <2>1, <3>2, <3>3
    <2>4. QED BY <2>2, <2>3 DEF Carriers
  <1>12. QED BY <1>1, <1>4, <1>10, <1>11 DEF h

LEMMA TickHeld ==
  ASSUME Shape, Held, P!Tick
  PROVE  Shape' /\ Held' /\ Carriers' = Carriers
  <1>1. /\ Shape' /\ count' = count
        /\ \A k \in 1 .. count :
             /\ Carried(k)'.pkt = Carried(k).pkt
             /\ Carried(k)'.time = IF Carried(k).time = 0 THEN 0 ELSE Carried(k).time - 1
    BY TickShape
  <1>2. /\ wake # 0 /\ wake' = IF wake = None THEN None ELSE wake - 1
        /\ spent' = spent
    BY DEF P!Tick
  <1>3. count \in Nat
    BY PipeAssumption DEF Shape
  <1>4. (wake' = None <=> count' = 0) /\ (count' > 0 => wake' = Carried(1)'.time)
    <2>1. CASE count = 0
      BY <1>1, <1>2, <2>1 DEF Held
    <2>2. CASE count > 0
      <3>1. 1 \in 1 .. count /\ 1 \in 1 .. count + 1
        BY <1>3, <2>2
      <3>2. Carried(1).time \in Nat
        BY <3>1, RefsAreRecords, PipeAssumption DEF Record
      <3>3. wake = Carried(1).time /\ wake # None
        BY <1>3, <2>2 DEF Held
      <3>4. wake' = wake - 1 /\ wake - 1 \in Nat
        BY <1>2, <3>2, <3>3
      <3>5. Carried(1)'.time = wake - 1
        BY <1>1, <1>2, <3>1, <3>3
      <3>6. wake - 1 # None
        BY <3>4, NoneAssumption
      <3>7. QED BY <1>1, <2>2, <1>3, <3>4, <3>5, <3>6
    <2>3. QED BY <1>3, <2>1, <2>2
  <1>5. Held'
    BY <1>1, <1>2, <1>4 DEF Held
  <1>6. Carriers' = Carriers
    BY <1>1 DEF Carriers
  <1>7. QED BY <1>1, <1>5, <1>6
------------------------------------------------------------------------------
\* The queue: each packet stands in it once.

Lined(s) ==
  /\ s \in Seq(Packet)
  /\ \A i, j \in 1 .. Len(s) : s[i] = s[j] => i = j
  /\ IsFiniteSet(ToSet(s)) /\ Cardinality(ToSet(s)) = Len(s)

LEMMA JoinedLine ==
  ASSUME NEW s, Lined(s), NEW p \in Packet, p \notin ToSet(s)
  PROVE  Lined(Append(s, p)) /\ ToSet(Append(s, p)) = ToSet(s) \cup {p}
  <1> DEFINE q == Append(s, p)
             n == Len(s)
  <1>1. /\ s \in Seq(Packet) /\ n \in Nat
        /\ q \in Seq(Packet) /\ Len(q) = n + 1
        /\ \A i \in 1 .. n : q[i] = s[i]
        /\ q[n + 1] = p
    BY AppendProperties DEF Lined
  <1> HIDE DEF q, n
  <1>2. 1 .. n + 1 = (1 .. n) \cup {n + 1}
    BY <1>1
  <1>3. ToSet(s) = {s[i] : i \in 1 .. n} /\ ToSet(q) = {q[i] : i \in 1 .. n + 1}
    BY <1>1 DEF ToSet, n
  <1>4. ToSet(q) = ToSet(s) \cup {p}
    BY <1>1, <1>2, <1>3
  <1>5. \A i, j \in 1 .. n + 1 : q[i] = q[j] => i = j
    <2>1. \A i, j \in 1 .. n : s[i] = s[j] => i = j
      BY DEF Lined, n
    <2>2. \A i \in 1 .. n : q[i] # p
      BY <1>1, <1>3
    <2>3. ASSUME NEW i \in 1 .. n + 1, NEW j \in 1 .. n + 1, q[i] = q[j]
          PROVE  i = j
      <3>1. (i \in 1 .. n \/ i = n + 1) /\ (j \in 1 .. n \/ j = n + 1)
        BY <1>2
      <3>2. QED BY <1>1, <2>1, <2>2, <2>3, <3>1
    <2>4. QED BY <2>3
  <1>6. IsFiniteSet(ToSet(q)) /\ Cardinality(ToSet(q)) = n + 1
    <2>1. IsFiniteSet(ToSet(s)) /\ Cardinality(ToSet(s)) = n
      BY DEF Lined, n
    <2>2. /\ IsFiniteSet(ToSet(s) \cup {p})
          /\ Cardinality(ToSet(s) \cup {p}) = Cardinality(ToSet(s)) + 1
      BY <2>1, FS_AddElement
    <2>3. QED BY <1>4, <2>1, <2>2
  <1>7. QED BY <1>1, <1>4, <1>5, <1>6 DEF Lined, q

LEMMA ShortenedLine ==
  ASSUME NEW s, Lined(s), s # << >>
  PROVE  /\ Lined(Tail(s)) /\ ToSet(Tail(s)) = ToSet(s) \ {Head(s)}
         /\ Head(s) \in ToSet(s) /\ Head(s) \in Packet
  <1> DEFINE q == Tail(s)
             h == Head(s)
             n == Len(s)
  <1>1. /\ s \in Seq(Packet) /\ n \in Nat /\ n > 0
        /\ q \in Seq(Packet) /\ Len(q) = n - 1
        /\ \A i \in 1 .. n - 1 : q[i] = s[i + 1]
        /\ h = s[1] /\ h \in Packet
    <2>1. s \in Seq(Packet)
      BY DEF Lined
    <2>2. h \in Packet /\ q \in Seq(Packet) /\ Len(q) = n - 1
      BY <2>1, HeadTailProperties
    <2>3. \A i \in 1 .. Len(q) : q[i] = s[i + 1]
      BY <2>1, HeadTailProperties
    <2>4. n \in Nat /\ n > 0 /\ h = s[1]
      BY <2>1
    <2> HIDE DEF q, h, n
    <2>5. QED BY <2>1, <2>2, <2>3, <2>4
  <1> HIDE DEF q, h, n
  <1>2. ToSet(s) = {s[i] : i \in 1 .. n} /\ ToSet(q) = {q[i] : i \in 1 .. n - 1}
    <2>1. DOMAIN s = 1 .. n /\ DOMAIN q = 1 .. n - 1
      <3>1. DOMAIN s = 1 .. Len(s) /\ DOMAIN q = 1 .. Len(q)
        BY <1>1
      <3>2. QED BY <1>1, <3>1 DEF n
    <2>2. QED BY <2>1 DEF ToSet
  <1>3. \A i, j \in 1 .. n : s[i] = s[j] => i = j
    BY DEF Lined, n
  <1>4. \A i, j \in 1 .. n - 1 : q[i] = q[j] => i = j
    <2>1. ASSUME NEW i \in 1 .. n - 1, NEW j \in 1 .. n - 1, q[i] = q[j]
          PROVE  i = j
      <3>1. i + 1 \in 1 .. n /\ j + 1 \in 1 .. n
        BY <1>1
      <3>2. i + 1 = j + 1
        BY <1>1, <1>3, <2>1, <3>1
      <3>3. QED BY <3>2
    <2>2. QED BY <2>1
  <1>5. ToSet(q) \subseteq ToSet(s) \ {h}
    <2>1. ASSUME NEW i \in 1 .. n - 1
          PROVE  q[i] \in ToSet(s) \ {h}
      <3>1. i + 1 \in 1 .. n /\ 1 \in 1 .. n /\ i + 1 # 1
        BY <1>1
      <3>2. QED BY <1>1, <1>2, <1>3, <3>1
    <2>2. QED BY <1>2, <2>1
  <1>6. ToSet(s) \ {h} \subseteq ToSet(q)
    <2>1. ASSUME NEW i \in 1 .. n, s[i] # h
          PROVE  s[i] \in ToSet(q)
      <3>1. i - 1 \in 1 .. n - 1 /\ (i - 1) + 1 = i
        BY <1>1, <2>1
      <3>2. q[i - 1] = s[i]
        BY <1>1, <3>1
      <3>3. QED BY <1>2, <3>1, <3>2
    <2>2. QED BY <1>2, <2>1
  <1>7. ToSet(q) = ToSet(s) \ {h} /\ h \in ToSet(s)
    <2>1. 1 \in 1 .. n
      BY <1>1
    <2>2. QED BY <1>1, <1>2, <1>5, <1>6, <2>1
  <1>8. IsFiniteSet(ToSet(q)) /\ Cardinality(ToSet(q)) = n - 1
    BY <1>7, FS_RemoveElement DEF Lined, n
  <1>9. QED BY <1>1, <1>4, <1>7, <1>8 DEF Lined, q, h

Queued ==
  /\ Lined(enqueued)
  /\ service \in Nat \cup {None}
  /\ BusyWhenFilled

LEMMA EnqueueQueued ==
  ASSUME Queued, NEW p \in Packet, p \notin ToSet(enqueued), Q!Enqueue(p)
  PROVE  Queued' /\ ToSet(enqueued)' = ToSet(enqueued) \cup {p}
  <1>1. /\ enqueued' = Append(enqueued, p)
        /\ service' = IF enqueued = << >> THEN Drain[p] ELSE service
    BY DEF Q!Enqueue, Q!ServiceWith
  <1>2. Lined(enqueued') /\ ToSet(enqueued') = ToSet(enqueued) \cup {p}
    BY <1>1, JoinedLine DEF Queued
  <1>3. enqueued' # << >>
    BY <1>1, AppendProperties DEF Queued, Lined
  <1>4. service' \in Nat /\ service' # None
    BY <1>1, QueueAssumption, NoneAssumption DEF Queued, BusyWhenFilled, Q!BusyWhenFilled
  <1>5. QED BY <1>2, <1>3, <1>4 DEF Queued, BusyWhenFilled, Q!BusyWhenFilled

LEMMA CompleteQueued ==
  ASSUME Queued, Q!CompleteService
  PROVE  /\ Queued' /\ ToSet(enqueued)' = ToSet(enqueued) \ {Head(enqueued)}
         /\ Head(enqueued) \in ToSet(enqueued) /\ Head(enqueued) \in Packet
  <1>1. /\ enqueued # << >> /\ enqueued' = Tail(enqueued)
        /\ service' = IF enqueued' = << >> THEN None ELSE Drain[Head(enqueued')]
    BY DEF Q!CompleteService, Q!NextService
  <1>2. /\ Lined(enqueued') /\ ToSet(enqueued') = ToSet(enqueued) \ {Head(enqueued)}
        /\ Head(enqueued) \in ToSet(enqueued) /\ Head(enqueued) \in Packet
    BY <1>1, ShortenedLine DEF Queued
  <1>3. enqueued' # << >> => Drain[Head(enqueued')] \in Nat
    BY <1>2, HeadTailProperties, QueueAssumption DEF Lined
  <1>4. service' \in Nat \cup {None} /\ (service' = None <=> enqueued' = << >>)
    BY <1>1, <1>3, NoneAssumption
  <1>5. QED BY <1>2, <1>4 DEF Queued, BusyWhenFilled, Q!BusyWhenFilled

LEMMA TickQueued ==
  ASSUME Queued, Q!Tick
  PROVE  Queued' /\ enqueued' = enqueued
  <1>1. /\ service # 0 /\ enqueued' = enqueued
        /\ service' = IF service = None THEN None ELSE service - 1
    BY DEF Q!Tick
  <1>2. service' \in Nat \cup {None} /\ (service' = None <=> service = None)
    BY <1>1, NoneAssumption DEF Queued
  <1>3. QED BY <1>1, <1>2 DEF Queued, BusyWhenFilled, Q!BusyWhenFilled
------------------------------------------------------------------------------
\* The bytes a queue counts are the bytes it holds, whatever the pipe does.

LEMMA SumOfSequence ==
  ASSUME NEW s
  PROVE  /\ FoldSeq(+, 0, s) = Total(s, DOMAIN s)
         /\ Q!FoldSeq(+, 0, s) = Total(s, DOMAIN s)
  <1>1. FoldSeq(+, 0, s) = Total(s, DOMAIN s)
    BY DEF FoldSeq, FoldFunction, Total
  <1>2. Q!FoldSeq(+, 0, s) = Total(s, DOMAIN s)
    BY DEF Q!FoldSeq, Q!FoldFunction, Q!FoldFunctionOnSet, Q!MapThenFoldSet,
           Total, FoldFunctionOnSet, MapThenFoldSet
  <1>3. QED BY <1>1, <1>2

SizesOf(s) == [i \in DOMAIN s |-> Size[s[i]]]
Bytes(s) == Total(SizesOf(s), DOMAIN s)

Counted ==
  /\ enqueued \in Seq(Packet)
  /\ queuesize = Bytes(enqueued) /\ queuesize =< MaxSize
  /\ service \in Nat \cup {None} /\ BusyWhenFilled

LEMMA CountedIsBytesCounted == Counted => BytesCounted
  <1>1. DOMAIN SizesOf(enqueued) = DOMAIN enqueued
    BY DEF SizesOf
  <1>2. Q!FoldSeq(+, 0, SizesOf(enqueued)) = Bytes(enqueued)
    BY <1>1, SumOfSequence DEF Bytes
  <1>3. QED BY <1>2 DEF Counted, BytesCounted, Q!BytesCounted, SizesOf

LEMMA BytesAreNatural ==
  ASSUME NEW s \in Seq(Packet)
  PROVE  /\ Bytes(s) \in Nat
         /\ DOMAIN s = 1 .. Len(s) /\ Len(s) \in Nat
         /\ \A i \in 1 .. Len(s) : SizesOf(s)[i] = Size[s[i]] /\ SizesOf(s)[i] \in Nat
  <1>1. DOMAIN s = 1 .. Len(s) /\ Len(s) \in Nat
    OBVIOUS
  <1>2. \A i \in 1 .. Len(s) : SizesOf(s)[i] = Size[s[i]] /\ SizesOf(s)[i] \in Nat
    BY <1>1, QueueAssumption DEF SizesOf
  <1>3. IsFiniteSet(1 .. Len(s))
    BY <1>1, FS_Interval
  <1>4. Total(SizesOf(s), 1 .. Len(s)) \in Nat
    BY <1>2, <1>3, TotalIsNatural
  <1>5. QED BY <1>1, <1>2, <1>4 DEF Bytes

LEMMA BytesJoined ==
  ASSUME NEW s \in Seq(Packet), NEW p \in Packet
  PROVE  Append(s, p) \in Seq(Packet) /\ Bytes(Append(s, p)) = Bytes(s) + Size[p]
  <1> DEFINE q == Append(s, p)
             n == Len(s)
             k == Len(q)
  <1>1. /\ q \in Seq(Packet) /\ n \in Nat /\ k \in Nat /\ k = n + 1
        /\ \A i \in 1 .. n : q[i] = s[i]
        /\ q[k] = p
    BY AppendProperties
  <1> HIDE DEF q
  <1>2. /\ DOMAIN s = 1 .. n /\ DOMAIN q = 1 .. k
        /\ \A i \in 1 .. n : SizesOf(s)[i] = Size[s[i]] /\ SizesOf(s)[i] \in Nat
        /\ \A i \in 1 .. k : SizesOf(q)[i] = Size[q[i]] /\ SizesOf(q)[i] \in Nat
    BY <1>1, BytesAreNatural
  <1> HIDE DEF n, k
  <1>3. SizesOf(q)[k] = Size[p]
    BY <1>1, <1>2
  <1>4. JoinedLast(SizesOf(q), k, SizesOf(s), n)
    BY <1>1, <1>2 DEF JoinedLast
  <1>5. Total(SizesOf(q), 1 .. k) = Total(SizesOf(s), 1 .. n) + SizesOf(q)[k]
    BY <1>1, <1>4, TotalJoinedLast
  <1>6. QED BY <1>1, <1>2, <1>3, <1>5 DEF Bytes, q

LEMMA BytesShortened ==
  ASSUME NEW s \in Seq(Packet), s # << >>
  PROVE  /\ Tail(s) \in Seq(Packet) /\ Head(s) \in Packet
         /\ Bytes(s) = Size[Head(s)] + Bytes(Tail(s))
  <1> DEFINE q == Tail(s)
             n == Len(q)
             k == Len(s)
  <1>1. /\ q \in Seq(Packet) /\ Head(s) \in Packet
        /\ \A i \in 1 .. n : q[i] = s[i + 1]
    BY HeadTailProperties
  <1>2. n \in Nat /\ k \in Nat /\ k = n + 1 /\ Head(s) = s[1]
    BY HeadTailProperties
  <1> HIDE DEF q
  <1>3. /\ DOMAIN s = 1 .. k /\ DOMAIN q = 1 .. n
        /\ \A i \in 1 .. k : SizesOf(s)[i] = Size[s[i]] /\ SizesOf(s)[i] \in Nat
        /\ \A i \in 1 .. n : SizesOf(q)[i] = Size[q[i]] /\ SizesOf(q)[i] \in Nat
    BY <1>1, BytesAreNatural
  <1> HIDE DEF n, k
  <1>4. SizesOf(s)[1] = Size[Head(s)]
    BY <1>2, <1>3
  <1>5. \A i \in 1 .. n : SizesOf(s)[i + 1] = SizesOf(q)[i]
    <2>1. ASSUME NEW i \in 1 .. n
          PROVE  SizesOf(s)[i + 1] = SizesOf(q)[i]
      <3>1. i + 1 \in 1 .. k
        BY <1>2
      <3>2. QED BY <1>1, <1>3, <3>1
    <2>2. QED BY <2>1
  <1>6. JoinedFirst(SizesOf(s), k, SizesOf(q), n)
    BY <1>2, <1>3, <1>5 DEF JoinedFirst
  <1>7. Total(SizesOf(s), 1 .. k) = SizesOf(s)[1] + Total(SizesOf(q), 1 .. n)
    BY <1>2, <1>6, TotalJoinedFirst
  <1>8. QED BY <1>1, <1>3, <1>4, <1>7 DEF Bytes, q

LEMMA InitCounted == Init => Counted
  <1>1. << >> \in Seq(Packet) /\ DOMAIN << >> = {}
    OBVIOUS
  <1>2. Bytes(<< >>) = 0
    BY <1>1, TotalOfNone DEF Bytes
  <1>3. QED BY <1>1, <1>2, QueueAssumption
            DEF Init, Q!Init, Counted, BusyWhenFilled, Q!BusyWhenFilled

LEMMA StepCounted == Counted /\ [Next]_vars => Counted'
  <1> SUFFICES ASSUME Counted, [Next]_vars
               PROVE  Counted'
    OBVIOUS
  <1>1. /\ enqueued \in Seq(Packet) /\ queuesize = Bytes(enqueued) /\ queuesize =< MaxSize
        /\ service \in Nat \cup {None} /\ (service = None <=> enqueued = << >>)
    BY DEF Counted, BusyWhenFilled, Q!BusyWhenFilled
  <1>2. CASE UNCHANGED <<enqueued, queuesize, service>>
    BY <1>2 DEF Counted, BusyWhenFilled, Q!BusyWhenFilled
  <1>3. ASSUME NEW p \in Packet, Accept(p)
        PROVE  Counted'
    <2>1. /\ enqueued' = Append(enqueued, p)
          /\ queuesize' = queuesize + Size[p] /\ queuesize + Size[p] =< MaxSize
          /\ service' = IF enqueued = << >> THEN Drain[p] ELSE service
      BY <1>3 DEF Accept, Q!Enqueue, Q!Fits, Q!BytesWith, Q!ServiceWith
    <2>2. enqueued' \in Seq(Packet) /\ queuesize' = Bytes(enqueued') /\ queuesize' =< MaxSize
      BY <1>1, <2>1, BytesJoined
    <2>3. enqueued' # << >>
      BY <1>1, <2>1, AppendProperties
    <2>4. service' \in Nat /\ service' # None
      BY <1>1, <2>1, QueueAssumption, NoneAssumption
    <2>5. QED BY <2>2, <2>3, <2>4 DEF Counted, BusyWhenFilled, Q!BusyWhenFilled
  <1>4. ASSUME Transmit
        PROVE  Counted'
    <2>1. /\ enqueued # << >> /\ enqueued' = Tail(enqueued)
          /\ queuesize' = queuesize - Size[Head(enqueued)]
          /\ service' = IF enqueued' = << >> THEN None ELSE Drain[Head(enqueued')]
      BY <1>4 DEF Transmit, Q!CompleteService, Q!NextService
    <2>2. /\ enqueued' \in Seq(Packet) /\ Head(enqueued) \in Packet
          /\ queuesize = Size[Head(enqueued)] + Bytes(enqueued')
      BY <1>1, <2>1, BytesShortened
    <2>3. Bytes(enqueued') \in Nat /\ Size[Head(enqueued)] \in Nat /\ MaxSize \in Nat
      BY <2>2, BytesAreNatural, QueueAssumption
    <2>4. queuesize' = Bytes(enqueued') /\ queuesize' =< MaxSize
      BY <1>1, <2>1, <2>2, <2>3
    <2>5. enqueued' # << >> => Drain[Head(enqueued')] \in Nat
      BY <2>2, HeadTailProperties, QueueAssumption
    <2>6. service' \in Nat \cup {None} /\ (service' = None <=> enqueued' = << >>)
      BY <2>1, <2>5, NoneAssumption
    <2>7. QED BY <2>2, <2>4, <2>6 DEF Counted, BusyWhenFilled, Q!BusyWhenFilled
  <1>5. ASSUME NEW p \in Packet, Refuse(p)
        PROVE  Counted'
    BY <1>2, <1>5 DEF Refuse, Q!Drop, Q!qvars
  <1>6. ASSUME Tick
        PROVE  Counted'
    <2>1. /\ service # 0 /\ UNCHANGED <<enqueued, queuesize>>
          /\ service' = IF service = None THEN None ELSE service - 1
      BY <1>6 DEF Tick, Q!Tick
    <2>2. service' \in Nat \cup {None} /\ (service' = None <=> service = None)
      BY <1>1, <2>1, NoneAssumption
    <2>3. QED BY <1>1, <2>1, <2>2 DEF Counted, BusyWhenFilled, Q!BusyWhenFilled
  <1>7. ASSUME Deliver \/ UNCHANGED vars
        PROVE  Counted'
    BY <1>2, <1>7 DEF Deliver, vars, qvars
  <1>8. QED BY <1>3, <1>4, <1>5, <1>6, <1>7 DEF Next

LEMMA CountedAlways == Spec => []Counted
  BY InitCounted, StepCounted, PTL DEF Spec

(***************************************************************************)
(* _queuesize is the sum of the sizes of what is queued and never exceeds  *)
(* what fits, whatever is sent, dropped and delivered.                     *)
(***************************************************************************)
THEOREM BytesAreCounted == Spec => []BytesCounted
  BY CountedAlways, CountedIsBytesCounted, PTL

(***************************************************************************)
(* The queue's event is scheduled just when something is queued, whatever  *)
(* the pipe does with what it is sent: base_queue.py:395 and 415 hold.     *)
(***************************************************************************)
THEOREM QueueStaysAwake == Spec => []BusyWhenFilled
  <1>1. Counted => BusyWhenFilled
    BY DEF Counted
  <1>2. QED BY <1>1, CountedAlways, PTL
------------------------------------------------------------------------------
\* Queue, pipe and free list share the packets between them.

Shared ==
  /\ free \cap ToSet(enqueued) = {} /\ free \cap Carriers = {}
  /\ ToSet(enqueued) \cap Carriers = {}
  /\ free \cup ToSet(enqueued) \cup Carriers = Packet

\* The inductive invariant.
Inv == Shape /\ Held /\ Queued /\ Shared

LEMMA InitInv ==
  ASSUME Init
  PROVE  Inv
  <1>1. free = Packet /\ enqueued = << >> /\ service = None
    BY DEF Init, Q!Init
  <1>2. /\ count = 0 /\ next_insert = 0 /\ next_pop = 0 /\ size = StartSize
        /\ inflight_v = [i \in 0 .. StartSize - 1 |-> i]
        /\ record = [i \in 0 .. StartSize - 1 |-> [time |-> 0, pkt |-> None]]
        /\ wake = None /\ spent = {}
    BY DEF Init, P!Init
  <1>3. Shape
    <2>1. next_insert = SlotOf(next_pop, count + 1, size)
      BY <1>2, PipeAssumption DEF SlotOf
    <2>2. SharedAcross(inflight_v, size)
      BY <1>2 DEF SharedAcross
    <2>3. [time |-> 0, pkt |-> None] \in Record
      BY PipeAssumption DEF Record
    <2>4. QED BY <1>2, <2>1, <2>2, <2>3, PipeAssumption DEF Shape
  <1>4. 1 .. count = {}
    BY <1>2
  <1>5. Held /\ Carriers = {}
    BY <1>2, <1>4 DEF Held, Carriers
  <1>6. Queued /\ ToSet(enqueued) = {}
    <2>1. << >> \in Seq(Packet) /\ Len(<< >>) = 0 /\ 1 .. 0 = {}
      OBVIOUS
    <2>2. ToSet(<< >>) = {}
      BY DEF ToSet
    <2>3. Lined(<< >>)
      BY <2>1, <2>2, FS_EmptySet DEF Lined
    <2>4. QED BY <1>1, <2>2, <2>3 DEF Queued, BusyWhenFilled, Q!BusyWhenFilled
  <1>7. Shared
    BY <1>1, <1>5, <1>6 DEF Shared
  <1>8. QED BY <1>3, <1>5, <1>6, <1>7 DEF Inv

LEMMA StepInv ==
  ASSUME Roomy, Inv, [Next]_vars
  PROVE  Inv'
  <1> USE DEF Inv
  <1>1. ASSUME NEW p \in Packet, Accept(p)
        PROVE  Inv'
    <2>1. p \in free /\ Q!Enqueue(p) /\ free' = free \ {p} /\ UNCHANGED pvars
      BY <1>1 DEF Accept
    <2>2. Queued' /\ ToSet(enqueued)' = ToSet(enqueued) \cup {p}
      BY <2>1, EnqueueQueued DEF Shared
    <2>3. Shape' /\ Held' /\ Carriers' = Carriers
      BY <2>1 DEF pvars, Shape, Held, Carriers, Carried, Ref
    <2>4. QED BY <2>1, <2>2, <2>3 DEF Shared
  <1>2. ASSUME NEW p \in Packet, Refuse(p)
        PROVE  Inv'
    <2>1. UNCHANGED <<free, enqueued, queuesize, service>> /\ UNCHANGED pvars
      BY <1>2 DEF Refuse, FreesDropped, Q!Drop, Q!qvars
    <2>2. QED BY <2>1 DEF pvars, Shape, Held, Carriers, Carried, Ref, Queued, BusyWhenFilled,
                          Q!BusyWhenFilled, Shared
  <1>3. ASSUME Transmit
        PROVE  Inv'
    <2> DEFINE p == Head(enqueued)
    <2>1. Q!CompleteService /\ P!ReceivePacket(p) /\ free' = free
      BY <1>3 DEF Transmit
    <2>2. /\ Queued' /\ ToSet(enqueued)' = ToSet(enqueued) \ {p}
          /\ p \in ToSet(enqueued) /\ p \in Packet
      BY <2>1, CompleteQueued
    <2> HIDE DEF p
    <2>3. Shape' /\ Held' /\ Carriers' = Carriers \cup {p}
      BY <2>1, <2>2, ReceiveHeld DEF Shared
    <2>4. QED BY <2>1, <2>2, <2>3 DEF Shared
  <1>4. ASSUME Deliver
        PROVE  Inv'
    <2> DEFINE p == P!HeadPacket
    <2>1. /\ P!DoNextEvent /\ UNCHANGED <<enqueued, queuesize, service>>
          /\ free' = IF p \in spent THEN free ELSE free \cup {p}
      BY <1>4 DEF Deliver, qvars
    <2>2. /\ Shape' /\ Held' /\ p \in Carriers /\ p \notin spent /\ p \in Packet
          /\ Carriers' = Carriers \ {p}
      BY <2>1, DeliverHeld
    <2> HIDE DEF p
    <2>3. Queued' /\ ToSet(enqueued)' = ToSet(enqueued)
      BY <2>1 DEF Queued, BusyWhenFilled, Q!BusyWhenFilled
    <2>4. QED BY <2>1, <2>2, <2>3 DEF Shared
  <1>5. ASSUME Tick
        PROVE  Inv'
    <2>1. Q!Tick /\ P!Tick /\ free' = free
      BY <1>5 DEF Tick
    <2>2. QED BY <2>1, TickQueued, TickHeld DEF Shared
  <1>6. ASSUME UNCHANGED vars
        PROVE  Inv'
    BY <1>6 DEF vars, qvars, pvars, Shape, Held, Carriers, Carried, Ref, Queued,
                BusyWhenFilled, Q!BusyWhenFilled, Shared
  <1>7. QED BY <1>1, <1>2, <1>3, <1>4, <1>5, <1>6 DEF Next

LEMMA InvHolds ==
  ASSUME Roomy
  PROVE  Spec => []Inv
  <1>1. Init => Inv
    BY InitInv
  <1>2. Inv /\ [Next]_vars => Inv'
    BY StepInv
  <1>3. QED BY <1>1, <1>2, PTL DEF Spec

(***************************************************************************)
(* A packet object is free, queued or in the pipe, and in one of them      *)
(* only, when the pipe never holds more packets than its ring began with.  *)
(***************************************************************************)
THEOREM PacketsInOnePlace ==
  ASSUME Roomy
  PROVE  Spec => []OnePlace
  <1>1. Inv => OnePlace
    BY CarriersAreInPipe DEF Inv, Shared, Queued, Lined, OnePlace
  <1>2. QED BY <1>1, InvHolds, PTL

(***************************************************************************)
(* The pipe is woken just when it holds something, and for the packet at   *)
(* its head, when it never holds more than that.                           *)
(***************************************************************************)
THEOREM PipeStaysAwake ==
  ASSUME Roomy
  PROVE  Spec => []WokenForHead
  <1>1. ASSUME Inv
        PROVE  WokenForHead
    <2>1. size \in Nat /\ next_pop \in 0 .. size - 1
      BY <1>1, PipeAssumption DEF Inv, Shape
    <2>2. Carried(1) = record[inflight_v[next_pop]]
      BY <2>1 DEF Carried, Ref, SlotOf
    <2>3. QED BY <1>1, <2>2 DEF Inv, Held, WokenForHead, P!WokenForHead
  <1>2. QED BY <1>1, InvHolds, PTL

(***************************************************************************)
(* Type correctness, under the same condition: the ring grows once at most *)
(* and its indices stay inside it.                                         *)
(***************************************************************************)
THEOREM LinkTypeCorrect ==
  ASSUME Roomy
  PROVE  Spec => []TypeOK
  <1>1. ASSUME Inv, Counted
        PROVE  TypeOK
    <2>1. free \subseteq Packet
      BY <1>1 DEF Inv, Shared
    <2>2. Q!TypeOK
      <3>1. Bytes(enqueued) \in Nat
        BY <1>1, BytesAreNatural DEF Counted
      <3>2. QED BY <1>1, <3>1 DEF Counted, Q!TypeOK
    <2>3. P!TypeOK
      <3>1. /\ StartSize \in Nat /\ size \in Nat /\ count \in Nat /\ count < size
            /\ next_pop \in 0 .. size - 1
        BY <1>1, PipeAssumption DEF Inv, Shape
      <3>2. next_insert \in 0 .. size - 1
        <4>1. count + 1 \in 1 .. size
          BY <3>1
        <4>2. SlotOf(next_pop, count + 1, size) \in 0 .. size - 1
          BY <3>1, <4>1, SlotIsInRing
        <4>3. QED BY <1>1, <4>2 DEF Inv, Shape
      <3>3. wake \in 0 .. Delay \cup {None}
        <4>1. CASE count = 0
          BY <1>1, <4>1 DEF Inv, Held
        <4>2. CASE count > 0
          <5>1. 1 \in 1 .. count + 1 /\ Shape
            BY <1>1, <3>1 DEF Inv
          <5>2. Carried(1) \in Record
            BY <5>1, RefsAreRecords
          <5>3. wake = Carried(1).time
            BY <1>1, <4>2 DEF Inv, Held
          <5>4. QED BY <5>2, <5>3 DEF Record
        <4>3. QED BY <3>1, <4>1, <4>2
      <3>4. size \in {StartSize, 2 * StartSize, 4 * StartSize} /\ count \in 0 .. size
        BY <1>1, <3>1 DEF Inv, Shape
      <3>5. /\ inflight_v \in [0 .. size - 1 -> 0 .. size - 1]
            /\ record \in [0 .. size - 1 -> [time : 0 .. Delay, pkt : Packet \cup {None}]]
            /\ spent \subseteq Packet
        BY <1>1 DEF Inv, Shape, Held, Record
      <3>6. QED BY <3>1, <3>2, <3>3, <3>4, <3>5 DEF P!TypeOK
    <2>4. QED BY <2>1, <2>2, <2>3 DEF TypeOK
  <1>2. QED BY <1>1, InvHolds, CountedAlways, PTL
------------------------------------------------------------------------------
\* Packets leave the pipe in the order they came, so none is due before the first.

Ordered ==
  \A k, l \in 1 .. count : k =< l => Carried(k).time =< Carried(l).time

DueAt(k) == [pkt |-> Carried(k).pkt, left |-> Carried(k).time]

Due == [pkt : Packet \cup {None}, left : 0 .. Delay]

LineSeen ==
  /\ P!Line \in Seq(Due) /\ Len(P!Line) = count /\ count \in Nat
  /\ \A k \in 1 .. count : P!Line[k] = DueAt(k) /\ DueAt(k) \in Due /\ Carried(k) \in Record

LEMMA LineIsCarried ==
  ASSUME Shape
  PROVE  LineSeen
  <1>1. size \in Nat /\ size >= 2 /\ count \in Nat /\ count < size /\ next_pop \in 0 .. size - 1
    BY PipeAssumption DEF Shape
  <1>2. ASSUME NEW k \in 1 .. count
        PROVE  record[inflight_v[(next_pop + k - 1) % size]] = Carried(k)
    BY <1>1, SlotIsRemainder DEF Carried, Ref
  <1>3. P!Line = [k \in 1 .. count |-> DueAt(k)]
    BY <1>2 DEF P!Line, DueAt
  <1>4. \A k \in 1 .. count : DueAt(k) \in Due /\ Carried(k) \in Record
    <2>1. ASSUME NEW k \in 1 .. count
          PROVE  DueAt(k) \in Due /\ Carried(k) \in Record
      <3>1. Carried(k) \in Record
        <4>1. k \in 1 .. count + 1
          BY <1>1
        <4>2. QED BY <4>1, RefsAreRecords
      <3>2. QED BY <3>1 DEF Record, DueAt, Due
    <2>2. QED BY <2>1
  <1>5. QED BY <1>1, <1>3, <1>4 DEF LineSeen

LEMMA ReceiveEnters ==
  ASSUME Roomy, Shape, Ordered, NEW p \in Packet, P!ReceivePacket(p)
  PROVE  Ordered' /\ P!D!Enter(p)
  <1> DEFINE L == P!Line
             e == [pkt |-> p, left |-> Delay]
  <1>1. /\ Shape' /\ count' = count + 1
        /\ \A k \in 1 .. count : Carried(k)' = Carried(k)
        /\ Carried(count)' = [time |-> Delay, pkt |-> p]
    BY ReceiveShape
  <1>2. LineSeen
    BY LineIsCarried
  <1>3. LineSeen'
    <2>1. (Shape => LineSeen)'
      BY LineIsCarried, PTL
    <2>2. QED BY <1>1, <2>1
  <1>4. Delay \in Nat
    BY PipeAssumption
  <1>5. \A k \in 1 .. count' : k \in 1 .. count \/ k = count'
    BY <1>1, <1>2 DEF LineSeen
  <1>6. \A k \in 1 .. count : Carried(k).time \in 0 .. Delay
    BY <1>2 DEF LineSeen, Record
  <1>7. Ordered'
    <2>1. ASSUME NEW k \in 1 .. count', NEW l \in 1 .. count', k =< l
          PROVE  Carried(k)'.time =< Carried(l)'.time
      <3>1. CASE l = count'
        BY <1>1, <1>4, <1>5, <1>6, <3>1
      <3>2. CASE l # count'
        <4>1. l \in 1 .. count /\ k \in 1 .. count
          BY <1>1, <1>2, <1>5, <2>1, <3>2 DEF LineSeen
        <4>2. QED BY <1>1, <2>1, <4>1 DEF Ordered
      <3>3. QED BY <3>1, <3>2
    <2>2. QED BY <2>1 DEF Ordered
  <1>8. P!D!Backlog = 0
    <2>1. CASE L = << >>
      BY <2>1 DEF P!D!Backlog
    <2>2. CASE L # << >>
      <3>1. count \in 1 .. count
        BY <1>2, <2>2 DEF LineSeen
      <3>2. P!D!Last(L) = DueAt(count)
        BY <1>2, <3>1 DEF P!D!Last, LineSeen
      <3>3. P!D!Last(L).left \in 0 .. Delay
        BY <1>6, <3>1, <3>2 DEF DueAt
      <3> HIDE DEF L
      <3>4. (IF L = << >> \/ P!D!Last(L).left < Delay THEN 0
             ELSE P!D!Last(L).left - Delay) = 0
        BY <1>4, <3>3
      <3>5. QED BY <3>4 DEF P!D!Backlog, L
    <2>3. QED BY <2>1, <2>2
  <1>9. P!D!Backlog + [q \in Packet |-> 0][p] + Delay = Delay
    BY <1>4, <1>8
  <1>10. L' = Append(L, e)
    <2>1. e \in Due
      BY <1>4 DEF Due
    <2> HIDE DEF e
    <2>2. /\ Append(L, e) \in Seq(Due) /\ Len(Append(L, e)) = count + 1
          /\ \A k \in 1 .. count : Append(L, e)[k] = DueAt(k)
          /\ Append(L, e)[count + 1] = e
      BY <1>2, <2>1, AppendProperties DEF LineSeen
    <2>3. L' \in Seq(Due) /\ Len(L') = count' /\ \A k \in 1 .. count' : L'[k] = DueAt(k)'
      BY <1>3 DEF LineSeen
    <2>4. \A k \in 1 .. count : DueAt(k)' = DueAt(k)
      BY <1>1 DEF DueAt
    <2>5. DueAt(count)' = e
      BY <1>1 DEF DueAt, e
    <2>6. ASSUME NEW k \in 1 .. count'
          PROVE  L'[k] = Append(L, e)[k]
      <3>1. CASE k \in 1 .. count
        BY <2>2, <2>3, <2>4, <3>1
      <3>2. CASE k = count'
        BY <1>1, <2>2, <2>3, <2>5, <3>2
      <3>3. QED BY <1>5, <3>1, <3>2
    <2>7. QED BY <1>1, <2>2, <2>3, <2>6, SeqEqual
  <1>11. P!D!Enter(p)
    BY <1>9, <1>10 DEF P!D!Enter
  <1>12. QED BY <1>7, <1>11

LEMMA DeliverLeaves ==
  ASSUME Roomy, Shape, Held, Ordered, P!DoNextEvent
  PROVE  Ordered' /\ P!D!Leave
  <1> DEFINE L == P!Line
  <1>1. /\ Shape' /\ count' = count - 1
        /\ \A k \in 1 .. count - 1 : Carried(k)' = Carried(k + 1)
    BY DeliverShape
  <1>2. LineSeen
    BY LineIsCarried
  <1>3. LineSeen'
    <2>1. (Shape => LineSeen)'
      BY LineIsCarried, PTL
    <2>2. QED BY <1>1, <2>1
  <1>4. wake = 0 /\ count > 0 /\ count \in Nat /\ 1 \in 1 .. count
    BY <1>2 DEF P!DoNextEvent, LineSeen
  <1>5. \A k \in 1 .. count' : k + 1 \in 1 .. count /\ Carried(k)' = Carried(k + 1)
    BY <1>1, <1>4
  <1>6. Ordered'
    <2>1. ASSUME NEW k \in 1 .. count', NEW l \in 1 .. count', k =< l
          PROVE  Carried(k)'.time =< Carried(l)'.time
      <3>1. k + 1 =< l + 1
        BY <1>1, <1>4, <2>1
      <3>2. QED BY <1>5, <3>1 DEF Ordered
    <2>2. QED BY <2>1 DEF Ordered
  <1>7. /\ L # << >> /\ Head(L).left = 0
        /\ Tail(L) \in Seq(Due) /\ Len(Tail(L)) = count - 1
        /\ \A k \in 1 .. count - 1 : Tail(L)[k] = L[k + 1]
    <2>1. L \in Seq(Due) /\ L # << >> /\ Len(L) = count
      BY <1>2, <1>4 DEF LineSeen
    <2>2. Head(L) = DueAt(1)
      BY <1>2, <1>4, <2>1 DEF LineSeen
    <2>3. Carried(1).time = 0
      BY <1>4 DEF Held
    <2>4. QED BY <2>1, <2>2, <2>3, HeadTailProperties DEF DueAt
  <1>8. L' = Tail(L)
    <2>1. L' \in Seq(Due) /\ Len(L') = count' /\ \A k \in 1 .. count' : L'[k] = DueAt(k)'
      BY <1>3 DEF LineSeen
    <2>2. \A k \in 1 .. count' : DueAt(k)' = L[k + 1]
      BY <1>2, <1>5 DEF DueAt, LineSeen
    <2>3. QED BY <1>1, <1>7, <2>1, <2>2, SeqEqual
  <1>9. P!D!Leave
    BY <1>7, <1>8 DEF P!D!Leave
  <1>10. QED BY <1>6, <1>9

\* Time passes only when nothing is due: not the packet that came first, so none.
LEMMA CarriedBeforeTick ==
  ASSUME Shape, Held, Ordered, P!Tick
  PROVE  \A k \in 1 .. count : Carried(k).time \in Nat /\ Carried(k).time > 0
  <1>1. LineSeen
    BY LineIsCarried
  <1>2. ASSUME NEW k \in 1 .. count
        PROVE  Carried(k).time \in Nat /\ Carried(k).time > 0
    <2>1. count \in Nat /\ 1 \in 1 .. count /\ 1 =< k /\ count > 0
      BY <1>1 DEF LineSeen
    <2>2. Carried(1).time # 0
      BY <2>1 DEF P!Tick, Held
    <2>3. Carried(1).time \in 0 .. Delay /\ Carried(k).time \in 0 .. Delay
      BY <1>1, <2>1 DEF LineSeen, Record
    <2>4. Carried(1).time =< Carried(k).time
      BY <2>1 DEF Ordered
    <2>5. QED BY <2>2, <2>3, <2>4
  <1>3. QED BY <1>2

LEMMA TickTicks ==
  ASSUME Shape, Held, Ordered, P!Tick
  PROVE  Ordered' /\ P!D!Tick
  <1> DEFINE L == P!Line
  <1>1. /\ Shape' /\ count' = count
        /\ \A k \in 1 .. count :
             /\ Carried(k)'.pkt = Carried(k).pkt
             /\ Carried(k)'.time = IF Carried(k).time = 0 THEN 0 ELSE Carried(k).time - 1
    BY TickShape
  <1>2. LineSeen
    BY LineIsCarried
  <1>3. LineSeen'
    <2>1. (Shape => LineSeen)'
      BY LineIsCarried, PTL
    <2>2. QED BY <1>1, <2>1
  <1>4. \A k \in 1 .. count : Carried(k).time \in Nat /\ Carried(k).time > 0
    BY CarriedBeforeTick
  <1>5. \A k \in 1 .. count : Carried(k)'.time = Carried(k).time - 1
    BY <1>1, <1>4
  <1>6. Ordered'
    BY <1>1, <1>4, <1>5 DEF Ordered
  <1>7. DOMAIN L = 1 .. count
    BY <1>2 DEF LineSeen
  <1>8. ASSUME NEW k \in 1 .. count
        PROVE  L[k].left > 0
    <2>1. L[k] = DueAt(k)
      BY <1>2 DEF LineSeen
    <2>2. DueAt(k).left > 0
      BY <1>4 DEF DueAt
    <2>3. QED BY <2>1, <2>2
  <1>9. L' = [i \in 1 .. count |-> [L[i] EXCEPT !.left = @ - 1]]
    <2>1. L' \in Seq(Due) /\ Len(L') = count /\ \A k \in 1 .. count : L'[k] = DueAt(k)'
      BY <1>1, <1>3 DEF LineSeen
    <2>2. ASSUME NEW k \in 1 .. count
          PROVE  DueAt(k)' = [L[k] EXCEPT !.left = @ - 1]
      <3>1. L[k] = [pkt |-> Carried(k).pkt, left |-> Carried(k).time]
        BY <1>2 DEF LineSeen, DueAt
      <3>2. QED BY <1>1, <1>5, <3>1 DEF DueAt
    <2>3. DOMAIN L' = 1 .. count /\ L' = [i \in DOMAIN L' |-> L'[i]]
      BY <2>1
    <2>4. QED BY <2>1, <2>2, <2>3
  <1>10. P!D!Tick
    BY <1>7, <1>8, <1>9 DEF P!D!Tick
  <1>11. QED BY <1>6, <1>10

LEMMA InitOrdered ==
  ASSUME Init
  PROVE  Ordered /\ P!D!Init
  <1>1. count = 0
    BY DEF Init, P!Init
  <1>2. P!Line = << >>
    BY <1>1 DEF P!Line
  <1>3. QED BY <1>1, <1>2 DEF Ordered, P!D!Init

LEMMA StepOrdered ==
  ASSUME Roomy
  PROVE  Inv /\ Ordered /\ [Next]_vars => Ordered' /\ [P!D!Next]_(P!Line)
  <1> SUFFICES ASSUME Inv, Ordered, [Next]_vars
               PROVE  Ordered' /\ [P!D!Next]_(P!Line)
    OBVIOUS
  <1>1. Shape /\ Held
    BY DEF Inv
  <1>2. ASSUME UNCHANGED pvars
        PROVE  Ordered' /\ P!Line' = P!Line
    BY <1>2 DEF pvars, Ordered, Carried, Ref, P!Line
  <1>3. ASSUME NEW p \in Packet, Accept(p) \/ Refuse(p)
        PROVE  Ordered' /\ [P!D!Next]_(P!Line)
    BY <1>2, <1>3 DEF Accept, Refuse
  <1>4. ASSUME Transmit
        PROVE  Ordered' /\ [P!D!Next]_(P!Line)
    <2> DEFINE p == Head(enqueued)
    <2>1. Q!CompleteService /\ P!ReceivePacket(p)
      BY <1>4 DEF Transmit
    <2>2. p \in Packet
      BY <2>1, CompleteQueued DEF Inv
    <2> HIDE DEF p
    <2>3. Ordered' /\ P!D!Enter(p)
      BY <1>1, <2>1, <2>2, ReceiveEnters
    <2>4. QED BY <2>2, <2>3 DEF P!D!Next
  <1>5. ASSUME Deliver
        PROVE  Ordered' /\ [P!D!Next]_(P!Line)
    <2>1. Ordered' /\ P!D!Leave
      BY <1>1, <1>5, DeliverLeaves DEF Deliver
    <2>2. QED BY <2>1 DEF P!D!Next
  <1>6. ASSUME Tick
        PROVE  Ordered' /\ [P!D!Next]_(P!Line)
    <2>1. Ordered' /\ P!D!Tick
      BY <1>1, <1>6, TickTicks DEF Tick
    <2>2. QED BY <2>1 DEF P!D!Next
  <1>7. ASSUME UNCHANGED vars
        PROVE  Ordered' /\ [P!D!Next]_(P!Line)
    BY <1>2, <1>7 DEF vars
  <1>8. QED BY <1>3, <1>4, <1>5, <1>6, <1>7 DEF Next

LEMMA OrderedAlways ==
  ASSUME Roomy
  PROVE  Spec => []Ordered
  BY InitOrdered, StepOrdered, InvHolds, PTL DEF Spec

(***************************************************************************)
(* A pipe that never holds more packets than its ring began with simply    *)
(* delays them, as pipe.py:5 says: each leaves once, in order, Delay after *)
(* it came in.                                                             *)
(***************************************************************************)
THEOREM PipeOnlyDelays ==
  ASSUME Roomy
  PROVE  Spec => P!RefinesDelayLine
  BY InitOrdered, StepOrdered, InvHolds, OrderedAlways, PTL
     DEF Spec, P!RefinesDelayLine, P!D!Spec
------------------------------------------------------------------------------
\* How long the transmitter needs for what stands between the head of the queue
\* and its i-th packet, that one included.

DrainsOf(s, i) == [j \in 1 .. i - 1 |-> Drain[s[j + 1]]]
Ahead(s, i) == Total(DrainsOf(s, i), 1 .. i - 1)

LEMMA LeavesIsAhead ==
  ASSUME NEW i
  PROVE  Leaves(i) = service + Ahead(enqueued, i) + Delay
  <1>1. DOMAIN DrainsOf(enqueued, i) = 1 .. i - 1
    BY DEF DrainsOf
  <1>2. FoldSeq(+, 0, DrainsOf(enqueued, i)) = Ahead(enqueued, i)
    BY <1>1, SumOfSequence DEF Ahead
  <1>3. QED BY <1>2 DEF Leaves, DrainsOf

LEMMA LeavesNext ==
  ASSUME NEW i
  PROVE  Leaves(i)' = service' + Ahead(enqueued', i) + Delay
  <1>1. (Leaves(i) = service + Ahead(enqueued, i) + Delay)'
    BY LeavesIsAhead, PTL
  <1>2. QED BY <1>1

LEMMA LeavesUnchanged ==
  ASSUME NEW i, UNCHANGED <<enqueued, service>>
  PROVE  Leaves(i)' = Leaves(i)
  <1>1. Leaves(i)' = service' + Ahead(enqueued', i) + Delay
    BY LeavesNext
  <1>2. Leaves(i) = service + Ahead(enqueued, i) + Delay
    BY LeavesIsAhead
  <1>3. QED BY <1>1, <1>2

LEMMA AheadIsNatural ==
  ASSUME NEW s \in Seq(Packet), NEW i \in 1 .. Len(s)
  PROVE  /\ Ahead(s, i) \in Nat
         /\ \A j \in 1 .. i - 1 : /\ DrainsOf(s, i)[j] = Drain[s[j + 1]]
                                  /\ DrainsOf(s, i)[j] \in Nat
  <1>1. ASSUME NEW j \in 1 .. i - 1
        PROVE  DrainsOf(s, i)[j] = Drain[s[j + 1]] /\ DrainsOf(s, i)[j] \in Nat
    <2>1. j + 1 \in 1 .. Len(s)
      OBVIOUS
    <2>2. s[j + 1] \in Packet
      BY <2>1
    <2>3. QED BY <2>2, QueueAssumption DEF DrainsOf
  <1>2. IsFiniteSet(1 .. i - 1)
    BY FS_Interval
  <1>3. QED BY <1>1, <1>2, TotalIsNatural DEF Ahead

LEMMA NothingAhead ==
  ASSUME NEW s
  PROVE  Ahead(s, 1) = 0
  <1>1. 1 .. 1 - 1 = {}
    OBVIOUS
  <1>2. QED BY <1>1, TotalOfNone DEF Ahead

LEMMA AheadJoined ==
  ASSUME NEW s \in Seq(Packet), NEW p \in Packet
  PROVE  /\ \A i \in 1 .. Len(s) : Ahead(Append(s, p), i) = Ahead(s, i)
         /\ Len(s) > 0 => Ahead(Append(s, p), Len(s) + 1) = Ahead(s, Len(s)) + Drain[p]
  <1> DEFINE q == Append(s, p)
             n == Len(s)
             k == n + 1
  <1>1. /\ q \in Seq(Packet) /\ n \in Nat /\ Len(q) = k
        /\ \A i \in 1 .. n : q[i] = s[i]
        /\ q[k] = p
    BY AppendProperties
  <1> HIDE DEF q
  <1>2. ASSUME NEW i \in 1 .. n
        PROVE  Ahead(q, i) = Ahead(s, i)
    <2>1. \A j \in 1 .. i - 1 : j + 1 \in 1 .. n
      BY <1>1
    <2>2. DrainsOf(q, i) = DrainsOf(s, i)
      BY <1>1, <2>1 DEF DrainsOf
    <2>3. QED BY <2>2 DEF Ahead
  <1>3. ASSUME n > 0
        PROVE  Ahead(q, k) = Ahead(s, n) + Drain[p]
    <2> DEFINE m == n - 1
    <2>1. /\ n \in 1 .. Len(s) /\ k \in 1 .. Len(q) /\ k - 1 = n
          /\ m \in Nat /\ n = m + 1
      BY <1>1, <1>3
    <2>2. \A j \in 1 .. m : DrainsOf(s, n)[j] = Drain[s[j + 1]] /\ DrainsOf(s, n)[j] \in Nat
      BY <2>1, AheadIsNatural
    <2>3. \A j \in 1 .. n : DrainsOf(q, k)[j] = Drain[q[j + 1]] /\ DrainsOf(q, k)[j] \in Nat
      BY <1>1, <2>1, AheadIsNatural
    <2>4. n \in 1 .. n /\ n + 1 = k
      BY <2>1
    <2>5. DrainsOf(q, k)[n] = Drain[p]
      BY <1>1, <2>3, <2>4
    <2> HIDE DEF n, k, m
    <2>6. ASSUME NEW j \in 1 .. m
          PROVE  DrainsOf(q, k)[j] = DrainsOf(s, n)[j]
      <3>1. j + 1 \in 1 .. n /\ j \in 1 .. n
        BY <2>1
      <3>2. q[j + 1] = s[j + 1]
        BY <1>1, <3>1
      <3>3. QED BY <2>2, <2>3, <3>1, <3>2
    <2>7. JoinedLast(DrainsOf(q, k), n, DrainsOf(s, n), m)
      <3>1. DrainsOf(q, k)[n] \in Int
        BY <2>3, <2>4
      <3>2. QED BY <2>1, <2>2, <2>6, <3>1 DEF JoinedLast
    <2>8. Total(DrainsOf(q, k), 1 .. n) = Total(DrainsOf(s, n), 1 .. m) + DrainsOf(q, k)[n]
      BY <1>1, <2>1, <2>7, TotalJoinedLast
    <2>9. Ahead(q, k) = Total(DrainsOf(q, k), 1 .. n) /\ Ahead(s, n) = Total(DrainsOf(s, n), 1 .. m)
      BY <2>1 DEF Ahead, m
    <2>10. QED BY <2>5, <2>8, <2>9
  <1>4. QED BY <1>2, <1>3 DEF q

LEMMA AheadShortened ==
  ASSUME NEW s \in Seq(Packet), s # << >>, NEW i \in 1 .. Len(Tail(s))
  PROVE  Ahead(s, i + 1) = Drain[Head(Tail(s))] + Ahead(Tail(s), i)
  <1> DEFINE q == Tail(s)
             k == i + 1
             m == i - 1
  <1>1. /\ q \in Seq(Packet) /\ Len(s) = Len(q) + 1 /\ Len(q) \in Nat
        /\ \A j \in 1 .. Len(q) : q[j] = s[j + 1]
    BY HeadTailProperties
  <1>2. /\ i \in Nat /\ m \in Nat /\ i = m + 1 /\ k \in 1 .. Len(s) /\ k - 1 = i
        /\ 1 \in 1 .. Len(q) /\ Head(q) = q[1]
    BY <1>1
  <1> HIDE DEF q, k
  <1>3. \A j \in 1 .. i : DrainsOf(s, k)[j] = Drain[s[j + 1]] /\ DrainsOf(s, k)[j] \in Nat
    BY <1>2, AheadIsNatural
  <1>4. \A j \in 1 .. m : DrainsOf(q, i)[j] = Drain[q[j + 1]] /\ DrainsOf(q, i)[j] \in Nat
    BY <1>1, AheadIsNatural DEF q
  <1> HIDE DEF m
  <1>5. DrainsOf(s, k)[1] = Drain[Head(q)]
    BY <1>1, <1>2, <1>3
  <1>6. ASSUME NEW j \in 1 .. m
        PROVE  DrainsOf(s, k)[j + 1] = DrainsOf(q, i)[j]
    <2>1. j + 1 \in 1 .. i /\ j + 1 \in 1 .. Len(q)
      BY <1>2 DEF q
    <2>2. q[j + 1] = s[(j + 1) + 1]
      BY <1>1, <2>1
    <2>3. QED BY <1>3, <1>4, <2>1, <2>2
  <1>7. JoinedFirst(DrainsOf(s, k), i, DrainsOf(q, i), m)
    <2>1. DrainsOf(s, k)[1] \in Int
      BY <1>2, <1>3
    <2>2. QED BY <1>2, <1>4, <1>6, <2>1 DEF JoinedFirst
  <1>8. Total(DrainsOf(s, k), 1 .. i) = DrainsOf(s, k)[1] + Total(DrainsOf(q, i), 1 .. m)
    BY <1>2, <1>7, TotalJoinedFirst
  <1>9. Ahead(s, k) = Total(DrainsOf(s, k), 1 .. i) /\ Ahead(q, i) = Total(DrainsOf(q, i), 1 .. m)
    BY <1>2 DEF Ahead, m
  <1>10. QED BY <1>5, <1>8, <1>9 DEF q, k
------------------------------------------------------------------------------
\* The link: what the queue holds follows what the pipe holds.

QueuedAt(i) == [pkt |-> enqueued[i], left |-> Leaves(i)]

DueLater == [pkt : Packet \cup {None}, left : Nat]

LinkSeen ==
  /\ Line \in Seq(DueLater) /\ Len(Line) = count + Len(enqueued)
  /\ \A k \in 1 .. count : Line[k] = DueAt(k) /\ DueAt(k) \in Due
  /\ \A i \in 1 .. Len(enqueued) : Line[count + i] = QueuedAt(i) /\ Leaves(i) \in Nat

LEMMA LeavesLater ==
  ASSUME Counted, NEW i \in 1 .. Len(enqueued)
  PROVE  /\ service \in Nat /\ Ahead(enqueued, i) \in Nat /\ Leaves(i) \in Nat
         /\ Leaves(i) = service + Ahead(enqueued, i) + Delay
  <1>1. enqueued \in Seq(Packet) /\ enqueued # << >>
    BY DEF Counted
  <1>2. service \in Nat
    BY <1>1 DEF Counted, BusyWhenFilled, Q!BusyWhenFilled
  <1>3. Ahead(enqueued, i) \in Nat
    BY <1>1, AheadIsNatural
  <1>4. QED BY <1>2, <1>3, LeavesIsAhead, PipeAssumption

LEMMA LineIsLink ==
  ASSUME Shape, Counted
  PROVE  LinkSeen
  <1> DEFINE L == P!Line
             W == [i \in DOMAIN enqueued |-> QueuedAt(i)]
             n == Len(enqueued)
  <1>1. /\ L \in Seq(Due) /\ Len(L) = count /\ count \in Nat
        /\ \A k \in 1 .. count : L[k] = DueAt(k) /\ DueAt(k) \in Due
    BY LineIsCarried DEF LineSeen
  <1>2. n \in Nat /\ DOMAIN enqueued = 1 .. n /\ \A i \in 1 .. n : enqueued[i] \in Packet
    BY DEF Counted
  <1>3. Due \subseteq DueLater
    BY PipeAssumption DEF Due, DueLater
  <1>4. L \in Seq(DueLater)
    BY <1>1, <1>3, SeqMonotonic
  <1>5. \A i \in 1 .. n : QueuedAt(i) \in DueLater /\ Leaves(i) \in Nat
    BY <1>2, LeavesLater DEF QueuedAt, DueLater
  <1>6. Line = L \o W
    BY DEF Line, QueuedAt
  <1> HIDE DEF L, n
  <1>7. W \in Seq(DueLater) /\ Len(W) = n /\ \A i \in 1 .. n : W[i] = QueuedAt(i)
    BY <1>2, <1>5
  <1> HIDE DEF W
  <1>8. /\ L \o W \in Seq(DueLater) /\ Len(L \o W) = count + n
        /\ \A k \in 1 .. count + n : (L \o W)[k] = IF k <= count THEN L[k] ELSE W[k - count]
    BY <1>1, <1>4, <1>7, ConcatProperties
  <1>9. \A k \in 1 .. count : Line[k] = DueAt(k)
    <2>1. ASSUME NEW k \in 1 .. count
          PROVE  Line[k] = DueAt(k)
      <3>1. k \in 1 .. count + n /\ k <= count
        BY <1>1, <1>2
      <3>2. QED BY <1>1, <1>6, <1>8, <3>1
    <2>2. QED BY <2>1
  <1>10. \A i \in 1 .. n : Line[count + i] = QueuedAt(i)
    <2>1. ASSUME NEW i \in 1 .. n
          PROVE  Line[count + i] = QueuedAt(i)
      <3>1. count + i \in 1 .. count + n /\ ~ (count + i <= count) /\ (count + i) - count = i
        BY <1>1, <1>2
      <3>2. QED BY <1>6, <1>7, <1>8, <3>1
    <2>2. QED BY <2>1
  <1>11. QED BY <1>1, <1>5, <1>6, <1>8, <1>9, <1>10 DEF LinkSeen, n

\* Two lines are one if they agree on what the pipe and what the queue hold.
LEMMA PlaceInLine ==
  ASSUME NEW c \in Nat, NEW n \in Nat, NEW m \in 1 .. c + n
  PROVE  m \in 1 .. c \/ \E i \in 1 .. n : m = c + i
  <1>1. m > c => m - c \in 1 .. n /\ m = c + (m - c)
    OBVIOUS
  <1>2. QED BY <1>1

LEMMA AcceptEnters ==
  ASSUME Shape, Counted, NEW p \in Packet, Accept(p), Counted'
  PROVE  D!Enter(p)
  <1>0. PICK n \in Nat : n = Len(enqueued)
    BY DEF Counted
  <1> DEFINE e == [pkt |-> p, left |-> D!Backlog + Drain[p] + Delay]
  <1>1. /\ enqueued' = Append(enqueued, p) /\ UNCHANGED pvars
        /\ service' = IF enqueued = << >> THEN Drain[p] ELSE service
    BY DEF Accept, Q!Enqueue, Q!ServiceWith
  <1>2. /\ enqueued \in Seq(Packet) /\ n \in Nat /\ Len(enqueued') = n + 1
        /\ \A i \in 1 .. n : enqueued'[i] = enqueued[i]
        /\ enqueued'[n + 1] = p
    BY <1>0, <1>1, AppendProperties DEF Counted
  <1>3. Shape' /\ count' = count /\ \A k \in 1 .. count : DueAt(k)' = DueAt(k)
    BY <1>1 DEF pvars, Shape, DueAt, Carried, Ref
  <1>4. LinkSeen
    BY LineIsLink
  <1>5. LinkSeen'
    <2>1. (Shape /\ Counted => LinkSeen)'
      BY LineIsLink, PTL
    <2>2. QED BY <1>3, <2>1
  <1>6. /\ Delay \in Nat /\ Drain[p] \in Nat /\ count \in Nat
        /\ \A k \in 1 .. count : DueAt(k).left \in 0 .. Delay
    <2>1. count \in Nat
      BY PipeAssumption DEF Shape
    <2>2. \A k \in 1 .. count : DueAt(k) \in Due
      BY <1>4 DEF LinkSeen
    <2>3. QED BY <2>1, <2>2, PipeAssumption, QueueAssumption DEF Due
  <1>7. ASSUME NEW i \in 1 .. n
        PROVE  QueuedAt(i)' = QueuedAt(i)
    <2>1. enqueued # << >> /\ service' = service
      BY <1>0, <1>1, <1>2
    <2>2. Ahead(enqueued', i) = Ahead(enqueued, i)
      BY <1>0, <1>1, <1>2, AheadJoined
    <2>3. Leaves(i)' = service' + Ahead(enqueued', i) + Delay
      BY LeavesNext
    <2>4. Leaves(i) = service + Ahead(enqueued, i) + Delay
      BY LeavesIsAhead
    <2>5. QED BY <1>2, <2>1, <2>2, <2>3, <2>4 DEF QueuedAt
  <1>8. Leaves(n + 1)' = D!Backlog + Drain[p] + Delay
    <2> DEFINE k == n + 1
    <2>1. Leaves(k)' = service' + Ahead(enqueued', k) + Delay
      BY LeavesNext
    <2>2. CASE n = 0
      <3>1. service' = Drain[p] /\ k = 1
        BY <1>0, <1>1, <1>2, <2>2
      <3>2. Ahead(enqueued', k) = 0
        BY <3>1, NothingAhead
      <3>3. D!Backlog = 0
        <4>1. CASE Line = << >>
          BY <4>1 DEF D!Backlog
        <4>2. CASE Line # << >>
          <5>1. Len(Line) = count /\ count \in 1 .. count
            BY <1>0, <1>4, <1>6, <2>2, <4>2 DEF LinkSeen
          <5>2. D!Last(Line) = DueAt(count)
            BY <1>4, <5>1 DEF D!Last, LinkSeen
          <5>3. D!Last(Line).left \in 0 .. Delay
            BY <1>6, <5>1, <5>2
          <5> HIDE DEF Line
          <5>4. (IF Line = << >> \/ D!Last(Line).left < Delay THEN 0
                 ELSE D!Last(Line).left - Delay) = 0
            BY <1>6, <5>3
          <5>5. QED BY <5>4 DEF D!Backlog
        <4>3. QED BY <4>1, <4>2
      <3> HIDE DEF k
      <3>4. QED BY <1>6, <2>1, <3>1, <3>2, <3>3 DEF k
    <2>3. CASE n > 0
      <3>1. n \in 1 .. n /\ enqueued # << >> /\ service' = service
        BY <1>0, <1>1, <1>2, <2>3
      <3>2. Ahead(enqueued', k) = Ahead(enqueued, n) + Drain[p]
        BY <1>0, <1>1, <1>2, <2>3, AheadJoined
      <3>3. /\ service \in Nat /\ Ahead(enqueued, n) \in Nat
            /\ Leaves(n) = service + Ahead(enqueued, n) + Delay
        BY <1>0, <3>1, LeavesLater
      <3>4. Line # << >> /\ D!Last(Line).left = Leaves(n)
        <4>1. Len(Line) = count + n /\ Line[count + n] = QueuedAt(n)
          BY <1>0, <1>4, <3>1 DEF LinkSeen
        <4>2. Line # << >>
          BY <1>2, <1>6, <2>3, <4>1
        <4>3. D!Last(Line) = Line[Len(Line)]
          BY DEF D!Last
        <4>4. QED BY <4>1, <4>2, <4>3 DEF QueuedAt
      <3>5. D!Backlog = service + Ahead(enqueued, n)
        BY <1>6, <3>3, <3>4 DEF D!Backlog
      <3> HIDE DEF k
      <3>6. QED BY <1>6, <2>1, <3>1, <3>2, <3>3, <3>5 DEF k
    <2>4. QED BY <1>2, <2>2, <2>3
  <1>9. QueuedAt(n + 1)' = e
    BY <1>2, <1>8 DEF QueuedAt
  <1>10. e \in DueLater
    <2>1. Leaves(n + 1)' \in Nat
      <3>1. n + 1 \in 1 .. Len(enqueued')
        BY <1>2
      <3>2. QED BY <1>5, <3>1 DEF LinkSeen
    <2>2. QED BY <1>8, <2>1 DEF DueLater
  <1> HIDE DEF e
  <1>11. /\ Append(Line, e) \in Seq(DueLater) /\ Len(Append(Line, e)) = (count + n) + 1
         /\ \A m \in 1 .. count + n : Append(Line, e)[m] = Line[m]
         /\ Append(Line, e)[(count + n) + 1] = e
    BY <1>0, <1>4, <1>10, AppendProperties DEF LinkSeen
  <1>12. /\ Line' \in Seq(DueLater) /\ Len(Line') = count + (n + 1)
         /\ \A k \in 1 .. count : Line'[k] = DueAt(k)'
         /\ \A i \in 1 .. n + 1 : Line'[count + i] = QueuedAt(i)'
    BY <1>2, <1>3, <1>5 DEF LinkSeen
  <1>13. /\ \A k \in 1 .. count : Line[k] = DueAt(k)
         /\ \A i \in 1 .. n : Line[count + i] = QueuedAt(i)
    BY <1>0, <1>4 DEF LinkSeen
  <1>14. ASSUME NEW m \in 1 .. count + (n + 1)
         PROVE  Line'[m] = Append(Line, e)[m]
    <2>1. CASE m \in 1 .. count
      <3>1. m \in 1 .. count + n
        BY <1>2, <1>6, <2>1
      <3>2. QED BY <1>3, <1>11, <1>12, <1>13, <2>1, <3>1
    <2>2. ASSUME NEW i \in 1 .. n + 1, m = count + i
          PROVE  Line'[m] = Append(Line, e)[m]
      <3>1. Line'[m] = QueuedAt(i)'
        BY <1>12, <2>2
      <3>2. CASE i = n + 1
        <4>1. m = (count + n) + 1
          BY <1>2, <1>6, <2>2, <3>2
        <4>2. QED BY <1>9, <1>11, <3>1, <3>2, <4>1
      <3>3. CASE i # n + 1
        <4>1. i \in 1 .. n /\ m \in 1 .. count + n
          BY <1>2, <1>6, <2>2, <3>3
        <4>2. QED BY <1>7, <1>11, <1>13, <2>2, <3>1, <4>1
      <3>4. QED BY <3>2, <3>3
    <2>3. n + 1 \in Nat
      BY <1>2
    <2>4. QED BY <1>6, <2>1, <2>2, <2>3, PlaceInLine
  <1>15. Line' = Append(Line, e)
    <2>1. count + (n + 1) = (count + n) + 1
      BY <1>2, <1>6
    <2>2. QED BY <1>11, <1>12, <1>14, <2>1, SeqEqual
  <1>16. QED BY <1>15 DEF D!Enter, e

LEMMA TransmitStays ==
  ASSUME Roomy, Inv, Counted, Transmit, Counted'
  PROVE  Line' = Line
  <1> DEFINE h == Head(enqueued)
  <1>0. PICK n \in Nat : n = Len(enqueued')
    BY DEF Counted
  <1>1. /\ service = 0 /\ enqueued # << >> /\ enqueued' = Tail(enqueued)
        /\ service' = IF enqueued' = << >> THEN None ELSE Drain[Head(enqueued')]
        /\ P!ReceivePacket(h)
    BY DEF Transmit, Q!CompleteService, Q!NextService
  <1>2. /\ enqueued \in Seq(Packet) /\ Len(enqueued) = n + 1 /\ enqueued[1] = h
        /\ \A i \in 1 .. n : enqueued'[i] = enqueued[i + 1]
    BY <1>0, <1>1, HeadTailProperties DEF Counted
  <1>3. h \in Packet /\ Shape
    BY <1>1, <1>2 DEF Inv
  <1> HIDE DEF h
  <1>4. /\ Shape' /\ count' = count + 1
        /\ \A k \in 1 .. count : Carried(k)' = Carried(k)
        /\ Carried(count)' = [time |-> Delay, pkt |-> h]
    BY <1>1, <1>3, ReceiveShape
  <1>5. LinkSeen
    BY <1>3, LineIsLink
  <1>6. LinkSeen'
    <2>1. (Shape /\ Counted => LinkSeen)'
      BY LineIsLink, PTL
    <2>2. QED BY <1>4, <2>1
  <1>7. Delay \in Nat /\ count \in Nat
    BY <1>3, PipeAssumption DEF Shape
  <1>8. \A k \in 1 .. count : DueAt(k)' = DueAt(k)
    BY <1>4 DEF DueAt
  <1>9. DueAt(count)' = QueuedAt(1)
    <2>1. Leaves(1) = service + Ahead(enqueued, 1) + Delay
      BY LeavesIsAhead
    <2>2. Leaves(1) = Delay
      BY <1>1, <1>7, <2>1, NothingAhead
    <2>3. QED BY <1>2, <1>4, <2>2 DEF DueAt, QueuedAt
  <1>10. ASSUME NEW i \in 1 .. n
         PROVE  QueuedAt(i)' = QueuedAt(i + 1)
    <2> DEFINE k == i + 1
    <2>1. /\ i \in 1 .. Len(Tail(enqueued)) /\ enqueued' # << >>
          /\ k \in 1 .. Len(enqueued) /\ i \in 1 .. Len(enqueued')
      <3>1. i \in 1 .. Len(enqueued') /\ Len(enqueued') > 0
        BY <1>0
      <3>2. enqueued' # << >>
        BY <3>1
      <3>3. i \in 1 .. Len(Tail(enqueued))
        BY <1>1, <3>1
      <3>4. k \in 1 .. Len(enqueued)
        BY <1>2
      <3>5. QED BY <3>1, <3>2, <3>3, <3>4
    <2>2. Ahead(enqueued, k) = Drain[Head(enqueued')] + Ahead(enqueued', i)
      BY <1>1, <1>2, <2>1, AheadShortened
    <2>3. Leaves(i)' = service' + Ahead(enqueued', i) + Delay
      BY LeavesNext
    <2>4. Leaves(k) = service + Ahead(enqueued, k) + Delay
      BY LeavesIsAhead
    <2>5. enqueued'[i] = enqueued[k]
      BY <1>2
    <2>6. Drain[Head(enqueued')] \in Nat /\ Ahead(enqueued', i) \in Nat
      <3>1. enqueued' \in Seq(Packet)
        BY DEF Counted
      <3>2. Head(enqueued') \in Packet
        BY <2>1, <3>1, HeadTailProperties
      <3>3. QED BY <2>1, <3>1, <3>2, AheadIsNatural, QueueAssumption
    <2> HIDE DEF k
    <2>7. Leaves(i)' = Leaves(k)
      <3> DEFINE d == Drain[Head(enqueued')]
                 a == Ahead(enqueued', i)
      <3>1. d \in Nat /\ a \in Nat
        BY <2>6
      <3>2. Leaves(i)' = d + a + Delay
        BY <1>1, <2>1, <2>3
      <3>3. Leaves(k) = 0 + (d + a) + Delay
        BY <1>1, <2>2, <2>4
      <3> HIDE DEF d, a
      <3>4. QED BY <1>7, <3>1, <3>2, <3>3
    <2>8. QED BY <2>5, <2>7 DEF QueuedAt, k
  <1>11. /\ Line \in Seq(DueLater) /\ Len(Line) = count + (n + 1)
         /\ \A k \in 1 .. count : Line[k] = DueAt(k)
         /\ \A i \in 1 .. n + 1 : Line[count + i] = QueuedAt(i)
    BY <1>2, <1>5 DEF LinkSeen
  <1>12. /\ Line' \in Seq(DueLater) /\ Len(Line') = (count + 1) + n
         /\ \A k \in 1 .. count : Line'[k] = DueAt(k)'
         /\ Line'[count + 1] = DueAt(count)'
         /\ \A i \in 1 .. n : Line'[(count + 1) + i] = QueuedAt(i)'
    <2>1. /\ Line' \in Seq(DueLater) /\ Len(Line') = (count + 1) + n
          /\ \A i \in 1 .. n : Line'[(count + 1) + i] = QueuedAt(i)'
      BY <1>0, <1>4, <1>6 DEF LinkSeen
    <2>2. \A k \in 1 .. count' : Line'[k] = DueAt(k)'
      BY <1>6 DEF LinkSeen
    <2>3. \A k \in 1 .. count : k \in 1 .. count'
      BY <1>4, <1>7
    <2>4. Line'[count'] = DueAt(count)'
      <3>1. (\A k \in 1 .. count : Line[k] = DueAt(k))'
        BY <2>2
      <3>2. (count \in 1 .. count => Line[count] = DueAt(count))'
        BY <3>1
      <3>3. count' \in 1 .. count'
        BY <1>4, <1>7
      <3>4. QED BY <3>2, <3>3
    <2>5. QED BY <1>4, <2>1, <2>2, <2>3, <2>4
  <1>13. ASSUME NEW m \in 1 .. count + (n + 1)
         PROVE  Line'[m] = Line[m]
    <2>1. CASE m \in 1 .. count
      BY <1>8, <1>11, <1>12, <2>1
    <2>2. CASE m = count + 1
      <3>1. 1 \in 1 .. n + 1
        OBVIOUS
      <3>2. Line[count + 1] = QueuedAt(1)
        BY <1>11, <3>1
      <3>3. QED BY <1>9, <1>12, <2>2, <3>2
    <2>3. ASSUME NEW i \in 1 .. n, m = (count + 1) + i
          PROVE  Line'[m] = Line[m]
      <3>1. i + 1 \in 1 .. n + 1 /\ m = count + (i + 1)
        BY <1>7, <2>3
      <3>2. Line[m] = QueuedAt(i + 1)
        BY <1>11, <3>1
      <3>3. QED BY <1>10, <1>12, <2>3, <3>2
    <2>4. m \in 1 .. count + 1 \/ \E i \in 1 .. n : m = (count + 1) + i
      <3>1. count + 1 \in Nat /\ m \in 1 .. (count + 1) + n
        BY <1>7
      <3>2. QED BY <3>1, PlaceInLine
    <2>5. QED BY <1>7, <2>1, <2>2, <2>3, <2>4
  <1>14. Len(Line') = Len(Line)
    BY <1>7, <1>11, <1>12
  <1>15. QED BY <1>11, <1>12, <1>13, <1>14, SeqEqual

LEMMA DeliverLeavesLink ==
  ASSUME Roomy, Inv, Counted, Deliver, Counted'
  PROVE  D!Leave
  <1>0. PICK n \in Nat : n = Len(enqueued)
    BY DEF Counted
  <1>1. /\ P!DoNextEvent /\ UNCHANGED <<enqueued, queuesize, service>>
        /\ wake = 0 /\ count > 0
    BY DEF Deliver, qvars, P!DoNextEvent
  <1>2. /\ Shape' /\ count' = count - 1
        /\ \A k \in 1 .. count - 1 : Carried(k)' = Carried(k + 1)
    BY <1>1, DeliverShape DEF Inv
  <1>3. LinkSeen
    BY LineIsLink DEF Inv
  <1>4. LinkSeen'
    <2>1. (Shape /\ Counted => LinkSeen)'
      BY LineIsLink, PTL
    <2>2. QED BY <1>2, <2>1
  <1>5. count \in Nat /\ 1 \in 1 .. count
    BY <1>1, PipeAssumption DEF Inv, Shape
  <1>6. \A k \in 1 .. count - 1 : DueAt(k)' = DueAt(k + 1)
    BY <1>2 DEF DueAt
  <1>7. \A i \in 1 .. n : QueuedAt(i)' = QueuedAt(i)
    BY <1>1, LeavesUnchanged DEF QueuedAt
  <1>8. /\ Line \in Seq(DueLater) /\ Len(Line) = count + n
        /\ \A k \in 1 .. count : Line[k] = DueAt(k)
        /\ \A i \in 1 .. n : Line[count + i] = QueuedAt(i)
    BY <1>0, <1>3 DEF LinkSeen
  <1>9. /\ Line' \in Seq(DueLater) /\ Len(Line') = (count - 1) + n
        /\ \A k \in 1 .. count - 1 : Line'[k] = DueAt(k)'
        /\ \A i \in 1 .. n : Line'[(count - 1) + i] = QueuedAt(i)'
    BY <1>0, <1>1, <1>2, <1>4 DEF LinkSeen
  <1>10. Line # << >> /\ Head(Line).left = 0
    <2>1. Len(Line) > 0
      BY <1>5, <1>8
    <2>2. Line # << >>
      BY <2>1
    <2>3. Head(Line) = DueAt(1)
      BY <1>5, <1>8, <2>2
    <2>4. Carried(1).time = 0
      BY <1>1 DEF Inv, Held
    <2>5. QED BY <2>2, <2>3, <2>4 DEF DueAt
  <1>11. /\ Tail(Line) \in Seq(DueLater) /\ Len(Tail(Line)) = (count + n) - 1
         /\ \A m \in 1 .. Len(Tail(Line)) : Tail(Line)[m] = Line[m + 1]
    BY <1>8, <1>10, HeadTailProperties
  <1>12. ASSUME NEW m \in 1 .. (count - 1) + n
         PROVE  Line'[m] = Tail(Line)[m]
    <2>1. Tail(Line)[m] = Line[m + 1]
      BY <1>5, <1>11
    <2>2. CASE m \in 1 .. count - 1
      <3>1. m + 1 \in 1 .. count
        BY <1>5, <2>2
      <3>2. QED BY <1>6, <1>8, <1>9, <2>1, <2>2, <3>1
    <2>3. ASSUME NEW i \in 1 .. n, m = (count - 1) + i
          PROVE  Line'[m] = Tail(Line)[m]
      <3>1. m + 1 = count + i
        BY <1>5, <2>3
      <3>2. QED BY <1>7, <1>8, <1>9, <2>1, <2>3, <3>1
    <2>4. count - 1 \in Nat
      BY <1>5
    <2>5. QED BY <2>2, <2>3, <2>4, PlaceInLine
  <1>13. Len(Line') = Len(Tail(Line))
    BY <1>5, <1>9, <1>11
  <1>14. Line' = Tail(Line)
    BY <1>9, <1>11, <1>12, <1>13, SeqEqual
  <1>15. QED BY <1>10, <1>14 DEF D!Leave

LEMMA TickTicksLink ==
  ASSUME Inv, Ordered, Counted, Tick, Counted'
  PROVE  D!Tick
  <1>0. PICK n \in Nat : n = Len(enqueued)
    BY DEF Counted
  <1>1. /\ P!Tick /\ enqueued' = enqueued /\ service # 0
        /\ service' = IF service = None THEN None ELSE service - 1
    BY DEF Tick, Q!Tick
  <1>2. /\ Shape /\ Shape' /\ count' = count
        /\ \A k \in 1 .. count :
             /\ Carried(k)'.pkt = Carried(k).pkt
             /\ Carried(k)'.time = IF Carried(k).time = 0 THEN 0 ELSE Carried(k).time - 1
    BY <1>1, TickShape DEF Inv
  <1>3. LinkSeen
    BY <1>2, LineIsLink
  <1>4. LinkSeen'
    <2>1. (Shape /\ Counted => LinkSeen)'
      BY LineIsLink, PTL
    <2>2. QED BY <1>2, <2>1
  <1>5. count \in Nat /\ Delay \in Nat
    BY <1>2, PipeAssumption DEF Shape
  <1>6. ASSUME NEW k \in 1 .. count
        PROVE  DueAt(k).left > 0 /\ DueAt(k)' = [DueAt(k) EXCEPT !.left = @ - 1]
    <2>1. Carried(k).time \in Nat /\ Carried(k).time > 0
      BY <1>1, <1>2, CarriedBeforeTick DEF Inv
    <2>2. Carried(k)'.time = Carried(k).time - 1 /\ Carried(k)'.pkt = Carried(k).pkt
      BY <1>2, <2>1
    <2>3. QED BY <2>1, <2>2 DEF DueAt
  <1>7. ASSUME NEW i \in 1 .. n
        PROVE  QueuedAt(i).left > 0 /\ QueuedAt(i)' = [QueuedAt(i) EXCEPT !.left = @ - 1]
    <2>1. /\ service \in Nat /\ Ahead(enqueued, i) \in Nat
          /\ Leaves(i) = service + Ahead(enqueued, i) + Delay
      BY <1>0, LeavesLater
    <2>2. service # None /\ service' = service - 1
      BY <1>1, <2>1, NoneAssumption
    <2>3. Leaves(i)' = service' + Ahead(enqueued, i) + Delay
      BY <1>1, LeavesNext
    <2>4. Leaves(i) > 0 /\ Leaves(i)' = Leaves(i) - 1
      BY <1>1, <1>5, <2>1, <2>2, <2>3
    <2>5. QED BY <1>1, <2>4 DEF QueuedAt
  <1>8. /\ Line \in Seq(DueLater) /\ Len(Line) = count + n
        /\ \A k \in 1 .. count : Line[k] = DueAt(k)
        /\ \A i \in 1 .. n : Line[count + i] = QueuedAt(i)
    BY <1>0, <1>3 DEF LinkSeen
  <1>9. /\ Line' \in Seq(DueLater) /\ Len(Line') = count + n
        /\ \A k \in 1 .. count : Line'[k] = DueAt(k)'
        /\ \A i \in 1 .. n : Line'[count + i] = QueuedAt(i)'
    BY <1>0, <1>1, <1>2, <1>4 DEF LinkSeen
  <1>10. ASSUME NEW m \in 1 .. count + n
         PROVE  Line[m].left > 0 /\ Line'[m] = [Line[m] EXCEPT !.left = @ - 1]
    <2>1. CASE m \in 1 .. count
      BY <1>6, <1>8, <1>9, <2>1
    <2>2. ASSUME NEW i \in 1 .. n, m = count + i
          PROVE  Line[m].left > 0 /\ Line'[m] = [Line[m] EXCEPT !.left = @ - 1]
      BY <1>7, <1>8, <1>9, <2>2
    <2>3. QED BY <1>5, <2>1, <2>2, PlaceInLine
  <1>11. DOMAIN Line = 1 .. count + n
    BY <1>8
  <1>12. Line' = [m \in 1 .. count + n |-> [Line[m] EXCEPT !.left = @ - 1]]
    <2>1. DOMAIN Line' = 1 .. count + n /\ Line' = [m \in DOMAIN Line' |-> Line'[m]]
      BY <1>9
    <2>2. QED BY <1>10, <2>1
  <1>13. QED BY <1>10, <1>11, <1>12 DEF D!Tick

(***************************************************************************)
(* Queue and pipe together are a link: each packet the queue accepts       *)
(* leaves once, in order, and when the backlog it met says, whatever is    *)
(* sent after it, if the pipe never holds more than its ring began with.   *)
(***************************************************************************)
THEOREM LinkIsADelayLine ==
  ASSUME Roomy
  PROVE  Spec => RefinesDelayLine
  <1>1. Init => D!Init
    <2>1. ASSUME Init
          PROVE  Line = << >>
      <3>1. count = 0 /\ enqueued = << >>
        BY <2>1 DEF Init, P!Init, Q!Init
      <3>2. Inv /\ Counted
        BY <2>1, InitInv, InitCounted
      <3>3. LinkSeen
        BY <3>2, LineIsLink DEF Inv
      <3>4. Line \in Seq(DueLater) /\ Len(Line) = 0
        BY <3>1, <3>3 DEF LinkSeen
      <3>5. QED BY <3>4
    <2>2. QED BY <2>1 DEF D!Init
  <1>2. Inv /\ Ordered /\ Counted /\ [Next]_vars /\ Counted' => [D!Next]_Line
    <2> SUFFICES ASSUME Inv, Ordered, Counted, [Next]_vars, Counted'
                 PROVE  [D!Next]_Line
      OBVIOUS
    <2>1. ASSUME NEW p \in Packet, Accept(p)
          PROVE  D!Next
      BY <2>1, AcceptEnters DEF Inv, D!Next
    <2>2. ASSUME UNCHANGED <<enqueued, queuesize, service>>, UNCHANGED pvars
          PROVE  Line' = Line
      <3>1. P!Line' = P!Line
        BY <2>2 DEF pvars, P!Line
      <3>2. \A i \in DOMAIN enqueued : Leaves(i)' = Leaves(i)
        BY <2>2, LeavesUnchanged
      <3>3. QED BY <2>2, <3>1, <3>2 DEF Line
    <2>3. ASSUME NEW p \in Packet, Refuse(p)
          PROVE  Line' = Line
      BY <2>2, <2>3 DEF Refuse, Q!Drop, Q!qvars
    <2>4. ASSUME Transmit
          PROVE  Line' = Line
      BY <2>4, TransmitStays
    <2>5. ASSUME Deliver
          PROVE  D!Next
      BY <2>5, DeliverLeavesLink DEF D!Next
    <2>6. ASSUME Tick
          PROVE  D!Next
      BY <2>6, TickTicksLink DEF D!Next
    <2>7. ASSUME UNCHANGED vars
          PROVE  Line' = Line
      BY <2>2, <2>7 DEF vars, qvars
    <2>8. QED BY <2>1, <2>3, <2>4, <2>5, <2>6, <2>7 DEF Next
  <1>3. QED BY <1>1, <1>2, InvHolds, OrderedAlways, CountedAlways, PTL
            DEF Spec, RefinesDelayLine, D!Spec
==============================================================================
