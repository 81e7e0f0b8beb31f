--------------------------- MODULE EventListProofs ----------------------------
(***************************************************************************)
(* The two structures of core/eventlist.py stay in step and are an ordered *)
(* calendar, and time never runs backwards, for any number of sources,     *)
(* times, events and triggers.  core/trigger.py uses the event list only   *)
(* through its calls, so what holds of the event list holds of it under    *)
(* any triggers; each flow they release is started once.                   *)
(***************************************************************************)
EXTENDS Triggers, Sums

\* The dictionary and the sorted list of times, as one value, are in order and
\* hold nothing before a time.
Good(p, now) ==
  /\ p = [times |-> p.times, at |-> p.at]
  /\ p.times \in Seq(Nat)
  /\ p.at \in [DOMAIN p.at -> Seq(Source)]
  /\ \A i, j \in 1 .. Len(p.times) : i < j => p.times[i] < p.times[j]
  /\ \A i \in 1 .. Len(p.times) : p.times[i] \in DOMAIN p.at
  /\ \A t \in DOMAIN p.at : \E i \in 1 .. Len(p.times) : p.times[i] = t
  /\ \A t \in DOMAIN p.at : p.at[t] # << >>
  /\ \A t \in DOMAIN p.at : t \in Nat /\ now <= t

\* A set of naturals with a member has a least one.
LEMMA LeastNatural ==
  ASSUME NEW T \in SUBSET Nat, T # {}
  PROVE  \E x \in T : \A y \in T : x <= y
  <1>1. \E x \in T : \A y \in T : ~ (<<y, x>> \in OpToRel(<, Nat))
    BY NatLessThanWellFounded, WFMin
  <1>2. PICK x \in T : \A y \in T : ~ (<<y, x>> \in OpToRel(<, Nat))
    BY <1>1
  <1>3. ASSUME NEW y \in T
        PROVE  x <= y
    <2>1. x \in Nat /\ y \in Nat
      OBVIOUS
    <2>2. ~ (y < x)
      BY <1>2, <2>1 DEF OpToRel
    <2>3. QED BY <2>1, <2>2
  <1>4. QED BY <1>2, <1>3

\* list.index and list.remove find an entry that is there, the first one.
LEMMA FirstIndexFound ==
  ASSUME NEW S, NEW s \in Seq(S), NEW e, NEW i \in 1 .. Len(s), s[i] = e
  PROVE  /\ FirstIndex(s, e) \in 1 .. Len(s) /\ s[FirstIndex(s, e)] = e
         /\ \A j \in 1 .. FirstIndex(s, e) - 1 : s[j] # e
  <1> DEFINE T == {k \in 1 .. Len(s) : s[k] = e}
  <1>1. T \in SUBSET Nat /\ T # {}
    OBVIOUS
  <1>2. PICK k \in T : \A y \in T : k <= y
    BY <1>1, LeastNatural
  <1>3. k \in DOMAIN s /\ s[k] = e /\ \A j \in 1 .. k - 1 : s[j] # e
    BY <1>2
  <1>4. QED BY <1>3 DEF FirstIndex

\* What list.insert and list.pop leave behind.
LEMMA InsertAtProperties ==
  ASSUME NEW S, NEW s \in Seq(S), NEW e \in S, NEW k \in 1 .. Len(s) + 1
  PROVE  /\ InsertAt(s, k, e) \in Seq(S)
         /\ Len(InsertAt(s, k, e)) = Len(s) + 1
         /\ \A i \in 1 .. Len(s) + 1 :
              InsertAt(s, k, e)[i] = IF i < k THEN s[i] ELSE IF i = k THEN e ELSE s[i - 1]
  <1> DEFINE a == SubSeq(s, 1, k - 1)
             b == SubSeq(s, k, Len(s))
             c == a \o <<e>>
  <1>1. /\ a \in Seq(S) /\ Len(a) = k - 1
        /\ \A i \in 1 .. k - 1 : a[i] = s[i]
    OBVIOUS
  <1>2. /\ b \in Seq(S) /\ Len(b) = Len(s) - k + 1
        /\ \A i \in 1 .. Len(s) - k + 1 : b[i] = s[k + i - 1]
    OBVIOUS
  <1>3. InsertAt(s, k, e) = c \o b
    BY DEF InsertAt
  <1>4. /\ c \in Seq(S) /\ Len(c) = k
        /\ \A i \in 1 .. k : c[i] = IF i < k THEN s[i] ELSE e
    <2> DEFINE d == <<e>>
    <2>1. d \in Seq(S) /\ Len(d) = 1 /\ d[1] = e
      OBVIOUS
    <2>2. c = a \o d /\ k \in Nat \ {0}
      OBVIOUS
    <2> HIDE DEF a, c, d
    <2>3. /\ a \o d \in Seq(S) /\ Len(a \o d) = Len(a) + Len(d)
          /\ \A i \in 1 .. Len(a) + Len(d) :
               (a \o d)[i] = IF i <= Len(a) THEN a[i] ELSE d[i - Len(a)]
      BY <1>1, <2>1, ConcatProperties
    <2>4. Len(a) + Len(d) = k
      BY <1>1, <2>1, <2>2
    <2>5. ASSUME NEW i \in 1 .. k
          PROVE  c[i] = IF i < k THEN s[i] ELSE e
      <3> k \in Nat /\ i \in 1 .. k
        BY <2>2
      <3>1. CASE i < k
        BY <1>1, <2>2, <2>3, <2>4, <3>1
      <3>2. CASE i = k
        BY <1>1, <2>1, <2>2, <2>3, <2>4, <3>2
      <3>3. i < k \/ i = k
        OBVIOUS
      <3>4. QED BY <3>1, <3>2, <3>3
    <2>6. QED BY <2>2, <2>3, <2>4, <2>5
  <1> HIDE DEF a, b, c
  <1>5. /\ c \o b \in Seq(S) /\ Len(c \o b) = Len(c) + Len(b)
        /\ \A i \in 1 .. Len(c) + Len(b) :
             (c \o b)[i] = IF i <= Len(c) THEN c[i] ELSE b[i - Len(c)]
    BY <1>2, <1>4, ConcatProperties
  <1>6. Len(s) \in Nat /\ k \in 1 .. Len(s) + 1 /\ Len(c) + Len(b) = Len(s) + 1
    BY <1>2, <1>4
  <1>7. ASSUME NEW i \in 1 .. Len(s) + 1
        PROVE  (c \o b)[i] = IF i < k THEN s[i] ELSE IF i = k THEN e ELSE s[i - 1]
    <2>1. (c \o b)[i] = IF i <= k THEN c[i] ELSE b[i - k]
      BY <1>4, <1>5, <1>6
    <2>2. i <= k => c[i] = IF i < k THEN s[i] ELSE e
      BY <1>4, <1>6
    <2>3. i > k => b[i - k] = s[i - 1]
      <3>1. i > k => i - k \in 1 .. Len(s) - k + 1 /\ k + (i - k) - 1 = i - 1
        BY <1>6
      <3>2. QED BY <1>2, <3>1
    <2>4. QED BY <1>6, <2>1, <2>2, <2>3
  <1>8. QED BY <1>3, <1>5, <1>6, <1>7

LEMMA RemoveAtProperties ==
  ASSUME NEW S, NEW s \in Seq(S), NEW k \in 1 .. Len(s)
  PROVE  /\ RemoveAt(s, k) \in Seq(S)
         /\ Len(RemoveAt(s, k)) = Len(s) - 1
         /\ \A i \in 1 .. Len(s) - 1 :
              RemoveAt(s, k)[i] = IF i < k THEN s[i] ELSE s[i + 1]
  <1> DEFINE a == SubSeq(s, 1, k - 1)
             b == SubSeq(s, k + 1, Len(s))
  <1>1. /\ a \in Seq(S) /\ Len(a) = k - 1
        /\ \A i \in 1 .. k - 1 : a[i] = s[i]
    OBVIOUS
  <1>2. /\ b \in Seq(S) /\ Len(b) = Len(s) - k
        /\ \A i \in 1 .. Len(s) - k : b[i] = s[k + i]
    OBVIOUS
  <1>3. RemoveAt(s, k) = a \o b
    BY DEF RemoveAt
  <1> HIDE DEF a, b
  <1>4. /\ a \o b \in Seq(S) /\ Len(a \o b) = Len(a) + Len(b)
        /\ \A i \in 1 .. Len(a) + Len(b) :
             (a \o b)[i] = IF i <= Len(a) THEN a[i] ELSE b[i - Len(a)]
    BY <1>1, <1>2, ConcatProperties
  <1>5. Len(s) \in Nat /\ k \in 1 .. Len(s) /\ Len(a) + Len(b) = Len(s) - 1
    BY <1>1, <1>2
  <1>6. ASSUME NEW i \in 1 .. Len(s) - 1
        PROVE  (a \o b)[i] = IF i < k THEN s[i] ELSE s[i + 1]
    <2>1. (a \o b)[i] = IF i <= k - 1 THEN a[i] ELSE b[i - (k - 1)]
      BY <1>1, <1>4, <1>5
    <2>2. i <= k - 1 => a[i] = s[i]
      BY <1>1, <1>5
    <2>3. i > k - 1 => b[i - (k - 1)] = s[i + 1]
      <3>1. i > k - 1 => i - (k - 1) \in 1 .. Len(s) - k /\ k + (i - (k - 1)) = i + 1
        BY <1>5
      <3>2. QED BY <1>2, <3>1
    <2>4. QED BY <1>5, <2>1, <2>2, <2>3
  <1>7. QED BY <1>3, <1>4, <1>5, <1>6

\* A value put between the smaller and the larger ones of a sorted list.
Insertion(n, times, when, k, out) ==
  /\ n \in Nat /\ k \in 0 .. n /\ when \in Nat
  /\ \A i \in 1 .. n : times[i] \in Nat
  /\ \A i, j \in 1 .. n : i < j => times[i] < times[j]
  /\ \A i \in 1 .. k : times[i] < when
  /\ \A i \in k + 1 .. n : when < times[i]
  /\ \A i \in 1 .. n + 1 :
       out[i] = IF i < k + 1 THEN times[i] ELSE IF i = k + 1 THEN when ELSE times[i - 1]

Inserted(n, times, when, out) ==
  /\ \A i, j \in 1 .. n + 1 : i < j => out[i] < out[j]
  /\ \A i \in 1 .. n + 1 : out[i] = when \/ \E j \in 1 .. n : out[i] = times[j]
  /\ \A j \in 1 .. n : \E i \in 1 .. n + 1 : out[i] = times[j]
  /\ \E i \in 1 .. n + 1 : out[i] = when

LEMMA SortedInsertion ==
  ASSUME NEW n, NEW times, NEW when, NEW k, NEW out, Insertion(n, times, when, k, out)
  PROVE  Inserted(n, times, when, out)
  <1>0. /\ n \in Nat /\ k \in 0 .. n /\ when \in Nat
        /\ \A i \in 1 .. n : times[i] \in Nat
        /\ \A i, j \in 1 .. n : i < j => times[i] < times[j]
        /\ \A i \in 1 .. k : times[i] < when
        /\ \A i \in k + 1 .. n : when < times[i]
        /\ \A i \in 1 .. n + 1 :
             out[i] = IF i < k + 1 THEN times[i] ELSE IF i = k + 1 THEN when ELSE times[i - 1]
    BY DEF Insertion
  <1>1. ASSUME NEW i \in 1 .. n + 1
        PROVE  /\ i < k + 1 => out[i] = times[i] /\ i \in 1 .. k /\ i \in 1 .. n
               /\ i = k + 1 => out[i] = when
               /\ i > k + 1 => out[i] = times[i - 1] /\ i - 1 \in k + 1 .. n
                                /\ i - 1 \in 1 .. n
    BY <1>0
  <1>2. ASSUME NEW i \in 1 .. n + 1, NEW j \in 1 .. n + 1, i < j
        PROVE  out[i] < out[j]
    <2>1. CASE j < k + 1
      BY <1>0, <1>1, <1>2, <2>1
    <2>2. CASE j = k + 1
      BY <1>0, <1>1, <1>2, <2>2
    <2>3. CASE j > k + 1 /\ i < k + 1
      <3>1. i \in 1 .. n /\ j - 1 \in 1 .. n /\ i < j - 1
        BY <1>0, <1>1, <2>3
      <3>2. times[i] < times[j - 1]
        BY <1>0, <3>1
      <3>3. QED BY <1>1, <2>3, <3>2
    <2>4. CASE i = k + 1
      <3>1. j > k + 1
        BY <1>0, <1>2, <2>4
      <3>2. QED BY <1>0, <1>1, <2>4, <3>1
    <2>5. CASE i > k + 1
      <3>1. j > k + 1 /\ i - 1 < j - 1
        BY <1>0, <1>2, <2>5
      <3>2. i - 1 \in 1 .. n /\ j - 1 \in 1 .. n
        BY <1>0, <1>1, <2>5, <3>1
      <3>3. times[i - 1] < times[j - 1]
        BY <1>0, <3>1, <3>2
      <3>4. QED BY <1>1, <2>5, <3>1, <3>3
    <2>6. QED BY <1>0, <1>2, <2>1, <2>2, <2>3, <2>4, <2>5
  <1>3. ASSUME NEW i \in 1 .. n + 1
        PROVE  out[i] = when \/ \E j \in 1 .. n : out[i] = times[j]
    BY <1>0, <1>1
  <1>4. ASSUME NEW j \in 1 .. n
        PROVE  \E i \in 1 .. n + 1 : out[i] = times[j]
    <2>1. CASE j <= k
      <3>1. j \in 1 .. n + 1 /\ j < k + 1
        BY <1>0, <2>1
      <3>2. QED BY <1>0, <3>1
    <2>2. CASE j > k
      <3>1. j + 1 \in 1 .. n + 1 /\ ~ (j + 1 < k + 1) /\ j + 1 # k + 1 /\ (j + 1) - 1 = j
        BY <1>0, <2>2
      <3>2. QED BY <1>0, <3>1
    <2>3. QED BY <1>0, <2>1, <2>2
  <1>5. k + 1 \in 1 .. n + 1 /\ out[k + 1] = when
    BY <1>0
  <1>6. QED BY <1>2, <1>3, <1>4, <1>5 DEF Inserted

\* A time has its place in a sorted list of times.
LEMMA PlaceExists ==
  ASSUME NEW times \in Seq(Nat), NEW when \in Nat,
         \A i, j \in 1 .. Len(times) : i < j => times[i] < times[j]
  PROVE  \E k \in 0 .. Len(times) : /\ \A i \in 1 .. k : times[i] <= when
                                    /\ \A i \in k + 1 .. Len(times) : when < times[i]
  <1> DEFINE n == Len(times)
             later == {i \in 1 .. n + 1 : i = n + 1 \/ when < times[i]}
  <1>1. n \in Nat /\ later \in SUBSET Nat /\ later # {} /\ \A i \in 1 .. n : times[i] \in Nat
    <2>1. n \in Nat /\ \A i \in 1 .. n : times[i] \in Nat
      OBVIOUS
    <2>2. n + 1 \in later
      BY <2>1
    <2>3. QED BY <2>1, <2>2
  <1>2. PICK m \in later : \A y \in later : m <= y
    <2> HIDE DEF later
    <2>1. QED BY <1>1, LeastNatural
  <1>3. m \in 1 .. n + 1 /\ (m = n + 1 \/ when < times[m])
    OBVIOUS
  <1>4. PICK k \in 0 .. n : k = m - 1
    BY <1>1, <1>3
  <1>5. ASSUME NEW i \in 1 .. k
        PROVE  times[i] <= when
    <2>1. i \in 1 .. n /\ i \in 1 .. n + 1 /\ i # n + 1 /\ ~ (m <= i)
      BY <1>1, <1>3, <1>4
    <2>2. i \notin later
      BY <1>2, <2>1
    <2>3. QED BY <1>1, <2>1, <2>2
  <1>6. ASSUME NEW i \in k + 1 .. n
        PROVE  when < times[i]
    <2>1. i \in 1 .. n /\ m \in 1 .. n /\ m # n + 1
      BY <1>1, <1>3, <1>4
    <2>2. times[i] \in Nat /\ times[m] \in Nat /\ when < times[m]
      BY <1>1, <1>3, <2>1
    <2>3. m = i \/ m < i
      BY <1>1, <1>4, <2>1
    <2>4. m < i => times[m] < times[i]
      BY <2>1
    <2>5. QED BY <2>2, <2>3, <2>4
  <1>7. QED BY <1>5, <1>6

\* Where bisect.insort puts a time.
InsortsAt(times, when, k) ==
  /\ k \in 0 .. Len(times)
  /\ \A i \in 1 .. k : times[i] < when
  /\ \A i \in k + 1 .. Len(times) : when < times[i]
  /\ \A i \in 1 .. Len(times) + 1 :
       Insort(times, when)[i] =
         IF i < k + 1 THEN times[i] ELSE IF i = k + 1 THEN when ELSE times[i - 1]
  /\ Insort(times, when) \in Seq(Nat)
  /\ Len(Insort(times, when)) = Len(times) + 1

LEMMA InsortPlace ==
  ASSUME NEW times \in Seq(Nat), NEW when \in Nat,
         \A i, j \in 1 .. Len(times) : i < j => times[i] < times[j],
         \A i \in 1 .. Len(times) : times[i] # when
  PROVE  \E k : InsortsAt(times, when, k)
  <1> DEFINE n == Len(times)
             P(k) == /\ \A i \in 1 .. k : times[i] <= when
                     /\ \A i \in k + 1 .. n : when < times[i]
             k == CHOOSE k \in 0 .. n : P(k)
             out == InsertAt(times, k + 1, when)
  <1>1. n \in Nat
    OBVIOUS
  <1>4. k \in 0 .. n /\ P(k)
    BY PlaceExists
  <1>5. out = Insort(times, when)
    BY DEF Insort
  <1> HIDE DEF k
  <1>6. /\ \A i \in 1 .. n : times[i] \in Nat
        /\ \A i \in 1 .. k : times[i] < when
        /\ \A i \in k + 1 .. n : when < times[i]
    BY <1>1, <1>4
  <1>7. k + 1 \in 1 .. Len(times) + 1
    BY <1>1, <1>4
  <1>8. /\ out \in Seq(Nat) /\ Len(out) = n + 1
        /\ \A i \in 1 .. n + 1 :
             out[i] = IF i < k + 1 THEN times[i] ELSE IF i = k + 1 THEN when ELSE times[i - 1]
    <2>1. PICK pos \in 1 .. Len(times) + 1 : pos = k + 1
      BY <1>7
    <2>2. /\ InsertAt(times, pos, when) \in Seq(Nat)
          /\ Len(InsertAt(times, pos, when)) = Len(times) + 1
          /\ \A i \in 1 .. Len(times) + 1 :
               InsertAt(times, pos, when)[i] =
                 IF i < pos THEN times[i] ELSE IF i = pos THEN when ELSE times[i - 1]
      <3> HIDE DEF P, out, n
      <3>1. times \in Seq(Nat) /\ when \in Nat /\ pos \in 1 .. Len(times) + 1
        OBVIOUS
      <3>2. PICK N : N = Nat
        OBVIOUS
      <3>3. times \in Seq(N) /\ when \in N
        BY <3>1, <3>2
      <3>4. /\ InsertAt(times, pos, when) \in Seq(N)
            /\ Len(InsertAt(times, pos, when)) = Len(times) + 1
            /\ \A i \in 1 .. Len(times) + 1 :
                 InsertAt(times, pos, when)[i] =
                   IF i < pos THEN times[i] ELSE IF i = pos THEN when ELSE times[i - 1]
        BY ONLY <3>1, <3>3, InsertAtProperties
      <3>5. QED BY <3>2, <3>4
    <2>3. QED BY <2>1, <2>2
  <1> HIDE DEF out, P
  <1>9. InsortsAt(times, when, k)
    BY <1>4, <1>5, <1>6, <1>8 DEF InsortsAt
  <1>10. QED BY <1>9

\* bisect.insort keeps a strictly sorted list strictly sorted.
LEMMA InsortSorted ==
  ASSUME NEW times \in Seq(Nat), NEW when \in Nat,
         \A i, j \in 1 .. Len(times) : i < j => times[i] < times[j],
         \A i \in 1 .. Len(times) : times[i] # when
  PROVE  LET out == Insort(times, when)
         IN  /\ out \in Seq(Nat) /\ Len(out) = Len(times) + 1
             /\ \A i, j \in 1 .. Len(out) : i < j => out[i] < out[j]
             /\ \A i \in 1 .. Len(out) :
                  out[i] = when \/ \E j \in 1 .. Len(times) : out[i] = times[j]
             /\ \A j \in 1 .. Len(times) : \E i \in 1 .. Len(out) : out[i] = times[j]
             /\ \E i \in 1 .. Len(out) : out[i] = when
  <1> DEFINE n == Len(times)
             out == Insort(times, when)
  <1>1. n \in Nat /\ \A i \in 1 .. n : times[i] \in Nat
    OBVIOUS
  <1>2. PICK k : InsortsAt(times, when, k)
    BY InsortPlace
  <1>3. \A i, j \in 1 .. n : i < j => times[i] < times[j]
    OBVIOUS
  <1>4. out \in Seq(Nat) /\ Len(out) = n + 1
    BY <1>2 DEF InsortsAt
  <1> HIDE DEF out, n
  <1>5. Insertion(n, times, when, k, out)
    BY <1>1, <1>2, <1>3 DEF InsortsAt, Insertion, out, n
  <1>6. Inserted(n, times, when, out)
    BY <1>5, SortedInsertion
  <1>7. QED BY <1>4, <1>6 DEF n, out, Inserted

\* A value taken out of a strictly sorted list leaves the others, sorted.
Removal(n, times, k, out) ==
  /\ n \in Nat /\ k \in 1 .. n
  /\ \A i \in 1 .. n : times[i] \in Nat
  /\ \A i, j \in 1 .. n : i < j => times[i] < times[j]
  /\ \A i \in 1 .. n - 1 : out[i] = IF i < k THEN times[i] ELSE times[i + 1]

Removed(n, times, k, out) ==
  /\ \A i, j \in 1 .. n - 1 : i < j => out[i] < out[j]
  /\ \A i \in 1 .. n - 1 : \E j \in 1 .. n : out[i] = times[j] /\ j # k
  /\ \A j \in 1 .. n : j # k => \E i \in 1 .. n - 1 : out[i] = times[j]

LEMMA SortedRemoval ==
  ASSUME NEW n, NEW times, NEW k, NEW out, Removal(n, times, k, out)
  PROVE  Removed(n, times, k, out)
  <1>0. /\ n \in Nat /\ k \in 1 .. n
        /\ \A i \in 1 .. n : times[i] \in Nat
        /\ \A i, j \in 1 .. n : i < j => times[i] < times[j]
        /\ \A i \in 1 .. n - 1 : out[i] = IF i < k THEN times[i] ELSE times[i + 1]
    BY DEF Removal
  <1> USE <1>0
  <1>1. ASSUME NEW i \in 1 .. n - 1
        PROVE  /\ i < k => out[i] = times[i] /\ i \in 1 .. n
               /\ i >= k => out[i] = times[i + 1] /\ i + 1 \in 1 .. n
    OBVIOUS
  <1>2. ASSUME NEW i \in 1 .. n - 1, NEW j \in 1 .. n - 1, i < j
        PROVE  out[i] < out[j]
    <2>1. CASE j < k
      <3>1. i < k
        BY <1>2, <2>1
      <3>2. i \in 1 .. n /\ j \in 1 .. n
        OBVIOUS
      <3>3. times[i] < times[j]
        BY <1>2, <3>2
      <3>4. QED BY <1>1, <2>1, <3>1, <3>3
    <2>2. CASE j >= k /\ i < k
      <3>1. i \in 1 .. n /\ j + 1 \in 1 .. n /\ i < j + 1
        BY <1>2
      <3>2. times[i] < times[j + 1]
        BY <3>1
      <3>3. QED BY <1>1, <2>2, <3>2
    <2>3. CASE i >= k
      <3>1. i + 1 \in 1 .. n /\ j + 1 \in 1 .. n /\ i + 1 < j + 1 /\ j >= k
        BY <1>2, <2>3
      <3>2. times[i + 1] < times[j + 1]
        BY <3>1
      <3>3. QED BY <1>1, <2>3, <3>1, <3>2
    <2>4. QED BY <2>1, <2>2, <2>3
  <1>3. ASSUME NEW i \in 1 .. n - 1
        PROVE  \E j \in 1 .. n : out[i] = times[j] /\ j # k
    <2>1. CASE i < k
      BY <1>1, <2>1
    <2>2. CASE i >= k
      <3>1. i + 1 \in 1 .. n /\ i + 1 # k
        BY <2>2
      <3>2. QED BY <1>1, <2>2, <3>1
    <2>3. QED BY <2>1, <2>2
  <1>4. ASSUME NEW j \in 1 .. n, j # k
        PROVE  \E i \in 1 .. n - 1 : out[i] = times[j]
    <2>1. CASE j < k
      <3>1. j \in 1 .. n - 1
        BY <2>1
      <3>2. QED BY <1>1, <2>1, <3>1
    <2>2. CASE j > k
      <3>1. j - 1 \in 1 .. n - 1 /\ j - 1 >= k /\ (j - 1) + 1 = j
        BY <2>2
      <3>2. QED BY <1>1, <3>1
    <2>3. QED BY <1>4, <2>1, <2>2
  <1>5. QED BY <1>2, <1>3, <1>4 DEF Removed

\* Taking an entry out of a bucket keeps the two structures in step.
LEMMA DroppedGood ==
  ASSUME NEW p, NEW now \in Nat, Good(p, now),
         NEW when \in DOMAIN p.at, NEW i \in 1 .. Len(p.at[when])
  PROVE  Good(Dropped(p, when, i), now)
  <1> DEFINE q == Dropped(p, when, i)
             bucket == p.at[when]
             n == Len(p.times)
  <1>0. p.at \in [DOMAIN p.at -> Seq(Source)] /\ bucket \in Seq(Source) /\ n \in Nat
    <2>1. p.at \in [DOMAIN p.at -> Seq(Source)]
      BY DEF Good
    <2>2. bucket \in Seq(Source)
      BY <2>1
    <2>3. p.times \in Seq(Nat)
      BY DEF Good
    <2>4. n \in Nat
      BY <2>3
    <2>5. QED BY <2>1, <2>2, <2>4
  <1>1. CASE Len(bucket) > 1
    <2> DEFINE rest == RemoveAt(bucket, i)
    <2>1. rest \in Seq(Source) /\ Len(rest) = Len(bucket) - 1
      BY <1>0, RemoveAtProperties
    <2>2. rest # << >>
      BY <1>0, <1>1, <2>1
    <2> HIDE DEF rest
    <2>3. q = [p EXCEPT !.at[when] = rest]
      BY <1>1 DEF Dropped, rest
    <2>4. q = [times |-> p.times, at |-> [p.at EXCEPT ![when] = rest]]
      BY <2>3 DEF Good
    <2>5. q.times = p.times /\ q.at = [p.at EXCEPT ![when] = rest]
          /\ q = [times |-> q.times, at |-> q.at]
      BY <2>4
    <2>6. q.at \in [DOMAIN p.at -> Seq(Source)] /\ DOMAIN q.at = DOMAIN p.at
      BY <1>0, <2>1, <2>5
    <2>7. \A t \in DOMAIN q.at : q.at[t] # << >>
      BY <2>2, <2>5, <2>6 DEF Good
    <2> HIDE DEF q
    <2>8. Good(q, now)
      BY <2>5, <2>6, <2>7 DEF Good
    <2>9. QED BY <2>8 DEF q
  <1>2. CASE ~ (Len(bucket) > 1)
    <2> DEFINE k == FirstIndex(p.times, when)
               out == RemoveAt(p.times, k)
               at == [u \in DOMAIN p.at \ {when} |-> p.at[u]]
    <2>1. p.times \in Seq(Nat) /\ \E j \in 1 .. n : p.times[j] = when
      BY DEF Good
    <2>2. k \in 1 .. n /\ p.times[k] = when
      BY <2>1, FirstIndexFound
    <2> HIDE DEF k
    <2>3. PICK N : N = Nat
      OBVIOUS
    <2>4. p.times \in Seq(N)
      BY <2>1, <2>3
    <2>5. /\ out \in Seq(N) /\ Len(out) = n - 1
          /\ \A j \in 1 .. n - 1 :
               out[j] = IF j < k THEN p.times[j] ELSE p.times[j + 1]
      BY <2>2, <2>4, RemoveAtProperties
    <2>6. q = [times |-> out, at |-> at]
      BY <1>2 DEF Dropped, k
    <2> HIDE DEF out, n
    <2>7. /\ \A i_1 \in 1 .. n : p.times[i_1] \in Nat
          /\ \A i_1, j \in 1 .. n : i_1 < j => p.times[i_1] < p.times[j]
      BY <1>0, <2>1 DEF Good, n
    <2>8. /\ \A i_1, j \in 1 .. n - 1 : i_1 < j => out[i_1] < out[j]
          /\ \A i_1 \in 1 .. n - 1 : \E j \in 1 .. n : out[i_1] = p.times[j] /\ j # k
          /\ \A j \in 1 .. n : j # k => \E i_1 \in 1 .. n - 1 : out[i_1] = p.times[j]
      <3>1. Removal(n, p.times, k, out)
        BY <1>0, <2>2, <2>5, <2>7 DEF Removal
      <3>2. Removed(n, p.times, k, out)
        BY <3>1, SortedRemoval
      <3>3. QED BY <3>2 DEF Removed
    <2>9. \A j \in 1 .. n : j # k => p.times[j] # when
      BY <2>2, <2>7
    <2>10. /\ q.times = out /\ q.at = at /\ q = [times |-> q.times, at |-> q.at]
           /\ Len(q.times) = n - 1 /\ DOMAIN q.at = DOMAIN p.at \ {when}
           /\ q.times \in Seq(Nat)
      BY <2>3, <2>5, <2>6
    <2> HIDE DEF q, at
    <2>11. /\ \A i_1 \in 1 .. n - 1 : out[i_1] \in DOMAIN q.at
           /\ \A t \in DOMAIN q.at : \E i_1 \in 1 .. n - 1 : out[i_1] = t
      <3>1. \A j \in 1 .. n : p.times[j] \in DOMAIN p.at
        BY DEF Good, n
      <3>2. \A t \in DOMAIN p.at : \E j \in 1 .. n : p.times[j] = t
        BY DEF Good, n
      <3>3. ASSUME NEW i_1 \in 1 .. n - 1
            PROVE  out[i_1] \in DOMAIN q.at
        <4>1. PICK j \in 1 .. n : out[i_1] = p.times[j] /\ j # k
          BY <2>8
        <4>2. QED BY <2>9, <2>10, <3>1, <4>1
      <3>4. ASSUME NEW t \in DOMAIN q.at
            PROVE  \E i_1 \in 1 .. n - 1 : out[i_1] = t
        <4>1. t \in DOMAIN p.at /\ t # when
          BY <2>10
        <4>2. PICK j \in 1 .. n : p.times[j] = t
          BY <3>2, <4>1
        <4>3. j # k
          BY <2>2, <4>1, <4>2
        <4>4. QED BY <2>8, <4>2, <4>3
      <3>5. QED BY <3>3, <3>4
    <2>12. /\ q.at \in [DOMAIN q.at -> Seq(Source)]
           /\ \A t \in DOMAIN q.at : q.at[t] # << >>
           /\ \A t \in DOMAIN q.at : t \in Nat /\ now <= t
      <3>1. /\ \A t \in DOMAIN p.at : p.at[t] # << >>
            /\ \A t \in DOMAIN p.at : t \in Nat /\ now <= t
        BY DEF Good
      <3>2. \A t \in DOMAIN q.at : q.at[t] = p.at[t] /\ t \in DOMAIN p.at
        BY <2>10 DEF at
      <3>3. q.at = [t \in DOMAIN q.at |-> q.at[t]]
        BY <2>10 DEF at
      <3>4. QED BY <1>0, <3>1, <3>2, <3>3
    <2>13. Good(q, now)
      BY <2>8, <2>10, <2>11, <2>12 DEF Good
    <2>14. QED BY <2>13 DEF q
  <1>3. QED BY <1>1, <1>2

\* source_is_pending keeps the two structures in step.
LEMMA ScheduledGood ==
  ASSUME NEW p, lasteventtime \in Nat, Good(p, lasteventtime),
         NEW src \in Source, NEW when \in Nat
  PROVE  Good(Scheduled(p, src, when), lasteventtime)
  <1> DEFINE t == Clamped(when)
             q == Scheduled(p, src, when)
             n == Len(p.times)
  <1>0. /\ t \in Nat /\ lasteventtime <= t
        /\ p.at \in [DOMAIN p.at -> Seq(Source)] /\ p.times \in Seq(Nat) /\ n \in Nat
    <2>1. t \in Nat /\ lasteventtime <= t
      BY DEF Clamped
    <2>2. p.at \in [DOMAIN p.at -> Seq(Source)] /\ p.times \in Seq(Nat)
      BY DEF Good
    <2>3. n \in Nat
      BY <2>2
    <2>4. QED BY <2>1, <2>2, <2>3
  <1> HIDE DEF t
  <1>1. CASE ~ Accepts(t)
    BY <1>1 DEF Scheduled, t
  <1>2. CASE Accepts(t) /\ t \in DOMAIN p.at
    <2> DEFINE bucket == Append(p.at[t], src)
    <2>1. p.at[t] \in Seq(Source)
      BY <1>0, <1>2
    <2>2. bucket \in Seq(Source) /\ bucket # << >>
      BY <2>1
    <2> HIDE DEF bucket
    <2>3. q = [p EXCEPT !.at[t] = bucket]
      BY <1>2 DEF Scheduled, Joined, t, bucket
    <2>4. q = [times |-> p.times, at |-> [p.at EXCEPT ![t] = bucket]]
      BY <2>3 DEF Good
    <2>5. q.times = p.times /\ q.at = [p.at EXCEPT ![t] = bucket]
          /\ q = [times |-> q.times, at |-> q.at]
      BY <2>4
    <2>6. q.at \in [DOMAIN p.at -> Seq(Source)] /\ DOMAIN q.at = DOMAIN p.at
      BY <1>0, <2>2, <2>5
    <2>7. \A u \in DOMAIN q.at : q.at[u] # << >>
      BY <2>2, <2>5, <2>6 DEF Good
    <2> HIDE DEF q
    <2>8. Good(q, lasteventtime)
      BY <2>5, <2>6, <2>7 DEF Good
    <2>9. QED BY <2>8 DEF q
  <1>3. CASE Accepts(t) /\ t \notin DOMAIN p.at
    <2> DEFINE out == Insort(p.times, t)
               at == [u \in DOMAIN p.at \cup {t} |-> IF u = t THEN <<src>> ELSE p.at[u]]
    <2>1. q = [times |-> out, at |-> at]
      BY <1>3 DEF Scheduled, t
    <2>2. /\ \A i, j \in 1 .. n : i < j => p.times[i] < p.times[j]
          /\ \A i \in 1 .. n : p.times[i] \in DOMAIN p.at
          /\ \A u \in DOMAIN p.at : \E i \in 1 .. n : p.times[i] = u
      BY DEF Good
    <2>3. \A i \in 1 .. n : p.times[i] # t
      BY <1>3, <2>2
    <2> HIDE DEF out
    <2>4. /\ out \in Seq(Nat) /\ Len(out) = n + 1
          /\ \A i, j \in 1 .. Len(out) : i < j => out[i] < out[j]
          /\ \A i \in 1 .. Len(out) : out[i] = t \/ \E j \in 1 .. n : out[i] = p.times[j]
          /\ \A j \in 1 .. n : \E i \in 1 .. Len(out) : out[i] = p.times[j]
          /\ \E i \in 1 .. Len(out) : out[i] = t
      BY <1>0, <2>2, <2>3, InsortSorted DEF out
    <2>5. /\ q.times = out /\ q.at = at /\ q = [times |-> q.times, at |-> q.at]
          /\ DOMAIN q.at = DOMAIN p.at \cup {t}
      BY <2>1
    <2> HIDE DEF q, at, n
    <2>6. ASSUME NEW i \in 1 .. Len(out)
          PROVE  out[i] \in DOMAIN q.at
      BY <2>2, <2>4, <2>5
    <2>7. ASSUME NEW u \in DOMAIN q.at
          PROVE  \E i \in 1 .. Len(out) : out[i] = u
      <3>1. CASE u = t
        BY <2>4, <3>1
      <3>2. CASE u \in DOMAIN p.at
        <4>1. PICK j \in 1 .. n : p.times[j] = u
          BY <2>2, <3>2
        <4>2. QED BY <2>4, <4>1
      <3>3. QED BY <2>5, <3>1, <3>2
    <2>8. /\ q.at \in [DOMAIN q.at -> Seq(Source)]
          /\ \A u \in DOMAIN q.at : q.at[u] # << >>
          /\ \A u \in DOMAIN q.at : u \in Nat /\ lasteventtime <= u
      <3>1. /\ \A u \in DOMAIN p.at : p.at[u] # << >>
            /\ \A u \in DOMAIN p.at : u \in Nat /\ lasteventtime <= u
        BY DEF Good
      <3>2. <<src>> \in Seq(Source) /\ <<src>> # << >>
        OBVIOUS
      <3>3. \A u \in DOMAIN q.at : q.at[u] = IF u = t THEN <<src>> ELSE p.at[u]
        BY <2>5 DEF at
      <3>4. q.at = [u \in DOMAIN q.at |-> q.at[u]]
        BY <2>5 DEF at
      <3>5. QED BY <1>0, <2>5, <3>1, <3>2, <3>3, <3>4
    <2>9. Good(q, lasteventtime)
      BY <2>4, <2>5, <2>6, <2>7, <2>8 DEF Good
    <2>10. QED BY <2>9 DEF q
  <1>4. QED BY <1>1, <1>2, <1>3

\* Cancelling a source cancels its first entry, in the order of the times.
CancelsAt(p, src, k, i) ==
  /\ k \in 1 .. Len(p.times)
  /\ i \in 1 .. Len(p.at[p.times[k]])
  /\ p.at[p.times[k]][i] = src
  /\ \A j \in 1 .. i - 1 : p.at[p.times[k]][j] # src
  /\ \A l \in 1 .. k - 1 : \A j \in 1 .. Len(p.at[p.times[l]]) : p.at[p.times[l]][j] # src
  /\ Cancelled(p, src) = Dropped(p, p.times[k], i)

LEMMA CancelledWhere ==
  ASSUME NEW p, NEW now, Good(p, now), NEW src, Holds(p, src)
  PROVE  \E k, i : CancelsAt(p, src, k, i)
  <1> DEFINE P(k) == /\ src \in ToSet(p.at[p.times[k]])
                     /\ \A j \in 1 .. k - 1 : src \notin ToSet(p.at[p.times[j]])
             n == Len(p.times)
             T == {k \in 1 .. n : src \in ToSet(p.at[p.times[k]])}
             k == CHOOSE k \in DOMAIN p.times : P(k)
             t == p.times[k]
             i == FirstIndex(p.at[t], src)
  <1>1. /\ p.times \in Seq(Nat) /\ p.at \in [DOMAIN p.at -> Seq(Source)]
        /\ \A l \in 1 .. n : p.times[l] \in DOMAIN p.at
        /\ \A u \in DOMAIN p.at : \E l \in 1 .. n : p.times[l] = u
    BY DEF Good
  <1>2. n \in Nat /\ DOMAIN p.times = 1 .. n
    BY <1>1
  <1>3. T \in SUBSET Nat /\ T # {}
    <2>1. PICK u \in DOMAIN p.at : src \in ToSet(p.at[u])
      BY DEF Holds
    <2>2. PICK l \in 1 .. n : p.times[l] = u
      BY <1>1
    <2>3. l \in T
      BY <2>1, <2>2
    <2>4. QED BY <1>2, <2>3
  <1>4. PICK m \in T : \A y \in T : m <= y
    BY <1>3, LeastNatural
  <1>5. m \in 1 .. n /\ P(m)
    <2>1. m \in 1 .. n /\ src \in ToSet(p.at[p.times[m]])
      OBVIOUS
    <2>2. ASSUME NEW j \in 1 .. m - 1
          PROVE  src \notin ToSet(p.at[p.times[j]])
      <3>1. j \in 1 .. n /\ ~ (m <= j)
        BY <1>2, <2>1
      <3>2. j \notin T
        BY <1>4, <3>1
      <3>3. QED BY <3>1, <3>2
    <2>3. QED BY <2>1, <2>2
  <1>6. k \in 1 .. n /\ P(k)
    BY <1>2, <1>5
  <1>7. Cancelled(p, src) = Dropped(p, t, i)
    BY DEF Cancelled
  <1> HIDE DEF k
  <1>8. t \in DOMAIN p.at /\ src \in ToSet(p.at[t]) /\ p.at[t] \in Seq(Source)
    BY <1>1, <1>6
  <1>9. PICK x \in 1 .. Len(p.at[t]) : p.at[t][x] = src
    BY <1>8 DEF ToSet
  <1> HIDE DEF t
  <1>10. /\ i \in 1 .. Len(p.at[t]) /\ p.at[t][i] = src
         /\ \A j \in 1 .. i - 1 : p.at[t][j] # src
    BY <1>8, <1>9, FirstIndexFound
  <1> HIDE DEF i
  <1>11. ASSUME NEW l \in 1 .. k - 1, NEW j \in 1 .. Len(p.at[p.times[l]])
         PROVE  p.at[p.times[l]][j] # src
    <2>1. src \notin ToSet(p.at[p.times[l]])
      BY <1>6
    <2>2. l \in 1 .. n
      BY <1>2, <1>6
    <2>3. p.at[p.times[l]] \in Seq(Source)
      BY <1>1, <2>2
    <2>4. QED BY <2>1, <2>3 DEF ToSet
  <1>12. CancelsAt(p, src, k, i)
    BY <1>6, <1>7, <1>10, <1>11 DEF CancelsAt, t
  <1>13. QED BY <1>12

\* cancel_pending_source keeps the two structures in step.
LEMMA CancelledGood ==
  ASSUME NEW p, NEW now \in Nat, Good(p, now), NEW src \in Source
  PROVE  Good(Cancelled(p, src), now)
  <1>1. CASE ~ Holds(p, src)
    BY <1>1 DEF Cancelled
  <1>2. CASE Holds(p, src)
    <2>1. PICK k, i : CancelsAt(p, src, k, i)
      BY <1>2, CancelledWhere
    <2>2. PICK t : t = p.times[k]
      OBVIOUS
    <2>3. /\ t \in DOMAIN p.at /\ i \in 1 .. Len(p.at[t])
          /\ Cancelled(p, src) = Dropped(p, t, i)
      BY <2>1, <2>2 DEF CancelsAt, Good
    <2>4. Good(Dropped(p, t, i), now)
      BY <2>3, DroppedGood
    <2>5. QED BY <2>3, <2>4
  <1>3. QED BY <1>1, <1>2

------------------------------------------------------------------------------
\* The invariant of the event list, said of the two structures together: this
\* is the form the lemmas above preserve.
Inv == TypeOK /\ AgendaConsistent

Rest ==
  /\ endtime \in Nat
  /\ lasteventtime \in Nat
  /\ pending_triggers \in Seq(Target)
  /\ dispatched \in Source \cup Target \cup {None}

LEMMA InvIsGood == Inv <=> Rest /\ Good(Pending, lasteventtime)
  <1>1. Pending.times = sorted_times /\ Pending.at = pending_by_time
        /\ Pending = [times |-> Pending.times, at |-> Pending.at]
    BY DEF Pending
  <1>2. ASSUME Inv
        PROVE  Rest /\ Good(Pending, lasteventtime)
    <2>1. /\ Rest /\ sorted_times \in Seq(Nat)
          /\ pending_by_time \in [DOMAIN pending_by_time -> Seq(Source)]
      BY <1>2 DEF Inv, TypeOK, Rest
    <2>2. SortedTimes /\ SameTimes /\ NoEmptyBucket /\ NothingPast
      BY <1>2 DEF Inv, AgendaConsistent
    <2>3. \A i \in 1 .. Len(sorted_times) : sorted_times[i] \in Nat
      BY <2>1
    <2>4. \A t \in DOMAIN pending_by_time : t \in Nat
      BY <2>2, <2>3 DEF SameTimes
    <2>5. QED
      BY <1>1, <2>1, <2>2, <2>4
         DEF SortedTimes, SameTimes, NoEmptyBucket, NothingPast, Good
  <1>3. ASSUME Rest, Good(Pending, lasteventtime)
        PROVE  Inv
    <2>1. TypeOK
      BY <1>1, <1>3 DEF Rest, Good, TypeOK
    <2>2. SortedTimes /\ SameTimes
      BY <1>1, <1>3 DEF Good, SortedTimes, SameTimes
    <2>3. NoEmptyBucket /\ NothingPast
      BY <1>1, <1>3 DEF Good, NoEmptyBucket, NothingPast
    <2>4. QED BY <2>1, <2>2, <2>3 DEF Inv, AgendaConsistent
  <1>4. QED BY <1>2, <1>3

\* A step that replaces the two structures by good ones.
LEMMA BecomesGood ==
  ASSUME NEW p, Good(p, lasteventtime'), Becomes(p)
  PROVE  Good(Pending, lasteventtime)'
  <1>1. Pending' = p
    BY DEF Becomes, Pending, Good
  <1>2. QED BY <1>1

LEMMA InitInv == Init => Inv
  BY DEF Init, Inv, TypeOK, AgendaConsistent, SortedTimes, SameTimes, NoEmptyBucket,
         NothingPast

LEMMA StepInv ==
  ASSUME Inv, [Next]_evars
  PROVE  Inv'
  <1>0. Rest /\ Good(Pending, lasteventtime) /\ Pending.at = pending_by_time
        /\ Pending.times = sorted_times
    BY InvIsGood DEF Pending
  <1>1. (Rest /\ Good(Pending, lasteventtime) => Inv)'
    BY InvIsGood, PTL
  <1> SUFFICES Rest' /\ Good(Pending, lasteventtime)'
    BY <1>1
  <1>2. ASSUME UNCHANGED <<lasteventtime, pending_by_time, sorted_times>>
        PROVE  Good(Pending, lasteventtime)'
    BY <1>0, <1>2 DEF Pending
  <1>3. ASSUME NEW src \in Source, NEW when \in Time, SourceIsPending(src, when)
        PROVE  Rest' /\ Good(Pending, lasteventtime)'
    <2>1. when \in Nat
      BY MaxTimeAssumption DEF Time
    <2>2. Good(Scheduled(Pending, src, when), lasteventtime)
      BY <1>0, <2>1, ScheduledGood DEF Rest
    <2>3. Good(Pending, lasteventtime)'
      BY <1>3, <2>2, BecomesGood DEF SourceIsPending
    <2>4. QED BY <1>0, <1>3, <2>3 DEF SourceIsPending, Rest
  <1>4. ASSUME NEW src \in Source, NEW when \in Time, CancelPendingSourceByTime(src, when)
        PROVE  Rest' /\ Good(Pending, lasteventtime)'
    <2> DEFINE i == FirstIndex(pending_by_time[when], src)
    <2>1. when \in DOMAIN pending_by_time /\ src \in ToSet(pending_by_time[when])
          /\ pending_by_time[when] \in Seq(Source)
      BY <1>0, <1>4 DEF CancelPendingSourceByTime, HasEntry, Good
    <2>2. i \in 1 .. Len(pending_by_time[when])
      <3>1. PICK j \in 1 .. Len(pending_by_time[when]) : pending_by_time[when][j] = src
        BY <2>1 DEF ToSet
      <3>2. QED BY <2>1, <3>1, FirstIndexFound
    <2> HIDE DEF i
    <2>3. Good(Dropped(Pending, when, i), lasteventtime)
      BY <1>0, <2>1, <2>2, DroppedGood DEF Rest
    <2>4. Good(Pending, lasteventtime)'
      BY <1>4, <2>3, BecomesGood DEF CancelPendingSourceByTime, i
    <2>5. QED BY <1>0, <1>4, <2>4 DEF CancelPendingSourceByTime, Rest
  <1>5. ASSUME NEW src \in Source, NEW when \in Time, ReschedulePendingSource(src, when)
        PROVE  Rest' /\ Good(Pending, lasteventtime)'
    <2>1. when \in Nat
      BY MaxTimeAssumption DEF Time
    <2>2. Good(Cancelled(Pending, src), lasteventtime)
      BY <1>0, CancelledGood DEF Rest
    <2>3. Good(Scheduled(Cancelled(Pending, src), src, when), lasteventtime)
      BY <1>0, <2>1, <2>2, ScheduledGood DEF Rest
    <2>4. Good(Pending, lasteventtime)'
      BY <1>5, <2>3, BecomesGood DEF ReschedulePendingSource
    <2>5. QED BY <1>0, <1>5, <2>4 DEF ReschedulePendingSource, Rest
  <1>6. ASSUME NEW src \in Source, CancelPendingSource(src)
        PROVE  Rest' /\ Good(Pending, lasteventtime)'
    <2>1. Good(Cancelled(Pending, src), lasteventtime)
      BY <1>0, CancelledGood DEF Rest
    <2>2. Good(Pending, lasteventtime)'
      BY <1>6, <2>1, BecomesGood DEF CancelPendingSource
    <2>3. QED BY <1>0, <1>6, <2>2 DEF CancelPendingSource, Rest
  <1>7. ASSUME NEW targets \in BoundedSeq(Target, MaxTriggers), TriggersArePending(targets)
        PROVE  Rest' /\ Good(Pending, lasteventtime)'
    <2>1. targets \in Seq(Target)
      BY DEF BoundedSeq, SeqOf
    <2>2. pending_triggers' \in Seq(Target)
      BY <1>0, <1>7, <2>1, ConcatProperties DEF TriggersArePending, Rest
    <2>3. QED BY <1>0, <1>2, <1>7, <2>2 DEF TriggersArePending, Rest
  <1>8. ASSUME NEW t \in Time, SetEndtime(t)
        PROVE  Rest' /\ Good(Pending, lasteventtime)'
    BY <1>0, <1>2, <1>8, MaxTimeAssumption DEF SetEndtime, Rest, Time
  <1>9. ASSUME Reset
        PROVE  Rest' /\ Good(Pending, lasteventtime)'
    BY <1>9 DEF Reset, Rest, Good, Pending
  <1>10. ASSUME ActivateTrigger
         PROVE  Rest' /\ Good(Pending, lasteventtime)'
    <2>1. pending_triggers \in Seq(Target) /\ pending_triggers # << >>
      BY <1>0, <1>10 DEF Rest, ActivateTrigger
    <2>2. Last(pending_triggers) \in Target /\ Front(pending_triggers) \in Seq(Target)
      BY <2>1 DEF Last, Front
    <2>3. QED BY <1>0, <1>2, <1>10, <2>2 DEF ActivateTrigger, Rest
  <1>11. ASSUME RunSource
         PROVE  Rest' /\ Good(Pending, lasteventtime)'
    <2> DEFINE t == Head(sorted_times)
    <2>1. sorted_times \in Seq(Nat) /\ sorted_times # << >>
          /\ pending_by_time \in [DOMAIN pending_by_time -> Seq(Source)]
      BY <1>0, <1>11 DEF Good, RunSource
    <2>2. t = sorted_times[1] /\ 1 \in 1 .. Len(sorted_times) /\ t \in Nat
      BY <2>1
    <2>3. t \in DOMAIN pending_by_time /\ pending_by_time[t] # << >>
      BY <1>0, <2>2 DEF Good
    <2> HIDE DEF t
    <2>4. \A u \in DOMAIN pending_by_time : t <= u
      <3>1. TAKE u \in DOMAIN pending_by_time
      <3>2. PICK i \in 1 .. Len(sorted_times) : sorted_times[i] = u
        BY <1>0 DEF Good
      <3>3. i = 1 \/ sorted_times[1] < sorted_times[i]
        <4>1. \A j, k \in 1 .. Len(Pending.times) :
                j < k => Pending.times[j] < Pending.times[k]
          BY <1>0 DEF Good
        <4>2. 1 \in 1 .. Len(sorted_times) /\ (i = 1 \/ 1 < i)
          BY <2>2
        <4>3. QED BY <1>0, <4>1, <4>2
      <3>4. u \in Nat
        BY <1>0 DEF Good
      <3>5. QED BY <2>2, <3>2, <3>3, <3>4
    <2>5. Good(Pending, t)
      BY <1>0, <2>4 DEF Good
    <2>6. pending_by_time[t] \in Seq(Source) /\ 1 \in 1 .. Len(pending_by_time[t])
          /\ Head(pending_by_time[t]) \in Source
      BY <2>1, <2>3
    <2>7. Good(Dropped(Pending, t, 1), t)
      BY <1>0, <2>2, <2>3, <2>5, <2>6, DroppedGood
    <2>8. lasteventtime' = t /\ Becomes(Dropped(Pending, t, 1))
      BY <1>11 DEF RunSource, t
    <2>9. Good(Pending, lasteventtime)'
      BY <2>7, <2>8, BecomesGood
    <2>10. dispatched' \in Source
      BY <1>11, <2>6 DEF RunSource, t
    <2>11. QED BY <1>0, <1>11, <2>2, <2>8, <2>9, <2>10 DEF RunSource, Rest
  <1>12. CASE UNCHANGED evars
    BY <1>0, <1>2, <1>12 DEF evars, Rest
  <1>13. CASE Next
    <2>1. ASSUME NEW src \in Source, NEW when \in Time, Call(src, when)
          PROVE  Rest' /\ Good(Pending, lasteventtime)'
      BY <1>3, <1>4, <1>5, <2>1
         DEF Call, SourceIsPendingGetHandle, CancelPendingSourceByHandle
    <2>2. QED BY <1>6, <1>7, <1>8, <1>9, <1>10, <1>11, <1>13, <2>1 DEF Next, DoNextEvent
  <1>14. QED BY <1>12, <1>13

\* The two structures stay in step and nothing pending is ever in the past, so
\* no do_next_event meets a KeyError, an empty bucket or a failed assertion.
THEOREM AgendaHolds == Spec => []AgendaConsistent
  <1>1. Inv /\ [Next]_evars => Inv'
    BY StepInv
  <1>2. Spec => []Inv
    BY InitInv, <1>1, PTL DEF Spec
  <1>3. Inv => AgendaConsistent
    BY DEF Inv
  <1>4. QED BY <1>2, <1>3, PTL

\* The times and lists of the agenda keep their types, whatever is called.
THEOREM EventListTypeCorrect == Spec => []TypeOK
  <1>1. Inv /\ [Next]_evars => Inv'
    BY StepInv
  <1>2. Spec => []Inv
    BY InitInv, <1>1, PTL DEF Spec
  <1>3. Inv => TypeOK
    BY DEF Inv
  <1>4. QED BY <1>2, <1>3, PTL

\* The clock moves forward only, and only when no trigger waits.
THEOREM ClockHolds == Spec => ClockMovesForward
  <1> DEFINE Forward == \/ Reset
                        \/ lasteventtime' = lasteventtime
                        \/ lasteventtime' > lasteventtime /\ pending_triggers = << >>
  <1>1. ASSUME Inv, Next
        PROVE  Forward
    <2>1. ASSUME RunSource
          PROVE  Forward
      <3>1. sorted_times \in Seq(Nat) /\ sorted_times # << >> /\ lasteventtime \in Nat
            /\ pending_triggers = << >> /\ lasteventtime' = Head(sorted_times)
        BY <1>1, <2>1 DEF Inv, TypeOK, RunSource
      <3>2. Head(sorted_times) = sorted_times[1] /\ 1 \in 1 .. Len(sorted_times)
            /\ Head(sorted_times) \in Nat
        BY <3>1
      <3>3. lasteventtime <= Head(sorted_times)
        BY <1>1, <3>2 DEF Inv, AgendaConsistent, SameTimes, NothingPast
      <3>4. QED BY <3>1, <3>2, <3>3
    <2>2. ASSUME NEW src \in Source, NEW when \in Time, Call(src, when)
          PROVE  Forward
      BY <2>2 DEF Call, SourceIsPending, SourceIsPendingGetHandle,
         CancelPendingSourceByTime, CancelPendingSourceByHandle, ReschedulePendingSource
    <2>3. ASSUME NEW src \in Source, CancelPendingSource(src)
          PROVE  Forward
      BY <2>3 DEF CancelPendingSource
    <2>4. ASSUME NEW targets, TriggersArePending(targets)
          PROVE  Forward
      BY <2>4 DEF TriggersArePending
    <2>5. ASSUME NEW t, SetEndtime(t)
          PROVE  Forward
      BY <2>5 DEF SetEndtime
    <2>6. ASSUME ActivateTrigger
          PROVE  Forward
      BY <2>6 DEF ActivateTrigger
    <2> HIDE DEF Forward
    <2>7. Reset => Forward
      BY DEF Forward
    <2>8. QED BY <1>1, <2>1, <2>2, <2>3, <2>4, <2>5, <2>6, <2>7 DEF Next, DoNextEvent
  <1>2. Inv /\ [Next]_evars => Inv'
    BY StepInv
  <1>3. Inv /\ [Next]_evars => [Forward]_evars
    BY <1>1
  <1>4. QED BY InitInv, <1>2, <1>3, PTL DEF Spec, ClockMovesForward
------------------------------------------------------------------------------
\* The entries of the event list, time by time.

Entry == [at : Nat, src : Source]
UpTo(t) == {e \in Entry : e.at <= t}
After(t) == {e \in Entry : t < e.at}

Slot(t, b) == [j \in 1 .. Len(b) |-> [at |-> t, src |-> b[j]]]
Slots(p) == [k \in 1 .. Len(p.times) |-> Slot(p.times[k], p.at[p.times[k]])]
Flat(p) == FlattenSeq(Slots(p))

\* The entries for one time, of an event list that is in order.
LEMMA SlotType ==
  ASSUME NEW t \in Nat, NEW b \in Seq(Source)
  PROVE  /\ Slot(t, b) \in Seq(Entry)
         /\ Len(Slot(t, b)) = Len(b)
         /\ \A j \in 1 .. Len(b) : Slot(t, b)[j] = [at |-> t, src |-> b[j]]
  <1>1. Len(b) \in Nat /\ \A j \in 1 .. Len(b) : [at |-> t, src |-> b[j]] \in Entry
    BY DEF Entry
  <1>2. QED BY <1>1 DEF Slot

LEMMA SlotAt ==
  ASSUME NEW t \in Nat, NEW b \in Seq(Source), NEW Y,
         \A j \in 1 .. Len(b) : [at |-> t, src |-> b[j]] \in Y
  PROVE  Slot(t, b) \in Seq(Y)
  <1>1. Len(b) \in Nat
    OBVIOUS
  <1>2. QED BY <1>1 DEF Slot

LEMMA SlotsType ==
  ASSUME NEW p, NEW m, Good(p, m)
  PROVE  /\ Slots(p) \in Seq(Seq(Entry))
         /\ Len(Slots(p)) = Len(p.times) /\ Len(p.times) \in Nat
         /\ \A k \in 1 .. Len(p.times) :
              /\ p.times[k] \in Nat /\ p.times[k] \in DOMAIN p.at
              /\ p.at[p.times[k]] \in Seq(Source)
              /\ Slots(p)[k] = Slot(p.times[k], p.at[p.times[k]])
  <1>1. p.times \in Seq(Nat)
    BY DEF Good
  <1>2. Len(p.times) \in Nat /\ \A k \in 1 .. Len(p.times) : p.times[k] \in Nat
    BY <1>1
  <1>3. \A k \in 1 .. Len(p.times) : p.times[k] \in DOMAIN p.at /\ p.at[p.times[k]] \in Seq(Source)
    BY DEF Good
  <1>4. \A k \in 1 .. Len(p.times) : Slot(p.times[k], p.at[p.times[k]]) \in Seq(Entry)
    BY <1>2, <1>3, SlotType
  <1>5. QED BY <1>2, <1>3, <1>4 DEF Slots

LEMMA EarlyAre ==
  ASSUME NEW p, NEW m, Good(p, m), NEW k \in 0 .. Len(p.times), NEW Y,
         \A i \in 1 .. k : \A j \in 1 .. Len(p.at[p.times[i]]) :
           [at |-> p.times[i], src |-> p.at[p.times[i]][j]] \in Y
  PROVE  Early(Slots(p), k) \in Seq(Y)
  <1> DEFINE q == Slots(p)
  <1>1. q \in Seq(Seq(Entry)) /\ k \in 0 .. Len(q) /\ k \in Nat /\ Len(p.times) \in Nat
    BY SlotsType
  <1>2. ASSUME NEW i \in 1 .. k
        PROVE  q[i] \in Seq(Y)
    <2>1. i \in 1 .. Len(p.times)
      BY <1>1
    <2>2. p.times[i] \in Nat /\ p.at[p.times[i]] \in Seq(Source)
          /\ q[i] = Slot(p.times[i], p.at[p.times[i]])
      BY <2>1, SlotsType
    <2>3. QED BY <2>2, SlotAt
  <1> HIDE DEF q
  <1>3. Early(q, k) \in Seq(Y)
    BY <1>1, <1>2, EarlyType
  <1>4. QED BY <1>3 DEF q

LEMMA LateAre ==
  ASSUME NEW p, NEW m, Good(p, m), NEW k \in 0 .. Len(p.times), NEW Y,
         \A i \in k + 1 .. Len(p.times) : \A j \in 1 .. Len(p.at[p.times[i]]) :
           [at |-> p.times[i], src |-> p.at[p.times[i]][j]] \in Y
  PROVE  Late(Slots(p), k) \in Seq(Y)
  <1> DEFINE q == Slots(p)
  <1>1. q \in Seq(Seq(Entry)) /\ k \in 0 .. Len(q) /\ k \in Nat /\ Len(p.times) \in Nat
        /\ Len(q) = Len(p.times)
    BY SlotsType
  <1>2. ASSUME NEW i \in k + 1 .. Len(q)
        PROVE  q[i] \in Seq(Y)
    <2>1. i \in 1 .. Len(p.times) /\ i \in k + 1 .. Len(p.times)
      BY <1>1
    <2>2. p.times[i] \in Nat /\ p.at[p.times[i]] \in Seq(Source)
          /\ q[i] = Slot(p.times[i], p.at[p.times[i]])
      BY <2>1, SlotsType
    <2>3. QED BY <2>1, <2>2, SlotAt
  <1> HIDE DEF q
  <1>3. Late(q, k) \in Seq(Y)
    BY <1>1, <1>2, LateType
  <1>4. QED BY <1>3 DEF q

\* The entries up to a time, and those after it.
LEMMA EarlyUpTo ==
  ASSUME NEW p, NEW m, Good(p, m), NEW k \in 0 .. Len(p.times), NEW t \in Nat,
         \A i \in 1 .. k : p.times[i] <= t
  PROVE  Early(Slots(p), k) \in Seq(UpTo(t))
  <1>1. ASSUME NEW i \in 1 .. k, NEW j \in 1 .. Len(p.at[p.times[i]])
        PROVE  [at |-> p.times[i], src |-> p.at[p.times[i]][j]] \in UpTo(t)
    <2>1. i \in 1 .. Len(p.times)
      BY SlotsType
    <2>2. p.times[i] \in Nat /\ p.at[p.times[i]] \in Seq(Source)
      BY <2>1, SlotsType
    <2>3. p.at[p.times[i]][j] \in Source
      BY <2>2
    <2>4. QED BY <2>2, <2>3 DEF UpTo, Entry
  <1>2. QED BY <1>1, EarlyAre

LEMMA LateAfter ==
  ASSUME NEW p, NEW m, Good(p, m), NEW k \in 0 .. Len(p.times), NEW t \in Nat,
         \A i \in k + 1 .. Len(p.times) : t < p.times[i]
  PROVE  Late(Slots(p), k) \in Seq(After(t))
  <1>1. ASSUME NEW i \in k + 1 .. Len(p.times), NEW j \in 1 .. Len(p.at[p.times[i]])
        PROVE  [at |-> p.times[i], src |-> p.at[p.times[i]][j]] \in After(t)
    <2>1. i \in 1 .. Len(p.times)
      BY SlotsType
    <2>2. p.times[i] \in Nat /\ p.at[p.times[i]] \in Seq(Source)
      BY <2>1, SlotsType
    <2>3. p.at[p.times[i]][j] \in Source
      BY <2>2
    <2>4. QED BY <2>2, <2>3 DEF After, Entry
  <1>2. QED BY <1>1, LateAre

\* Between them is where the calendar puts a new entry.
LEMMA AheadIs ==
  ASSUME NEW t \in Nat, NEW a \in Seq(UpTo(t)), NEW b \in Seq(After(t))
  PROVE  C!Ahead(a \o b, t) = Len(a)
  <1> DEFINE w == a \o b
             P(k) == /\ \A i \in 1 .. k : w[i].at <= t
                     /\ \A i \in k + 1 .. Len(w) : t < w[i].at
  <1>1. a \in Seq(Entry) /\ b \in Seq(Entry)
    <2>1. UpTo(t) \subseteq Entry /\ After(t) \subseteq Entry
      BY DEF UpTo, After
    <2>2. QED BY <2>1, SeqMonotonic
  <1>2. /\ w \in Seq(Entry) /\ Len(w) = Len(a) + Len(b)
        /\ \A i \in 1 .. Len(a) + Len(b) : w[i] = IF i <= Len(a) THEN a[i] ELSE b[i - Len(a)]
    BY <1>1, ConcatProperties
  <1>3. Len(a) \in Nat /\ Len(b) \in Nat
    OBVIOUS
  <1>4. \A i \in 1 .. Len(a) : a[i].at \in Nat /\ a[i].at <= t
    BY DEF UpTo, Entry
  <1>5. \A i \in 1 .. Len(b) : b[i].at \in Nat /\ t < b[i].at
    BY DEF After, Entry
  <1> HIDE DEF w
  <1>6. P(Len(a))
    <2>1. \A i \in 1 .. Len(a) : w[i].at <= t
      BY <1>2, <1>3, <1>4
    <2>2. ASSUME NEW i \in Len(a) + 1 .. Len(w)
          PROVE  t < w[i].at
      <3>1. i \in 1 .. Len(a) + Len(b) /\ ~ (i <= Len(a)) /\ i - Len(a) \in 1 .. Len(b)
        BY <1>2, <1>3
      <3>2. QED BY <1>2, <1>5, <3>1
    <2>3. QED BY <2>1, <2>2
  <1>7. ASSUME NEW k \in 0 .. Len(w), P(k)
        PROVE  k = Len(a)
    <2>1. CASE k < Len(a)
      <3>1. Len(a) \in k + 1 .. Len(w) /\ Len(a) \in 1 .. Len(a)
        BY <1>2, <1>3, <2>1
      <3>2. t < w[Len(a)].at /\ w[Len(a)].at <= t
        BY <1>6, <1>7, <3>1
      <3>3. w[Len(a)].at \in Nat
        BY <1>2, <1>3, <1>4, <3>1
      <3>4. QED BY <3>2, <3>3
    <2>2. CASE k > Len(a)
      <3>1. k \in 1 .. k /\ k \in Len(a) + 1 .. Len(w)
        BY <1>2, <1>3, <2>2
      <3>2. t < w[k].at /\ w[k].at <= t
        BY <1>6, <1>7, <3>1
      <3>3. w[k].at \in Nat
        <4>1. k \in 1 .. Len(a) + Len(b) /\ ~ (k <= Len(a)) /\ k - Len(a) \in 1 .. Len(b)
          BY <1>2, <1>3, <2>2
        <4>2. QED BY <1>2, <1>5, <4>1
      <3>4. QED BY <3>2, <3>3
    <2>3. QED BY <1>3, <2>1, <2>2
  <1>8. C!Ahead(w, t) = CHOOSE k \in 0 .. Len(w) : P(k)
    BY DEF C!Ahead
  <1>9. Len(a) \in 0 .. Len(w)
    BY <1>2, <1>3
  <1> HIDE DEF P
  <1>10. C!Ahead(w, t) = Len(a)
    BY <1>6, <1>7, <1>8, <1>9
  <1>11. QED BY <1>10 DEF w

\* What the calendar makes of a call to schedule.
LEMMA PutBetween ==
  ASSUME NEW src \in Source, NEW when \in Nat, lasteventtime \in Nat,
         NEW a \in Seq(UpTo(Clamped(when))), NEW b \in Seq(After(Clamped(when)))
  PROVE  C!With(a \o b, src, when) =
           IF Accepts(Clamped(when))
           THEN (a \o <<[at |-> Clamped(when), src |-> src]>>) \o b
           ELSE a \o b
  <1>1. PICK t : t = Clamped(when)
    OBVIOUS
  <1>2. t \in Nat
    BY <1>1 DEF Clamped
  <1>3. C!Latest(when, lasteventtime) = t
    BY <1>1 DEF C!Latest, Clamped
  <1> DEFINE e == [at |-> t, src |-> src]
  <1>4. a \in Seq(UpTo(t)) /\ b \in Seq(After(t))
    BY <1>1
  <1>5. a \in Seq(Entry) /\ b \in Seq(Entry) /\ e \in Entry
    <2>1. UpTo(t) \subseteq Entry /\ After(t) \subseteq Entry
      BY DEF UpTo, After
    <2>2. QED BY <1>2, <1>4, <2>1, SeqMonotonic DEF Entry
  <1>6. C!Ahead(a \o b, t) = Len(a)
    BY <1>2, <1>4, AheadIs
  <1>7. C!With(a \o b, src, when) =
          IF Accepts(t) THEN InsertAt(a \o b, C!Ahead(a \o b, t) + 1, e) ELSE a \o b
    BY <1>3 DEF C!With, C!InsertAt, InsertAt, Accepts
  <1> HIDE DEF e
  <1>8. InsertAt(a \o b, Len(a) + 1, e) = (a \o <<e>>) \o b
    BY <1>5, InsertBetween
  <1>9. QED BY <1>1, <1>6, <1>7, <1>8 DEF e
------------------------------------------------------------------------------
\* An entry taken out of the middle of three lists.
LEMMA RemoveBetween ==
  ASSUME NEW X, NEW a \in Seq(X), NEW s \in Seq(X), NEW b \in Seq(X),
         NEW j \in 1 .. Len(s), NEW m \in Nat, m = Len(a) + j
  PROVE  RemoveAt((a \o s) \o b, m) = (a \o RemoveAt(s, j)) \o b
  <1> DEFINE w == (a \o s) \o b
             r == RemoveAt(s, j)
             v == (a \o r) \o b
             x == RemoveAt(w, m)
  <1>1. Len(a) \in Nat /\ Len(s) \in Nat /\ Len(b) \in Nat /\ j \in Nat
    OBVIOUS
  <1>2. /\ r \in Seq(X) /\ Len(r) = Len(s) - 1
        /\ \A i \in 1 .. Len(s) - 1 : r[i] = IF i < j THEN s[i] ELSE s[i + 1]
    BY RemoveAtProperties
  <1>3. w \in Seq(X) /\ Beside(w, a, s, b)
    BY ThreeLists
  <1> HIDE DEF r
  <1>4. v \in Seq(X) /\ Beside(v, a, r, b)
    BY <1>2, ThreeLists
  <1> HIDE DEF w, v
  <1>5. m \in 1 .. Len(w)
    BY <1>1, <1>3 DEF Beside
  <1>6. /\ x \in Seq(X) /\ Len(x) = Len(w) - 1
        /\ \A i \in 1 .. Len(w) - 1 : x[i] = IF i < m THEN w[i] ELSE w[i + 1]
    BY <1>3, <1>5, RemoveAtProperties
  <1> HIDE DEF x
  <1>7. Len(x) = Len(v) /\ Len(w) = Len(a) + Len(s) + Len(b)
    BY <1>1, <1>2, <1>3, <1>4, <1>6 DEF Beside
  <1>8. ASSUME NEW i \in 1 .. Len(x)
        PROVE  x[i] = v[i]
    <2>1. i \in 1 .. Len(w) - 1 /\ i \in Nat
      BY <1>6
    <2>2. x[i] = IF i < m THEN w[i] ELSE w[i + 1]
      BY <1>6, <2>1
    <2>3. CASE i <= Len(a)
      <3>1. i \in 1 .. Len(a) /\ i < m
        BY <1>1, <2>1, <2>3
      <3>2. w[i] = a[i] /\ v[i] = a[i]
        BY <1>3, <1>4, <3>1 DEF Beside
      <3>3. QED BY <2>2, <3>1, <3>2
    <2>4. CASE Len(a) < i /\ i < m
      <3>1. PICK k : k = i - Len(a)
        OBVIOUS
      <3>2. k \in 1 .. Len(s) /\ k \in 1 .. Len(s) - 1 /\ k < j /\ k \in 1 .. Len(r) /\ i = Len(a) + k
        BY <1>1, <1>2, <2>1, <2>4, <3>1
      <3>3. w[i] = s[k] /\ v[i] = r[k]
        BY <1>3, <1>4, <3>2 DEF Beside
      <3>4. QED BY <1>2, <2>2, <2>4, <3>2, <3>3
    <2>5. CASE m <= i /\ i < Len(a) + Len(s)
      <3>1. PICK k : k = i - Len(a)
        OBVIOUS
      <3>2. /\ k + 1 \in 1 .. Len(s) /\ k \in 1 .. Len(s) - 1 /\ ~ (k < j) /\ k \in 1 .. Len(r)
            /\ i = Len(a) + k /\ i + 1 = Len(a) + (k + 1) /\ ~ (i < m)
        BY <1>1, <1>2, <2>1, <2>5, <3>1
      <3>3. w[i + 1] = s[k + 1] /\ v[i] = r[k]
        BY <1>3, <1>4, <3>2 DEF Beside
      <3>4. QED BY <1>2, <2>2, <3>2, <3>3
    <2>6. CASE Len(a) + Len(s) <= i
      <3>1. PICK k : k = i - Len(a) - Len(s) + 1
        OBVIOUS
      <3>2. /\ k \in 1 .. Len(b) /\ i + 1 = Len(a) + Len(s) + k /\ i = Len(a) + Len(r) + k
            /\ ~ (i < m)
        BY <1>1, <1>2, <1>7, <2>1, <2>6, <3>1
      <3>3. w[i + 1] = b[k] /\ v[i] = b[k]
        BY <1>3, <1>4, <3>2 DEF Beside
      <3>4. QED BY <2>2, <3>2, <3>3
    <2>7. i <= Len(a) \/ (Len(a) < i /\ i < m) \/ (m <= i /\ i < Len(a) + Len(s))
            \/ Len(a) + Len(s) <= i
      BY <1>1, <2>1
    <2>8. QED BY <2>3, <2>4, <2>5, <2>6, <2>7
  <1>9. x = v
    BY <1>4, <1>6, <1>7, <1>8, SeqEqual
  <1>10. QED BY <1>9 DEF w, v, x, r

\* What the calendar makes of a call to cancel: the first of a set of entries
\* goes.
NoneOf(a, E) == \A i \in 1 .. Len(a) : a[i] \notin E
FirstOf(s, j, E) == s[j] \in E /\ \A i \in 1 .. j - 1 : s[i] \notin E

LEMMA TakenOut ==
  ASSUME NEW X, NEW E, NEW a \in Seq(X), NEW s \in Seq(X), NEW b \in Seq(X),
         NEW j \in 1 .. Len(s), FirstOf(s, j, E), NoneOf(a, E)
  PROVE  C!WithoutFirst((a \o s) \o b, E) = (a \o RemoveAt(s, j)) \o b
  <1>0. s[j] \in E /\ \A i \in 1 .. j - 1 : s[i] \notin E
    BY DEF FirstOf
  <1> DEFINE w == (a \o s) \o b
             P(i) == w[i] \in E /\ \A l \in 1 .. i - 1 : w[l] \notin E
  <1>1. Len(a) \in Nat /\ Len(s) \in Nat /\ Len(b) \in Nat /\ j \in Nat
    OBVIOUS
  <1>3. w \in Seq(X) /\ Beside(w, a, s, b)
    BY ThreeLists
  <1>4. \A i \in 1 .. Len(a) : a[i] \notin E
    BY DEF NoneOf
  <1> HIDE DEF w
  <1>5. PICK m : m = Len(a) + j
    OBVIOUS
  <1>6. m \in 1 .. Len(w) /\ m \in DOMAIN w /\ DOMAIN w = 1 .. Len(w)
    BY <1>1, <1>3, <1>5 DEF Beside
  <1>7. P(m)
    <2>1. w[m] \in E
      BY <1>0, <1>3, <1>5 DEF Beside
    <2>2. ASSUME NEW l \in 1 .. m - 1
          PROVE  w[l] \notin E
      <3>1. CASE l <= Len(a)
        <4>1. l \in 1 .. Len(a)
          BY <1>1, <3>1
        <4>2. QED BY <1>3, <1>4, <4>1 DEF Beside
      <3>2. CASE l > Len(a)
        <4>1. PICK k : k = l - Len(a)
          OBVIOUS
        <4>2. k \in 1 .. Len(s) /\ k \in 1 .. j - 1 /\ l = Len(a) + k
          BY <1>1, <1>5, <3>2, <4>1
        <4>3. w[l] = s[k]
          BY <1>3, <4>2 DEF Beside
        <4>4. QED BY <1>0, <4>2, <4>3
      <3>3. QED BY <1>1, <1>5, <3>1, <3>2
    <2>3. QED BY <2>1, <2>2
  <1>8. ASSUME NEW i \in DOMAIN w, P(i)
        PROVE  i = m
    <2>1. CASE i < m
      <3>1. i \in 1 .. m - 1
        BY <1>6, <2>1
      <3>2. QED BY <1>7, <1>8, <3>1
    <2>2. CASE m < i
      <3>1. m \in 1 .. i - 1
        BY <1>6, <2>2
      <3>2. QED BY <1>7, <1>8, <3>1
    <2>3. QED BY <1>6, <2>1, <2>2
  <1>9. ToSet(w) \cap E # {}
    BY <1>6, <1>7 DEF ToSet
  <1> DEFINE i == CHOOSE i \in DOMAIN w : P(i)
  <1>10. C!WithoutFirst(w, E) = RemoveAt(w, i)
    BY <1>9 DEF C!WithoutFirst, C!ToSet, ToSet, C!RemoveAt, RemoveAt
  <1> HIDE DEF P
  <1>11. i = m
    BY <1>6, <1>7, <1>8
  <1>12. RemoveAt((a \o s) \o b, m) = (a \o RemoveAt(s, j)) \o b
    <2>1. m \in Nat
      BY <1>1, <1>5
    <2>2. QED BY <1>5, <2>1, RemoveBetween
  <1>13. QED BY <1>10, <1>11, <1>12 DEF w

LEMMA NoneTakenOut ==
  ASSUME NEW w, NEW E, \A i \in DOMAIN w : w[i] \notin E
  PROVE  C!WithoutFirst(w, E) = w
  <1>1. C!ToSet(w) \cap E = {}
    BY DEF C!ToSet
  <1>2. QED BY <1>1 DEF C!WithoutFirst

\* The first entry of the agenda goes.
LEMMA FirstTaken ==
  ASSUME NEW X, NEW s \in Seq(X), NEW b \in Seq(X), Len(s) > 0
  PROVE  /\ Head((<< >> \o s) \o b) = s[1]
         /\ Tail((<< >> \o s) \o b) = (<< >> \o RemoveAt(s, 1)) \o b
         /\ (<< >> \o s) \o b # << >>
  <1> DEFINE a == << >>
             w == (a \o s) \o b
  <1>1. a \in Seq(X) /\ Len(a) = 0 /\ 1 \in 1 .. Len(s) /\ 1 = Len(a) + 1
    OBVIOUS
  <1> HIDE DEF a
  <1>2. w \in Seq(X) /\ Beside(w, a, s, b)
    BY <1>1, ThreeLists
  <1>3. RemoveAt((a \o s) \o b, 1) = (a \o RemoveAt(s, 1)) \o b
    <2>1. PICK j \in 1 .. Len(s) : j = 1
      BY <1>1
    <2>2. PICK m \in Nat : m = Len(a) + j
      BY <1>1, <2>1
    <2>3. RemoveAt((a \o s) \o b, m) = (a \o RemoveAt(s, j)) \o b
      <3>1. PICK c : c = a
        OBVIOUS
      <3>2. c \in Seq(X) /\ m = Len(c) + j
        BY <1>1, <2>2, <3>1
      <3>3. RemoveAt((c \o s) \o b, m) = (c \o RemoveAt(s, j)) \o b
        BY <3>2, RemoveBetween
      <3>4. QED BY <3>1, <3>3
    <2>4. QED BY <1>1, <2>1, <2>2, <2>3
  <1> HIDE DEF w
  <1>4. Len(w) > 0 /\ w[1] = s[1] /\ Len(w) \in Nat
    <2>1. Len(s) \in Nat /\ Len(b) \in Nat
      OBVIOUS
    <2>2. w[Len(a) + 1] = s[1] /\ Len(w) = Len(a) + Len(s) + Len(b)
      BY <1>1, <1>2 DEF Beside
    <2>3. QED BY <1>1, <2>1, <2>2
  <1>5. Head(w) = s[1] /\ w # << >>
    BY <1>2, <1>4
  <1>6. 1 \in 1 .. Len(w)
    BY <1>4
  <1> DEFINE x == RemoveAt(w, 1)
             y == Tail(w)
  <1>7. /\ x \in Seq(X) /\ Len(x) = Len(w) - 1
        /\ \A i \in 1 .. Len(w) - 1 : x[i] = IF i < 1 THEN w[i] ELSE w[i + 1]
    BY <1>2, <1>6, RemoveAtProperties
  <1>8. y \in Seq(X) /\ Len(y) = Len(w) - 1 /\ \A i \in 1 .. Len(w) - 1 : y[i] = w[i + 1]
    BY <1>2, <1>5
  <1> HIDE DEF x, y
  <1>9. ASSUME NEW i \in 1 .. Len(x)
        PROVE  x[i] = y[i]
    <2>1. i \in 1 .. Len(w) - 1 /\ ~ (i < 1)
      BY <1>4, <1>7
    <2>2. QED BY <1>7, <1>8, <2>1
  <1>10. x = y
    BY <1>7, <1>8, <1>9, SeqEqual
  <1>11. x = (a \o RemoveAt(s, 1)) \o b
    BY <1>3 DEF x, w
  <1>12. Tail(w) = (a \o RemoveAt(s, 1)) \o b
    BY <1>10, <1>11 DEF y
  <1>13. QED BY <1>5, <1>12 DEF w, a
------------------------------------------------------------------------------
\* The entries of an event list before and after a change to one time.

\* The first k times, and their buckets, are the same in both.
SameBefore(p, r, k) ==
  /\ k <= Len(p.times) /\ k <= Len(r.times)
  /\ \A i \in 1 .. k : r.times[i] = p.times[i] /\ r.at[p.times[i]] = p.at[p.times[i]]

\* The times after k in the one and after j in the other are the same.
SameBehind(p, k, r, j) ==
  /\ k \in 0 .. Len(p.times) /\ j \in 0 .. Len(r.times)
  /\ Len(p.times) - k = Len(r.times) - j
  /\ \A i \in 1 .. Len(p.times) - k :
       r.times[j + i] = p.times[k + i] /\ r.at[p.times[k + i]] = p.at[p.times[k + i]]

LEMMA EarlyKept ==
  ASSUME NEW p, NEW m, Good(p, m), NEW r, NEW l, Good(r, l), NEW k \in Nat,
         SameBefore(p, r, k)
  PROVE  Early(Slots(r), k) = Early(Slots(p), k)
  <1> DEFINE q == Slots(p)
             s == Slots(r)
  <1>1. /\ q \in Seq(Seq(Entry)) /\ Len(q) = Len(p.times) /\ Len(p.times) \in Nat
        /\ s \in Seq(Seq(Entry)) /\ Len(s) = Len(r.times) /\ Len(r.times) \in Nat
    BY SlotsType
  <1>2. k <= Len(q) /\ k <= Len(s)
    BY <1>1 DEF SameBefore
  <1>3. ASSUME NEW i \in 1 .. k
        PROVE  s[i] = q[i]
    <2>1. i \in 1 .. Len(p.times) /\ i \in 1 .. Len(r.times)
      BY <1>1, <1>2
    <2>2. r.times[i] = p.times[i] /\ r.at[p.times[i]] = p.at[p.times[i]]
      BY DEF SameBefore
    <2>3. /\ q[i] = Slot(p.times[i], p.at[p.times[i]])
          /\ s[i] = Slot(r.times[i], r.at[r.times[i]])
      BY <2>1, SlotsType
    <2>4. QED BY <2>2, <2>3
  <1> HIDE DEF q, s
  <1>4. Early(s, k) = Early(q, k)
    BY <1>1, <1>2, <1>3, EarlySame
  <1>5. QED BY <1>4 DEF q, s

LEMMA LateKept ==
  ASSUME NEW p, NEW m, Good(p, m), NEW r, NEW l, Good(r, l), NEW k \in Nat, NEW j \in Nat,
         SameBehind(p, k, r, j)
  PROVE  Late(Slots(r), j) = Late(Slots(p), k)
  <1> DEFINE q == Slots(p)
             s == Slots(r)
  <1>1. /\ q \in Seq(Seq(Entry)) /\ Len(q) = Len(p.times) /\ Len(p.times) \in Nat
        /\ s \in Seq(Seq(Entry)) /\ Len(s) = Len(r.times) /\ Len(r.times) \in Nat
    BY SlotsType
  <1>2. k \in 0 .. Len(q) /\ j \in 0 .. Len(s) /\ Len(q) - k = Len(s) - j
    BY <1>1 DEF SameBehind
  <1>3. ASSUME NEW i \in 1 .. Len(q) - k
        PROVE  q[k + i] = s[j + i]
    <2>1. /\ i \in 1 .. Len(p.times) - k
          /\ k + i \in 1 .. Len(p.times) /\ j + i \in 1 .. Len(r.times)
      BY <1>1, <1>2
    <2>2. r.times[j + i] = p.times[k + i] /\ r.at[p.times[k + i]] = p.at[p.times[k + i]]
      BY <2>1 DEF SameBehind
    <2>3. /\ q[k + i] = Slot(p.times[k + i], p.at[p.times[k + i]])
          /\ s[j + i] = Slot(r.times[j + i], r.at[r.times[j + i]])
      BY <2>1, SlotsType
    <2>4. QED BY <2>2, <2>3
  <1> HIDE DEF q, s
  <1>4. Late(q, k) = Late(s, j)
    <2>1. Aligned(q, k, s, j)
      BY <1>2, <1>3 DEF Aligned
    <2>2. q \in Seq(Seq(Entry)) /\ s \in Seq(Seq(Entry)) /\ k \in 0 .. Len(q) /\ j \in 0 .. Len(s)
      BY <1>1, <1>2
    <2>3. QED BY ONLY <2>1, <2>2, LateSame
  <1>5. QED BY <1>4 DEF q, s

\* The entries before a time, at it and behind it.
LEMMA FlatAt ==
  ASSUME NEW p, NEW m, Good(p, m), NEW k \in 1 .. Len(p.times), NEW j \in Nat, j = k - 1
  PROVE  /\ Early(Slots(p), k) = Early(Slots(p), j) \o Slots(p)[k]
         /\ Flat(p) = (Early(Slots(p), j) \o Slots(p)[k]) \o Late(Slots(p), k)
         /\ Early(Slots(p), j) \in Seq(Entry)
         /\ Slots(p)[k] \in Seq(Entry)
         /\ Late(Slots(p), k) \in Seq(Entry)
  <1> DEFINE q == Slots(p)
  <1>1. q \in Seq(Seq(Entry)) /\ Len(q) = Len(p.times) /\ Len(p.times) \in Nat
    BY SlotsType
  <1>2. k \in 1 .. Len(q) /\ k \in 0 .. Len(q) /\ j \in 0 .. Len(q) /\ k \in Nat
    BY <1>1
  <1>3. \A i \in 1 .. Len(q) : q[i] \in Seq(Entry)
    BY <1>1
  <1> HIDE DEF q
  <1>4. Early(q, k) = Early(q, j) \o q[k]
    BY <1>1, <1>2, EarlyNext
  <1>5. FlattenSeq(q) = Early(q, k) \o Late(q, k)
    BY <1>1, <1>2, SplitAt
  <1>6. Early(q, j) \in Seq(Entry)
    <2>1. \A i \in 1 .. j : q[i] \in Seq(Entry)
      BY <1>2, <1>3
    <2>2. QED BY <1>1, <1>2, <2>1, EarlyType
  <1>7. Late(q, k) \in Seq(Entry)
    <2>1. \A i \in k + 1 .. Len(q) : q[i] \in Seq(Entry)
      BY <1>1, <1>2, <1>3
    <2>2. QED BY <1>1, <1>2, <2>1, LateType
  <1>8. QED BY <1>2, <1>3, <1>4, <1>5, <1>6, <1>7 DEF q, Flat

LEMMA FlatBetween ==
  ASSUME NEW p, NEW m, Good(p, m), NEW k \in 0 .. Len(p.times)
  PROVE  /\ Flat(p) = Early(Slots(p), k) \o Late(Slots(p), k)
         /\ Early(Slots(p), k) \in Seq(Entry)
         /\ Late(Slots(p), k) \in Seq(Entry)
  <1> DEFINE q == Slots(p)
  <1>1. q \in Seq(Seq(Entry)) /\ Len(q) = Len(p.times) /\ Len(p.times) \in Nat
    BY SlotsType
  <1>2. k \in 0 .. Len(q) /\ k \in Nat
    BY <1>1
  <1>3. \A i \in 1 .. Len(q) : q[i] \in Seq(Entry)
    BY <1>1
  <1> HIDE DEF q
  <1>4. FlattenSeq(q) = Early(q, k) \o Late(q, k)
    BY <1>1, <1>2, SplitAt
  <1>5. Early(q, k) \in Seq(Entry)
    <2>1. \A i \in 1 .. k : q[i] \in Seq(Entry)
      BY <1>1, <1>2, <1>3
    <2>2. QED BY <1>1, <1>2, <2>1, EarlyType
  <1>6. Late(q, k) \in Seq(Entry)
    <2>1. \A i \in k + 1 .. Len(q) : q[i] \in Seq(Entry)
      BY <1>1, <1>2, <1>3
    <2>2. QED BY <1>1, <1>2, <2>1, LateType
  <1>7. QED BY <1>4, <1>5, <1>6 DEF q, Flat

\* No time is in the list twice.
LEMMA TimesDiffer ==
  ASSUME NEW p, NEW m, Good(p, m), NEW i \in 1 .. Len(p.times), NEW j \in 1 .. Len(p.times),
         i # j
  PROVE  p.times[i] # p.times[j]
  <1>1. i \in Nat /\ j \in Nat /\ p.times[i] \in Nat /\ p.times[j] \in Nat
    BY SlotsType
  <1>2. i < j \/ j < i
    BY <1>1
  <1>3. (i < j => p.times[i] < p.times[j]) /\ (j < i => p.times[j] < p.times[i])
    BY DEF Good
  <1>4. QED BY <1>1, <1>2, <1>3
------------------------------------------------------------------------------
\* Taking an entry out of a bucket takes it out of the calendar.
LEMMA DroppedFlat ==
  ASSUME NEW p, NEW now \in Nat, Good(p, now), NEW k \in 1 .. Len(p.times),
         NEW j \in Nat, j = k - 1, NEW i \in 1 .. Len(p.at[p.times[k]])
  PROVE  Flat(Dropped(p, p.times[k], i)) =
           (Early(Slots(p), j) \o RemoveAt(Slots(p)[k], i)) \o Late(Slots(p), k)
  <1>1. PICK t : t = p.times[k]
    OBVIOUS
  <1>2. PICK bucket : bucket = p.at[t]
    OBVIOUS
  <1>3. PICK r : r = Dropped(p, t, i)
    OBVIOUS
  <1>4. PICK n : n = Len(p.times)
    OBVIOUS
  <1>5. /\ t \in Nat /\ t \in DOMAIN p.at /\ bucket \in Seq(Source) /\ n \in Nat /\ k \in 1 .. n
        /\ Slots(p)[k] = Slot(t, bucket)
    BY <1>1, <1>2, <1>4, SlotsType
  <1>6. i \in 1 .. Len(bucket)
    BY <1>1, <1>2
  <1>7. Good(r, now)
    BY <1>2, <1>3, <1>5, <1>6, DroppedGood
  <1>8. ASSUME NEW l \in 1 .. n, l # k
        PROVE  p.times[l] # t /\ p.times[l] \in DOMAIN p.at
    <2>1. p.times[l] \in DOMAIN p.at
      BY <1>4, SlotsType
    <2>2. QED BY <1>1, <1>4, <1>8, <2>1, TimesDiffer
  <1>9. j \in 0 .. n /\ k \in Nat
    BY <1>5
  <1>10. CASE Len(bucket) > 1
    <2> DEFINE rest == RemoveAt(bucket, i)
    <2>1. /\ rest \in Seq(Source) /\ Len(rest) = Len(bucket) - 1
          /\ \A l \in 1 .. Len(bucket) - 1 : rest[l] = IF l < i THEN bucket[l] ELSE bucket[l + 1]
      BY <1>5, <1>6, RemoveAtProperties
    <2>2. r = [p EXCEPT !.at[t] = rest]
      BY <1>2, <1>3, <1>10 DEF Dropped
    <2> HIDE DEF rest
    <2>3. r.times = p.times /\ r.at = [p.at EXCEPT ![t] = rest]
      <3>1. p = [times |-> p.times, at |-> p.at]
        BY DEF Good
      <3>2. r = [times |-> p.times, at |-> [p.at EXCEPT ![t] = rest]]
        BY <2>2, <3>1
      <3>3. QED BY <3>2
    <2>4. /\ r.at[t] = rest
          /\ \A u \in DOMAIN p.at : u # t => r.at[u] = p.at[u]
      <3>1. p.at \in [DOMAIN p.at -> Seq(Source)]
        BY DEF Good
      <3>2. QED BY <1>5, <2>3, <3>1
    <2>5. SameBefore(p, r, j)
      <3>1. ASSUME NEW l \in 1 .. j
            PROVE  r.times[l] = p.times[l] /\ r.at[p.times[l]] = p.at[p.times[l]]
        <4>1. l \in 1 .. n /\ l # k
          BY <1>5, <1>9
        <4>2. QED BY <1>8, <2>3, <2>4, <4>1
      <3>2. QED BY <1>4, <1>9, <2>3, <3>1 DEF SameBefore
    <2>6. SameBehind(p, k, r, k)
      <3>1. ASSUME NEW l \in 1 .. n - k
            PROVE  r.times[k + l] = p.times[k + l] /\ r.at[p.times[k + l]] = p.at[p.times[k + l]]
        <4>1. k + l \in 1 .. n /\ k + l # k
          BY <1>5, <1>9
        <4>2. QED BY <1>8, <2>3, <2>4, <4>1
      <3>2. QED BY <1>4, <1>5, <2>3, <3>1 DEF SameBehind
    <2>7. Early(Slots(r), j) = Early(Slots(p), j)
      BY <1>7, <2>5, EarlyKept
    <2>8. Late(Slots(r), k) = Late(Slots(p), k)
      BY <1>7, <1>9, <2>6, LateKept
    <2>9. k \in 1 .. Len(r.times) /\ r.times[k] = t /\ r.at[r.times[k]] = rest
      BY <1>1, <1>4, <1>5, <2>3, <2>4
    <2>10. Slots(r)[k] = Slot(t, rest)
      BY <1>7, <2>9, SlotsType
    <2>11. Slot(t, rest) = RemoveAt(Slot(t, bucket), i)
      <3> DEFINE x == Slot(t, rest)
                 y == Slot(t, bucket)
                 z == RemoveAt(y, i)
      <3>1. /\ x \in Seq(Entry) /\ Len(x) = Len(rest)
            /\ \A l \in 1 .. Len(rest) : x[l] = [at |-> t, src |-> rest[l]]
        BY <1>5, <2>1, SlotType
      <3>2. /\ y \in Seq(Entry) /\ Len(y) = Len(bucket)
            /\ \A l \in 1 .. Len(bucket) : y[l] = [at |-> t, src |-> bucket[l]]
        BY <1>5, SlotType
      <3> HIDE DEF x, y
      <3>3. i \in 1 .. Len(y) /\ Len(bucket) \in Nat /\ i \in Nat
        BY <1>5, <1>6, <3>2
      <3>4. /\ z \in Seq(Entry) /\ Len(z) = Len(y) - 1
            /\ \A l \in 1 .. Len(y) - 1 : z[l] = IF l < i THEN y[l] ELSE y[l + 1]
        BY <3>2, <3>3, RemoveAtProperties
      <3> HIDE DEF z
      <3>5. ASSUME NEW l \in 1 .. Len(x)
            PROVE  x[l] = z[l]
        <4>1. l \in 1 .. Len(bucket) - 1 /\ l \in 1 .. Len(bucket) /\ l + 1 \in 1 .. Len(bucket)
              /\ l \in 1 .. Len(y) - 1 /\ l \in 1 .. Len(rest)
          BY <2>1, <3>1, <3>2, <3>3
        <4>2. x[l] = [at |-> t, src |-> rest[l]]
          BY <3>1, <4>1
        <4>3. rest[l] = IF l < i THEN bucket[l] ELSE bucket[l + 1]
          BY <2>1, <4>1
        <4>4. z[l] = IF l < i THEN y[l] ELSE y[l + 1]
          BY <3>4, <4>1
        <4>5. y[l] = [at |-> t, src |-> bucket[l]] /\ y[l + 1] = [at |-> t, src |-> bucket[l + 1]]
          BY <3>2, <4>1
        <4>6. CASE l < i
          BY <4>2, <4>3, <4>4, <4>5, <4>6
        <4>7. CASE ~ (l < i)
          BY <4>2, <4>3, <4>4, <4>5, <4>7
        <4>8. QED BY <4>6, <4>7
      <3>6. Len(x) = Len(z)
        BY <2>1, <3>1, <3>2, <3>4
      <3>7. x = z
        BY <3>1, <3>4, <3>5, <3>6, SeqEqual
      <3>8. QED BY <3>7 DEF x, y, z
    <2>12. Flat(r) = (Early(Slots(r), j) \o Slots(r)[k]) \o Late(Slots(r), k)
      BY <1>7, <2>9, FlatAt
    <2>13. QED BY <1>1, <1>3, <1>5, <2>7, <2>8, <2>10, <2>11, <2>12
  <1>11. CASE ~ (Len(bucket) > 1)
    <2>1. PICK N : N = Nat
      OBVIOUS
    <2>2. p.times \in Seq(N) /\ p.times \in Seq(Nat)
      BY <2>1 DEF Good
    <2> DEFINE f == FirstIndex(p.times, t)
               out == RemoveAt(p.times, f)
               at == [u \in DOMAIN p.at \ {t} |-> p.at[u]]
    <2>3. f = k
      <3>1. f \in 1 .. Len(p.times) /\ p.times[f] = t
        BY <1>1, <2>2, FirstIndexFound
      <3>2. QED BY <1>4, <1>8, <3>1
    <2>4. /\ out \in Seq(N) /\ Len(out) = n - 1
          /\ \A l \in 1 .. n - 1 : out[l] = IF l < k THEN p.times[l] ELSE p.times[l + 1]
      <3>1. /\ RemoveAt(p.times, k) \in Seq(N) /\ Len(RemoveAt(p.times, k)) = Len(p.times) - 1
            /\ \A l \in 1 .. Len(p.times) - 1 :
                 RemoveAt(p.times, k)[l] = IF l < k THEN p.times[l] ELSE p.times[l + 1]
        BY <2>2, RemoveAtProperties
      <3>2. QED BY <1>4, <2>3, <3>1
    <2>5. r = [times |-> out, at |-> at]
      BY <1>2, <1>3, <1>11 DEF Dropped
    <2> HIDE DEF out, f
    <2>6. /\ r.times = out /\ Len(r.times) = n - 1
          /\ \A u \in DOMAIN p.at : u # t => r.at[u] = p.at[u]
      BY <2>4, <2>5
    <2>7. SameBefore(p, r, j)
      <3>1. ASSUME NEW l \in 1 .. j
            PROVE  r.times[l] = p.times[l] /\ r.at[p.times[l]] = p.at[p.times[l]]
        <4>1. l \in 1 .. n /\ l # k /\ l \in 1 .. n - 1 /\ l < k
          BY <1>5, <1>9
        <4>2. QED BY <1>8, <2>4, <2>6, <4>1
      <3>2. j <= Len(p.times) /\ j <= Len(r.times)
        BY <1>4, <1>5, <2>6
      <3>3. QED BY <3>1, <3>2 DEF SameBefore
    <2>8. SameBehind(p, k, r, j)
      <3>1. ASSUME NEW l \in 1 .. n - k
            PROVE  r.times[j + l] = p.times[k + l] /\ r.at[p.times[k + l]] = p.at[p.times[k + l]]
        <4>1. /\ k + l \in 1 .. n /\ k + l # k /\ j + l \in 1 .. n - 1 /\ ~ (j + l < k)
              /\ (j + l) + 1 = k + l
          BY <1>5, <1>9
        <4>2. r.times[j + l] = p.times[(j + l) + 1]
          BY <2>4, <2>6, <4>1
        <4>3. QED BY <1>8, <2>6, <4>1, <4>2
      <3>2. k \in 0 .. Len(p.times) /\ j \in 0 .. Len(r.times)
            /\ Len(p.times) - k = Len(r.times) - j
        BY <1>4, <1>5, <2>6
      <3>3. QED BY <1>4, <3>1, <3>2 DEF SameBehind
    <2>9. Early(Slots(r), j) = Early(Slots(p), j)
      BY <1>7, <2>7, EarlyKept
    <2>10. Late(Slots(r), j) = Late(Slots(p), k)
      BY <1>7, <1>9, <2>8, LateKept
    <2>11. j \in 0 .. Len(r.times)
      BY <1>5, <2>6
    <2>12. Flat(r) = Early(Slots(r), j) \o Late(Slots(r), j) /\ Early(Slots(r), j) \in Seq(Entry)
      BY <1>7, <2>11, FlatBetween
    <2>13. RemoveAt(Slot(t, bucket), i) = << >>
      <3> DEFINE y == Slot(t, bucket)
      <3>1. y \in Seq(Entry) /\ Len(y) = Len(bucket)
        BY <1>5, SlotType
      <3> HIDE DEF y
      <3>2. i \in 1 .. Len(y) /\ Len(y) = 1
        <4>1. Len(bucket) \in Nat
          BY <1>5
        <4>2. QED BY <1>6, <1>11, <3>1, <4>1
      <3>3. RemoveAt(y, i) \in Seq(Entry) /\ Len(RemoveAt(y, i)) = Len(y) - 1
        BY <3>1, <3>2, RemoveAtProperties
      <3>4. RemoveAt(y, i) = << >>
        BY <3>2, <3>3
      <3>5. QED BY <3>4 DEF y
    <2>14. Early(Slots(p), j) \o << >> = Early(Slots(p), j)
      BY <2>9, <2>12, ConcatEmptySeq
    <2>15. QED BY <1>1, <1>3, <1>5, <2>9, <2>10, <2>12, <2>13, <2>14
  <1>12. QED BY <1>10, <1>11
------------------------------------------------------------------------------
\* Scheduling a source puts it into the calendar.
LEMMA ScheduledFlat ==
  ASSUME NEW p, lasteventtime \in Nat, Good(p, lasteventtime),
         NEW src \in Source, NEW when \in Nat
  PROVE  Flat(Scheduled(p, src, when)) = C!With(Flat(p), src, when)
  <1>1. PICK t : t = Clamped(when)
    OBVIOUS
  <1>2. PICK r : r = Scheduled(p, src, when)
    OBVIOUS
  <1>3. PICK n : n = Len(p.times)
    OBVIOUS
  <1>4. t \in Nat
    BY <1>1 DEF Clamped
  <1>5. Good(r, lasteventtime)
    BY <1>2, ScheduledGood
  <1>6. n \in Nat /\ p.times \in Seq(Nat) /\ Len(p.times) \in Nat
    BY <1>3, SlotsType DEF Good
  <1> DEFINE e == [at |-> t, src |-> src]
  <1>7. ASSUME NEW k \in 0 .. n, \A i \in 1 .. k : p.times[i] <= t,
               \A i \in k + 1 .. n : t < p.times[i]
        PROVE  /\ C!With(Flat(p), src, when) =
                    IF Accepts(t) THEN (Early(Slots(p), k) \o <<e>>) \o Late(Slots(p), k)
                    ELSE Flat(p)
               /\ Early(Slots(p), k) \in Seq(Entry)
    <2> DEFINE a == Early(Slots(p), k)
               b == Late(Slots(p), k)
    <2>1. a \in Seq(UpTo(t)) /\ b \in Seq(After(t))
      BY <1>3, <1>4, <1>7, EarlyUpTo, LateAfter
    <2>2. Flat(p) = a \o b /\ a \in Seq(Entry)
      BY <1>3, FlatBetween
    <2> HIDE DEF a, b
    <2>3. a \in Seq(UpTo(Clamped(when))) /\ b \in Seq(After(Clamped(when)))
      BY <1>1, <2>1
    <2>4. C!With(a \o b, src, when) =
            IF Accepts(t) THEN (a \o <<e>>) \o b ELSE a \o b
      BY <1>1, <2>3, PutBetween
    <2>5. QED BY <2>2, <2>4 DEF a, b
  <1>8. CASE ~ Accepts(t)
    <2>1. r = p
      BY <1>1, <1>2, <1>8 DEF Scheduled
    <2>2. \A i, l \in 1 .. Len(p.times) : i < l => p.times[i] < p.times[l]
      BY DEF Good
    <2>5. PICK k \in 0 .. n : /\ \A i \in 1 .. k : p.times[i] <= t
                              /\ \A i \in k + 1 .. n : t < p.times[i]
      BY <1>3, <1>4, <1>6, <2>2, PlaceExists
    <2>3. C!With(Flat(p), src, when) = Flat(p)
      BY <1>7, <1>8, <2>5
    <2>4. QED BY <1>2, <2>1, <2>3
  <1>9. CASE Accepts(t) /\ t \in DOMAIN p.at
    <2>1. PICK k \in 1 .. n : p.times[k] = t
      BY <1>3, <1>9 DEF Good
    <2>2. PICK bucket : bucket = p.at[t]
      OBVIOUS
    <2>3. /\ bucket \in Seq(Source) /\ Slots(p)[k] = Slot(t, bucket) /\ k \in Nat
      BY <1>3, <1>6, <2>1, <2>2, SlotsType
    <2>4. PICK j \in Nat : j = k - 1
      BY <2>3
    <2>5. ASSUME NEW l \in 1 .. n, l # k
          PROVE  p.times[l] # t /\ p.times[l] \in DOMAIN p.at
      <3>1. p.times[l] \in DOMAIN p.at
        BY <1>3, SlotsType
      <3>2. QED BY <1>3, <2>1, <2>5, <3>1, TimesDiffer
    <2> DEFINE new == Append(bucket, src)
    <2>6. new \in Seq(Source) /\ Len(new) = Len(bucket) + 1 /\ Len(bucket) \in Nat
          /\ \A l \in 1 .. Len(bucket) + 1 : new[l] = IF l <= Len(bucket) THEN bucket[l] ELSE src
      BY <2>3
    <2>7. r = [p EXCEPT !.at[t] = new]
      BY <1>1, <1>2, <1>9, <2>2 DEF Scheduled, Joined
    <2> HIDE DEF new
    <2>8. r.times = p.times /\ r.at = [p.at EXCEPT ![t] = new]
      <3>1. p = [times |-> p.times, at |-> p.at]
        BY DEF Good
      <3>2. r = [times |-> p.times, at |-> [p.at EXCEPT ![t] = new]]
        BY <2>7, <3>1
      <3>3. QED BY <3>2
    <2>9. /\ r.at[t] = new
          /\ \A u \in DOMAIN p.at : u # t => r.at[u] = p.at[u]
      <3>1. p.at \in [DOMAIN p.at -> Seq(Source)]
        BY DEF Good
      <3>2. QED BY <1>9, <2>8, <3>1
    <2>10. SameBefore(p, r, j)
      <3>1. ASSUME NEW l \in 1 .. j
            PROVE  r.times[l] = p.times[l] /\ r.at[p.times[l]] = p.at[p.times[l]]
        <4>1. l \in 1 .. n /\ l # k
          BY <1>6, <2>3, <2>4
        <4>2. QED BY <2>5, <2>8, <2>9, <4>1
      <3>2. j <= n
        BY <1>6, <2>3, <2>4
      <3>3. QED BY <1>3, <2>8, <3>1, <3>2 DEF SameBefore
    <2>11. SameBehind(p, k, r, k)
      <3>1. ASSUME NEW l \in 1 .. n - k
            PROVE  r.times[k + l] = p.times[k + l] /\ r.at[p.times[k + l]] = p.at[p.times[k + l]]
        <4>1. k + l \in 1 .. n /\ k + l # k
          BY <1>6, <2>3
        <4>2. QED BY <2>5, <2>8, <2>9, <4>1
      <3>2. k \in 0 .. Len(p.times) /\ k \in 0 .. Len(r.times)
            /\ Len(p.times) - k = Len(r.times) - k
        BY <1>3, <1>6, <2>8
      <3>3. QED BY <1>3, <3>1, <3>2 DEF SameBehind
    <2>12. Early(Slots(r), j) = Early(Slots(p), j)
      BY <1>5, <2>10, EarlyKept
    <2>13. Late(Slots(r), k) = Late(Slots(p), k)
      BY <1>5, <2>3, <2>11, LateKept
    <2>14. k \in 1 .. Len(r.times) /\ r.times[k] = t /\ r.at[r.times[k]] = new
      BY <1>3, <2>1, <2>8, <2>9
    <2>15. Slots(r)[k] = Slot(t, new)
      BY <1>5, <2>14, SlotsType
    <2>16. Slot(t, new) = Slot(t, bucket) \o <<e>>
      <3> DEFINE x == Slot(t, new)
                 y == Slot(t, bucket)
                 d == <<e>>
                 z == y \o d
      <3>1. /\ x \in Seq(Entry) /\ Len(x) = Len(new)
            /\ \A l \in 1 .. Len(new) : x[l] = [at |-> t, src |-> new[l]]
        BY <1>4, <2>6, SlotType
      <3>2. /\ y \in Seq(Entry) /\ Len(y) = Len(bucket)
            /\ \A l \in 1 .. Len(bucket) : y[l] = [at |-> t, src |-> bucket[l]]
        BY <1>4, <2>3, SlotType
      <3>3. d \in Seq(Entry) /\ Len(d) = 1 /\ d[1] = e
        BY <1>4 DEF Entry
      <3> HIDE DEF x, y, d
      <3>4. /\ z \in Seq(Entry) /\ Len(z) = Len(y) + Len(d)
            /\ \A l \in 1 .. Len(y) + Len(d) : z[l] = IF l <= Len(y) THEN y[l] ELSE d[l - Len(y)]
        <4>1. y \in Seq(Entry) /\ d \in Seq(Entry)
          BY <3>2, <3>3
        <4>2. QED BY ONLY <4>1, ConcatProperties
      <3> HIDE DEF z
      <3>5. ASSUME NEW l \in 1 .. Len(x)
            PROVE  x[l] = z[l]
        <4>1. l \in 1 .. Len(bucket) + 1 /\ l \in 1 .. Len(y) + Len(d) /\ l \in 1 .. Len(new)
          BY <2>6, <3>1, <3>2, <3>3
        <4>2. x[l] = [at |-> t, src |-> new[l]]
          BY <3>1, <4>1
        <4>3. CASE l <= Len(bucket)
          <5>1. l \in 1 .. Len(bucket)
            BY <2>6, <4>1, <4>3
          <5>2. z[l] = [at |-> t, src |-> bucket[l]] /\ new[l] = bucket[l]
            BY <2>6, <3>2, <3>4, <4>1, <4>3, <5>1
          <5>3. QED BY <4>2, <5>2
        <4>4. CASE ~ (l <= Len(bucket))
          <5>1. l - Len(y) = 1
            BY <2>6, <3>2, <4>1, <4>4
          <5>2. z[l] = e /\ new[l] = src
            BY <2>6, <3>2, <3>3, <3>4, <4>1, <4>4, <5>1
          <5>3. QED BY <4>2, <5>2
        <4>5. QED BY <4>3, <4>4
      <3>6. Len(x) = Len(z)
        BY <2>6, <3>1, <3>2, <3>3, <3>4
      <3>7. x = z
        BY <3>1, <3>4, <3>5, <3>6, SeqEqual
      <3>8. QED BY <3>7 DEF x, y, z, d
    <2>17. /\ Flat(r) = (Early(Slots(r), j) \o Slots(r)[k]) \o Late(Slots(r), k)
           /\ Early(Slots(p), k) = Early(Slots(p), j) \o Slots(p)[k]
           /\ Early(Slots(p), j) \in Seq(Entry) /\ Slots(p)[k] \in Seq(Entry)
      <3>1. Flat(r) = (Early(Slots(r), j) \o Slots(r)[k]) \o Late(Slots(r), k)
        BY <1>5, <2>4, <2>14, FlatAt
      <3>2. k \in 1 .. Len(p.times)
        BY <1>3
      <3>3. QED BY <2>4, <3>1, <3>2, FlatAt
    <2>18. (Early(Slots(p), j) \o Slots(p)[k]) \o <<e>> = Early(Slots(p), j) \o (Slots(p)[k] \o <<e>>)
      <3>1. PICK a, b, c : a = Early(Slots(p), j) /\ b = Slots(p)[k] /\ c = <<e>>
        OBVIOUS
      <3>2. a \in Seq(Entry) /\ b \in Seq(Entry) /\ c \in Seq(Entry)
        BY <1>4, <2>17, <3>1 DEF Entry
      <3>3. (a \o b) \o c = a \o (b \o c)
        BY <3>2, ConcatAssociative
      <3>4. QED BY <3>1, <3>3
    <2>19. /\ \A i \in 1 .. k : p.times[i] <= t
           /\ \A i \in k + 1 .. n : t < p.times[i]
      <3>1. \A i \in 1 .. n : p.times[i] \in Nat
        BY <1>3, <1>6
      <3>2. \A i \in 1 .. n : (i < k => p.times[i] < p.times[k]) /\ (k < i => p.times[k] < p.times[i])
        BY <1>3 DEF Good
      <3>3. ASSUME NEW i \in 1 .. k
            PROVE  p.times[i] <= t
        <4>1. i \in 1 .. n /\ (i = k \/ i < k)
          BY <1>6, <2>3
        <4>2. QED BY <1>4, <2>1, <3>1, <3>2, <4>1
      <3>4. ASSUME NEW i \in k + 1 .. n
            PROVE  t < p.times[i]
        <4>1. i \in 1 .. n /\ k < i
          BY <1>6, <2>3
        <4>2. QED BY <2>1, <3>2, <4>1
      <3>5. QED BY <3>3, <3>4
    <2>20. k \in 0 .. n
      BY <1>6
    <2>21. C!With(Flat(p), src, when) = (Early(Slots(p), k) \o <<e>>) \o Late(Slots(p), k)
      BY <1>7, <1>9, <2>19, <2>20
    <2> HIDE DEF e
    <2>22. QED BY <1>2, <2>3, <2>12, <2>13, <2>15, <2>16, <2>17, <2>18, <2>21
  <1>10. CASE Accepts(t) /\ t \notin DOMAIN p.at
    <2> DEFINE out == Insort(p.times, t)
               at == [u \in DOMAIN p.at \cup {t} |-> IF u = t THEN <<src>> ELSE p.at[u]]
    <2>1. r = [times |-> out, at |-> at]
      BY <1>1, <1>2, <1>10 DEF Scheduled
    <2>2. /\ \A i, j \in 1 .. Len(p.times) : i < j => p.times[i] < p.times[j]
          /\ \A i \in 1 .. Len(p.times) : p.times[i] \in DOMAIN p.at
      BY DEF Good
    <2>3. \A i \in 1 .. Len(p.times) : p.times[i] # t
      BY <1>10, <2>2
    <2> HIDE DEF out
    <2>4. PICK k : InsortsAt(p.times, t, k)
      BY <1>4, <1>6, <2>2, <2>3, InsortPlace
    <2>5. /\ k \in 0 .. n /\ k \in Nat
          /\ \A i \in 1 .. k : p.times[i] < t
          /\ \A i \in k + 1 .. n : t < p.times[i]
          /\ \A i \in 1 .. n + 1 :
               out[i] = IF i < k + 1 THEN p.times[i] ELSE IF i = k + 1 THEN t ELSE p.times[i - 1]
          /\ out \in Seq(Nat) /\ Len(out) = n + 1
      BY <1>3, <1>6, <2>4 DEF InsortsAt, out
    <2>6. /\ r.times = out /\ r.at[t] = <<src>>
          /\ \A i \in 1 .. n : r.at[p.times[i]] = p.at[p.times[i]]
      BY <1>3, <2>1, <2>2, <2>3
    <2>7. PICK g \in Nat : g = k + 1
      BY <2>5
    <2>8. g \in 1 .. Len(r.times) /\ r.times[g] = t
      BY <1>6, <2>5, <2>6, <2>7
    <2>9. SameBefore(p, r, k)
      <3>1. ASSUME NEW l \in 1 .. k
            PROVE  r.times[l] = p.times[l] /\ r.at[p.times[l]] = p.at[p.times[l]]
        <4>1. l \in 1 .. n /\ l \in 1 .. n + 1 /\ l < k + 1
          BY <1>6, <2>5
        <4>2. QED BY <2>5, <2>6, <4>1
      <3>2. k <= Len(p.times) /\ k <= Len(r.times)
        BY <1>3, <1>6, <2>5, <2>6
      <3>3. QED BY <3>1, <3>2 DEF SameBefore
    <2>10. SameBehind(p, k, r, g)
      <3>1. ASSUME NEW l \in 1 .. n - k
            PROVE  r.times[g + l] = p.times[k + l] /\ r.at[p.times[k + l]] = p.at[p.times[k + l]]
        <4>1. /\ k + l \in 1 .. n /\ g + l \in 1 .. n + 1 /\ ~ (g + l < k + 1) /\ g + l # k + 1
              /\ (g + l) - 1 = k + l
          BY <1>6, <2>5, <2>7
        <4>2. r.times[g + l] = p.times[(g + l) - 1]
          BY <2>5, <2>6, <4>1
        <4>3. QED BY <2>6, <4>1, <4>2
      <3>2. /\ k \in 0 .. Len(p.times) /\ g \in 0 .. Len(r.times)
            /\ Len(p.times) - k = Len(r.times) - g
        BY <1>3, <1>6, <2>5, <2>6, <2>7
      <3>3. QED BY <1>3, <3>1, <3>2 DEF SameBehind
    <2>11. Early(Slots(r), k) = Early(Slots(p), k)
      BY <1>5, <2>5, <2>9, EarlyKept
    <2>12. Late(Slots(r), g) = Late(Slots(p), k)
      BY <1>5, <2>5, <2>10, LateKept
    <2>13. Slots(r)[g] = <<e>>
      <3> DEFINE d == <<src>>
      <3>1. d \in Seq(Source) /\ Len(d) = 1 /\ d[1] = src
        OBVIOUS
      <3>2. r.at[r.times[g]] = d
        BY <2>6, <2>8
      <3> HIDE DEF d
      <3>3. Slots(r)[g] = Slot(t, d)
        BY <1>5, <2>8, <3>2, SlotsType
      <3>4. Slot(t, d) = <<e>>
        BY <3>1 DEF Slot
      <3>5. QED BY <3>3, <3>4
    <2>14. k = g - 1
      BY <2>5, <2>7
    <2>15. Flat(r) = (Early(Slots(r), k) \o Slots(r)[g]) \o Late(Slots(r), g)
      BY <1>5, <2>5, <2>8, <2>14, FlatAt
    <2>16. \A i \in 1 .. k : p.times[i] <= t
      <3>1. ASSUME NEW i \in 1 .. k
            PROVE  p.times[i] <= t
        <4>1. i \in 1 .. Len(p.times)
          BY <1>3, <1>6, <2>5
        <4>2. p.times[i] \in Nat
          BY <1>6, <4>1
        <4>3. QED BY <1>4, <2>5, <4>2
      <3>2. QED BY <3>1
    <2>17. C!With(Flat(p), src, when) = (Early(Slots(p), k) \o <<e>>) \o Late(Slots(p), k)
      BY <1>7, <1>10, <2>5, <2>16
    <2>18. QED BY <1>2, <2>11, <2>12, <2>13, <2>15, <2>17
  <1>11. QED BY <1>8, <1>9, <1>10
------------------------------------------------------------------------------
\* An entry of a bucket goes, and before it stands no entry of the set asked
\* for: the calendar loses the first entry of that set.
LEMMA DroppedTaken ==
  ASSUME NEW p, NEW now \in Nat, Good(p, now), NEW k \in 1 .. Len(p.times),
         NEW i \in 1 .. Len(p.at[p.times[k]]), NEW E,
         [at |-> p.times[k], src |-> p.at[p.times[k]][i]] \in E,
         \A j \in 1 .. i - 1 : [at |-> p.times[k], src |-> p.at[p.times[k]][j]] \notin E,
         \A l \in 1 .. k - 1 : \A j \in 1 .. Len(p.at[p.times[l]]) :
           [at |-> p.times[l], src |-> p.at[p.times[l]][j]] \notin E
  PROVE  Flat(Dropped(p, p.times[k], i)) = C!WithoutFirst(Flat(p), E)
  <1>1. PICK j \in Nat : j = k - 1
    OBVIOUS
  <1>2. PICK a, s, b : a = Early(Slots(p), j) /\ s = Slots(p)[k] /\ b = Late(Slots(p), k)
    OBVIOUS
  <1>3. /\ Flat(p) = (a \o s) \o b /\ a \in Seq(Entry) /\ s \in Seq(Entry) /\ b \in Seq(Entry)
    BY <1>1, <1>2, FlatAt
  <1>4. Flat(Dropped(p, p.times[k], i)) = (a \o RemoveAt(s, i)) \o b
    BY <1>1, <1>2, DroppedFlat
  <1>5. /\ p.times[k] \in Nat /\ p.at[p.times[k]] \in Seq(Source)
        /\ s = Slot(p.times[k], p.at[p.times[k]])
    BY <1>2, SlotsType
  <1>6. /\ Len(s) = Len(p.at[p.times[k]])
        /\ \A l \in 1 .. Len(p.at[p.times[k]]) : s[l] = [at |-> p.times[k], src |-> p.at[p.times[k]][l]]
    BY <1>5, SlotType
  <1>7. i \in 1 .. Len(s) /\ s[i] \in E
    BY <1>6
  <1>8. ASSUME NEW l \in 1 .. i - 1
        PROVE  s[l] \notin E
    <2>1. l \in 1 .. Len(p.at[p.times[k]])
      BY <1>5
    <2>2. QED BY <1>6, <2>1
  <1>9. a \in Seq(Entry \ E)
    <2>1. ASSUME NEW l \in 1 .. j, NEW g \in 1 .. Len(p.at[p.times[l]])
          PROVE  [at |-> p.times[l], src |-> p.at[p.times[l]][g]] \in Entry \ E
      <3>1. l \in 1 .. Len(p.times) /\ l \in 1 .. k - 1
        BY <1>1
      <3>2. p.times[l] \in Nat /\ p.at[p.times[l]] \in Seq(Source)
        BY <3>1, SlotsType
      <3>3. p.at[p.times[l]][g] \in Source
        BY <3>2
      <3>4. [at |-> p.times[l], src |-> p.at[p.times[l]][g]] \in Entry
        BY <3>2, <3>3 DEF Entry
      <3>5. QED BY <3>1, <3>4
    <2>2. j \in 0 .. Len(p.times)
      BY <1>1
    <2>3. QED BY <1>2, <2>1, <2>2, EarlyAre
  <1>10. C!WithoutFirst((a \o s) \o b, E) = (a \o RemoveAt(s, i)) \o b
    <2>1. FirstOf(s, i, E)
      BY <1>7, <1>8 DEF FirstOf
    <2>2. NoneOf(a, E)
      BY <1>9 DEF NoneOf
    <2>3. ASSUME NEW f \in Seq(Entry), NEW g \in Seq(Entry), NEW h \in Seq(Entry),
                 NEW m \in 1 .. Len(g), FirstOf(g, m, E), NoneOf(f, E)
          PROVE  C!WithoutFirst((f \o g) \o h, E) = (f \o RemoveAt(g, m)) \o h
      BY ONLY <2>3, TakenOut
    <2>4. QED BY <1>3, <1>7, <2>1, <2>2, <2>3
  <1>11. QED BY <1>3, <1>4, <1>10

\* Every entry of the calendar is one of a bucket, and the other way round.
LEMMA FlatHolds ==
  ASSUME NEW p, NEW now, Good(p, now), NEW k \in 1 .. Len(p.times),
         NEW i \in 1 .. Len(p.at[p.times[k]])
  PROVE  [at |-> p.times[k], src |-> p.at[p.times[k]][i]] \in ToSet(Flat(p))
  <1>1. PICK j \in Nat : j = k - 1
    BY SlotsType
  <1>2. PICK a, s, b : a = Early(Slots(p), j) /\ s = Slots(p)[k] /\ b = Late(Slots(p), k)
    OBVIOUS
  <1>3. /\ Flat(p) = (a \o s) \o b /\ a \in Seq(Entry) /\ s \in Seq(Entry) /\ b \in Seq(Entry)
    BY <1>1, <1>2, FlatAt
  <1>4. /\ p.times[k] \in Nat /\ p.at[p.times[k]] \in Seq(Source)
        /\ s = Slot(p.times[k], p.at[p.times[k]])
    BY <1>2, SlotsType
  <1>5. /\ i \in 1 .. Len(s)
        /\ s[i] = [at |-> p.times[k], src |-> p.at[p.times[k]][i]]
    BY <1>4, SlotType
  <1> DEFINE w == (a \o s) \o b
  <1>6. w \in Seq(Entry) /\ Beside(w, a, s, b)
    BY <1>3, ThreeLists
  <1> HIDE DEF w
  <1>7. Len(a) + i \in DOMAIN w /\ w[Len(a) + i] = s[i]
    <2>1. Len(a) \in Nat /\ Len(s) \in Nat /\ Len(b) \in Nat
      BY <1>3
    <2>2. Len(a) + i \in 1 .. Len(w)
      BY <1>5, <1>6, <2>1 DEF Beside
    <2>3. QED BY <1>5, <1>6, <2>2 DEF Beside
  <1>8. s[i] \in ToSet(w)
    BY <1>7 DEF ToSet
  <1>9. QED BY <1>3, <1>5, <1>8 DEF w

EntriesIn(p, src) == {e \in ToSet(Flat(p)) : e.src = src}

LEMMA CancelledFlat ==
  ASSUME NEW p, NEW now \in Nat, Good(p, now), NEW src \in Source
  PROVE  Flat(Cancelled(p, src)) = C!WithoutFirst(Flat(p), EntriesIn(p, src))
  <1>1. CASE Holds(p, src)
    <2>1. PICK k, i : CancelsAt(p, src, k, i)
      BY <1>1, CancelledWhere
    <2>2. /\ k \in 1 .. Len(p.times) /\ i \in 1 .. Len(p.at[p.times[k]])
          /\ p.at[p.times[k]][i] = src
          /\ Cancelled(p, src) = Dropped(p, p.times[k], i)
      BY <2>1 DEF CancelsAt
    <2> DEFINE E == EntriesIn(p, src)
    <2>3. [at |-> p.times[k], src |-> p.at[p.times[k]][i]] \in E
      BY <2>2, FlatHolds DEF EntriesIn
    <2>4. ASSUME NEW j \in 1 .. i - 1
          PROVE  [at |-> p.times[k], src |-> p.at[p.times[k]][j]] \notin E
      BY <2>1 DEF CancelsAt, EntriesIn
    <2>5. ASSUME NEW l \in 1 .. k - 1, NEW j \in 1 .. Len(p.at[p.times[l]])
          PROVE  [at |-> p.times[l], src |-> p.at[p.times[l]][j]] \notin E
      <3>1. p.at[p.times[l]][j] # src
        BY <2>1 DEF CancelsAt
      <3>2. QED BY <3>1 DEF EntriesIn
    <2> HIDE DEF E
    <2>6. Flat(Dropped(p, p.times[k], i)) = C!WithoutFirst(Flat(p), E)
      BY <2>2, <2>3, <2>4, <2>5, DroppedTaken
    <2>7. QED BY <2>2, <2>6 DEF E
  <1>2. CASE ~ Holds(p, src)
    <2>1. Cancelled(p, src) = p
      BY <1>2 DEF Cancelled
    <2> DEFINE n == Len(p.times)
               Y == {e \in Entry : e.src # src}
    <2>2. n \in Nat /\ n \in 0 .. n
      BY SlotsType
    <2>3. ASSUME NEW l \in 0 + 1 .. n, NEW j \in 1 .. Len(p.at[p.times[l]])
          PROVE  [at |-> p.times[l], src |-> p.at[p.times[l]][j]] \in Y
      <3>1. l \in 1 .. n
        BY <2>2
      <3>2. p.times[l] \in Nat /\ p.times[l] \in DOMAIN p.at /\ p.at[p.times[l]] \in Seq(Source)
        BY <3>1, SlotsType
      <3>3. src \notin ToSet(p.at[p.times[l]])
        BY <1>2, <3>2 DEF Holds
      <3>4. p.at[p.times[l]][j] \in Source /\ p.at[p.times[l]][j] # src
        BY <3>2, <3>3 DEF ToSet
      <3>5. QED BY <3>2, <3>4 DEF Entry
    <2> HIDE DEF Y
    <2>4. 0 \in 0 .. n
      BY <2>2
    <2>5. Late(Slots(p), 0) \in Seq(Y)
      BY <2>3, <2>4, LateAre
    <2>6. Late(Slots(p), 0) = Flat(p)
      <3>1. Slots(p) \in Seq(Seq(Entry))
        BY SlotsType
      <3>2. SubSeq(Slots(p), 0 + 1, Len(Slots(p))) = Slots(p)
        BY <3>1, SubSeqFull
      <3>3. QED BY <3>2 DEF Late, Flat
    <2>7. ASSUME NEW i \in DOMAIN Flat(p)
          PROVE  Flat(p)[i] \notin EntriesIn(p, src)
      <3>1. Flat(p)[i] \in Y
        BY <2>5, <2>6
      <3>2. QED BY <3>1 DEF EntriesIn, Y
    <2>8. C!WithoutFirst(Flat(p), EntriesIn(p, src)) = Flat(p)
      BY <2>7, NoneTakenOut
    <2>9. QED BY <2>1, <2>8
  <1>3. QED BY <1>1, <1>2

\* The same for one entry named by its time.
LEMMA DroppedEntryFlat ==
  ASSUME NEW p, NEW now \in Nat, Good(p, now), NEW src \in Source,
         NEW when \in DOMAIN p.at, src \in ToSet(p.at[when])
  PROVE  /\ FirstIndex(p.at[when], src) \in 1 .. Len(p.at[when])
         /\ Flat(Dropped(p, when, FirstIndex(p.at[when], src))) =
              C!WithoutFirst(Flat(p), {[at |-> when, src |-> src]})
  <1>1. PICK k \in 1 .. Len(p.times) : p.times[k] = when
    BY DEF Good
  <1>2. p.at[when] \in Seq(Source)
    BY DEF Good
  <1>3. PICK x \in 1 .. Len(p.at[when]) : p.at[when][x] = src
    BY <1>2 DEF ToSet
  <1>4. /\ FirstIndex(p.at[when], src) \in 1 .. Len(p.at[when])
        /\ p.at[when][FirstIndex(p.at[when], src)] = src
        /\ \A j \in 1 .. FirstIndex(p.at[when], src) - 1 : p.at[when][j] # src
    BY <1>2, <1>3, FirstIndexFound
  <1>5. PICK i : i = FirstIndex(p.at[when], src)
    OBVIOUS
  <1> DEFINE E == {[at |-> when, src |-> src]}
  <1>6. /\ i \in 1 .. Len(p.at[p.times[k]])
        /\ [at |-> p.times[k], src |-> p.at[p.times[k]][i]] \in E
        /\ \A j \in 1 .. i - 1 : [at |-> p.times[k], src |-> p.at[p.times[k]][j]] \notin E
    BY <1>1, <1>4, <1>5
  <1>7. ASSUME NEW l \in 1 .. k - 1, NEW j \in 1 .. Len(p.at[p.times[l]])
        PROVE  [at |-> p.times[l], src |-> p.at[p.times[l]][j]] \notin E
    <2>1. l \in 1 .. Len(p.times) /\ l # k
      BY SlotsType
    <2>2. p.times[l] # when
      BY <1>1, <2>1, TimesDiffer
    <2>3. QED BY <2>2
  <1> HIDE DEF E
  <1>8. Flat(Dropped(p, p.times[k], i)) = C!WithoutFirst(Flat(p), E)
    BY <1>6, <1>7, DroppedTaken
  <1>9. QED BY <1>1, <1>4, <1>5, <1>8 DEF E

\* The first entry of the first time is the first of the calendar.
LEMMA HeadFlat ==
  ASSUME NEW p, NEW now \in Nat, Good(p, now), p.times # << >>
  PROVE  /\ Flat(p) # << >>
         /\ Head(Flat(p)) = [at |-> Head(p.times), src |-> Head(p.at[Head(p.times)])]
         /\ Tail(Flat(p)) = Flat(Dropped(p, Head(p.times), 1))
         /\ 1 \in 1 .. Len(p.at[Head(p.times)])
         /\ Head(p.times) \in DOMAIN p.at
  <1>1. p.times \in Seq(Nat)
    BY DEF Good
  <1>2. 1 \in 1 .. Len(p.times) /\ Head(p.times) = p.times[1]
    BY <1>1
  <1>3. PICK k \in 1 .. Len(p.times) : k = 1
    BY <1>2
  <1>4. PICK t, b, j, l : t = p.times[k] /\ b = p.at[t] /\ j = 0 /\ l = Late(Slots(p), k)
    OBVIOUS
  <1>5. /\ t \in Nat /\ t \in DOMAIN p.at /\ b \in Seq(Source) /\ Slots(p)[k] = Slot(t, b)
        /\ t = Head(p.times)
    BY <1>2, <1>3, <1>4, SlotsType
  <1>6. 1 \in 1 .. Len(b) /\ Head(b) = b[1]
    <2>1. b # << >>
      BY <1>4, <1>5 DEF Good
    <2>2. QED BY <1>5, <2>1
  <1>7. j \in Nat /\ j = k - 1
    BY <1>3, <1>4
  <1>8. Early(Slots(p), j) = << >>
    <2>1. Slots(p) \in Seq(Seq(Entry))
      BY SlotsType
    <2>2. SubSeq(Slots(p), 1, 0) = << >>
      BY <2>1, SubSeqEmpty
    <2>3. QED BY <1>4, <2>2, FlattenNone DEF Early
  <1> DEFINE s == Slot(t, b)
  <1>9. s \in Seq(Entry) /\ Len(s) = Len(b) /\ s[1] = [at |-> t, src |-> b[1]]
    BY <1>5, <1>6, SlotType
  <1> HIDE DEF s
  <1>10. Flat(p) = (<< >> \o s) \o l /\ l \in Seq(Entry)
    BY <1>4, <1>5, <1>7, <1>8, FlatAt DEF s
  <1>11. Flat(Dropped(p, t, 1)) = (<< >> \o RemoveAt(s, 1)) \o l
    <2>1. PICK i : i = 1
      OBVIOUS
    <2>2. i \in 1 .. Len(p.at[p.times[k]])
      BY <1>4, <1>6, <2>1
    <2>3. Flat(Dropped(p, p.times[k], i)) =
           (Early(Slots(p), j) \o RemoveAt(Slots(p)[k], i)) \o Late(Slots(p), k)
      BY <1>7, <2>2, DroppedFlat
    <2>4. QED BY <1>4, <1>5, <1>8, <2>1, <2>3 DEF s
  <1>12. Len(s) > 0
    BY <1>5, <1>6, <1>9
  <1>13. /\ Head((<< >> \o s) \o l) = s[1]
         /\ Tail((<< >> \o s) \o l) = (<< >> \o RemoveAt(s, 1)) \o l
         /\ (<< >> \o s) \o l # << >>
    BY <1>9, <1>10, <1>12, FirstTaken
  <1>14. QED BY <1>4, <1>5, <1>6, <1>9, <1>10, <1>11, <1>13
------------------------------------------------------------------------------
\* The calendar has as many entries as the buckets together.
LEMMA CountFlat ==
  ASSUME NEW p, NEW m, Good(p, m)
  PROVE  FoldFunction(+, 0, [t \in DOMAIN p.at |-> Len(p.at[t])]) = Len(Flat(p))
  <1> DEFINE f == [t \in DOMAIN p.at |-> Len(p.at[t])]
             n == Len(p.times)
             q == Slots(p)
             T(k) == {p.times[i] : i \in 1 .. k}
             M == {k \in 0 .. n : /\ IsFiniteSet(T(k))
                                  /\ Early(q, k) \in Seq(Entry)
                                  /\ \A x \in T(k) : f[x] \in Int
                                  /\ Total(f, T(k)) = Len(Early(q, k))}
  <1>1. /\ n \in Nat /\ q \in Seq(Seq(Entry)) /\ Len(q) = n
        /\ \A k \in 1 .. n : /\ p.times[k] \in DOMAIN p.at
                             /\ p.at[p.times[k]] \in Seq(Source)
                             /\ q[k] = Slot(p.times[k], p.at[p.times[k]])
                             /\ p.times[k] \in Nat
    BY SlotsType
  <1>2. DOMAIN f = DOMAIN p.at /\ \A t \in DOMAIN p.at : f[t] = Len(p.at[t])
    OBVIOUS
  <1>3. T(n) = DOMAIN p.at
    BY DEF Good
  <1>4. \A i, j \in 1 .. n : i # j => p.times[i] # p.times[j]
    BY TimesDiffer
  <1>5. FoldFunction(+, 0, f) = Total(f, DOMAIN f)
    BY DEF FoldFunction, Total
  <1>6. Early(q, n) = Flat(p)
    <2>1. SubSeq(q, 1, Len(q)) = q
      BY <1>1, SubSeqFull
    <2>2. QED BY <1>1, <2>1 DEF Early, Flat
  <1> HIDE DEF f, q, n
  <1>7. 0 \in M
    <2>1. T(0) = {}
      OBVIOUS
    <2>2. SubSeq(q, 1, 0) = << >>
      BY <1>1, SubSeqEmpty
    <2>3. Early(q, 0) = << >>
      BY <2>2, FlattenNone DEF Early
    <2>a. PICK z : z = Early(q, 0)
      OBVIOUS
    <2>b. z \in Seq(Entry) /\ Len(z) = 0
      <3>1. z = << >>
        BY <2>3, <2>a
      <3>2. QED BY ONLY <3>1
    <2>4. Total(f, {}) = 0 /\ IsFiniteSet({})
      BY TotalOfNone, FS_EmptySet
    <2> HIDE DEF T
    <2>5. Early(q, 0) \in Seq(Entry) /\ Len(Early(q, 0)) = 0
      BY <2>a, <2>b
    <2>6. 0 \in 0 .. n /\ IsFiniteSet(T(0)) /\ Total(f, T(0)) = Len(Early(q, 0))
      <3>1. 0 \in 0 .. n
        BY <1>1
      <3>2. QED BY <2>1, <2>4, <2>5, <3>1
    <2>7. \A x \in T(0) : f[x] \in Int
      BY <2>1
    <2>8. QED BY <2>5, <2>6, <2>7
  <1>8. ASSUME NEW k \in M, k < n
        PROVE  k + 1 \in M
    <2>1. PICK g \in 1 .. n : g = k + 1
      BY <1>1, <1>8
    <2>2. PICK x, s : x = p.times[g] /\ s = q[g]
      OBVIOUS
    <2>3. T(g) = T(k) \cup {x}
      <3>1. 1 .. g = (1 .. k) \cup {g}
        BY <1>1, <2>1
      <3>2. QED BY <2>2, <3>1
    <2>4. x \notin T(k)
      <3>1. ASSUME NEW i \in 1 .. k
            PROVE  p.times[i] # x
        <4>1. i \in 1 .. n /\ i # g
          BY <1>1, <2>1
        <4>2. QED BY <1>4, <2>2, <4>1
      <3>2. QED BY <3>1
    <2>5. s \in Seq(Entry) /\ f[x] = Len(s) /\ Len(s) \in Nat
      <3>1. x \in DOMAIN p.at /\ p.at[x] \in Seq(Source) /\ s = Slot(x, p.at[x]) /\ x \in Nat
        BY <1>1, <2>2
      <3>2. QED BY <1>2, <3>1, SlotType
    <2>6. /\ IsFiniteSet(T(k)) /\ Early(q, k) \in Seq(Entry)
          /\ \A y \in T(k) : f[y] \in Int
          /\ Total(f, T(k)) = Len(Early(q, k))
      OBVIOUS
    <2> HIDE DEF T
    <2>7. PICK S : S = T(k)
      OBVIOUS
    <2>8. Total(f, S \cup {x}) = Total(f, S) + f[x]
      <3>1. IsFiniteSet(S) /\ x \notin S /\ f[x] \in Int /\ \A y \in S : f[y] \in Int
        BY <2>4, <2>5, <2>6, <2>7
      <3>2. QED BY ONLY <3>1, TotalWith
    <2>9. Early(q, g) = Early(q, k) \o s
      <3>1. g \in 1 .. Len(q) /\ k = g - 1
        BY <1>1, <2>1
      <3>2. QED BY <1>1, <2>2, <3>1, EarlyNext
    <2>10. PICK e : e = Early(q, k)
      OBVIOUS
    <2>11. e \o s \in Seq(Entry) /\ Len(e \o s) = Len(e) + Len(s)
      <3>1. e \in Seq(Entry)
        BY <2>6, <2>10
      <3>2. QED BY <2>5, <3>1, ConcatProperties
    <2>12. IsFiniteSet(S \cup {x})
      BY <2>6, <2>7, FS_AddElement
    <2>13. g \in 0 .. n /\ IsFiniteSet(T(g)) /\ Early(q, g) \in Seq(Entry)
      BY <1>1, <2>3, <2>7, <2>9, <2>10, <2>11, <2>12
    <2>14. \A y \in T(g) : f[y] \in Int
      BY <2>3, <2>5, <2>6
    <2>15. Total(f, T(g)) = Len(Early(q, g))
      BY <2>3, <2>5, <2>6, <2>7, <2>8, <2>9, <2>10, <2>11
    <2>16. g \in M
      BY <2>13, <2>14, <2>15
    <2> HIDE DEF M
    <2>17. QED BY <2>1, <2>16
  <1>9. M = 0 .. n
    <2>1. M \in SUBSET (0 .. n)
      OBVIOUS
    <2> HIDE DEF M
    <2>2. QED BY <1>1, <1>7, <1>8, <2>1, BoundedInduction
  <1>10. n \in M
    <2> HIDE DEF M
    <2>1. QED BY <1>1, <1>9
  <1>11. Total(f, T(n)) = Len(Early(q, n))
    BY <1>10
  <1> HIDE DEF T
  <1>12. FoldFunction(+, 0, f) = Len(Flat(p))
    BY <1>2, <1>3, <1>5, <1>6, <1>11
  <1>13. QED BY <1>12 DEF f

\* The calendar of the event list, when that is in order.
LEMMA AgendaIsFlat == Good(Pending, lasteventtime) => Agenda = Flat(Pending)
  <1> SUFFICES ASSUME Good(Pending, lasteventtime)
               PROVE  Agenda = Flat(Pending)
    OBVIOUS
  <1>1. Pending.times = sorted_times /\ Pending.at = pending_by_time
    BY DEF Pending
  <1>2. /\ \A k \in 1 .. Len(sorted_times) : pending_by_time[sorted_times[k]] \in Seq(Source)
        /\ sorted_times \in Seq(Nat)
    BY <1>1, SlotsType DEF Good
  <1>3. ASSUME NEW k \in 1 .. Len(sorted_times)
        PROVE  Slot(sorted_times[k], pending_by_time[sorted_times[k]]) =
                 [j \in DOMAIN pending_by_time[sorted_times[k]] |->
                    [at |-> sorted_times[k], src |-> pending_by_time[sorted_times[k]][j]]]
    <2>1. DOMAIN pending_by_time[sorted_times[k]] = 1 .. Len(pending_by_time[sorted_times[k]])
      BY <1>2
    <2>2. QED BY <2>1 DEF Slot
  <1>4. DOMAIN sorted_times = 1 .. Len(sorted_times)
    BY <1>2
  <1> DEFINE g == [k \in DOMAIN sorted_times |->
                     LET t == sorted_times[k]
                     IN  [j \in DOMAIN pending_by_time[t] |->
                            [at |-> t, src |-> pending_by_time[t][j]]]]
  <1>5. g = Slots(Pending)
    BY <1>1, <1>3, <1>4 DEF Slots
  <1>6. Agenda = FlattenSeq(g)
    BY DEF Agenda
  <1> HIDE DEF g
  <1>7. QED BY <1>5, <1>6 DEF Flat

LEMMA AgendaAfter == Good(Pending, lasteventtime)' => Agenda' = Flat(Pending')
  <1>1. Good(Pending, lasteventtime) => Agenda = Flat(Pending)
    BY AgendaIsFlat
  <1>2. (Good(Pending, lasteventtime) => Agenda = Flat(Pending))'
    BY <1>1, PTL
  <1>3. QED BY <1>2

\* A step that replaces the two structures replaces the calendar.
LEMMA BecomesFlat ==
  ASSUME NEW p, NEW m, Good(p, m), Becomes(p), Good(Pending, lasteventtime)'
  PROVE  Agenda' = Flat(p)
  <1>1. Pending' = p
    BY DEF Becomes, Pending, Good
  <1>2. QED BY <1>1, AgendaAfter
------------------------------------------------------------------------------
\* Every step of the event list is one of the calendar.

\* The entries of a source are those the calendar's Cancel looks for.
LEMMA EntriesAre ==
  ASSUME NEW src, Agenda = Flat(Pending)
  PROVE  C!EntriesOf(src) = EntriesIn(Pending, src)
  BY DEF C!EntriesOf, C!ToSet, ToSet, EntriesIn

LEMMA GoodNext == (Inv => Rest /\ Good(Pending, lasteventtime))'
  <1>1. Inv => Rest /\ Good(Pending, lasteventtime)
    BY InvIsGood
  <1>2. QED BY <1>1, PTL

LEMMA ScheduleStep ==
  ASSUME Inv, Inv', NEW src \in Source, NEW when \in Time, SourceIsPending(src, when)
  PROVE  C!Schedule(src, when)
  <1>1. /\ Good(Pending, lasteventtime) /\ Good(Pending, lasteventtime)'
        /\ lasteventtime \in Nat /\ when \in Nat
    <2>1. (Inv => Rest /\ Good(Pending, lasteventtime))
      BY InvIsGood
    <2>2. (Inv => Rest /\ Good(Pending, lasteventtime))'
      BY GoodNext
    <2>3. QED BY <2>1, <2>2, MaxTimeAssumption DEF Rest, Time
  <1>2. Agenda = Flat(Pending)
    BY <1>1, AgendaIsFlat
  <1>3. PICK p : p = Scheduled(Pending, src, when)
    OBVIOUS
  <1>4. Good(p, lasteventtime)
    BY <1>1, <1>3, ScheduledGood
  <1>5. Agenda' = Flat(p)
    BY <1>1, <1>3, <1>4, BecomesFlat DEF SourceIsPending
  <1>6. Flat(p) = C!With(Flat(Pending), src, when)
    BY <1>1, <1>3, ScheduledFlat
  <1>7. Len(Agenda) < MaxPending
    <2>1. PendingCount = Len(Flat(Pending))
      BY <1>1, CountFlat DEF PendingCount, Pending
    <2>2. QED BY <1>2, <2>1 DEF SourceIsPending
  <1>8. QED BY <1>2, <1>5, <1>6, <1>7 DEF C!Schedule, SourceIsPending

LEMMA CancelStep ==
  ASSUME Inv, Inv', NEW src \in Source, CancelPendingSource(src)
  PROVE  C!Cancel(src)
  <1>1. /\ Good(Pending, lasteventtime) /\ Good(Pending, lasteventtime)'
        /\ lasteventtime \in Nat
    <2>1. (Inv => Rest /\ Good(Pending, lasteventtime))
      BY InvIsGood
    <2>2. (Inv => Rest /\ Good(Pending, lasteventtime))'
      BY GoodNext
    <2>3. QED BY <2>1, <2>2 DEF Rest
  <1>2. Agenda = Flat(Pending)
    BY <1>1, AgendaIsFlat
  <1>3. PICK p : p = Cancelled(Pending, src)
    OBVIOUS
  <1>4. Good(p, lasteventtime)
    BY <1>1, <1>3, CancelledGood
  <1>5. Agenda' = Flat(p)
    BY <1>1, <1>3, <1>4, BecomesFlat DEF CancelPendingSource
  <1>6. Flat(p) = C!WithoutFirst(Flat(Pending), EntriesIn(Pending, src))
    BY <1>1, <1>3, CancelledFlat
  <1>7. C!EntriesOf(src) = EntriesIn(Pending, src)
    BY <1>2, EntriesAre
  <1>8. QED BY <1>2, <1>5, <1>6, <1>7 DEF C!Cancel, CancelPendingSource

LEMMA CancelAtStep ==
  ASSUME Inv, Inv', NEW src \in Source, NEW when, CancelPendingSourceByTime(src, when)
  PROVE  C!CancelAt(src, when)
  <1>1. /\ Good(Pending, lasteventtime) /\ Good(Pending, lasteventtime)'
        /\ lasteventtime \in Nat
    <2>1. (Inv => Rest /\ Good(Pending, lasteventtime))
      BY InvIsGood
    <2>2. (Inv => Rest /\ Good(Pending, lasteventtime))'
      BY GoodNext
    <2>3. QED BY <2>1, <2>2 DEF Rest
  <1>2. Agenda = Flat(Pending) /\ Pending.at = pending_by_time
    BY <1>1, AgendaIsFlat DEF Pending
  <1>3. PICK p : p = Dropped(Pending, when, FirstIndex(pending_by_time[when], src))
    OBVIOUS
  <1>4. when \in DOMAIN Pending.at /\ src \in ToSet(Pending.at[when])
    BY <1>2 DEF CancelPendingSourceByTime, HasEntry
  <1>5. /\ FirstIndex(Pending.at[when], src) \in 1 .. Len(Pending.at[when])
        /\ Flat(Dropped(Pending, when, FirstIndex(Pending.at[when], src))) =
             C!WithoutFirst(Flat(Pending), {[at |-> when, src |-> src]})
    BY <1>1, <1>4, DroppedEntryFlat
  <1>6. Good(p, lasteventtime)
    BY <1>1, <1>2, <1>3, <1>4, <1>5, DroppedGood
  <1>7. Agenda' = Flat(p)
    BY <1>1, <1>3, <1>6, BecomesFlat DEF CancelPendingSourceByTime
  <1>8. QED BY <1>2, <1>3, <1>5, <1>7 DEF C!CancelAt, CancelPendingSourceByTime

LEMMA RescheduleStep ==
  ASSUME Inv, Inv', NEW src \in Source, NEW when \in Time, ReschedulePendingSource(src, when)
  PROVE  C!Reschedule(src, when)
  <1>1. /\ Good(Pending, lasteventtime) /\ Good(Pending, lasteventtime)'
        /\ lasteventtime \in Nat /\ when \in Nat
    <2>1. (Inv => Rest /\ Good(Pending, lasteventtime))
      BY InvIsGood
    <2>2. (Inv => Rest /\ Good(Pending, lasteventtime))'
      BY GoodNext
    <2>3. QED BY <2>1, <2>2, MaxTimeAssumption DEF Rest, Time
  <1>2. Agenda = Flat(Pending)
    BY <1>1, AgendaIsFlat
  <1>3. PICK p : p = Cancelled(Pending, src)
    OBVIOUS
  <1>4. Good(p, lasteventtime)
    BY <1>1, <1>3, CancelledGood
  <1>5. PICK r : r = Scheduled(p, src, when)
    OBVIOUS
  <1>6. Good(r, lasteventtime)
    BY <1>1, <1>4, <1>5, ScheduledGood
  <1>7. Agenda' = Flat(r)
    BY <1>1, <1>3, <1>5, <1>6, BecomesFlat DEF ReschedulePendingSource
  <1>8. Flat(p) = C!WithoutFirst(Flat(Pending), EntriesIn(Pending, src))
    BY <1>1, <1>3, CancelledFlat
  <1>9. Flat(r) = C!With(Flat(p), src, when)
    BY <1>1, <1>4, <1>5, ScheduledFlat
  <1>10. C!EntriesOf(src) = EntriesIn(Pending, src)
    BY <1>2, EntriesAre
  <1>11. QED BY <1>2, <1>7, <1>8, <1>9, <1>10 DEF C!Reschedule, ReschedulePendingSource

LEMMA RunStep ==
  ASSUME Inv, Inv', RunSource
  PROVE  C!RunEntry
  <1>1. /\ Good(Pending, lasteventtime) /\ Good(Pending, lasteventtime)'
        /\ lasteventtime \in Nat
    <2>1. (Inv => Rest /\ Good(Pending, lasteventtime))
      BY InvIsGood
    <2>2. (Inv => Rest /\ Good(Pending, lasteventtime))'
      BY GoodNext
    <2>3. QED BY <2>1, <2>2 DEF Rest
  <1>2. Agenda = Flat(Pending) /\ Pending.at = pending_by_time /\ Pending.times = sorted_times
    BY <1>1, AgendaIsFlat DEF Pending
  <1>3. PICK t : t = Head(sorted_times)
    OBVIOUS
  <1>4. PICK p : p = Dropped(Pending, t, 1)
    OBVIOUS
  <1>5. Pending.times # << >>
    BY <1>2 DEF RunSource
  <1>6. /\ Flat(Pending) # << >>
        /\ Head(Flat(Pending)) = [at |-> t, src |-> Head(pending_by_time[t])]
        /\ Tail(Flat(Pending)) = Flat(p)
        /\ 1 \in 1 .. Len(Pending.at[t])
        /\ t \in DOMAIN Pending.at
    BY <1>1, <1>2, <1>3, <1>4, <1>5, HeadFlat
  <1>7. Good(p, lasteventtime)
    <2>1. PICK i : i = 1
      OBVIOUS
    <2>2. i \in 1 .. Len(Pending.at[t])
      BY <1>6, <2>1
    <2>3. Good(Dropped(Pending, t, i), lasteventtime)
      BY <1>1, <1>6, <2>2, DroppedGood
    <2>4. QED BY <1>4, <2>1, <2>3
  <1>8. Agenda' = Flat(p)
    BY <1>1, <1>3, <1>4, <1>7, BecomesFlat DEF RunSource
  <1>9. Head(Agenda).at = t /\ Head(Agenda).src = Head(pending_by_time[t])
    BY <1>2, <1>6
  <1>10. QED BY <1>2, <1>3, <1>6, <1>8, <1>9 DEF C!RunEntry, RunSource

LEMMA SameAgenda ==
  ASSUME UNCHANGED <<pending_by_time, sorted_times>>
  PROVE  Agenda' = Agenda
  BY DEF Agenda

LEMMA EmptyAgenda == sorted_times = << >> => Agenda = << >>
  <1> SUFFICES ASSUME sorted_times = << >>
               PROVE  Agenda = << >>
    OBVIOUS
  <1> DEFINE g == [k \in DOMAIN sorted_times |->
                     LET t == sorted_times[k]
                     IN  [j \in DOMAIN pending_by_time[t] |->
                            [at |-> t, src |-> pending_by_time[t][j]]]]
  <1>1. g = << >>
    OBVIOUS
  <1>2. Agenda = FlattenSeq(g)
    BY DEF Agenda
  <1> HIDE DEF g
  <1>3. QED BY <1>1, <1>2, FlattenNone

LEMMA EmptyAgendaNext == (sorted_times = << >> => Agenda = << >>)'
  <1>1. sorted_times = << >> => Agenda = << >>
    BY EmptyAgenda
  <1>2. QED BY <1>1, PTL

LEMMA CalendarStep ==
  ASSUME Inv, Inv', [Next]_evars
  PROVE  [C!Next]_(C!cvars)
  <1>1. ASSUME NEW src \in Source, NEW when \in Time, Call(src, when)
        PROVE  C!Next
    <2>1. C!Schedule(src, when) \/ C!CancelAt(src, when) \/ C!Reschedule(src, when)
      BY <1>1, ScheduleStep, CancelAtStep, RescheduleStep
         DEF Call, SourceIsPendingGetHandle, CancelPendingSourceByHandle
    <2>2. QED BY <2>1 DEF C!Next
  <1>2. ASSUME NEW src \in Source, CancelPendingSource(src)
        PROVE  C!Next
    BY <1>2, CancelStep DEF C!Next
  <1>3. ASSUME NEW targets \in BoundedSeq(Target, MaxTriggers), TriggersArePending(targets)
        PROVE  C!Next
    <2>1. C!AddTriggers(targets)
      BY <1>3, SameAgenda DEF TriggersArePending, C!AddTriggers
    <2>2. targets \in C!BoundedSeq(Target, MaxTriggers)
      BY DEF BoundedSeq, SeqOf, C!BoundedSeq, C!SeqOf
    <2>3. QED BY <2>1, <2>2 DEF C!Next
  <1>4. ASSUME NEW t \in Time, SetEndtime(t)
        PROVE  C!Next
    <2>1. C!SetEndtime(t)
      BY <1>4, SameAgenda DEF SetEndtime, C!SetEndtime
    <2>2. QED BY <2>1 DEF C!Next
  <1>5. ASSUME Reset
        PROVE  C!Next
    <2>1. C!Restart
      BY <1>5, EmptyAgendaNext DEF Reset, C!Restart
    <2>2. QED BY <2>1 DEF C!Next
  <1>6. ASSUME ActivateTrigger
        PROVE  C!Next
    <2>1. C!RunTrigger
      BY <1>6, SameAgenda DEF ActivateTrigger, C!RunTrigger, C!Last, C!Front, Last, Front
    <2>2. QED BY <2>1 DEF C!Next
  <1>7. ASSUME RunSource
        PROVE  C!Next
    BY <1>7, RunStep DEF C!Next
  <1>8. CASE UNCHANGED evars
    BY <1>8, SameAgenda DEF evars, C!cvars
  <1>9. QED BY <1>1, <1>2, <1>3, <1>4, <1>5, <1>6, <1>7, <1>8 DEF Next, DoNextEvent

\* The dictionary of buckets and the sorted list of times together are one
\* calendar in the order of the times: what eventlist.py promises to every
\* component, for any number of sources, times and triggers.
THEOREM EventListIsACalendar == Spec => RefinesCalendar
  <1>1. Init => C!Init
    BY EmptyAgenda DEF Init, C!Init
  <1>2. Inv /\ Inv' /\ [Next]_evars => [C!Next]_(C!cvars)
    BY CalendarStep
  <1>3. Inv /\ [Next]_evars => Inv'
    BY StepInv
  <1>4. QED BY InitInv, <1>1, <1>2, <1>3, PTL DEF Spec, RefinesCalendar, C!Spec
------------------------------------------------------------------------------
\* A trigger's list of targets is one the event list may be given.
LEMMA TargetsAreBounded ==
  ASSUME NEW targets \in Seq(Target), pending_triggers \in Seq(Target),
         TriggersArePending(targets)
  PROVE  Next
  <1>1. Len(targets) \in 0 .. MaxTriggers /\ DOMAIN targets = 1 .. Len(targets)
    BY MaxTriggersAssumption DEF TriggersArePending
  <1>2. targets \in [1 .. Len(targets) -> Target]
    BY <1>1
  <1>3. targets \in BoundedSeq(Target, MaxTriggers)
    BY <1>1, <1>2 DEF BoundedSeq, SeqOf
  <1>4. QED BY <1>3 DEF Next

LEMMA TStepIsStep ==
  ASSUME TypeOK, [TNext]_vars, \A t \in MultiShot : next[t] \in Nat
  PROVE  [Next]_evars
  <1>0. pending_triggers \in Seq(Target)
    BY DEF TypeOK
  <1>1. ASSUME NEW t \in SingleShot, ActivateSingleShot(t)
        PROVE  Next
    <2>1. Targets[t] \in Seq(Target)
      BY TriggersAssumption
    <2>2. QED BY <1>0, <1>1, <2>1, TargetsAreBounded DEF ActivateSingleShot
  <1>2. ASSUME NEW t \in MultiShot, ActivateMultiShot(t)
        PROVE  Next
    <2>1. Targets[t] \in Seq(Target) /\ next[t] \in Nat
      BY TriggersAssumption
    <2>2. Targets[t][next[t] + 1] \in Target
      BY <1>2, <2>1 DEF ActivateMultiShot
    <2>3. <<Targets[t][next[t] + 1]>> \in Seq(Target)
      BY <2>2
    <2>4. QED BY <1>0, <1>2, <2>3, TargetsAreBounded DEF ActivateMultiShot
  <1>3. ASSUME NEW t \in Barrier, ActivateBarrier(t)
        PROVE  [Next]_evars
    <2>1. Targets[t] \in Seq(Target)
      BY TriggersAssumption
    <2>2. CASE BarrierOpens(t)
      BY <1>0, <1>3, <2>1, <2>2, TargetsAreBounded DEF ActivateBarrier
    <2>3. CASE ~ BarrierOpens(t)
      BY <1>3, <2>3 DEF ActivateBarrier
    <2>4. QED BY <2>2, <2>3
  <1>4. CASE UNCHANGED vars
    BY <1>4 DEF vars
  <1>5. ASSUME TNext
        PROVE  [Next]_evars
    <2>1. ASSUME ActivateTarget
          PROVE  Next
      BY <2>1 DEF ActivateTarget, Next, DoNextEvent
    <2>2. ASSUME Restart
          PROVE  Next
      BY <2>2 DEF Restart, Next
    <2>3. ASSUME \/ \E src \in Source, when \in Time : Call(src, when)
                 \/ \E src \in Source : CancelPendingSource(src)
                 \/ \E t \in Time : SetEndtime(t)
                 \/ RunSource
          PROVE  Next
      BY <2>3 DEF Next, DoNextEvent
    <2>4. QED BY <1>1, <1>2, <1>3, <1>5, <2>1, <2>2, <2>3 DEF TNext
  <1>6. QED BY <1>4, <1>5

\* The next target of a multi-shot trigger is always a position in its list.
LEMMA NextIsNatural == TSpec => [](next \in [MultiShot -> Nat])
  <1> DEFINE N == next \in [MultiShot -> Nat]
  <1>1. TInit => N
    BY DEF TInit, TriggersInit
  <1>2. ASSUME N, [TNext]_vars
        PROVE  N'
    <2>1. ASSUME NEW t \in MultiShot, ActivateMultiShot(t)
          PROVE  N'
      BY <1>2, <2>1 DEF ActivateMultiShot
    <2>2. ASSUME Restart
          PROVE  N'
      BY <2>2 DEF Restart
    <2>3. CASE UNCHANGED next
      BY <1>2, <2>3
    <2>4. QED
      BY <1>2, <2>1, <2>2, <2>3
         DEF TNext, vars, tvars, ActivateSingleShot, ActivateBarrier, ActivateTarget
  <1>3. QED BY <1>1, <1>2, PTL DEF TSpec

\* Whatever triggers fire, the event list under them behaves as the event list
\* alone does.
THEOREM TriggersImplementEventList == TSpec => Spec
  <1>1. TInit => Init
    BY DEF TInit
  <1>2. next \in [MultiShot -> Nat] => \A t \in MultiShot : next[t] \in Nat
    OBVIOUS
  <1>3. TypeOK /\ [TNext]_vars /\ next \in [MultiShot -> Nat] => [Next]_evars
    BY <1>2, TStepIsStep
  <1>4. Init => Inv
    BY InitInv
  <1>5. Inv /\ [Next]_evars => Inv'
    BY StepInv
  <1>6. Inv => TypeOK
    BY DEF Inv
  <1>7. QED BY <1>1, <1>3, <1>4, <1>5, <1>6, NextIsNatural, PTL DEF TSpec, Spec

\* The two structures of the event list stay in step under any triggers.
THEOREM TriggersKeepAgenda == TSpec => [](TypeOK /\ AgendaConsistent)
  BY TriggersImplementEventList, AgendaHolds, EventListTypeCorrect, PTL

\* Under any triggers the event list is the calendar it promises to be.
THEOREM TriggersKeepCalendar == TSpec => RefinesCalendar
  BY TriggersImplementEventList, EventListIsACalendar, PTL

\* Under any triggers the clock moves forward only, and not while one waits.
THEOREM TriggersKeepClock == TSpec => ClockMovesForward
  BY TriggersImplementEventList, ClockHolds, PTL
------------------------------------------------------------------------------
\* How often a target stands in a list.

Standing(s, x) == {i \in DOMAIN s : s[i] = x}

LEMMA StandingIsFinite ==
  ASSUME NEW S, NEW s \in Seq(S), NEW x
  PROVE  /\ Standing(s, x) \in SUBSET (1 .. Len(s)) /\ IsFiniteSet(Standing(s, x))
         /\ Occurrences(s, x) = Cardinality(Standing(s, x))
         /\ Occurrences(s, x) \in Nat
  <1>1. Standing(s, x) \in SUBSET (1 .. Len(s)) /\ Len(s) \in Nat
    BY DEF Standing
  <1>2. IsFiniteSet(1 .. Len(s))
    BY <1>1, FS_Interval
  <1>3. IsFiniteSet(Standing(s, x))
    BY <1>1, <1>2, FS_Subset
  <1>4. Occurrences(s, x) = Cardinality(Standing(s, x))
    BY DEF Occurrences, Standing
  <1>5. QED BY <1>1, <1>3, <1>4, FS_CardinalityType

LEMMA OccursInBoth ==
  ASSUME NEW S, NEW s \in Seq(S), NEW t \in Seq(S), NEW x
  PROVE  Occurrences(s \o t, x) = Occurrences(s, x) + Occurrences(t, x)
  <1> DEFINE A == Standing(s, x)
             B == Standing(t, x)
             Moves == {Len(s) + i : i \in B}
             Both == Standing(s \o t, x)
             Shift == [i \in B |-> Len(s) + i]
  <1>1. /\ s \o t \in Seq(S) /\ Len(s \o t) = Len(s) + Len(t)
        /\ \A i \in 1 .. Len(s) + Len(t) :
             (s \o t)[i] = IF i <= Len(s) THEN s[i] ELSE t[i - Len(s)]
    BY ConcatProperties
  <1>2. Len(s) \in Nat /\ Len(t) \in Nat /\ A \in SUBSET (1 .. Len(s)) /\ B \in SUBSET (1 .. Len(t))
    BY StandingIsFinite
  <1>3. Both = A \cup Moves
    <2>1. ASSUME NEW i \in Both
          PROVE  i \in A \cup Moves
      <3>1. i \in 1 .. Len(s) + Len(t) /\ (s \o t)[i] = x
        BY <1>1 DEF Standing
      <3>2. CASE i <= Len(s)
        BY <1>1, <1>2, <3>1, <3>2 DEF Standing
      <3>3. CASE i > Len(s)
        <4>1. i - Len(s) \in 1 .. Len(t) /\ t[i - Len(s)] = x /\ i = Len(s) + (i - Len(s))
          BY <1>1, <1>2, <3>1, <3>3
        <4>2. i - Len(s) \in B
          BY <4>1 DEF Standing
        <4>3. QED BY <4>1, <4>2
      <3>4. QED BY <1>2, <3>1, <3>2, <3>3
    <2>2. ASSUME NEW i \in A
          PROVE  i \in Both
      BY <1>1, <1>2 DEF Standing
    <2>3. ASSUME NEW i \in B
          PROVE  Len(s) + i \in Both
      <3>1. i \in 1 .. Len(t) /\ t[i] = x
        BY DEF Standing
      <3>2. Len(s) + i \in 1 .. Len(s) + Len(t) /\ ~ (Len(s) + i <= Len(s)) /\ (Len(s) + i) - Len(s) = i
        BY <1>2, <3>1
      <3>3. (s \o t)[Len(s) + i] = x
        BY <1>1, <3>1, <3>2
      <3>4. QED BY <1>1, <3>2, <3>3 DEF Standing
    <2>4. QED BY <2>1, <2>2, <2>3
  <1>4. Shift \in Bijection(B, Moves)
    <2> HIDE DEF B
    <2>1. Shift \in [B -> Moves]
      OBVIOUS
    <2>2. \A i, j \in B : Shift[i] = Shift[j] => i = j
      BY <1>2
    <2>3. \A y \in Moves : \E i \in B : Shift[i] = y
      OBVIOUS
    <2>4. QED BY <2>1, <2>2, <2>3 DEF Bijection, Injection, Surjection, IsInjective
  <1>5. IsFiniteSet(Moves) /\ Cardinality(Moves) = Cardinality(B)
    <2>1. IsFiniteSet(B) /\ ExistsBijection(B, Moves)
      BY <1>4, StandingIsFinite DEF ExistsBijection
    <2> HIDE DEF B, Moves
    <2>2. QED BY <2>1, FS_Bijection
  <1>6. A \cap Moves = {}
    BY <1>2
  <1> HIDE DEF Moves
  <1>7. Cardinality(A \cup Moves) = Cardinality(A) + Cardinality(Moves)
    <2>1. IsFiniteSet(A)
      BY StandingIsFinite
    <2> HIDE DEF A
    <2>2. Cardinality(A \cup Moves) = Cardinality(A) + Cardinality(Moves) - Cardinality(A \cap Moves)
      BY <1>5, <2>1, FS_Union
    <2>3. Cardinality(A \cap Moves) = 0
      BY <1>6, FS_EmptySet
    <2>4. Cardinality(A) \in Nat /\ Cardinality(Moves) \in Nat
      BY <1>5, <2>1, FS_CardinalityType
    <2>5. QED BY <2>2, <2>3, <2>4
  <1>8. /\ Occurrences(s, x) = Cardinality(A) /\ Occurrences(t, x) = Cardinality(B)
        /\ Occurrences(s \o t, x) = Cardinality(Both)
    BY <1>1, StandingIsFinite
  <1>9. QED BY <1>3, <1>5, <1>7, <1>8

LEMMA NothingStands == \A x : Occurrences(<< >>, x) = 0
  <1>1. \A x : {i \in DOMAIN << >> : << >>[i] = x} = {}
    OBVIOUS
  <1>2. QED BY <1>1, FS_EmptySet DEF Occurrences

\* In a list without repetition it stands once or not at all.
LEMMA OccursOnce ==
  ASSUME NEW S, NEW s \in Seq(S), NEW x,
         \A i, j \in DOMAIN s : s[i] = s[j] => i = j
  PROVE  Occurrences(s, x) = IF x \in ToSet(s) THEN 1 ELSE 0
  <1>1. Occurrences(s, x) = Cardinality(Standing(s, x)) /\ IsFiniteSet(Standing(s, x))
    BY StandingIsFinite
  <1>2. CASE x \in ToSet(s)
    <2>1. PICK i \in DOMAIN s : s[i] = x
      BY <1>2 DEF ToSet
    <2>2. Standing(s, x) = {i}
      BY <2>1 DEF Standing
    <2>3. QED BY <1>1, <1>2, <2>2, FS_Singleton
  <1>3. CASE x \notin ToSet(s)
    <2>1. Standing(s, x) = {}
      BY <1>3 DEF Standing, ToSet
    <2>2. QED BY <1>1, <1>3, <2>1, FS_EmptySet
  <1>4. QED BY <1>2, <1>3

LEMMA OccursAlone ==
  ASSUME NEW S, NEW e \in S, NEW x
  PROVE  Occurrences(<<e>>, x) = IF e = x THEN 1 ELSE 0
  <1>1. <<e>> \in Seq(S) /\ DOMAIN <<e>> = {1} /\ <<e>>[1] = e
    OBVIOUS
  <1>2. x \in ToSet(<<e>>) <=> e = x
    BY <1>1 DEF ToSet
  <1>3. \A i, j \in DOMAIN <<e>> : <<e>>[i] = <<e>>[j] => i = j
    BY <1>1
  <1> HIDE DEF Occurrences
  <1>4. Occurrences(<<e>>, x) = IF x \in ToSet(<<e>>) THEN 1 ELSE 0
    BY <1>1, <1>3, OccursOnce
  <1>5. QED BY <1>2, <1>4

LEMMA FrontAndLast ==
  ASSUME NEW S, NEW s \in Seq(S), s # << >>
  PROVE  /\ Len(s) \in Nat \ {0} /\ Last(s) = s[Len(s)] /\ Last(s) \in S
         /\ Front(s) \in Seq(S) /\ Len(Front(s)) = Len(s) - 1
         /\ \A i \in 1 .. Len(s) - 1 : Front(s)[i] = s[i]
  <1>1. Len(s) \in Nat \ {0} /\ Last(s) = s[Len(s)] /\ Last(s) \in S
    BY DEF Last
  <1>2. /\ Front(s) \in Seq(S) /\ Len(Front(s)) = Len(s) - 1
        /\ \A i \in 1 .. Len(s) - 1 : Front(s)[i] = s[i]
    <2>1. PICK n : n = Len(s) - 1
      OBVIOUS
    <2>2. n \in 0 .. Len(s) /\ 1 .. n \subseteq 1 .. Len(s)
      BY <1>1, <2>1
    <2>3. /\ SubSeq(s, 1, n) \in Seq(S) /\ Len(SubSeq(s, 1, n)) = n
          /\ \A i \in 1 .. n : SubSeq(s, 1, n)[i] = s[i]
      BY <2>2
    <2>4. Front(s) = SubSeq(s, 1, n)
      BY <2>1 DEF Front
    <2>5. QED BY <2>1, <2>3, <2>4
  <1>3. QED BY <1>1, <1>2

LEMMA OccursInFront ==
  ASSUME NEW S, NEW s \in Seq(S), s # << >>, NEW x
  PROVE  Occurrences(s, x) = Occurrences(Front(s), x) + IF Last(s) = x THEN 1 ELSE 0
  <1>1. Len(s) \in Nat \ {0} /\ Last(s) = s[Len(s)] /\ Last(s) \in S
    BY FrontAndLast
  <1>2. /\ Front(s) \in Seq(S) /\ Len(Front(s)) = Len(s) - 1
        /\ \A i \in 1 .. Len(s) - 1 : Front(s)[i] = s[i]
    BY FrontAndLast
  <1>3. s = Front(s) \o <<Last(s)>>
    <2> DEFINE f == Front(s)
               l == <<Last(s)>>
    <2>1. l \in Seq(S) /\ Len(l) = 1 /\ l[1] = s[Len(s)]
      BY <1>1
    <2> HIDE DEF f, l
    <2>2. /\ f \o l \in Seq(S) /\ Len(f \o l) = Len(f) + Len(l)
          /\ \A i \in 1 .. Len(f) + Len(l) :
               (f \o l)[i] = IF i <= Len(f) THEN f[i] ELSE l[i - Len(f)]
      BY <1>2, <2>1, ConcatProperties DEF f
    <2>3. Len(f \o l) = Len(s) /\ Len(f) = Len(s) - 1
      BY <1>1, <1>2, <2>1, <2>2 DEF f
    <2>4. ASSUME NEW i \in 1 .. Len(s)
          PROVE  (f \o l)[i] = s[i]
      <3>1. CASE i < Len(s)
        <4>1. i \in 1 .. Len(s) - 1 /\ i <= Len(f)
          BY <1>1, <2>3, <3>1
        <4>2. QED BY <1>1, <1>2, <2>1, <2>2, <2>3, <4>1 DEF f
      <3>2. CASE i = Len(s)
        <4>1. ~ (i <= Len(f)) /\ i - Len(f) = 1 /\ i \in 1 .. Len(f) + Len(l)
          BY <1>1, <2>1, <2>3, <3>2
        <4>2. QED BY <1>1, <2>1, <2>2, <2>3, <3>2, <4>1
      <3>3. i < Len(s) \/ i = Len(s)
        BY <1>1
      <3>4. QED BY <3>1, <3>2, <3>3
    <2>5. f \o l = s
      BY <2>2, <2>3, <2>4, SeqEqual
    <2>6. QED BY <2>5 DEF f, l
  <1>4. <<Last(s)>> \in Seq(S)
    BY <1>1
  <1>5. Occurrences(Front(s) \o <<Last(s)>>, x) = Occurrences(Front(s), x) + Occurrences(<<Last(s)>>, x)
    BY <1>2, <1>4, OccursInBoth
  <1>6. QED BY <1>1, <1>3, <1>5, OccursAlone
------------------------------------------------------------------------------
\* What the triggers have released.

Trigger == SingleShot \cup MultiShot \cup Barrier

LEMMA Lists ==
  /\ \A t \in Trigger : Targets[t] \in Seq(Target)
  /\ \A t \in Trigger : \A i, j \in DOMAIN Targets[t] : Targets[t][i] = Targets[t][j] => i = j
  /\ \A t, u \in Trigger : t # u => ToSet(Targets[t]) \cap ToSet(Targets[u]) = {}
  <1>1. \A t \in Trigger : Targets[t] \in Seq(Target)
    BY TriggersAssumption DEF Trigger
  <1>2. \A t \in Trigger : \A i, j \in DOMAIN Targets[t] : Targets[t][i] = Targets[t][j] => i = j
    BY OwnersAssumption DEF Trigger
  <1>3. ASSUME NEW t \in Trigger, NEW u \in Trigger, t # u, NEW x \in ToSet(Targets[t]),
               x \in ToSet(Targets[u])
        PROVE  FALSE
    BY <1>3, OwnersAssumption DEF Trigger, ToSet
  <1>4. QED BY <1>1, <1>2, <1>3

LEMMA OfSingleShot ==
  ASSUME NEW t \in SingleShot, NEW x \in ToSet(Targets[t])
  PROVE  Released(x) = IF done[t] THEN 1 ELSE 0
  <1>1. \A u \in SingleShot : x \in ToSet(Targets[u]) => u = t
    BY Lists DEF Trigger
  <1>2. \E u \in SingleShot : x \in ToSet(Targets[u])
    OBVIOUS
  <1>3. \A u \in MultiShot \cup Barrier : x \notin ToSet(Targets[u])
    BY Lists, TriggersAssumption DEF Trigger
  <1>4. Released(x) = IF \E u \in SingleShot : x \in ToSet(Targets[u]) /\ done[u] THEN 1 ELSE 0
    BY <1>2, <1>3 DEF Released
  <1>5. QED BY <1>1, <1>4

LEMMA OfMultiShot ==
  ASSUME NEW t \in MultiShot, NEW i \in DOMAIN Targets[t],
         \A u \in MultiShot : next[u] \in 0 .. Len(Targets[u])
  PROVE  Released(Targets[t][i]) = IF i <= next[t] THEN 1 ELSE 0
  <1> DEFINE x == Targets[t][i]
  <1>0. \A u \in MultiShot : DOMAIN Targets[u] = 1 .. Len(Targets[u]) /\ Len(Targets[u]) \in Nat
    BY Lists DEF Trigger
  <1>1. ASSUME NEW u \in MultiShot, NEW j \in DOMAIN Targets[u], Targets[u][j] = x
        PROVE  u = t /\ j = i
    BY <1>1, OwnersAssumption
  <1>2. x \in ToSet(Targets[t])
    BY DEF ToSet
  <1>3. \A u \in SingleShot \cup Barrier : x \notin ToSet(Targets[u])
    BY <1>2, Lists, TriggersAssumption DEF Trigger
  <1> HIDE DEF x
  <1>4. Released(x) =
          IF \E u \in MultiShot : \E j \in 1 .. next[u] : Targets[u][j] = x THEN 1 ELSE 0
    BY <1>2, <1>3 DEF Released
  <1>5. (\E u \in MultiShot : \E j \in 1 .. next[u] : Targets[u][j] = x) <=> i <= next[t]
    <2>1. ASSUME NEW u \in MultiShot, NEW j \in 1 .. next[u], Targets[u][j] = x
          PROVE  i <= next[t]
      <3>1. j \in DOMAIN Targets[u]
        BY <1>0
      <3>2. u = t /\ j = i
        BY <1>1, <2>1, <3>1
      <3>3. QED BY <3>2
    <2>2. ASSUME i <= next[t]
          PROVE  i \in 1 .. next[t] /\ Targets[t][i] = x
      BY <1>0, <2>2 DEF x
    <2>3. QED BY <2>1, <2>2
  <1>6. QED BY <1>4, <1>5 DEF x

LEMMA OfBarrier ==
  ASSUME NEW t \in Barrier, NEW x \in ToSet(Targets[t])
  PROVE  Released(x) = IF remaining[t] = 0 THEN 1 ELSE 0
  <1>1. \A u \in Barrier : x \in ToSet(Targets[u]) => u = t
    BY Lists DEF Trigger
  <1>2. \A u \in SingleShot \cup MultiShot : x \notin ToSet(Targets[u])
    BY Lists, TriggersAssumption DEF Trigger
  <1>3. Released(x) =
          IF \E u \in Barrier : x \in ToSet(Targets[u]) /\ remaining[u] = 0 THEN 1 ELSE 0
    BY <1>2 DEF Released
  <1>4. QED BY <1>1, <1>3

\* The same of the next state.
LEMMA OfSingleShotNext ==
  ASSUME NEW t \in SingleShot, NEW x \in ToSet(Targets[t])
  PROVE  Released(x)' = IF done'[t] THEN 1 ELSE 0
  <1>1. Released(x) = IF done[t] THEN 1 ELSE 0
    BY OfSingleShot
  <1>2. (Released(x) = IF done[t] THEN 1 ELSE 0)'
    BY <1>1, PTL
  <1>3. QED BY <1>2

LEMMA OfMultiShotNext ==
  ASSUME NEW t \in MultiShot, NEW i \in DOMAIN Targets[t]
  PROVE  (\A u \in MultiShot : next'[u] \in 0 .. Len(Targets[u])) =>
            Released(Targets[t][i])' = IF i <= next'[t] THEN 1 ELSE 0
  <1>1. (\A u \in MultiShot : next[u] \in 0 .. Len(Targets[u])) =>
           Released(Targets[t][i]) = IF i <= next[t] THEN 1 ELSE 0
    BY OfMultiShot
  <1>2. ((\A u \in MultiShot : next[u] \in 0 .. Len(Targets[u])) =>
           Released(Targets[t][i]) = IF i <= next[t] THEN 1 ELSE 0)'
    BY <1>1, PTL
  <1>3. QED BY <1>2

LEMMA OfBarrierNext ==
  ASSUME NEW t \in Barrier, NEW x \in ToSet(Targets[t])
  PROVE  Released(x)' = IF remaining'[t] = 0 THEN 1 ELSE 0
  <1>1. Released(x) = IF remaining[t] = 0 THEN 1 ELSE 0
    BY OfBarrier
  <1>2. (Released(x) = IF remaining[t] = 0 THEN 1 ELSE 0)'
    BY <1>1, PTL
  <1>3. QED BY <1>2
------------------------------------------------------------------------------
\* A target is released once.

Balance ==
  /\ pending_triggers \in Seq(Target)
  /\ done \in [SingleShot -> BOOLEAN]
  /\ next \in [MultiShot -> Nat]
  /\ \A t \in MultiShot : next[t] \in 0 .. Len(Targets[t])
  /\ remaining \in [Barrier -> Nat]
  /\ ran \in [Target -> Nat]
  /\ \A x \in Target : Occurrences(pending_triggers, x) + ran[x] = Released(x)

\* What a step of a trigger puts on the stack is what it releases.
LEMMA ReleasesAll ==
  ASSUME Balance, NEW more \in Seq(Target), pending_triggers' = pending_triggers \o more,
         \A x \in Target : Released(x)' = Released(x) + Occurrences(more, x),
         UNCHANGED ran
  PROVE  /\ pending_triggers' \in Seq(Target)
         /\ \A x \in Target : (Occurrences(pending_triggers, x) + ran[x] = Released(x))'
  <1>1. pending_triggers \in Seq(Target)
    BY DEF Balance
  <1>2. pending_triggers' \in Seq(Target)
    BY <1>1, ConcatProperties
  <1>3. ASSUME NEW x \in Target
        PROVE  (Occurrences(pending_triggers, x) + ran[x] = Released(x))'
    <2>1. Occurrences(pending_triggers, x)' = Occurrences(pending_triggers', x)
      BY DEF Occurrences
    <2>2. Occurrences(pending_triggers \o more, x) =
            Occurrences(pending_triggers, x) + Occurrences(more, x)
      BY <1>1, OccursInBoth
    <2>3. Occurrences(pending_triggers, x) \in Nat /\ Occurrences(more, x) \in Nat
      BY <1>1, StandingIsFinite
    <2>4. ran[x] \in Nat /\ ran'[x] = ran[x]
      BY DEF Balance
    <2>5. Occurrences(pending_triggers, x) + ran[x] = Released(x)
      BY DEF Balance
    <2>6. Released(x)' = Released(x) + Occurrences(more, x)
      OBVIOUS
    <2>7. QED BY <2>1, <2>2, <2>3, <2>4, <2>5, <2>6
  <1>4. QED BY <1>2, <1>3

\* A target of no multi-shot trigger is not released by one.
LEMMA TriggersUnmoved ==
  ASSUME NEW x, \A u \in MultiShot : x \notin ToSet(Targets[u]),
         done' = done, remaining' = remaining
  PROVE  Released(x)' = Released(x)
  BY DEF Released

LEMMA SingleShotReleases ==
  ASSUME Balance, NEW t \in SingleShot, ActivateSingleShot(t)
  PROVE  Balance'
  <1>1. /\ Targets[t] \in Seq(Target) /\ ~ done[t] /\ done'[t]
        /\ \A u \in SingleShot : u # t => done'[u] = done[u]
        /\ done' \in [SingleShot -> BOOLEAN] /\ next' = next /\ remaining' = remaining
        /\ pending_triggers' = pending_triggers \o Targets[t] /\ ran' = ran
    BY Lists DEF Balance, ActivateSingleShot, TriggersArePending, Trigger
  <1>2. ASSUME NEW x \in Target
        PROVE  Released(x)' = Released(x) + Occurrences(Targets[t], x)
    <2>1. Occurrences(Targets[t], x) = IF x \in ToSet(Targets[t]) THEN 1 ELSE 0
      BY <1>1, Lists, OccursOnce DEF Trigger
    <2>2. CASE x \in ToSet(Targets[t])
      <3>1. Released(x) = IF done[t] THEN 1 ELSE 0
        BY <2>2, OfSingleShot
      <3>2. Released(x)' = IF done'[t] THEN 1 ELSE 0
        BY <2>2, OfSingleShotNext
      <3>3. QED BY <1>1, <2>1, <2>2, <3>1, <3>2
    <2>3. CASE x \notin ToSet(Targets[t])
      <3>1. Released(x)' = Released(x)
        BY <1>1, <2>3 DEF Released
      <3>2. Released(x) \in Nat
        BY DEF Released
      <3>3. QED BY <2>1, <2>3, <3>1, <3>2
    <2>4. QED BY <2>2, <2>3
  <1>3. /\ pending_triggers' \in Seq(Target)
        /\ \A x \in Target : (Occurrences(pending_triggers, x) + ran[x] = Released(x))'
    BY <1>1, <1>2, ReleasesAll
  <1>4. QED BY <1>1, <1>3 DEF Balance

LEMMA MultiShotReleases ==
  ASSUME Balance, NEW t \in MultiShot, ActivateMultiShot(t)
  PROVE  Balance'
  <1> DEFINE k == next[t] + 1
             e == Targets[t][k]
  <1>1. Targets[t] \in Seq(Target) /\ next[t] \in Nat /\ k \in DOMAIN Targets[t] /\ e \in Target
    BY Lists DEF Balance, ActivateMultiShot, Trigger
  <1>2. /\ done' = done /\ remaining' = remaining /\ ran' = ran
        /\ pending_triggers' = pending_triggers \o <<e>>
        /\ next' = [next EXCEPT ![t] = k]
    BY DEF ActivateMultiShot, TriggersArePending
  <1>3. next \in [MultiShot -> Nat] /\ \A u \in MultiShot : next[u] \in 0 .. Len(Targets[u])
    BY DEF Balance
  <1>4. /\ next' \in [MultiShot -> Nat] /\ next'[t] = k
        /\ \A u \in MultiShot : u # t => next'[u] = next[u]
        /\ \A u \in MultiShot : next'[u] \in 0 .. Len(Targets[u])
    <2>1. k \in 0 .. Len(Targets[t])
      BY <1>1
    <2>2. QED BY <1>2, <1>3, <2>1
  <1>5. ASSUME NEW x \in Target
        PROVE  Released(x)' = Released(x) + Occurrences(<<e>>, x)
    <2>0. Occurrences(<<e>>, x) = IF e = x THEN 1 ELSE 0
      BY <1>1, OccursAlone
    <2>1. ASSUME NEW u \in MultiShot, NEW i \in DOMAIN Targets[u], x = Targets[u][i]
          PROVE  Released(x)' = Released(x) + Occurrences(<<e>>, x)
      <3>1. Released(x) = IF i <= next[u] THEN 1 ELSE 0
        BY <1>3, <2>1, OfMultiShot
      <3>2. Released(x)' = IF i <= next'[u] THEN 1 ELSE 0
        <4>1. Released(Targets[u][i])' = IF i <= next'[u] THEN 1 ELSE 0
          BY <1>4, OfMultiShotNext
        <4>2. QED BY <2>1, <4>1
      <3>3. e = x <=> u = t /\ i = k
        BY <1>1, <2>1, OwnersAssumption
      <3>4. i \in Nat /\ next[u] \in Nat
        BY <1>3, Lists DEF Trigger
      <3> HIDE DEF e
      <3>5. CASE u = t
        <4>1. i <= next'[u] <=> i <= next[u] \/ i = k
          BY <1>4, <3>4, <3>5
        <4>2. i = k => ~ (i <= next[u])
          BY <3>4, <3>5
        <4> HIDE DEF k
        <4>3. QED BY <2>0, <3>1, <3>2, <3>3, <3>5, <4>1, <4>2
      <3>6. CASE u # t
        BY <1>4, <2>0, <3>1, <3>2, <3>3, <3>6
      <3>7. QED BY <3>5, <3>6
    <2>2. CASE \A u \in MultiShot : x \notin ToSet(Targets[u])
      <3>1. Released(x)' = Released(x)
        BY <1>2, <2>2, TriggersUnmoved
      <3>2. Released(x) \in Nat
        BY DEF Released
      <3>3. e # x
        BY <1>1, <2>2 DEF ToSet
      <3>4. QED BY <2>0, <3>1, <3>2, <3>3
    <2>3. QED BY <2>1, <2>2 DEF ToSet
  <1>6. <<e>> \in Seq(Target)
    BY <1>1
  <1> HIDE DEF e
  <1>7. /\ pending_triggers' \in Seq(Target)
        /\ \A x \in Target : (Occurrences(pending_triggers, x) + ran[x] = Released(x))'
    BY <1>2, <1>5, <1>6, ReleasesAll
  <1>8. QED BY <1>2, <1>4, <1>7 DEF Balance

LEMMA BarrierReleases ==
  ASSUME Balance, NEW t \in Barrier, ActivateBarrier(t)
  PROVE  Balance'
  <1> DEFINE more == IF remaining[t] = 1 THEN Targets[t] ELSE << >>
  <1>1. /\ Targets[t] \in Seq(Target) /\ remaining[t] \in Nat \ {0}
        /\ remaining \in [Barrier -> Nat] /\ pending_triggers \in Seq(Target)
    BY Lists DEF Balance, ActivateBarrier, Trigger
  <1>2. /\ done' = done /\ next' = next /\ ran' = ran
        /\ remaining' = [remaining EXCEPT ![t] = remaining[t] - 1]
    BY DEF ActivateBarrier
  <1>3. /\ remaining' \in [Barrier -> Nat] /\ remaining'[t] = remaining[t] - 1
        /\ \A u \in Barrier : u # t => remaining'[u] = remaining[u]
    BY <1>1, <1>2
  <1>4. more \in Seq(Target) /\ pending_triggers' = pending_triggers \o more
    <2>1. CASE remaining[t] = 1
      BY <1>1, <2>1 DEF ActivateBarrier, BarrierOpens, TriggersArePending
    <2>2. CASE remaining[t] # 1
      <3>1. pending_triggers' = pending_triggers
        BY <2>2 DEF ActivateBarrier, BarrierOpens, evars
      <3>2. pending_triggers \o << >> = pending_triggers
        BY <1>1, ConcatEmptySeq
      <3>3. more = << >> /\ << >> \in Seq(Target)
        BY <2>2
      <3> HIDE DEF more
      <3>4. QED BY <3>1, <3>2, <3>3
    <2>3. QED BY <2>1, <2>2
  <1>5. ASSUME NEW x \in Target
        PROVE  Released(x)' = Released(x) + Occurrences(more, x)
    <2>1. CASE x \in ToSet(Targets[t]) /\ remaining[t] = 1
      <3>1. Occurrences(Targets[t], x) = 1
        BY <1>1, <2>1, Lists, OccursOnce DEF Trigger
      <3>2. Released(x) = IF remaining[t] = 0 THEN 1 ELSE 0
        BY <2>1, OfBarrier
      <3>3. Released(x)' = IF remaining'[t] = 0 THEN 1 ELSE 0
        BY <2>1, OfBarrierNext
      <3>4. QED BY <1>3, <2>1, <3>1, <3>2, <3>3
    <2>2. CASE x \in ToSet(Targets[t]) /\ remaining[t] # 1
      <3>1. Occurrences(more, x) = 0
        BY <2>2, NothingStands
      <3>2. Released(x) = IF remaining[t] = 0 THEN 1 ELSE 0
        BY <2>2, OfBarrier
      <3>3. Released(x)' = IF remaining'[t] = 0 THEN 1 ELSE 0
        BY <2>2, OfBarrierNext
      <3>4. remaining[t] # 0 /\ remaining'[t] # 0
        BY <1>1, <1>3, <2>2
      <3>5. QED BY <3>1, <3>2, <3>3, <3>4
    <2>3. CASE x \notin ToSet(Targets[t])
      <3>1. Occurrences(more, x) = 0
        <4>1. Occurrences(Targets[t], x) = 0
          BY <1>1, <2>3, Lists, OccursOnce DEF Trigger
        <4>2. Occurrences(<< >>, x) = 0
          BY NothingStands
        <4>3. QED BY <4>1, <4>2
      <3>2. Released(x)' = Released(x)
        BY <1>2, <1>3, <2>3 DEF Released
      <3>3. Released(x) \in Nat
        BY DEF Released
      <3>4. QED BY <3>1, <3>2, <3>3
    <2>4. QED BY <2>1, <2>2, <2>3
  <1> HIDE DEF more
  <1>6. /\ pending_triggers' \in Seq(Target)
        /\ \A x \in Target : (Occurrences(pending_triggers, x) + ran[x] = Released(x))'
    BY <1>2, <1>4, <1>5, ReleasesAll
  <1>7. QED BY <1>2, <1>3, <1>6 DEF Balance

\* What runs leaves the stack.
LEMMA RunsOnce ==
  ASSUME Balance, ActivateTarget
  PROVE  Balance'
  <1> DEFINE y == Last(pending_triggers)
  <1>1. /\ pending_triggers \in Seq(Target) /\ pending_triggers # << >>
        /\ pending_triggers' = Front(pending_triggers)
        /\ ran' = [ran EXCEPT ![y] = ran[y] + 1] /\ ran \in [Target -> Nat]
        /\ done' = done /\ next' = next /\ remaining' = remaining
    BY DEF Balance, ActivateTarget, ActivateTrigger
  <1>2. y \in Target /\ pending_triggers' \in Seq(Target)
    BY <1>1, FrontAndLast
  <1>3. ran' \in [Target -> Nat]
    BY <1>1, <1>2
  <1>4. ASSUME NEW x \in Target
        PROVE  (Occurrences(pending_triggers, x) + ran[x] = Released(x))'
    <2>1. Occurrences(pending_triggers, x)' = Occurrences(pending_triggers', x)
      BY DEF Occurrences
    <2>2. Occurrences(pending_triggers, x) =
            Occurrences(pending_triggers', x) + IF y = x THEN 1 ELSE 0
      BY <1>1, OccursInFront
    <2>3. Occurrences(pending_triggers', x) \in Nat
      BY <1>2, StandingIsFinite
    <2>4. ran[x] \in Nat /\ ran'[x] = IF y = x THEN ran[x] + 1 ELSE ran[x]
      <3> HIDE DEF y
      <3>1. QED BY <1>1, <1>2
    <2>5. Released(x)' = Released(x)
      BY <1>1 DEF Released
    <2>6. Occurrences(pending_triggers, x) + ran[x] = Released(x)
      BY DEF Balance
    <2> HIDE DEF y
    <2>7. QED BY <2>1, <2>2, <2>3, <2>4, <2>5, <2>6
  <1>5. QED BY <1>1, <1>2, <1>3, <1>4 DEF Balance

LEMMA NothingReleased ==
  ASSUME pending_triggers = << >>, TriggersInit
  PROVE  Balance
  <1>1. /\ done = [t \in SingleShot |-> FALSE] /\ next = [t \in MultiShot |-> 0]
        /\ remaining = ActivationsNeeded /\ ran = [x \in Target |-> 0]
    BY DEF TriggersInit
  <1>2. /\ done \in [SingleShot -> BOOLEAN] /\ next \in [MultiShot -> Nat]
        /\ remaining \in [Barrier -> Nat] /\ ran \in [Target -> Nat]
    BY <1>1, TriggersAssumption
  <1>3. \A t \in MultiShot : next[t] \in 0 .. Len(Targets[t])
    <2>1. \A t \in MultiShot : Len(Targets[t]) \in Nat
      BY Lists DEF Trigger
    <2>2. QED BY <1>1, <2>1
  <1>4. ASSUME NEW x \in Target
        PROVE  Occurrences(pending_triggers, x) + ran[x] = Released(x)
    <2>1. \A t \in MultiShot : 1 .. next[t] = {}
      BY <1>1
    <2>2. \A t \in Barrier : remaining[t] # 0
      BY <1>1, TriggersAssumption
    <2>3. Released(x) = 0
      BY <1>1, <2>1, <2>2 DEF Released
    <2>4. Occurrences(pending_triggers, x) = 0
      BY NothingStands
    <2>5. ran[x] = 0
      BY <1>1
    <2>6. QED BY <2>3, <2>4, <2>5
  <1>5. pending_triggers \in Seq(Target)
    OBVIOUS
  <1>6. QED BY <1>2, <1>3, <1>4, <1>5 DEF Balance

LEMMA NothingElseReleases ==
  ASSUME Balance, UNCHANGED <<pending_triggers, tvars>>
  PROVE  Balance'
  <1>1. \A x \in Target : (Occurrences(pending_triggers, x) + ran[x] = Released(x))'
    <2>1. ASSUME NEW x \in Target
          PROVE  (Occurrences(pending_triggers, x) + ran[x] = Released(x))'
      <3>1. Occurrences(pending_triggers, x)' = Occurrences(pending_triggers, x)
        BY DEF Occurrences
      <3>2. Released(x)' = Released(x)
        BY DEF Released, tvars
      <3>3. QED BY <3>1, <3>2 DEF Balance, tvars
    <2>2. QED BY <2>1
  <1>2. QED BY <1>1 DEF Balance, tvars

\* A flow that a trigger releases waits or has run, once, and none before, for any
\* triggers of any lists in any order (trigger.py:83-114, 129-155, 179-216).
THEOREM FlowsAreReleasedOnce == TSpec => []ReleasedOnce
  <1>1. TInit => Balance
    BY NothingReleased DEF TInit, Init
  <1>2. ASSUME Balance, [TNext]_vars
        PROVE  Balance'
    <2>1. CASE UNCHANGED vars
      <3>1. UNCHANGED <<pending_triggers, tvars>>
        BY <2>1 DEF vars, evars
      <3>2. QED BY <1>2, <3>1, NothingElseReleases
    <2>2. CASE /\ \/ \E src \in Source, when \in Time : Call(src, when)
                  \/ \E src \in Source : CancelPendingSource(src)
                  \/ \E t \in Time : SetEndtime(t)
                  \/ RunSource
               /\ UNCHANGED tvars
      <3>1. UNCHANGED pending_triggers
        BY <2>2 DEF Call, SourceIsPending, SourceIsPendingGetHandle, CancelPendingSource,
           CancelPendingSourceByTime, CancelPendingSourceByHandle, ReschedulePendingSource,
           SetEndtime, RunSource
      <3>2. QED BY <1>2, <2>2, <3>1, NothingElseReleases
    <2>3. CASE Restart
      <3>1. (pending_triggers = << >> /\ TriggersInit)'
        BY <2>3 DEF Restart, Reset, TriggersInit
      <3>2. (pending_triggers = << >> /\ TriggersInit => Balance)'
        BY NothingReleased, PTL
      <3>3. QED BY <3>1, <3>2
    <2>4. QED BY <1>2, <2>1, <2>2, <2>3, SingleShotReleases, MultiShotReleases,
                 BarrierReleases, RunsOnce DEF TNext
  <1>3. Balance => ReleasedOnce
    BY DEF Balance, ReleasedOnce
  <1>4. QED BY <1>1, <1>2, <1>3, PTL DEF TSpec
==============================================================================
