------------------------------ MODULE TcpProofs -------------------------------
(***************************************************************************)
(* Sources alone and the subflows of a connection, however coupled: their  *)
(* windows, timers and first segments, that what is acknowledged has       *)
(* arrived, of a flow and of a connection, and that no data number goes to *)
(* two segments, for any sizes, windows, receive window and any number of  *)
(* losses and early timeouts.                                              *)
(***************************************************************************)
EXTENDS Tcp, Sums

Source ==
  [highest_sent : Nat, last_acked : Nat, cwnd : Nat, ssthresh : Nat,
   dupacks : Nat, recoverq : Nat, established : BOOLEAN,
   in_fast_recovery : BOOLEAN, armed : BOOLEAN,
   rtx_timeout_pending : BOOLEAN, scheduled : BOOLEAN]
Sendable == [seqno : Nat, size : {1, MSS}, data_seqno : Nat]
Kept == [cumulative_ack : Nat, received : Seq(Nat)]

Joined ==
  [cc_type : S!Coupled \cup {"NONE"}, receive_window : Nat, highest_sent : Nat, last_acked : {0}]

Typed ==
  /\ src \in [Flow -> Source]
  /\ data \in [Flow -> Seq(Sendable)]
  /\ acks \in [Flow -> Seq(Nat)]
  /\ sink \in [Flow -> Kept]
  /\ msink \in Kept
  /\ conn \in Joined

\* What may be under way before the connection stands: the SYN and its ACK.
Greeting(s, d, a, k) ==
  /\ s.last_acked = 0 /\ s.highest_sent \in {0, 1}
  /\ ~s.in_fast_recovery
  /\ d \in Seq({S!Syn})
  /\ a \in Seq({1})
  /\ k.cumulative_ack \in {0, 1} /\ k.received = << >>

\* Nothing of a flow has happened before its start.
Waiting(s, d, a) == s = S!Fresh /\ d = << >> /\ a = << >>

\* How low a threshold may be.
Floor == IF conn.cc_type = "NONE" THEN 2 * MSS ELSE MSS

Guarded(s) ==
  /\ s.cwnd >= MSS /\ s.ssthresh >= Floor
  /\ s.last_acked =< s.highest_sent
  /\ s.last_acked < s.highest_sent => s.armed

FlowInv(s, d, a, k) ==
  /\ Guarded(s)
  /\ ~s.established => Greeting(s, d, a, k)
  /\ s.scheduled /\ ~s.rtx_timeout_pending => Waiting(s, d, a)

\* The inductive invariant.
Inv ==
  /\ Typed
  /\ mishaps \in 0 .. MaxMishaps /\ early \in 0 .. MaxEarly
  /\ \A f \in Flow : FlowInv(src[f], data[f], acks[f], sink[f])
------------------------------------------------------------------------------
\* Of naturals that are bounded, one is the greatest.
LEMMA Greatest ==
  ASSUME NEW n \in Nat, NEW T \in SUBSET (0 .. n), T # {}
  PROVE  \E k \in T : \A j \in T : j =< k
  <1> DEFINE R == {n - k : k \in T}
  <1>1. R \in SUBSET Nat /\ R # {}
    <2>1. R \in SUBSET Nat
      OBVIOUS
    <2>2. PICK t \in T : TRUE
      OBVIOUS
    <2>3. n - t \in R
      BY <2>2
    <2>4. QED BY <2>1, <2>3
  <1>2. PICK x \in R : \A y \in R : ~ (<<y, x>> \in OpToRel(<, Nat))
    BY <1>1, NatLessThanWellFounded, WFMin
  <1>3. PICK k \in T : x = n - k
    OBVIOUS
  <1>4. ASSUME NEW j \in T
        PROVE  j =< k
    <2>1. n - j \in R /\ n - j \in Nat /\ x \in Nat
      OBVIOUS
    <2>2. ~ (n - j < x)
      BY <1>2, <2>1 DEF OpToRel
    <2>3. QED BY <2>2, <1>3
  <1>5. QED BY <1>4

\* Of naturals, one is the least.
LEMMA Least ==
  ASSUME NEW T \in SUBSET Nat, T # {}
  PROVE  \E k \in T : \A j \in T : k =< j
  <1>1. PICK x \in T : \A y \in T : ~ (<<y, x>> \in OpToRel(<, Nat))
    BY NatLessThanWellFounded, WFMin
  <1>2. ASSUME NEW y \in T
        PROVE  x =< y
    <2>1. x \in Nat /\ y \in Nat
      OBVIOUS
    <2>2. ~ (y < x)
      BY <1>1, <2>1 DEF OpToRel
    <2>3. QED BY <2>1, <2>2
  <1>3. QED BY <1>2

\* A packet lost, or let through first, leaves a sequence of packets.
LEMMA Lost ==
  ASSUME NEW X, NEW s \in Seq(X), NEW i \in DOMAIN s
  PROVE  RemoveAt(s, i) \in Seq(X)
  BY DEF RemoveAt

LEMMA Overtaken ==
  ASSUME NEW X, NEW s \in Seq(X), NEW i \in DOMAIN s
  PROVE  <<s[i]>> \o RemoveAt(s, i) \in Seq(X)
  <1>1. RemoveAt(s, i) \in Seq(X)
    BY Lost
  <1>2. s[i] \in X
    OBVIOUS
  <1>3. QED BY <1>1, <1>2
------------------------------------------------------------------------------
\* The sinks keep numbers.

\* The numbers of kept segments that follow on without a gap.
Run(s, end, size) ==
  {k \in 0 .. Len(s.received) : \A i \in 1 .. k : s.received[i] = end + (i - 1) * size + 1}

LEMMA FollowIsRun ==
  ASSUME NEW s \in Kept, NEW end \in Nat, NEW size \in Nat
  PROVE  /\ K!Follow(s, end, size) \in Run(s, end, size)
         /\ \A j \in Run(s, end, size) : j =< K!Follow(s, end, size)
  <1> DEFINE run == Run(s, end, size)
  <1>1. Len(s.received) \in Nat
    BY DEF Kept
  <1>2. 0 \in run
    BY <1>1 DEF Run
  <1>3. \E k \in run : \A j \in run : j =< k
    <2> HIDE DEF run
    <2>1. run \in SUBSET (0 .. Len(s.received))
      BY DEF run, Run
    <2>2. QED BY <1>1, <1>2, <2>1, Greatest
  <1>4. K!Follow(s, end, size) = CHOOSE k \in run : \A j \in run : j =< k
    BY DEF K!Follow, Run
  <1>5. K!Follow(s, end, size) \in run /\ \A j \in run : j =< K!Follow(s, end, size)
    <2> HIDE DEF run
    <2>1. QED BY <1>3, <1>4
  <1>6. QED BY <1>5

LEMMA FollowInRange ==
  ASSUME NEW s \in Kept, NEW end \in Nat, NEW size \in Nat
  PROVE  K!Follow(s, end, size) \in 0 .. Len(s.received)
  BY FollowIsRun DEF Run

LEMMA PlaceSplits ==
  ASSUME NEW N, N = Nat, NEW list \in Seq(N), NEW seqno \in Nat,
         list # << >>, ~ (seqno > K!Last(list))
  PROVE  /\ K!Place(list, seqno) \in DOMAIN list
         /\ seqno =< list[K!Place(list, seqno)]
         /\ \A j \in 1 .. K!Place(list, seqno) - 1 : seqno > list[j]
  <1> DEFINE T == {i \in DOMAIN list : seqno =< list[i]}
  <1>1. Len(list) \in DOMAIN list /\ Len(list) \in Nat
    OBVIOUS
  <1>2. Len(list) \in T
    BY <1>1 DEF K!Last
  <1>3. T \in SUBSET Nat /\ T # {}
    BY <1>2
  <1>4. PICK i \in T : \A j \in T : i =< j
    <2> HIDE DEF T
    <2>1. QED BY <1>3, Least
  <1>5. \A j \in 1 .. i - 1 : seqno > list[j]
    <2> SUFFICES ASSUME NEW j \in 1 .. i - 1
                 PROVE  seqno > list[j]
      OBVIOUS
    <2>1. i \in DOMAIN list /\ j \in DOMAIN list /\ j < i
      OBVIOUS
    <2>2. j \notin T
      BY <1>4, <2>1
    <2>3. list[j] \in Nat
      BY <2>1
    <2>4. QED BY <2>1, <2>2, <2>3
  <1>6. i \in DOMAIN list /\ seqno =< list[i]
    OBVIOUS
  <1>7. QED BY <1>5, <1>6 DEF K!Place

LEMMA NotedKeepsNumbers ==
  ASSUME NEW N, N = Nat, NEW list \in Seq(N), NEW seqno \in Nat
  PROVE  /\ K!Noted(list, seqno) \in Seq(N)
         /\ K!NotedOnce(list, seqno) \in Seq(N)
  <1>1. Append(list, seqno) \in Seq(N)
    OBVIOUS
  <1>2. ASSUME list # << >>, ~ (seqno > K!Last(list))
        PROVE  K!InsertAt(list, K!Place(list, seqno), seqno) \in Seq(N)
    <2>1. K!Place(list, seqno) \in DOMAIN list
      BY <1>2, PlaceSplits
    <2>2. QED BY <2>1 DEF K!InsertAt
  <1>3. QED BY <1>1, <1>2 DEF K!Noted, K!NotedOnce

LEMMA TakenIsKept ==
  ASSUME NEW s \in Kept, NEW seqno \in Nat, NEW size \in {1, MSS}, NEW noted \in Seq(Nat)
  PROVE  K!Taken(s, seqno, size, noted) \in Kept
  <1> PICK N : N = Nat
    OBVIOUS
  <1>1. s.received \in Seq(N) /\ s.cumulative_ack \in Nat /\ noted \in Seq(N)
    BY DEF Kept
  <1>2. size \in Nat /\ size > 0
    BY TcpSrcAssumption
  <1> DEFINE end == seqno + size - 1
             k == K!Follow(s, end, size)
  <1>3. end \in Nat
    BY <1>2
  <1>4. k \in 0 .. Len(s.received)
    BY <1>2, <1>3, FollowInRange
  <1>5. end + k * size \in Nat
    <2> HIDE DEF end, k
    <2>1. k \in Nat
      BY <1>1, <1>4
    <2>2. QED BY <2>1, <1>2, <1>3
  <1>6. SubSeq(s.received, k + 1, Len(s.received)) \in Seq(N)
    BY <1>1, <1>4
  <1>7. [s EXCEPT !.received = noted] \in Kept
    BY DEF Kept
  <1>8. [cumulative_ack |-> end + k * size,
         received |-> SubSeq(s.received, k + 1, Len(s.received))] \in Kept
    <2> HIDE DEF end, k
    <2>1. QED BY <1>5, <1>6 DEF Kept
  <1>9. QED BY <1>7, <1>8 DEF K!Taken
\* A SYN is acknowledged, whether or not it is the first.
LEMMA SynIsTaken ==
  ASSUME NEW s \in Kept, NEW noted, s.received = << >>, s.cumulative_ack \in {0, 1}
  PROVE  /\ K!Taken(s, 1, 1, noted).cumulative_ack = 1
         /\ K!Taken(s, 1, 1, noted).received = << >>
  <1> DEFINE end == 1 + 1 - 1
             k == K!Follow(s, end, 1)
  <1>1. end = 1
    OBVIOUS
  <1>2. k = 0
    <2>1. end \in Nat
      BY <1>1
    <2> HIDE DEF end
    <2>2. k \in 0 .. Len(s.received)
      BY <2>1, FollowInRange
    <2>3. QED BY <2>2
  <1>3. CASE s.cumulative_ack = 0
    <2>1. K!Taken(s, 1, 1, noted) =
            [cumulative_ack |-> end + k * 1,
             received |-> SubSeq(s.received, k + 1, Len(s.received))]
      BY <1>3 DEF K!Taken, K!InOrder
    <2>2. SubSeq(s.received, 0 + 1, Len(s.received)) = << >>
      OBVIOUS
    <2> HIDE DEF end, k
    <2>3. QED BY <1>1, <1>2, <2>1, <2>2
  <1>4. CASE s.cumulative_ack = 1
    BY <1>4 DEF K!Taken, K!InOrder
  <1>5. QED BY <1>3, <1>4
------------------------------------------------------------------------------
\* What a source sends.

\* The windows a source halves are kept open.
LEMMA HalvedIsOpen ==
  ASSUME NEW w \in Nat
  PROVE  S!Halved(w) \in Nat /\ S!Halved(w) >= 2 * MSS
  BY TcpSrcAssumption DEF S!Halved, S!Greater

LEMMA BurstIsNat ==
  ASSUME NEW s \in Source
  PROVE  S!Burst(s) \in Nat
  <1>1. MSS \in Nat /\ MSS > 0 /\ S!FlowSize \in Nat
    BY TcpSrcAssumption DEF S!FlowSize
  <1>2. s.highest_sent \in Nat /\ s.last_acked \in Nat /\ s.cwnd \in Nat
    BY DEF Source
  <1>3. ASSUME NEW x \in Nat
        PROVE  x \div MSS \in Nat
    BY <1>1
  <1> DEFINE end == s.last_acked + s.cwnd
             room == IF end < s.highest_sent + MSS THEN 0 ELSE (end - s.highest_sent) \div MSS
             left == IF s.highest_sent > S!FlowSize + 1 THEN 0
                     ELSE (S!FlowSize + 1 - s.highest_sent) \div MSS + 1
  <1>4. room \in Nat
    <2>1. CASE end < s.highest_sent + MSS
      BY <2>1
    <2>2. CASE ~ (end < s.highest_sent + MSS)
      <3>1. end - s.highest_sent \in Nat
        BY <1>1, <1>2, <2>2
      <3>2. QED BY <2>2, <3>1, <1>3
    <2>3. QED BY <2>1, <2>2
  <1>5. left \in Nat
    <2>1. CASE s.highest_sent > S!FlowSize + 1
      BY <2>1
    <2>2. CASE ~ (s.highest_sent > S!FlowSize + 1)
      <3>1. S!FlowSize + 1 - s.highest_sent \in Nat
        BY <1>1, <1>2, <2>2
      <3>2. QED BY <2>2, <3>1, <1>3
    <2>3. QED BY <2>1, <2>2
  <1>6. S!Burst(s) = S!Lesser(room, left)
    BY DEF S!Burst
  <1>7. QED BY <1>4, <1>5, <1>6 DEF S!Lesser

LEMMA Floors == Floor \in Nat /\ Floor >= MSS /\ Floor =< 2 * MSS /\ MSS \in Nat /\ MSS > 0
  BY TcpSrcAssumption DEF Floor

\* A counter that advances, of the same connection.
Advances ==
  /\ conn' \in Joined /\ conn'.cc_type = conn.cc_type
  /\ conn'.highest_sent >= conn.highest_sent

LEMMA CounterIsNat ==
  ASSUME Typed
  PROVE  /\ S!Granted(conn) \in Nat
         /\ \A n \in Nat : S!Allowed(n) \in Nat
         /\ \A n \in Nat : /\ S!Given(conn, n) \in Joined
                           /\ S!Given(conn, n).cc_type = conn.cc_type
                           /\ S!Given(conn, n).highest_sent >= conn.highest_sent
         /\ \A k \in Nat : S!DataSeq(conn, k + 1) \in Nat
  <1>1. DataUnit \in Nat /\ DataUnit > 0
    BY TcpSrcAssumption
  <1>2. /\ conn \in Joined /\ conn.receive_window \in Nat
        /\ conn.highest_sent \in Nat /\ conn.last_acked = 0
    BY DEF Typed, Joined
  <1>3. S!Granted(conn) \in Nat
    <2> DEFINE room == conn.receive_window - conn.highest_sent - 1
    <2>1. CASE conn.last_acked + conn.receive_window <= conn.highest_sent
      BY <2>1 DEF S!Granted
    <2>2. CASE ~ (conn.last_acked + conn.receive_window <= conn.highest_sent)
      <3>1. room \in Nat
        BY <1>2, <2>2
      <3>2. S!Granted(conn) = (room \div DataUnit) + 1
        BY <1>2, <2>2 DEF S!Granted
      <3> HIDE DEF room
      <3>3. room \div DataUnit \in Nat
        BY <1>1, <3>1
      <3>4. QED BY <3>2, <3>3
    <2>3. QED BY <2>1, <2>2
  <1>4. ASSUME NEW n \in Nat
        PROVE  S!Allowed(n) \in Nat
    BY <1>3 DEF S!Allowed, S!Lesser
  <1>5. ASSUME NEW n \in Nat
        PROVE  n * DataUnit \in Nat
    BY <1>1
  <1>6. ASSUME NEW n \in Nat
        PROVE  /\ S!Given(conn, n) \in Joined
               /\ S!Given(conn, n).cc_type = conn.cc_type
               /\ S!Given(conn, n).highest_sent >= conn.highest_sent
    <2>1. CASE conn.cc_type = "NONE"
      BY <1>2, <2>1 DEF S!Given
    <2>2. CASE conn.cc_type # "NONE"
      <3> DEFINE m == n * DataUnit
      <3>1. S!Given(conn, n) = [conn EXCEPT !.highest_sent = conn.highest_sent + m]
        BY <2>2 DEF S!Given
      <3>2. m \in Nat
        BY <1>5
      <3> HIDE DEF m
      <3>3. QED BY <1>2, <3>1, <3>2 DEF Joined
    <2>3. QED BY <2>1, <2>2
  <1>7. ASSUME NEW k \in Nat
        PROVE  S!DataSeq(conn, k + 1) \in Nat
    <2>1. k * DataUnit \in Nat /\ (k + 1) - 1 = k
      BY <1>5
    <2>2. QED BY <1>2, <2>1 DEF S!DataSeq
  <1>8. QED BY <1>3, <1>4, <1>6, <1>7

\* What sending makes of a source: highest_sent after it and whether the timer is set.
Becomes(s, h, t, u) ==
  /\ u = [s EXCEPT !.highest_sent = h, !.armed = t]
  /\ s.established => h >= s.highest_sent /\ (h > s.highest_sent => t)
  /\ ~s.established => h = 1 /\ t = TRUE
  /\ s.armed => t

\* New segments move highest_sent on and set the timer.
LEMMA NewSegments ==
  ASSUME Typed, NEW s \in Source, s.established, NEW n \in Nat, NEW k \in Nat
  PROVE  /\ S!NextSegments(s, n, k) \in Seq(Sendable) /\ Len(S!NextSegments(s, n, k)) = n
         /\ \E h \in Nat, t \in BOOLEAN : Becomes(s, h, t, S!Sent(s, S!NextSegments(s, n, k)))
  <1> DEFINE segments == S!NextSegments(s, n, k)
  <1>1. MSS \in Nat /\ MSS > 0
    BY TcpSrcAssumption
  <1>2. segments \in Seq(Sendable) /\ Len(segments) = n
    <2>1. ASSUME NEW i \in 1 .. n
          PROVE  S!Segment(s.highest_sent + 1 + (i - 1) * MSS, S!DataSeq(conn, k + i)) \in Sendable
      <3>1. S!DataSeq(conn, k + i) \in Nat
        <4>1. k + (i - 1) \in Nat /\ (k + (i - 1)) + 1 = k + i
          OBVIOUS
        <4>2. S!DataSeq(conn, (k + (i - 1)) + 1) \in Nat
          BY <4>1, CounterIsNat
        <4>3. QED BY <4>1, <4>2
      <3>2. s.highest_sent + 1 + (i - 1) * MSS \in Nat
        <4>1. (i - 1) \in Nat
          OBVIOUS
        <4>2. (i - 1) * MSS \in Nat
          BY <4>1, <1>1
        <4>3. QED BY <4>2 DEF Source
      <3>3. QED BY <3>1, <3>2 DEF S!Segment, Sendable
    <2>2. segments \in [1 .. n -> Sendable]
      BY <2>1 DEF S!NextSegments
    <2>3. QED BY <2>2
  <1> HIDE DEF segments
  <1> DEFINE h == s.highest_sent + n * MSS
             t == S!Timed(s, segments)
  <1>3. S!Sent(s, segments) = [s EXCEPT !.highest_sent = h, !.armed = t]
    BY <1>2 DEF S!Sent, Source
  <1>4. h \in Nat /\ h >= s.highest_sent /\ (h > s.highest_sent => n > 0)
    <2>1. n * MSS \in Nat /\ (n = 0 => n * MSS = 0)
      BY <1>1
    <2>2. s.highest_sent \in Nat
      BY DEF Source
    <2>3. QED BY <2>1, <2>2
  <1>5. t \in BOOLEAN /\ (s.armed => t) /\ (n > 0 => t)
    <2>1. n > 0 => segments # << >>
      BY <1>2
    <2>2. s.armed \in BOOLEAN
      BY DEF Source
    <2>3. QED BY <2>1, <2>2 DEF S!Timed
  <1> HIDE DEF h, t
  <1>6. Becomes(s, h, t, S!Sent(s, segments))
    BY <1>3, <1>4, <1>5 DEF Becomes
  <1>7. QED BY <1>2, <1>4, <1>5, <1>6 DEF segments

\* A source that does not stand yet sends the SYN.
LEMMA SynIsSent ==
  ASSUME NEW s \in Source, ~s.established
  PROVE  <<S!Syn>> \in Seq(Sendable) /\ Becomes(s, 1, TRUE, S!Sent(s, <<S!Syn>>))
  <1>1. <<S!Syn>> \in Seq(Sendable)
    BY DEF S!Syn, Sendable
  <1>2. S!Sent(s, <<S!Syn>>) = [s EXCEPT !.highest_sent = 1, !.armed = TRUE]
    BY DEF S!Sent, S!Timed, Source
  <1>3. QED BY <1>1, <1>2 DEF Becomes

\* What has been sent, and by a source that does not stand yet.
Sends(f, s, first, h, t, segments) ==
  /\ \E u : Becomes(s, h, t, u) /\ src' = [src EXCEPT ![f] = u]
  /\ data' = [data EXCEPT ![f] = data[f] \o first \o segments]
  /\ Advances
  /\ ~s.established => segments = <<S!Syn>>

\* Sending moves highest_sent and the counter on, sets the timer when it sends, and
\* before the connection stands sends the SYN.
LEMMA SendPacketsSends ==
  ASSUME Typed, NEW f \in Flow, NEW s \in Source, NEW first \in Seq(Sendable),
         S!SendPackets(f, s, first)
  PROVE  \E h \in Nat, t \in BOOLEAN, segments \in Seq(Sendable) :
           Sends(f, s, first, h, t, segments)
  <1>1. CASE s.established
    <2> DEFINE n == S!Allowed(S!Burst(s))
               segments == S!NextSegments(s, n, 0)
    <2>1. n \in Nat
      BY BurstIsNat, CounterIsNat
    <2>2. /\ src' = [src EXCEPT ![f] = S!Sent(s, segments)]
          /\ data' = [data EXCEPT ![f] = data[f] \o first \o segments]
          /\ conn' = S!Given(conn, n)
      BY <1>1 DEF S!SendPackets
    <2> HIDE DEF n
    <2>3. Advances
      BY <2>1, <2>2, CounterIsNat DEF Advances
    <2>4. /\ segments \in Seq(Sendable)
          /\ \E h \in Nat, t \in BOOLEAN : Becomes(s, h, t, S!Sent(s, segments))
      BY <1>1, <2>1, NewSegments
    <2> HIDE DEF segments
    <2>5. QED BY <1>1, <2>2, <2>3, <2>4 DEF Sends
  <1>2. CASE ~ s.established
    <2>1. /\ src' = [src EXCEPT ![f] = S!Sent(s, <<S!Syn>>)]
          /\ data' = [data EXCEPT ![f] = data[f] \o first \o <<S!Syn>>]
          /\ conn' = S!Given(conn, 0)
      BY <1>2 DEF S!SendPackets
    <2>2. Advances
      BY <2>1, CounterIsNat DEF Advances
    <2>3. QED BY <1>2, <2>1, <2>2, SynIsSent DEF Sends
  <1>3. QED BY <1>1, <1>2

\* What is sent without a data number.
Unnumbered == {x \in Sendable : x.data_seqno = 0}

\* The segments of a flow under way: those of before, some without a data number,
\* and those after the byte h that carry the numbers from k + 1 to k + n.
Carries(f, h, k, n) ==
  \A x \in ToSet(data'[f]) :
    \/ x \in ToSet(data[f]) \/ x.data_seqno = 0
    \/ \E i \in 1 .. n : x = S!Segment(h + 1 + (i - 1) * MSS, S!DataSeq(conn, k + i))

\* What was under way still is, and those segments are.
Puts(f, h, k, n) ==
  /\ ToSet(data[f]) \subseteq ToSet(data'[f])
  /\ \A i \in 1 .. n :
       S!Segment(h + 1 + (i - 1) * MSS, S!DataSeq(conn, k + i)) \in ToSet(data'[f])

TakesNumbers(f) ==
  \E h \in Nat, n \in Nat :
    Carries(f, h, 0, n) /\ Puts(f, h, 0, n) /\ conn' = S!Given(conn, n)

LEMMA Joining ==
  ASSUME NEW X, NEW a \in Seq(X), NEW b \in Seq(X), NEW x \in ToSet(a \o b)
  PROVE  x \in ToSet(a) \/ x \in ToSet(b)
  <1>1. PICK i \in 1 .. Len(a) + Len(b) : x = (a \o b)[i]
    BY DEF ToSet
  <1>2. CASE i \in 1 .. Len(a)
    <2>1. x = a[i]
      BY <1>1, <1>2
    <2>2. QED BY <1>2, <2>1 DEF ToSet
  <1>3. CASE i \notin 1 .. Len(a)
    <2> DEFINE j == i - Len(a)
    <2>1. j \in 1 .. Len(b) /\ x = b[j]
      BY <1>1, <1>3
    <2>2. QED BY <2>1 DEF ToSet
  <1>4. QED BY <1>2, <1>3

LEMMA Members ==
  ASSUME NEW X, NEW a \in Seq(X), NEW x \in ToSet(a)
  PROVE  x \in X /\ \E i \in 1 .. Len(a) : x = a[i]
  BY DEF ToSet

LEMMA JoinedHasBoth ==
  ASSUME NEW X, NEW a \in Seq(X), NEW b \in Seq(X)
  PROVE  ToSet(a) \subseteq ToSet(a \o b) /\ ToSet(b) \subseteq ToSet(a \o b)
  <1>1. ASSUME NEW i \in 1 .. Len(a)
        PROVE  a[i] \in ToSet(a \o b)
    <2>1. i \in 1 .. Len(a \o b) /\ (a \o b)[i] = a[i]
      OBVIOUS
    <2>2. QED BY <2>1 DEF ToSet
  <1>2. ASSUME NEW i \in 1 .. Len(b)
        PROVE  b[i] \in ToSet(a \o b)
    <2>1. i + Len(a) \in 1 .. Len(a \o b) /\ (a \o b)[i + Len(a)] = b[i]
      OBVIOUS
    <2>2. QED BY <2>1 DEF ToSet
  <1>3. ASSUME NEW x \in ToSet(a)
        PROVE  x \in ToSet(a \o b)
    BY <1>1, <1>3, Members
  <1>4. ASSUME NEW x \in ToSet(b)
        PROVE  x \in ToSet(a \o b)
    BY <1>2, <1>4, Members
  <1>5. QED BY <1>3, <1>4

LEMMA NoneGiven ==
  ASSUME Typed
  PROVE  S!Given(conn, 0) = conn
  <1>1. conn.highest_sent + 0 * DataUnit = conn.highest_sent
    BY TcpSrcAssumption DEF Typed, Joined
  <1>2. QED BY <1>1 DEF Typed, Joined, S!Given

LEMMA SendPacketsNumbers ==
  ASSUME Typed, NEW f \in Flow, NEW s \in Source, NEW first \in Seq(Unnumbered),
         S!SendPackets(f, s, first)
  PROVE  TakesNumbers(f)
  <1>1. data[f] \in Seq(Sendable) /\ first \in Seq(Sendable)
    <2>1. Unnumbered \subseteq Sendable
      BY DEF Unnumbered
    <2>2. QED BY <2>1, SeqMonotonic DEF Typed
  <1>2. CASE s.established
    <2> DEFINE n == S!Allowed(S!Burst(s))
               segments == S!NextSegments(s, n, 0)
    <2>1. n \in Nat /\ s.highest_sent \in Nat
      BY BurstIsNat, CounterIsNat DEF Source
    <2>2. data' = [data EXCEPT ![f] = data[f] \o first \o segments]
          /\ conn' = S!Given(conn, n)
      BY <1>2 DEF S!SendPackets
    <2> HIDE DEF n
    <2>3. segments \in Seq(Sendable) /\ Len(segments) = n
      BY <1>2, <2>1, NewSegments
    <2>4. data'[f] = (data[f] \o first) \o segments
      BY <2>2 DEF Typed
    <2>5. ASSUME NEW x \in ToSet(data'[f])
          PROVE  \/ x \in ToSet(data[f]) \/ x.data_seqno = 0
                 \/ \E i \in 1 .. n :
                      x = S!Segment(s.highest_sent + 1 + (i - 1) * MSS, S!DataSeq(conn, 0 + i))
      <3> HIDE DEF segments
      <3>1. data[f] \o first \in Seq(Sendable)
        BY <1>1
      <3>2. x \in ToSet(data[f] \o first) \/ x \in ToSet(segments)
        BY <2>3, <2>4, <3>1, Joining
      <3>3. CASE x \in ToSet(segments)
        <4>1. PICK i \in 1 .. n : x = segments[i]
          BY <2>3, <3>3, Members
        <4>2. x = S!Segment(s.highest_sent + 1 + (i - 1) * MSS, S!DataSeq(conn, 0 + i))
          BY <4>1 DEF segments, S!NextSegments
        <4>3. QED BY <4>2
      <3>4. CASE x \in ToSet(data[f] \o first)
        <4>1. x \in ToSet(data[f]) \/ x \in ToSet(first)
          BY <1>1, <3>4, Joining
        <4>2. x \in ToSet(first) => x \in Unnumbered
          BY Members
        <4>3. QED BY <4>1, <4>2 DEF Unnumbered
      <3>5. QED BY <3>2, <3>3, <3>4
    <2>6. Carries(f, s.highest_sent, 0, n)
      BY <2>5 DEF Carries
    <2>7. Puts(f, s.highest_sent, 0, n)
      <3>1. /\ ToSet(data[f]) \subseteq ToSet(data'[f])
            /\ ToSet(segments) \subseteq ToSet(data'[f])
        <4> HIDE DEF segments
        <4>1. data[f] \o first \in Seq(Sendable)
          BY <1>1
        <4>2. QED BY <1>1, <2>3, <2>4, <4>1, JoinedHasBoth
      <3>2. ASSUME NEW i \in 1 .. n
            PROVE  S!Segment(s.highest_sent + 1 + (i - 1) * MSS, S!DataSeq(conn, 0 + i))
                     \in ToSet(data'[f])
        <4>1. segments[i] = S!Segment(s.highest_sent + 1 + (i - 1) * MSS, S!DataSeq(conn, 0 + i))
          BY DEF S!NextSegments
        <4> HIDE DEF segments
        <4>2. segments[i] \in ToSet(segments)
          BY <2>3 DEF ToSet
        <4>3. QED BY <3>1, <4>1, <4>2
      <3>3. QED BY <3>1, <3>2 DEF Puts
    <2>8. QED BY <2>1, <2>2, <2>6, <2>7 DEF TakesNumbers
  <1>3. CASE ~s.established
    <2>1. data' = [data EXCEPT ![f] = data[f] \o first \o <<S!Syn>>]
          /\ conn' = S!Given(conn, 0)
      BY <1>3 DEF S!SendPackets
    <2>2. data'[f] = (data[f] \o first) \o <<S!Syn>>
      BY <2>1 DEF Typed
    <2>3. ASSUME NEW x \in ToSet(data'[f])
          PROVE  x \in ToSet(data[f]) \/ x.data_seqno = 0
      <3>1. data[f] \o first \in Seq(Sendable)
        BY <1>1
      <3>2. <<S!Syn>> \in Seq(Sendable)
        BY DEF S!Syn, Sendable
      <3>3. x \in ToSet(data[f] \o first) \/ x \in ToSet(<<S!Syn>>)
        BY <2>2, <3>1, <3>2, Joining
      <3>4. CASE x \in ToSet(<<S!Syn>>)
        <4>1. x = S!Syn
          BY <3>4 DEF ToSet
        <4>2. QED BY <4>1 DEF S!Syn
      <3>5. CASE x \in ToSet(data[f] \o first)
        <4>1. x \in ToSet(data[f]) \/ x \in ToSet(first)
          BY <1>1, <3>5, Joining
        <4>2. x \in ToSet(first) => x \in Unnumbered
          BY Members
        <4>3. QED BY <4>1, <4>2 DEF Unnumbered
      <3>6. QED BY <3>3, <3>4, <3>5
    <2>4. Carries(f, 0, 0, 0)
      BY <2>3 DEF Carries
    <2>5. Puts(f, 0, 0, 0)
      <3>1. <<S!Syn>> \in Seq(Sendable) /\ data[f] \o first \in Seq(Sendable)
        BY <1>1 DEF S!Syn, Sendable
      <3>2. ToSet(data[f]) \subseteq ToSet(data'[f])
        BY <1>1, <2>2, <3>1, JoinedHasBoth
      <3>3. QED BY <3>2 DEF Puts
    <2>6. QED BY <2>1, <2>4, <2>5 DEF TakesNumbers
  <1>4. QED BY <1>2, <1>3

\* A segment sent again, by itself or not at all, takes no number.
LEMMA AgainNumbers ==
  ASSUME Typed, NEW f \in Flow, NEW y \in Unnumbered, conn' = conn,
         data'[f] = data[f] \/ data'[f] = Append(data[f], y)
  PROVE  TakesNumbers(f)
  <1>1. data[f] \in Seq(Sendable) /\ y \in Sendable /\ y.data_seqno = 0
    BY DEF Typed, Unnumbered
  <1>2. ASSUME NEW x \in ToSet(data'[f])
        PROVE  x \in ToSet(data[f]) \/ x.data_seqno = 0
    <2>1. CASE data'[f] = data[f]
      BY <1>2, <2>1
    <2>2. CASE data'[f] = Append(data[f], y)
      <3>1. <<y>> \in Seq(Sendable) /\ data'[f] = data[f] \o <<y>>
        BY <1>1, <2>2
      <3>2. x \in ToSet(data[f]) \/ x \in ToSet(<<y>>)
        BY <1>1, <1>2, <3>1, Joining
      <3>3. x \in ToSet(<<y>>) => x = y
        BY DEF ToSet
      <3>4. QED BY <1>1, <3>2, <3>3
    <2>3. QED BY <2>1, <2>2
  <1>3. Carries(f, 0, 0, 0)
    BY <1>2 DEF Carries
  <1>4. Puts(f, 0, 0, 0)
    <2>1. CASE data'[f] = data[f]
      <3>1. ToSet(data[f]) \subseteq ToSet(data'[f])
        BY <2>1
      <3>2. QED BY ONLY <3>1 DEF Puts
    <2>2. CASE data'[f] = Append(data[f], y)
      <3>1. <<y>> \in Seq(Sendable) /\ data'[f] = data[f] \o <<y>>
        BY <1>1, <2>2
      <3>2. ToSet(data[f]) \subseteq ToSet(data'[f])
        BY <1>1, <3>1, JoinedHasBoth
      <3>3. QED BY ONLY <3>2 DEF Puts
    <2>3. QED BY <2>1, <2>2
  <1>5. QED BY <1>3, <1>4, NoneGiven DEF TakesNumbers

\* A source that is in order and established is so after it has sent.
LEMMA BecomesGuarded ==
  ASSUME NEW s \in Source, NEW h \in Nat, NEW t \in BOOLEAN, NEW u, Becomes(s, h, t, u)
  PROVE  /\ u \in Source /\ u.highest_sent = h
         /\ u.last_acked = s.last_acked /\ u.established = s.established
         /\ u.scheduled = s.scheduled /\ u.rtx_timeout_pending = s.rtx_timeout_pending
         /\ u.in_fast_recovery = s.in_fast_recovery
         /\ Guarded(s) /\ s.established => Guarded(u)
         /\ Guarded(s) /\ ~s.established /\ s.last_acked = 0 => Guarded(u)
  <1>1. u = [s EXCEPT !.highest_sent = h, !.armed = t]
    BY DEF Becomes
  <1>2. /\ u \in Source /\ u.highest_sent = h /\ u.armed = t
        /\ u.last_acked = s.last_acked /\ u.established = s.established
        /\ u.scheduled = s.scheduled /\ u.rtx_timeout_pending = s.rtx_timeout_pending
        /\ u.cwnd = s.cwnd /\ u.ssthresh = s.ssthresh
        /\ u.in_fast_recovery = s.in_fast_recovery
    BY <1>1 DEF Source
  <1>3. s.highest_sent \in Nat /\ s.last_acked \in Nat
    BY DEF Source
  <1>4. Guarded(s) /\ s.established => Guarded(u)
    BY <1>2, <1>3 DEF Guarded, Becomes
  <1>5. Guarded(s) /\ ~s.established /\ s.last_acked = 0 => Guarded(u)
    BY <1>2, <1>3 DEF Guarded, Becomes
  <1>6. QED BY <1>2, <1>4, <1>5

LEMMA SendingKeepsGuarded ==
  ASSUME Typed, NEW f \in Flow, NEW s \in Source, NEW first \in Seq(Sendable),
         Guarded(s), s.established, S!SendPackets(f, s, first)
  PROVE  /\ src' \in [Flow -> Source] /\ data' \in [Flow -> Seq(Sendable)] /\ Advances
         /\ \A g \in Flow \ {f} : src'[g] = src[g] /\ data'[g] = data[g]
         /\ Guarded(src'[f]) /\ src'[f].established
         /\ src'[f].last_acked = s.last_acked
         /\ src'[f].scheduled = s.scheduled
         /\ src'[f].rtx_timeout_pending = s.rtx_timeout_pending
  <1>1. PICK h \in Nat, t \in BOOLEAN, segments \in Seq(Sendable) :
           Sends(f, s, first, h, t, segments)
    BY SendPacketsSends
  <1>2. PICK u : Becomes(s, h, t, u) /\ src' = [src EXCEPT ![f] = u]
    BY <1>1 DEF Sends
  <1>3. /\ u \in Source /\ Guarded(u) /\ u.established
        /\ u.last_acked = s.last_acked /\ u.scheduled = s.scheduled
        /\ u.rtx_timeout_pending = s.rtx_timeout_pending
    BY <1>2, BecomesGuarded
  <1>4. data[f] \o first \o segments \in Seq(Sendable)
    BY DEF Typed
  <1>5. data' = [data EXCEPT ![f] = data[f] \o first \o segments] /\ Advances
    BY <1>1 DEF Sends
  <1>6. src'[f] = u /\ src' \in [Flow -> Source]
        /\ \A g \in Flow \ {f} : src'[g] = src[g]
    BY <1>2, <1>3 DEF Typed
  <1>7. data' \in [Flow -> Seq(Sendable)]
        /\ \A g \in Flow \ {f} : data'[g] = data[g]
    BY <1>4, <1>5 DEF Typed
  <1>8. QED BY <1>3, <1>5, <1>6, <1>7
------------------------------------------------------------------------------
\* The windows of all subflows, which the coupled ones look at.

LEMMA TotalOfWindows ==
  ASSUME Typed, \A f \in Flow : Guarded(src[f]), Flow # {}
  PROVE  S!TotalWindow(src) \in Nat /\ S!TotalWindow(src) > 0
  <1> DEFINE w == [f \in DOMAIN src |->
                     IF src[f].in_fast_recovery THEN src[f].ssthresh ELSE src[f].cwnd]
  <1>1. DOMAIN src = Flow /\ DOMAIN w = Flow /\ IsFiniteSet(Flow)
    BY TcpSrcAssumption DEF Typed
  <1>2. S!TotalWindow(src) = Total(w, DOMAIN w)
    BY DEF S!TotalWindow, S!FoldFunction, S!FoldFunctionOnSet, S!MapThenFoldSet,
           Total, FoldFunctionOnSet, MapThenFoldSet
  <1>3. ASSUME NEW f \in Flow
        PROVE  w[f] \in Nat /\ w[f] > 0
    <2>1. src[f] \in Source /\ Guarded(src[f])
      BY DEF Typed
    <2>2. src[f].ssthresh \in Nat /\ src[f].cwnd \in Nat
      BY <2>1 DEF Source
    <2>3. w[f] = IF src[f].in_fast_recovery THEN src[f].ssthresh ELSE src[f].cwnd
      BY <1>1
    <2>4. QED BY <2>1, <2>2, <2>3, Floors DEF Guarded
  <1> HIDE DEF w
  <1>4. Total(w, Flow) \in Nat /\ \A f \in Flow : w[f] =< Total(w, Flow)
    BY <1>1, <1>3, TotalIsNatural
  <1>5. PICK f \in Flow : TRUE
    OBVIOUS
  <1>6. QED BY <1>1, <1>2, <1>3, <1>4, <1>5

\* Every window a source may fall to after a loss is open.
LEMMA ThresholdIsOpen ==
  ASSUME Typed, NEW w \in Nat, S!TotalWindow(src) \in Nat
  PROVE  S!Threshold(w) \in Nat /\ S!Threshold(w) >= Floor
  <1>1. CASE conn.cc_type = "NONE"
    BY <1>1, HalvedIsOpen DEF S!Threshold, Floor
  <1>2. CASE conn.cc_type # "NONE"
    <2> DEFINE total == S!TotalWindow(src)
               share == S!Share(conn, total, w)
    <2>1. total \div 8 \in Nat /\ total \div 2 \in Nat /\ w - w \div 2 \in Nat
      <3> HIDE DEF total
      <3>1. total \in Nat
        BY DEF total
      <3>2. QED BY <3>1
    <2>2. share \in {total \div 8, total \div 2, w - w \div 2}
      <3> HIDE DEF total
      <3>1. QED BY DEF S!Share
    <2>3. share \in Nat
      <3> HIDE DEF share, total
      <3>1. QED BY <2>1, <2>2
    <2>4. S!Threshold(w) = IF share + MSS > w THEN MSS ELSE w - share
      BY <1>2 DEF S!Threshold, S!Deflated
    <2> HIDE DEF share
    <2>5. QED BY <1>2, <2>3, <2>4, Floors DEF Floor
  <1>3. QED BY <1>1, <1>2

\* A window that grows stays open.
LEMMA IncrementIsNat ==
  ASSUME Typed, Flow # {}, S!TotalWindow(src) \in Nat, S!TotalWindow(src) > 0,
         NEW cwnd \in Nat, cwnd > 0, NEW newly \in Nat,
         NEW i \in S!Increments(conn, src, cwnd, newly, MSS)
  PROVE  i \in Nat
  <1> DEFINE tcp_inc == (newly * MSS) \div cwnd
             subs == Cardinality(Flow) * Cardinality(Flow)
             up == IF tcp_inc % subs >= subs \div 2 THEN 1 ELSE 0
             part == (newly * MSS) \div S!TotalWindow(src)
  <1>1. newly * MSS \in Nat
    BY Floors
  <1>2. ASSUME NEW a \in Nat, NEW b \in Nat, b > 0
        PROVE  a \div b \in Nat
    BY <1>2
  <1>3. tcp_inc \in Nat /\ part \in Nat /\ newly \div 100 \in Nat
    BY <1>1, <1>2
  <1>4. up \in {0, 1}
    OBVIOUS
  <1> HIDE DEF tcp_inc, up, part
  <1>5. tcp_inc \div subs + up \in Nat
    <2>1. Cardinality(Flow) \in Nat /\ Cardinality(Flow) > 0
      BY TcpSrcAssumption, FS_CardinalityType, FS_EmptySet
    <2>2. subs \in Nat /\ subs > 0
      BY <2>1
    <2> HIDE DEF subs
    <2>3. tcp_inc \div subs \in Nat
      BY <1>2, <1>3, <2>2
    <2>4. QED BY <1>4, <2>3
  <1>6. /\ DOMAIN src = Flow
        /\ i \in {0, newly \div 100, part, tcp_inc, tcp_inc \div subs + up} \/ i \in 0 .. tcp_inc
    <2>1. DOMAIN src = Flow
      BY DEF Typed
    <2>2. S!Increments(conn, src, cwnd, newly, MSS) =
            IF tcp_inc = 0 THEN {0}
            ELSE CASE conn.cc_type \in {"COUPLED_INC", "COUPLED_EPSILON"} -> 0 .. tcp_inc
                   [] conn.cc_type = "COUPLED_SCALABLE_TCP" -> {newly \div 100}
                   [] conn.cc_type = "FULLY_COUPLED" -> {IF part > tcp_inc THEN tcp_inc ELSE part}
                   [] conn.cc_type = "COUPLED_TCP" -> {tcp_inc \div subs + up}
                   [] OTHER -> {tcp_inc}
      BY <2>1 DEF S!Increments, tcp_inc, up, part
    <2> HIDE DEF subs
    <2>3. QED BY <2>1, <2>2
  <1> HIDE DEF subs
  <1>7. QED BY <1>3, <1>5, <1>6

LEMMA InflatedIsOpen ==
  ASSUME Typed, Flow # {}, S!TotalWindow(src) \in Nat, S!TotalWindow(src) > 0,
         NEW s \in Source, Guarded(s), NEW w \in S!Inflated(s)
  PROVE  w \in Nat /\ w >= MSS
  <1> DEFINE newly == S!Lesser(s.last_acked + s.cwnd - s.highest_sent, MSS)
  <1>1. MSS \in Nat /\ MSS > 0
    BY TcpSrcAssumption
  <1>2. /\ s.cwnd \in Nat /\ s.cwnd >= MSS /\ s.ssthresh \in Nat
        /\ s.last_acked \in Nat /\ s.highest_sent \in Nat
    BY DEF Source, Guarded
  <1>3. CASE s.last_acked + s.cwnd < s.highest_sent
    BY <1>2, <1>3 DEF S!Inflated
  <1>4. CASE ~ (s.last_acked + s.cwnd < s.highest_sent)
    <2>1. newly \in Nat
      BY <1>1, <1>2, <1>4 DEF S!Lesser
    <2>2. CASE s.cwnd < s.ssthresh
      <3>1. w = s.cwnd + S!Lesser(s.ssthresh - s.cwnd, newly)
        BY <1>4, <2>2 DEF S!Inflated
      <3> HIDE DEF newly
      <3>2. QED BY <3>1, <2>1, <2>2, <1>1, <1>2 DEF S!Lesser
    <2>3. CASE ~ (s.cwnd < s.ssthresh)
      <3>1. PICK i \in S!Increments(conn, src, s.cwnd, newly, MSS) : w = s.cwnd + i
        BY <1>4, <2>3 DEF S!Inflated
      <3> HIDE DEF newly
      <3>2. i \in Nat
        BY <1>1, <1>2, <2>1, <3>1, IncrementIsNat
      <3>3. QED BY <3>1, <3>2, <1>1, <1>2
    <2>4. QED BY <2>2, <2>3
  <1>5. QED BY <1>3, <1>4

\* A source that takes an acknowledgement of new data stays in order.
LEMMA AckedIsGuarded ==
  ASSUME Typed, NEW f \in Flow, NEW a \in Nat, Guarded(src[f]),
         a > src[f].last_acked, src[f].established \/ a = 1
  PROVE  /\ S!Acked(f, a) \in Source /\ Guarded(S!Acked(f, a))
         /\ S!Acked(f, a).established /\ S!Acked(f, a).last_acked = a
         /\ S!Acked(f, a).highest_sent >= a
         /\ S!Acked(f, a).scheduled = src[f].scheduled
         /\ S!Acked(f, a).rtx_timeout_pending = src[f].rtx_timeout_pending
  <1> DEFINE s == S!Acked(f, a)
  <1>1. src[f] \in Source
    BY DEF Typed
  <1>2. S!HighestAfter(src[f], a) \in Nat /\ S!HighestAfter(src[f], a) >= a
    BY <1>1 DEF S!HighestAfter, S!Greater, Source
  <1> DEFINE t == a < src[f].highest_sent
             stands == src[f].established \/ a = 1
  <1>6. stands = TRUE /\ t \in BOOLEAN
    OBVIOUS
  <1>7. s = [src[f] EXCEPT !.last_acked = a, !.established = stands, !.armed = t,
                           !.highest_sent = S!HighestAfter(src[f], a)]
    BY DEF S!Acked
  <1>3. /\ s.last_acked = a /\ s.established = TRUE
        /\ s.armed = t
        /\ s.highest_sent = S!HighestAfter(src[f], a)
        /\ s.cwnd = src[f].cwnd /\ s.ssthresh = src[f].ssthresh
        /\ s.scheduled = src[f].scheduled
        /\ s.rtx_timeout_pending = src[f].rtx_timeout_pending
        /\ s \in Source
    <2> HIDE DEF s, t, stands
    <2>1. QED BY <1>1, <1>2, <1>6, <1>7 DEF Source
  <1>4. a < s.highest_sent => s.armed
    BY <1>1, <1>3 DEF S!HighestAfter, S!Greater, Source
  <1>5. QED BY <1>2, <1>3, <1>4 DEF Guarded

\* What taking an acknowledgement comes to.
Settled(f) ==
  /\ src' \in [Flow -> Source] /\ data' \in [Flow -> Seq(Sendable)] /\ Advances
  /\ \A g \in Flow \ {f} : src'[g] = src[g] /\ data'[g] = data[g]
  /\ Guarded(src'[f])
  /\ src'[f].last_acked >= src[f].last_acked
  /\ src'[f].scheduled = src[f].scheduled
  /\ src'[f].rtx_timeout_pending = src[f].rtx_timeout_pending
  /\ src'[f].established \/ (src'[f] = src[f] /\ data'[f] = data[f])
  /\ TakesNumbers(f)

LEMMA SendingSettles ==
  ASSUME Typed, NEW f \in Flow, NEW s \in Source, NEW first \in Seq(Unnumbered),
         Guarded(s), s.established, S!SendPackets(f, s, first),
         s.last_acked >= src[f].last_acked, s.scheduled = src[f].scheduled,
         s.rtx_timeout_pending = src[f].rtx_timeout_pending
  PROVE  Settled(f)
  <1>1. first \in Seq(Sendable)
    <2>1. Unnumbered \subseteq Sendable
      BY DEF Unnumbered
    <2>2. QED BY <2>1, SeqMonotonic
  <1>2. TakesNumbers(f)
    BY SendPacketsNumbers
  <1>3. QED BY <1>1, <1>2, SendingKeepsGuarded DEF Settled

LEMMA SegmentSentAgain ==
  ASSUME NEW s \in Source
  PROVE  S!Again(s) \in Sendable /\ S!Again(s) \in Unnumbered
  BY DEF S!Again, S!Syn, S!Segment, Sendable, Source, Unnumbered

\* receivePacket, by its early returns.
LEMMA ReceiveAckSettles ==
  ASSUME Typed, NEW f \in Flow, NEW a \in Nat, \A g \in Flow : Guarded(src[g]),
         src[f].established \/ (a = 1 /\ src[f].last_acked = 0 /\ ~src[f].in_fast_recovery),
         S!ReceiveAck(f, a)
  PROVE  Settled(f)
  <1> DEFINE s == src[f]
             n == S!Acked(f, a)
  <1>1. s \in Source /\ MSS \in Nat /\ MSS > 0 /\ MaxCwnd \in Nat /\ MaxCwnd >= MSS
    BY TcpSrcAssumption DEF Typed
  <1>2. << >> \in Seq(Unnumbered)
    OBVIOUS
  <1>3. a > s.last_acked =>
          /\ n \in Source /\ Guarded(n) /\ n.established /\ n.last_acked = a
          /\ n.highest_sent >= a
          /\ n.scheduled = s.scheduled /\ n.rtx_timeout_pending = s.rtx_timeout_pending
    BY AckedIsGuarded
  <1>4. a = s.last_acked => s.established /\ (s.established \/ a = 1) = TRUE
    BY <1>1 DEF Source
  <1>13. Flow # {} /\ S!TotalWindow(src) \in Nat /\ S!TotalWindow(src) > 0
    BY TotalOfWindows
  <1>14. conn' = conn => Advances
    BY DEF Advances, Typed, Joined
  <1>5. CASE S!OldAck(f, a)
    <2>1. src' = src /\ data' = data /\ conn' = conn
      BY <1>5 DEF S!OldAck
    <2>2. TakesNumbers(f)
      BY <1>1, <2>1, SegmentSentAgain, AgainNumbers
    <2>3. QED BY <1>1, <1>14, <2>1, <2>2 DEF Settled, Typed, Source
  <1>6. CASE S!NewAck(f, a)
    <2>1. PICK w \in S!Inflated(n) :
            S!SendPackets(f, [n EXCEPT !.dupacks = 0, !.cwnd = S!Lesser(w, MaxCwnd)], << >>)
      BY <1>6 DEF S!NewAck
    <2>2. a > s.last_acked
      BY <1>6 DEF S!NewAck
    <2> DEFINE t == [n EXCEPT !.dupacks = 0, !.cwnd = S!Lesser(w, MaxCwnd)]
    <2>3. w \in Nat /\ w >= MSS
      BY <1>3, <1>13, <2>2, InflatedIsOpen
    <2>4. S!Lesser(w, MaxCwnd) \in Nat /\ S!Lesser(w, MaxCwnd) >= MSS
      BY <2>3, <1>1 DEF S!Lesser
    <2>5. t \in Source /\ Guarded(t) /\ t.established /\ t.last_acked = a
          /\ t.scheduled = s.scheduled /\ t.rtx_timeout_pending = s.rtx_timeout_pending
      <3> HIDE DEF n, s
      <3>1. QED BY <1>3, <2>2, <2>4 DEF Source, Guarded
    <2>6. a >= s.last_acked
      BY <2>2, <1>1 DEF Source
    <2>7. QED
      <3> HIDE DEF t, n
      <3>1. S!SendPackets(f, t, << >>)
        BY <2>1 DEF t
      <3>2. QED BY <3>1, <1>2, <2>5, <2>6, SendingSettles
  <1>7. CASE S!RecoveryEnds(f, a)
    <2> DEFINE t == [n EXCEPT !.cwnd = S!Lesser(n.ssthresh, n.highest_sent - a + MSS),
                              !.dupacks = 0, !.in_fast_recovery = FALSE]
    <2>1. a > s.last_acked /\ S!SendPackets(f, t, << >>)
      BY <1>7 DEF S!RecoveryEnds
    <2>2. /\ S!Lesser(n.ssthresh, n.highest_sent - a + MSS) \in Nat
          /\ S!Lesser(n.ssthresh, n.highest_sent - a + MSS) >= MSS
      <3> HIDE DEF n, s, t
      <3>1. n.ssthresh \in Nat /\ n.ssthresh >= MSS /\ n.highest_sent - a \in Nat
        <4>1. n.ssthresh \in Nat /\ n.highest_sent \in Nat
          BY <1>3, <2>1 DEF Source
        <4>2. n.ssthresh >= Floor /\ n.highest_sent >= a
          BY <1>3, <2>1 DEF Guarded
        <4>3. QED BY <4>1, <4>2, <1>1, Floors
      <3>2. QED BY <3>1, <1>1 DEF S!Lesser
    <2>3. t \in Source /\ Guarded(t) /\ t.established /\ t.last_acked = a
          /\ t.scheduled = s.scheduled /\ t.rtx_timeout_pending = s.rtx_timeout_pending
      <3> HIDE DEF n, s
      <3>1. QED BY <1>3, <2>1, <2>2 DEF Source, Guarded
    <2>4. a >= s.last_acked
      BY <2>1, <1>1 DEF Source
    <2>5. QED
      <3> HIDE DEF t, n
      <3>1. QED BY <1>2, <2>1, <2>3, <2>4, SendingSettles
  <1>8. CASE S!PartialAck(f, a)
    <2> DEFINE window == S!PartialWindow(n.cwnd, a - s.last_acked)
               t == [n EXCEPT !.cwnd = window, !.armed = TRUE]
    <2>1. a > s.last_acked /\ S!SendPackets(f, t, <<S!Again(n)>>)
      BY <1>8 DEF S!PartialAck
    <2>2. window \in Nat /\ window >= MSS
      <3> HIDE DEF n
      <3>1. QED BY <1>1, <1>3, <2>1 DEF S!PartialWindow, Source
    <2>3. t \in Source /\ Guarded(t) /\ t.established /\ t.last_acked = a
          /\ t.scheduled = s.scheduled /\ t.rtx_timeout_pending = s.rtx_timeout_pending
      <3> HIDE DEF n, s, window
      <3>1. QED BY <1>3, <2>1, <2>2 DEF Source, Guarded
    <2>4. a >= s.last_acked
      BY <2>1, <1>1 DEF Source
    <2>5. <<S!Again(n)>> \in Seq(Unnumbered)
      BY <1>3, <2>1, SegmentSentAgain
    <2>6. QED
      <3> HIDE DEF t, n
      <3>1. QED BY <2>5, <2>1, <2>3, <2>4, SendingSettles
  <1>9. CASE S!DuplicateInRecovery(f, a)
    <2> DEFINE t == [s EXCEPT !.established = s.established \/ a = 1,
                              !.cwnd = S!Lesser(s.cwnd + MSS, MaxCwnd)]
    <2>1. a = s.last_acked /\ S!SendPackets(f, t, << >>)
      BY <1>9 DEF S!DuplicateInRecovery, S!Repeated
    <2>2. S!Lesser(s.cwnd + MSS, MaxCwnd) \in Nat /\ S!Lesser(s.cwnd + MSS, MaxCwnd) >= MSS
      BY <1>1 DEF S!Lesser, Source
    <2>3. t = [s EXCEPT !.established = TRUE, !.cwnd = S!Lesser(s.cwnd + MSS, MaxCwnd)]
      BY <1>4, <2>1
    <2>4. t \in Source /\ Guarded(t) /\ t.established /\ t.last_acked >= s.last_acked
          /\ t.scheduled = s.scheduled /\ t.rtx_timeout_pending = s.rtx_timeout_pending
      <3>1. s \in Source /\ Guarded(s)
        BY <1>1
      <3> HIDE DEF t, s
      <3>2. t \in Source
        BY <3>1, <2>2, <2>3 DEF Source
      <3>3. /\ t.established /\ t.last_acked = s.last_acked /\ t.ssthresh = s.ssthresh
            /\ t.highest_sent = s.highest_sent /\ t.armed = s.armed
            /\ t.scheduled = s.scheduled /\ t.rtx_timeout_pending = s.rtx_timeout_pending
            /\ t.cwnd >= MSS
        BY <3>1, <2>2, <2>3 DEF Source
      <3>4. Guarded(t)
        BY <3>1, <3>3 DEF Guarded
      <3>5. s.last_acked \in Nat
        BY <3>1 DEF Source
      <3>6. QED BY <3>2, <3>3, <3>4, <3>5
    <2>5. QED
      <3> HIDE DEF t
      <3>1. QED BY <1>2, <2>1, <2>4, SendingSettles
  <1>10. CASE S!DuplicateAck(f, a)
    <2> DEFINE t == [s EXCEPT !.established = s.established \/ a = 1, !.dupacks = s.dupacks + 1]
    <2>1. a = s.last_acked /\ S!SendPackets(f, t, << >>)
      BY <1>10 DEF S!DuplicateAck, S!Repeated
    <2>2. t = [s EXCEPT !.established = TRUE, !.dupacks = s.dupacks + 1]
      BY <1>4, <2>1
    <2>3. t \in Source /\ Guarded(t) /\ t.established /\ t.last_acked >= s.last_acked
          /\ t.scheduled = s.scheduled /\ t.rtx_timeout_pending = s.rtx_timeout_pending
      <3>1. s \in Source /\ Guarded(s)
        BY <1>1
      <3> HIDE DEF t, s
      <3>8. s.dupacks + 1 \in Nat
        BY <3>1 DEF Source
      <3>3. t \in Source
        BY <3>1, <3>8, <2>2 DEF Source
      <3>4. /\ t.established /\ t.last_acked = s.last_acked
            /\ t.scheduled = s.scheduled /\ t.rtx_timeout_pending = s.rtx_timeout_pending
        BY <3>1, <2>2 DEF Source
      <3>6. t.cwnd = s.cwnd /\ t.ssthresh = s.ssthresh /\ t.highest_sent = s.highest_sent /\ t.armed = s.armed
        BY <3>1, <2>2 DEF Source
      <3>5. Guarded(t)
        BY <3>1, <3>6, <3>4 DEF Guarded
      <3>7. s.last_acked \in Nat
        BY <3>1 DEF Source
      <3>2. QED BY <3>3, <3>4, <3>5, <3>7
    <2>4. QED
      <3> HIDE DEF t
      <3>1. QED BY <1>2, <2>1, <2>3, SendingSettles
  <1>11. CASE S!ThirdDuplicate(f, a)
    <2> DEFINE t == [s EXCEPT !.established = s.established \/ a = 1, !.dupacks = s.dupacks + 1]
               half == S!Threshold(t.cwnd)
    <2>1. a = s.last_acked /\ conn' = conn /\ Advances
      BY <1>11, <1>14 DEF S!ThirdDuplicate, S!Repeated
    <2>2. t = [s EXCEPT !.established = TRUE, !.dupacks = s.dupacks + 1]
      BY <1>4, <2>1
    <2>3. s \in Source /\ Guarded(s)
      BY <1>1
    <2>4. /\ t \in Source /\ Guarded(t) /\ t.established /\ t.last_acked = s.last_acked
          /\ t.scheduled = s.scheduled /\ t.rtx_timeout_pending = s.rtx_timeout_pending
          /\ t.cwnd = s.cwnd
      <3> HIDE DEF t, s
      <3>1. s.dupacks + 1 \in Nat
        BY <2>3 DEF Source
      <3>2. t \in Source
        BY <3>1, <2>2, <2>3 DEF Source
      <3>3. /\ t.established /\ t.last_acked = s.last_acked /\ t.ssthresh = s.ssthresh
            /\ t.highest_sent = s.highest_sent /\ t.armed = s.armed /\ t.cwnd = s.cwnd
            /\ t.scheduled = s.scheduled /\ t.rtx_timeout_pending = s.rtx_timeout_pending
        BY <2>2, <2>3 DEF Source
      <3>4. Guarded(t)
        BY <2>3, <3>3 DEF Guarded
      <3>5. QED BY <3>2, <3>3, <3>4
    <2>5. CASE t.last_acked < t.recoverq
      <3>1. src' = [src EXCEPT ![f] = t] /\ data' = data
        BY <1>11, <2>5 DEF S!ThirdDuplicate
      <3>2. TakesNumbers(f)
        BY <1>1, <2>1, <3>1, SegmentSentAgain, AgainNumbers
      <3> HIDE DEF t
      <3>3. QED BY <3>1, <3>2, <2>1, <2>4 DEF Settled, Typed, Source
    <2>6. CASE ~ (t.last_acked < t.recoverq)
      <3> DEFINE on == t.armed \/ t.established
                 u == [t EXCEPT !.ssthresh = half, !.cwnd = half + 3 * MSS,
                                !.in_fast_recovery = TRUE, !.recoverq = t.highest_sent,
                                !.armed = on]
      <3>2. src' = [src EXCEPT ![f] = [t EXCEPT !.ssthresh = S!Threshold(t.cwnd),
                                                !.cwnd = S!Threshold(t.cwnd) + 3 * MSS,
                                                !.in_fast_recovery = TRUE,
                                                !.recoverq = t.highest_sent,
                                                !.armed = t.armed \/ t.established]]
            /\ data' = [data EXCEPT ![f] = Append(data[f], S!Again(t))]
        BY <1>11, <2>6 DEF S!ThirdDuplicate
      <3>3. half \in Nat /\ half >= Floor
        <4> HIDE DEF t
        <4>1. t.cwnd \in Nat
          BY <2>4 DEF Source
        <4>2. QED BY <4>1, <1>13, ThresholdIsOpen
      <3>4. on = TRUE
        BY <2>4
      <3>5. u \in Source /\ Guarded(u) /\ u.established /\ u.last_acked = s.last_acked
            /\ u.scheduled = s.scheduled /\ u.rtx_timeout_pending = s.rtx_timeout_pending
        <4> HIDE DEF t, s, half, on
        <4>1. half + 3 * MSS \in Nat /\ half + 3 * MSS >= MSS
          BY <3>3, <1>1, Floors
        <4>2. QED BY <2>4, <3>3, <3>4, <4>1 DEF Source, Guarded
      <3>6. Append(data[f], S!Again(t)) \in Seq(Sendable)
        <4> HIDE DEF t
        <4>1. S!Again(t) \in Sendable
          BY <2>4, SegmentSentAgain
        <4>2. QED BY <4>1 DEF Typed
      <3>7. src' = [src EXCEPT ![f] = u]
        BY <3>2
      <3>8. s.last_acked \in Nat
        BY <2>3 DEF Source
      <3> HIDE DEF u, t
      <3>9. src' \in [Flow -> Source] /\ data' \in [Flow -> Seq(Sendable)]
        BY <3>2, <3>5, <3>6, <3>7 DEF Typed
      <3>10. src'[f] = u /\ \A g \in Flow \ {f} : src'[g] = src[g] /\ data'[g] = data[g]
        BY <3>2, <3>7 DEF Typed
      <3>12. TakesNumbers(f)
        <4>1. data'[f] = Append(data[f], S!Again(t))
          BY <3>2 DEF Typed
        <4>2. S!Again(t) \in Unnumbered
          BY <2>4, SegmentSentAgain
        <4>3. QED BY <2>1, <4>1, <4>2, AgainNumbers
      <3>11. QED BY <3>5, <3>8, <3>9, <3>10, <3>12, <2>1 DEF Settled
    <2>7. QED BY <2>5, <2>6
  <1>12. QED
    BY <1>5, <1>6, <1>7, <1>8, <1>9, <1>10, <1>11 DEF S!ReceiveAck
------------------------------------------------------------------------------
\* The actions, each of one flow.

\* A connection keeps its coupling, so what is in order stays so.
LEMMA SameFloor ==
  ASSUME conn'.cc_type = conn.cc_type, NEW f \in Flow,
         FlowInv(src'[f], data'[f], acks'[f], sink'[f])
  PROVE  FlowInv(src[f], data[f], acks[f], sink[f])'
  BY DEF FlowInv, Guarded, Greeting, Waiting, Floor

LEMMA OneFlowMoves ==
  ASSUME Inv, NEW f \in Flow, Typed', conn'.cc_type = conn.cc_type,
         mishaps' \in 0 .. MaxMishaps, early' \in 0 .. MaxEarly,
         FlowInv(src'[f], data'[f], acks'[f], sink'[f]),
         \A g \in Flow \ {f} : /\ src'[g] = src[g] /\ data'[g] = data[g]
                               /\ acks'[g] = acks[g] /\ sink'[g] = sink[g]
  PROVE  Inv'
  <1>1. ASSUME NEW g \in Flow
        PROVE  FlowInv(src[g], data[g], acks[g], sink[g])'
    <2>1. FlowInv(src'[g], data'[g], acks'[g], sink'[g])
      <3>1. CASE g = f
        BY <3>1
      <3>2. CASE g # f
        <4>1. /\ src'[g] = src[g] /\ data'[g] = data[g]
              /\ acks'[g] = acks[g] /\ sink'[g] = sink[g]
          BY <3>2
        <4>2. FlowInv(src[g], data[g], acks[g], sink[g])
          BY DEF Inv
        <4>3. QED BY <4>1, <4>2
      <3>3. QED BY <3>1, <3>2
    <2>2. QED BY <2>1, SameFloor
  <1>2. QED BY <1>1 DEF Inv

LEMMA DeliverAckKeepsInv ==
  ASSUME Inv, NEW f \in Flow, DeliverAck(f)
  PROVE  Inv' /\ src'[f].last_acked >= src[f].last_acked
         /\ \A g \in Flow \ {f} : src'[g] = src[g]
  <1> PICK N : N = Nat
    OBVIOUS
  <1>1. Typed /\ FlowInv(src[f], data[f], acks[f], sink[f])
    BY DEF Inv
  <1> DEFINE a == Head(acks[f])
  <1>2. acks[f] \in Seq(N) /\ acks[f] # << >> /\ S!ReceiveAck(f, a)
    BY <1>1 DEF DeliverAck, Typed
  <1>3. a \in Nat /\ Tail(acks[f]) \in Seq(N)
    BY <1>2
  <1>4. ~src[f].established => a = 1 /\ Tail(acks[f]) \in Seq({1})
    <2>1. ~src[f].established => acks[f] \in Seq({1})
      BY <1>1 DEF FlowInv, Greeting
    <2>2. QED BY <1>2, <2>1
  <1>5. ~ (src[f].scheduled /\ ~src[f].rtx_timeout_pending)
    BY <1>1, <1>2 DEF FlowInv, Waiting
  <1>6. Settled(f)
    <2>1. \A g \in Flow : Guarded(src[g])
      BY DEF Inv, FlowInv
    <2>2. src[f].established
            \/ (a = 1 /\ src[f].last_acked = 0 /\ ~src[f].in_fast_recovery)
      BY <1>1, <1>4 DEF FlowInv, Greeting
    <2> HIDE DEF a
    <2>3. QED BY <1>1, <1>2, <1>3, <2>1, <2>2, ReceiveAckSettles
  <1>7. /\ acks' = [acks EXCEPT ![f] = Tail(acks[f])]
        /\ sink' = sink /\ msink' = msink /\ mishaps' = mishaps /\ early' = early
    BY DEF DeliverAck, kvars
  <1>8. acks' \in [Flow -> Seq(N)] /\ acks'[f] = Tail(acks[f])
        /\ \A g \in Flow \ {f} : acks'[g] = acks[g]
    BY <1>1, <1>3, <1>7 DEF Typed
  <1>9. Typed'
    BY <1>1, <1>6, <1>7, <1>8 DEF Typed, Settled, Advances
  <1>10. FlowInv(src'[f], data'[f], acks'[f], sink'[f])
    <2>1. Guarded(src'[f])
      BY <1>6 DEF Settled
    <2>2. ~src'[f].established => Greeting(src'[f], data'[f], acks'[f], sink'[f])
      <3> SUFFICES ASSUME ~src'[f].established
                   PROVE  Greeting(src'[f], data'[f], acks'[f], sink'[f])
        OBVIOUS
      <3>1. src'[f] = src[f] /\ data'[f] = data[f] /\ sink'[f] = sink[f]
        BY <1>6, <1>7 DEF Settled
      <3>2. Greeting(src[f], data[f], acks[f], sink[f]) /\ acks'[f] \in Seq({1})
        BY <1>1, <1>4, <1>8, <3>1 DEF FlowInv
      <3>3. QED BY <3>1, <3>2 DEF Greeting
    <2>3. ~ (src'[f].scheduled /\ ~src'[f].rtx_timeout_pending)
      BY <1>5, <1>6 DEF Settled
    <2>4. QED BY <2>1, <2>2, <2>3 DEF FlowInv
  <1>11. \A g \in Flow \ {f} : /\ src'[g] = src[g] /\ data'[g] = data[g]
                               /\ acks'[g] = acks[g] /\ sink'[g] = sink[g]
    BY <1>6, <1>7, <1>8 DEF Settled
  <1>12. mishaps' \in 0 .. MaxMishaps /\ early' \in 0 .. MaxEarly
    BY <1>7 DEF Inv
  <1>15. conn'.cc_type = conn.cc_type
    BY <1>6 DEF Settled, Advances
  <1>13. Inv'
    BY <1>9, <1>10, <1>11, <1>12, <1>15, OneFlowMoves
  <1>14. QED BY <1>6, <1>13 DEF Settled

LEMMA DeliverDataKeepsInv ==
  ASSUME Inv, NEW f \in Flow, DeliverData(f)
  PROVE  Inv'
  <1> PICK N : N = Nat
    OBVIOUS
  <1> DEFINE segment == Head(data[f])
             noted == K!Noted(sink[f].received, segment.seqno)
             taken == K!Taken(sink[f], segment.seqno, segment.size, noted)
  <1>1. Typed /\ FlowInv(src[f], data[f], acks[f], sink[f])
    BY DEF Inv
  <1>2. data[f] \in Seq(Sendable) /\ data[f] # << >>
    BY <1>1 DEF DeliverData, Typed
  <1>3. segment \in Sendable /\ Tail(data[f]) \in Seq(Sendable)
    BY <1>2
  <1>4. segment.seqno \in Nat /\ segment.size \in {1, MSS} /\ segment.data_seqno \in Nat
    <2> HIDE DEF segment
    <2>1. QED BY <1>3 DEF Sendable
  <1>5. sink[f] \in Kept /\ sink[f].received \in Seq(N)
        /\ msink \in Kept /\ msink.received \in Seq(N)
    BY <1>1 DEF Typed, Kept
  <1>6. /\ noted \in Seq(Nat)
        /\ K!NotedOnce(msink.received, segment.data_seqno) \in Seq(Nat)
    <2> HIDE DEF segment
    <2>1. QED BY <1>4, <1>5, NotedKeepsNumbers
  <1>7. taken \in Kept
        /\ K!Taken(msink, segment.data_seqno, segment.size,
                   K!NotedOnce(msink.received, segment.data_seqno)) \in Kept
    <2> HIDE DEF segment, noted
    <2>1. QED BY <1>4, <1>5, <1>6, TakenIsKept
  <1>8. /\ msink' = K!Taken(msink, segment.data_seqno, segment.size,
                            K!NotedOnce(msink.received, segment.data_seqno))
        /\ sink' = [sink EXCEPT ![f] = taken]
        /\ acks' = [acks EXCEPT ![f] = Append(acks[f], sink'[f].cumulative_ack)]
    BY DEF DeliverData, K!ReceivePacket
  <1>9. /\ data' = [data EXCEPT ![f] = Tail(data[f])]
        /\ src' = src /\ conn' = conn /\ mishaps' = mishaps /\ early' = early
    BY DEF DeliverData, svars
  <1> HIDE DEF taken
  <1>10. sink' \in [Flow -> Kept] /\ sink'[f] = taken
         /\ \A g \in Flow \ {f} : sink'[g] = sink[g]
    BY <1>1, <1>7, <1>8 DEF Typed
  <1>11. taken.cumulative_ack \in Nat
    BY <1>7 DEF Kept
  <1>12. acks' \in [Flow -> Seq(N)] /\ acks'[f] = Append(acks[f], taken.cumulative_ack)
         /\ \A g \in Flow \ {f} : acks'[g] = acks[g]
    <2>1. acks \in [Flow -> Seq(N)]
      BY <1>1 DEF Typed
    <2>2. Append(acks[f], taken.cumulative_ack) \in Seq(N)
      BY <1>11, <2>1
    <2>3. QED BY <1>8, <1>10, <2>1, <2>2
  <1>13. Typed'
    <2>1. msink' \in Kept
      BY <1>7, <1>8
    <2>2. data' \in [Flow -> Seq(Sendable)]
      BY <1>1, <1>3, <1>9 DEF Typed
    <2>3. QED BY <1>1, <1>9, <1>10, <1>12, <2>1, <2>2 DEF Typed
  <1>14. data'[f] = Tail(data[f]) /\ \A g \in Flow \ {f} : data'[g] = data[g]
    BY <1>1, <1>9 DEF Typed
  <1>15. FlowInv(src'[f], data'[f], acks'[f], sink'[f])
    <2>1. Guarded(src'[f])
      BY <1>1, <1>9 DEF FlowInv
    <2>2. ~src'[f].established => Greeting(src'[f], data'[f], acks'[f], sink'[f])
      <3> SUFFICES ASSUME ~src'[f].established
                   PROVE  Greeting(src'[f], data'[f], acks'[f], sink'[f])
        OBVIOUS
      <3>1. Greeting(src[f], data[f], acks[f], sink[f])
        BY <1>1, <1>9 DEF FlowInv
      <3>2. data[f] \in Seq({S!Syn}) /\ acks[f] \in Seq({1})
            /\ sink[f].cumulative_ack \in {0, 1} /\ sink[f].received = << >>
        BY <3>1 DEF Greeting
      <3>3. segment = S!Syn /\ Tail(data[f]) \in Seq({S!Syn})
        BY <1>2, <3>2
      <3>4. segment.seqno = 1 /\ segment.size = 1
        BY <3>3 DEF S!Syn
      <3>5. taken.cumulative_ack = 1 /\ taken.received = << >>
        <4>1. taken = K!Taken(sink[f], 1, 1, noted)
          BY <3>4 DEF taken
        <4>2. QED BY <4>1, <1>5, <3>2, SynIsTaken
      <3>6. Append(acks[f], 1) \in Seq({1})
        BY <3>2
      <3>7. QED BY <3>1, <3>3, <3>5, <3>6, <1>9, <1>10, <1>12, <1>14 DEF Greeting
    <2>3. ~ (src'[f].scheduled /\ ~src'[f].rtx_timeout_pending)
      BY <1>1, <1>2, <1>9 DEF FlowInv, Waiting
    <2>4. QED BY <2>1, <2>2, <2>3 DEF FlowInv
  <1>16. \A g \in Flow \ {f} : /\ src'[g] = src[g] /\ data'[g] = data[g]
                               /\ acks'[g] = acks[g] /\ sink'[g] = sink[g]
    BY <1>9, <1>10, <1>12, <1>14
  <1>17. mishaps' \in 0 .. MaxMishaps /\ early' \in 0 .. MaxEarly
    BY <1>9 DEF Inv
  <1>18. QED
    BY <1>9, <1>13, <1>15, <1>16, <1>17, OneFlowMoves

\* A packet of the data or of the acknowledgements goes, or goes first.
LEMMA NetworkKeepsInv ==
  ASSUME Inv, NEW f \in Flow,
         LoseData(f) \/ LoseAck(f) \/ SegmentOvertakes(f) \/ AckOvertakes(f)
  PROVE  Inv' /\ src' = src
  <1> PICK N : N = Nat
    OBVIOUS
  <1>1. Typed /\ FlowInv(src[f], data[f], acks[f], sink[f])
    BY DEF Inv
  <1>2. src' = src /\ conn' = conn /\ sink' = sink /\ msink' = msink /\ early' = early
        /\ mishaps < MaxMishaps /\ mishaps' = mishaps + 1
    BY DEF LoseData, LoseAck, SegmentOvertakes, AckOvertakes, svars, kvars, Mishap
  <1>3. mishaps' \in 0 .. MaxMishaps /\ early' \in 0 .. MaxEarly
    BY <1>2, BoundsAssumption DEF Inv
  <1>4. CASE LoseData(f) \/ SegmentOvertakes(f)
    <2>1. PICK d : data' = [data EXCEPT ![f] = d] /\ acks' = acks
                   /\ \E i \in DOMAIN data[f] :
                        d = RemoveAt(data[f], i) \/ d = <<data[f][i]>> \o RemoveAt(data[f], i)
      <3>1. CASE LoseData(f)
        <4>1. PICK i \in DOMAIN data[f] : data' = [data EXCEPT ![f] = RemoveAt(data[f], i)]
          BY <3>1 DEF LoseData
        <4>2. acks' = acks
          BY <3>1 DEF LoseData, svars, kvars
        <4>3. QED BY <4>1, <4>2
      <3>2. CASE SegmentOvertakes(f)
        <4>1. PICK i \in 2 .. Len(data[f]) :
                data' = [data EXCEPT ![f] = <<data[f][i]>> \o RemoveAt(data[f], i)]
          BY <3>2 DEF SegmentOvertakes
        <4>2. i \in DOMAIN data[f]
          BY <1>1 DEF Typed
        <4>3. acks' = acks
          BY <3>2 DEF SegmentOvertakes, svars, kvars
        <4>4. QED BY <4>1, <4>2, <4>3
      <3>3. QED BY <1>4, <3>1, <3>2
    <2>2. data[f] # << >>
      BY <2>1
    <2>3. ASSUME NEW X, data[f] \in Seq(X)
          PROVE  d \in Seq(X)
      BY <2>1, <2>3, Lost, Overtaken
    <2>4. d \in Seq(Sendable)
      BY <1>1, <2>3 DEF Typed
    <2>5. data' \in [Flow -> Seq(Sendable)] /\ data'[f] = d
          /\ \A g \in Flow \ {f} : data'[g] = data[g]
      BY <1>1, <2>1, <2>4 DEF Typed
    <2>6. Typed'
      BY <1>1, <1>2, <2>1, <2>5 DEF Typed
    <2>7. FlowInv(src[f], d, acks[f], sink[f])
      BY <1>1, <2>2, <2>3 DEF FlowInv, Greeting, Waiting
    <2>8. QED
      BY <1>2, <1>3, <2>1, <2>5, <2>6, <2>7, OneFlowMoves
  <1>5. CASE LoseAck(f) \/ AckOvertakes(f)
    <2>1. PICK d : acks' = [acks EXCEPT ![f] = d] /\ data' = data
                   /\ \E i \in DOMAIN acks[f] :
                        d = RemoveAt(acks[f], i) \/ d = <<acks[f][i]>> \o RemoveAt(acks[f], i)
      <3>1. CASE LoseAck(f)
        <4>1. PICK i \in DOMAIN acks[f] : acks' = [acks EXCEPT ![f] = RemoveAt(acks[f], i)]
          BY <3>1 DEF LoseAck
        <4>2. data' = data
          BY <3>1 DEF LoseAck, svars, kvars
        <4>3. QED BY <4>1, <4>2
      <3>2. CASE AckOvertakes(f)
        <4>1. PICK i \in 2 .. Len(acks[f]) :
                acks' = [acks EXCEPT ![f] = <<acks[f][i]>> \o RemoveAt(acks[f], i)]
          BY <3>2 DEF AckOvertakes
        <4>2. i \in DOMAIN acks[f]
          BY <1>1 DEF Typed
        <4>3. data' = data
          BY <3>2 DEF AckOvertakes, svars, kvars
        <4>4. QED BY <4>1, <4>2, <4>3
      <3>3. QED BY <1>5, <3>1, <3>2
    <2>2. acks[f] # << >>
      BY <2>1
    <2>3. ASSUME NEW X, acks[f] \in Seq(X)
          PROVE  d \in Seq(X)
      BY <2>1, <2>3, Lost, Overtaken
    <2>4. d \in Seq(N)
      BY <1>1, <2>3 DEF Typed
    <2>5. acks' \in [Flow -> Seq(N)] /\ acks'[f] = d
          /\ \A g \in Flow \ {f} : acks'[g] = acks[g]
      BY <1>1, <2>1, <2>4 DEF Typed
    <2>6. Typed'
      BY <1>1, <1>2, <2>1, <2>5 DEF Typed
    <2>7. FlowInv(src[f], data[f], d, sink[f])
      BY <1>1, <2>2, <2>3 DEF FlowInv, Greeting, Waiting
    <2>8. QED
      BY <1>2, <1>3, <2>1, <2>5, <2>6, <2>7, OneFlowMoves
  <1>6. QED BY <1>4, <1>5

LEMMA TimerKeepsInv ==
  ASSUME Inv, NEW f \in Flow, TimerExpires(f)
  PROVE  Inv' /\ src'[f].last_acked >= src[f].last_acked
         /\ \A g \in Flow \ {f} : src'[g] = src[g]
  <1>1. Typed /\ FlowInv(src[f], data[f], acks[f], sink[f])
    BY DEF Inv
  <1> DEFINE t == [src[f] EXCEPT !.rtx_timeout_pending = TRUE, !.scheduled = TRUE]
  <1>2. src' = [src EXCEPT ![f].rtx_timeout_pending = TRUE, ![f].scheduled = TRUE]
    BY DEF TimerExpires, S!RtxTimerHook
  <1>3. /\ data' = data /\ conn' = conn /\ acks' = acks /\ sink' = sink /\ msink' = msink
        /\ mishaps' = mishaps /\ early' \in {early, early + 1} /\ early' =< MaxEarly
    BY DEF TimerExpires, S!RtxTimerHook, kvars
  <1>4. src[f] \in Source
    BY <1>1 DEF Typed
  <1>5. t \in Source
    BY <1>4 DEF Source
  <1>6. src' = [src EXCEPT ![f] = t]
    BY <1>1, <1>2, <1>4 DEF Typed, Source
  <1>7. src'[f] = t /\ src' \in [Flow -> Source]
        /\ \A g \in Flow \ {f} : src'[g] = src[g]
    <2> HIDE DEF t
    <2>1. QED BY <1>1, <1>5, <1>6 DEF Typed
  <1>8. Typed'
    BY <1>1, <1>3, <1>7 DEF Typed
  <1>9. /\ t.cwnd = src[f].cwnd /\ t.ssthresh = src[f].ssthresh
        /\ t.last_acked = src[f].last_acked /\ t.highest_sent = src[f].highest_sent
        /\ t.armed = src[f].armed /\ t.established = src[f].established
        /\ t.in_fast_recovery = src[f].in_fast_recovery /\ t.rtx_timeout_pending
    BY <1>4 DEF Source
  <1>10. FlowInv(t, data[f], acks[f], sink[f])
    <2> HIDE DEF t
    <2>1. QED BY <1>1, <1>9 DEF FlowInv, Guarded, Greeting
  <1>11. early' \in 0 .. MaxEarly /\ mishaps' \in 0 .. MaxMishaps
    BY <1>3, BoundsAssumption DEF Inv
  <1>12. Inv'
    <2> HIDE DEF t
    <2>1. QED BY <1>3, <1>7, <1>8, <1>10, <1>11, OneFlowMoves
  <1>13. src[f].last_acked \in Nat
    BY <1>4 DEF Source
  <1>14. QED
    <2> HIDE DEF t
    <2>1. QED BY <1>7, <1>9, <1>12, <1>13

\* The start of a flow sends the SYN, and nothing but that.
LEMMA StartKeepsInv ==
  ASSUME Inv, NEW f \in Flow, S!StartFlow(f),
         UNCHANGED <<kvars, acks, mishaps, early, arrived>>
  PROVE  Inv' /\ src'[f].last_acked >= src[f].last_acked
         /\ \A g \in Flow \ {f} : src'[g] = src[g]
  <1> DEFINE s == [src[f] EXCEPT !.scheduled = FALSE, !.established = FALSE]
  <1>1. Typed /\ FlowInv(src[f], data[f], acks[f], sink[f])
    BY DEF Inv
  <1>2. src[f] = S!Fresh /\ data[f] = << >> /\ acks[f] = << >>
    BY <1>1 DEF S!StartFlow, FlowInv, Waiting
  <1>3. /\ s.highest_sent = 0 /\ s.last_acked = 0 /\ ~s.established /\ ~s.scheduled
        /\ ~s.in_fast_recovery /\ s.cwnd >= MSS /\ s.ssthresh >= Floor
    BY <1>2, TcpSrcAssumption DEF S!Fresh, Floor
  <1>4. s \in Source
    BY <1>1 DEF Typed, Source
  <1>5. S!SendPackets(f, s, << >>) /\ << >> \in Seq(Sendable)
    BY DEF S!StartFlow
  <1> HIDE DEF s
  <1>6. PICK h \in Nat, t \in BOOLEAN, segments \in Seq(Sendable) :
          Sends(f, s, << >>, h, t, segments)
    BY <1>1, <1>4, <1>5, SendPacketsSends
  <1>7. PICK u : Becomes(s, h, t, u) /\ src' = [src EXCEPT ![f] = u]
    BY <1>6 DEF Sends
  <1>8. /\ data' = [data EXCEPT ![f] = data[f] \o << >> \o <<S!Syn>>]
        /\ segments = <<S!Syn>> /\ Advances
    BY <1>3, <1>6 DEF Sends
  <1>9. /\ u \in Source
        /\ u.highest_sent = 1 /\ u.last_acked = 0 /\ ~u.established /\ ~u.scheduled
        /\ ~u.in_fast_recovery /\ Guarded(u)
    <2>1. Guarded(s)
      BY <1>3, <1>4 DEF Guarded
    <2>2. h = 1
      BY <1>3, <1>7 DEF Becomes
    <2>3. QED BY <1>3, <1>4, <1>7, <2>1, <2>2, BecomesGuarded
  <1>10. data[f] \o << >> \o <<S!Syn>> = <<S!Syn>> /\ <<S!Syn>> \in Seq(Sendable)
         /\ <<S!Syn>> \in Seq({S!Syn})
    BY <1>2, <1>8
  <1>11. /\ src' \in [Flow -> Source] /\ src'[f] = u
         /\ data' \in [Flow -> Seq(Sendable)] /\ data'[f] = <<S!Syn>>
         /\ \A g \in Flow \ {f} : src'[g] = src[g] /\ data'[g] = data[g]
    BY <1>1, <1>7, <1>8, <1>9, <1>10 DEF Typed
  <1>12. /\ acks' = acks /\ sink' = sink /\ msink' = msink
         /\ mishaps' = mishaps /\ early' = early
    BY DEF kvars
  <1>13. Typed'
    BY <1>1, <1>8, <1>11, <1>12 DEF Typed, Advances
  <1>14. FlowInv(u, <<S!Syn>>, acks[f], sink[f])
    <2>1. Greeting(src[f], data[f], acks[f], sink[f])
      BY <1>1, <1>2 DEF FlowInv, S!Fresh
    <2>2. QED BY <1>9, <1>10, <2>1 DEF FlowInv, Greeting
  <1>15. mishaps' \in 0 .. MaxMishaps /\ early' \in 0 .. MaxEarly
    BY <1>12 DEF Inv
  <1>16. Inv'
    BY <1>8, <1>11, <1>12, <1>13, <1>14, <1>15, OneFlowMoves DEF Advances
  <1>17. src[f].last_acked = 0
    BY <1>2 DEF S!Fresh
  <1>18. QED BY <1>9, <1>11, <1>16, <1>17

\* A timeout goes back to the last ACK, never behind it, with the timer set.
LEMMA TimeoutKeepsInv ==
  ASSUME Inv, NEW f \in Flow, S!Timeout(f),
         UNCHANGED <<kvars, acks, mishaps, early, arrived>>
  PROVE  Inv' /\ src'[f].last_acked >= src[f].last_acked
         /\ \A g \in Flow \ {f} : src'[g] = src[g]
  <1> DEFINE s == src[f]
             window == IF s.in_fast_recovery
                       THEN S!Lesser(s.ssthresh, s.highest_sent - s.last_acked + MSS)
                       ELSE s.cwnd
             half == S!Threshold(window)
             on == s.armed \/ s.established
             u == [s EXCEPT !.scheduled = FALSE, !.rtx_timeout_pending = FALSE,
                            !.ssthresh = half, !.cwnd = MSS,
                            !.in_fast_recovery = FALSE, !.recoverq = s.highest_sent,
                            !.dupacks = 0, !.highest_sent = S!Rewound(s), !.armed = on]
  <1>1. Typed /\ FlowInv(s, data[f], acks[f], sink[f])
    BY DEF Inv
  <1>2. s \in Source /\ Guarded(s) /\ MSS \in Nat /\ MSS > 0
    BY <1>1, TcpSrcAssumption DEF Typed, FlowInv
  <1>3. window \in Nat
    <2> HIDE DEF s
    <2>1. s.ssthresh \in Nat /\ s.cwnd \in Nat /\ s.highest_sent - s.last_acked \in Nat
      BY <1>2 DEF Source, Guarded
    <2>2. QED BY <2>1, <1>2 DEF S!Lesser
  <1> HIDE DEF window
  <1>5. half \in Nat /\ half >= Floor
    <2>1. S!TotalWindow(src) \in Nat
      BY <1>1, TotalOfWindows DEF Inv, FlowInv
    <2>2. QED BY <1>1, <1>3, <2>1, ThresholdIsOpen
  <1>6. /\ src' = [src EXCEPT ![f] = u]
        /\ data' = [data EXCEPT ![f] = Append(data[f], S!Again(s))]
        /\ conn' = conn
    BY DEF S!Timeout, window
  <1>7. /\ S!Rewound(s) \in Nat /\ S!Rewound(s) >= s.last_acked
        /\ ~s.established => S!Rewound(s) = s.highest_sent
    <2> HIDE DEF s
    <2>1. s.highest_sent \in Nat /\ s.last_acked \in Nat /\ s.last_acked =< s.highest_sent
      BY <1>2 DEF Source, Guarded
    <2>2. QED BY <2>1, <1>2 DEF S!Rewound
  <1>8. on \in BOOLEAN /\ (s.established => on) /\ (s.armed => on)
    OBVIOUS
  <1>9. /\ u \in Source
        /\ u.highest_sent = S!Rewound(s) /\ u.last_acked = s.last_acked
        /\ u.armed = on /\ u.established = s.established /\ ~u.scheduled
        /\ ~u.in_fast_recovery /\ u.cwnd = MSS /\ u.ssthresh = half
    <2> HIDE DEF s, half, on
    <2>1. QED BY <1>2, <1>5, <1>7, <1>8 DEF Source
  <1>10. Guarded(u)
    <2>1. s.last_acked < S!Rewound(s) => on
      <3>1. CASE s.established
        BY <1>8, <3>1
      <3>2. CASE ~s.established
        <4>1. s.last_acked < s.highest_sent => s.armed
          BY <1>2 DEF Guarded
        <4> HIDE DEF s, on
        <4>2. QED BY <3>2, <4>1, <1>7, <1>8
      <3>3. QED BY <3>1, <3>2
    <2>2. MSS >= MSS
      BY <1>2
    <2> HIDE DEF u, s, half, on
    <2>3. QED BY <1>5, <1>7, <1>9, <2>1, <2>2 DEF Guarded
  <1>11. S!Again(s) \in Sendable
    BY <1>2, SegmentSentAgain
  <1> HIDE DEF u, half, on
  <1>12. /\ src' \in [Flow -> Source] /\ src'[f] = u
         /\ data' \in [Flow -> Seq(Sendable)] /\ data'[f] = Append(data[f], S!Again(s))
         /\ \A g \in Flow \ {f} : src'[g] = src[g] /\ data'[g] = data[g]
    BY <1>1, <1>6, <1>9, <1>11 DEF Typed
  <1>13. /\ acks' = acks /\ sink' = sink /\ msink' = msink
         /\ mishaps' = mishaps /\ early' = early
    BY DEF kvars
  <1>14. Typed'
    BY <1>1, <1>6, <1>12, <1>13 DEF Typed
  <1>15. ~u.established => Greeting(u, data'[f], acks[f], sink[f])
    <2> SUFFICES ASSUME ~u.established
                 PROVE  Greeting(u, data'[f], acks[f], sink[f])
      OBVIOUS
    <2>1. ~s.established
      BY <1>9
    <2>2. Greeting(s, data[f], acks[f], sink[f])
      BY <1>1, <2>1 DEF FlowInv
    <2>3. S!Again(s) = S!Syn
      BY <2>1 DEF S!Again
    <2>4. Append(data[f], S!Again(s)) \in Seq({S!Syn})
      BY <2>2, <2>3 DEF Greeting
    <2> HIDE DEF s
    <2>5. QED BY <2>1, <2>2, <2>4, <1>7, <1>9, <1>12 DEF Greeting
  <1>16. FlowInv(u, data'[f], acks[f], sink[f])
    BY <1>9, <1>10, <1>15 DEF FlowInv
  <1>17. mishaps' \in 0 .. MaxMishaps /\ early' \in 0 .. MaxEarly
    BY <1>13 DEF Inv
  <1>18. Inv'
    BY <1>6, <1>12, <1>13, <1>14, <1>16, <1>17, OneFlowMoves
  <1>19. src[f].last_acked \in Nat
    BY <1>2 DEF Source
  <1>20. QED BY <1>9, <1>12, <1>18, <1>19
------------------------------------------------------------------------------
\* The connection's event: every subflow sends, after those before it have taken
\* their data numbers.

LEMMA SameCardinality == S!Cardinality(Flow) = Cardinality(Flow)
  BY DEF S!Cardinality, Cardinality

LEMMA FlowNumbers ==
  /\ Cardinality(Flow) \in Nat
  /\ \A f \in Flow : f \in Nat /\ f - 1 \in Nat /\ f =< Cardinality(Flow)
  BY TcpSrcAssumption, FS_CardinalityType

\* The numbers given to the first m subflows are the first of those given to more.
LEMMA NumbersGrow ==
  ASSUME Typed, NEW m \in Nat, NEW n \in Nat, m =< n, n =< Cardinality(Flow)
  PROVE  /\ S!Numbered(m) \in Nat /\ S!Numbered(n) \in Nat /\ S!Numbered(n) - S!Numbered(m) \in Nat
         /\ S!Numbered(m) =< S!Numbered(n)
  <1>1. ASSUME NEW f \in Flow
        PROVE  S!Wanted[f] \in Nat
    BY BurstIsNat DEF S!Wanted, Typed
  <1>2. 1 .. m \subseteq Flow /\ m + 1 .. n \subseteq Flow
    BY TcpSrcAssumption, FlowNumbers
  <1>3. /\ IsFiniteSet(1 .. m) /\ IsFiniteSet(m + 1 .. n)
        /\ (1 .. m) \cap (m + 1 .. n) = {} /\ (1 .. m) \cup (m + 1 .. n) = 1 .. n
    BY FS_Interval
  <1> DEFINE A == 1 .. m
             B == m + 1 .. n
  <1>4. \A x \in A \cup B : S!Wanted[x] \in Nat
    BY <1>1, <1>2
  <1>5. Total(S!Wanted, A \cup B) = Total(S!Wanted, A) + Total(S!Wanted, B)
    <2> HIDE DEF A, B
    <2>1. IsFiniteSet(A) /\ IsFiniteSet(B) /\ A \cap B = {}
      BY <1>3 DEF A, B
    <2>2. \A x \in A \cup B : S!Wanted[x] \in Int
      BY <1>4
    <2>3. QED BY <2>1, <2>2, TotalOfBoth
  <1>6. Total(S!Wanted, A) \in Nat /\ Total(S!Wanted, B) \in Nat
    <2> HIDE DEF A, B
    <2>1. IsFiniteSet(A) /\ IsFiniteSet(B)
      BY <1>3 DEF A, B
    <2>2. QED BY <1>4, <2>1, TotalIsNatural
  <1>7. ASSUME NEW k \in Nat
        PROVE  S!Numbered(k) = S!Lesser(S!Granted(conn), Total(S!Wanted, 1 .. k))
    BY DEF S!Numbered, S!FoldFunctionOnSet, S!MapThenFoldSet,
           Total, FoldFunctionOnSet, MapThenFoldSet
  <1>8. A \cup B = 1 .. n
    BY <1>3
  <1>9. S!Numbered(m) = S!Lesser(S!Granted(conn), Total(S!Wanted, A))
        /\ S!Numbered(n) = S!Lesser(S!Granted(conn), Total(S!Wanted, A \cup B))
    BY <1>7, <1>8
  <1> HIDE DEF A, B
  <1>10. S!Granted(conn) \in Nat
    BY CounterIsNat
  <1>11. QED BY <1>5, <1>6, <1>9, <1>10 DEF S!Lesser

\* What the event sends on a subflow, and how many numbers it takes.
LEMMA PolledSegments ==
  ASSUME Typed, NEW f \in Flow
  PROVE  /\ src[f] \in Source
         /\ ~src[f].established => S!Polled(f) = <<S!Syn>>
         /\ S!Polled(f) \in Seq(Sendable)
         /\ \E h \in Nat, t \in BOOLEAN : Becomes(src[f], h, t, S!Sent(src[f], S!Polled(f)))
  <1>1. src[f] \in Source
    BY DEF Typed
  <1>2. CASE src[f].established
    <2> DEFINE n == S!Numbered(f) - S!Numbered(f - 1)
               k == S!Numbered(f - 1)
    <2>1. f - 1 \in Nat /\ f \in Nat /\ f - 1 =< f /\ f =< Cardinality(Flow)
      BY FlowNumbers
    <2>2. n \in Nat /\ k \in Nat
      BY <2>1, NumbersGrow
    <2>3. S!Polled(f) = S!NextSegments(src[f], n, k)
      BY <1>2 DEF S!Polled
    <2> HIDE DEF n, k
    <2> DEFINE segments == S!NextSegments(src[f], n, k)
    <2>4. /\ segments \in Seq(Sendable)
          /\ \E h \in Nat, t \in BOOLEAN : Becomes(src[f], h, t, S!Sent(src[f], segments))
      BY <1>1, <1>2, <2>2, NewSegments
    <2>5. S!Polled(f) = segments
      BY <2>3
    <2> HIDE DEF segments
    <2>6. QED BY <1>1, <1>2, <2>4, <2>5
  <1>3. CASE ~src[f].established
    BY <1>1, <1>3, SynIsSent DEF S!Polled
  <1>4. QED BY <1>1, <1>2, <1>3

LEMMA PollKeepsInv ==
  ASSUME Inv, ConnectionEvent
  PROVE  Inv' /\ \A f \in Flow : src'[f].last_acked >= src[f].last_acked
  <1>1. Typed /\ \A f \in Flow : FlowInv(src[f], data[f], acks[f], sink[f])
    BY DEF Inv
  <1>2. /\ src' = [f \in Flow |-> S!Sent(src[f], S!Polled(f))]
        /\ data' = [f \in Flow |-> data[f] \o S!Polled(f)]
        /\ conn' = S!Given(conn, S!Numbered(Cardinality(Flow)))
    BY SameCardinality DEF ConnectionEvent, S!Poll
  <1>3. /\ acks' = acks /\ sink' = sink /\ msink' = msink
        /\ mishaps' = mishaps /\ early' \in {early, early + 1} /\ early' =< MaxEarly
    BY DEF ConnectionEvent, kvars
  <1>4. Advances
    <2>1. Cardinality(Flow) \in Nat /\ Cardinality(Flow) =< Cardinality(Flow)
      BY FlowNumbers
    <2>2. S!Numbered(Cardinality(Flow)) \in Nat
      BY <1>1, <2>1, NumbersGrow
    <2>3. QED BY <1>1, <1>2, <2>2, CounterIsNat DEF Advances
  <1>5. ASSUME NEW f \in Flow
        PROVE  /\ src'[f] \in Source /\ data'[f] \in Seq(Sendable)
               /\ FlowInv(src'[f], data'[f], acks'[f], sink'[f])
               /\ src'[f].last_acked = src[f].last_acked
    <2>1. /\ src[f] \in Source
          /\ ~src[f].established => S!Polled(f) = <<S!Syn>>
          /\ S!Polled(f) \in Seq(Sendable)
          /\ \E h \in Nat, t \in BOOLEAN : Becomes(src[f], h, t, S!Sent(src[f], S!Polled(f)))
      BY <1>1, PolledSegments
    <2>2. src'[f] = S!Sent(src[f], S!Polled(f)) /\ data'[f] = data[f] \o S!Polled(f)
      BY <1>2
    <2>3. PICK h \in Nat, t \in BOOLEAN : Becomes(src[f], h, t, src'[f])
      BY <2>1, <2>2
    <2> DEFINE s == src[f]
               u == src'[f]
    <2>4. FlowInv(s, data[f], acks[f], sink[f])
      BY <1>1
    <2>5. /\ u \in Source /\ u.highest_sent = h
          /\ u.last_acked = s.last_acked /\ u.established = s.established
          /\ u.scheduled = s.scheduled /\ u.rtx_timeout_pending = s.rtx_timeout_pending
          /\ u.in_fast_recovery = s.in_fast_recovery
          /\ Guarded(u)
      <3>1. Guarded(s) /\ (~s.established => s.last_acked = 0)
        BY <2>4 DEF FlowInv, Greeting
      <3>2. s \in Source /\ Becomes(s, h, t, u)
        BY <2>1, <2>3
      <3> HIDE DEF s, u
      <3>3. QED BY <3>1, <3>2, BecomesGuarded
    <2>6. data'[f] \in Seq(Sendable)
      <3>1. data[f] \in Seq(Sendable)
        BY <1>1 DEF Typed
      <3>2. QED BY <2>1, <2>2, <3>1
    <2>7. ~u.established => Greeting(u, data'[f], acks'[f], sink'[f])
      <3> SUFFICES ASSUME ~u.established
                   PROVE  Greeting(u, data'[f], acks'[f], sink'[f])
        OBVIOUS
      <3>1. ~s.established /\ Greeting(s, data[f], acks[f], sink[f])
        BY <2>4, <2>5 DEF FlowInv
      <3>2. h = 1
        BY <2>3, <3>1 DEF Becomes
      <3>3. data[f] \in Seq({S!Syn}) /\ data'[f] = data[f] \o <<S!Syn>>
        BY <2>1, <2>2, <3>1 DEF Greeting
      <3>4. data'[f] \in Seq({S!Syn})
        BY <3>3
      <3> HIDE DEF s, u
      <3>5. QED BY <1>3, <2>5, <3>1, <3>2, <3>4 DEF Greeting
    <2>8. ~ (u.scheduled /\ ~u.rtx_timeout_pending)
      <3>1. s.highest_sent > 0
        BY DEF ConnectionEvent
      <3>2. ~ (s.scheduled /\ ~s.rtx_timeout_pending)
        BY <2>4, <3>1 DEF FlowInv, Waiting, S!Fresh
      <3>3. QED BY <2>5, <3>2
    <2>9. QED BY <2>5, <2>6, <2>7, <2>8 DEF FlowInv
  <1>6. Typed'
    <2>1. src' \in [Flow -> Source] /\ data' \in [Flow -> Seq(Sendable)]
      BY <1>2, <1>5
    <2>2. QED BY <1>1, <1>3, <1>4, <2>1 DEF Typed, Advances
  <1>7. ASSUME NEW f \in Flow
        PROVE  FlowInv(src[f], data[f], acks[f], sink[f])'
    <2>1. conn'.cc_type = conn.cc_type
      BY <1>4 DEF Advances
    <2>2. QED BY <1>5, <2>1, SameFloor
  <1>8. Inv'
    <2>1. early' \in 0 .. MaxEarly /\ mishaps' \in 0 .. MaxMishaps
      BY <1>3, BoundsAssumption DEF Inv
    <2>2. QED BY <1>6, <1>7, <2>1 DEF Inv
  <1>9. \A f \in Flow : src[f].last_acked \in Nat
    BY <1>1 DEF Typed, Source
  <1>10. QED BY <1>5, <1>8, <1>9
------------------------------------------------------------------------------
LEMMA InvInit == Init => Inv
  <1> SUFFICES ASSUME Init
               PROVE  Inv
    OBVIOUS
  <1>1. S!Fresh \in Source
    BY TcpSrcAssumption DEF S!Fresh, Source
  <1>2. K!Nothing \in Kept
    BY DEF K!Nothing, Kept
  <1>3. Typed
    <2>1. conn \in Joined
      BY ConnectionsAssumption DEF Init, Joined, S!NoConnection, S!Connection
    <2>2. QED BY <1>1, <1>2, <2>1 DEF Init, S!Init, K!Init, Typed
  <1>4. mishaps \in 0 .. MaxMishaps /\ early \in 0 .. MaxEarly
    BY BoundsAssumption DEF Init
  <1>5. ASSUME NEW f \in Flow
        PROVE  FlowInv(src[f], data[f], acks[f], sink[f])
    <2>1. /\ src[f] = S!Fresh /\ data[f] = << >> /\ acks[f] = << >>
          /\ sink[f] = K!Nothing
      BY DEF Init, S!Init, K!Init
    <2>2. Guarded(S!Fresh)
      BY TcpSrcAssumption, Floors DEF Guarded, S!Fresh
    <2>3. Greeting(S!Fresh, << >>, << >>, K!Nothing)
      BY DEF Greeting, S!Fresh, K!Nothing
    <2>4. QED BY <2>1, <2>2, <2>3 DEF FlowInv, Waiting
  <1>6. QED BY <1>3, <1>4, <1>5 DEF Inv

\* What a step does to a source, whatever it is.
LEMMA StepKeepsInv ==
  ASSUME Inv, Next
  PROVE  Inv' /\ \A f \in Flow : src'[f].last_acked >= src[f].last_acked
  <1>9. CASE ConnectionEvent
    BY <1>9, PollKeepsInv
  <1> SUFFICES ASSUME NEW f \in Flow,
                      \/ DeliverData(f) \/ DeliverAck(f) \/ LoseData(f) \/ LoseAck(f)
                      \/ SegmentOvertakes(f) \/ AckOvertakes(f) \/ TimerExpires(f)
                      \/ SourceEvent(f)
               PROVE  Inv' /\ \A g \in Flow : src'[g].last_acked >= src[g].last_acked
    BY <1>9 DEF Next
  <1>2. \A g \in Flow : src[g].last_acked \in Nat
    BY DEF Inv, Typed, Source
  <1>3. CASE DeliverData(f)
    <2>1. src' = src
      BY <1>3 DEF DeliverData, svars
    <2>2. QED BY <1>2, <1>3, <2>1, DeliverDataKeepsInv
  <1>4. CASE DeliverAck(f)
    BY <1>2, <1>4, DeliverAckKeepsInv
  <1>5. CASE LoseData(f) \/ LoseAck(f) \/ SegmentOvertakes(f) \/ AckOvertakes(f)
    BY <1>2, <1>5, NetworkKeepsInv
  <1>6. CASE TimerExpires(f)
    BY <1>2, <1>6, TimerKeepsInv
  <1>7. CASE SourceEvent(f)
    <2>1. UNCHANGED <<kvars, acks, mishaps, early, arrived>>
      BY <1>7 DEF SourceEvent
    <2>2. CASE S!StartFlow(f)
      BY <1>2, <2>1, <2>2, StartKeepsInv
    <2>3. CASE S!Timeout(f)
      BY <1>2, <2>1, <2>3, TimeoutKeepsInv
    <2>4. QED BY <1>7, <2>2, <2>3 DEF SourceEvent
  <1>8. QED BY <1>3, <1>4, <1>5, <1>6, <1>7

LEMMA StutterKeepsInv ==
  ASSUME Inv, UNCHANGED vars
  PROVE  Inv'
  <1>1. /\ src' = src /\ data' = data /\ acks' = acks /\ sink' = sink /\ msink' = msink
        /\ conn' = conn /\ mishaps' = mishaps /\ early' = early
    BY DEF vars, svars, kvars
  <1>2. Typed'
    BY <1>1 DEF Inv, Typed
  <1>3. \A f \in Flow : FlowInv(src[f], data[f], acks[f], sink[f])'
    BY <1>1, SameFloor DEF Inv
  <1>4. QED BY <1>1, <1>2, <1>3 DEF Inv

\* The invariant holds, for all sizes, windows, thresholds and bounds.
THEOREM SourcesInOrder == Spec => []Inv
  <1>1. Init => Inv
    BY InvInit
  <1>2. Inv /\ [Next]_vars => Inv'
    BY StepKeepsInv, StutterKeepsInv
  <1>3. QED BY <1>1, <1>2, PTL DEF Spec

\* Whatever is lost, overtaken or sent too early, the timer is set while anything
\* is outstanding (tcp.py:297-303, 475, 513, 556, 592).
THEOREM SourceHolds == Spec => []TimerGuards
  <1>1. Inv => TimerGuards
    BY DEF Inv, FlowInv, Guarded, TimerGuards, S!TimerGuards
  <1>2. QED BY SourcesInOrder, <1>1, PTL

\* No window closes, and no threshold falls below two segments, or one of a coupled
\* subflow (tcp.py:327, 343-347, 415, 450, 606-610; multipath_tcp.py:341, 481-502).
THEOREM WindowsStayOpen == Spec => []WindowOpen
  <1>1. Inv => WindowOpen
    BY DEF Inv, FlowInv, Guarded, Floor, WindowOpen, S!WindowOpen
  <1>2. QED BY SourcesInOrder, <1>1, PTL

\* Before the connection stands only the SYN is sent, however often: the assertion
\* tcp.py:530 never fails.
THEOREM SynGoesFirst == Spec => []OnlySynBefore
  <1>1. Inv => OnlySynBefore
    BY DEF Inv, FlowInv, Greeting, OnlySynBefore, S!OnlySynBefore
  <1>2. QED BY SourcesInOrder, <1>1, PTL

PollsBounded == polls \in 0 .. MaxPolls

\* Every field of sources, sinks and segments keeps its type: no subtraction of
\* windows or sequence numbers goes below zero.
THEOREM TcpTypeCorrect == Spec => []TypeOK
  <1>1. Inv /\ PollsBounded => TypeOK
    <2> SUFFICES ASSUME Inv, PollsBounded
                 PROVE  TypeOK
      OBVIOUS
    <2>1. Typed
      BY DEF Inv
    <2>2. S!TypeOK
      BY <2>1 DEF Typed, S!TypeOK, Source, Sendable, Joined
    <2>3. K!TypeOK
      BY <2>1 DEF Typed, K!TypeOK, Kept
    <2>4. QED BY <2>2, <2>3 DEF TypeOK, Inv, PollsBounded
  <1>2. Init => PollsBounded
    BY BoundsAssumption DEF Init, PollsBounded
  <1>3. PollsBounded /\ [Next]_vars => PollsBounded'
    <2> SUFFICES ASSUME PollsBounded, [Next]_vars
                 PROVE  PollsBounded'
      OBVIOUS
    <2>1. CASE ConnectionEvent
      BY <2>1, BoundsAssumption DEF ConnectionEvent, PollsBounded
    <2>2. CASE UNCHANGED vars
      BY <2>2 DEF vars, PollsBounded
    <2>3. ASSUME NEW f \in Flow,
                 \/ DeliverData(f) \/ DeliverAck(f) \/ LoseData(f) \/ LoseAck(f)
                 \/ SegmentOvertakes(f) \/ AckOvertakes(f) \/ TimerExpires(f) \/ SourceEvent(f)
          PROVE  polls' = polls
      BY <2>3 DEF DeliverData, DeliverAck, LoseData, LoseAck, SegmentOvertakes, AckOvertakes,
                  TimerExpires, SourceEvent
    <2>4. QED BY <2>1, <2>2, <2>3 DEF Next, PollsBounded
  <1>4. QED BY SourcesInOrder, <1>1, <1>2, <1>3, PTL DEF Spec

\* A source never takes back what it knows to be acknowledged, and a timeout
\* never sends it back behind that (tcp.py:300-301, 617).
THEOREM SourceNeverBehind == Spec => NeverBehind
  <1> DEFINE Ahead == \A f \in Flow : /\ src'[f].last_acked >= src[f].last_acked
                                      /\ src'[f].highest_sent >= src'[f].last_acked
  <1>1. Inv /\ Inv' /\ [Next]_vars => [Ahead]_vars
    <2> SUFFICES ASSUME Inv, Inv', Next
                 PROVE  Ahead
      OBVIOUS
    <2>1. \A f \in Flow : src'[f].last_acked >= src[f].last_acked
      BY StepKeepsInv
    <2>2. \A f \in Flow : (src[f] \in Source /\ Guarded(src[f]))'
      BY DEF Inv, FlowInv, Typed
    <2>3. \A f \in Flow : src'[f].highest_sent >= src'[f].last_acked
      BY <2>2 DEF Guarded, Source
    <2>4. QED BY <2>1, <2>3
  <1>2. QED BY SourcesInOrder, <1>1, PTL DEF Spec, NeverBehind
------------------------------------------------------------------------------
\* What is acknowledged has arrived.

\* Where a segment may end, and where one after the SYN may begin.
Ends == {0} \cup {1 + k * MSS : k \in Nat}
Later == {2 + k * MSS : k \in Nat}

Proper ==
  {x \in Sendable : \/ x.seqno = 1 /\ x.size = 1
                    \/ x.seqno \in Later /\ x.size = MSS}

Seqnos(r) == {x.seqno : x \in r}
Told(cumulative_ack) == {e \in Ends : e =< cumulative_ack}

\* What a sink says has arrived, and the source believes no more.
Honest(s, d, a, k, r) ==
  /\ s.highest_sent \in Ends /\ s.last_acked \in Ends
  /\ s.established => s.last_acked # 0
  /\ s.last_acked =< k.cumulative_ack
  /\ d \in Seq(Proper)
  /\ a \in Seq(Told(k.cumulative_ack))
  /\ k.cumulative_ack \in Ends
  /\ k.received \in Seq(Later \cap Seqnos(r))
  /\ Upto(k.cumulative_ack) \subseteq Seqnos(r)

\* The inductive invariant, on top of Inv.
HonestInv ==
  /\ \A f \in Flow : Honest(src[f], data[f], acks[f], sink[f], arrived[f])
  /\ arrived \in [Flow -> SUBSET Sendable]
------------------------------------------------------------------------------
\* Arithmetic of segments.

LEMMA SegmentSize == MSS \in Nat /\ MSS > 0
  BY TcpSrcAssumption

LEMMA Times ==
  ASSUME NEW k \in Int
  PROVE  /\ k * MSS \in Int /\ (k + 1) * MSS = k * MSS + MSS
         /\ k \in Nat => k * MSS \in Nat
  BY SegmentSize

LEMMA Multiple ==
  ASSUME NEW k \in Nat
  PROVE  k * MSS \in Nat
  BY Times

LEMMA EndsAreNumbers == Ends \subseteq Nat /\ Later \subseteq Nat
  BY Times DEF Ends, Later

\* A segment begins after an end and ends at one.
LEMMA NextAfterEnd ==
  ASSUME NEW e \in Ends, e # 0, NEW n \in Nat
  PROVE  /\ e + n * MSS \in Ends
         /\ e + 1 + n * MSS \in Later
  <1>1. PICK k \in Nat : e = 1 + k * MSS
    BY DEF Ends
  <1>2. k + n \in Nat /\ (k + n) * MSS = k * MSS + n * MSS
    BY SegmentSize
  <1>3. k * MSS \in Nat /\ n * MSS \in Nat
    BY Times
  <1>4. e + n * MSS = 1 + (k + n) * MSS /\ e + 1 + n * MSS = 2 + (k + n) * MSS
    BY <1>1, <1>2, <1>3
  <1>5. QED BY <1>2, <1>4 DEF Ends, Later

\* Multiples are as far apart as their factors.
LEMMA FactorsOf ==
  ASSUME NEW D \in Nat, D > 0, NEW i \in Nat, NEW c \in Nat
  PROVE  /\ i * D \in Nat /\ (i + 1) * D = i * D + D
         /\ i < c <=> i * D < c * D
  <1>1. ASSUME NEW x \in Nat, NEW y \in Nat, x < y
        PROVE  x * D < y * D
    <2>1. y - x - 1 \in Nat
      BY <1>1
    <2>2. (y - x - 1) * D \in Nat
      BY <2>1
    <2>3. y * D = x * D + D + (y - x - 1) * D
      OBVIOUS
    <2>4. x * D \in Nat /\ y * D \in Nat
      OBVIOUS
    <2>5. QED BY <2>2, <2>3, <2>4
  <1>2. i * D \in Nat /\ c * D \in Nat
    OBVIOUS
  <1>3. CASE i < c
    BY <1>1, <1>3
  <1>4. CASE i = c
    BY <1>2, <1>4
  <1>5. CASE c < i
    BY <1>1, <1>2, <1>5
  <1>6. (i + 1) * D = i * D + D
    OBVIOUS
  <1>7. QED BY <1>2, <1>3, <1>4, <1>5, <1>6

LEMMA QuotientOf ==
  ASSUME NEW D \in Nat, D > 0, NEW c \in Nat
  PROVE  (c * D) \div D = c
  <1> DEFINE q == (c * D) \div D
  <1>1. c * D \in Nat
    OBVIOUS
  <1>2. q \in Nat /\ q * D =< c * D /\ c * D < q * D + D
    <2> HIDE DEF q
    <2>1. \A m \in Nat : m \div D \in Nat /\ (m \div D) * D =< m /\ m < (m \div D) * D + D
      OBVIOUS
    <2>2. QED BY <1>1, <2>1 DEF q
  <1> HIDE DEF q
  <1>3. q * D \in Nat /\ (q + 1) * D = q * D + D
    BY <1>2, FactorsOf
  <1>4. ~ (c < q)
    BY <1>1, <1>2, <1>3, FactorsOf
  <1>5. c * D < (q + 1) * D
    BY <1>2, <1>3
  <1>6. c < q + 1
    BY <1>2, <1>5, FactorsOf
  <1>7. c = q
    BY <1>2, <1>4, <1>6
  <1>8. QED BY <1>7 DEF q

LEMMA Quotient ==
  ASSUME NEW c \in Nat
  PROVE  (c * MSS) \div MSS = c
  BY SegmentSize, QuotientOf

\* The segments up to an end.
LEMMA UptoEnd ==
  ASSUME NEW c \in Nat
  PROVE  Upto(1 + c * MSS) = {1} \cup {2 + i * MSS : i \in 0 .. c - 1}
  <1> DEFINE e == 1 + c * MSS
  <1>1. c * MSS \in Nat
    BY Times
  <1>2. e # 0 /\ e - 1 = c * MSS
    BY <1>1
  <1>3. (e - 1) \div MSS = c
    BY <1>2, Quotient
  <1> HIDE DEF e
  <1>4. Upto(e) = {1} \cup {2 + i * MSS : i \in 0 .. c - 1}
    BY <1>2, <1>3 DEF Upto
  <1>5. QED BY <1>4 DEF e
------------------------------------------------------------------------------
\* The sink.

LEMMA NotedKeeps ==
  ASSUME NEW X, X \subseteq Nat, NEW list \in Seq(X), NEW seqno \in X
  PROVE  K!Noted(list, seqno) \in Seq(X)
  <1> PICK N : N = Nat
    OBVIOUS
  <1>1. Append(list, seqno) \in Seq(X)
    OBVIOUS
  <1>2. list \in Seq(N) /\ seqno \in Nat
    <2>1. X \subseteq N
      OBVIOUS
    <2>2. list \in Seq(N)
      BY <2>1, SeqMonotonic
    <2>3. QED BY <2>1, <2>2
  <1>3. ASSUME list # << >>, ~ (seqno > K!Last(list))
        PROVE  K!InsertAt(list, K!Place(list, seqno), seqno) \in Seq(X)
    <2>1. K!Place(list, seqno) \in DOMAIN list
      BY <1>2, <1>3, PlaceSplits
    <2>2. QED BY <2>1 DEF K!InsertAt
  <1>4. QED BY <1>1, <1>3 DEF K!Noted

\* What a sink has of the numbers A that have come, and a sink after a segment.
Has(s, A) ==
  /\ s.cumulative_ack \in Ends
  /\ s.received \in Seq(Later \cap A)
  /\ Upto(s.cumulative_ack) \subseteq A

Begins(s, x) == s.cumulative_ack = 0 => x.seqno = 1 /\ s.received = << >>
After(s, x) == K!Taken(s, x.seqno, x.size, K!Noted(s.received, x.seqno))

\* A sink that has taken a segment has what it then acknowledges.
LEMMA TakenHasArrived ==
  ASSUME NEW s \in Kept, NEW x \in Proper, NEW A \in SUBSET Nat,
         Has(s, A), x.seqno \in A, Begins(s, x)
  PROVE  Has(After(s, x), A) /\ After(s, x).cumulative_ack >= s.cumulative_ack
  <1> DEFINE n == x.seqno
             end == n + x.size - 1
             k == K!Follow(s, end, x.size)
             t == After(s, x)
  <1>7. t = K!Taken(s, n, x.size, K!Noted(s.received, n))
    BY DEF After
  <1>8. /\ s.cumulative_ack \in Ends /\ s.received \in Seq(Later \cap A)
        /\ Upto(s.cumulative_ack) \subseteq A
        /\ s.cumulative_ack = 0 => n = 1 /\ s.received = << >>
    BY DEF Has, Begins
  <1> SUFFICES /\ t.cumulative_ack \in Ends /\ t.cumulative_ack >= s.cumulative_ack
               /\ t.received \in Seq(Later \cap A)
               /\ Upto(t.cumulative_ack) \subseteq A
    BY DEF Has
  <1> HIDE DEF t
  <1> USE <1>7, <1>8
  <1>1. x \in Sendable /\ n \in Nat /\ x.size \in Nat /\ s.cumulative_ack \in Nat
    BY EndsAreNumbers, SegmentSize DEF Proper, Sendable
  <1>2. CASE K!InOrder(s, n) /\ s.cumulative_ack = 0
    <2>1. n = 1 /\ s.received = << >>
      BY <1>2
    <2>2. x.size = 1
      <3>1. 1 \notin Later
        BY Times DEF Later
      <3>2. QED BY <2>1, <3>1 DEF Proper
    <2>3. t.cumulative_ack = 1 /\ t.received = << >>
      BY <1>2, <2>1, <2>2, SynIsTaken
    <2>4. 1 \in Ends
      <3>1. 1 = 1 + 0 * MSS
        BY SegmentSize
      <3>2. QED BY <3>1 DEF Ends
    <2>5. Upto(1) = {1}
      <3>1. 1 = 1 + 0 * MSS /\ 0 .. 0 - 1 = {}
        BY SegmentSize
      <3>2. Upto(1 + 0 * MSS) = {1} \cup {2 + i * MSS : i \in 0 .. 0 - 1}
        BY UptoEnd
      <3>3. QED BY <3>1, <3>2
    <2>6. 1 >= s.cumulative_ack
      BY <1>2
    <2>7. << >> \in Seq(Later \cap A)
      OBVIOUS
    <2>8. {1} \subseteq A
      BY <2>1
    <2> HIDE DEF n, end, k
    <2>9. QED BY <2>3, <2>4, <2>5, <2>6, <2>7, <2>8
  <1>3. CASE K!InOrder(s, n) /\ s.cumulative_ack # 0
    <2>1. PICK j \in Nat : s.cumulative_ack = 1 + j * MSS
      BY <1>3 DEF Ends
    <2>2. n = 2 + j * MSS
      BY <1>3, <2>1, Times DEF K!InOrder
    <2>3. x.size = MSS
      <3>1. n # 1
        BY <2>2, Times
      <3>2. QED BY <3>1 DEF Proper
    <2>16. j + 1 \in Nat
      OBVIOUS
    <2>17. (j + 1) * MSS \in Nat
      BY <2>16, Multiple
    <2>4. end = 1 + (j + 1) * MSS
      BY <2>2, <2>3, Times, SegmentSize
    <2>5. end \in Nat
      <3> HIDE DEF end
      <3>1. QED BY <2>4, <2>17
    <2>6. k \in 0 .. Len(s.received)
      <3> HIDE DEF end
      <3>1. QED BY <1>1, <2>5, FollowInRange
    <2>7. k \in Nat /\ Len(s.received) \in Nat
      <3>1. Len(s.received) \in Nat
        BY DEF Kept
      <3> HIDE DEF k
      <3>2. QED BY <2>6, <3>1
    <2>8. /\ t.cumulative_ack = end + k * x.size
          /\ t.received = SubSeq(s.received, k + 1, Len(s.received))
      BY <1>3 DEF K!Taken
    <2>9. \A i \in 1 .. k : s.received[i] = end + (i - 1) * MSS + 1
      <3> HIDE DEF end
      <3>3. x.size \in Nat
        BY <1>1
      <3>1. k \in Run(s, end, x.size)
        BY <3>3, <2>5, FollowIsRun
      <3> HIDE DEF k
      <3>2. QED BY <3>1, <2>3 DEF Run
    <2> HIDE DEF end, k
    <2>10. t.cumulative_ack = 1 + (j + 1 + k) * MSS
      <3>1. (j + 1 + k) * MSS = (j + 1) * MSS + k * MSS
        BY <2>7, SegmentSize
      <3>2. k * MSS \in Nat
        BY <2>7, Multiple
      <3>3. QED BY <2>3, <2>4, <2>8, <2>17, <3>1, <3>2
    <2>11. t.cumulative_ack \in Ends
      BY <2>7, <2>10 DEF Ends
    <2>12. t.cumulative_ack >= s.cumulative_ack
      <3>1. j < j + 1 + k /\ j + 1 + k \in Nat
        BY <2>7
      <3>2. j * MSS < (j + 1 + k) * MSS
        BY <3>1, SegmentSize, FactorsOf
      <3>3. j * MSS \in Nat /\ (j + 1 + k) * MSS \in Nat
        BY <3>1, Times
      <3>4. QED BY <2>1, <2>10, <3>2, <3>3
    <2>13. t.received \in Seq(Later \cap A)
      BY <2>6, <2>7, <2>8
    <2>14. Upto(t.cumulative_ack) \subseteq A
      <3>1. Upto(t.cumulative_ack) = {1} \cup {2 + i * MSS : i \in 0 .. (j + 1 + k) - 1}
        BY <2>7, <2>10, UptoEnd
      <3>2. Upto(s.cumulative_ack) = {1} \cup {2 + i * MSS : i \in 0 .. j - 1}
        BY <2>1, UptoEnd
      <3>3. ASSUME NEW i \in 0 .. (j + 1 + k) - 1
            PROVE  2 + i * MSS \in A
        <4>1. i \in Nat
          OBVIOUS
        <4>2. CASE i < j
          <5>1. i \in 0 .. j - 1
            BY <4>1, <4>2
          <5>2. QED BY <3>2, <5>1
        <4>3. CASE i = j
          BY <2>2, <4>3
        <4>4. CASE i > j
          <5> DEFINE m == i - j
          <5>1. m \in 1 .. k /\ m - 1 \in Nat /\ m \in DOMAIN s.received
            BY <2>6, <2>7, <4>1, <4>4 DEF Kept
          <5>2. i = (j + 1) + (m - 1)
            BY <4>1
          <5> HIDE DEF m
          <5>3. i * MSS = (j + 1) * MSS + (m - 1) * MSS
            BY <5>1, <5>2, SegmentSize
          <5>4. (m - 1) * MSS \in Nat
            BY <5>1, Multiple
          <5>5. s.received[m] = 2 + i * MSS
            BY <2>4, <2>9, <2>17, <5>1, <5>3, <5>4
          <5>6. s.received[m] \in A
            BY <5>1
          <5>7. QED BY <5>5, <5>6
        <4>5. QED BY <4>1, <4>2, <4>3, <4>4
      <3>4. 1 \in A
        BY <3>2
      <3>5. QED BY <3>1, <3>3, <3>4
    <2>15. QED BY <2>11, <2>12, <2>13, <2>14
  <1>4. CASE ~ K!InOrder(s, n) /\ n =< s.cumulative_ack
    <2>1. t = s
      BY <1>4 DEF K!Taken
    <2>2. QED BY <1>1, <2>1
  <1>5. CASE ~ K!InOrder(s, n) /\ ~ (n =< s.cumulative_ack)
    <2>1. t = [s EXCEPT !.received = K!Noted(s.received, n)]
      BY <1>5 DEF K!Taken
    <2>2. t.cumulative_ack = s.cumulative_ack /\ t.received = K!Noted(s.received, n)
      BY <2>1 DEF Kept
    <2>3. n \in Later
      <3>1. s.cumulative_ack # 0
        BY <1>5 DEF K!InOrder
      <3>2. n # 1
        BY <1>1, <1>5, <3>1
      <3>3. QED BY <3>2 DEF Proper
    <2>4. K!Noted(s.received, n) \in Seq(Later \cap A)
      BY <2>3, NotedKeeps
    <2>5. QED BY <1>1, <2>2, <2>4
  <1>6. QED BY <1>2, <1>3, <1>4, <1>5
------------------------------------------------------------------------------
\* The source.

LEMMA AgainIsProper ==
  ASSUME NEW s \in Source, s.last_acked \in Ends, s.established => s.last_acked # 0
  PROVE  S!Again(s) \in Proper
  <1>1. S!Again(s) \in Sendable
    BY SegmentSentAgain
  <1>2. CASE s.established
    <2>1. s.last_acked + 1 + 0 * MSS \in Later
      BY <1>2, NextAfterEnd
    <2>2. s.last_acked + 1 + 0 * MSS = s.last_acked + 1
      BY SegmentSize DEF Source
    <2>3. S!Again(s).seqno = s.last_acked + 1 /\ S!Again(s).size = MSS
      BY <1>2 DEF S!Again, S!Segment
    <2>4. QED BY <1>1, <2>1, <2>2, <2>3 DEF Proper
  <1>3. CASE ~s.established
    BY <1>1, <1>3 DEF S!Again, S!Syn, Proper
  <1>4. QED BY <1>2, <1>3

\* What has become of a source that now knows l to be acknowledged.
Proceeds(f, l) ==
  /\ src'[f].highest_sent \in Ends /\ src'[f].last_acked = l
  /\ src'[f].established => l # 0
  /\ data'[f] \in Seq(Proper)
  /\ \A g \in Flow \ {f} : src'[g] = src[g] /\ data'[g] = data[g]

\* New segments begin after the last and end where highest_sent is then.
LEMMA NewSegmentsProper ==
  ASSUME Typed, NEW s \in Source, s.established, s.highest_sent \in Ends, s.highest_sent # 0,
         NEW n \in Nat, NEW k \in Nat
  PROVE  /\ S!NextSegments(s, n, k) \in Seq(Proper)
         /\ S!Sent(s, S!NextSegments(s, n, k)).highest_sent \in Ends
         /\ S!Sent(s, S!NextSegments(s, n, k)).last_acked = s.last_acked
         /\ S!Sent(s, S!NextSegments(s, n, k)).established = s.established
  <1> DEFINE segments == S!NextSegments(s, n, k)
  <1>1. segments \in Seq(Sendable) /\ Len(segments) = n
    BY NewSegments
  <1>2. ASSUME NEW i \in 1 .. n
        PROVE  segments[i] \in Proper
    <2>1. segments[i] = S!Segment(s.highest_sent + 1 + (i - 1) * MSS, S!DataSeq(conn, k + i))
      BY DEF S!NextSegments
    <2>2. segments[i] \in Sendable
      BY <1>1
    <2>3. i - 1 \in Nat
      OBVIOUS
    <2>4. s.highest_sent + 1 + (i - 1) * MSS \in Later
      BY <2>3, NextAfterEnd
    <2>5. segments[i].seqno = s.highest_sent + 1 + (i - 1) * MSS /\ segments[i].size = MSS
      BY <2>1 DEF S!Segment
    <2>6. QED BY <2>2, <2>4, <2>5 DEF Proper
  <1>3. segments \in Seq(Proper)
    <2>1. segments \in [1 .. n -> Proper]
      BY <1>2 DEF S!NextSegments
    <2>2. QED BY <2>1
  <1>4. s.highest_sent + n * MSS \in Ends
    BY NextAfterEnd
  <1>5. /\ S!Sent(s, segments).highest_sent = s.highest_sent + n * MSS
        /\ S!Sent(s, segments).last_acked = s.last_acked
        /\ S!Sent(s, segments).established = s.established
    BY <1>1 DEF S!Sent, Source
  <1>6. QED BY <1>3, <1>4, <1>5

LEMMA SynIsProper ==
  ASSUME NEW s \in Source, ~s.established
  PROVE  /\ <<S!Syn>> \in Seq(Proper)
         /\ S!Sent(s, <<S!Syn>>).highest_sent \in Ends
         /\ S!Sent(s, <<S!Syn>>).last_acked = s.last_acked
         /\ S!Sent(s, <<S!Syn>>).established = s.established
  <1>1. <<S!Syn>> \in Seq(Proper)
    BY DEF S!Syn, Proper, Sendable
  <1>2. 1 \in Ends
    <2>1. 1 = 1 + 0 * MSS
      BY SegmentSize
    <2>2. QED BY <2>1 DEF Ends
  <1>3. QED BY <1>1, <1>2 DEF S!Sent, Source

LEMMA SendingProceeds ==
  ASSUME Typed, NEW f \in Flow, NEW s \in Source, NEW first \in Seq(Proper),
         s.highest_sent \in Ends, s.established => s.last_acked # 0 /\ s.highest_sent # 0,
         data[f] \in Seq(Proper), S!SendPackets(f, s, first)
  PROVE  Proceeds(f, s.last_acked)
  <1>1. PICK segments \in Seq(Proper) :
          /\ src' = [src EXCEPT ![f] = S!Sent(s, segments)]
          /\ data' = [data EXCEPT ![f] = data[f] \o first \o segments]
          /\ S!Sent(s, segments).highest_sent \in Ends
          /\ S!Sent(s, segments).last_acked = s.last_acked
          /\ S!Sent(s, segments).established = s.established
    <2>1. CASE s.established
      <3> DEFINE n == S!Allowed(S!Burst(s))
                 segments == S!NextSegments(s, n, 0)
      <3>1. n \in Nat
        BY BurstIsNat, CounterIsNat
      <3>2. /\ src' = [src EXCEPT ![f] = S!Sent(s, segments)]
            /\ data' = [data EXCEPT ![f] = data[f] \o first \o segments]
        BY <2>1 DEF S!SendPackets
      <3> HIDE DEF n
      <3>3. /\ segments \in Seq(Proper)
            /\ S!Sent(s, segments).highest_sent \in Ends
            /\ S!Sent(s, segments).last_acked = s.last_acked
            /\ S!Sent(s, segments).established = s.established
        BY <2>1, <3>1, NewSegmentsProper
      <3> HIDE DEF segments
      <3>4. QED BY <3>2, <3>3
    <2>2. CASE ~s.established
      <3>1. /\ src' = [src EXCEPT ![f] = S!Sent(s, <<S!Syn>>)]
            /\ data' = [data EXCEPT ![f] = data[f] \o first \o <<S!Syn>>]
        BY <2>2 DEF S!SendPackets
      <3>2. QED BY <2>2, <3>1, SynIsProper
    <2>3. QED BY <2>1, <2>2
  <1>2. data[f] \o first \o segments \in Seq(Proper)
    OBVIOUS
  <1>3. /\ src'[f] = S!Sent(s, segments) /\ data'[f] = data[f] \o first \o segments
        /\ \A g \in Flow \ {f} : src'[g] = src[g] /\ data'[g] = data[g]
    BY <1>1 DEF Typed
  <1>4. QED BY <1>1, <1>2, <1>3 DEF Proceeds

LEMMA AckedEnds ==
  ASSUME Typed, NEW f \in Flow, NEW a \in Ends, src[f].highest_sent \in Ends
  PROVE  S!Acked(f, a).highest_sent \in Ends
  <1>1. S!HighestAfter(src[f], a) \in Ends
    BY DEF S!HighestAfter, S!Greater
  <1> DEFINE stands == src[f].established \/ a = 1
             t == a < src[f].highest_sent
             h == S!HighestAfter(src[f], a)
  <1>2. S!Acked(f, a) = [src[f] EXCEPT !.last_acked = a, !.established = stands,
                                       !.armed = t, !.highest_sent = h]
    BY DEF S!Acked
  <1>3. src[f] \in Source
    BY DEF Typed
  <1> HIDE DEF stands, t, h
  <1>4. S!Acked(f, a).highest_sent = h
    BY <1>2, <1>3 DEF Source
  <1>5. QED BY <1>1, <1>4 DEF h

\* receivePacket, by its early returns: the source knows what it knew, or the
\* acknowledgement.
LEMMA ReceiveAckProceeds ==
  ASSUME Typed, NEW f \in Flow, NEW a \in Ends, \A g \in Flow : Guarded(src[g]),
         src[f].established \/ (a = 1 /\ src[f].last_acked = 0 /\ ~src[f].in_fast_recovery),
         src[f].highest_sent \in Ends, src[f].last_acked \in Ends,
         src[f].established => src[f].last_acked # 0,
         data[f] \in Seq(Proper), S!ReceiveAck(f, a)
  PROVE  \E l \in {src[f].last_acked, a} : Proceeds(f, l)
  <1> DEFINE s == src[f]
             n == S!Acked(f, a)
  <1>1. /\ s \in Source /\ a \in Nat
        /\ MSS \in Nat /\ MSS > 0 /\ MaxCwnd \in Nat /\ MaxCwnd >= MSS
    BY TcpSrcAssumption, EndsAreNumbers DEF Typed
  <1>2. << >> \in Seq(Proper)
    OBVIOUS
  <1>3. a > s.last_acked =>
          /\ n \in Source /\ Guarded(n) /\ n.established /\ n.last_acked = a
          /\ n.highest_sent \in Ends /\ n.highest_sent >= a /\ a # 0 /\ n.highest_sent # 0
    <2>1. a > s.last_acked =>
            /\ n \in Source /\ Guarded(n) /\ n.established /\ n.last_acked = a
            /\ n.highest_sent >= a
      BY <1>1, AckedIsGuarded
    <2>2. n.highest_sent \in Ends
      BY AckedEnds
    <2>3. n.highest_sent \in Nat /\ s.last_acked \in Nat
      BY <2>2, EndsAreNumbers
    <2> HIDE DEF n, s
    <2>4. QED BY <1>1, <2>1, <2>2, <2>3
  <1>4. a = s.last_acked => s.established /\ (s.established \/ a = 1) = TRUE
    BY <1>1 DEF Source
  <1>5. s.established => s.last_acked # 0 /\ s.highest_sent # 0
    BY <1>1 DEF Guarded, Source
  <1>14. Flow # {} /\ S!TotalWindow(src) \in Nat /\ S!TotalWindow(src) > 0
    BY TotalOfWindows
  <1>6. CASE S!OldAck(f, a)
    BY <1>6 DEF S!OldAck, Proceeds
  <1>7. CASE S!NewAck(f, a)
    <2>1. PICK w \in S!Inflated(n) :
            S!SendPackets(f, [n EXCEPT !.dupacks = 0, !.cwnd = S!Lesser(w, MaxCwnd)], << >>)
      BY <1>7 DEF S!NewAck
    <2> DEFINE t == [n EXCEPT !.dupacks = 0, !.cwnd = S!Lesser(w, MaxCwnd)]
    <2>2. a > s.last_acked
      BY <1>7 DEF S!NewAck
    <2>3. S!Lesser(w, MaxCwnd) \in Nat
      BY <1>1, <1>3, <1>14, <2>2, InflatedIsOpen DEF S!Lesser
    <2>4. t \in Source /\ t.last_acked = a /\ t.highest_sent = n.highest_sent
      <3> HIDE DEF n
      <3>1. QED BY <1>3, <2>2, <2>3 DEF Source
    <2>5. S!SendPackets(f, t, << >>)
      BY <2>1
    <2> HIDE DEF t, n
    <2>6. Proceeds(f, t.last_acked)
      BY <1>2, <1>3, <2>2, <2>4, <2>5, SendingProceeds
    <2>7. QED BY <2>4, <2>6
  <1>8. CASE S!RecoveryEnds(f, a)
    <2> DEFINE w == S!Lesser(n.ssthresh, n.highest_sent - a + MSS)
               t == [n EXCEPT !.cwnd = w, !.dupacks = 0, !.in_fast_recovery = FALSE]
    <2>1. a > s.last_acked /\ S!SendPackets(f, t, << >>)
      BY <1>8 DEF S!RecoveryEnds
    <2>2. w \in Nat
      <3>1. n \in Source /\ n.highest_sent >= a /\ a \in Nat
        BY <1>1, <1>3, <2>1
      <3> HIDE DEF n, s
      <3>2. n.ssthresh \in Nat /\ n.highest_sent \in Nat
        BY <3>1 DEF Source
      <3>3. QED BY <3>1, <3>2, <1>1 DEF S!Lesser
    <2>3. t \in Source /\ t.last_acked = a /\ t.highest_sent = n.highest_sent
      <3> HIDE DEF n, w
      <3>1. QED BY <1>3, <2>1, <2>2 DEF Source
    <2> HIDE DEF t, n
    <2>4. Proceeds(f, t.last_acked)
      BY <1>2, <1>3, <2>1, <2>3, SendingProceeds
    <2>5. QED BY <2>3, <2>4
  <1>9. CASE S!PartialAck(f, a)
    <2> DEFINE w == S!PartialWindow(n.cwnd, a - s.last_acked)
               t == [n EXCEPT !.cwnd = w, !.armed = TRUE]
    <2>1. a > s.last_acked /\ S!SendPackets(f, t, <<S!Again(n)>>)
      BY <1>9 DEF S!PartialAck
    <2>2. w \in Nat
      <3>1. n.cwnd \in Nat /\ a - s.last_acked \in Nat
        <4>1. n \in Source /\ s \in Source /\ a \in Nat /\ a > s.last_acked
          BY <1>1, <1>3, <2>1
        <4> HIDE DEF n, s
        <4>2. n.cwnd \in Nat /\ s.last_acked \in Nat
          BY <4>1 DEF Source
        <4>3. QED BY <4>1, <4>2
      <3> HIDE DEF n, s
      <3>2. QED BY <3>1, <1>1 DEF S!PartialWindow
    <2>3. t \in Source /\ t.last_acked = a /\ t.highest_sent = n.highest_sent
      <3> HIDE DEF n, w
      <3>1. QED BY <1>3, <2>1, <2>2 DEF Source
    <2> HIDE DEF t, n
    <2>4. <<S!Again(n)>> \in Seq(Proper)
      BY <1>3, <2>1, AgainIsProper
    <2>5. Proceeds(f, t.last_acked)
      BY <1>3, <2>1, <2>3, <2>4, SendingProceeds
    <2>6. QED BY <2>3, <2>5
  <1>10. CASE S!DuplicateInRecovery(f, a)
    <2> DEFINE w == S!Lesser(s.cwnd + MSS, MaxCwnd)
               t == [s EXCEPT !.established = s.established \/ a = 1, !.cwnd = w]
    <2>1. a = s.last_acked /\ S!SendPackets(f, t, << >>)
      BY <1>10 DEF S!DuplicateInRecovery, S!Repeated
    <2>2. w \in Nat
      BY <1>1 DEF S!Lesser, Source
    <2>3. t = [s EXCEPT !.established = TRUE, !.cwnd = w]
      BY <1>4, <2>1
    <2>4. t \in Source /\ t.last_acked = s.last_acked /\ t.highest_sent = s.highest_sent
      <3> HIDE DEF s, w, t
      <3>1. QED BY <1>1, <2>2, <2>3 DEF Source
    <2> HIDE DEF t
    <2>5. Proceeds(f, t.last_acked)
      BY <1>2, <1>4, <1>5, <2>1, <2>4, SendingProceeds
    <2>6. QED BY <2>4, <2>5
  <1>11. CASE S!DuplicateAck(f, a)
    <2> DEFINE t == [s EXCEPT !.established = s.established \/ a = 1, !.dupacks = s.dupacks + 1]
    <2>1. a = s.last_acked /\ S!SendPackets(f, t, << >>)
      BY <1>11 DEF S!DuplicateAck, S!Repeated
    <2>2. s.dupacks + 1 \in Nat
      BY <1>1 DEF Source
    <2>3. t = [s EXCEPT !.established = TRUE, !.dupacks = s.dupacks + 1]
      BY <1>4, <2>1
    <2>4. t \in Source /\ t.last_acked = s.last_acked /\ t.highest_sent = s.highest_sent
      <3> HIDE DEF s, t
      <3>1. QED BY <1>1, <2>2, <2>3 DEF Source
    <2> HIDE DEF t
    <2>5. Proceeds(f, t.last_acked)
      BY <1>2, <1>4, <1>5, <2>1, <2>4, SendingProceeds
    <2>6. QED BY <2>4, <2>5
  <1>12. CASE S!ThirdDuplicate(f, a)
    <2> DEFINE t == [s EXCEPT !.established = s.established \/ a = 1, !.dupacks = s.dupacks + 1]
    <2>1. a = s.last_acked
      BY <1>12 DEF S!ThirdDuplicate, S!Repeated
    <2>2. s.dupacks + 1 \in Nat
      BY <1>1 DEF Source
    <2>3. t = [s EXCEPT !.established = TRUE, !.dupacks = s.dupacks + 1]
      BY <1>4, <2>1
    <2>4. t \in Source /\ t.last_acked = s.last_acked /\ t.highest_sent = s.highest_sent
          /\ t.established
      <3> HIDE DEF s, t
      <3>1. QED BY <1>1, <2>2, <2>3 DEF Source
    <2>5. CASE t.last_acked < t.recoverq
      <3>1. src' = [src EXCEPT ![f] = t] /\ data' = data
        BY <1>12, <2>5 DEF S!ThirdDuplicate
      <3> HIDE DEF t
      <3>2. QED BY <1>4, <1>5, <2>1, <2>4, <3>1 DEF Proceeds, Typed
    <2>6. CASE ~ (t.last_acked < t.recoverq)
      <3> DEFINE half == S!Threshold(t.cwnd)
                 on == t.armed \/ t.established
                 u == [t EXCEPT !.ssthresh = half, !.cwnd = half + 3 * MSS,
                                !.in_fast_recovery = TRUE, !.recoverq = t.highest_sent,
                                !.armed = on]
      <3>1. src' = [src EXCEPT ![f] = u]
            /\ data' = [data EXCEPT ![f] = Append(data[f], S!Again(t))]
        BY <1>12, <2>6 DEF S!ThirdDuplicate
      <3>2. u.last_acked = s.last_acked /\ u.highest_sent = s.highest_sent
        <4> HIDE DEF half, on, t, s
        <4>1. QED BY <2>4 DEF Source
      <3> HIDE DEF u, t
      <3>3. S!Again(t) \in Proper
        BY <1>4, <1>5, <2>1, <2>4, AgainIsProper
      <3>4. Append(data[f], S!Again(t)) \in Seq(Proper)
        BY <3>3
      <3>5. src'[f] = u /\ data'[f] = Append(data[f], S!Again(t))
            /\ \A g \in Flow \ {f} : src'[g] = src[g] /\ data'[g] = data[g]
        BY <3>1 DEF Typed
      <3>6. QED BY <1>4, <1>5, <2>1, <3>2, <3>4, <3>5 DEF Proceeds
    <2>7. QED BY <2>5, <2>6
  <1>13. QED
    BY <1>6, <1>7, <1>8, <1>9, <1>10, <1>11, <1>12 DEF S!ReceiveAck
------------------------------------------------------------------------------
\* The actions, each of one flow.

LEMMA OneFlowHonest ==
  ASSUME HonestInv, NEW f \in Flow, arrived' \in [Flow -> SUBSET Sendable],
         Honest(src'[f], data'[f], acks'[f], sink'[f], arrived'[f]),
         \A g \in Flow \ {f} : /\ src'[g] = src[g] /\ data'[g] = data[g]
                               /\ acks'[g] = acks[g] /\ sink'[g] = sink[g]
                               /\ arrived'[g] = arrived[g]
  PROVE  HonestInv'
  <1>1. ASSUME NEW g \in Flow
        PROVE  Honest(src'[g], data'[g], acks'[g], sink'[g], arrived'[g])
    <2>1. CASE g = f
      BY <2>1
    <2>2. CASE g # f
      <3>1. /\ src'[g] = src[g] /\ data'[g] = data[g] /\ acks'[g] = acks[g]
            /\ sink'[g] = sink[g] /\ arrived'[g] = arrived[g]
        BY <2>2
      <3>2. Honest(src[g], data[g], acks[g], sink[g], arrived[g])
        BY DEF HonestInv
      <3>3. QED BY <3>1, <3>2
    <2>3. QED BY <2>1, <2>2
  <1>2. QED BY <1>1 DEF HonestInv

LEMMA MoreToTell ==
  ASSUME NEW c \in Ends, NEW d \in Ends, d >= c
  PROVE  Told(c) \subseteq Told(d) /\ d \in Told(d)
  <1>1. c \in Nat /\ d \in Nat
    BY EndsAreNumbers
  <1>2. ASSUME NEW e \in Ends, e =< c
        PROVE  e =< d
    <2>1. e \in Nat
      BY EndsAreNumbers
    <2>2. QED BY <1>1, <1>2, <2>1
  <1>3. d =< d
    BY <1>1
  <1>4. QED BY <1>2, <1>3 DEF Told

LEMMA DeliverDataKeepsHonest ==
  ASSUME Inv, HonestInv, NEW f \in Flow, DeliverData(f)
  PROVE  HonestInv'
  <1> DEFINE x == Head(data[f])
             k == sink[f]
             r == arrived[f] \cup {x}
             t == After(k, x)
             A == Seqnos(r)
  <1>1. Typed /\ FlowInv(src[f], data[f], acks[f], k)
        /\ Honest(src[f], data[f], acks[f], k, arrived[f])
    BY DEF Inv, HonestInv
  <1>2. x \in Proper /\ Tail(data[f]) \in Seq(Proper)
    BY <1>1 DEF DeliverData, Honest
  <1>3. x \in Sendable /\ r \in SUBSET Sendable
    <2>1. x \in Sendable
      BY <1>2 DEF Proper
    <2>2. QED BY <2>1 DEF HonestInv
  <1>4. A \in SUBSET Nat /\ Seqnos(arrived[f]) \subseteq A /\ x.seqno \in A
    BY <1>3 DEF Seqnos, Sendable
  <1>5. k \in Kept /\ src[f] \in Source
    BY <1>1 DEF Typed
  <1>6. Begins(k, x)
    <2> SUFFICES ASSUME k.cumulative_ack = 0
                 PROVE  x.seqno = 1 /\ k.received = << >>
      BY DEF Begins
    <2>1. ~src[f].established
      <3>1. src[f].last_acked =< k.cumulative_ack /\ src[f].last_acked \in Nat
        BY <1>1, <1>5 DEF Honest, Source
      <3> HIDE DEF k
      <3>2. QED BY <1>1, <3>1 DEF Honest
    <2>2. data[f] \in Seq({S!Syn}) /\ k.received = << >>
      BY <1>1, <2>1 DEF FlowInv, Greeting
    <2>3. x = S!Syn
      BY <2>2 DEF DeliverData
    <2>4. QED BY <2>2, <2>3 DEF S!Syn
  <1>7. k.received \in Seq(Later \cap A)
    <2>1. k.received \in Seq(Later \cap Seqnos(arrived[f]))
      BY <1>1 DEF Honest
    <2>2. Later \cap Seqnos(arrived[f]) \subseteq Later \cap A
      BY <1>4
    <2> HIDE DEF k, A
    <2>3. QED BY <2>1, <2>2, SeqMonotonic
  <1>8. k.cumulative_ack \in Ends /\ Has(k, A)
    BY <1>1, <1>4, <1>7 DEF Honest, Has
  <1>9. Has(t, A) /\ t.cumulative_ack \in Ends /\ t.cumulative_ack >= k.cumulative_ack
    <2>1. Has(After(k, x), A) /\ After(k, x).cumulative_ack >= k.cumulative_ack
      <3> HIDE DEF k, x, A, r
      <3>1. QED BY <1>2, <1>4, <1>5, <1>6, <1>8, TakenHasArrived
    <2>2. QED BY <2>1 DEF Has
  <1>10. /\ src' = src
         /\ data' = [data EXCEPT ![f] = Tail(data[f])]
         /\ arrived' = [arrived EXCEPT ![f] = r]
         /\ sink' = [sink EXCEPT ![f] = t]
         /\ acks' = [acks EXCEPT ![f] = Append(acks[f], sink'[f].cumulative_ack)]
    BY DEF DeliverData, svars, K!ReceivePacket, After
  <1>11. arrived \in [Flow -> SUBSET Sendable] /\ arrived' \in [Flow -> SUBSET Sendable]
    <2> HIDE DEF r
    <2>1. QED BY <1>3, <1>10 DEF HonestInv
  <1>12. /\ src'[f] = src[f] /\ data'[f] = Tail(data[f]) /\ arrived'[f] = r
         /\ sink'[f] = t /\ acks'[f] = Append(acks[f], t.cumulative_ack)
         /\ \A g \in Flow \ {f} : /\ src'[g] = src[g] /\ data'[g] = data[g]
                                  /\ acks'[g] = acks[g] /\ sink'[g] = sink[g]
                                  /\ arrived'[g] = arrived[g]
    <2> HIDE DEF r, t, k
    <2>1. QED BY <1>1, <1>10, <1>11 DEF Typed
  <1>13. Append(acks[f], t.cumulative_ack) \in Seq(Told(t.cumulative_ack))
    <2> HIDE DEF t, k
    <2>1. t.cumulative_ack \in Nat /\ k.cumulative_ack \in Nat
      BY <1>8, <1>9, EndsAreNumbers
    <2>2. Told(k.cumulative_ack) \subseteq Told(t.cumulative_ack)
          /\ t.cumulative_ack \in Told(t.cumulative_ack)
      BY <1>8, <1>9, MoreToTell
    <2>3. acks[f] \in Seq(Told(k.cumulative_ack))
      BY <1>1 DEF Honest
    <2>4. acks[f] \in Seq(Told(t.cumulative_ack))
      BY <2>2, <2>3, SeqMonotonic
    <2>5. QED BY <2>2, <2>4
  <1>14. Honest(src[f], Tail(data[f]), Append(acks[f], t.cumulative_ack), t, r)
    <2> HIDE DEF t, k, x
    <2>1. src[f].last_acked =< t.cumulative_ack
      <3>1. /\ src[f].last_acked \in Nat /\ k.cumulative_ack \in Nat
            /\ t.cumulative_ack \in Nat
        BY <1>5, <1>8, <1>9, EndsAreNumbers DEF Source
      <3>2. QED BY <1>1, <1>9, <3>1 DEF Honest
    <2>2. QED BY <1>1, <1>2, <1>9, <1>13, <2>1 DEF Honest, Has
  <1> HIDE DEF t, k, x, r
  <1>15. QED BY <1>11, <1>12, <1>14, OneFlowHonest

LEMMA DeliverAckKeepsHonest ==
  ASSUME Inv, HonestInv, NEW f \in Flow, DeliverAck(f)
  PROVE  HonestInv'
  <1> DEFINE a == Head(acks[f])
             c == sink[f].cumulative_ack
  <1>1. Typed /\ FlowInv(src[f], data[f], acks[f], sink[f])
        /\ Honest(src[f], data[f], acks[f], sink[f], arrived[f])
    BY DEF Inv, HonestInv
  <1>2. acks[f] \in Seq(Told(c)) /\ acks[f] # << >>
    BY <1>1 DEF Honest, DeliverAck
  <1> DEFINE T == Told(c)
  <1>3. a \in T /\ Tail(acks[f]) \in Seq(T)
    <2> HIDE DEF T
    <2>1. acks[f] \in Seq(T)
      BY <1>2 DEF T
    <2>2. QED BY <1>2, <2>1
  <1>4. a \in Ends /\ a =< c
    BY <1>3 DEF Told
  <1>5. ~src[f].established => a = 1 /\ src[f].last_acked = 0 /\ ~src[f].in_fast_recovery
    <2> SUFFICES ASSUME ~src[f].established
                 PROVE  a = 1 /\ src[f].last_acked = 0 /\ ~src[f].in_fast_recovery
      OBVIOUS
    <2>1. Greeting(src[f], data[f], acks[f], sink[f])
      BY <1>1 DEF FlowInv
    <2>2. QED BY <1>2, <2>1 DEF Greeting
  <1>6. S!ReceiveAck(f, a)
    BY DEF DeliverAck
  <1> HIDE DEF a, c
  <1>7. PICK l \in {src[f].last_acked, a} : Proceeds(f, l)
    <2>1. \A g \in Flow : Guarded(src[g])
      BY DEF Inv, FlowInv
    <2>2. QED BY <1>1, <1>4, <1>5, <1>6, <2>1, ReceiveAckProceeds DEF Honest
  <1>8. l \in Ends /\ l =< c
    BY <1>1, <1>4, <1>7 DEF Honest, c
  <1>9. /\ sink' = sink /\ arrived' = arrived
        /\ acks' = [acks EXCEPT ![f] = Tail(acks[f])]
    BY DEF DeliverAck, kvars
  <1>10. acks'[f] = Tail(acks[f]) /\ \A g \in Flow \ {f} : acks'[g] = acks[g]
    BY <1>1, <1>9 DEF Typed
  <1>11. Honest(src'[f], data'[f], acks'[f], sink'[f], arrived'[f])
    BY <1>1, <1>3, <1>7, <1>8, <1>9, <1>10 DEF Honest, Proceeds, c
  <1>12. arrived' \in [Flow -> SUBSET Sendable]
    BY <1>9 DEF HonestInv
  <1>13. QED BY <1>7, <1>9, <1>10, <1>11, <1>12, OneFlowHonest DEF Proceeds

LEMMA NetworkKeepsHonest ==
  ASSUME Inv, HonestInv, NEW f \in Flow,
         LoseData(f) \/ LoseAck(f) \/ SegmentOvertakes(f) \/ AckOvertakes(f)
  PROVE  HonestInv'
  <1>1. Typed /\ Honest(src[f], data[f], acks[f], sink[f], arrived[f])
    BY DEF Inv, HonestInv
  <1>2. src' = src /\ sink' = sink /\ arrived' = arrived
    BY DEF LoseData, LoseAck, SegmentOvertakes, AckOvertakes, svars, kvars
  <1>3. arrived' \in [Flow -> SUBSET Sendable]
    BY <1>2 DEF HonestInv
  <1>4. CASE LoseData(f) \/ SegmentOvertakes(f)
    <2>1. PICK i \in DOMAIN data[f] :
            data' = [data EXCEPT ![f] = RemoveAt(data[f], i)]
              \/ data' = [data EXCEPT ![f] = <<data[f][i]>> \o RemoveAt(data[f], i)]
      <3>1. CASE LoseData(f)
        BY <3>1 DEF LoseData
      <3>2. CASE SegmentOvertakes(f)
        <4>1. PICK i \in 2 .. Len(data[f]) :
                data' = [data EXCEPT ![f] = <<data[f][i]>> \o RemoveAt(data[f], i)]
          BY <3>2 DEF SegmentOvertakes
        <4>2. i \in DOMAIN data[f]
          BY <1>1 DEF Typed
        <4>3. QED BY <4>1, <4>2
      <3>3. QED BY <1>4, <3>1, <3>2
    <2>2. data[f] \in Seq(Proper)
      BY <1>1 DEF Honest
    <2>3. RemoveAt(data[f], i) \in Seq(Proper)
          /\ <<data[f][i]>> \o RemoveAt(data[f], i) \in Seq(Proper)
      BY <2>2, Lost, Overtaken
    <2>4. data'[f] \in Seq(Proper) /\ \A g \in Flow \ {f} : data'[g] = data[g]
      BY <1>1, <2>1, <2>3 DEF Typed
    <2>5. acks' = acks
      BY <1>4 DEF LoseData, SegmentOvertakes, svars, kvars
    <2>6. Honest(src'[f], data'[f], acks'[f], sink'[f], arrived'[f])
      BY <1>1, <1>2, <2>4, <2>5 DEF Honest
    <2>7. QED BY <1>2, <1>3, <2>4, <2>5, <2>6, OneFlowHonest
  <1>5. CASE LoseAck(f) \/ AckOvertakes(f)
    <2> DEFINE T == Told(sink[f].cumulative_ack)
    <2>1. PICK i \in DOMAIN acks[f] :
            acks' = [acks EXCEPT ![f] = RemoveAt(acks[f], i)]
              \/ acks' = [acks EXCEPT ![f] = <<acks[f][i]>> \o RemoveAt(acks[f], i)]
      <3>1. CASE LoseAck(f)
        BY <3>1 DEF LoseAck
      <3>2. CASE AckOvertakes(f)
        <4>1. PICK i \in 2 .. Len(acks[f]) :
                acks' = [acks EXCEPT ![f] = <<acks[f][i]>> \o RemoveAt(acks[f], i)]
          BY <3>2 DEF AckOvertakes
        <4>2. i \in DOMAIN acks[f]
          BY <1>1 DEF Typed
        <4>3. QED BY <4>1, <4>2
      <3>3. QED BY <1>5, <3>1, <3>2
    <2>2. acks[f] \in Seq(T)
      BY <1>1 DEF Honest
    <2> HIDE DEF T
    <2>3. RemoveAt(acks[f], i) \in Seq(T)
          /\ <<acks[f][i]>> \o RemoveAt(acks[f], i) \in Seq(T)
      BY <2>2, Lost, Overtaken
    <2>4. acks'[f] \in Seq(T) /\ \A g \in Flow \ {f} : acks'[g] = acks[g]
      BY <1>1, <2>1, <2>3 DEF Typed
    <2>5. data' = data
      BY <1>5 DEF LoseAck, AckOvertakes, svars, kvars
    <2>6. Honest(src'[f], data'[f], acks'[f], sink'[f], arrived'[f])
      BY <1>1, <1>2, <2>4, <2>5 DEF Honest, T
    <2>7. QED BY <1>2, <1>3, <2>4, <2>5, <2>6, OneFlowHonest
  <1>6. QED BY <1>4, <1>5

\* The source's timer and its own events.
LEMMA SourceKeepsHonest ==
  ASSUME Inv, HonestInv, NEW f \in Flow,
         S!RtxTimerHook(f) \/ S!StartFlow(f) \/ S!Timeout(f),
         UNCHANGED <<kvars, acks, arrived>>
  PROVE  HonestInv'
  <1> DEFINE s == src[f]
  <1>1. Typed /\ FlowInv(s, data[f], acks[f], sink[f])
        /\ Honest(s, data[f], acks[f], sink[f], arrived[f])
    BY DEF Inv, HonestInv
  <1>2. s \in Source /\ s.highest_sent \in Ends /\ s.last_acked \in Ends
        /\ (s.established => s.last_acked # 0) /\ data[f] \in Seq(Proper)
    BY <1>1 DEF Typed, Honest
  <1>3. sink' = sink /\ acks' = acks /\ arrived' = arrived
    BY DEF kvars
  <1>4. Proceeds(f, s.last_acked)
    <2>1. CASE S!RtxTimerHook(f)
      <3> DEFINE t == [s EXCEPT !.rtx_timeout_pending = TRUE, !.scheduled = TRUE]
      <3>1. src' = [src EXCEPT ![f].rtx_timeout_pending = TRUE, ![f].scheduled = TRUE]
            /\ data' = data
        BY <2>1 DEF S!RtxTimerHook
      <3>2. src' = [src EXCEPT ![f] = t]
        BY <1>1, <1>2, <3>1 DEF Typed, Source
      <3>3. /\ t.highest_sent = s.highest_sent /\ t.last_acked = s.last_acked
            /\ t.established = s.established
        BY <1>2 DEF Source
      <3> HIDE DEF t
      <3>4. src'[f] = t /\ \A g \in Flow \ {f} : src'[g] = src[g]
        BY <1>1, <3>2 DEF Typed
      <3> HIDE DEF s
      <3>5. QED BY <1>2, <3>1, <3>3, <3>4 DEF Proceeds
    <2>2. CASE S!StartFlow(f)
      <3> DEFINE t == [s EXCEPT !.scheduled = FALSE, !.established = FALSE]
      <3>1. S!SendPackets(f, t, << >>) /\ << >> \in Seq(Proper)
        BY <2>2 DEF S!StartFlow
      <3>2. /\ t \in Source /\ t.highest_sent = s.highest_sent
            /\ t.last_acked = s.last_acked /\ ~t.established
        BY <1>2 DEF Source
      <3> HIDE DEF t
      <3>3. Proceeds(f, t.last_acked)
        BY <1>1, <1>2, <3>1, <3>2, SendingProceeds
      <3>4. QED BY <3>2, <3>3
    <2>3. CASE S!Timeout(f)
      <3> DEFINE window == IF s.in_fast_recovery
                           THEN S!Lesser(s.ssthresh, s.highest_sent - s.last_acked + MSS)
                           ELSE s.cwnd
                 half == S!Threshold(window)
                 on == s.armed \/ s.established
                 u == [s EXCEPT !.scheduled = FALSE, !.rtx_timeout_pending = FALSE,
                                !.ssthresh = half, !.cwnd = MSS,
                                !.in_fast_recovery = FALSE, !.recoverq = s.highest_sent,
                                !.dupacks = 0, !.highest_sent = S!Rewound(s), !.armed = on]
      <3>1. /\ src' = [src EXCEPT ![f] = u]
            /\ data' = [data EXCEPT ![f] = Append(data[f], S!Again(s))]
        BY <2>3 DEF S!Timeout
      <3>2. S!Rewound(s) \in Ends
        <4>1. CASE s.established
          <5>1. s.last_acked + 1 * MSS \in Ends
            BY <1>2, <4>1, NextAfterEnd
          <5>2. s.last_acked + 1 * MSS = s.last_acked + MSS
            BY SegmentSize
          <5>3. QED BY <4>1, <5>1, <5>2 DEF S!Rewound
        <4>2. CASE ~s.established
          BY <1>2, <4>2 DEF S!Rewound
        <4>3. QED BY <4>1, <4>2
      <3>3. /\ u.highest_sent = S!Rewound(s) /\ u.last_acked = s.last_acked
            /\ u.established = s.established
        <4> HIDE DEF half, on, s
        <4>1. QED BY <1>2 DEF Source
      <3>4. Append(data[f], S!Again(s)) \in Seq(Proper)
        <4>1. S!Again(s) \in Proper
          BY <1>2, AgainIsProper
        <4> HIDE DEF s
        <4>2. QED BY <1>2, <4>1
      <3> HIDE DEF u
      <3>5. src'[f] = u /\ data'[f] = Append(data[f], S!Again(s))
            /\ \A g \in Flow \ {f} : src'[g] = src[g] /\ data'[g] = data[g]
        BY <1>1, <3>1 DEF Typed
      <3> HIDE DEF s
      <3>6. QED BY <1>2, <3>2, <3>3, <3>4, <3>5 DEF Proceeds
    <2>4. QED BY <2>1, <2>2, <2>3
  <1>5. Honest(src'[f], data'[f], acks'[f], sink'[f], arrived'[f])
    BY <1>1, <1>3, <1>4 DEF Honest, Proceeds
  <1>6. arrived' \in [Flow -> SUBSET Sendable]
    BY <1>3 DEF HonestInv
  <1>7. QED BY <1>3, <1>4, <1>5, <1>6, OneFlowHonest DEF Proceeds

\* The connection's event.
LEMMA PollKeepsHonest ==
  ASSUME Inv, HonestInv, ConnectionEvent
  PROVE  HonestInv'
  <1>1. Typed
    BY DEF Inv
  <1>2. /\ src' = [f \in Flow |-> S!Sent(src[f], S!Polled(f))]
        /\ data' = [f \in Flow |-> data[f] \o S!Polled(f)]
    BY DEF ConnectionEvent, S!Poll
  <1>3. acks' = acks /\ sink' = sink /\ arrived' = arrived
    BY DEF ConnectionEvent, kvars
  <1>4. ASSUME NEW f \in Flow
        PROVE  Honest(src'[f], data'[f], acks'[f], sink'[f], arrived'[f])
    <2> DEFINE s == src[f]
               segments == S!Polled(f)
    <2>1. s \in Source /\ Honest(s, data[f], acks[f], sink[f], arrived[f])
      BY <1>1 DEF Typed, HonestInv
    <2>2. s.highest_sent \in Ends /\ s.highest_sent # 0
      BY <2>1 DEF ConnectionEvent, Honest
    <2>3. /\ segments \in Seq(Proper)
          /\ S!Sent(s, segments).highest_sent \in Ends
          /\ S!Sent(s, segments).last_acked = s.last_acked
          /\ S!Sent(s, segments).established = s.established
      <3>1. CASE s.established
        <4> DEFINE n == S!Numbered(f) - S!Numbered(f - 1)
                   k == S!Numbered(f - 1)
        <4>1. f - 1 \in Nat /\ f \in Nat /\ f - 1 =< f /\ f =< Cardinality(Flow)
          BY FlowNumbers
        <4>2. n \in Nat /\ k \in Nat
          BY <1>1, <4>1, NumbersGrow
        <4>3. segments = S!NextSegments(s, n, k)
          BY <3>1 DEF S!Polled
        <4>4. s \in Source /\ s.established /\ s.highest_sent \in Ends /\ s.highest_sent # 0
          BY <2>1, <2>2, <3>1
        <4> HIDE DEF n, k, s, segments
        <4>5. QED BY ONLY Typed, <4>2, <4>3, <4>4, NewSegmentsProper
      <3>2. CASE ~s.established
        <4>1. segments = <<S!Syn>>
          BY <3>2 DEF S!Polled
        <4> HIDE DEF segments, s
        <4>2. QED BY <2>1, <3>2, <4>1, SynIsProper
      <3>3. QED BY <3>1, <3>2
    <2>4. src'[f] = S!Sent(s, segments) /\ data'[f] = data[f] \o segments
      BY <1>2
    <2> HIDE DEF s, segments
    <2>5. data[f] \o segments \in Seq(Proper)
      BY <2>1, <2>3 DEF Honest
    <2>6. QED BY <1>3, <2>1, <2>3, <2>4, <2>5 DEF Honest
  <1>5. arrived' \in [Flow -> SUBSET Sendable]
    BY <1>3 DEF HonestInv
  <1>6. QED BY <1>4, <1>5 DEF HonestInv
------------------------------------------------------------------------------
LEMMA HonestInit == Init => HonestInv
  <1> SUFFICES ASSUME Init
               PROVE  HonestInv
    OBVIOUS
  <1>1. ASSUME NEW f \in Flow
        PROVE  Honest(src[f], data[f], acks[f], sink[f], arrived[f])
    <2>1. /\ src[f] = S!Fresh /\ data[f] = << >> /\ acks[f] = << >>
          /\ sink[f] = K!Nothing /\ arrived[f] = {}
      BY DEF Init, S!Init, K!Init
    <2>2. 0 \in Ends /\ Upto(0) = {} /\ 0 =< 0
      BY DEF Ends, Upto
    <2>3. QED BY <2>1, <2>2 DEF Honest, S!Fresh, K!Nothing
  <1>2. arrived \in [Flow -> SUBSET Sendable]
    BY DEF Init
  <1>3. QED BY <1>1, <1>2 DEF HonestInv

LEMMA StepKeepsHonest ==
  ASSUME Inv, HonestInv, [Next]_vars
  PROVE  HonestInv'
  <1>1. CASE UNCHANGED vars
    BY <1>1 DEF HonestInv, vars, svars, kvars
  <1>2. CASE Next
    <2>1. CASE ConnectionEvent
      BY <2>1, PollKeepsHonest
    <2> SUFFICES ASSUME NEW f \in Flow,
                        \/ DeliverData(f) \/ DeliverAck(f) \/ LoseData(f) \/ LoseAck(f)
                        \/ SegmentOvertakes(f) \/ AckOvertakes(f) \/ TimerExpires(f)
                        \/ SourceEvent(f)
                 PROVE  HonestInv'
      BY <1>2, <2>1 DEF Next
    <2>2. CASE DeliverData(f)
      BY <2>2, DeliverDataKeepsHonest
    <2>3. CASE DeliverAck(f)
      BY <2>3, DeliverAckKeepsHonest
    <2>4. CASE LoseData(f) \/ LoseAck(f) \/ SegmentOvertakes(f) \/ AckOvertakes(f)
      BY <2>4, NetworkKeepsHonest
    <2>5. CASE TimerExpires(f) \/ SourceEvent(f)
      <3>1. S!RtxTimerHook(f) \/ S!StartFlow(f) \/ S!Timeout(f)
        BY <2>5 DEF TimerExpires, SourceEvent
      <3>2. UNCHANGED <<kvars, acks, arrived>>
        BY <2>5 DEF TimerExpires, SourceEvent
      <3>3. QED BY <3>1, <3>2, SourceKeepsHonest
    <2>6. QED BY <2>2, <2>3, <2>4, <2>5
  <1>3. QED BY <1>1, <1>2

\* Whatever is lost, overtaken or sent too early, a sink acknowledges only what
\* has arrived, and the source believes no more than it has said
\* (tcp.py:258-354, 813-849).
THEOREM SinkIsHonest == Spec => []AckedArrived
  <1>1. Init => HonestInv
    BY HonestInit
  <1>2. Inv /\ HonestInv /\ [Next]_vars => HonestInv'
    BY StepKeepsHonest
  <1>3. Inv /\ HonestInv => AckedArrived
    <2> SUFFICES ASSUME HonestInv, NEW f \in Flow
                 PROVE  /\ Upto(sink[f].cumulative_ack) \subseteq Seqnos(arrived[f])
                        /\ \A i \in DOMAIN acks[f] : acks[f][i] =< sink[f].cumulative_ack
                        /\ src[f].last_acked =< sink[f].cumulative_ack
      BY DEF AckedArrived, Seqnos
    <2> DEFINE c == sink[f].cumulative_ack
               T == Told(c)
    <2>1. Honest(src[f], data[f], acks[f], sink[f], arrived[f])
      BY DEF HonestInv
    <2>2. acks[f] \in Seq(T)
      BY <2>1 DEF Honest
    <2>3. ASSUME NEW i \in DOMAIN acks[f]
          PROVE  acks[f][i] =< c
      <3> HIDE DEF T
      <3>1. acks[f][i] \in T
        BY <2>2
      <3>2. QED BY <3>1 DEF T, Told
    <2>4. QED BY <2>1, <2>3 DEF Honest
  <1>4. QED BY SourcesInOrder, <1>1, <1>2, <1>3, PTL DEF Spec
------------------------------------------------------------------------------
\* No data number goes to two segments, and none is gone but by a loss.

AllCarried == UNION {Carried(f) : f \in Flow}
Tokens == {x[3] : x \in AllCarried}
Missing == GivenNumbers \ Tokens
Unique == \A x, y \in AllCarried : x[3] = y[3] => x = y
Arrivals == arrived \in [Flow -> SUBSET Sendable]

\* The counter has advanced by c steps, to which belong the numbers of Upwards(c).
Stepped(c) == conn.highest_sent = c * DataUnit
Upwards(c) == {1 + k * DataUnit : k \in 0 .. c - 1}

OnceInv ==
  /\ Unique /\ Tokens \subseteq GivenNumbers /\ Cardinality(Missing) =< mishaps
  /\ Arrivals /\ mishaps \in Nat
  /\ \E c \in Nat : Stepped(c)

LEMMA OnceInvMeansOnce == OnceInv => DataOnce
  BY DEF OnceInv, DataOnce, Unique, Tokens, Missing, AllCarried

LEMMA Unit == DataUnit \in Nat /\ DataUnit > 0
  BY TcpSrcAssumption

LEMMA GivenUpwards ==
  ASSUME NEW c \in Nat
  PROVE  /\ {1 + k * DataUnit : k \in 0 .. ((c * DataUnit) \div DataUnit) - 1} = Upwards(c)
         /\ IsFiniteSet(Upwards(c))
         /\ \A n \in Upwards(c) : n \in Nat /\ n > 0 /\ n + DataUnit =< 1 + c * DataUnit
  <1>1. {1 + k * DataUnit : k \in 0 .. ((c * DataUnit) \div DataUnit) - 1} = Upwards(c)
    BY Unit, QuotientOf DEF Upwards
  <1>2. c * DataUnit \in Nat
    BY Unit, FactorsOf
  <1>3. ASSUME NEW n \in Upwards(c)
        PROVE  n \in Nat /\ n > 0 /\ n + DataUnit =< 1 + c * DataUnit
    <2>1. PICK k \in 0 .. c - 1 : n = 1 + k * DataUnit
      BY DEF Upwards
    <2>2. k \in Nat /\ k + 1 \in Nat /\ (k + 1 < c \/ k + 1 = c)
      OBVIOUS
    <2>3. k * DataUnit \in Nat /\ (k + 1) * DataUnit = k * DataUnit + DataUnit
      BY <2>2, Unit, FactorsOf
    <2>4. (k + 1) * DataUnit =< c * DataUnit
      <3>1. CASE k + 1 < c
        <4>1. (k + 1) * DataUnit < c * DataUnit /\ (k + 1) * DataUnit \in Nat
          BY <2>2, <3>1, Unit, FactorsOf
        <4>2. QED BY <1>2, <4>1
      <3>2. CASE k + 1 = c
        BY <1>2, <3>2
      <3>3. QED BY <2>2, <3>1, <3>2
    <2>5. QED BY <1>2, <2>1, <2>3, <2>4, Unit
  <1>4. IsFiniteSet(Upwards(c))
    <2>1. Upwards(c) \in SUBSET (1 .. c * DataUnit)
      BY <1>2, <1>3, Unit
    <2>2. IsFiniteSet(1 .. c * DataUnit)
      BY <1>2, FS_Interval
    <2>3. QED BY <2>1, <2>2, FS_Subset
  <1>5. QED BY <1>1, <1>3, <1>4

\* The numbers given, before and after a step.
LEMMA GivenAt ==
  ASSUME NEW c \in Nat, Stepped(c)
  PROVE  GivenNumbers = Upwards(c)
  BY GivenUpwards DEF Stepped, GivenNumbers

LEMMA GivenAfter ==
  ASSUME NEW c \in Nat, Stepped(c)'
  PROVE  GivenNumbers' = Upwards(c)
  BY GivenUpwards DEF Stepped, GivenNumbers

\* How many are missing.
LEMMA NoMore ==
  ASSUME NEW T, IsFiniteSet(T), NEW Less \in SUBSET T, NEW m \in Nat, Cardinality(T) =< m
  PROVE  Cardinality(Less) =< m
  <1>1. IsFiniteSet(Less) /\ Cardinality(Less) =< Cardinality(T)
    BY FS_Subset
  <1>2. Cardinality(Less) \in Nat /\ Cardinality(T) \in Nat
    BY <1>1, FS_CardinalityType
  <1>3. QED BY <1>1, <1>2

LEMMA OneMore ==
  ASSUME NEW T, IsFiniteSet(T), NEW n, NEW Less \in SUBSET (T \cup {n}),
         NEW m \in Nat, Cardinality(T) =< m
  PROVE  Cardinality(Less) =< m + 1
  <1>1. IsFiniteSet(T \cup {n}) /\ Cardinality(T \cup {n}) \in {Cardinality(T), Cardinality(T) + 1}
    BY FS_AddElement
  <1>2. Cardinality(T) \in Nat
    BY FS_CardinalityType
  <1>3. Cardinality(T \cup {n}) =< m + 1
    BY <1>1, <1>2
  <1>4. QED BY <1>1, <1>3, NoMore

LEMMA FiniteMissing ==
  ASSUME OnceInv
  PROVE  IsFiniteSet(Missing)
  <1>1. PICK c \in Nat : Stepped(c)
    BY DEF OnceInv
  <1>2. IsFiniteSet(GivenNumbers)
    BY <1>1, GivenAt, GivenUpwards
  <1>3. QED BY <1>2, FS_Subset DEF Missing

\* The segments of a flow that carry a number, under way or arrived.
LEMMA CarriedAre ==
  ASSUME NEW z
  PROVE  z \in AllCarried <=>
           \E f \in Flow : \E x \in ToSet(data[f]) \cup arrived[f] :
             x.data_seqno # 0 /\ z = <<f, x.seqno, x.data_seqno>>
  BY DEF AllCarried, Carried

LEMMA TokensAre ==
  ASSUME NEW n
  PROVE  n \in Tokens <=>
           n # 0 /\ \E f \in Flow : \E x \in ToSet(data[f]) \cup arrived[f] : x.data_seqno = n
  <1>1. ASSUME n \in Tokens
        PROVE  n # 0 /\ \E f \in Flow : \E x \in ToSet(data[f]) \cup arrived[f] : x.data_seqno = n
    <2>1. PICK z \in AllCarried : n = z[3]
      BY <1>1 DEF Tokens
    <2>2. PICK f \in Flow : \E x \in ToSet(data[f]) \cup arrived[f] :
            x.data_seqno # 0 /\ z = <<f, x.seqno, x.data_seqno>>
      BY CarriedAre
    <2>3. QED BY <2>1, <2>2
  <1>2. ASSUME n # 0, NEW f \in Flow, NEW x \in ToSet(data[f]) \cup arrived[f], x.data_seqno = n
        PROVE  n \in Tokens
    <2>1. <<f, x.seqno, x.data_seqno>> \in AllCarried
      BY <1>2, CarriedAre
    <2>2. n = <<f, x.seqno, x.data_seqno>>[3]
      BY <1>2
    <2>3. QED BY <2>1, <2>2 DEF Tokens
  <1>3. QED BY <1>1, <1>2

LEMMA CarriedNumbers ==
  ASSUME Typed, OnceInv, NEW z \in AllCarried
  PROVE  /\ z[3] \in GivenNumbers
         /\ z[3] \in Nat /\ z[3] =< conn.highest_sent
  <1>1. PICK c \in Nat : Stepped(c)
    BY DEF OnceInv
  <1>2. z[3] \in GivenNumbers
    BY DEF OnceInv, Tokens
  <1>3. z[3] \in Upwards(c) /\ conn.highest_sent = c * DataUnit
    BY <1>1, <1>2, GivenAt DEF Stepped
  <1>4. z[3] \in Nat /\ z[3] + DataUnit =< 1 + c * DataUnit
    BY <1>3, GivenUpwards
  <1>5. c * DataUnit \in Nat
    BY Unit, FactorsOf
  <1>6. QED BY <1>2, <1>3, <1>4, <1>5, Unit

\* The numbers of a connection grow with their place.
LEMMA NumbersApart ==
  ASSUME Typed, conn.cc_type # "NONE", NEW m \in Nat, m > 0, NEW k \in Nat
  PROVE  /\ S!DataSeq(conn, m) \in Nat /\ S!DataSeq(conn, m) > conn.highest_sent
         /\ m =< k => S!DataSeq(conn, m) =< S!Given(conn, k).highest_sent
         /\ m < k => S!DataSeq(conn, m) < S!DataSeq(conn, k)
  <1>1. DataUnit \in Nat /\ DataUnit > 0 /\ conn.highest_sent \in Nat
    BY TcpSrcAssumption DEF Typed, Joined
  <1>2. m - 1 \in Nat /\ (m - 1) * DataUnit \in Nat
    BY <1>1
  <1>3. S!DataSeq(conn, m) = conn.highest_sent + 1 + (m - 1) * DataUnit
    BY DEF S!DataSeq
  <1>4. m =< k => S!DataSeq(conn, m) =< S!Given(conn, k).highest_sent
    <2> SUFFICES ASSUME m =< k
                 PROVE  S!DataSeq(conn, m) =< S!Given(conn, k).highest_sent
      OBVIOUS
    <2>1. S!Given(conn, k).highest_sent = conn.highest_sent + k * DataUnit
      BY DEF S!Given, Typed, Joined
    <2>2. k - m \in Nat /\ (k - m) * DataUnit \in Nat
      BY <1>1
    <2>3. k * DataUnit = (m - 1) * DataUnit + DataUnit + (k - m) * DataUnit
      BY <1>1
    <2>4. QED BY <1>1, <1>2, <1>3, <2>1, <2>2, <2>3
  <1>5. m < k => S!DataSeq(conn, m) < S!DataSeq(conn, k)
    <2> SUFFICES ASSUME m < k
                 PROVE  S!DataSeq(conn, m) < S!DataSeq(conn, k)
      OBVIOUS
    <2>1. S!DataSeq(conn, k) = conn.highest_sent + 1 + (k - 1) * DataUnit
      BY DEF S!DataSeq
    <2>2. k - m - 1 \in Nat /\ (k - m - 1) * DataUnit \in Nat
      BY <1>1
    <2>3. (k - 1) * DataUnit = (m - 1) * DataUnit + DataUnit + (k - m - 1) * DataUnit
      BY <1>1
    <2>4. QED BY <1>1, <1>2, <1>3, <2>1, <2>2, <2>3
  <1>6. QED BY <1>1, <1>2, <1>3, <1>4, <1>5

\* What is only delivered or lost stays apart.
LEMMA NothingNew ==
  ASSUME OnceInv, conn' = conn,
         \A f \in Flow : ToSet(data'[f]) \cup arrived'[f] \subseteq ToSet(data[f]) \cup arrived[f]
  PROVE  /\ Unique' /\ Tokens' \subseteq GivenNumbers'
         /\ GivenNumbers' = GivenNumbers
         /\ \E c \in Nat : Stepped(c)'
  <1>1. ASSUME NEW z \in AllCarried'
        PROVE  z \in AllCarried
    <2>0. PICK f \in Flow : \E x \in ToSet(data'[f]) \cup arrived'[f] :
            x.data_seqno # 0 /\ z = <<f, x.seqno, x.data_seqno>>
      BY <1>1 DEF AllCarried, Carried
    <2>1. PICK x \in ToSet(data'[f]) \cup arrived'[f] :
            x.data_seqno # 0 /\ z = <<f, x.seqno, x.data_seqno>>
      BY <2>0
    <2>2. x \in ToSet(data[f]) \cup arrived[f]
      OBVIOUS
    <2>3. QED BY <2>1, <2>2, CarriedAre
  <1>2. Unique'
    BY <1>1 DEF OnceInv, Unique
  <1>3. Tokens' \subseteq Tokens
    BY <1>1 DEF Tokens
  <1>4. GivenNumbers' = GivenNumbers
    BY DEF GivenNumbers
  <1>5. \E c \in Nat : Stepped(c)'
    BY DEF OnceInv, Stepped
  <1>6. QED BY <1>2, <1>3, <1>4, <1>5 DEF OnceInv

\* The flows take runs of numbers, from from[f] + 1 to from[f] + many[f], all below total,
\* which leave none of them out, and nothing under way is gone.
Runs(H, from, many, total) ==
  /\ H \in [Flow -> Nat] /\ from \in [Flow -> Nat] /\ many \in [Flow -> Nat]
  /\ conn' = S!Given(conn, total)
  /\ \A f \in Flow : Carries(f, H[f], from[f], many[f]) /\ from[f] + many[f] =< total
  /\ \A f, g \in Flow : f # g => \/ many[f] = 0 \/ many[g] = 0
                                 \/ from[f] + many[f] =< from[g] \/ from[g] + many[g] =< from[f]

Covers(H, from, many, total) ==
  /\ \A f \in Flow : Puts(f, H[f], from[f], many[f])
  /\ \A m \in 1 .. total : \E f \in Flow : \E i \in 1 .. many[f] : m = from[f] + i

\* The number z carries is the i-th that f takes.
Takes(H, from, many, z, f, i) ==
  /\ f \in Flow /\ i \in 1 .. many[f]
  /\ z = <<f, H[f] + 1 + (i - 1) * MSS, S!DataSeq(conn, from[f] + i)>>

LEMMA TakenNumbers ==
  ASSUME Typed, NEW H, NEW from, NEW many, NEW total \in Nat, Runs(H, from, many, total),
         arrived' = arrived, NEW z \in AllCarried'
  PROVE  z \in AllCarried \/ (conn.cc_type # "NONE" /\ \E f, i : Takes(H, from, many, z, f, i))
  <1>0. PICK f \in Flow : \E x \in ToSet(data'[f]) \cup arrived'[f] :
          x.data_seqno # 0 /\ z = <<f, x.seqno, x.data_seqno>>
    BY DEF AllCarried, Carried
  <1>1. PICK x \in ToSet(data'[f]) \cup arrived'[f] :
          x.data_seqno # 0 /\ z = <<f, x.seqno, x.data_seqno>>
    BY <1>0
  <1>2. CASE x \in ToSet(data[f]) \cup arrived[f]
    BY <1>1, <1>2, CarriedAre
  <1>3. CASE x \notin ToSet(data[f]) \cup arrived[f]
    <2>1. x \in ToSet(data'[f])
      BY <1>1, <1>3
    <2>2. PICK i \in 1 .. many[f] :
            x = S!Segment(H[f] + 1 + (i - 1) * MSS, S!DataSeq(conn, from[f] + i))
      BY <1>1, <1>3, <2>1 DEF Runs, Carries
    <2>3. /\ x.seqno = H[f] + 1 + (i - 1) * MSS
          /\ x.data_seqno = S!DataSeq(conn, from[f] + i)
      BY <2>2 DEF S!Segment
    <2>4. conn.cc_type # "NONE"
      BY <1>1, <2>3 DEF S!DataSeq
    <2>5. QED BY <1>1, <2>3, <2>4 DEF Takes
  <1>4. QED BY <1>2, <1>3

\* A number newly taken lies beyond the counter as it was, and not beyond it as it is.
LEMMA TakesBeyond ==
  ASSUME Typed, conn.cc_type # "NONE", NEW H, NEW from, NEW many, NEW total \in Nat,
         Runs(H, from, many, total), NEW z, NEW f, NEW i, Takes(H, from, many, z, f, i)
  PROVE  /\ from[f] \in Nat /\ many[f] \in Nat /\ i \in Nat /\ i > 0 /\ i =< many[f]
         /\ z[3] = S!DataSeq(conn, from[f] + i)
         /\ z[3] \in Nat /\ z[3] > conn.highest_sent /\ z[3] =< conn'.highest_sent
  <1>1. f \in Flow /\ from[f] \in Nat /\ many[f] \in Nat /\ from[f] + many[f] =< total
    BY DEF Runs, Takes
  <1>2. i \in Nat /\ i > 0 /\ i =< many[f]
    BY <1>1 DEF Takes
  <1>3. z[3] = S!DataSeq(conn, from[f] + i)
    BY DEF Takes
  <1>4. from[f] + i \in Nat /\ from[f] + i > 0 /\ from[f] + i =< total
    BY <1>1, <1>2
  <1>5. conn' = S!Given(conn, total)
    BY DEF Runs
  <1>6. QED BY <1>1, <1>2, <1>3, <1>4, <1>5, NumbersApart

LEMMA TakenApart ==
  ASSUME Typed, conn.cc_type # "NONE", NEW H, NEW from, NEW many, NEW total \in Nat,
         Runs(H, from, many, total),
         NEW y, NEW z, NEW f, NEW g, NEW i, NEW j, y[3] = z[3],
         Takes(H, from, many, y, f, i), Takes(H, from, many, z, g, j)
  PROVE  y = z
  <1>1. /\ from[f] \in Nat /\ many[f] \in Nat /\ i \in Nat /\ i > 0 /\ i =< many[f]
        /\ y[3] = S!DataSeq(conn, from[f] + i) /\ y[3] \in Nat
    BY TakesBeyond
  <1>2. /\ from[g] \in Nat /\ many[g] \in Nat /\ j \in Nat /\ j > 0 /\ j =< many[g]
        /\ z[3] = S!DataSeq(conn, from[g] + j) /\ z[3] \in Nat
    BY TakesBeyond
  <1> DEFINE m == from[f] + i
             k == from[g] + j
  <1>3. m \in Nat /\ k \in Nat /\ m > 0 /\ k > 0
    BY <1>1, <1>2
  <1>4. m = k
    <2>1. y[3] = S!DataSeq(conn, m) /\ z[3] = S!DataSeq(conn, k)
      BY <1>1, <1>2
    <2> HIDE DEF m, k
    <2>2. m < k => S!DataSeq(conn, m) < S!DataSeq(conn, k)
      BY <1>3, NumbersApart
    <2>3. k < m => S!DataSeq(conn, k) < S!DataSeq(conn, m)
      BY <1>3, NumbersApart
    <2> DEFINE p == S!DataSeq(conn, m)
               q == S!DataSeq(conn, k)
    <2>4. p = q /\ p \in Nat /\ q \in Nat
      BY <1>1, <1>2, <2>1
    <2>5. (m < k => p < q) /\ (k < m => q < p)
      BY <2>2, <2>3
    <2> HIDE DEF p, q
    <2>6. QED BY <1>3, <2>4, <2>5
  <1>5. f = g
    <2>1. f \in Flow /\ g \in Flow
      BY DEF Takes
    <2>2. f # g => \/ many[f] = 0 \/ many[g] = 0
                   \/ from[f] + many[f] =< from[g] \/ from[g] + many[g] =< from[f]
      BY <2>1 DEF Runs
    <2>3. QED BY <1>1, <1>2, <1>4, <2>2
  <1>6. i = j
    BY <1>1, <1>2, <1>4, <1>5
  <1>7. QED BY <1>5, <1>6 DEF Takes

\* A number newly taken belongs to those given by then, and the counter steps on.
LEMMA TakesGiven ==
  ASSUME Typed, NEW total \in Nat, conn' = S!Given(conn, total), NEW c \in Nat, Stepped(c)
  PROVE  /\ conn.cc_type = "NONE" => Stepped(c)'
         /\ conn.cc_type # "NONE" =>
              /\ Stepped(c + total)'
              /\ \A m \in 1 .. total : S!DataSeq(conn, m) = 1 + (c + m - 1) * DataUnit
  <1>1. CASE conn.cc_type = "NONE"
    BY <1>1 DEF S!Given, Stepped
  <1>2. CASE conn.cc_type # "NONE"
    <2>1. c * DataUnit \in Nat /\ total * DataUnit \in Nat
      BY Unit, FactorsOf
    <2>2. Stepped(c + total)'
      <3>1. conn'.highest_sent = c * DataUnit + total * DataUnit
        BY <1>2 DEF S!Given, Stepped, Typed, Joined
      <3>2. (c + total) * DataUnit = c * DataUnit + total * DataUnit
        BY Unit
      <3>3. QED BY <3>1, <3>2 DEF Stepped
    <2>3. ASSUME NEW m \in 1 .. total
          PROVE  S!DataSeq(conn, m) = 1 + (c + m - 1) * DataUnit
      <3> DEFINE k == m - 1
      <3>1. k \in Nat /\ m - 1 = k /\ c + m - 1 = c + k
        OBVIOUS
      <3> HIDE DEF k
      <3>2. S!DataSeq(conn, m) = c * DataUnit + 1 + k * DataUnit
        BY <1>2, <3>1 DEF S!DataSeq, Stepped
      <3>3. (c + k) * DataUnit = c * DataUnit + k * DataUnit /\ k * DataUnit \in Nat
        BY <3>1, Unit
      <3>4. QED BY <2>1, <3>1, <3>2, <3>3
    <2>4. QED BY <1>2, <2>2, <2>3
  <1>3. QED BY <1>1, <1>2

LEMMA NumbersOnce ==
  ASSUME Typed, OnceInv, arrived' = arrived, mishaps' = mishaps,
         NEW H, NEW from, NEW many, NEW total \in Nat,
         Runs(H, from, many, total), Covers(H, from, many, total)
  PROVE  OnceInv'
  <1>1. Arrivals' /\ mishaps' \in Nat
    BY DEF OnceInv, Arrivals
  <1>2. ASSUME NEW z \in AllCarried
        PROVE  /\ z[3] \in GivenNumbers
               /\ z[3] \in Nat /\ z[3] =< conn.highest_sent
    BY CarriedNumbers
  <1>3. ASSUME NEW z \in AllCarried'
        PROVE  z \in AllCarried \/ (conn.cc_type # "NONE" /\ \E f, i : Takes(H, from, many, z, f, i))
    BY TakenNumbers
  <1>4. ASSUME conn.cc_type # "NONE", NEW z, NEW f, NEW i, Takes(H, from, many, z, f, i)
        PROVE  z[3] \in Nat /\ z[3] > conn.highest_sent
    BY <1>4, TakesBeyond
  <1>5. conn.highest_sent \in Nat
    BY DEF Typed, Joined
  <1>6. Unique'
    <2> SUFFICES ASSUME NEW y \in AllCarried', NEW z \in AllCarried', y[3] = z[3]
                 PROVE  y = z
      BY DEF Unique
    <2>1. CASE y \in AllCarried /\ z \in AllCarried
      BY <2>1 DEF OnceInv, Unique
    <2>2. CASE y \in AllCarried /\ z \notin AllCarried
      <3>1. z[3] \in Nat /\ z[3] > conn.highest_sent
        BY <1>3, <1>4, <2>2
      <3>2. QED BY <1>2, <1>5, <2>2, <3>1
    <2>3. CASE y \notin AllCarried /\ z \in AllCarried
      <3>1. y[3] \in Nat /\ y[3] > conn.highest_sent
        BY <1>3, <1>4, <2>3
      <3>2. QED BY <1>2, <1>5, <2>3, <3>1
    <2>4. CASE y \notin AllCarried /\ z \notin AllCarried
      <3>1. conn.cc_type # "NONE" /\ \E f, i : Takes(H, from, many, y, f, i)
        BY <1>3, <2>4
      <3>2. \E g, j : Takes(H, from, many, z, g, j)
        BY <1>3, <2>4
      <3>3. PICK f, i : Takes(H, from, many, y, f, i)
        BY <3>1
      <3>4. PICK g, j : Takes(H, from, many, z, g, j)
        BY <3>2
      <3>5. QED BY <3>1, <3>3, <3>4, TakenApart
    <2>5. QED BY <2>1, <2>2, <2>3, <2>4
  <1>7. PICK c \in Nat : Stepped(c)
    BY DEF OnceInv
  <1>8. conn' = S!Given(conn, total)
    BY DEF Runs
  <1>9. PICK d \in Nat :
          /\ Stepped(d)' /\ c =< d
          /\ conn.cc_type = "NONE" => d = c
          /\ conn.cc_type # "NONE" => d = c + total
    <2>1. CASE conn.cc_type = "NONE"
      BY <1>7, <1>8, <2>1, TakesGiven
    <2>2. CASE conn.cc_type # "NONE"
      <3>1. Stepped(c + total)' /\ c + total \in Nat /\ c =< c + total
        BY <1>7, <1>8, <2>2, TakesGiven
      <3>2. QED BY <2>2, <3>1
    <2>3. QED BY <2>1, <2>2
  <1>10. GivenNumbers = Upwards(c) /\ GivenNumbers' = Upwards(d) /\ Upwards(c) \subseteq Upwards(d)
    <2>1. Upwards(c) \subseteq Upwards(d)
      BY <1>9 DEF Upwards
    <2>2. QED BY <1>7, <1>9, <2>1, GivenAt, GivenAfter
  <1>11. Tokens' \subseteq GivenNumbers'
    <2> SUFFICES ASSUME NEW z \in AllCarried'
                 PROVE  z[3] \in Upwards(d)
      BY <1>10 DEF Tokens
    <2>1. CASE z \in AllCarried
      BY <1>2, <1>10, <2>1
    <2>2. CASE z \notin AllCarried
      <3>1. conn.cc_type # "NONE" /\ \E f, i : Takes(H, from, many, z, f, i)
        BY <1>3, <2>2
      <3>2. PICK f, i : Takes(H, from, many, z, f, i)
        BY <3>1
      <3>3. /\ from[f] \in Nat /\ many[f] \in Nat /\ i \in Nat /\ i > 0 /\ i =< many[f]
            /\ z[3] = S!DataSeq(conn, from[f] + i)
        BY <3>1, <3>2, TakesBeyond
      <3>4. from[f] + many[f] =< total
        BY <3>2 DEF Runs, Takes
      <3> DEFINE m == from[f] + i
      <3>5. m \in 1 .. total /\ z[3] = S!DataSeq(conn, m)
        BY <3>3, <3>4
      <3> HIDE DEF m
      <3>6. z[3] = 1 + (c + m - 1) * DataUnit
        BY <1>7, <1>8, <3>1, <3>5, TakesGiven
      <3>7. c + m - 1 \in 0 .. d - 1
        BY <1>9, <3>1, <3>5
      <3>8. QED BY <3>6, <3>7 DEF Upwards
    <2>3. QED BY <2>1, <2>2
  <1>12. Missing' \subseteq Missing
    <2> SUFFICES ASSUME NEW n \in Upwards(d), n \notin Tokens'
                 PROVE  n \in Upwards(c) /\ n \notin Tokens
      BY <1>10 DEF Missing
    <2>1. n \in Nat /\ n > 0
      BY GivenUpwards
    <2>2. ASSUME NEW f \in Flow, NEW x \in ToSet(data'[f]) \cup arrived'[f], x.data_seqno = n
          PROVE  FALSE
      <3>1. <<f, x.seqno, x.data_seqno>> \in AllCarried'
        BY <2>1, <2>2 DEF AllCarried, Carried
      <3>2. <<f, x.seqno, x.data_seqno>>[3] \in Tokens'
        BY <3>1 DEF Tokens
      <3>3. QED BY <2>2, <3>2
    <2>3. n \notin Tokens
      <3> SUFFICES ASSUME n \in Tokens
                   PROVE  FALSE
        OBVIOUS
      <3>1. PICK f \in Flow : \E x \in ToSet(data[f]) \cup arrived[f] : x.data_seqno = n
        BY TokensAre
      <3>2. PICK x \in ToSet(data[f]) \cup arrived[f] : x.data_seqno = n
        BY <3>1
      <3>3. ToSet(data[f]) \subseteq ToSet(data'[f])
        BY DEF Covers, Puts
      <3>4. QED BY <2>2, <3>2, <3>3
    <2>4. n \in Upwards(c)
      <3> SUFFICES ASSUME n \notin Upwards(c)
                   PROVE  FALSE
        OBVIOUS
      <3>1. PICK k \in 0 .. d - 1 : n = 1 + k * DataUnit
        BY DEF Upwards
      <3>2. k \notin 0 .. c - 1
        BY <3>1 DEF Upwards
      <3>3. conn.cc_type # "NONE" /\ d = c + total
        BY <1>9, <3>1, <3>2
      <3> DEFINE m == k - c + 1
      <3>4. m \in 1 .. total /\ c + m - 1 = k
        BY <3>1, <3>2, <3>3
      <3> HIDE DEF m
      <3>5. S!DataSeq(conn, m) = n
        BY <1>7, <1>8, <3>1, <3>3, <3>4, TakesGiven
      <3>6. PICK f \in Flow : \E i \in 1 .. many[f] : m = from[f] + i
        BY <3>4 DEF Covers
      <3>7. PICK i \in 1 .. many[f] : m = from[f] + i
        BY <3>6
      <3> DEFINE x == S!Segment(H[f] + 1 + (i - 1) * MSS, S!DataSeq(conn, from[f] + i))
      <3>8. x \in ToSet(data'[f])
        BY <3>7 DEF Covers, Puts
      <3>9. x.data_seqno = n
        BY <3>5, <3>7 DEF S!Segment
      <3> HIDE DEF x
      <3>10. QED BY <2>2, <3>8, <3>9
    <2>5. QED BY <2>3, <2>4
  <1>13. Cardinality(Missing') =< mishaps'
    <2> DEFINE M == Missing
               L == Missing'
    <2>1. IsFiniteSet(M) /\ L \in SUBSET M /\ Cardinality(M) =< mishaps /\ mishaps \in Nat
      BY <1>12, FiniteMissing DEF OnceInv
    <2> HIDE DEF M, L
    <2>2. Cardinality(L) =< mishaps
      BY <2>1, NoMore
    <2>3. QED BY <2>2 DEF L
  <1>14. QED BY <1>1, <1>6, <1>9, <1>11, <1>13 DEF OnceInv

\* What a step without an arrival or a mishap does to the numbers.
Dealt ==
  /\ arrived' = arrived /\ msink' = msink /\ mishaps' = mishaps
  /\ \E total \in Nat : \E H, from, many :
       Runs(H, from, many, total) /\ Covers(H, from, many, total)

\* A mishap, which at most one of the numbers under way is gone by.
Dropped ==
  /\ arrived' = arrived /\ msink' = msink /\ conn' = conn /\ mishaps' = mishaps + 1
  /\ \A f \in Flow : ToSet(data'[f]) \subseteq ToSet(data[f])
  /\ \E n : \A f \in Flow : \A x \in ToSet(data[f]) : x \in ToSet(data'[f]) \/ x.data_seqno = n

LEMMA DealtOnce ==
  ASSUME Typed, OnceInv, Dealt
  PROVE  OnceInv'
  <1>1. PICK total \in Nat :
          \E H, from, many : Runs(H, from, many, total) /\ Covers(H, from, many, total)
    BY DEF Dealt
  <1>2. PICK H, from, many : Runs(H, from, many, total) /\ Covers(H, from, many, total)
    BY <1>1
  <1>3. arrived' = arrived /\ mishaps' = mishaps
    BY DEF Dealt
  <1>4. QED BY <1>2, <1>3, NumbersOnce

LEMMA DroppedOnce ==
  ASSUME OnceInv, Dropped
  PROVE  OnceInv'
  <1>1. arrived' = arrived /\ conn' = conn /\ mishaps' = mishaps + 1
    BY DEF Dropped
  <1>2. \A f \in Flow : ToSet(data'[f]) \cup arrived'[f] \subseteq ToSet(data[f]) \cup arrived[f]
    BY DEF Dropped
  <1>3. /\ Unique' /\ Tokens' \subseteq GivenNumbers' /\ GivenNumbers' = GivenNumbers
        /\ \E c \in Nat : Stepped(c)'
    BY <1>1, <1>2, NothingNew
  <1>4. PICK n : \A f \in Flow : \A x \in ToSet(data[f]) : x \in ToSet(data'[f]) \/ x.data_seqno = n
    BY DEF Dropped
  <1>5. ASSUME NEW m \in Tokens, m # n
        PROVE  m \in Tokens'
    <2>1. m # 0 /\ \E f \in Flow : \E x \in ToSet(data[f]) \cup arrived[f] : x.data_seqno = m
      BY TokensAre
    <2>2. PICK f \in Flow : \E x \in ToSet(data[f]) \cup arrived[f] : x.data_seqno = m
      BY <2>1
    <2>3. PICK x \in ToSet(data[f]) \cup arrived[f] : x.data_seqno = m
      BY <2>2
    <2>4. x \in ToSet(data'[f]) \cup arrived'[f]
      BY <1>1, <1>4, <1>5, <2>3
    <2>5. <<f, x.seqno, x.data_seqno>> \in AllCarried'
      BY <2>1, <2>3, <2>4 DEF AllCarried, Carried
    <2>6. <<f, x.seqno, x.data_seqno>>[3] \in Tokens'
      BY <2>5 DEF Tokens
    <2>7. QED BY <2>3, <2>6
  <1>6. Cardinality(Missing') =< mishaps'
    <2> DEFINE M == Missing
               L == Missing'
    <2>1. L \in SUBSET (M \cup {n})
      BY <1>3, <1>5 DEF Missing
    <2>2. IsFiniteSet(M) /\ Cardinality(M) =< mishaps /\ mishaps \in Nat
      BY FiniteMissing DEF OnceInv
    <2> HIDE DEF M, L
    <2>3. Cardinality(L) =< mishaps + 1
      BY <2>1, <2>2, OneMore
    <2>4. QED BY <1>1, <2>3 DEF L
  <1>7. Arrivals' /\ mishaps' \in Nat
    BY <1>1 DEF OnceInv, Arrivals
  <1>8. QED BY <1>3, <1>6, <1>7 DEF OnceInv

\* One flow takes numbers, the others none.
LEMMA OneFlowTakes ==
  ASSUME Typed, NEW f \in Flow, TakesNumbers(f),
         arrived' = arrived, msink' = msink, mishaps' = mishaps,
         \A g \in Flow \ {f} : data'[g] = data[g]
  PROVE  Dealt
  <1>1. PICK h \in Nat, n \in Nat :
          Carries(f, h, 0, n) /\ Puts(f, h, 0, n) /\ conn' = S!Given(conn, n)
    BY DEF TakesNumbers
  <1> DEFINE H == [g \in Flow |-> h]
             from == [g \in Flow |-> 0]
             many == [g \in Flow |-> IF g = f THEN n ELSE 0]
  <1>2. /\ H \in [Flow -> Nat] /\ from \in [Flow -> Nat] /\ many \in [Flow -> Nat]
        /\ \A g \in Flow : H[g] = h /\ from[g] = 0 /\ many[g] = IF g = f THEN n ELSE 0
    OBVIOUS
  <1> HIDE DEF H, from, many
  <1>3. ASSUME NEW g \in Flow
        PROVE  Carries(g, H[g], from[g], many[g]) /\ from[g] + many[g] =< n
    <2>1. CASE g = f
      BY <1>1, <1>2, <2>1
    <2>2. CASE g # f
      BY <1>2, <2>2 DEF Carries
    <2>3. QED BY <2>1, <2>2
  <1>4. Runs(H, from, many, n)
    BY <1>1, <1>2, <1>3 DEF Runs
  <1>5. ASSUME NEW g \in Flow
        PROVE  Puts(g, H[g], from[g], many[g])
    <2>1. CASE g = f
      BY <1>1, <1>2, <2>1
    <2>2. CASE g # f
      <3>1. data'[g] = data[g] /\ many[g] = 0
        BY <1>2, <2>2
      <3>2. QED BY <3>1 DEF Puts
    <2>3. QED BY <2>1, <2>2
  <1>6. \A m \in 1 .. n : m \in 1 .. many[f] /\ m = from[f] + m
    BY <1>2
  <1>7. Covers(H, from, many, n)
    BY <1>5, <1>6 DEF Covers
  <1>8. QED BY <1>4, <1>7 DEF Dealt

\* No flow takes any.
LEMMA NobodyTakes ==
  ASSUME Typed, conn' = conn, data' = data,
         arrived' = arrived, msink' = msink, mishaps' = mishaps
  PROVE  Dealt
  <1> DEFINE H == [g \in Flow |-> 0]
  <1>1. H \in [Flow -> Nat] /\ \A g \in Flow : H[g] = 0
    OBVIOUS
  <1> HIDE DEF H
  <1>2. \A f \in Flow : Carries(f, H[f], H[f], H[f]) /\ H[f] + H[f] =< 0
    BY <1>1 DEF Carries
  <1>3. conn' = S!Given(conn, 0)
    BY NoneGiven
  <1>4. Runs(H, H, H, 0)
    BY <1>1, <1>2, <1>3 DEF Runs
  <1>5. \A f \in Flow : Puts(f, H[f], H[f], H[f])
    BY <1>1 DEF Puts
  <1>6. Covers(H, H, H, 0)
    BY <1>5 DEF Covers
  <1>7. QED BY <1>4, <1>6 DEF Dealt

\* A segment lost, or let through first, leaves the others under way.
LEMMA RestUnderWay ==
  ASSUME NEW X, NEW a \in Seq(X), NEW i \in DOMAIN a
  PROVE  /\ ToSet(RemoveAt(a, i)) \subseteq ToSet(a)
         /\ ToSet(<<a[i]>> \o RemoveAt(a, i)) \subseteq ToSet(a)
         /\ ToSet(a) \subseteq ToSet(RemoveAt(a, i)) \cup {a[i]}
         /\ ToSet(RemoveAt(a, i)) \subseteq ToSet(<<a[i]>> \o RemoveAt(a, i))
  <1> DEFINE rest == RemoveAt(a, i)
             before == SubSeq(a, 1, i - 1)
             after == SubSeq(a, i + 1, Len(a))
  <1>1. rest \in Seq(X)
    BY Lost
  <1>2. i \in 1 .. Len(a) /\ a[i] \in ToSet(a) /\ <<a[i]>> \in Seq(X)
    BY DEF ToSet
  <1>3. /\ before \in Seq(X) /\ Len(before) = i - 1
        /\ \A j \in 1 .. Len(before) : j \in 1 .. Len(a) /\ before[j] = a[j]
        /\ after \in Seq(X) /\ Len(after) = Len(a) - i
        /\ \A j \in 1 .. Len(after) : j + i \in 1 .. Len(a) /\ after[j] = a[j + i]
    <2>1. before \in Seq(X) /\ Len(before) = i - 1
      BY <1>2
    <2>2. \A j \in 1 .. Len(before) : j \in 1 .. Len(a) /\ before[j] = a[j]
      BY <1>2
    <2>3. after \in Seq(X) /\ Len(after) = Len(a) - i
      BY <1>2
    <2>4. \A j \in 1 .. Len(after) : j + i \in 1 .. Len(a) /\ after[j] = a[j + i]
      BY <1>2
    <2>5. QED BY <2>1, <2>2, <2>3, <2>4
  <1>4. rest = before \o after
    BY DEF RemoveAt
  <1> HIDE DEF before, after, rest
  <1>5. ASSUME NEW x \in ToSet(rest)
        PROVE  x \in ToSet(a)
    <2>1. x \in ToSet(before) \/ x \in ToSet(after)
      BY <1>3, <1>4, <1>5, Joining
    <2>2. ASSUME x \in ToSet(before)
          PROVE  x \in ToSet(a)
      <3>1. PICK j \in 1 .. Len(before) : x = before[j]
        BY <1>3, <2>2, Members
      <3>2. x = a[j] /\ j \in 1 .. Len(a)
        BY <1>3, <3>1
      <3>3. QED BY <3>2 DEF ToSet
    <2>3. ASSUME x \in ToSet(after)
          PROVE  x \in ToSet(a)
      <3>1. PICK j \in 1 .. Len(after) : x = after[j]
        BY <1>3, <2>3, Members
      <3>2. x = a[j + i] /\ j + i \in 1 .. Len(a)
        BY <1>3, <3>1
      <3>3. QED BY <3>2 DEF ToSet
    <2>4. QED BY <2>1, <2>2, <2>3
  <1>6. ASSUME NEW x \in ToSet(<<a[i]>> \o rest)
        PROVE  x \in ToSet(a)
    <2>1. x \in ToSet(<<a[i]>>) \/ x \in ToSet(rest)
      BY <1>1, <1>2, <1>6, Joining
    <2>2. x \in ToSet(<<a[i]>>) => x = a[i]
      BY DEF ToSet
    <2>3. QED BY <1>2, <1>5, <2>1, <2>2
  <1>7. ASSUME NEW x \in ToSet(a), x # a[i]
        PROVE  x \in ToSet(rest)
    <2>1. PICK j \in 1 .. Len(a) : x = a[j]
      BY Members
    <2>2. ToSet(before) \subseteq ToSet(rest) /\ ToSet(after) \subseteq ToSet(rest)
      BY <1>3, <1>4, JoinedHasBoth
    <2>3. CASE j < i
      <3>1. j \in 1 .. Len(before) /\ x = before[j]
        BY <1>2, <1>3, <2>1, <2>3
      <3>2. x \in ToSet(before)
        BY <3>1 DEF ToSet
      <3>3. QED BY <2>2, <3>2
    <2>4. CASE j > i
      <3> DEFINE k == j - i
      <3>1. k \in 1 .. Len(after) /\ k + i = j
        BY <1>2, <1>3, <2>4
      <3> HIDE DEF k
      <3>2. x = after[k]
        BY <1>3, <2>1, <3>1
      <3>3. x \in ToSet(after)
        BY <3>1, <3>2 DEF ToSet
      <3>4. QED BY <2>2, <3>3
    <2>5. j # i
      BY <1>7, <2>1
    <2>6. QED BY <1>2, <2>3, <2>4, <2>5
  <1>8. ToSet(rest) \subseteq ToSet(<<a[i]>> \o rest)
    BY <1>1, <1>2, JoinedHasBoth
  <1>9. QED BY <1>5, <1>6, <1>7, <1>8 DEF rest

LEMMA HeadAndRest ==
  ASSUME NEW X, NEW a \in Seq(X), a # << >>
  PROVE  /\ Head(a) \in X /\ Head(a) \in ToSet(a)
         /\ ToSet(Tail(a)) \subseteq ToSet(a)
         /\ ToSet(a) \subseteq ToSet(Tail(a)) \cup {Head(a)}
  <1>1. Head(a) = a[1] /\ 1 \in 1 .. Len(a)
    OBVIOUS
  <1>2. Tail(a) \in Seq(X) /\ Len(Tail(a)) = Len(a) - 1
        /\ \A j \in 1 .. Len(Tail(a)) : Tail(a)[j] = a[j + 1]
    OBVIOUS
  <1>3. ASSUME NEW x \in ToSet(Tail(a))
        PROVE  x \in ToSet(a)
    <2>1. PICK j \in 1 .. Len(Tail(a)) : x = Tail(a)[j]
      BY <1>2, Members
    <2>2. x = a[j + 1] /\ j + 1 \in 1 .. Len(a)
      BY <1>2, <2>1
    <2>3. QED BY <2>2 DEF ToSet
  <1>4. ASSUME NEW x \in ToSet(a), x # Head(a)
        PROVE  x \in ToSet(Tail(a))
    <2>1. PICK j \in 1 .. Len(a) : x = a[j]
      BY Members
    <2> DEFINE k == j - 1
    <2>2. k \in 1 .. Len(Tail(a)) /\ k + 1 = j
      BY <1>1, <1>2, <1>4, <2>1
    <2> HIDE DEF k
    <2> DEFINE t == Tail(a)
    <2>3. x = t[k] /\ k \in 1 .. Len(t) /\ t \in Seq(X)
      BY <1>2, <2>1, <2>2
    <2> HIDE DEF t
    <2>4. x \in ToSet(t)
      BY <2>3 DEF ToSet
    <2>5. QED BY <2>4 DEF t
  <1>5. Head(a) \in X /\ Head(a) \in ToSet(a)
    BY <1>1 DEF ToSet
  <1>6. QED BY <1>3, <1>4, <1>5

LEMMA DeliverDataKeepsOnce ==
  ASSUME Typed, OnceInv, NEW f \in Flow, DeliverData(f)
  PROVE  OnceInv'
  <1> DEFINE x == Head(data[f])
  <1>1. /\ data \in [Flow -> Seq(Sendable)] /\ arrived \in [Flow -> SUBSET Sendable]
        /\ data[f] # << >> /\ conn' = conn /\ mishaps' = mishaps
        /\ data' = [data EXCEPT ![f] = Tail(data[f])]
        /\ arrived' = [arrived EXCEPT ![f] = arrived[f] \cup {x}]
    BY DEF Typed, OnceInv, Arrivals, DeliverData, svars
  <1>2. /\ x \in Sendable /\ x \in ToSet(data[f]) /\ ToSet(Tail(data[f])) \subseteq ToSet(data[f])
        /\ ToSet(data[f]) \subseteq ToSet(Tail(data[f])) \cup {x}
    BY <1>1, HeadAndRest
  <1> HIDE DEF x
  <1>3. Arrivals'
    BY <1>1, <1>2 DEF Arrivals
  <1>4. ASSUME NEW g \in Flow
        PROVE  ToSet(data'[g]) \cup arrived'[g] = ToSet(data[g]) \cup arrived[g]
    <2>1. CASE g = f
      <3>1. data'[f] = Tail(data[f]) /\ arrived'[f] = arrived[f] \cup {x}
        BY <1>1
      <3>2. QED BY <1>2, <2>1, <3>1
    <2>2. CASE g # f
      BY <1>1, <2>2
    <2>3. QED BY <2>1, <2>2
  <1>5. /\ Unique' /\ Tokens' \subseteq GivenNumbers' /\ GivenNumbers' = GivenNumbers
        /\ \E c \in Nat : Stepped(c)'
    BY <1>1, <1>4, NothingNew
  <1>6. ASSUME NEW n \in Tokens
        PROVE  n \in Tokens'
    <2>1. n # 0 /\ \E g \in Flow : \E y \in ToSet(data[g]) \cup arrived[g] : y.data_seqno = n
      BY TokensAre
    <2>2. PICK g \in Flow : \E y \in ToSet(data[g]) \cup arrived[g] : y.data_seqno = n
      BY <2>1
    <2>3. PICK y \in ToSet(data[g]) \cup arrived[g] : y.data_seqno = n
      BY <2>2
    <2>4. y \in ToSet(data'[g]) \cup arrived'[g]
      BY <1>4
    <2>5. <<g, y.seqno, y.data_seqno>> \in AllCarried'
      BY <2>1, <2>3, <2>4 DEF AllCarried, Carried
    <2>6. <<g, y.seqno, y.data_seqno>>[3] \in Tokens'
      BY <2>5 DEF Tokens
    <2>7. QED BY <2>3, <2>6
  <1>7. Cardinality(Missing') =< mishaps'
    <2> DEFINE M == Missing
               L == Missing'
    <2>1. IsFiniteSet(M) /\ L \in SUBSET M /\ Cardinality(M) =< mishaps /\ mishaps \in Nat
      BY <1>5, <1>6, FiniteMissing DEF OnceInv, Missing
    <2> HIDE DEF M, L
    <2>2. Cardinality(L) =< mishaps
      BY <2>1, NoMore
    <2>3. QED BY <1>1, <2>2 DEF L
  <1>8. mishaps' \in Nat
    BY <1>1 DEF OnceInv
  <1>9. QED BY <1>3, <1>5, <1>7, <1>8 DEF OnceInv

LEMMA NetworkDrops ==
  ASSUME Typed, NEW f \in Flow,
         LoseData(f) \/ LoseAck(f) \/ SegmentOvertakes(f) \/ AckOvertakes(f)
  PROVE  Dropped
  <1>1. /\ data \in [Flow -> Seq(Sendable)] /\ mishaps' = mishaps + 1
        /\ conn' = conn /\ arrived' = arrived /\ msink' = msink
    BY DEF Typed, LoseData, LoseAck, SegmentOvertakes, AckOvertakes, Mishap, svars, kvars
  <1>2. CASE LoseAck(f) \/ AckOvertakes(f)
    <2>1. data' = data
      BY <1>2 DEF LoseAck, AckOvertakes
    <2>2. QED BY <1>1, <2>1 DEF Dropped
  <1>3. ASSUME NEW i \in DOMAIN data[f],
               \/ data' = [data EXCEPT ![f] = RemoveAt(data[f], i)]
               \/ data' = [data EXCEPT ![f] = <<data[f][i]>> \o RemoveAt(data[f], i)]
        PROVE  Dropped
    <2> DEFINE lost == data[f][i]
               rest == RemoveAt(data[f], i)
    <2>1. /\ ToSet(rest) \subseteq ToSet(data[f])
          /\ ToSet(<<lost>> \o rest) \subseteq ToSet(data[f])
          /\ ToSet(data[f]) \subseteq ToSet(rest) \cup {lost}
          /\ ToSet(rest) \subseteq ToSet(<<lost>> \o rest)
      <3>1. data[f] \in Seq(Sendable)
        BY <1>1
      <3>2. QED BY <1>3, <3>1, RestUnderWay
    <2>2. /\ data'[f] = rest \/ data'[f] = <<lost>> \o rest
          /\ \A g \in Flow \ {f} : data'[g] = data[g]
      BY <1>1, <1>3
    <2> HIDE DEF lost, rest
    <2>3. /\ ToSet(data'[f]) \subseteq ToSet(data[f])
          /\ ToSet(data[f]) \subseteq ToSet(data'[f]) \cup {lost}
      BY <2>1, <2>2
    <2>4. \A g \in Flow : ToSet(data'[g]) \subseteq ToSet(data[g])
      BY <2>2, <2>3
    <2>5. ASSUME NEW g \in Flow, NEW x \in ToSet(data[g])
          PROVE  x \in ToSet(data'[g]) \/ x.data_seqno = lost.data_seqno
      BY <2>2, <2>3
    <2>6. QED BY <1>1, <2>4, <2>5 DEF Dropped
  <1>4. CASE LoseData(f)
    <2>1. PICK i \in DOMAIN data[f] : data' = [data EXCEPT ![f] = RemoveAt(data[f], i)]
      BY <1>4 DEF LoseData
    <2>2. QED BY <1>3, <2>1
  <1>5. CASE SegmentOvertakes(f)
    <2>1. PICK i \in 2 .. Len(data[f]) :
            data' = [data EXCEPT ![f] = <<data[f][i]>> \o RemoveAt(data[f], i)]
      BY <1>5 DEF SegmentOvertakes
    <2>2. i \in DOMAIN data[f]
      BY <1>1
    <2>3. QED BY <1>3, <2>1, <2>2
  <1>6. QED BY <1>2, <1>4, <1>5

\* When a value is reached on the way up from none, some step reaches it.
LEMMA ReachedBy ==
  ASSUME NEW n \in Nat, NEW F \in [0 .. n -> Nat], F[0] = 0, NEW m \in 1 .. F[n]
  PROVE  \E f \in 1 .. n : F[f - 1] < m /\ m =< F[f]
  <1> DEFINE T == {f \in 0 .. n : m =< F[f]}
  <1>1. T \in SUBSET Nat /\ n \in T
    OBVIOUS
  <1>2. PICK f \in T : \A j \in T : f =< j
    BY <1>1, Least
  <1>3. f # 0
    OBVIOUS
  <1>4. f \in 1 .. n /\ f - 1 \in 0 .. n /\ f - 1 \notin T
    BY <1>2, <1>3
  <1>5. F[f - 1] \in Nat /\ F[f - 1] < m
    BY <1>4
  <1>6. QED BY <1>4, <1>5

LEMMA NoneNumbered ==
  ASSUME Typed
  PROVE  S!Numbered(0) = 0
  <1>1. Total(S!Wanted, {}) = 0
    BY TotalOfNone
  <1>2. 1 .. 0 = {}
    OBVIOUS
  <1>3. S!Numbered(0) = S!Lesser(S!Granted(conn), Total(S!Wanted, {}))
    BY <1>2 DEF S!Numbered, S!FoldFunctionOnSet, S!MapThenFoldSet,
           Total, FoldFunctionOnSet, MapThenFoldSet
  <1>4. S!Granted(conn) \in Nat
    BY CounterIsNat
  <1>5. QED BY <1>1, <1>3, <1>4 DEF S!Lesser

\* A subflow without its connection wants none.
LEMMA StillNumbered ==
  ASSUME Typed, NEW f \in Flow, ~src[f].established
  PROVE  S!Numbered(f) - S!Numbered(f - 1) = 0
  <1>1. f \in Nat /\ f - 1 \in Nat /\ f > 0
    <2>1. f \in Nat /\ f - 1 \in Nat
      BY FlowNumbers
    <2>2. QED BY <2>1
  <1>2. S!Wanted[f] = 0 /\ \A g \in Flow : S!Wanted[g] \in Nat
    BY BurstIsNat DEF S!Wanted, Typed
  <1> DEFINE A == 1 .. f - 1
  <1>3. IsFiniteSet(A) /\ f \notin A /\ A \cup {f} = 1 .. f /\ A \subseteq Flow
    <2>0. IsFiniteSet(A)
      BY <1>1, FS_Interval
    <2>1. A \cup {f} = 1 .. f /\ f \notin A /\ IsFiniteSet(A)
      BY <1>1, <2>0
    <2>2. f =< Cardinality(Flow) /\ Flow = 1 .. Cardinality(Flow) /\ Cardinality(Flow) \in Nat
      BY FlowNumbers, TcpSrcAssumption
    <2>3. QED BY <1>1, <2>1, <2>2
  <1>4. \A x \in A : S!Wanted[x] \in Int
    BY <1>2, <1>3
  <1>6. Total(S!Wanted, A \cup {f}) = Total(S!Wanted, A)
    <2> DEFINE W == S!Wanted
    <2>1. W[f] = 0 /\ W[f] \in Int
      BY <1>2
    <2> HIDE DEF A, W
    <2>2. /\ Total(W, A \cup {f}) = Total(W, A) + W[f]
          /\ Total(W, A) \in Int
      BY <1>3, <1>4, <2>1, TotalWith DEF W
    <2>3. Total(W, A \cup {f}) = Total(W, A)
      BY <2>1, <2>2
    <2>4. QED BY <2>3 DEF W
  <1>7. ASSUME NEW k \in Nat
        PROVE  S!Numbered(k) = S!Lesser(S!Granted(conn), Total(S!Wanted, 1 .. k))
    BY DEF S!Numbered, S!FoldFunctionOnSet, S!MapThenFoldSet,
           Total, FoldFunctionOnSet, MapThenFoldSet
  <1>8. S!Numbered(f) = S!Numbered(f - 1)
    BY <1>1, <1>3, <1>6, <1>7
  <1>9. S!Numbered(f) \in Nat
    BY <1>1, FlowNumbers, NumbersGrow
  <1>10. QED BY <1>8, <1>9

\* The connection's event gives the subflows numbers in turn.
LEMMA PollDeals ==
  ASSUME Typed, ConnectionEvent
  PROVE  Dealt
  <1> DEFINE H == [f \in Flow |-> src[f].highest_sent]
             from == [f \in Flow |-> S!Numbered(f - 1)]
             many == [f \in Flow |-> S!Numbered(f) - S!Numbered(f - 1)]
             n == Cardinality(Flow)
             total == S!Numbered(n)
  <1>1. /\ data' = [f \in Flow |-> data[f] \o S!Polled(f)]
        /\ conn' = S!Given(conn, total)
        /\ arrived' = arrived /\ msink' = msink /\ mishaps' = mishaps
    BY SameCardinality DEF ConnectionEvent, S!Poll, kvars
  <1>2. n \in Nat /\ total \in Nat
    <2>1. n \in Nat /\ n =< n
      BY FlowNumbers
    <2> HIDE DEF n
    <2>2. QED BY <2>1, NumbersGrow DEF n
  <1>3. ASSUME NEW f \in Flow
        PROVE  /\ f \in Nat /\ f - 1 \in Nat /\ f =< n
               /\ S!Numbered(f - 1) \in Nat /\ S!Numbered(f) \in Nat
               /\ S!Numbered(f) - S!Numbered(f - 1) \in Nat
               /\ S!Numbered(f) =< total
               /\ src[f] \in Source /\ src[f].highest_sent \in Nat
    <2>1. f \in Nat /\ f - 1 \in Nat /\ f - 1 =< f /\ f =< Cardinality(Flow)
      BY FlowNumbers
    <2>2. /\ S!Numbered(f - 1) \in Nat /\ S!Numbered(f) \in Nat
          /\ S!Numbered(f) - S!Numbered(f - 1) \in Nat
      BY <2>1, NumbersGrow
    <2>3. S!Numbered(f) =< S!Numbered(Cardinality(Flow))
      <3>1. Cardinality(Flow) \in Nat /\ Cardinality(Flow) =< Cardinality(Flow)
        BY FlowNumbers
      <3>2. QED BY <2>1, <3>1, NumbersGrow
    <2>4. src[f] \in Source /\ src[f].highest_sent \in Nat
      BY DEF Typed, Source
    <2>5. QED BY <2>1, <2>2, <2>3, <2>4
  <1>4. /\ H \in [Flow -> Nat] /\ from \in [Flow -> Nat] /\ many \in [Flow -> Nat]
        /\ \A f \in Flow : /\ H[f] = src[f].highest_sent /\ from[f] = S!Numbered(f - 1)
                           /\ many[f] = S!Numbered(f) - S!Numbered(f - 1)
    BY <1>3
  <1> HIDE DEF H, from, many, total, n
  <1>5. ASSUME NEW f \in Flow
        PROVE  Carries(f, H[f], from[f], many[f])
    <2> DEFINE k == S!Numbered(f - 1)
               m == S!Numbered(f) - S!Numbered(f - 1)
    <2>1. data'[f] = data[f] \o S!Polled(f) /\ data[f] \in Seq(Sendable)
          /\ S!Polled(f) \in Seq(Sendable)
      BY <1>1, PolledSegments DEF Typed
    <2>2. ASSUME NEW x \in ToSet(S!Polled(f))
          PROVE  \/ x.data_seqno = 0
                 \/ \E i \in 1 .. m :
                      x = S!Segment(src[f].highest_sent + 1 + (i - 1) * MSS, S!DataSeq(conn, k + i))
      <3>1. CASE src[f].established
        <4>1. S!Polled(f) = S!NextSegments(src[f], m, k)
          BY <3>1 DEF S!Polled
        <4>2. m \in Nat /\ k \in Nat
          BY <1>3
        <4> HIDE DEF m, k
        <4>3. Len(S!Polled(f)) = m
          BY <1>3, <3>1, <4>1, <4>2, NewSegments
        <4>4. PICK i \in 1 .. Len(S!Polled(f)) : x = S!Polled(f)[i]
          BY <2>1, Members
        <4>5. x = S!Segment(src[f].highest_sent + 1 + (i - 1) * MSS, S!DataSeq(conn, k + i))
          BY <4>1, <4>3, <4>4 DEF S!NextSegments
        <4>6. QED BY <4>3, <4>5
      <3>2. CASE ~src[f].established
        <4>1. x = S!Syn
          BY <3>2 DEF S!Polled, ToSet
        <4>2. QED BY <4>1 DEF S!Syn
      <3>3. QED BY <3>1, <3>2
    <2>3. ASSUME NEW x \in ToSet(data'[f])
          PROVE  x \in ToSet(data[f]) \/ x \in ToSet(S!Polled(f))
      BY <2>1, Joining
    <2>4. Carries(f, src[f].highest_sent, k, m)
      <3> HIDE DEF k, m
      <3>1. QED BY <2>2, <2>3 DEF Carries
    <2>5. QED BY <1>4, <2>4
  <1>6. ASSUME NEW f \in Flow, NEW g \in Flow, f < g
        PROVE  from[f] + many[f] =< from[g]
    <2>1. f \in Nat /\ g - 1 \in Nat /\ f =< g - 1 /\ g - 1 =< Cardinality(Flow)
      BY <1>3, <1>6, FlowNumbers
    <2>2. S!Numbered(f) =< S!Numbered(g - 1)
      BY <2>1, NumbersGrow
    <2>3. QED BY <1>3, <1>4, <2>2
  <1>7. ASSUME NEW f \in Flow, NEW g \in Flow, f # g
        PROVE  from[f] + many[f] =< from[g] \/ from[g] + many[g] =< from[f]
    <2>1. f < g \/ g < f
      BY <1>3, <1>7
    <2>2. QED BY <1>6, <2>1
  <1>8. \A f \in Flow : from[f] + many[f] =< total
    BY <1>3, <1>4
  <1>9. Runs(H, from, many, total)
    BY <1>1, <1>4, <1>5, <1>7, <1>8 DEF Runs
  <1>10. ASSUME NEW f \in Flow
         PROVE  Puts(f, H[f], from[f], many[f])
    <2> DEFINE k == S!Numbered(f - 1)
               m == S!Numbered(f) - S!Numbered(f - 1)
               h == src[f].highest_sent
    <2>1. data'[f] = data[f] \o S!Polled(f) /\ data[f] \in Seq(Sendable)
          /\ S!Polled(f) \in Seq(Sendable)
      BY <1>1, PolledSegments DEF Typed
    <2>2. ToSet(data[f]) \subseteq ToSet(data'[f]) /\ ToSet(S!Polled(f)) \subseteq ToSet(data'[f])
      BY <2>1, JoinedHasBoth
    <2>3. CASE src[f].established
      <3>1. S!Polled(f) = S!NextSegments(src[f], m, k) /\ m \in Nat /\ k \in Nat
        BY <1>3, <2>3 DEF S!Polled
      <3> HIDE DEF m, k
      <3>2. Len(S!Polled(f)) = m
        BY <1>3, <2>3, <3>1, NewSegments
      <3>3. ASSUME NEW i \in 1 .. m
            PROVE  S!Segment(h + 1 + (i - 1) * MSS, S!DataSeq(conn, k + i)) \in ToSet(data'[f])
        <4>1. S!Polled(f)[i] = S!Segment(h + 1 + (i - 1) * MSS, S!DataSeq(conn, k + i))
          BY <3>1 DEF S!NextSegments
        <4>2. S!Polled(f)[i] \in ToSet(S!Polled(f))
          BY <2>1, <3>2 DEF ToSet
        <4>3. QED BY <2>2, <4>1, <4>2
      <3>4. Puts(f, h, k, m)
        BY <2>2, <3>3 DEF Puts
      <3>5. QED BY <1>4, <3>4 DEF k, m
    <2>4. CASE ~src[f].established
      <3>1. m = 0
        BY <2>4, StillNumbered
      <3>2. Puts(f, h, k, m)
        BY <2>2, <3>1 DEF Puts
      <3>3. QED BY <1>4, <3>2
    <2>5. QED BY <2>3, <2>4
  <1>11. ASSUME NEW m \in 1 .. total
         PROVE  \E f \in Flow : \E i \in 1 .. many[f] : m = from[f] + i
    <2> DEFINE F == [k \in 0 .. n |-> S!Numbered(k)]
    <2>1. n \in Nat /\ Flow = 1 .. n
      BY <1>2, TcpSrcAssumption DEF n
    <2>2. ASSUME NEW k \in 0 .. n
          PROVE  S!Numbered(k) \in Nat
      BY <1>2, <2>2, NumbersGrow DEF n
    <2>3. F \in [0 .. n -> Nat]
      BY <2>2
    <2>4. F[0] = 0 /\ F[n] = total
      BY <1>2, NoneNumbered DEF total
    <2>5. \A f \in 1 .. n : F[f] = S!Numbered(f) /\ F[f - 1] = S!Numbered(f - 1)
      BY <2>1
    <2> HIDE DEF F
    <2>6. PICK f \in 1 .. n : F[f - 1] < m /\ m =< F[f]
      <3>1. m \in 1 .. F[n]
        BY <2>4
      <3>2. QED BY <2>1, <2>3, <2>4, <3>1, ReachedBy
    <2> DEFINE i == m - from[f]
    <2>7. f \in Flow /\ from[f] = F[f - 1] /\ many[f] = F[f] - F[f - 1]
      BY <1>4, <2>1, <2>5
    <2>8. F[f - 1] \in Nat /\ F[f] \in Nat
      BY <1>3, <2>5, <2>7
    <2>9. i \in 1 .. many[f] /\ m = from[f] + i
      BY <1>2, <2>6, <2>7, <2>8
    <2>10. QED BY <2>7, <2>9
  <1>12. Covers(H, from, many, total)
    BY <1>10, <1>11 DEF Covers
  <1>13. QED BY <1>1, <1>2, <1>9, <1>12 DEF Dealt

LEMMA DeliverAckDeals ==
  ASSUME Inv, NEW f \in Flow, DeliverAck(f)
  PROVE  Dealt
  <1> PICK N : N = Nat
    OBVIOUS
  <1> DEFINE a == Head(acks[f])
  <1>1. Typed /\ FlowInv(src[f], data[f], acks[f], sink[f])
    BY DEF Inv
  <1>2. acks[f] \in Seq(N) /\ acks[f] # << >> /\ S!ReceiveAck(f, a)
        /\ arrived' = arrived /\ msink' = msink /\ mishaps' = mishaps
    BY <1>1 DEF DeliverAck, Typed, kvars
  <1>3. a \in Nat
    BY <1>2
  <1>4. ~src[f].established => a = 1
    <2>1. ~src[f].established => acks[f] \in Seq({1})
      BY <1>1 DEF FlowInv, Greeting
    <2>2. QED BY <1>2, <2>1
  <1>5. Settled(f)
    <2>1. \A g \in Flow : Guarded(src[g])
      BY DEF Inv, FlowInv
    <2>2. src[f].established
            \/ (a = 1 /\ src[f].last_acked = 0 /\ ~src[f].in_fast_recovery)
      BY <1>1, <1>4 DEF FlowInv, Greeting
    <2> HIDE DEF a
    <2>3. QED BY <1>1, <1>2, <1>3, <2>1, <2>2, ReceiveAckSettles
  <1>6. TakesNumbers(f) /\ \A g \in Flow \ {f} : data'[g] = data[g]
    BY <1>5 DEF Settled
  <1>7. QED BY <1>1, <1>2, <1>6, OneFlowTakes

LEMMA SourceDeals ==
  ASSUME Typed, NEW f \in Flow, SourceEvent(f)
  PROVE  Dealt
  <1>1. arrived' = arrived /\ msink' = msink /\ mishaps' = mishaps
    BY DEF SourceEvent, kvars
  <1>2. CASE S!StartFlow(f)
    <2> DEFINE s == [src[f] EXCEPT !.scheduled = FALSE, !.established = FALSE]
    <2>1. s \in Source /\ << >> \in Seq(Unnumbered)
      <3>1. src[f] \in Source
        BY DEF Typed
      <3>2. s \in Source
        BY <3>1 DEF Source
      <3>3. QED BY <3>2
    <2>2. S!SendPackets(f, s, << >>)
      BY <1>2 DEF S!StartFlow
    <2> HIDE DEF s
    <2>3. TakesNumbers(f)
      BY <2>1, <2>2, SendPacketsNumbers
    <2>4. << >> \in Seq(Sendable)
      OBVIOUS
    <2>5. PICK h \in Nat, t \in BOOLEAN, segments \in Seq(Sendable) :
            Sends(f, s, << >>, h, t, segments)
      BY <2>1, <2>2, <2>4, SendPacketsSends
    <2>6. \A g \in Flow \ {f} : data'[g] = data[g]
      BY <2>5 DEF Sends, Typed
    <2>7. QED BY <1>1, <2>3, <2>6, OneFlowTakes
  <1>3. CASE S!Timeout(f)
    <2>1. src[f] \in Source
      BY DEF Typed
    <2>2. /\ data' = [data EXCEPT ![f] = Append(data[f], S!Again(src[f]))]
          /\ conn' = conn
      BY <1>3 DEF S!Timeout
    <2>3. data'[f] = Append(data[f], S!Again(src[f])) /\ \A g \in Flow \ {f} : data'[g] = data[g]
      BY <2>2 DEF Typed
    <2>4. TakesNumbers(f)
      BY <2>1, <2>2, <2>3, SegmentSentAgain, AgainNumbers
    <2>5. QED BY <1>1, <2>3, <2>4, OneFlowTakes
  <1>4. QED BY <1>2, <1>3 DEF SourceEvent

LEMMA StepDeals ==
  ASSUME Inv, [Next]_vars
  PROVE  Dealt \/ Dropped \/ \E f \in Flow : DeliverData(f)
  <1>1. Typed
    BY DEF Inv
  <1>2. ASSUME conn' = conn, data' = data,
               arrived' = arrived, msink' = msink, mishaps' = mishaps
        PROVE  Dealt
    BY <1>1, <1>2, NobodyTakes
  <1>3. ASSUME NEW f \in Flow,
               \/ DeliverAck(f) \/ LoseData(f) \/ LoseAck(f)
               \/ SegmentOvertakes(f) \/ AckOvertakes(f) \/ TimerExpires(f) \/ SourceEvent(f)
        PROVE  Dealt \/ Dropped
    <2>1. CASE DeliverAck(f)
      BY <2>1, DeliverAckDeals
    <2>2. CASE LoseData(f) \/ LoseAck(f) \/ SegmentOvertakes(f) \/ AckOvertakes(f)
      BY <1>1, <2>2, NetworkDrops
    <2>3. CASE TimerExpires(f)
      <3>1. /\ conn' = conn /\ data' = data
            /\ arrived' = arrived /\ msink' = msink /\ mishaps' = mishaps
        BY <2>3 DEF TimerExpires, S!RtxTimerHook, kvars
      <3>2. QED BY <1>2, <3>1
    <2>4. CASE SourceEvent(f)
      BY <1>1, <2>4, SourceDeals
    <2>5. QED BY <1>3, <2>1, <2>2, <2>3, <2>4
  <1>4. CASE ConnectionEvent
    BY <1>1, <1>4, PollDeals
  <1>5. CASE UNCHANGED vars
    <2>1. /\ conn' = conn /\ data' = data
          /\ arrived' = arrived /\ msink' = msink /\ mishaps' = mishaps
      BY <1>5 DEF vars, svars, kvars
    <2>2. QED BY <1>2, <2>1
  <1>6. QED BY <1>3, <1>4, <1>5 DEF Next

LEMMA StepKeepsOnce ==
  ASSUME Inv, OnceInv, [Next]_vars
  PROVE  OnceInv'
  <1>1. Typed
    BY DEF Inv
  <1>2. Dealt \/ Dropped \/ \E f \in Flow : DeliverData(f)
    BY StepDeals
  <1>3. QED BY <1>1, <1>2, DealtOnce, DroppedOnce, DeliverDataKeepsOnce

LEMMA OnceInit == Init => OnceInv
  <1> SUFFICES ASSUME Init
               PROVE  OnceInv
    OBVIOUS
  <1>1. \A f \in Flow : data[f] = << >> /\ arrived[f] = {}
    BY DEF Init, S!Init
  <1>2. \A f \in Flow : Carried(f) = {}
    BY <1>1 DEF Carried, ToSet
  <1>3. AllCarried = {} /\ Tokens = {}
    BY <1>2 DEF AllCarried, Tokens
  <1>4. Stepped(0)
    <2>1. conn.highest_sent = 0
      BY ConnectionsAssumption DEF Init, S!NoConnection, S!Connection
    <2>2. 0 * DataUnit = 0
      BY Unit
    <2>3. QED BY <2>1, <2>2 DEF Stepped
  <1>5. GivenNumbers = {}
    <2>1. GivenNumbers = Upwards(0)
      BY <1>4, GivenAt
    <2>2. QED BY <2>1 DEF Upwards
  <1>6. Cardinality(Missing) = 0
    BY <1>5, FS_EmptySet DEF Missing
  <1>7. Arrivals /\ mishaps = 0
    BY DEF Init, Arrivals
  <1>8. QED BY <1>3, <1>4, <1>6, <1>7 DEF OnceInv, Unique

\* Up to four subflows take numbers from the counter.  However often each sends again, and
\* whenever the connection polls them, no data number goes to two segments, none is made
\* up, and one is missing at most for each packet lost (multipath_tcp.py:271-283, 909-928;
\* tcp.py:492-502, 542).
THEOREM DataNumbersOnce == Spec => []DataOnce
  <1>1. Init => OnceInv
    BY OnceInit
  <1>2. Inv /\ OnceInv /\ [Next]_vars => OnceInv'
    BY StepKeepsOnce
  <1>3. OnceInv => DataOnce
    BY OnceInvMeansOnce
  <1>4. QED BY SourcesInOrder, <1>1, <1>2, <1>3, PTL DEF Spec
------------------------------------------------------------------------------
\* What the sink of a connection acknowledges has arrived.

Points == {k * MSS : k \in Nat}
Marked(x) == x.data_seqno = 0 \/ x.size = MSS
Numbers == UNION {{segment.data_seqno : segment \in arrived[f]} : f \in Flow}
Whole(c) == {1 + k * MSS : k \in 0 .. (c \div MSS) - 1}

\* What the sink has of the numbers A that have come.
Holds(s, A) ==
  /\ s.cumulative_ack \in Points
  /\ Whole(s.cumulative_ack) \subseteq A
  /\ s.received \in Seq(A)

MarkedInv ==
  /\ \A f \in Flow : \A x \in ToSet(data[f]) : Marked(x)
  /\ Holds(msink, Numbers)

LEMMA WholeAt ==
  ASSUME NEW c \in Nat
  PROVE  Whole(c * MSS) = {1 + k * MSS : k \in 0 .. c - 1}
  BY SegmentSize, QuotientOf DEF Whole

LEMMA HoldsMore ==
  ASSUME NEW s, NEW A, NEW B, Holds(s, A), A \subseteq B
  PROVE  Holds(s, B)
  <1>1. s.received \in Seq(B)
    BY SeqMonotonic DEF Holds
  <1>2. QED BY <1>1 DEF Holds

\* A number that is kept is put among those kept before.
LEMMA NotedOnceKeeps ==
  ASSUME NEW A, A \subseteq Nat, NEW list \in Seq(A), NEW seqno \in A
  PROVE  K!NotedOnce(list, seqno) \in Seq(A)
  <1> PICK N : N = Nat
    OBVIOUS
  <1>1. Append(list, seqno) \in Seq(A)
    OBVIOUS
  <1>2. ASSUME list # << >>, ~ (seqno > K!Last(list))
        PROVE  K!InsertAt(list, K!Place(list, seqno), seqno) \in Seq(A)
    <2>1. A \subseteq N /\ seqno \in Nat
      OBVIOUS
    <2>2. list \in Seq(N)
      BY <2>1, SeqMonotonic
    <2>3. K!Place(list, seqno) \in DOMAIN list
      BY <1>2, <2>1, <2>2, PlaceSplits
    <2>4. QED BY <2>3 DEF K!InsertAt
  <1>3. QED BY <1>1, <1>2 DEF K!NotedOnce

\* The sink of the connection after a segment.
DataAfter(s, x) == K!Taken(s, x.data_seqno, x.size, K!NotedOnce(s.received, x.data_seqno))

LEMMA DataTaken ==
  ASSUME NEW s \in Kept, NEW x \in Sendable, NEW A \in SUBSET Nat, Holds(s, A),
         Marked(x), x.data_seqno \in A
  PROVE  Holds(DataAfter(s, x), A)
  <1> DEFINE n == x.data_seqno
             end == n + x.size - 1
             k == K!Follow(s, end, x.size)
             t == DataAfter(s, x)
  <1>1. t = K!Taken(s, n, x.size, K!NotedOnce(s.received, n))
    BY DEF DataAfter
  <1>2. PICK c \in Nat : s.cumulative_ack = c * MSS
    BY DEF Holds, Points
  <1>3. /\ c * MSS \in Nat /\ (c + 1) * MSS = c * MSS + MSS /\ (c + 1) * MSS \in Nat
        /\ MSS \in Nat /\ MSS > 0
    BY SegmentSize, Times
  <1>4. n \in Nat /\ x.size \in Nat
    BY <1>3 DEF Sendable
  <1>5. s.received \in Seq(A) /\ Whole(s.cumulative_ack) \subseteq A
    BY DEF Holds
  <1>6. /\ DOMAIN s.received = 1 .. Len(s.received) /\ Len(s.received) \in Nat
        /\ \A i \in DOMAIN s.received : s.received[i] \in A
    BY <1>5
  <1>7. CASE K!InOrder(s, n)
    <2>1. n = 1 + c * MSS /\ n # 0 /\ x.size = MSS
      BY <1>2, <1>3, <1>7 DEF K!InOrder, Marked
    <2>2. end = (c + 1) * MSS /\ end \in Nat
      BY <1>3, <2>1
    <2> HIDE DEF t
    <2>15. /\ t.cumulative_ack = end + k * x.size
           /\ t.received = SubSeq(s.received, k + 1, Len(s.received))
      BY <1>1, <1>7 DEF K!Taken
    <2>3. /\ t.cumulative_ack = end + k * MSS
          /\ t.received = SubSeq(s.received, k + 1, Len(s.received))
      <3> HIDE DEF end, k
      <3>1. QED BY <2>1, <2>15
    <2>4. k \in Run(s, end, MSS) /\ \A j \in Run(s, end, MSS) : j =< k
      <3> HIDE DEF end
      <3>1. k = K!Follow(s, end, MSS)
        BY <2>1
      <3> HIDE DEF k
      <3>2. QED BY <1>3, <2>2, <3>1, FollowIsRun
    <2> HIDE DEF end, k
    <2>5. k \in Nat /\ k =< Len(s.received)
          /\ \A i \in 1 .. k : s.received[i] = end + (i - 1) * MSS + 1
      BY <1>6, <2>4 DEF Run
    <2>6. t.cumulative_ack = (c + 1 + k) * MSS /\ c + 1 + k \in Nat
      <3>1. (c + 1 + k) * MSS = (c + 1) * MSS + k * MSS
        BY <1>3, <2>5
      <3>2. k * MSS \in Nat
        BY <2>5, Multiple
      <3>3. QED BY <2>2, <2>3, <2>5, <3>1, <3>2
    <2>7. ASSUME NEW i \in 1 .. k
          PROVE  s.received[i] = 1 + (c + i) * MSS
      <3>1. i \in Nat /\ i - 1 \in Nat
        BY <2>5
      <3>2. (c + i) * MSS = (c + 1) * MSS + (i - 1) * MSS
        BY <1>3, <3>1
      <3>3. (i - 1) * MSS \in Nat
        BY <3>1, Multiple
      <3>4. QED BY <1>3, <2>2, <2>5, <3>2, <3>3
    <2>8. Whole(t.cumulative_ack) \subseteq A
      <3>1. Whole((c + 1 + k) * MSS) = {1 + i * MSS : i \in 0 .. (c + 1 + k) - 1}
        BY <2>6, WholeAt
      <3>2. {1 + i * MSS : i \in 0 .. c - 1} \subseteq A
        BY <1>2, <1>5, WholeAt
      <3>3. ASSUME NEW i \in 0 .. (c + 1 + k) - 1
            PROVE  1 + i * MSS \in A
        <4>1. i \in Nat
          OBVIOUS
        <4>2. CASE i < c
          <5>1. i \in 0 .. c - 1
            BY <4>1, <4>2
          <5>2. QED BY <3>2, <5>1
        <4>3. CASE i = c
          BY <2>1, <4>3
        <4>4. CASE i > c
          <5> DEFINE m == i - c
          <5>1. m \in 1 .. k /\ c + m = i /\ m \in DOMAIN s.received
            BY <1>6, <2>5, <4>1, <4>4
          <5> HIDE DEF m
          <5>2. s.received[m] = 1 + i * MSS
            BY <2>7, <5>1
          <5>3. QED BY <1>6, <5>1, <5>2
        <4>5. QED BY <4>1, <4>2, <4>3, <4>4
      <3>4. QED BY <2>6, <3>1, <3>3
    <2>9. t.received \in Seq(A)
      BY <1>5, <1>6, <2>3, <2>5
    <2>10. t.cumulative_ack \in Points
      BY <2>6 DEF Points
    <2>11. QED BY <2>8, <2>9, <2>10 DEF t, Holds
  <1>8. CASE ~ K!InOrder(s, n) /\ n =< s.cumulative_ack
    <2>1. t = s
      BY <1>1, <1>8 DEF K!Taken
    <2> HIDE DEF t
    <2>2. QED BY <2>1 DEF t
  <1>9. CASE ~ K!InOrder(s, n) /\ ~ (n =< s.cumulative_ack)
    <2> DEFINE list == K!NotedOnce(s.received, n)
    <2>1. t.cumulative_ack = s.cumulative_ack /\ t.received = list
      BY <1>1, <1>9 DEF K!Taken, Kept
    <2>2. list \in Seq(A)
      <3> HIDE DEF n
      <3>1. A \subseteq Nat /\ n \in A
        BY DEF n
      <3>2. QED BY <1>5, <3>1, NotedOnceKeeps
    <2> HIDE DEF t, list
    <2>3. QED BY <1>5, <2>1, <2>2 DEF t, Holds
  <1>10. QED BY <1>7, <1>8, <1>9

LEMMA DealtMarked ==
  ASSUME Typed, MarkedInv, Dealt \/ Dropped
  PROVE  MarkedInv'
  <1>1. ASSUME NEW f \in Flow, NEW x \in ToSet(data'[f])
        PROVE  Marked(x)
    <2>1. ASSUME x \in ToSet(data[f])
          PROVE  Marked(x)
      BY <2>1 DEF MarkedInv
    <2>2. CASE Dealt
      <3>1. PICK total \in Nat : \E H, from, many : Runs(H, from, many, total)
        BY <2>2 DEF Dealt
      <3>2. PICK H, from, many : Runs(H, from, many, total)
        BY <3>1
      <3>3. \/ x \in ToSet(data[f]) \/ x.data_seqno = 0
            \/ \E i \in 1 .. many[f] :
                 x = S!Segment(H[f] + 1 + (i - 1) * MSS, S!DataSeq(conn, from[f] + i))
        BY <1>1, <3>2 DEF Runs, Carries
      <3>4. x \in ToSet(data[f]) \/ x.data_seqno = 0 \/ x.size = MSS
        BY <3>3 DEF S!Segment
      <3>5. QED BY <2>1, <3>4 DEF Marked
    <2>3. CASE Dropped
      <3>1. x \in ToSet(data[f])
        BY <1>1, <2>3 DEF Dropped
      <3>2. QED BY <2>1, <3>1
    <2>4. QED BY <2>2, <2>3
  <1>2. Holds(msink, Numbers)'
    <2>1. Numbers' = Numbers /\ msink' = msink
      BY DEF Dealt, Dropped, Numbers
    <2>2. QED BY <2>1 DEF MarkedInv, Holds
  <1>3. QED BY <1>1, <1>2 DEF MarkedInv

LEMMA DeliverDataMarked ==
  ASSUME Typed, OnceInv, OnceInv', MarkedInv, NEW f \in Flow, DeliverData(f)
  PROVE  MarkedInv'
  <1> DEFINE x == Head(data[f])
  <1>1. /\ data \in [Flow -> Seq(Sendable)] /\ arrived \in [Flow -> SUBSET Sendable]
        /\ data[f] # << >> /\ conn' = conn
        /\ data' = [data EXCEPT ![f] = Tail(data[f])]
        /\ arrived' = [arrived EXCEPT ![f] = arrived[f] \cup {x}]
        /\ arrived' \in [Flow -> SUBSET Sendable]
    BY DEF Typed, OnceInv, Arrivals, DeliverData, svars
  <1>2. x \in Sendable /\ x \in ToSet(data[f]) /\ ToSet(Tail(data[f])) \subseteq ToSet(data[f])
    BY <1>1, HeadAndRest
  <1>3. msink' = DataAfter(msink, x)
    BY DEF DeliverData, K!ReceivePacket, DataAfter
  <1> HIDE DEF x
  <1>4. Marked(x)
    BY <1>2 DEF MarkedInv
  <1>5. \A g \in Flow : \A y \in ToSet(data'[g]) : Marked(y)
    <2>1. \A g \in Flow : ToSet(data'[g]) \subseteq ToSet(data[g])
      BY <1>1, <1>2
    <2>2. QED BY <2>1 DEF MarkedInv
  <1> DEFINE A == Numbers'
  <1>6. A \in SUBSET Nat
    <2>1. ASSUME NEW g \in Flow, NEW y \in arrived'[g]
          PROVE  y.data_seqno \in Nat
      BY <1>1, <2>1 DEF Sendable
    <2>2. QED BY <2>1 DEF Numbers
  <1>7. x.data_seqno \in A
    <2>1. x \in arrived'[f]
      BY <1>1
    <2>2. QED BY <2>1 DEF Numbers
  <1>8. Numbers \subseteq A
    <2>1. \A g \in Flow : arrived[g] \subseteq arrived'[g]
      BY <1>1
    <2>2. QED BY <2>1 DEF Numbers
  <1> HIDE DEF A
  <1>9. Holds(msink, A)
    BY <1>8, HoldsMore DEF MarkedInv
  <1>10. msink \in Kept
    BY DEF Typed
  <1>11. Holds(DataAfter(msink, x), A)
    BY <1>2, <1>4, <1>6, <1>7, <1>9, <1>10, DataTaken
  <1>12. Holds(msink, Numbers)'
    BY <1>3, <1>11 DEF A, Holds
  <1>13. QED BY <1>5, <1>12 DEF MarkedInv

LEMMA MarkedInit == Init => MarkedInv
  <1> SUFFICES ASSUME Init
               PROVE  MarkedInv
    OBVIOUS
  <1>1. msink.cumulative_ack = 0 /\ msink.received = << >>
    BY DEF Init, K!Init, K!Nothing
  <1>2. Whole(0) = {} /\ 0 \in Points
    <2>1. 0 * MSS = 0 /\ 0 .. 0 - 1 = {}
      BY SegmentSize
    <2>2. Whole(0 * MSS) = {1 + k * MSS : k \in 0 .. 0 - 1}
      BY WholeAt
    <2>3. Whole(0) = {}
      BY <2>1, <2>2
    <2>4. QED BY <2>1, <2>3 DEF Points
  <1>3. Holds(msink, Numbers)
    BY <1>1, <1>2 DEF Holds
  <1>4. \A f \in Flow : ToSet(data[f]) = {}
    BY DEF Init, S!Init, ToSet
  <1>5. QED BY <1>3, <1>4 DEF MarkedInv

\* The last segment acknowledged carries a number that has been given: the sink is not
\* further ahead of the counter than a segment is longer than its step.
LEMMA NotFarAhead ==
  ASSUME Typed, OnceInv, MarkedInv, msink.cumulative_ack > 0
  PROVE  msink.cumulative_ack + DataUnit =< conn.highest_sent + MSS
  <1>1. PICK c \in Nat : msink.cumulative_ack = c * MSS
    BY DEF MarkedInv, Holds, Points
  <1>2. c > 0
    BY <1>1, SegmentSize
  <1> DEFINE k == c - 1
             n == 1 + k * MSS
  <1>3. k \in Nat /\ k + 1 = c /\ k \in 0 .. c - 1
    BY <1>2
  <1>4. k * MSS \in Nat /\ c * MSS = k * MSS + MSS
    <2> HIDE DEF k
    <2>1. k * MSS \in Nat /\ (k + 1) * MSS = k * MSS + MSS
      BY <1>3, Times
    <2>2. QED BY <1>3, <2>1
  <1>5. n \in Numbers
    <2>1. Whole(c * MSS) \subseteq Numbers
      BY <1>1 DEF MarkedInv, Holds
    <2>2. n \in Whole(c * MSS)
      <3> HIDE DEF k
      <3>1. QED BY <1>3, WholeAt
    <2>3. QED BY <2>1, <2>2
  <1>6. n \in Nat /\ n # 0
    <2> HIDE DEF k
    <2>1. QED BY <1>4
  <1> HIDE DEF n, k
  <1>7. PICK f \in Flow : \E x \in arrived[f] : x.data_seqno = n
    BY <1>5 DEF Numbers
  <1>8. n \in Tokens
    BY <1>6, <1>7, TokensAre
  <1>9. PICK d \in Nat : Stepped(d)
    BY DEF OnceInv
  <1>10. n \in Upwards(d)
    BY <1>8, <1>9, GivenAt DEF OnceInv
  <1>11. n + DataUnit =< 1 + conn.highest_sent
    BY <1>9, <1>10, GivenUpwards DEF Stepped
  <1>12. conn.highest_sent \in Nat
    BY DEF Typed, Joined
  <1>13. QED BY <1>1, <1>4, <1>11, <1>12, SegmentSize, Unit DEF n

\* The sink of a connection acknowledges only whole segments that have arrived, on whatever
\* subflow, and keeps only such; it runs ahead of the counter of the source by no more than
\* a segment is longer than the counter's step (multipath_tcp.py:275, 1047-1069).
THEOREM DataHasArrived == Spec => []DataArrived
  <1>1. Init => OnceInv /\ MarkedInv
    BY OnceInit, MarkedInit
  <1>2. Inv /\ OnceInv /\ MarkedInv /\ [Next]_vars => OnceInv' /\ MarkedInv'
    <2> SUFFICES ASSUME Inv, OnceInv, MarkedInv, [Next]_vars
                 PROVE  OnceInv' /\ MarkedInv'
      OBVIOUS
    <2>1. Typed
      BY DEF Inv
    <2>2. OnceInv'
      BY StepKeepsOnce
    <2>3. Dealt \/ Dropped \/ \E f \in Flow : DeliverData(f)
      BY StepDeals
    <2>4. QED BY <2>1, <2>2, <2>3, DealtMarked, DeliverDataMarked
  <1>3. Inv /\ OnceInv /\ MarkedInv => DataArrived
    <2> SUFFICES ASSUME Inv, OnceInv, MarkedInv
                 PROVE  DataArrived
      OBVIOUS
    <2>1. Holds(msink, Numbers)
      BY DEF MarkedInv
    <2>2. Whole(msink.cumulative_ack) \subseteq Numbers
      BY <2>1 DEF Holds
    <2>3. ToSet(msink.received) \subseteq Numbers
      BY <2>1, Members DEF Holds
    <2>4. msink.cumulative_ack > 0 => msink.cumulative_ack + DataUnit =< conn.highest_sent + MSS
      BY NotFarAhead DEF Inv
    <2>5. QED BY <2>2, <2>3, <2>4 DEF DataArrived, Numbers, Whole
  <1>4. QED BY SourcesInOrder, <1>1, <1>2, <1>3, PTL DEF Spec
==============================================================================
