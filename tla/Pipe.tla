--------------------------------- MODULE Pipe ---------------------------------
(***************************************************************************)
(* core/pipe.py (and core/callback_pipe.py, which shares its buffer): a    *)
(* packet that comes in is written into a ring of records, and the pipe    *)
(* wakes itself for the record at the head.  The list holds references to  *)
(* the records, and records are overwritten in place: inflight_v says      *)
(* which record a slot refers to, record what the records hold.            *)
(* Times are kept relative to now; a time in the past counts as now, as    *)
(* source_is_pending makes it.                                             *)
(***************************************************************************)
EXTENDS Naturals, FiniteSets

CONSTANTS
  Packet, None,
  Delay,       \* _delay
  StartSize,   \* the size the ring begins with, 16 in the code
  MaxInFlight  \* bound on the packets under way at once

VARIABLES
  count, next_insert, next_pop, size,
  inflight_v,  \* slot -> record
  record,      \* record -> [time, pkt]
  wake,        \* when do_next_event is due, None when it is not scheduled
  spent        \* the packets whose _nexthop has reached the end of their route

pvars == <<count, next_insert, next_pop, size, inflight_v, record, wake, spent>>

Init ==
  /\ count = 0 /\ next_insert = 0 /\ next_pop = 0
  /\ size = StartSize
  /\ inflight_v = [i \in 0 .. StartSize - 1 |-> i]
  /\ record = [i \in 0 .. StartSize - 1 |-> [time |-> 0, pkt |-> None]]
  /\ wake = None
  /\ spent = {}
------------------------------------------------------------------------------
\* Slips the checks must notice: a wrapped ring that grows without moving its
\* wrapped part, a pipe that wakes again only for the last packet.
LeavesWrapped ==
  [size |-> 2 * size,
   next_insert |-> next_insert,
   inflight_v |-> [i \in 0 .. 2 * size - 1 |-> IF i < size THEN inflight_v[i] ELSE i],
   record |-> [r \in 0 .. 2 * size - 1 |->
                 IF r < size THEN record[r] ELSE [time |-> 0, pkt |-> None]]]
WakesForOne(n, due) == IF n = 1 THEN due ELSE None

\* _resize_buffer: new records at the end; when the ring is wrapped, the slots
\* before next_insert are copied behind the old end, reference by reference.
Resized ==
  LET wrapped == next_insert < next_pop
  IN  [size |-> 2 * size,
       next_insert |-> IF wrapped THEN next_insert + size ELSE next_insert,
       inflight_v |-> [i \in 0 .. 2 * size - 1 |->
                         IF i < size THEN inflight_v[i]
                         ELSE IF wrapped /\ i - size < next_insert
                              THEN inflight_v[i - size] ELSE i],
       record |-> [r \in 0 .. 2 * size - 1 |->
                     IF r < size THEN record[r] ELSE [time |-> 0, pkt |-> None]]]

Same == [size |-> size, next_insert |-> next_insert, inflight_v |-> inflight_v,
         record |-> record]

Full == count + 1 = size

\* The event left for the packets that remain, the head of which is due then.
WakesAgain(n, due) == IF n > 0 THEN due ELSE None

ReceivePacket(p) ==
  /\ count < MaxInFlight
  /\ count' = count + 1
  /\ wake' = IF count = 0 THEN Delay ELSE wake
  /\ LET b == IF Full THEN Resized ELSE Same
     IN  /\ size' = b.size
         /\ inflight_v' = b.inflight_v
         /\ record' = [b.record EXCEPT ![b.inflight_v[b.next_insert]] =
                                         [time |-> Delay, pkt |-> p]]
         /\ next_insert' = (b.next_insert + 1) % b.size
  /\ spent' = spent \ {p}   \* a packet sent anew has its route before it
  /\ UNCHANGED next_pop

HeadPacket == record[inflight_v[next_pop]].pkt

\* A packet already at the end of its route is not sent on, and the handler
\* returns without waking the pipe for the next one.  Otherwise the packet goes
\* to the next element, the last of its route.
DoNextEvent ==
  /\ wake = 0
  /\ count > 0
  /\ count' = count - 1
  /\ next_pop' = (next_pop + 1) % size
  /\ wake' = IF HeadPacket \in spent THEN None
             ELSE WakesAgain(count - 1, record[inflight_v[(next_pop + 1) % size]].time)
  /\ spent' = spent \cup {HeadPacket}
  /\ UNCHANGED <<next_insert, size, inflight_v, record>>

\* Time passes while no event is due.
Tick ==
  /\ wake # 0
  /\ wake' = IF wake = None THEN None ELSE wake - 1
  /\ record' = [r \in DOMAIN record |->
                  [record[r] EXCEPT !.time = IF @ = 0 THEN 0 ELSE @ - 1]]
  /\ UNCHANGED <<count, next_insert, next_pop, size, inflight_v, spent>>

Under == {inflight_v[(next_pop + k) % size] : k \in 0 .. count - 1}

\* Only a packet that is not under way is sent: a sender allocates one that is
\* free.
Idle(p) == \A r \in Under : record[r].pkt # p

Next ==
  \/ \E p \in Packet : Idle(p) /\ ReceivePacket(p)
  \/ DoNextEvent
  \/ Tick

Spec == Init /\ [][Next]_pvars
------------------------------------------------------------------------------
TypeOK ==
  /\ size \in {StartSize, 2 * StartSize, 4 * StartSize}
  /\ count \in 0 .. size
  /\ next_insert \in 0 .. size - 1 /\ next_pop \in 0 .. size - 1
  /\ inflight_v \in [0 .. size - 1 -> 0 .. size - 1]
  /\ record \in [0 .. size - 1 -> [time : 0 .. Delay, pkt : Packet \cup {None}]]
  /\ wake \in 0 .. Delay \cup {None}
  /\ spent \subseteq Packet

\* Packets are under way exactly when the pipe is going to be woken, and then
\* at the time of the head: a pipe that holds packets and never wakes is dead
\* for good, since only an empty pipe schedules itself (pipe.py:87-89, 117-132).
WokenForHead ==
  /\ wake = None <=> count = 0
  /\ count > 0 => wake = record[inflight_v[next_pop]].time

\* The packets under way, oldest first.
Line == [k \in 1 .. count |->
           LET r == record[inflight_v[(next_pop + k - 1) % size]]
           IN  [pkt |-> r.pkt, left |-> r.time]]

D == INSTANCE DelayLine WITH line <- Line, Drain <- [p \in Packet |-> 0]

\* No packet is in the pipe twice, and so none has been overwritten there: what
\* "simply delays all incoming packets" (pipe.py:5) says least.
EachOnce == Cardinality({Line[k].pkt : k \in 1 .. count}) = count

\* The pipe only delays: nothing is lost, duplicated, reordered or early.
RefinesDelayLine == D!Spec
==============================================================================
