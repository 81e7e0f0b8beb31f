--------------------------------- MODULE Link ---------------------------------
(***************************************************************************)
(* The element every topology is built of: a Queue whose packets go to a   *)
(* Pipe, and a receiver behind it that frees them.  Packet objects come    *)
(* from the free list of PacketDB and go back to it, so an object is sent  *)
(* again and again.  The two sources share the clock of the event list;    *)
(* events due at the same time may run in either order.                    *)
(***************************************************************************)
EXTENDS Naturals, FiniteSets, SequencesExt

CONSTANTS
  Packet,  \* the packet objects that have been allocated
  None, Size, Drain, MaxSize, DropFrom, Lossy,      \* of the queue
  Delay, StartSize, MaxInFlight                     \* of the pipe

ASSUME QueueAssumption ==
  /\ Size \in [Packet -> Nat] /\ Drain \in [Packet -> Nat]
  /\ MaxSize \in Nat /\ DropFrom \in Nat
  /\ Lossy \in BOOLEAN

ASSUME PipeAssumption ==
  Delay \in Nat /\ StartSize \in Nat \ {0, 1} /\ MaxInFlight \in Nat

ASSUME NoneAssumption == None \notin Packet \cup Nat

VARIABLES
  free,                                             \* _freelist of PacketDB
  enqueued, queuesize, service,                     \* the queue
  count, next_insert, next_pop, size, inflight_v, record, wake, spent

Q == INSTANCE Queue
P == INSTANCE Pipe

qvars == <<enqueued, queuesize, service>>
pvars == <<count, next_insert, next_pop, size, inflight_v, record, wake, spent>>
vars == <<free, qvars, pvars>>

Init == free = Packet /\ Q!Init /\ P!Init
------------------------------------------------------------------------------
\* A slip the checks must notice: a packet dropped but not freed.
KeepsDropped(p) == free' = free \ {p}

FreesDropped(p) == UNCHANGED free

\* A packet is allocated, gets a route through the queue, and is sent.
Accept(p) ==
  /\ p \in free
  /\ Q!Enqueue(p)
  /\ free' = free \ {p}
  /\ UNCHANGED pvars

\* The same, but the queue drops the packet and frees it.
Refuse(p) ==
  /\ p \in free
  /\ Q!Drop(p)
  /\ FreesDropped(p)
  /\ UNCHANGED pvars

\* The queue's event: the packet moves into the pipe.
Transmit ==
  /\ Q!CompleteService
  /\ P!ReceivePacket(Head(enqueued))
  /\ UNCHANGED free

\* The pipe's event: the packet reaches the receiver, which frees it.
Deliver ==
  /\ P!DoNextEvent
  /\ free' = IF P!HeadPacket \in spent THEN free ELSE free \cup {P!HeadPacket}
  /\ UNCHANGED qvars

\* The clock of the event list, when some event is pending but none is due.
Tick ==
  /\ service # None \/ wake # None
  /\ Q!Tick /\ P!Tick
  /\ UNCHANGED free

Next ==
  \/ \E p \in Packet : Accept(p) \/ Refuse(p)
  \/ Transmit \/ Deliver \/ Tick

\* main loops run do_next_event until nothing is pending: every event pending
\* comes due and is run, whatever the senders do.
Fairness == WF_vars(Transmit) /\ WF_vars(Deliver) /\ WF_vars(Tick)

Spec == Init /\ [][Next]_vars /\ Fairness
------------------------------------------------------------------------------
TypeOK == free \subseteq Packet /\ Q!TypeOK /\ P!TypeOK

BytesCounted == Q!BytesCounted
BusyWhenFilled == Q!BusyWhenFilled
WokenForHead == P!WokenForHead

InPipe == {P!Line[k].pkt : k \in 1 .. count}

\* A packet object is in one place: free, queued, or in the pipe.  Reused while
\* it is under way, or freed twice, it would fail the assertion of freePacket
\* (network.py:788) or carry one flow's data into another.
OnePlace ==
  /\ free \cap ToSet(enqueued) = {} /\ free \cap InPipe = {}
  /\ ToSet(enqueued) \cap InPipe = {}
  /\ free \cup ToSet(enqueued) \cup InPipe = Packet
  /\ Cardinality(ToSet(enqueued)) = Len(enqueued)

\* When a packet leaves the pipe if it stands at place i of the queue.
Leaves(i) == service + FoldSeq(+, 0, [j \in 1 .. i - 1 |-> Drain[enqueued[j + 1]]]) + Delay

Line == P!Line \o [i \in DOMAIN enqueued |-> [pkt |-> enqueued[i], left |-> Leaves(i)]]

D == INSTANCE DelayLine WITH line <- Line

\* Queue and pipe together are a link: an accepted packet leaves once, in order,
\* and at the moment settled by the backlog it met (base_queue.py:389-439 with
\* pipe.py:76-132).
RefinesDelayLine == D!Spec

\* A packet the queue accepts gets through, whatever is sent after it.
AcceptedDelivered ==
  \A p \in Packet : p \in ToSet(enqueued) ~> p \in free
==============================================================================
