-------------------------------- MODULE Queue --------------------------------
(***************************************************************************)
(* queues/base_queue.py, class Queue, with queues/random_queue.py: a queue *)
(* of bounded bytes in front of a transmitter.  A packet that does not fit *)
(* is dropped, the head is in service for its drain time, and completing   *)
(* its service sends it on and takes up the next one.  A RandomQueue may   *)
(* also drop a packet that fits.  _enqueued is the ring of CircularBuffer, *)
(* which is a plain sequence by CircularBufferProofs.                      *)
(***************************************************************************)
EXTENDS Naturals, SequencesExt

CONSTANTS
  Packet, None,
  Size,      \* bytes of each packet
  Drain,     \* drain_time of each packet
  MaxSize,   \* _maxsize, in bytes
  DropFrom,  \* _drop_th of a RandomQueue, MaxSize for a Queue
  Lossy      \* whether _plr is positive

VARIABLES
  enqueued,   \* _enqueued, the oldest first
  queuesize,  \* _queuesize, in bytes
  service     \* when do_next_event is due, None when it is not scheduled

qvars == <<enqueued, queuesize, service>>

Init ==
  /\ enqueued = << >>
  /\ queuesize = 0
  /\ service = None
------------------------------------------------------------------------------
\* Slips the checks must notice: a queue that looks at what it holds but not at
\* what comes in, a byte counter that arrivals do not raise, and a queue that does
\* not take up the next packet.
FitsBefore(p) == queuesize <= MaxSize
ForgetsBytes(p) == queuesize
StopsServing(rest) == None

Fits(p) == queuesize + Size[p] <= MaxSize

BytesWith(p) == queuesize + Size[p]

MayDrop(p) == Lossy \/ queuesize + Size[p] > DropFrom

\* beginService, for a packet that found the queue empty.
ServiceWith(p) == IF enqueued = << >> THEN Drain[p] ELSE service

\* beginService, for the packets left when a service is completed.
NextService(rest) == IF rest = << >> THEN None ELSE Drain[Head(rest)]

Enqueue(p) ==
  /\ Fits(p)
  /\ enqueued' = Append(enqueued, p)
  /\ queuesize' = BytesWith(p)
  /\ service' = ServiceWith(p)

Drop(p) ==
  /\ ~Fits(p) \/ MayDrop(p)
  /\ UNCHANGED qvars

\* do_next_event: the packet that is sent on is Head(enqueued).
CompleteService ==
  /\ service = 0
  /\ enqueued # << >>
  /\ enqueued' = Tail(enqueued)
  /\ queuesize' = queuesize - Size[Head(enqueued)]
  /\ service' = NextService(Tail(enqueued))

Tick ==
  /\ service # 0
  /\ service' = IF service = None THEN None ELSE service - 1
  /\ UNCHANGED <<enqueued, queuesize>>
------------------------------------------------------------------------------
TypeOK ==
  /\ enqueued \in Seq(Packet)
  /\ queuesize \in Nat
  /\ service \in Nat \cup {None}

\* The bytes counted are the bytes held, and never more than fit: the counter is
\* changed in other places than the buffer (base_queue.py:357, 377-378, 419-420).
BytesCounted ==
  /\ queuesize = FoldSeq(+, 0, [i \in DOMAIN enqueued |-> Size[enqueued[i]]])
  /\ queuesize <= MaxSize

\* The transmitter works exactly when there is something to send, so its event
\* never finds the queue empty and no packet is left behind without one
\* (the assertions base_queue.py:395, 415).
BusyWhenFilled == service = None <=> enqueued = << >>
==============================================================================
