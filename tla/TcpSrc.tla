-------------------------------- MODULE TcpSrc --------------------------------
(***************************************************************************)
(* protocols/tcp.py, class TcpSrc: slow start and congestion avoidance,    *)
(* fast retransmit and recovery, and the retransmission timer that         *)
(* TcpRtxTimerScanner polls.  The sources of Flow are alone, or the        *)
(* subflows 1, 2, ... of the connection conn.  Sequence numbers and        *)
(* windows are in bytes, as in the code; the SYN is byte 1.                *)
(* Round-trip times only decide when the timer expires.  They are left     *)
(* out: an armed timer may expire at any time, early ones included.        *)
(***************************************************************************)
EXTENDS MultipathSrc, SequencesExt

CONSTANTS
  Flow,            \* 1 .. n, _subflow_id
  MSS,             \* _mss
  FlowBytes,       \* set_flowsize's argument
  InitialWindow,   \* _cwnd at first, 10 segments in the code
  InitialThresh,   \* _ssthresh at first, 100 segments in the code
  MaxCwnd,         \* _maxcwnd
  DupAckThreshold  \* DUPACK_TH

VARIABLES
  src,   \* of each source its fields; armed is whether _RFC2988_RTO_timeout is
         \* set, scheduled whether its do_next_event is pending
  data,  \* of each source the segments sent and not yet received, in order
  conn   \* _mSrc

FlowSize == FlowBytes + MSS

\* connect schedules the start of the flow.
Fresh ==
  [highest_sent |-> 0, last_acked |-> 0, cwnd |-> InitialWindow, ssthresh |-> InitialThresh,
   dupacks |-> 0, recoverq |-> 0, established |-> FALSE, in_fast_recovery |-> FALSE,
   armed |-> FALSE, rtx_timeout_pending |-> FALSE, scheduled |-> TRUE]

Init == src = [f \in Flow |-> Fresh] /\ data = [f \in Flow |-> << >>]
------------------------------------------------------------------------------
Lesser(a, b) == IF a < b THEN a ELSE b
Greater(a, b) == IF a < b THEN b ELSE a

\* Slips the checks must notice: a segment that counts its header, a threshold
\* without its floor, a timeout that rewinds before the connection stands, an ACK
\* of more than was sent again, and a timer that new data does not set.
WithHeader(seqno, data_seqno) == [seqno |-> seqno, size |-> MSS + 1, data_seqno |-> data_seqno]
BareHalf(window) == window \div 2
RewindsAlways(s) == s.last_acked + MSS
KeepsHighest(s, a) == s.highest_sent
StaysOff(s, segments) == s.armed \/ (~s.established /\ segments # << >>)

Syn == [seqno |-> 1, size |-> 1, data_seqno |-> 0]
Segment(seqno, data_seqno) == [seqno |-> seqno, size |-> MSS, data_seqno |-> data_seqno]

\* How many segments the loop of send_packets wants to send.
Burst(s) ==
  LET end == s.last_acked + s.cwnd
      room == IF end < s.highest_sent + MSS THEN 0 ELSE (end - s.highest_sent) \div MSS
      left == IF s.highest_sent > FlowSize + 1 THEN 0
              ELSE (FlowSize + 1 - s.highest_sent) \div MSS + 1
  IN  Lesser(room, left)

\* How many it gets data numbers for.
Allowed(n) == IF conn.cc_type = "NONE" THEN n ELSE Lesser(n, Granted(conn))

\* The next n segments, when k data numbers have been given in the same event.
NextSegments(s, n, k) ==
  [i \in 1 .. n |-> Segment(s.highest_sent + 1 + (i - 1) * MSS, DataSeq(conn, k + i))]

\* Any segment of data sent sets the timer, and so does a SYN of send_packets.
Timed(s, segments) == s.armed \/ segments # << >>

\* The source after it has sent new segments.
Sent(s, segments) ==
  [s EXCEPT !.highest_sent = IF s.established THEN @ + Len(segments) * MSS ELSE 1,
            !.armed = Timed(s, segments)]

\* send_packets of a source in state s, with first sent before it.
SendPackets(f, s, first) ==
  LET n == IF s.established THEN Allowed(Burst(s)) ELSE 0
      segments == IF s.established THEN NextSegments(s, n, 0) ELSE <<Syn>>
  IN  /\ src' = [src EXCEPT ![f] = Sent(s, segments)]
      /\ data' = [data EXCEPT ![f] = @ \o first \o segments]
      /\ conn' = Given(conn, n)

\* retransmit_packet, which takes no data number.
Again(s) == IF s.established THEN Segment(s.last_acked + 1, 0) ELSE Syn

\* deflate_window.
Halved(window) == Greater(window \div 2, 2 * MSS)
Threshold(window) ==
  IF conn.cc_type = "NONE" THEN Halved(window) ELSE Deflated(conn, TotalWindow(src), window, MSS)

\* The windows inflate_window may leave after an ACK that made s.
Inflated(s) ==
  LET newly == Lesser(s.last_acked + s.cwnd - s.highest_sent, MSS)
  IN  IF s.last_acked + s.cwnd < s.highest_sent THEN {s.cwnd}
      ELSE IF s.cwnd < s.ssthresh THEN {s.cwnd + Lesser(s.ssthresh - s.cwnd, newly)}
      ELSE {s.cwnd + inc : inc \in Increments(conn, src, s.cwnd, newly, MSS)}

\* The window a partial ACK leaves.
PartialWindow(window, newly) == (IF newly < window THEN window - newly ELSE 0) + MSS

HighestAfter(s, a) == Greater(a, s.highest_sent)

\* What an ACK of new data does first: one of all that is outstanding clears the timer.
Acked(f, a) ==
  [src[f] EXCEPT !.last_acked = a,
                 !.established = @ \/ a = 1,
                 !.armed = a < src[f].highest_sent,
                 !.highest_sent = HighestAfter(src[f], a)]

\* Where a timeout goes back to.
Rewound(s) == IF s.established THEN s.last_acked + MSS ELSE s.highest_sent
------------------------------------------------------------------------------
\* receivePacket, by its early returns.

OldAck(f, a) == a < src[f].last_acked /\ UNCHANGED <<src, data, conn>>

NewAck(f, a) ==
  /\ a > src[f].last_acked
  /\ ~src[f].in_fast_recovery
  /\ \E window \in Inflated(Acked(f, a)) :
       SendPackets(f, [Acked(f, a) EXCEPT !.dupacks = 0, !.cwnd = Lesser(window, MaxCwnd)], << >>)

RecoveryEnds(f, a) ==
  /\ a > src[f].last_acked
  /\ src[f].in_fast_recovery
  /\ a >= src[f].recoverq
  /\ LET s == Acked(f, a)
     IN  SendPackets(f, [s EXCEPT !.cwnd = Lesser(s.ssthresh, s.highest_sent - a + MSS),
                                  !.dupacks = 0,
                                  !.in_fast_recovery = FALSE], << >>)

PartialAck(f, a) ==
  /\ a > src[f].last_acked
  /\ src[f].in_fast_recovery
  /\ a < src[f].recoverq
  /\ SendPackets(f, [Acked(f, a) EXCEPT !.cwnd = PartialWindow(@, a - src[f].last_acked),
                                        !.armed = TRUE],
                 <<Again(Acked(f, a))>>)

\* An ACK of nothing new.
Repeated(f, a) == a = src[f].last_acked

DuplicateInRecovery(f, a) ==
  /\ Repeated(f, a)
  /\ src[f].in_fast_recovery
  /\ SendPackets(f, [src[f] EXCEPT !.established = @ \/ a = 1,
                                   !.cwnd = Lesser(@ + MSS, MaxCwnd)], << >>)

DuplicateAck(f, a) ==
  /\ Repeated(f, a)
  /\ ~src[f].in_fast_recovery
  /\ src[f].dupacks + 1 # DupAckThreshold
  /\ SendPackets(f, [src[f] EXCEPT !.established = @ \/ a = 1, !.dupacks = @ + 1], << >>)

\* The third duplicate: a loss, unless it is of a window already repaired.
ThirdDuplicate(f, a) ==
  /\ Repeated(f, a)
  /\ ~src[f].in_fast_recovery
  /\ src[f].dupacks + 1 = DupAckThreshold
  /\ LET s == [src[f] EXCEPT !.established = @ \/ a = 1, !.dupacks = @ + 1]
     IN  IF s.last_acked < s.recoverq
         THEN src' = [src EXCEPT ![f] = s] /\ UNCHANGED data
         ELSE /\ src' = [src EXCEPT ![f] =
                           [s EXCEPT !.ssthresh = Threshold(s.cwnd),
                                     !.cwnd = Threshold(s.cwnd) + 3 * MSS,
                                     !.in_fast_recovery = TRUE,
                                     !.recoverq = s.highest_sent,
                                     !.armed = @ \/ s.established]]
              /\ data' = [data EXCEPT ![f] = Append(@, Again(s))]
  /\ UNCHANGED conn

ReceiveAck(f, a) ==
  \/ OldAck(f, a) \/ NewAck(f, a) \/ RecoveryEnds(f, a) \/ PartialAck(f, a)
  \/ DuplicateInRecovery(f, a) \/ DuplicateAck(f, a) \/ ThirdDuplicate(f, a)
------------------------------------------------------------------------------
\* rtx_timer_hook, called by the scanner, of an expired timer: the timeout is
\* put on the event list and the timer set again.  The timers of a flow that is
\* all acknowledged are left to rest, which bounds what is sent past its end.
RtxTimerHook(f) ==
  /\ src[f].armed
  /\ src[f].highest_sent # 0
  /\ ~src[f].rtx_timeout_pending
  /\ src[f].last_acked <= FlowSize + 1
  /\ src' = [src EXCEPT ![f].rtx_timeout_pending = TRUE, ![f].scheduled = TRUE]
  /\ UNCHANGED <<data, conn>>

\* do_next_event, of the start.
StartFlow(f) ==
  /\ src[f].scheduled /\ ~src[f].rtx_timeout_pending
  /\ SendPackets(f, [src[f] EXCEPT !.scheduled = FALSE, !.established = FALSE], << >>)

\* do_next_event, of a timeout: back to one segment and to the last ACK.
Timeout(f) ==
  /\ src[f].scheduled /\ src[f].rtx_timeout_pending
  /\ LET s == src[f]
         window == IF s.in_fast_recovery
                   THEN Lesser(s.ssthresh, s.highest_sent - s.last_acked + MSS)
                   ELSE s.cwnd
     IN  src' = [src EXCEPT ![f] =
                   [s EXCEPT !.scheduled = FALSE, !.rtx_timeout_pending = FALSE,
                             !.ssthresh = Threshold(window),
                             !.cwnd = MSS,
                             !.in_fast_recovery = FALSE,
                             !.recoverq = s.highest_sent,
                             !.dupacks = 0,
                             !.highest_sent = Rewound(s),
                             !.armed = @ \/ s.established]]
  /\ data' = [data EXCEPT ![f] = Append(@, Again(src[f]))]
  /\ UNCHANGED conn

\* do_next_event of the connection, every second: send_packets of each subflow in
\* turn, those before taking their data numbers first.

Wanted == [f \in Flow |-> IF src[f].established THEN Burst(src[f]) ELSE 0]

\* How many numbers the first n subflows get.
Numbered(n) == Lesser(Granted(conn), FoldFunctionOnSet(+, 0, Wanted, 1 .. n))

Polled(f) ==
  IF src[f].established
  THEN NextSegments(src[f], Numbered(f) - Numbered(f - 1), Numbered(f - 1))
  ELSE <<Syn>>

Poll ==
  /\ conn.cc_type # "NONE"
  /\ src' = [f \in Flow |-> Sent(src[f], Polled(f))]
  /\ data' = [f \in Flow |-> data[f] \o Polled(f)]
  /\ conn' = Given(conn, Numbered(Cardinality(Flow)))
------------------------------------------------------------------------------
TypeOK ==
  /\ src \in [Flow -> [highest_sent : Nat, last_acked : Nat, cwnd : Nat, ssthresh : Nat,
                       dupacks : Nat, recoverq : Nat, established : BOOLEAN,
                       in_fast_recovery : BOOLEAN, armed : BOOLEAN,
                       rtx_timeout_pending : BOOLEAN, scheduled : BOOLEAN]]
  /\ data \in [Flow -> Seq([seqno : Nat, size : {1, MSS}, data_seqno : Nat])]
  /\ conn.highest_sent \in Nat

\* The window never falls below a segment, nor the threshold below two, or one of
\* a coupled subflow, which loses a share of the windows of all: a window of zero
\* would divide by zero in inflate_window and never send again
\* (tcp.py:327, 343-347, 415, 450, 606-610; multipath_tcp.py:341, 481-502).
WindowOpen ==
  \A f \in Flow : /\ src[f].cwnd >= MSS
                 /\ src[f].ssthresh >= IF conn.cc_type = "NONE" THEN 2 * MSS ELSE MSS

\* While something is outstanding the timer is set, so a loss of everything
\* under way is repaired (tcp.py:297-303, 475, 513, 556, 592).
TimerGuards == \A f \in Flow : src[f].last_acked < src[f].highest_sent => src[f].armed

\* A SYN sent again is still the only thing sent (the assertion tcp.py:530).
OnlySynBefore == \A f \in Flow : ~src[f].established => src[f].highest_sent \in {0, 1}
==============================================================================
