-------------------------------- MODULE TcpSink --------------------------------
(***************************************************************************)
(* protocols/tcp.py, class TcpSink: it acknowledges every segment with the *)
(* end of what it has in order, and keeps the numbers of segments that     *)
(* came too early in a list that is meant to be sorted.  The sink of a     *)
(* multipath connection, class MultipathTcpSink of                         *)
(* protocols/multipath_tcp.py, sees each segment first and does the same   *)
(* with data sequence numbers.  The data ACK that every ACK carries is     *)
(* left out, as no source looks at it.                                     *)
(***************************************************************************)
EXTENDS Naturals, SequencesExt

CONSTANT Flow

VARIABLES
  sink,   \* of each subflow, cumulative_ack and received, the numbers past a gap
  acks,   \* of each subflow the acknowledgements sent and not yet received, in order
  msink   \* the same of the data, _mSink

Nothing == [cumulative_ack |-> 0, received |-> << >>]

Init == /\ sink = [f \in Flow |-> Nothing]
        /\ acks = [f \in Flow |-> << >>]
        /\ msink = Nothing

\* A slip the checks must notice: a gap is not looked at, the segment counts as the
\* next one.
TakesAnything(s, seqno) == seqno > s.cumulative_ack

InOrder(s, seqno) == seqno = s.cumulative_ack + 1

\* How many early segments follow on without a gap, each of the size of the one
\* that has just come.
Follow(s, end, size) ==
  LET run == {k \in 0 .. Len(s.received) :
                \A i \in 1 .. k : s.received[i] = end + (i - 1) * size + 1}
  IN  CHOOSE k \in run : \A j \in run : j <= k

\* An early segment goes before the first larger one.  A number that is in the list
\* already ends the search as well, and is appended by TcpSink but not by
\* MultipathTcpSink.
Place(list, seqno) ==
  CHOOSE i \in DOMAIN list : seqno <= list[i] /\ \A j \in 1 .. i - 1 : seqno > list[j]

Noted(list, seqno) ==
  IF list = << >> \/ seqno > Last(list) THEN Append(list, seqno)
  ELSE IF seqno = list[Place(list, seqno)] THEN Append(list, seqno)
  ELSE InsertAt(list, Place(list, seqno), seqno)

NotedOnce(list, seqno) ==
  IF list = << >> \/ seqno > Last(list) THEN Append(list, seqno)
  ELSE IF seqno = list[Place(list, seqno)] THEN list
  ELSE InsertAt(list, Place(list, seqno), seqno)

\* A sink after a segment, and the list after it if it came early.
Taken(s, seqno, size, noted) ==
  LET end == seqno + size - 1
      k == Follow(s, end, size)
  IN  IF InOrder(s, seqno)
      THEN [cumulative_ack |-> end + k * size,
            received |-> SubSeq(s.received, k + 1, Len(s.received))]
      ELSE IF seqno <= s.cumulative_ack THEN s
      ELSE [s EXCEPT !.received = noted]

ReceivePacket(f, segment) ==
  /\ msink' = Taken(msink, segment.data_seqno, segment.size,
                    NotedOnce(msink.received, segment.data_seqno))
  /\ sink' = [sink EXCEPT ![f] = Taken(@, segment.seqno, segment.size,
                                       Noted(@.received, segment.seqno))]
  /\ acks' = [acks EXCEPT ![f] = Append(@, sink'[f].cumulative_ack)]
------------------------------------------------------------------------------
TypeOK ==
  /\ {msink} \cup {sink[f] : f \in Flow} \subseteq [cumulative_ack : Nat, received : Seq(Nat)]
  /\ acks \in [Flow -> Seq(Nat)]

\* Once a gap is filled, what was kept beyond it is acknowledged ("check whether
\* there are further received packets that can be acknowledged", tcp.py:817):
\* the segment wanted next is never one that has been kept.
NothingHeldBack == \A f \in Flow : sink[f].cumulative_ack + 1 \notin ToSet(sink[f].received)
==============================================================================
