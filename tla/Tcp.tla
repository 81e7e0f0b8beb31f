--------------------------------- MODULE Tcp ---------------------------------
(***************************************************************************)
(* TCP sources and sinks over a network whose queues drop packets, each    *)
(* flow on a path of its own; with several flows, the subflows of one      *)
(* MPTCP connection.  Packets on one route keep their order; a new route,  *)
(* or the paths the sink takes in turn for its acknowledgements, let a     *)
(* packet overtake others.                                                 *)
(***************************************************************************)
EXTENDS Naturals, SequencesExt, FiniteSets

CONSTANTS
  Flow, MSS, FlowBytes, InitialWindow, InitialThresh, MaxCwnd, DupAckThreshold,
  DataUnit,
  Connections,  \* the connections that may be: conn at first
  MaxMishaps,   \* bound on the packets lost or overtaking
  MaxEarly,     \* bound on the times a flow's timer expires, or its connection sends its
                \* SYN again, with packets of it under way
  MaxPolls      \* bound on the events of the connection that send something

ASSUME TcpSrcAssumption ==
  /\ IsFiniteSet(Flow) /\ Flow = 1 .. Cardinality(Flow)
  /\ MSS \in Nat \ {0} /\ DataUnit \in Nat \ {0} /\ FlowBytes \in Nat
  /\ InitialWindow \in Nat /\ InitialWindow >= MSS
  /\ InitialThresh \in Nat /\ InitialThresh >= 2 * MSS
  /\ MaxCwnd \in Nat /\ MaxCwnd >= MSS
  /\ DupAckThreshold \in Nat \ {0}

ASSUME BoundsAssumption == MaxMishaps \in Nat /\ MaxEarly \in Nat /\ MaxPolls \in Nat

VARIABLES
  src, data, conn, sink, acks, msink,
  mishaps,    \* how many packets have been lost or have overtaken others
  early,      \* how often that has happened
  polls,      \* how often the connection's event has sent something
  arrived     \* of each flow the segments that have arrived

S == INSTANCE TcpSrc
K == INSTANCE TcpSink

ASSUME ConnectionsAssumption ==
  \A c \in Connections :
    \/ c = S!NoConnection
    \/ \E cc_type \in S!Coupled :
         c.receive_window \in Nat /\ c = S!Connection(cc_type, c.receive_window)

\* _packets_mapped has a column for each of four subflows, a fifth is out of its range.
ASSUME SubflowsAssumption == Connections \subseteq {S!NoConnection} \/ Cardinality(Flow) <= 4

svars == <<src, conn>>
kvars == <<sink, msink>>
vars == <<svars, data, kvars, acks, mishaps, early, polls, arrived>>

Init == /\ S!Init /\ K!Init
        /\ conn \in Connections
        /\ mishaps = 0 /\ early = 0 /\ polls = 0
        /\ arrived = [f \in Flow |-> {}]
------------------------------------------------------------------------------
\* The sink takes the next segment that gets through.
DeliverData(f) ==
  /\ data[f] # << >>
  /\ data' = [data EXCEPT ![f] = Tail(@)]
  /\ UNCHANGED <<svars, mishaps, early, polls>>
  /\ arrived' = [arrived EXCEPT ![f] = @ \cup {Head(data[f])}]
  /\ K!ReceivePacket(f, Head(data[f]))

\* The source takes the next acknowledgement that gets through.
DeliverAck(f) ==
  /\ acks[f] # << >>
  /\ acks' = [acks EXCEPT ![f] = Tail(@)]
  /\ UNCHANGED <<kvars, mishaps, early, polls, arrived>>
  /\ S!ReceiveAck(f, Head(acks[f]))

Mishap == mishaps < MaxMishaps /\ mishaps' = mishaps + 1

\* A queue of the path drops a packet.
LoseData(f) ==
  /\ Mishap
  /\ \E i \in DOMAIN data[f] : data' = [data EXCEPT ![f] = RemoveAt(@, i)]
  /\ UNCHANGED <<svars, kvars, acks, early, polls, arrived>>

LoseAck(f) ==
  /\ Mishap
  /\ \E i \in DOMAIN acks[f] : acks' = [acks EXCEPT ![f] = RemoveAt(@, i)]
  /\ UNCHANGED <<svars, data, kvars, early, polls, arrived>>

\* replace_route: a segment on the new route overtakes those on the old one.
SegmentOvertakes(f) ==
  /\ Mishap
  /\ \E i \in 2 .. Len(data[f]) : data' = [data EXCEPT ![f] = <<@[i]>> \o RemoveAt(@, i)]
  /\ UNCHANGED <<svars, kvars, acks, early, polls, arrived>>

\* set_paths of the sink: acknowledgements go by several paths in turn.
AckOvertakes(f) ==
  /\ Mishap
  /\ \E i \in 2 .. Len(acks[f]) : acks' = [acks EXCEPT ![f] = <<@[i]>> \o RemoveAt(@, i)]
  /\ UNCHANGED <<svars, data, kvars, early, polls, arrived>>

UnderWay(f) == data[f] # << >> \/ acks[f] # << >>

\* The timer of a flow expires, late when nothing of it is under way, or early.
TimerExpires(f) ==
  /\ S!RtxTimerHook(f)
  /\ early' = IF UnderWay(f) THEN early + 1 ELSE early
  /\ early' <= MaxEarly
  /\ UNCHANGED <<kvars, acks, mishaps, polls, arrived>>

\* The source's own event.
SourceEvent(f) ==
  /\ S!StartFlow(f) \/ S!Timeout(f)
  /\ UNCHANGED <<kvars, acks, mishaps, early, polls, arrived>>

\* The connection's event, from 3 s on, a second apart, whatever is under way; the
\* subflows have started by then.
ConnectionEvent ==
  /\ \A f \in Flow : src[f].highest_sent > 0
  /\ S!Poll
  /\ early' = IF \E f \in Flow : ~src[f].established /\ UnderWay(f) THEN early + 1 ELSE early
  /\ early' <= MaxEarly
  /\ polls' = IF data' = data THEN polls ELSE polls + 1
  /\ polls' <= MaxPolls
  /\ UNCHANGED <<kvars, acks, mishaps, arrived>>

Next ==
  \/ \E f \in Flow :
       \/ DeliverData(f) \/ DeliverAck(f) \/ LoseData(f) \/ LoseAck(f)
       \/ SegmentOvertakes(f) \/ AckOvertakes(f) \/ TimerExpires(f) \/ SourceEvent(f)
  \/ ConnectionEvent

\* Every event on the event list is run in the end: queues serve, pipes deliver,
\* the scanner polls, and a source's own event comes.
Fairness ==
  \A f \in Flow : /\ WF_vars(DeliverData(f)) /\ WF_vars(DeliverAck(f))
                  /\ WF_vars(TimerExpires(f)) /\ WF_vars(SourceEvent(f))

Spec == Init /\ [][Next]_vars /\ Fairness
------------------------------------------------------------------------------
TypeOK == /\ S!TypeOK /\ K!TypeOK
          /\ mishaps \in 0 .. MaxMishaps /\ early \in 0 .. MaxEarly /\ polls \in 0 .. MaxPolls

WindowOpen == S!WindowOpen
TimerGuards == S!TimerGuards
OnlySynBefore == S!OnlySynBefore
NothingHeldBack == K!NothingHeldBack

\* The segments from the SYN to a byte.
Upto(end) == IF end = 0 THEN {} ELSE {1} \cup {2 + k * MSS : k \in 0 .. (end - 1) \div MSS - 1}

\* Whatever is lost, reordered or sent too early, the sink acknowledges only what
\* has arrived, and the source believes no more than the sink has said
\* (tcp.py:258-354, 813-849).
AckedArrived ==
  \A f \in Flow :
    /\ Upto(sink[f].cumulative_ack) \subseteq {segment.seqno : segment \in arrived[f]}
    /\ \A i \in DOMAIN acks[f] : acks[f][i] <= sink[f].cumulative_ack
    /\ src[f].last_acked <= sink[f].cumulative_ack

\* The data numbers of a flow's segments, with the segments that carry them.
Carried(f) ==
  {<<f, segment.seqno, segment.data_seqno>> :
     segment \in {x \in ToSet(data[f]) \cup arrived[f] : x.data_seqno # 0}}

\* The data numbers given to the subflows.
GivenNumbers == {1 + k * DataUnit : k \in 0 .. (conn.highest_sent \div DataUnit) - 1}

\* The subflows take their data numbers from one counter, whatever each sends or
\* sends again when the connection polls them: no number goes to two segments, none
\* is made up, and none is gone but by a loss, one at each
\* (multipath_tcp.py:271-283, 909-928; tcp.py:492-502, 542).
DataOnce ==
  LET carried == UNION {Carried(f) : f \in Flow}
      numbers == {x[3] : x \in carried}
  IN  /\ \A x, y \in carried : x[3] = y[3] => x = y
      /\ numbers \subseteq GivenNumbers
      /\ Cardinality(GivenNumbers \ numbers) <= mishaps

\* The sink of the connection acknowledges whole segments, all of which have arrived,
\* on whatever subflow, and keeps only such.  It counts bytes and the source steps of
\* DataUnit: it is ahead of what the source has given by what a segment has more
\* (multipath_tcp.py:275, 1047-1069).
DataArrived ==
  LET numbers == UNION {{segment.data_seqno : segment \in arrived[f]} : f \in Flow}
  IN  /\ {1 + k * MSS : k \in 0 .. (msink.cumulative_ack \div MSS) - 1} \subseteq numbers
      /\ ToSet(msink.received) \subseteq numbers
      /\ msink.cumulative_ack > 0 => msink.cumulative_ack + DataUnit <= conn.highest_sent + MSS

\* The source never takes back what it knows to be acknowledged, and never falls
\* behind it when a timeout sends it back (tcp.py:300-301, 617).
NeverBehind ==
  [][\A f \in Flow : /\ src'[f].last_acked >= src[f].last_acked
                     /\ src'[f].highest_sent >= src'[f].last_acked]_vars

\* Every flow gets through: all its bytes are acknowledged in the end.
FlowCompletes == \A f \in Flow : <>(src[f].last_acked >= FlowBytes + 1)
==============================================================================
