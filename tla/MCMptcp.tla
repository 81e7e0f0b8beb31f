------------------------------- MODULE MCMptcp -------------------------------
(* Two subflows of two bytes each, for which the code sends three segments, *)
(* under every coupling; with a receive window all their segments fit in,  *)
(* sent again or not, or with one of three segments.  A segment is larger  *)
(* than the step of the connection's counter, as 9000 bytes are to 1000.   *)
EXTENDS Tcp, TLC

MCFlow == 1 .. 2

Narrow == 3
Wide == 60

MCNarrowConnections ==
  {S!Connection(cc_type, Narrow) : cc_type \in {"UNCOUPLED", "COUPLED_INC", "COUPLED_TCP"}}

\* COUPLED_EPSILON is modelled as COUPLED_INC is.
MCConnections ==
  MCNarrowConnections
    \cup {S!Connection(cc_type, Wide) : cc_type \in {"FULLY_COUPLED", "COUPLED_SCALABLE_TCP"}}

\* A loss on either subflow is repaired, and both get through, as long as the
\* receive window does not stop them (tcp.py:559-635; multipath_tcp.py:258-283, 909-928).
SubflowsComplete ==
  <>(conn.receive_window = Wide => \A f \in Flow : src[f].last_acked >= FlowBytes + 1)
==============================================================================
