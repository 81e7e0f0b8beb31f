----------------------------- MODULE MultipathSrc -----------------------------
(***************************************************************************)
(* protocols/multipath_tcp.py, class MultipathTcpSrc: how the windows of   *)
(* the subflows of one connection depend on each other, and the data       *)
(* sequence numbers they take from one counter.  A connection is a record; *)
(* a TcpSrc that has joined none has the one of type "NONE".               *)
(* Its flags are as in the code: MODEL_RECEIVE_WINDOW is on, the others    *)
(* are off.  Its own receivePacket is left out, nothing calls it.          *)
(***************************************************************************)
EXTENDS Naturals, FiniteSets, Functions

CONSTANT DataUnit  \* 1000, by which the counter advances whatever the segment

Coupled == {"UNCOUPLED", "FULLY_COUPLED", "COUPLED_INC", "COUPLED_TCP",
            "COUPLED_EPSILON", "COUPLED_SCALABLE_TCP"}

NoConnection == [cc_type |-> "NONE", receive_window |-> 0, highest_sent |-> 0, last_acked |-> 0]

Connection(cc_type, window) ==
  [cc_type |-> cc_type, receive_window |-> window, highest_sent |-> 0, last_acked |-> 0]
------------------------------------------------------------------------------
\* What deflate_window takes away from a window.
Share(c, total, cwnd) ==
  CASE c.cc_type = "COUPLED_SCALABLE_TCP" -> total \div 8
    [] c.cc_type = "FULLY_COUPLED"        -> total \div 2
    [] OTHER                              -> cwnd - cwnd \div 2

\* Slips the checks must notice: a number for each burst instead of each segment, a
\* window reduced without its floor, and data numbers left before the window is added.
NumbersPerBurst(c, k) == IF c.cc_type = "NONE" THEN 0 ELSE c.highest_sent + 1
DeflatedFreely(c, total, cwnd, mss) ==
  IF Share(c, total, cwnd) > cwnd THEN 0 ELSE cwnd - Share(c, total, cwnd)

LeavesWindowOut(c) ==
  IF c.last_acked <= c.highest_sent THEN 0
  ELSE (c.last_acked - c.highest_sent - 1) \div DataUnit + 1

\* compute_total_window.
TotalWindow(subflows) ==
  LET window == [f \in DOMAIN subflows |->
                   IF subflows[f].in_fast_recovery THEN subflows[f].ssthresh
                   ELSE subflows[f].cwnd]
  IN  FoldFunction(+, 0, window)

\* How much inflate_window may add to a window.  COUPLED_INC and COUPLED_EPSILON
\* weigh round-trip times and round at random, up to what TCP would add.
Increments(c, subflows, cwnd, newly, mss) ==
  LET tcp_inc == (newly * mss) \div cwnd
      subs == Cardinality(DOMAIN subflows) * Cardinality(DOMAIN subflows)
      up == IF tcp_inc % subs >= subs \div 2 THEN 1 ELSE 0
      part == (newly * mss) \div TotalWindow(subflows)
  IN  IF tcp_inc = 0 THEN {0}
      ELSE CASE c.cc_type \in {"COUPLED_INC", "COUPLED_EPSILON"} -> 0 .. tcp_inc
             [] c.cc_type = "COUPLED_SCALABLE_TCP" -> {newly \div 100}
             [] c.cc_type = "FULLY_COUPLED" -> {IF part > tcp_inc THEN tcp_inc ELSE part}
             [] c.cc_type = "COUPLED_TCP" -> {tcp_inc \div subs + up}
             [] OTHER -> {tcp_inc}

\* deflate_window.
Deflated(c, total, cwnd, mss) ==
  IF Share(c, total, cwnd) + mss > cwnd THEN mss ELSE cwnd - Share(c, total, cwnd)

\* How many numbers getDataSeq gives before it refuses.
Granted(c) ==
  IF c.last_acked + c.receive_window <= c.highest_sent THEN 0
  ELSE (c.last_acked + c.receive_window - c.highest_sent - 1) \div DataUnit + 1

\* The k-th of them; a source without a connection sends zero.
DataSeq(c, k) == IF c.cc_type = "NONE" THEN 0 ELSE c.highest_sent + 1 + (k - 1) * DataUnit

\* The connection after n of them.
Given(c, n) ==
  IF c.cc_type = "NONE" THEN c ELSE [c EXCEPT !.highest_sent = @ + n * DataUnit]
==============================================================================
