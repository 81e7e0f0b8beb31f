-------------------------------- MODULE MCTcp --------------------------------
(* Segments of two bytes; a flow of four of them, for which the code sends *)
(* six (set_flowsize adds one, the loop of send_packets another).          *)
EXTENDS Tcp, TLC

MCFlow == {1}
MCConnections == {S!NoConnection}
==============================================================================
