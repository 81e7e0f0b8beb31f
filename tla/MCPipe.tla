-------------------------------- MODULE MCPipe --------------------------------
(* A ring that begins with three records instead of sixteen.               *)
EXTENDS Pipe, TLC
==============================================================================
