----------------------------- MODULE MCSysEvents -----------------------------
(* Two callables, three delays, and as many events as may wait at once.    *)
EXTENDS SysCallers, TLC
==============================================================================
