------------------------------ MODULE SysCallers ------------------------------
(***************************************************************************)
(* The event queue of system/sys.py under callers that do anything it      *)
(* allows: a handler files further events, as often as it likes and at any *)
(* delay from MinCycles on, and then returns or raises.                    *)
(***************************************************************************)
EXTENDS SysEvents

CONSTANTS
  MinCycles,   \* the shortest delay a caller asks for
  MaxPending   \* bound on the events filed at once

ASSUME CyclesAssumption == MinCycles \in Nat

Handle ==
  /\ called # None
  /\ \/ Return
     \/ /\ pending_events < MaxPending
        /\ \E e \in Event, c \in MinCycles .. MaxCycles : Register(e, c)
        /\ UNCHANGED called

EventsNext == CallEvents \/ Handle

\* The loop of AnaSim.Run goes on while it has a task, and every handler comes
\* to an end.
EventsSpec == EventsInit /\ [][EventsNext]_events /\ WF_events(EventsNext)
------------------------------------------------------------------------------
Filed(e) ==
  \/ \E c \in Cycles : ~ (calling /\ c = 0) /\ e \in ToSet(event_queue[c])
  \/ e \in ToSet(batch)

\* Every event that is registered is called, however many others its callers
\* and the other events keep registering (sys.py:446, ana_sim.py:67-77).
EventuallyCalled == \A e \in Event : Filed(e) ~> called = e
==============================================================================
