------------------------------- MODULE SysEvents -------------------------------
(***************************************************************************)
(* system/sys.py on top of network_frontend/analytical/ana_sim.py: the     *)
(* events of a node.  An event is filed under its tick; the first one of a *)
(* tick asks the simulator for a CallEvents task, and the task walks a     *)
(* copy of what is filed there and deletes the whole list at the end.      *)
(* Ticks are counted from now.  A key of the dictionary event_queue is     *)
(* made together with its first entry, so a tick with no key is one with   *)
(* an empty list.                                                          *)
(***************************************************************************)
EXTENDS Integers, SequencesExt

CONSTANTS
  Event,       \* what may be registered: a callable with its event type
  None,
  MaxCycles    \* the longest delay a caller asks for

ASSUME EventsAssumption == MaxCycles \in Nat /\ None \notin Event

VARIABLES
  event_queue,     \* the events filed under each tick
  pending_events,
  call_list,       \* how many CallEvents tasks are due in each tick
  calling,         \* whether call_events is walking its copy of the list
  batch,           \* what is left of the copy
  called           \* the event being handled, None between two of them

events == <<event_queue, pending_events, call_list, calling, batch, called>>

Cycles == 0 .. MaxCycles

\* The main program calls one handler before the simulator runs.
EventsInit ==
  /\ event_queue = [c \in Cycles |-> << >>]
  /\ pending_events = 0
  /\ call_list = [c \in Cycles |-> 0]
  /\ calling = FALSE
  /\ batch = << >>
  /\ called \in Event
------------------------------------------------------------------------------
\* Slips the checks must notice: a task for the first event of all only, a heap
\* that yields the latest task, a counter that a whole batch lowers once.
ScheduledOnce(q, c) == \A d \in Cycles : q[d] = << >>
PopsLatest(T) == Max(T)
LowersPerBatch(p, b) == IF Len(b) = 1 THEN p - 1 ELSE p

\* A tick gets a CallEvents task with the first event filed under it.
NeedsTask(q, c) == q[c] = << >>

\* try_register_event; the handler goes on.
Register(e, c) ==
  /\ event_queue' = [event_queue EXCEPT ![c] = Append(@, e)]
  /\ pending_events' = pending_events + 1
  /\ call_list' = [call_list EXCEPT ![c] = IF NeedsTask(event_queue, c) THEN @ + 1 ELSE @]
  /\ UNCHANGED <<calling, batch>>

\* The handler returns, or raises: an exception is swallowed.
Return ==
  /\ called' = None
  /\ UNCHANGED <<event_queue, pending_events, call_list, calling, batch>>

\* The heap gives up its least task.
Popped(T) == Min(T)

Due == {c \in Cycles : call_list[c] > 0}

\* AnaSim.Run takes the next task, moves the clock there and calls call_events,
\* which copies the list of that tick, if there is one.
Run ==
  /\ ~ calling /\ called = None
  /\ Due # {}
  /\ LET t == Popped(Due)
         Filed(c) == IF c + t \in Cycles THEN event_queue[c + t] ELSE << >>
         Tasks(c) == IF c + t \in Cycles THEN call_list[c + t] ELSE 0
     IN  /\ event_queue' = [c \in Cycles |-> Filed(c)]
         /\ call_list' = [c \in Cycles |-> IF c = 0 THEN Tasks(c) - 1 ELSE Tasks(c)]
         /\ calling' = (event_queue[t] # << >>)
         /\ batch' = event_queue[t]
  /\ UNCHANGED <<pending_events, called>>

Lowered(p, b) == p - 1

CallNext ==
  /\ calling /\ called = None
  /\ batch # << >>
  /\ pending_events' = Lowered(pending_events, batch)
  /\ called' = Head(batch)
  /\ batch' = Tail(batch)
  /\ UNCHANGED <<event_queue, call_list, calling>>

\* The list of the tick goes, with what has been filed there meanwhile.
BatchEnds ==
  /\ calling /\ called = None
  /\ batch = << >>
  /\ event_queue' = [event_queue EXCEPT ![0] = << >>]
  /\ calling' = FALSE
  /\ UNCHANGED <<pending_events, call_list, batch, called>>

CallEvents == Run \/ CallNext \/ BatchEnds
------------------------------------------------------------------------------
EventsTypeOK ==
  /\ event_queue \in [Cycles -> Seq(Event)]
  /\ pending_events \in Int
  /\ call_list \in [Cycles -> Nat]
  /\ calling \in BOOLEAN
  /\ batch \in Seq(Event)
  /\ called \in Event \cup {None}

\* A tick has a task exactly when events are filed under it, and never two of
\* them, so that a heap that orders by time alone (ana_sim.py:25) has nothing
\* to confuse; the tick being walked has none left (sys.py:446-459).
Woken ==
  \A c \in Cycles :
    call_list[c] = IF event_queue[c] = << >> \/ (calling /\ c = 0) THEN 0 ELSE 1

\* The events that are filed and have not been called.
Lengths == [c \in Cycles |-> Len(event_queue[c])]
Uncalled ==
  Len(batch) + FoldFunctionOnSet(+, 0, Lengths, {c \in Cycles : ~ calling \/ c > 0})

\* pending_events counts the events that wait and have not been called: an
\* event that the end of a walk deletes uncalled (sys.py:479) leaves it too high
\* for ever.
PendingCounted == pending_events = Uncalled
==============================================================================
