-------------------------------- MODULE Deque --------------------------------
(***************************************************************************)
(* What core/circular_buffer.py promises to the queues that use it: an     *)
(* unbounded buffer that yields its items in the order they were pushed,   *)
(* whatever happens to its storage.  Nothing here knows of an array.       *)
(***************************************************************************)
EXTENDS Naturals, Sequences

CONSTANTS
  Item,      \* what is buffered
  MaxCount   \* bound on the number of items buffered at once

VARIABLES
  elements,  \* the buffered items, the oldest first
  result     \* the items handed back by the last pop or pop_front

dvars == <<elements, result>>

Init ==
  /\ elements = << >>
  /\ result = {}

Push(item) ==
  /\ Len(elements) < MaxCount
  /\ elements' = Append(elements, item)
  /\ result' = {}

\* The oldest item leaves.
Pop ==
  /\ elements # << >>
  /\ elements' = Tail(elements)
  /\ result' = {Head(elements)}

\* The newest item leaves.
PopFront ==
  /\ elements # << >>
  /\ elements' = SubSeq(elements, 1, Len(elements) - 1)
  /\ result' = {elements[Len(elements)]}

Next ==
  \/ \E item \in Item : Push(item)
  \/ Pop
  \/ PopFront

Spec == Init /\ [][Next]_dvars
==============================================================================
