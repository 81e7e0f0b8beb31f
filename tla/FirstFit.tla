------------------------------- MODULE FirstFit -------------------------------
(***************************************************************************)
(* datacenter/firstfit.py: flows that have moved enough bytes since the    *)
(* last scan get a path of their own, the first of those whose fullest     *)
(* queue carries the fewest flows; flows that have moved too few give      *)
(* theirs back.  run() is called by its user: with a scan period the       *)
(* constructor fails (firstfit.py:65 calls what EventList does not have).  *)
(* A route is the sequence of its cables, which stand for the queues at    *)
(* its odd places.                                                         *)
(***************************************************************************)
EXTENDS Naturals, SequencesExt, FiniteSetsExt

CONSTANTS
  NetPaths,   \* the net_paths a topology may give: the routes of a pair of hosts
  Threshold,  \* threshold, in bytes
  MaxFlows,   \* bound on the flows
  MaxAcked    \* bound on the bytes of a flow between scans

CablesOf(paths) ==
  UNION {UNION {ToSet(route) : route \in ToSet(paths[pair])} : pair \in DOMAIN paths}

ASSUME FirstFitAssumption ==
  /\ {Threshold, MaxFlows, MaxAcked} \subseteq Nat
  /\ \A paths \in NetPaths : \A pair \in DOMAIN paths :
       paths[pair] \in Seq(Seq(CablesOf(paths)) \ {<< >>})

VARIABLES
  net_paths,        \* net_paths, fixed
  flow_counters,    \* the entries of flow_counters in the order they were added
  path_allocations  \* how many flows are counted on each cable

vars == <<net_paths, flow_counters, path_allocations>>

\* acked is _last_acked of the TCP source less byte_counter.
Entry == [pair : DOMAIN net_paths, acked : 0 .. MaxAcked, allocated : BOOLEAN,
          route : {<< >>} \cup UNION {ToSet(net_paths[pair]) : pair \in DOMAIN net_paths}]

\* The topology adds its queues, and the net_paths are set.
Init ==
  /\ net_paths \in NetPaths
  /\ flow_counters = << >>
  /\ path_allocations = [c \in CablesOf(net_paths) |-> 0]
------------------------------------------------------------------------------
CostOf(route, loads) == Max({0} \cup {loads[c] : c \in ToSet(route)})

\* Slips the checks must notice: the last of the candidates, and a route given
\* back but for its last queue.
LastRoute(routes, loads) == Len(routes)
ReleasedButLast(route, loads) ==
  [c \in DOMAIN loads |-> IF c \in ToSet(Front(route)) THEN loads[c] - 1 ELSE loads[c]]

\* The first of the cheapest routes.
Best(routes, loads) ==
  CHOOSE i \in DOMAIN routes : \A j \in DOMAIN routes :
    \/ CostOf(routes[i], loads) < CostOf(routes[j], loads)
    \/ CostOf(routes[i], loads) = CostOf(routes[j], loads) /\ i <= j

Released(route, loads) == [c \in DOMAIN loads |-> IF c \in ToSet(route) THEN loads[c] - 1 ELSE loads[c]]
Taken(route, loads) == [c \in DOMAIN loads |-> IF c \in ToSet(route) THEN loads[c] + 1 ELSE loads[c]]

\* Another slip: a flow that has slowed down, whether or not it still has a route.
HasSlowed(flow) == flow.acked < Threshold

IsIdle(flow) == flow.allocated /\ flow.acked < Threshold
IsBusy(flow) == ~flow.allocated /\ flow.acked > Threshold

------------------------------------------------------------------------------
\* The two passes of run, over one flow each.
GiveBack(state, i) ==
  LET flow == state.flows[i]
  IN  IF IsIdle(flow)
      THEN [flows |-> [state.flows EXCEPT ![i].allocated = FALSE],
            loads |-> Released(flow.route, state.loads)]
      ELSE state

Place(state, i) ==
  LET flow == state.flows[i]
      routes == net_paths[flow.pair]
      counted == [state.flows EXCEPT ![i].acked = 0]
      chosen == routes[Best(routes, state.loads)]
  IN  IF IsBusy(flow) /\ routes # << >>
      THEN [flows |-> [counted EXCEPT ![i].allocated = TRUE, ![i].route = chosen],
            loads |-> Taken(chosen, state.loads)]
      ELSE [state EXCEPT !.flows = counted]

Scanned ==
  LET numbers == [i \in DOMAIN flow_counters |-> i]
      before == [flows |-> flow_counters, loads |-> path_allocations]
  IN  FoldLeft(Place, FoldLeft(GiveBack, before, numbers), numbers)

Run ==
  /\ flow_counters # << >>
  /\ flow_counters' = Scanned.flows
  /\ path_allocations' = Scanned.loads
  /\ UNCHANGED net_paths

\* add_flow, of a flow that is not known yet; the route it has is not counted.
AddFlow ==
  /\ Len(flow_counters) < MaxFlows
  /\ \E pair \in DOMAIN net_paths :
       flow_counters' = Append(flow_counters, [pair |-> pair, acked |-> 0, allocated |-> FALSE,
                                               route |-> << >>])
  /\ UNCHANGED <<net_paths, path_allocations>>

\* The TCP source of a flow takes an acknowledgement.
Acked ==
  /\ \E i \in DOMAIN flow_counters :
       /\ flow_counters[i].acked < MaxAcked
       /\ flow_counters' = [flow_counters EXCEPT ![i].acked = @ + 1]
  /\ UNCHANGED <<net_paths, path_allocations>>

Next == Run \/ AddFlow \/ Acked

Spec == Init /\ [][Next]_vars
------------------------------------------------------------------------------
TypeOK ==
  /\ net_paths \in NetPaths
  /\ flow_counters \in Seq(Entry) /\ Len(flow_counters) <= MaxFlows
  /\ \A c \in DOMAIN path_allocations : path_allocations[c] \in 0 .. MaxFlows

\* Nothing leaks: a queue is counted for just the flows that hold a route over it,
\* however often they came, slowed down and came back (firstfit.py:102-111, 174-180).
AllocationsCounted ==
  \A c \in DOMAIN path_allocations :
    path_allocations[c] =
      Cardinality({i \in DOMAIN flow_counters :
                     flow_counters[i].allocated /\ c \in ToSet(flow_counters[i].route)})

\* A flow that is given a route gets one no fuller than any other it could have
\* had, the flows placed before it in the same scan counted and those that gave
\* theirs back not (firstfit.py:132-180).
LeastLoaded ==
  [][\A i \in DOMAIN flow_counters :
       ~flow_counters[i].allocated /\ flow_counters'[i].allocated =>
         LET held == {j \in DOMAIN flow_counters :
                        /\ j # i /\ flow_counters'[j].allocated
                        /\ j < i \/ flow_counters[j].allocated}
             load(c) == Cardinality({j \in held : c \in ToSet(flow_counters'[j].route)})
             cost(route) == Max({load(c) : c \in ToSet(route)})
         IN  \A route \in ToSet(net_paths[flow_counters[i].pair]) :
               cost(flow_counters'[i].route) <= cost(route)]_vars

\* Every scan places each flow that has moved enough: the topology has a route for
\* it, and the bytes counted are those since the last scan (firstfit.py:123-132).
BusyPlaced ==
  [][Run => \A i \in DOMAIN flow_counters :
              flow_counters[i].acked > Threshold => flow_counters'[i].allocated]_vars

==============================================================================
