--------------------------- MODULE PlacementProofs ----------------------------
(***************************************************************************)
(* The scans of firstfit.py count every queue for just the flows that hold *)
(* a route over it, and place each busy flow where it is no fuller than    *)
(* anywhere else: for any topology, any number of flows and any threshold. *)
(* The formulas that lay the cables of a dragonfly and of a fat tree and   *)
(* the ones that route over them agree, for every size of the two: what is *)
(* offered to two hosts are all the shortest walks from one to the other.  *)
(***************************************************************************)
EXTENDS MCFirstFit, Sums

Queues == CablesOf(net_paths)
Flows == DOMAIN flow_counters

\* A state of the scan whose queues are counted right.
Holders(flows, c) == {i \in Flows : flows[i].allocated /\ c \in ToSet(flows[i].route)}
Counted(state) == \A c \in Queues : state.loads[c] = Cardinality(Holders(state.flows, c))
States == [flows : [Flows -> Entry], loads : [Queues -> Nat]]
Good == {state \in States : Counted(state)}

Before == [flows |-> flow_counters, loads |-> path_allocations]
Numbers == [i \in Flows |-> i]

FInv ==
  /\ net_paths \in NetPaths
  /\ flow_counters \in Seq(Entry) /\ Len(flow_counters) =< MaxFlows
  /\ path_allocations \in [Queues -> Nat]
  /\ AllocationsCounted
------------------------------------------------------------------------------
LEMMA FlowsAreNumbers ==
  ASSUME FInv
  PROVE  /\ Len(flow_counters) \in Nat /\ Flows = 1 .. Len(flow_counters)
         /\ flow_counters \in [Flows -> Entry] /\ IsFiniteSet(Flows)
  <1>1. Len(flow_counters) \in Nat /\ Flows = 1 .. Len(flow_counters)
    BY DEF FInv, Flows
  <1>2. flow_counters \in [Flows -> Entry]
    BY <1>1 DEF FInv, Flows
  <1>3. IsFiniteSet(Flows)
    BY <1>1, FS_Interval
  <1>4. QED BY <1>1, <1>2, <1>3

\* The routes of a pair.
LEMMA Routes ==
  ASSUME FInv, NEW pair \in DOMAIN net_paths
  PROVE  /\ net_paths[pair] \in Seq(Seq(Queues))
         /\ \A i \in DOMAIN net_paths[pair] :
              /\ net_paths[pair][i] \in Seq(Queues) /\ net_paths[pair][i] # << >>
              /\ net_paths[pair][i] \in ToSet(net_paths[pair])
  <1>1. net_paths[pair] \in Seq(Seq(Queues) \ {<< >>})
    BY FirstFitAssumption DEF FInv, Queues
  <1>2. \A i \in DOMAIN net_paths[pair] :
          net_paths[pair][i] \in Seq(Queues) /\ net_paths[pair][i] # << >>
    BY <1>1
  <1>3. net_paths[pair] \in Seq(Seq(Queues))
    BY <1>1, <1>2
  <1>4. QED BY <1>2, <1>3 DEF ToSet

LEMMA RouteOfEntry ==
  ASSUME FInv, NEW flow \in Entry
  PROVE  /\ flow.pair \in DOMAIN net_paths /\ flow.acked \in Nat /\ flow.allocated \in BOOLEAN
         /\ flow.route \in Seq(Queues)
  <1>1. flow.pair \in DOMAIN net_paths /\ flow.acked \in 0 .. MaxAcked /\ flow.allocated \in BOOLEAN
    BY DEF Entry
  <1>2. flow.route = << >> \/ \E pair \in DOMAIN net_paths : flow.route \in ToSet(net_paths[pair])
    BY DEF Entry
  <1>3. CASE flow.route = << >>
    BY <1>1, <1>3, FirstFitAssumption
  <1>4. ASSUME NEW pair \in DOMAIN net_paths, flow.route \in ToSet(net_paths[pair])
        PROVE  flow.route \in Seq(Queues)
    <2>1. PICK i \in DOMAIN net_paths[pair] : flow.route = net_paths[pair][i]
      BY <1>4 DEF ToSet
    <2>2. QED BY <2>1, Routes
  <1>5. QED BY <1>1, <1>2, <1>3, <1>4, FirstFitAssumption

\* One holder more and one fewer.
LEMMA HoldersMove ==
  ASSUME FInv, NEW f \in [Flows -> Entry], NEW g \in [Flows -> Entry], NEW i \in Flows, NEW c,
         \A j \in Flows \ {i} : g[j] = f[j]
  PROVE  /\ IsFiniteSet(Holders(f, c)) /\ Cardinality(Holders(f, c)) \in Nat
         /\ i \in Holders(f, c) /\ i \notin Holders(g, c) =>
              Cardinality(Holders(g, c)) = Cardinality(Holders(f, c)) - 1
              /\ Cardinality(Holders(f, c)) > 0
         /\ i \notin Holders(f, c) /\ i \in Holders(g, c) =>
              Cardinality(Holders(g, c)) = Cardinality(Holders(f, c)) + 1
         /\ (i \in Holders(f, c) <=> i \in Holders(g, c)) =>
              Cardinality(Holders(g, c)) = Cardinality(Holders(f, c))
  <1>1. /\ IsFiniteSet(Holders(f, c)) /\ IsFiniteSet(Holders(g, c))
        /\ Holders(f, c) \subseteq Flows /\ Holders(g, c) \subseteq Flows
    <2>1. IsFiniteSet(Flows) /\ Holders(f, c) \subseteq Flows /\ Holders(g, c) \subseteq Flows
      BY FlowsAreNumbers DEF Holders
    <2>2. QED BY <2>1, FS_Subset
  <1>2. \A j \in Flows \ {i} : j \in Holders(f, c) <=> j \in Holders(g, c)
    BY DEF Holders
  <1>3. Cardinality(Holders(f, c)) \in Nat /\ Cardinality(Holders(g, c)) \in Nat
    BY <1>1, FS_CardinalityType
  <1>4. CASE i \in Holders(f, c) /\ i \notin Holders(g, c)
    <2>1. Holders(g, c) = Holders(f, c) \ {i}
      BY <1>1, <1>2, <1>4
    <2>2. Cardinality(Holders(f, c) \ {i}) = Cardinality(Holders(f, c)) - 1
      BY <1>1, <1>4, FS_RemoveElement
    <2>3. QED BY <1>1, <1>3, <1>4, <2>1, <2>2
  <1>5. CASE i \notin Holders(f, c) /\ i \in Holders(g, c)
    <2>1. Holders(g, c) = Holders(f, c) \cup {i}
      BY <1>1, <1>2, <1>5
    <2>2. Cardinality(Holders(f, c) \cup {i}) = Cardinality(Holders(f, c)) + 1
      BY <1>1, <1>5, FS_AddElement
    <2>3. QED BY <1>1, <1>3, <1>5, <2>1, <2>2
  <1>6. CASE i \in Holders(f, c) <=> i \in Holders(g, c)
    <2>1. Holders(g, c) = Holders(f, c)
      BY <1>1, <1>2, <1>6
    <2>2. QED BY <1>1, <1>3, <1>6, <2>1
  <1>7. QED BY <1>4, <1>5, <1>6

\* A flow that gives its route back leaves the counts right.
LEMMA GiveBackIsGood ==
  ASSUME FInv, NEW state \in Good, NEW i \in Flows
  PROVE  /\ GiveBack(state, i) \in Good
         /\ GiveBack(state, i).flows =
              [state.flows EXCEPT ![i] = IF IsIdle(state.flows[i])
                                         THEN [state.flows[i] EXCEPT !.allocated = FALSE]
                                         ELSE state.flows[i]]
  <1> DEFINE flow == state.flows[i]
  <1>1. /\ state.flows \in [Flows -> Entry] /\ state.loads \in [Queues -> Nat] /\ Counted(state)
        /\ state \in States /\ flow \in Entry
    BY DEF Good, States
  <1>2. CASE ~ IsIdle(flow)
    BY <1>1, <1>2 DEF GiveBack
  <1>3. CASE IsIdle(flow)
    <2> DEFINE flows == [state.flows EXCEPT ![i] = [flow EXCEPT !.allocated = FALSE]]
               loads == Released(flow.route, state.loads)
    <2>1. GiveBack(state, i) = [flows |-> flows, loads |-> loads]
      BY <1>1, <1>3 DEF GiveBack
    <2>2. /\ flow.allocated /\ flow.route \in Seq(Queues)
          /\ [flow EXCEPT !.allocated = FALSE] \in Entry
      BY <1>1, <1>3, RouteOfEntry DEF IsIdle, Entry
    <2>3. /\ flows \in [Flows -> Entry] /\ \A j \in Flows \ {i} : flows[j] = state.flows[j]
          /\ ~ flows[i].allocated
      BY <1>1, <2>2 DEF Entry
    <2>4. ASSUME NEW c \in Queues
          PROVE  loads[c] \in Nat /\ loads[c] = Cardinality(Holders(flows, c))
      <3>1. i \notin Holders(flows, c) /\ (i \in Holders(state.flows, c) <=> c \in ToSet(flow.route))
        BY <2>2, <2>3 DEF Holders
      <3>2. loads[c] = IF c \in ToSet(flow.route) THEN state.loads[c] - 1 ELSE state.loads[c]
        BY <1>1 DEF Released
      <3>3. state.loads[c] = Cardinality(Holders(state.flows, c))
        BY <1>1 DEF Counted
      <3> HIDE DEF flow, flows, loads
      <3>4. /\ Cardinality(Holders(state.flows, c)) \in Nat
            /\ i \in Holders(state.flows, c) /\ i \notin Holders(flows, c) =>
                 Cardinality(Holders(flows, c)) = Cardinality(Holders(state.flows, c)) - 1
                 /\ Cardinality(Holders(state.flows, c)) > 0
            /\ (i \in Holders(state.flows, c) <=> i \in Holders(flows, c)) =>
                 Cardinality(Holders(flows, c)) = Cardinality(Holders(state.flows, c))
        BY <1>1, <2>3, HoldersMove
      <3>5. QED BY <3>1, <3>2, <3>3, <3>4
    <2>5. loads \in [Queues -> Nat]
      <3>1. DOMAIN loads = Queues /\ loads = [c \in DOMAIN loads |-> loads[c]]
        BY <1>1 DEF Released
      <3> HIDE DEF loads
      <3>2. QED BY <2>4, <3>1
    <2> HIDE DEF flows, loads
    <2>6. GiveBack(state, i) \in States /\ Counted(GiveBack(state, i))
      BY <2>1, <2>3, <2>4, <2>5 DEF States, Counted
    <2>7. GiveBack(state, i).flows = flows
      BY <2>1
    <2>8. QED BY <1>3, <2>6, <2>7 DEF Good, flows
  <1>4. QED BY <1>2, <1>3
------------------------------------------------------------------------------
\* The cost of a route is the load of its fullest queue, or none.
LEMMA CostIsGreatest ==
  ASSUME NEW loads \in [Queues -> Nat], NEW route \in Seq(Queues)
  PROVE  /\ CostOf(route, loads) \in Nat
         /\ \A c \in ToSet(route) : loads[c] =< CostOf(route, loads)
         /\ CostOf(route, loads) = 0 \/ \E c \in ToSet(route) : CostOf(route, loads) = loads[c]
  <1> DEFINE Loads == {loads[c] : c \in ToSet(route)}
             Costs == {0} \cup Loads
             f == [i \in 1 .. Len(route) |-> loads[route[i]]]
  <1>1. IsFiniteSet(Loads)
    <2>1. DOMAIN route = 1 .. Len(route) /\ Len(route) \in Nat
      OBVIOUS
    <2>2. f \in Surjection(1 .. Len(route), Loads)
      BY <2>1 DEF Surjection, ToSet
    <2>3. IsFiniteSet(1 .. Len(route))
      BY <2>1, FS_Interval
    <2> HIDE DEF f, Loads
    <2>4. QED BY <2>2, <2>3, FS_Surjection
  <1>2. Costs \in SUBSET Nat /\ IsFiniteSet(Costs) /\ Costs # {}
    <2>1. \A c \in ToSet(route) : c \in Queues
      BY DEF ToSet
    <2>2. Costs \in SUBSET Nat /\ Costs # {}
      BY <2>1
    <2>3. IsFiniteSet(Costs)
      <3>1. IsFiniteSet(Loads \cup {0}) /\ Costs = Loads \cup {0}
        BY <1>1, FS_AddElement
      <3>2. QED BY <3>1
    <2>4. QED BY <2>2, <2>3
  <1>3. CostOf(route, loads) = Max(Costs)
    BY DEF CostOf
  <1>4. /\ \A c \in ToSet(route) : loads[c] \in Costs
        /\ \A n \in Costs : n = 0 \/ \E c \in ToSet(route) : n = loads[c]
    OBVIOUS
  <1> HIDE DEF Costs
  <1>5. Max(Costs) \in Costs /\ \A n \in Costs : n =< Max(Costs)
    BY <1>2, MaxIsMember
  <1>6. QED BY <1>2, <1>3, <1>4, <1>5

\* There is a cheapest route, and the first of them is taken.
LEMMA BestIsLeast ==
  ASSUME NEW loads \in [Queues -> Nat], NEW routes \in Seq(Seq(Queues)), routes # << >>
  PROVE  /\ Best(routes, loads) \in DOMAIN routes
         /\ \A j \in DOMAIN routes :
              CostOf(routes[Best(routes, loads)], loads) =< CostOf(routes[j], loads)
  <1> DEFINE cost == [i \in DOMAIN routes |-> CostOf(routes[i], loads)]
             Costs == {cost[i] : i \in DOMAIN routes}
             Cheap == {i \in DOMAIN routes : cost[i] = Min(Costs)}
  <1>1. \A i \in DOMAIN routes : cost[i] \in Nat /\ i \in Nat
    <2>1. \A i \in DOMAIN routes : routes[i] \in Seq(Queues) /\ i \in Nat
      OBVIOUS
    <2>2. QED BY <2>1, CostIsGreatest
  <1>2. Costs \in SUBSET Nat /\ Costs # {}
    <2>1. 1 \in DOMAIN routes
      OBVIOUS
    <2>2. QED BY <1>1, <2>1
  <1>3. Min(Costs) \in Costs /\ \A n \in Costs : ~ (n < Min(Costs))
    <2> HIDE DEF Costs
    <2>1. QED BY <1>2, MinIsMember, MinIsLeast
  <1>4. \A i \in DOMAIN routes : ~ (cost[i] < Min(Costs))
    BY <1>3
  <1>5. Min(Costs) \in Nat
    BY <1>2, <1>3
  <1>6. Cheap \in SUBSET Nat /\ Cheap # {}
    BY <1>1, <1>3
  <1>7. Min(Cheap) \in Cheap /\ \A n \in Cheap : ~ (n < Min(Cheap))
    <2> HIDE DEF Cheap
    <2>1. QED BY <1>6, MinIsMember, MinIsLeast
  <1> DEFINE b == Min(Cheap)
  <1>8. b \in DOMAIN routes /\ cost[b] = Min(Costs)
    BY <1>7
  <1>9. \A j \in DOMAIN routes : cost[b] < cost[j] \/ (cost[b] = cost[j] /\ b <= j)
    <2> SUFFICES ASSUME NEW j \in DOMAIN routes, ~ (cost[b] < cost[j])
                 PROVE  cost[b] = cost[j] /\ b <= j
      OBVIOUS
    <2>1. cost[b] \in Nat /\ cost[j] \in Nat /\ b \in Nat /\ j \in Nat
      BY <1>1, <1>8
    <2>2. cost[j] = cost[b]
      <3>1. ~ (cost[j] < Min(Costs))
        BY <1>4
      <3> HIDE DEF Costs, cost
      <3>2. QED BY <1>8, <2>1, <3>1
    <2>3. j \in Cheap
      <3> HIDE DEF Costs, cost, b
      <3>1. QED BY <1>8, <2>2
    <2>4. ~ (j < b)
      <3> HIDE DEF Cheap
      <3>1. QED BY <1>7, <2>3
    <2> HIDE DEF b, cost
    <2>5. QED BY <2>1, <2>2, <2>4
  <1>10. \E i \in DOMAIN routes : \A j \in DOMAIN routes :
           \/ CostOf(routes[i], loads) < CostOf(routes[j], loads)
           \/ CostOf(routes[i], loads) = CostOf(routes[j], loads) /\ i <= j
    <2> HIDE DEF b, Costs
    <2>1. \A i \in DOMAIN routes : cost[i] = CostOf(routes[i], loads)
      OBVIOUS
    <2> HIDE DEF cost
    <2>2. QED BY <1>8, <1>9, <2>1
  <1>11. /\ Best(routes, loads) \in DOMAIN routes
         /\ \A j \in DOMAIN routes :
              \/ CostOf(routes[Best(routes, loads)], loads) < CostOf(routes[j], loads)
              \/ CostOf(routes[Best(routes, loads)], loads) = CostOf(routes[j], loads)
    BY <1>10 DEF Best
  <1>12. \A j \in DOMAIN routes : CostOf(routes[j], loads) \in Nat
    BY <1>1
  <1> HIDE DEF Cheap, b, Costs, cost
  <1>13. ASSUME NEW j \in DOMAIN routes
         PROVE  CostOf(routes[Best(routes, loads)], loads) =< CostOf(routes[j], loads)
    <2>1. /\ CostOf(routes[Best(routes, loads)], loads) \in Nat
          /\ CostOf(routes[j], loads) \in Nat
      BY <1>11, <1>12
    <2> DEFINE best == CostOf(routes[Best(routes, loads)], loads)
               other == CostOf(routes[j], loads)
    <2>2. best < other \/ best = other
      BY <1>11
    <2>3. best \in Nat /\ other \in Nat
      BY <2>1
    <2> HIDE DEF best, other
    <2>4. best =< other
      BY <2>2, <2>3
    <2>5. QED BY <2>4 DEF best, other
  <1>14. QED BY <1>11, <1>13

\* The flow that Place leaves.
Chosen(state, i) ==
  net_paths[state.flows[i].pair][Best(net_paths[state.flows[i].pair], state.loads)]
Placed(state, i) ==
  IF IsBusy(state.flows[i]) /\ net_paths[state.flows[i].pair] # << >>
  THEN [state.flows[i] EXCEPT !.acked = 0, !.allocated = TRUE, !.route = Chosen(state, i)]
  ELSE [state.flows[i] EXCEPT !.acked = 0]

\* A flow that takes a route leaves the counts right.
LEMMA PlaceIsGood ==
  ASSUME FInv, NEW state \in Good, NEW i \in Flows
  PROVE  /\ Place(state, i) \in Good
         /\ Place(state, i).flows = [state.flows EXCEPT ![i] = Placed(state, i)]
  <1> DEFINE flow == state.flows[i]
             routes == net_paths[flow.pair]
             chosen == Chosen(state, i)
             flows == [state.flows EXCEPT ![i] = Placed(state, i)]
  <1>1. /\ state.flows \in [Flows -> Entry] /\ state.loads \in [Queues -> Nat] /\ Counted(state)
        /\ state \in States /\ flow \in Entry
        /\ state = [flows |-> state.flows, loads |-> state.loads]
    BY DEF Good, States
  <1>2. 0 \in 0 .. MaxAcked
    BY FirstFitAssumption
  <1>3. CASE IsBusy(flow) /\ routes # << >>
    <2> DEFINE loads == Taken(chosen, state.loads)
    <2>1. /\ flow.pair \in DOMAIN net_paths /\ routes \in Seq(Seq(Queues))
          /\ \A j \in DOMAIN routes : routes[j] \in Seq(Queues) /\ routes[j] \in ToSet(routes)
      BY <1>1, RouteOfEntry, Routes
    <2>2. chosen \in ToSet(routes)
      <3>1. Best(routes, state.loads) \in DOMAIN routes
        BY <1>1, <1>3, <2>1, BestIsLeast
      <3>2. QED BY <2>1, <3>1 DEF Chosen
    <2>3. Placed(state, i) = [flow EXCEPT !.acked = 0, !.allocated = TRUE, !.route = chosen]
      BY <1>3 DEF Placed
    <2>4. Placed(state, i) \in Entry /\ Placed(state, i).allocated /\ Placed(state, i).route = chosen
      <3>1. chosen \in {<< >>} \cup UNION {ToSet(net_paths[pair]) : pair \in DOMAIN net_paths}
        BY <2>1, <2>2
      <3> HIDE DEF chosen, routes
      <3>2. QED BY <1>1, <1>2, <2>3, <3>1 DEF Entry
    <2>5. Place(state, i) = [flows |-> flows, loads |-> loads]
      <3>1. [[[state.flows EXCEPT ![i].acked = 0] EXCEPT ![i].allocated = TRUE] EXCEPT ![i].route = chosen]
              = flows
        <4> HIDE DEF chosen
        <4>1. QED BY <1>1, <2>3 DEF Entry
      <3>2. Place(state, i) =
              [flows |-> [[state.flows EXCEPT ![i].acked = 0] EXCEPT ![i].allocated = TRUE,
                                                                     ![i].route = chosen],
               loads |-> loads]
        BY <1>3 DEF Place, Chosen
      <3>3. [[state.flows EXCEPT ![i].acked = 0] EXCEPT ![i].allocated = TRUE, ![i].route = chosen]
              = [[[state.flows EXCEPT ![i].acked = 0] EXCEPT ![i].allocated = TRUE] EXCEPT ![i].route = chosen]
        OBVIOUS
      <3>4. QED BY <3>1, <3>2, <3>3
    <2>6. /\ flows \in [Flows -> Entry] /\ \A j \in Flows \ {i} : flows[j] = state.flows[j]
          /\ flows[i] = Placed(state, i)
      BY <1>1, <2>4
    <2>7. ASSUME NEW c \in Queues
          PROVE  loads[c] \in Nat /\ loads[c] = Cardinality(Holders(flows, c))
      <3>1. ~ flow.allocated
        BY <1>3 DEF IsBusy
      <3>2. i \notin Holders(state.flows, c) /\ (i \in Holders(flows, c) <=> c \in ToSet(chosen))
        BY <2>4, <2>6, <3>1 DEF Holders
      <3>3. loads[c] = IF c \in ToSet(chosen) THEN state.loads[c] + 1 ELSE state.loads[c]
        BY <1>1 DEF Taken
      <3>4. state.loads[c] = Cardinality(Holders(state.flows, c))
        BY <1>1 DEF Counted
      <3> HIDE DEF flow, flows, loads, chosen, routes
      <3>5. /\ Cardinality(Holders(state.flows, c)) \in Nat
            /\ i \notin Holders(state.flows, c) /\ i \in Holders(flows, c) =>
                 Cardinality(Holders(flows, c)) = Cardinality(Holders(state.flows, c)) + 1
            /\ (i \in Holders(state.flows, c) <=> i \in Holders(flows, c)) =>
                 Cardinality(Holders(flows, c)) = Cardinality(Holders(state.flows, c))
        BY <1>1, <2>6, HoldersMove
      <3>6. QED BY <3>2, <3>3, <3>4, <3>5
    <2>8. loads \in [Queues -> Nat]
      <3>1. DOMAIN loads = Queues /\ loads = [c \in DOMAIN loads |-> loads[c]]
        BY <1>1 DEF Taken
      <3> HIDE DEF loads
      <3>2. QED BY <2>7, <3>1
    <2> HIDE DEF flows, loads
    <2>9. Place(state, i) \in States /\ Counted(Place(state, i))
      BY <2>5, <2>6, <2>7, <2>8 DEF States, Counted
    <2>10. QED BY <2>5, <2>9 DEF Good, flows
  <1>4. CASE ~ (IsBusy(flow) /\ routes # << >>)
    <2>1. Placed(state, i) = [flow EXCEPT !.acked = 0]
      BY <1>4 DEF Placed
    <2>2. /\ Placed(state, i) \in Entry /\ Placed(state, i).allocated = flow.allocated
          /\ Placed(state, i).route = flow.route
      BY <1>1, <1>2, <2>1 DEF Entry
    <2>3. /\ flows \in [Flows -> Entry] /\ \A j \in Flows \ {i} : flows[j] = state.flows[j]
          /\ flows[i] = Placed(state, i)
      BY <1>1, <2>2
    <2>4. Place(state, i) = [flows |-> flows, loads |-> state.loads]
      <3>1. Place(state, i) = [state EXCEPT !.flows = [state.flows EXCEPT ![i].acked = 0]]
        BY <1>4 DEF Place
      <3>2. [state.flows EXCEPT ![i].acked = 0] = flows
        BY <1>1, <2>1
      <3> HIDE DEF flows
      <3>3. QED BY <1>1, <3>1, <3>2
    <2> HIDE DEF flows
    <2>5. ASSUME NEW c \in Queues
          PROVE  Holders(flows, c) = Holders(state.flows, c)
      BY <2>2, <2>3 DEF Holders
    <2>6. Place(state, i) \in States /\ Counted(Place(state, i))
      BY <1>1, <2>3, <2>4, <2>5 DEF States, Counted
    <2>7. QED BY <2>4, <2>6 DEF Good, flows
  <1>5. QED BY <1>3, <1>4
------------------------------------------------------------------------------
\* A fold over the flows goes through the states after each of them.
LEMMA GiveBackSteps ==
  ASSUME FInv, Before \in Good
  PROVE  \E g : /\ g[0] = Before
                /\ \A i \in Flows : g[i] = GiveBack(g[i - 1], i)
                /\ FoldLeft(GiveBack, Before, Numbers) = g[Len(flow_counters)]
  <1> DEFINE n == Len(flow_counters)
             st == [x \in Good \X (1 .. n) |-> GiveBack(x[1], x[2])]
             h == CHOOSE h : h = [s \in SUBSET (DOMAIN Numbers) |->
                                    IF s = {} THEN Before
                                    ELSE GiveBack(h[s \ {Max(s)}], Numbers[Max(s)])]
             g == [j \in 0 .. n |-> h[1 .. j]]
  <1>1. n \in Nat /\ Flows = 1 .. n /\ DOMAIN Numbers = Flows /\ IsFiniteSet(1 .. n)
    BY FlowsAreNumbers DEF Numbers
  <1>2. FoldLeft(GiveBack, Before, Numbers) = h[DOMAIN Numbers]
    BY DEF FoldLeft, MapThenFoldSet
  <1>3. \A x \in Good : \A i \in 1 .. n : GiveBack(x, i) \in Good
    BY <1>1, GiveBackIsGood
  <1> HIDE DEF n, h
  <1>4. st \in [Good \X (1 .. n) -> Good] /\ \A x \in Good : \A i \in 1 .. n : st[<<x, i>>] = GiveBack(x, i)
    BY <1>3
  <1> HIDE DEF st
  <1>5. PICK k : Steps(k, st, Before, Good, n)
    BY <1>1, <1>4, FoldExists
  <1>6. ASSUME NEW s \in SUBSET (1 .. n), s # {}
        PROVE  Max(s) \in s /\ Max(s) \in 1 .. n /\ Numbers[Max(s)] = Max(s)
    <2>1. IsFiniteSet(s)
      BY <1>1, FS_Subset
    <2>2. s \in SUBSET Nat
      OBVIOUS
    <2>3. Max(s) \in s
      BY <1>6, <2>1, <2>2, MaxIsMember
    <2>4. QED BY <1>1, <2>3 DEF Numbers
  <1>7. k = [s \in SUBSET (DOMAIN Numbers) |->
               IF s = {} THEN Before ELSE GiveBack(k[s \ {Max(s)}], Numbers[Max(s)])]
    <2>1. k \in [SUBSET (1 .. n) -> Good] /\ k[{}] = Before
      BY <1>5 DEF Steps
    <2>2. ASSUME NEW s \in SUBSET (1 .. n), s # {}
          PROVE  k[s] = GiveBack(k[s \ {Max(s)}], Numbers[Max(s)])
      <3>1. k[s] = st[<<k[s \ {Max(s)}], Max(s)>>]
        BY <1>5, <2>2 DEF Steps
      <3>2. k[s \ {Max(s)}] \in Good
        BY <2>1
      <3>3. QED BY <1>4, <1>6, <2>2, <3>1, <3>2
    <2>3. QED BY <1>1, <2>1, <2>2
  <1>8. h = [s \in SUBSET (DOMAIN Numbers) |->
               IF s = {} THEN Before ELSE GiveBack(h[s \ {Max(s)}], Numbers[Max(s)])]
    BY <1>7 DEF h
  <1>9. h[{}] = Before
    BY <1>8
  <1>10. ASSUME NEW s \in SUBSET (1 .. n), s # {}
         PROVE  h[s] = GiveBack(h[s \ {Max(s)}], Max(s))
    BY <1>1, <1>6, <1>8, <1>10
  <1>11. g[0] = Before
    <2>1. 0 \in 0 .. n /\ 1 .. 0 = {}
      BY <1>1
    <2>2. QED BY <1>9, <2>1
  <1>12. ASSUME NEW i \in Flows
         PROVE  g[i] = GiveBack(g[i - 1], i)
    <2> DEFINE s == 1 .. i
    <2>1. /\ i \in Nat /\ i \in 0 .. n /\ i - 1 \in 0 .. n /\ i \in s
          /\ s \in SUBSET (1 .. n) /\ s # {} /\ s \ {i} = 1 .. i - 1
      BY <1>1
    <2>2. Max(s) = i
      BY <2>1, MaxIsLast
    <2>3. h[s] = GiveBack(h[s \ {Max(s)}], Max(s))
      <3> HIDE DEF s
      <3>1. QED BY <1>10, <2>1
    <2>4. QED BY <2>1, <2>2, <2>3
  <1>13. FoldLeft(GiveBack, Before, Numbers) = g[n]
    BY <1>1, <1>2
  <1>14. QED BY <1>11, <1>12, <1>13 DEF n

LEMMA PlaceSteps ==
  ASSUME FInv, NEW start \in Good
  PROVE  \E g : /\ g[0] = start
                /\ \A i \in Flows : g[i] = Place(g[i - 1], i)
                /\ FoldLeft(Place, start, Numbers) = g[Len(flow_counters)]
  <1> DEFINE n == Len(flow_counters)
             st == [x \in Good \X (1 .. n) |-> Place(x[1], x[2])]
             h == CHOOSE h : h = [s \in SUBSET (DOMAIN Numbers) |->
                                    IF s = {} THEN start
                                    ELSE Place(h[s \ {Max(s)}], Numbers[Max(s)])]
             g == [j \in 0 .. n |-> h[1 .. j]]
  <1>1. n \in Nat /\ Flows = 1 .. n /\ DOMAIN Numbers = Flows /\ IsFiniteSet(1 .. n)
    BY FlowsAreNumbers DEF Numbers
  <1>2. FoldLeft(Place, start, Numbers) = h[DOMAIN Numbers]
    BY DEF FoldLeft, MapThenFoldSet
  <1>3. \A x \in Good : \A i \in 1 .. n : Place(x, i) \in Good
    BY <1>1, PlaceIsGood
  <1> HIDE DEF n, h
  <1>4. st \in [Good \X (1 .. n) -> Good] /\ \A x \in Good : \A i \in 1 .. n : st[<<x, i>>] = Place(x, i)
    BY <1>3
  <1> HIDE DEF st
  <1>5. PICK k : Steps(k, st, start, Good, n)
    BY <1>1, <1>4, FoldExists
  <1>6. ASSUME NEW s \in SUBSET (1 .. n), s # {}
        PROVE  Max(s) \in s /\ Max(s) \in 1 .. n /\ Numbers[Max(s)] = Max(s)
    <2>1. IsFiniteSet(s)
      BY <1>1, FS_Subset
    <2>2. s \in SUBSET Nat
      OBVIOUS
    <2>3. Max(s) \in s
      BY <1>6, <2>1, <2>2, MaxIsMember
    <2>4. QED BY <1>1, <2>3 DEF Numbers
  <1>7. k = [s \in SUBSET (DOMAIN Numbers) |->
               IF s = {} THEN start ELSE Place(k[s \ {Max(s)}], Numbers[Max(s)])]
    <2>1. k \in [SUBSET (1 .. n) -> Good] /\ k[{}] = start
      BY <1>5 DEF Steps
    <2>2. ASSUME NEW s \in SUBSET (1 .. n), s # {}
          PROVE  k[s] = Place(k[s \ {Max(s)}], Numbers[Max(s)])
      <3>1. k[s] = st[<<k[s \ {Max(s)}], Max(s)>>]
        BY <1>5, <2>2 DEF Steps
      <3>2. k[s \ {Max(s)}] \in Good
        BY <2>1
      <3>3. QED BY <1>4, <1>6, <2>2, <3>1, <3>2
    <2>3. QED BY <1>1, <2>1, <2>2
  <1>8. h = [s \in SUBSET (DOMAIN Numbers) |->
               IF s = {} THEN start ELSE Place(h[s \ {Max(s)}], Numbers[Max(s)])]
    BY <1>7 DEF h
  <1>9. h[{}] = start
    BY <1>8
  <1>10. ASSUME NEW s \in SUBSET (1 .. n), s # {}
         PROVE  h[s] = Place(h[s \ {Max(s)}], Max(s))
    BY <1>1, <1>6, <1>8, <1>10
  <1>11. g[0] = start
    <2>1. 0 \in 0 .. n /\ 1 .. 0 = {}
      BY <1>1
    <2>2. QED BY <1>9, <2>1
  <1>12. ASSUME NEW i \in Flows
         PROVE  g[i] = Place(g[i - 1], i)
    <2> DEFINE s == 1 .. i
    <2>1. /\ i \in Nat /\ i \in 0 .. n /\ i - 1 \in 0 .. n /\ i \in s
          /\ s \in SUBSET (1 .. n) /\ s # {} /\ s \ {i} = 1 .. i - 1
      BY <1>1
    <2>2. Max(s) = i
      BY <2>1, MaxIsLast
    <2>3. h[s] = Place(h[s \ {Max(s)}], Max(s))
      <3> HIDE DEF s
      <3>1. QED BY <1>10, <2>1
    <2>4. QED BY <2>1, <2>2, <2>3
  <1>13. FoldLeft(Place, start, Numbers) = g[n]
    BY <1>1, <1>2
  <1>14. QED BY <1>11, <1>12, <1>13 DEF n
------------------------------------------------------------------------------
\* What the first pass leaves of a flow.
Kept(i) ==
  IF IsIdle(flow_counters[i]) THEN [flow_counters[i] EXCEPT !.allocated = FALSE]
  ELSE flow_counters[i]

\* Each pass changes one flow after the other.
LEMMA GaveBack ==
  ASSUME FInv, Before \in Good, NEW g, g[0] = Before,
         \A i \in Flows : g[i] = GiveBack(g[i - 1], i),
         NEW m \in 0 .. Len(flow_counters)
  PROVE  /\ g[m] \in Good
         /\ \A i \in Flows : g[m].flows[i] = IF i =< m THEN Kept(i) ELSE flow_counters[i]
  <1> DEFINE n == Len(flow_counters)
             Done(j) == /\ g[j] \in Good
                        /\ \A i \in Flows : g[j].flows[i] = IF i =< j THEN Kept(i)
                                                            ELSE flow_counters[i]
             M == {j \in 0 .. n : Done(j)}
  <1>1. n \in Nat /\ Flows = 1 .. n
    BY FlowsAreNumbers
  <1> HIDE DEF n
  <1>2. Done(0)
    BY <1>1 DEF Before
  <1>3. ASSUME NEW j \in Nat, j < n, Done(j)
        PROVE  Done(j + 1)
    <2> DEFINE x == g[j]
               k == j + 1
    <2>1. k \in Flows /\ k - 1 = j /\ k \in Nat
      <3> HIDE DEF Done, M
      <3>1. QED BY <1>1, <1>3
    <2>2. g[k] = GiveBack(x, k) /\ x \in Good
      BY <1>3, <2>1
    <2>3. x.flows[k] = flow_counters[k]
      BY <1>3, <2>1
    <2>4. \A i \in Flows : i # k => (i =< k <=> i =< j)
      BY <1>1, <1>3
    <2>5. \A i \in Flows : x.flows[i] = IF i =< j THEN Kept(i) ELSE flow_counters[i]
      BY <1>3
    <2> HIDE DEF x, k
    <2>6. /\ GiveBack(x, k) \in Good
          /\ GiveBack(x, k).flows = [x.flows EXCEPT ![k] = IF IsIdle(x.flows[k])
                                                 THEN [x.flows[k] EXCEPT !.allocated = FALSE]
                                                 ELSE x.flows[k]]
      BY <2>1, <2>2, GiveBackIsGood
    <2>7. x.flows \in [Flows -> Entry]
      BY <2>2 DEF Good, States
    <2>8. g[k] \in Good /\ g[k].flows = [x.flows EXCEPT ![k] = Kept(k)]
      BY <2>2, <2>3, <2>6 DEF Kept
    <2>9. ASSUME NEW i \in Flows
          PROVE  g[k].flows[i] = IF i =< k THEN Kept(i) ELSE flow_counters[i]
      <3>1. CASE i = k
        BY <2>1, <2>7, <2>8, <3>1
      <3>2. CASE i # k
        BY <2>4, <2>5, <2>7, <2>8, <3>2
      <3>3. QED BY <3>1, <3>2
    <2>10. QED BY <2>8, <2>9 DEF k
  <1>4. M = 0 .. n
    <2> HIDE DEF Done
    <2>1. M \in SUBSET (0 .. n) /\ 0 \in M
      BY <1>1, <1>2
    <2>2. ASSUME NEW j \in M, j < n
          PROVE  j + 1 \in M
      <3>1. j \in Nat /\ Done(j) /\ j + 1 \in 0 .. n
        BY <1>1, <2>2
      <3>2. QED BY <1>3, <2>2, <3>1
    <2> HIDE DEF M
    <2>3. QED BY <1>1, <2>1, <2>2, BoundedInduction
  <1>5. m \in M
    BY <1>4 DEF n
  <1>6. QED BY <1>5

LEMMA PlacedAll ==
  ASSUME FInv, NEW start \in Good, NEW p, p[0] = start,
         \A i \in Flows : p[i] = Place(p[i - 1], i),
         NEW m \in 0 .. Len(flow_counters)
  PROVE  /\ p[m] \in Good
         /\ \A i \in Flows : p[m].flows[i] = IF i =< m THEN Placed(p[i - 1], i)
                                             ELSE start.flows[i]
  <1> DEFINE n == Len(flow_counters)
             Done(j) == /\ p[j] \in Good
                        /\ \A i \in Flows : p[j].flows[i] = IF i =< j THEN Placed(p[i - 1], i)
                                                            ELSE start.flows[i]
             M == {j \in 0 .. n : Done(j)}
  <1>1. n \in Nat /\ Flows = 1 .. n
    BY FlowsAreNumbers
  <1> HIDE DEF n
  <1>2. Done(0)
    BY <1>1
  <1>3. ASSUME NEW j \in Nat, j < n, Done(j)
        PROVE  Done(j + 1)
    <2> DEFINE x == p[j]
               k == j + 1
    <2>1. k \in Flows /\ k - 1 = j /\ k \in Nat
      <3> HIDE DEF Done, M
      <3>1. QED BY <1>1, <1>3
    <2>2. p[k] = Place(x, k) /\ x \in Good /\ p[k - 1] = x
      BY <1>3, <2>1
    <2>4. \A i \in Flows : i # k => (i =< k <=> i =< j)
      BY <1>1, <1>3
    <2>5. \A i \in Flows : x.flows[i] = IF i =< j THEN Placed(p[i - 1], i) ELSE start.flows[i]
      BY <1>3
    <2> HIDE DEF x, k
    <2>6. p[k] \in Good /\ p[k].flows = [x.flows EXCEPT ![k] = Placed(x, k)]
      BY <2>1, <2>2, PlaceIsGood
    <2>7. x.flows \in [Flows -> Entry]
      BY <2>2 DEF Good, States
    <2>9. ASSUME NEW i \in Flows
          PROVE  p[k].flows[i] = IF i =< k THEN Placed(p[i - 1], i) ELSE start.flows[i]
      <3>1. CASE i = k
        BY <2>1, <2>2, <2>6, <2>7, <3>1
      <3>2. CASE i # k
        BY <2>4, <2>5, <2>6, <2>7, <3>2
      <3>3. QED BY <3>1, <3>2
    <2>10. QED BY <2>6, <2>9 DEF k
  <1>4. M = 0 .. n
    <2> HIDE DEF Done
    <2>1. M \in SUBSET (0 .. n) /\ 0 \in M
      BY <1>1, <1>2
    <2>2. ASSUME NEW j \in M, j < n
          PROVE  j + 1 \in M
      <3>1. j \in Nat /\ Done(j) /\ j + 1 \in 0 .. n
        BY <1>1, <2>2
      <3>2. QED BY <1>3, <2>2, <3>1
    <2> HIDE DEF M
    <2>3. QED BY <1>1, <2>1, <2>2, BoundedInduction
  <1>5. m \in M
    BY <1>4 DEF n
  <1>6. QED BY <1>5

\* The states of the second pass, and what the scan comes to.
PassesOver(p) ==
  /\ Scanned = p[Len(flow_counters)]
  /\ \A m \in 0 .. Len(flow_counters) : p[m] \in Good
  /\ \A m \in 0 .. Len(flow_counters) : \A i \in Flows :
       p[m].flows[i] = IF i =< m THEN Placed(p[i - 1], i) ELSE Kept(i)

LEMMA BeforeIsGood == FInv => Before \in Good
  <1> SUFFICES ASSUME FInv
               PROVE  Before \in Good
    OBVIOUS
  <1>1. flow_counters \in [Flows -> Entry] /\ path_allocations \in [Queues -> Nat]
    BY FlowsAreNumbers DEF FInv
  <1>2. Before \in States
    BY <1>1 DEF Before, States
  <1>3. Counted(Before)
    BY <1>1 DEF FInv, AllocationsCounted, Counted, Before, Holders, Flows
  <1>4. QED BY <1>2, <1>3 DEF Good

LEMMA ScanPasses ==
  ASSUME FInv
  PROVE  \E p : PassesOver(p)
  <1> DEFINE n == Len(flow_counters)
  <1>1. n \in Nat /\ Flows = 1 .. n
    BY FlowsAreNumbers
  <1>2. Before \in Good
    BY BeforeIsGood
  <1>3. PICK g : /\ g[0] = Before
                 /\ \A i \in Flows : g[i] = GiveBack(g[i - 1], i)
                 /\ FoldLeft(GiveBack, Before, Numbers) = g[n]
    BY <1>2, GiveBackSteps
  <1> DEFINE start == g[n]
  <1>4. start \in Good /\ \A i \in Flows : start.flows[i] = Kept(i)
    <2>1. n \in 0 .. n
      BY <1>1
    <2>2. /\ g[n] \in Good
          /\ \A i \in Flows : g[n].flows[i] = IF i =< n THEN Kept(i) ELSE flow_counters[i]
      BY <1>2, <1>3, <2>1, GaveBack
    <2>3. QED BY <1>1, <2>2
  <1> HIDE DEF start
  <1>5. PICK p : /\ p[0] = start
                 /\ \A i \in Flows : p[i] = Place(p[i - 1], i)
                 /\ FoldLeft(Place, start, Numbers) = p[n]
    BY <1>4, PlaceSteps
  <1>6. Scanned = p[n]
    <2>1. Scanned = FoldLeft(Place, FoldLeft(GiveBack, Before, Numbers), Numbers)
      BY DEF Scanned, Before, Numbers, Flows
    <2>2. FoldLeft(GiveBack, Before, Numbers) = start
      BY <1>3 DEF start
    <2>3. QED BY <1>5, <2>1, <2>2
  <1>7. ASSUME NEW m \in 0 .. n
        PROVE  /\ p[m] \in Good
               /\ \A i \in Flows : p[m].flows[i] = IF i =< m THEN Placed(p[i - 1], i) ELSE Kept(i)
    <2>1. /\ p[m] \in Good
          /\ \A i \in Flows : p[m].flows[i] = IF i =< m THEN Placed(p[i - 1], i)
                                              ELSE start.flows[i]
      BY <1>4, <1>5, PlacedAll
    <2>2. QED BY <1>4, <2>1
  <1>8. PassesOver(p)
    BY <1>6, <1>7 DEF PassesOver
  <1>9. QED BY <1>8
------------------------------------------------------------------------------
LEMMA FInit == Init => FInv
  <1> SUFFICES ASSUME Init
               PROVE  FInv
    OBVIOUS
  <1>1. /\ net_paths \in NetPaths /\ flow_counters = << >>
        /\ path_allocations = [c \in Queues |-> 0]
    BY DEF Init, Queues
  <1>2. AllocationsCounted
    <2>1. ASSUME NEW c
          PROVE  {i \in DOMAIN flow_counters :
                    flow_counters[i].allocated /\ c \in ToSet(flow_counters[i].route)} = {}
      BY <1>1
    <2>2. Cardinality({}) = 0
      BY FS_EmptySet
    <2>3. QED BY <1>1, <2>1, <2>2 DEF AllocationsCounted
  <1>3. 0 =< MaxFlows
    BY FirstFitAssumption
  <1>4. QED BY <1>1, <1>2, <1>3 DEF FInv

LEMMA RunKeepsFInv ==
  ASSUME FInv, Run
  PROVE  FInv'
  <1> DEFINE n == Len(flow_counters)
  <1>1. n \in Nat /\ Flows = 1 .. n /\ n =< MaxFlows
    BY FlowsAreNumbers DEF FInv
  <1>2. PICK p : PassesOver(p)
    BY ScanPasses
  <1>3. Scanned \in Good
    <2>1. n \in 0 .. n
      BY <1>1
    <2>2. QED BY <1>2, <2>1 DEF PassesOver
  <1>4. /\ flow_counters' \in [1 .. n -> Entry] /\ path_allocations' \in [Queues -> Nat]
        /\ net_paths' = net_paths
        /\ \A c \in Queues : path_allocations'[c] = Cardinality(Holders(flow_counters', c))
    BY <1>1, <1>3 DEF Run, Good, States, Counted
  <1> HIDE DEF n
  <1>5. Queues' = Queues /\ Entry' = Entry
    BY <1>4 DEF Queues, Entry
  <1>6. flow_counters' \in Seq(Entry) /\ Len(flow_counters') = n /\ DOMAIN flow_counters' = Flows
    BY <1>1, <1>4
  <1>7. AllocationsCounted'
    BY <1>4, <1>6 DEF AllocationsCounted, Holders
  <1>8. QED BY <1>1, <1>4, <1>5, <1>6, <1>7 DEF FInv

LEMMA AddFlowKeepsFInv ==
  ASSUME FInv, AddFlow
  PROVE  FInv'
  <1>1. PICK pair \in DOMAIN net_paths :
          flow_counters' = Append(flow_counters, [pair |-> pair, acked |-> 0, allocated |-> FALSE,
                                                  route |-> << >>])
    BY DEF AddFlow
  <1> DEFINE flow == [pair |-> pair, acked |-> 0, allocated |-> FALSE, route |-> << >>]
  <1>2. /\ net_paths' = net_paths /\ path_allocations' = path_allocations
        /\ Queues' = Queues /\ Entry' = Entry
    BY DEF AddFlow, Queues, Entry
  <1>3. flow \in Entry /\ ~ flow.allocated
    BY FirstFitAssumption DEF Entry
  <1> HIDE DEF flow
  <1>4. /\ flow_counters' = Append(flow_counters, flow) /\ flow_counters \in Seq(Entry)
        /\ flow_counters' \in Seq(Entry) /\ Len(flow_counters') = Len(flow_counters) + 1
        /\ Len(flow_counters) < MaxFlows /\ Len(flow_counters) \in Nat /\ MaxFlows \in Nat
    BY <1>1, <1>3, FirstFitAssumption DEF AddFlow, FInv, flow
  <1>5. ASSUME NEW c
        PROVE  {i \in DOMAIN flow_counters' :
                  flow_counters'[i].allocated /\ c \in ToSet(flow_counters'[i].route)}
                 = {i \in DOMAIN flow_counters :
                      flow_counters[i].allocated /\ c \in ToSet(flow_counters[i].route)}
    <2> DEFINE m == Len(flow_counters) + 1
    <2>1. /\ DOMAIN flow_counters' = DOMAIN flow_counters \cup {m}
          /\ m \notin DOMAIN flow_counters
          /\ flow_counters'[m] = flow
          /\ \A i \in DOMAIN flow_counters : flow_counters'[i] = flow_counters[i]
      BY <1>4
    <2> HIDE DEF m
    <2>2. QED BY <1>3, <2>1
  <1>6. AllocationsCounted'
    BY <1>2, <1>5 DEF FInv, AllocationsCounted
  <1>7. QED BY <1>2, <1>4, <1>6 DEF FInv

LEMMA AckedKeepsFInv ==
  ASSUME FInv, Acked
  PROVE  /\ FInv'
         /\ \A i \in Flows : flow_counters'[i].allocated = flow_counters[i].allocated
  <1>1. PICK i \in Flows : /\ flow_counters[i].acked < MaxAcked
                           /\ flow_counters' = [flow_counters EXCEPT ![i].acked = @ + 1]
    BY DEF Acked, Flows
  <1>2. /\ net_paths' = net_paths /\ path_allocations' = path_allocations
        /\ Queues' = Queues /\ Entry' = Entry
    BY DEF Acked, Queues, Entry
  <1> DEFINE flow == [flow_counters[i] EXCEPT !.acked = flow_counters[i].acked + 1]
  <1>3. flow_counters' = [flow_counters EXCEPT ![i] = flow]
    BY <1>1
  <1>4. flow_counters[i] \in Entry /\ flow_counters \in [Flows -> Entry]
    BY FlowsAreNumbers
  <1>5. /\ flow \in Entry /\ flow.allocated = flow_counters[i].allocated
        /\ flow.route = flow_counters[i].route
    BY <1>1, <1>4, FirstFitAssumption DEF Entry
  <1> HIDE DEF flow
  <1>6. /\ flow_counters' \in [Flows -> Entry] /\ DOMAIN flow_counters' = Flows
        /\ \A j \in Flows : /\ flow_counters'[j].allocated = flow_counters[j].allocated
                            /\ flow_counters'[j].route = flow_counters[j].route
    BY <1>3, <1>4, <1>5
  <1>7. flow_counters' \in Seq(Entry) /\ Len(flow_counters') = Len(flow_counters)
    BY <1>6, FlowsAreNumbers
  <1>8. AllocationsCounted'
    BY <1>2, <1>6 DEF FInv, AllocationsCounted, Flows
  <1>9. QED BY <1>2, <1>6, <1>7, <1>8 DEF FInv

LEMMA FStep == FInv /\ [Next]_vars => FInv'
  <1> SUFFICES ASSUME FInv, [Next]_vars
               PROVE  FInv'
    OBVIOUS
  <1>1. CASE UNCHANGED vars
    BY <1>1 DEF vars, FInv, Queues, Entry, AllocationsCounted
  <1>2. QED BY <1>1, RunKeepsFInv, AddFlowKeepsFInv, AckedKeepsFInv DEF Next

LEMMA FAlways == Spec => []FInv
  BY FInit, FStep, PTL DEF Spec

\* The entries stay well formed, and no queue is counted for more flows than
\* there are.
THEOREM FirstFitTypeCorrect == Spec => []TypeOK
  <1>1. ASSUME FInv
        PROVE  TypeOK
    <2>1. ASSUME NEW c \in Queues
          PROVE  path_allocations[c] \in 0 .. MaxFlows
      <3>1. path_allocations[c] = Cardinality(Holders(flow_counters, c))
        BY <1>1 DEF FInv, AllocationsCounted, Holders, Flows
      <3>2. IsFiniteSet(Flows) /\ Cardinality(Flows) = Len(flow_counters)
        BY <1>1, FlowsAreNumbers, FS_Interval
      <3>3. Holders(flow_counters, c) \subseteq Flows
        BY DEF Holders
      <3>4. Cardinality(Holders(flow_counters, c)) =< Len(flow_counters)
        BY <3>2, <3>3, FS_Subset
      <3>5. path_allocations[c] \in Nat /\ Len(flow_counters) =< MaxFlows
            /\ Len(flow_counters) \in Nat
        BY <1>1, FlowsAreNumbers DEF FInv
      <3>6. QED BY <3>1, <3>4, <3>5, FirstFitAssumption
    <2>2. QED BY <1>1, <2>1 DEF FInv, TypeOK
  <1>2. FInv => TypeOK
    BY <1>1
  <1>3. QED BY <1>2, FAlways, PTL

\* A queue is counted for just the flows that hold a route over it, however many
\* flows there are and however often they came, slowed down and came back
\* (firstfit.py:102-111, 174-180).
THEOREM AllocationsAreCounted == Spec => []AllocationsCounted
  <1>1. FInv => AllocationsCounted
    BY DEF FInv
  <1>2. QED BY <1>1, FAlways, PTL
------------------------------------------------------------------------------
\* What a scan makes of a flow: its place in the second pass finds it as the first
\* pass left it.
LEMMA ScannedFlow ==
  ASSUME FInv, Run, NEW p, PassesOver(p), NEW i \in Flows
  PROVE  /\ flow_counters'[i] = Placed(p[i - 1], i)
         /\ p[i - 1].flows[i] = Kept(i)
         /\ p[i - 1] \in Good
         /\ flow_counters[i] \in Entry /\ flow_counters[i].acked \in Nat
         /\ flow_counters[i].pair \in DOMAIN net_paths
         /\ flow_counters[i].allocated \in BOOLEAN
         /\ Kept(i) \in Entry
         /\ Kept(i).acked = flow_counters[i].acked /\ Kept(i).pair = flow_counters[i].pair
         /\ Kept(i).allocated <=> flow_counters[i].allocated /\ ~ IsIdle(flow_counters[i])
  <1> DEFINE n == Len(flow_counters)
  <1>1. n \in Nat /\ Flows = 1 .. n
    BY FlowsAreNumbers
  <1>2. /\ n \in 0 .. n /\ i - 1 \in 0 .. n /\ i =< n /\ ~ (i =< i - 1)
    BY <1>1
  <1>3. flow_counters' = p[n].flows
    BY DEF Run, PassesOver
  <1>4. p[n].flows[i] = Placed(p[i - 1], i)
    BY <1>2 DEF PassesOver
  <1>5. p[i - 1].flows[i] = Kept(i) /\ p[i - 1] \in Good
    BY <1>2 DEF PassesOver
  <1>6. /\ flow_counters[i] \in Entry /\ flow_counters[i].acked \in Nat
        /\ flow_counters[i].pair \in DOMAIN net_paths
        /\ flow_counters[i].allocated \in BOOLEAN
    BY FlowsAreNumbers, RouteOfEntry
  <1>7. /\ Kept(i) \in Entry
        /\ Kept(i).acked = flow_counters[i].acked /\ Kept(i).pair = flow_counters[i].pair
        /\ Kept(i).allocated <=> flow_counters[i].allocated /\ ~ IsIdle(flow_counters[i])
    BY <1>6 DEF Kept, Entry
  <1>8. QED BY <1>3, <1>4, <1>5, <1>6, <1>7

\* The topology has a route for every pair.
Routed == \A paths \in NetPaths : \A pair \in DOMAIN paths : paths[pair] # << >>

\* Every scan places each flow that has moved enough, if its topology has routes
\* for all pairs (firstfit.py:123-132).
LEMMA BusyIfRouted ==
  ASSUME Routed
  PROVE  Spec => BusyPlaced
  <1> DEFINE Step == Run => \A i \in DOMAIN flow_counters :
                              flow_counters[i].acked > Threshold => flow_counters'[i].allocated
  <1>1. ASSUME FInv
        PROVE  Step
    <2> SUFFICES ASSUME Run, NEW i \in Flows, flow_counters[i].acked > Threshold
                 PROVE  flow_counters'[i].allocated
      BY DEF Flows
    <2>1. PICK p : PassesOver(p)
      BY <1>1, ScanPasses
    <2> DEFINE state == p[i - 1]
    <2>2. /\ flow_counters'[i] = Placed(state, i) /\ state.flows[i] = Kept(i)
          /\ flow_counters[i].acked \in Nat /\ flow_counters[i].pair \in DOMAIN net_paths
          /\ Kept(i) \in Entry
          /\ Kept(i).acked = flow_counters[i].acked /\ Kept(i).pair = flow_counters[i].pair
          /\ Kept(i).allocated <=> flow_counters[i].allocated /\ ~ IsIdle(flow_counters[i])
      BY <1>1, <2>1, ScannedFlow
    <2> HIDE DEF state
    <2>3. Threshold \in Nat /\ ~ IsIdle(flow_counters[i])
      BY <2>2, FirstFitAssumption DEF IsIdle
    <2>4. net_paths[Kept(i).pair] # << >>
      BY <1>1, <2>2 DEF Routed, FInv
    <2>5. CASE Kept(i).allocated
      <3>1. ~ IsBusy(Kept(i))
        BY <2>5 DEF IsBusy
      <3>2. Placed(state, i) = [Kept(i) EXCEPT !.acked = 0]
        BY <2>2, <3>1 DEF Placed
      <3>3. QED BY <2>2, <2>5, <3>2 DEF Entry
    <2>6. CASE ~ Kept(i).allocated
      <3>1. IsBusy(Kept(i))
        BY <2>2, <2>6 DEF IsBusy
      <3>2. Placed(state, i) = [Kept(i) EXCEPT !.acked = 0, !.allocated = TRUE,
                                               !.route = Chosen(state, i)]
        BY <2>2, <2>4, <3>1 DEF Placed
      <3>3. QED BY <2>2, <3>2 DEF Entry
    <2>7. QED BY <2>5, <2>6
  <1>2. FInv => Step
    BY <1>1
  <1>3. QED BY <1>2, FAlways, PTL DEF BusyPlaced

\* The fullest queue of a route that has one.
LEMMA CostIsMax ==
  ASSUME NEW loads \in [Queues -> Nat], NEW route \in Seq(Queues), route # << >>,
         NEW f, \A c \in Queues : f[c] = loads[c]
  PROVE  Max({f[c] : c \in ToSet(route)}) = CostOf(route, loads)
  <1> DEFINE Loads == {f[c] : c \in ToSet(route)}
             g == [i \in 1 .. Len(route) |-> loads[route[i]]]
             cost == CostOf(route, loads)
  <1>1. \A c \in ToSet(route) : c \in Queues /\ f[c] = loads[c] /\ loads[c] \in Nat
    BY DEF ToSet
  <1>2. IsFiniteSet(Loads)
    <2>1. DOMAIN route = 1 .. Len(route) /\ Len(route) \in Nat
      OBVIOUS
    <2>2. g \in Surjection(1 .. Len(route), Loads)
      BY <1>1, <2>1 DEF Surjection, ToSet
    <2>3. IsFiniteSet(1 .. Len(route))
      BY <2>1, FS_Interval
    <2> HIDE DEF g, Loads
    <2>4. QED BY <2>2, <2>3, FS_Surjection
  <1>3. Loads \in SUBSET Nat /\ Loads # {}
    <2>1. route[1] \in ToSet(route)
      BY DEF ToSet
    <2>2. QED BY <1>1, <2>1
  <1>4. /\ cost \in Nat
        /\ \A m \in Loads : m =< cost
        /\ cost = 0 \/ cost \in Loads
    BY <1>1, CostIsGreatest
  <1> HIDE DEF Loads, cost
  <1>5. Max(Loads) \in Loads /\ \A m \in Loads : m =< Max(Loads)
    BY <1>2, <1>3, MaxIsMember
  <1>6. Max(Loads) \in Nat /\ Max(Loads) =< cost
    BY <1>3, <1>4, <1>5
  <1>7. cost =< Max(Loads)
    BY <1>4, <1>5, <1>6
  <1>8. Max(Loads) = cost
    BY <1>4, <1>6, <1>7
  <1>9. QED BY <1>8 DEF Loads, cost

\* When a flow is placed, the loads are those of the flows placed before it in the
\* scan and of those that kept their routes.
LEMMA HeldAreHolders ==
  ASSUME FInv, Run, NEW p, PassesOver(p), NEW i \in Flows, ~ flow_counters[i].allocated, NEW c
  PROVE  {j \in {j \in Flows : /\ j # i /\ flow_counters'[j].allocated
                               /\ j < i \/ flow_counters[j].allocated} :
            c \in ToSet(flow_counters'[j].route)}
           = Holders(p[i - 1].flows, c)
  <1> DEFINE flows == p[i - 1].flows
             n == Len(flow_counters)
  <1>1. n \in Nat /\ Flows = 1 .. n /\ i - 1 \in 0 .. n
    BY FlowsAreNumbers
  <1>2. \A j \in Flows : flows[j] = IF j =< i - 1 THEN Placed(p[j - 1], j) ELSE Kept(j)
    BY <1>1 DEF PassesOver
  <1>3. ASSUME NEW j \in Flows
        PROVE  (j # i /\ flow_counters'[j].allocated /\ (j < i \/ flow_counters[j].allocated)
                /\ c \in ToSet(flow_counters'[j].route))
               <=> (flows[j].allocated /\ c \in ToSet(flows[j].route))
    <2> DEFINE state == p[j - 1]
    <2>1. /\ flow_counters'[j] = Placed(state, j) /\ state.flows[j] = Kept(j)
          /\ flow_counters[j].acked \in Nat /\ flow_counters[j].allocated \in BOOLEAN
          /\ Kept(j) \in Entry /\ Kept(j).acked = flow_counters[j].acked
          /\ Kept(j).allocated <=> flow_counters[j].allocated /\ ~ IsIdle(flow_counters[j])
      BY ScannedFlow
    <2>2. CASE j < i
      <3>1. j =< i - 1 /\ j # i
        BY <1>1, <2>2
      <3>2. flows[j] = flow_counters'[j]
        BY <1>2, <2>1, <3>1
      <3> HIDE DEF flows
      <3>3. QED BY <2>2, <3>1, <3>2
    <2>3. CASE j = i
      <3>1. ~ (j =< i - 1)
        BY <1>1, <2>3
      <3>2. flows[j] = Kept(j)
        BY <1>2, <3>1
      <3> HIDE DEF flows
      <3>3. QED BY <2>1, <2>3, <3>2
    <2>4. CASE ~ (j < i) /\ j # i
      <3>1. ~ (j =< i - 1)
        BY <1>1, <2>4
      <3>2. flows[j] = Kept(j)
        BY <1>2, <3>1
      <3> HIDE DEF flows, state
      <3>3. CASE Kept(j).allocated
        <4>1. Placed(state, j) = [Kept(j) EXCEPT !.acked = 0]
          BY <2>1, <3>3 DEF Placed, IsBusy
        <4>2. Placed(state, j).allocated = Kept(j).allocated /\ Placed(state, j).route = Kept(j).route
          BY <2>1, <4>1 DEF Entry
        <4>3. QED BY <2>1, <2>4, <3>2, <3>3, <4>2
      <3>4. CASE ~ Kept(j).allocated /\ flow_counters[j].allocated
        <4>1. Kept(j).acked < Threshold /\ Kept(j).acked \in Nat /\ Threshold \in Nat
          BY <2>1, <3>4, FirstFitAssumption DEF IsIdle
        <4>2. ~ IsBusy(Kept(j))
          BY <4>1 DEF IsBusy
        <4>3. Placed(state, j) = [Kept(j) EXCEPT !.acked = 0]
          BY <2>1, <4>2 DEF Placed
        <4>4. Placed(state, j).allocated = Kept(j).allocated
          BY <2>1, <4>3 DEF Entry
        <4>5. QED BY <2>1, <3>2, <3>4, <4>4
      <3>5. CASE ~ flow_counters[j].allocated
        BY <2>1, <2>4, <3>2, <3>5
      <3>6. QED BY <3>3, <3>4, <3>5
    <2>5. QED BY <2>2, <2>3, <2>4
  <1> HIDE DEF flows
  <1>4. QED BY <1>3 DEF Holders, flows

\* A flow that is given a route gets one no fuller than any other of its pair, the
\* flows placed before it in the same scan counted and those that gave theirs back
\* not, whatever the order they come in (firstfit.py:132-180).
THEOREM PlacedWhereLeastLoaded == Spec => LeastLoaded
  <1> DEFINE Step ==
        \A i \in DOMAIN flow_counters :
           ~flow_counters[i].allocated /\ flow_counters'[i].allocated =>
             LET held == {j \in DOMAIN flow_counters :
                            /\ j # i /\ flow_counters'[j].allocated
                            /\ j < i \/ flow_counters[j].allocated}
                 load(c) == Cardinality({j \in held : c \in ToSet(flow_counters'[j].route)})
                 cost(route) == Max({load(c) : c \in ToSet(route)})
             IN  \A route \in ToSet(net_paths[flow_counters[i].pair]) :
                   cost(flow_counters'[i].route) <= cost(route)
  <1>1. ASSUME FInv, Run
        PROVE  Step
    <2> SUFFICES ASSUME NEW i \in Flows, ~ flow_counters[i].allocated, flow_counters'[i].allocated,
                        NEW route \in ToSet(net_paths[flow_counters[i].pair])
                 PROVE  LET held == {j \in Flows :
                                       /\ j # i /\ flow_counters'[j].allocated
                                       /\ j < i \/ flow_counters[j].allocated}
                            load(c) == Cardinality({j \in held : c \in ToSet(flow_counters'[j].route)})
                            cost(r) == Max({load(c) : c \in ToSet(r)})
                        IN  cost(flow_counters'[i].route) <= cost(route)
      BY DEF Flows
    <2>1. PICK p : PassesOver(p)
      BY <1>1, ScanPasses
    <2> DEFINE state == p[i - 1]
               routes == net_paths[flow_counters[i].pair]
               loads == state.loads
               held == {j \in Flows : /\ j # i /\ flow_counters'[j].allocated
                                      /\ j < i \/ flow_counters[j].allocated}
               load(c) == Cardinality({j \in held : c \in ToSet(flow_counters'[j].route)})
               f == [c \in Queues |-> load(c)]
               cost(r) == Max({load(c) : c \in ToSet(r)})
    <2>2. /\ flow_counters'[i] = Placed(state, i) /\ state.flows[i] = Kept(i)
          /\ state \in Good /\ flow_counters[i].pair \in DOMAIN net_paths
          /\ Kept(i) \in Entry
          /\ Kept(i).pair = flow_counters[i].pair /\ ~ Kept(i).allocated
      BY <1>1, <2>1, ScannedFlow
    <2>3. \A c \in Queues : load(c) = Cardinality(Holders(state.flows, c))
      BY <1>1, <2>1, HeldAreHolders
    <2> HIDE DEF state
    <2>4. \A c \in Queues : f[c] = loads[c]
      BY <2>2, <2>3 DEF Good, Counted
    <2>5. loads \in [Queues -> Nat]
      BY <2>2 DEF Good, States
    <2>6. IsBusy(Kept(i)) /\ routes # << >>
      <3>1. CASE ~ (IsBusy(Kept(i)) /\ routes # << >>)
        <4>1. Placed(state, i) = [Kept(i) EXCEPT !.acked = 0]
          BY <2>2, <3>1 DEF Placed
        <4>2. Placed(state, i).allocated = Kept(i).allocated
          BY <2>2, <4>1 DEF Entry
        <4>3. QED BY <2>2, <4>2
      <3>2. QED BY <3>1
    <2>7. flow_counters'[i].route = routes[Best(routes, loads)]
      <3>1. Placed(state, i) = [Kept(i) EXCEPT !.acked = 0, !.allocated = TRUE,
                                               !.route = Chosen(state, i)]
        BY <2>2, <2>6 DEF Placed
      <3>2. Placed(state, i).route = Chosen(state, i)
        BY <2>2, <3>1 DEF Entry
      <3>3. QED BY <2>2, <3>2 DEF Chosen
    <2>8. /\ routes \in Seq(Seq(Queues))
          /\ \A k \in DOMAIN routes : routes[k] \in Seq(Queues) /\ routes[k] # << >>
      BY <1>1, <2>2, Routes
    <2>9. ASSUME NEW k \in DOMAIN routes
          PROVE  cost(routes[k]) = CostOf(routes[k], loads)
      <3> DEFINE r == routes[k]
      <3>1. r \in Seq(Queues) /\ r # << >>
        BY <2>8
      <3> HIDE DEF r, loads, f
      <3>2. Max({f[c] : c \in ToSet(r)}) = CostOf(r, loads)
        BY <2>4, <2>5, <3>1, CostIsMax
      <3>3. {f[c] : c \in ToSet(r)} = {load(c) : c \in ToSet(r)}
        <4>1. \A c \in ToSet(r) : c \in Queues
          BY <3>1 DEF ToSet
        <4>2. \A c \in ToSet(r) : f[c] = load(c)
          BY <4>1 DEF f
        <4> HIDE DEF load
        <4>3. QED BY <4>2
      <3>4. QED BY <3>2, <3>3 DEF r
    <2>10. PICK k \in DOMAIN routes : route = routes[k]
      BY DEF ToSet
    <2> HIDE DEF routes, loads
    <2>11. /\ Best(routes, loads) \in DOMAIN routes
           /\ CostOf(routes[Best(routes, loads)], loads) =< CostOf(routes[k], loads)
      BY <2>5, <2>6, <2>8, BestIsLeast
    <2>12. cost(flow_counters'[i].route) = CostOf(routes[Best(routes, loads)], loads)
      BY <2>7, <2>9, <2>11
    <2>13. cost(route) = CostOf(routes[k], loads)
      BY <2>9, <2>10
    <2>14. cost(flow_counters'[i].route) =< cost(route)
      <3> HIDE DEF cost
      <3>1. QED BY <2>11, <2>12, <2>13
    <2>15. QED BY <2>14
  <1>2. ASSUME FInv, [Next]_vars, ~ Run
        PROVE  Step
    <2>1. ASSUME NEW i \in Flows
          PROVE  flow_counters'[i].allocated = flow_counters[i].allocated
      <3>1. CASE Acked
        BY <1>2, <3>1, AckedKeepsFInv
      <3>2. CASE AddFlow
        <4>1. PICK pair : flow_counters' = Append(flow_counters, pair)
          BY <3>2 DEF AddFlow
        <4>2. flow_counters \in Seq(Entry)
          BY <1>2 DEF FInv
        <4>3. flow_counters'[i] = flow_counters[i]
          BY <4>1, <4>2 DEF Flows
        <4>4. QED BY <4>3
      <3>3. CASE UNCHANGED vars
        BY <3>3 DEF vars
      <3>4. QED BY <1>2, <3>1, <3>2, <3>3 DEF Next
    <2>2. QED BY <2>1 DEF Flows
  <1> HIDE DEF Step
  <1>3. FInv /\ [Next]_vars => [Step]_vars
    BY <1>1, <1>2
  <1>4. [][Step]_vars => LeastLoaded
    BY PTL DEF Step, LeastLoaded
  <1>5. QED BY <1>3, <1>4, FAlways, PTL DEF Spec
------------------------------------------------------------------------------
LEMMA Sized == P \in Nat \ {0} /\ A \in Nat \ {0} /\ H \in Nat \ {0}
  BY DragonFlyAssumption
------------------------------------------------------------------------------
\* Quotients.

LEMMA Product ==
  ASSUME NEW x \in Nat, NEW y \in Nat
  PROVE  x * y \in Nat
  OBVIOUS

LEMMA Apart ==
  ASSUME NEW x \in Nat, NEW y \in Nat, x < y, NEW d \in Nat
  PROVE  x * d + d =< y * d
  <1>1. y - x - 1 \in Nat
    OBVIOUS
  <1>2. (y - x - 1) * d \in Nat
    BY <1>1, Product
  <1>3. y * d = x * d + d + (y - x - 1) * d
    OBVIOUS
  <1>4. x * d \in Nat /\ y * d \in Nat
    BY Product
  <1>5. QED BY <1>2, <1>3, <1>4

LEMMA Division ==
  ASSUME NEW n \in Nat, NEW d \in Nat \ {0}
  PROVE  /\ n \div d \in Nat /\ n % d \in 0 .. d - 1
         /\ n = (n \div d) * d + (n % d)
  OBVIOUS

\* There is one way to divide.
LEMMA Unique ==
  ASSUME NEW g \in Nat, NEW d \in Nat \ {0}, NEW q \in 0 .. d - 1
  PROVE  /\ g * d + q \in Nat
         /\ (g * d + q) \div d = g /\ (g * d + q) % d = q
  <1> DEFINE n == g * d + q
             e == n \div d
             r == n % d
  <1>1. g * d \in Nat /\ n \in Nat
    BY Product
  <1> HIDE DEF n
  <1>2. e \in Nat /\ r \in 0 .. d - 1 /\ n = e * d + r
    BY <1>1, Division
  <1> HIDE DEF e, r
  <1>3. e * d \in Nat
    BY <1>2, Product
  <1>4. ~ (e < g)
    <2> SUFFICES ASSUME e < g
                 PROVE  FALSE
      OBVIOUS
    <2>1. e * d + d =< g * d
      BY <1>2, Apart
    <2>2. QED BY <1>1, <1>2, <1>3, <2>1 DEF n
  <1>5. ~ (g < e)
    <2> SUFFICES ASSUME g < e
                 PROVE  FALSE
      OBVIOUS
    <2>1. g * d + d =< e * d
      BY <1>2, Apart
    <2>2. QED BY <1>1, <1>2, <1>3, <2>1 DEF n
  <1>6. e = g
    BY <1>2, <1>4, <1>5
  <1>7. r = q
    BY <1>1, <1>2, <1>3, <1>6 DEF n
  <1>8. QED BY <1>1, <1>6, <1>7 DEF n, e, r

\* A quotient is below what it is a quotient of.
LEMMA Below ==
  ASSUME NEW n \in Nat, NEW m \in Nat, NEW d \in Nat \ {0}, n < m * d
  PROVE  n \div d < m
  <1> DEFINE e == n \div d
  <1>1. e \in Nat /\ n % d \in Nat /\ n = e * d + (n % d)
    BY Division
  <1> HIDE DEF e
  <1>2. ~ (m =< e)
    <2> SUFFICES ASSUME m =< e
                 PROVE  FALSE
      OBVIOUS
    <2>1. m * d =< e * d
      <3>1. CASE m = e
        BY <1>1, <3>1, Product
      <3>2. CASE m < e
        <4>1. m * d + d =< e * d
          BY <1>1, <3>2, Apart
        <4>2. m * d \in Nat /\ e * d \in Nat
          BY <1>1, Product
        <4>3. QED BY <4>1, <4>2
      <3>3. QED BY <1>1, <3>1, <3>2
    <2>2. m * d \in Nat /\ e * d \in Nat
      BY <1>1, Product
    <2>3. QED BY <1>1, <2>1, <2>2
  <1>3. QED BY <1>1, <1>2 DEF e

\* Dividing by two numbers in turn, or by their product.
LEMMA InTurn ==
  ASSUME NEW n \in Nat, NEW a \in Nat \ {0}, NEW p \in Nat \ {0}
  PROVE  n \div (a * p) = (n \div p) \div a
  <1> DEFINE t == n \div p
             r == n % p
             g == t \div a
             s == t % a
             q == s * p + r
  <1>1. t \in Nat /\ r \in 0 .. p - 1 /\ n = t * p + r
    BY Division
  <1>2. g \in Nat /\ s \in 0 .. a - 1 /\ t = g * a + s
    <2> HIDE DEF t
    <2>1. QED BY <1>1, Division
  <1> HIDE DEF t, r, g, s
  <1>3. s * p + p =< a * p
    BY <1>2, Apart
  <1>4. s * p \in Nat /\ a * p \in Nat \ {0} /\ q \in 0 .. a * p - 1
    <2>1. s * p \in Nat /\ a * p \in Nat
      BY <1>2, Product
    <2>2. QED BY <1>1, <1>3, <2>1
  <1>5. n = g * (a * p) + q
    <2>1. t * p = g * (a * p) + s * p
      BY <1>1, <1>2
    <2>2. t * p \in Nat /\ g * (a * p) \in Nat
      BY <1>1, <1>2, <1>4, Product
    <2>3. QED BY <1>1, <1>4, <2>1, <2>2
  <1> DEFINE d == a * p
  <1>6. (g * d + q) \div d = g
    <2> HIDE DEF d, q
    <2>1. d \in Nat \ {0} /\ q \in 0 .. d - 1
      BY <1>4 DEF d
    <2>2. QED BY <1>2, <2>1, Unique
  <1>7. QED BY <1>5, <1>6 DEF g, t
------------------------------------------------------------------------------
LEMMA Sizes ==
  /\ A * H \in Nat \ {0} /\ A * P \in Nat \ {0}
  /\ DF!Groups \in Nat \ {0} /\ DF!Switches \in Nat /\ DF!Nodes \in Nat
  <1>1. A * H \in Nat /\ A * P \in Nat /\ A * H # 0 /\ A * P # 0
    BY Sized
  <1>2. DF!Groups \in Nat \ {0}
    BY <1>1 DEF DF!Groups
  <1>3. DF!Switches \in Nat
    BY <1>2, Product, Sized DEF DF!Switches
  <1>4. DF!Nodes \in Nat
    BY <1>3, Product, Sized DEF DF!Nodes
  <1>5. QED BY <1>1, <1>2, <1>3, <1>4

\* The router of a group that leads to a later one is laid a cable to it, and the
\* cable ends where the other group's formula says.
LEMMA LaidOnce ==
  ASSUME NEW g \in 0 .. DF!Groups - 1, NEW o \in 0 .. DF!Groups - 1, g < o
  PROVE  /\ <<DF!Switch(DF!Gateway(g, o)), DF!Switch(DF!Gateway(o, g))>> \in DF!Cables
         /\ <<DF!Switch(DF!Gateway(o, g)), DF!Switch(DF!Gateway(g, o))>> \in DF!Cables
  <1> DEFINE q == (o - 1) \div H
             l == (o - 1) % H
             j == g * A + q
  <1>1. /\ A \in Nat \ {0} /\ H \in Nat \ {0} /\ DF!Groups \in Nat \ {0}
        /\ A * H \in Nat /\ g \in Nat /\ o \in Nat /\ o - 1 \in Nat /\ o - 1 < A * H
    BY Sizes, Sized DEF DF!Groups
  <1>2. q \in Nat /\ l \in 0 .. H - 1 /\ o - 1 = q * H + l
    BY <1>1, Division
  <1>3. q < A
    BY <1>1, Below
  <1> HIDE DEF q, l
  <1>4. j \in Nat /\ j \div A = g /\ j % A = q
    BY <1>1, <1>2, <1>3, Unique
  <1>5. j \in 0 .. DF!Switches - 1
    <2>1. g * A + A =< DF!Groups * A
      BY <1>1, Apart
    <2>2. g * A \in Nat /\ DF!Groups * A \in Nat
      BY <1>1, Product
    <2>3. QED BY <1>1, <1>2, <1>3, <1>4, <2>1, <2>2 DEF DF!Switches
  <1> HIDE DEF j
  <1>6. DF!Target(j, l) = o
    <2>1. q * H \in Nat
      BY <1>1, <1>2, Product
    <2>2. QED BY <1>1, <1>2, <1>4, <2>1 DEF DF!Target
  <1>7. o \in DF!GroupTargets(j)
    BY <1>1, <1>2, <1>4, <1>6 DEF DF!GroupTargets
  <1>8. DF!Gateway(g, o) = j
    BY <1>1 DEF DF!Gateway, j, q
  <1>9. DF!Gateway(o, g) = o * A + (j \div A) \div H
    BY <1>1, <1>4 DEF DF!Gateway
  <1>10. DF!Both(DF!Switch(j), DF!Switch(o * A + (j \div A) \div H)) \subseteq DF!LongCables
    BY <1>5, <1>7 DEF DF!LongCables
  <1>11. QED BY <1>8, <1>9, <1>10 DEF DF!Both, DF!Cables

(***************************************************************************)
(* Any two groups are joined by a cable between the routers each of them   *)
(* has for the other: init_network lays the cables from a router's number  *)
(* and get_bidir_paths looks for the router from the groups' numbers, by   *)
(* formulas that count the group's own place differently.                  *)
(***************************************************************************)
THEOREM GroupsAreJoined ==
  ASSUME NEW g \in 0 .. DF!Groups - 1, NEW o \in 0 .. DF!Groups - 1, g # o
  PROVE  <<DF!Switch(DF!Gateway(g, o)), DF!Switch(DF!Gateway(o, g))>> \in DF!Cables
  <1>1. g < o \/ o < g
    BY Sizes
  <1>2. QED BY <1>1, LaidOnce
------------------------------------------------------------------------------
\* The steps of a route.

LEMMA HostJoined ==
  ASSUME NEW i \in 0 .. DF!Nodes - 1
  PROVE  /\ DF!HostTor(i) \in 0 .. DF!Switches - 1
         /\ <<DF!Switch(DF!HostTor(i)), DF!Host(i)>> \in DF!Cables
         /\ <<DF!Host(i), DF!Switch(DF!HostTor(i))>> \in DF!Cables
  <1> DEFINE j == i \div P
             l == i % P
  <1>1. P \in Nat \ {0} /\ DF!Switches \in Nat /\ i \in Nat /\ i < DF!Switches * P
    BY Sizes, Sized DEF DF!Nodes
  <1>2. j \in Nat /\ l \in 0 .. P - 1 /\ i = j * P + l
    BY <1>1, Division
  <1>3. j < DF!Switches
    BY <1>1, Below
  <1>4. DF!HostTor(i) = j
    BY DEF DF!HostTor
  <1> HIDE DEF j, l
  <1>5. DF!Both(DF!Switch(j), DF!Host(j * P + l)) \subseteq DF!HostCables
    BY <1>1, <1>2, <1>3 DEF DF!HostCables
  <1>6. QED BY <1>1, <1>2, <1>3, <1>4, <1>5 DEF DF!Both, DF!Cables

LEMMA LaterRouterJoined ==
  ASSUME NEW j \in 0 .. DF!Switches - 1, NEW k \in 0 .. DF!Switches - 1,
         j < k, j \div A = k \div A
  PROVE  /\ <<DF!Switch(j), DF!Switch(k)>> \in DF!Cables
         /\ <<DF!Switch(k), DF!Switch(j)>> \in DF!Cables
  <1> DEFINE g == k \div A
             r == k % A
  <1>1. A \in Nat \ {0} /\ DF!Switches \in Nat /\ j \in Nat /\ k \in Nat
    BY Sizes, Sized
  <1>2. g \in Nat /\ r \in 0 .. A - 1 /\ k = g * A + r
    BY <1>1, Division
  <1>3. j \div A = g
    OBVIOUS
  <1> HIDE DEF g, r
  <1>4. k \in j + 1 .. (g + 1) * A - 1
    <2>1. (g + 1) * A = g * A + A
      BY <1>1, <1>2
    <2>2. g * A \in Nat
      BY <1>1, <1>2, Product
    <2>3. QED BY <1>1, <1>2, <2>1, <2>2
  <1>5. DF!Both(DF!Switch(j), DF!Switch(k)) \subseteq DF!GroupCables
    BY <1>3, <1>4 DEF DF!GroupCables
  <1>6. QED BY <1>5 DEF DF!Both, DF!Cables

LEMMA RoutersJoined ==
  ASSUME NEW j \in 0 .. DF!Switches - 1, NEW k \in 0 .. DF!Switches - 1,
         j # k, j \div A = k \div A
  PROVE  <<DF!Switch(j), DF!Switch(k)>> \in DF!Cables
  <1>1. j < k \/ k < j
    BY Sizes
  <1>2. QED BY <1>1, LaterRouterJoined

LEMMA GatewayIsInTheGroup ==
  ASSUME NEW g \in 0 .. DF!Groups - 1, NEW o \in 0 .. DF!Groups - 1, g # o
  PROVE  DF!Gateway(g, o) \in 0 .. DF!Switches - 1 /\ DF!Gateway(g, o) \div A = g
  <1> DEFINE m == IF g < o THEN o - 1 ELSE o
             q == m \div H
  <1>1. /\ A \in Nat \ {0} /\ H \in Nat \ {0} /\ DF!Groups \in Nat \ {0}
        /\ A * H \in Nat /\ g \in Nat /\ m \in Nat /\ m < A * H
    BY Sizes, Sized DEF DF!Groups
  <1>2. DF!Gateway(g, o) = g * A + q
    BY DEF DF!Gateway
  <1> HIDE DEF m
  <1>3. q \in Nat /\ q < A
    BY <1>1, Division, Below
  <1> HIDE DEF q
  <1>4. g * A + q \in Nat /\ (g * A + q) \div A = g
    BY <1>1, <1>3, Unique
  <1>5. g * A + A =< DF!Groups * A
    BY <1>1, Apart
  <1>6. g * A \in Nat /\ DF!Groups * A \in Nat
    BY <1>1, Product
  <1>7. QED BY <1>1, <1>2, <1>3, <1>4, <1>5, <1>6 DEF DF!Switches

LEMMA HostGroupOfTor ==
  ASSUME NEW i \in 0 .. DF!Nodes - 1
  PROVE  DF!HostGroup(i) = DF!HostTor(i) \div A /\ DF!HostGroup(i) \in 0 .. DF!Groups - 1
  <1>1. A \in Nat \ {0} /\ P \in Nat \ {0} /\ i \in Nat /\ DF!Groups \in Nat
    BY Sizes, Sized
  <1>2. DF!HostGroup(i) = DF!HostTor(i) \div A
    BY <1>1, InTurn DEF DF!HostGroup, DF!HostTor
  <1>3. DF!HostTor(i) \in Nat /\ DF!HostTor(i) < DF!Groups * A
    <2>1. DF!HostTor(i) \in 0 .. DF!Switches - 1 /\ DF!Switches \in Nat
      BY HostJoined, Sizes
    <2>2. QED BY <2>1 DEF DF!Switches
  <1>4. DF!HostTor(i) \div A \in Nat
    BY <1>1, <1>3, Division
  <1>5. DF!HostTor(i) \div A < DF!Groups
    BY <1>1, <1>3, Below
  <1>6. QED BY <1>1, <1>2, <1>4, <1>5

\* A walk over cables that are laid.
Laid(nodes) == \A i \in 1 .. Len(nodes) - 1 : <<nodes[i], nodes[i + 1]>> \in DF!Cables

LEMMA LaidAlong ==
  ASSUME NEW nodes, Laid(nodes)
  PROVE  DF!ToSet(DF!Along(nodes)) \subseteq DF!Cables
  BY DEF Laid, DF!Along, DF!ToSet

LEMMA LaidSteps ==
  ASSUME NEW a, NEW b, NEW c, <<a, b>> \in DF!Cables, <<b, c>> \in DF!Cables
  PROVE  /\ Laid(<<a, b, c>>)
         /\ \A d : <<c, d>> \in DF!Cables => Laid(<<a, b, c, d>>)
  <1>1. Laid(<<a, b, c>>)
    <2> DEFINE p == <<a, b, c>>
    <2>1. Len(p) = 3 /\ p[1] = a /\ p[2] = b /\ p[3] = c
      OBVIOUS
    <2> HIDE DEF p
    <2>2. \A i \in 1 .. 2 : i = 1 \/ i = 2
      OBVIOUS
    <2>3. Laid(p)
      BY <2>1, <2>2 DEF Laid
    <2>4. QED BY <2>3 DEF p
  <1>2. ASSUME NEW d, <<c, d>> \in DF!Cables
        PROVE  Laid(<<a, b, c, d>>)
    <2> DEFINE p == <<a, b, c, d>>
    <2>1. Len(p) = 4 /\ p[1] = a /\ p[2] = b /\ p[3] = c /\ p[4] = d
      OBVIOUS
    <2> HIDE DEF p
    <2>2. \A i \in 1 .. 3 : i = 1 \/ i = 2 \/ i = 3
      OBVIOUS
    <2>3. Laid(p)
      BY <1>2, <2>1, <2>2 DEF Laid
    <2>4. QED BY <2>3 DEF p
  <1>3. QED BY <1>1, <1>2

\* A walk that has come to a node, and the next step of it, or none if it is there.
WalkTo(S, nodes, x) ==
  nodes \in Seq(S) /\ nodes # << >> /\ Laid(nodes) /\ nodes[Len(nodes)] = x

LEMMA WalkBegun ==
  ASSUME NEW S, NEW a \in S, NEW b \in S, <<a, b>> \in DF!Cables
  PROVE  WalkTo(S, <<a, b>>, b)
  <1> DEFINE p == <<a, b>>
  <1>1. p \in Seq(S) /\ Len(p) = 2 /\ p[1] = a /\ p[2] = b /\ p # << >>
    OBVIOUS
  <1> HIDE DEF p
  <1>2. \A i \in 1 .. 1 : i = 1
    OBVIOUS
  <1>3. WalkTo(S, p, b)
    BY <1>1, <1>2 DEF WalkTo, Laid
  <1>4. QED BY <1>3 DEF p

LEMMA WalkExtended ==
  ASSUME NEW S, NEW p, NEW x, WalkTo(S, p, x), NEW y \in S, <<x, y>> \in DF!Cables
  PROVE  WalkTo(S, p \o <<y>>, y)
  <1> DEFINE n == Len(p)
             q == p \o <<y>>
  <1>1. p \in Seq(S) /\ n \in Nat \ {0} /\ p[n] = x
    BY DEF WalkTo
  <1>2. /\ q \in Seq(S) /\ Len(q) = n + 1 /\ q[n + 1] = y
        /\ \A i \in 1 .. n : q[i] = p[i]
    BY <1>1
  <1>3. \A i \in 1 .. n - 1 : <<p[i], p[i + 1]>> \in DF!Cables
    BY DEF WalkTo, Laid
  <1> HIDE DEF n, q
  <1>4. q # << >>
    BY <1>1, <1>2
  <1>5. ASSUME NEW i \in 1 .. n
        PROVE  <<q[i], q[i + 1]>> \in DF!Cables
    <2>1. CASE i = n
      BY <1>1, <1>2, <2>1
    <2>2. CASE i \in 1 .. n - 1
      BY <1>1, <1>2, <1>3, <2>2
    <2>3. QED BY <1>1, <2>1, <2>2
  <1>6. Laid(q)
    BY <1>1, <1>2, <1>5 DEF Laid
  <1>7. WalkTo(S, q, y)
    BY <1>1, <1>2, <1>4, <1>6 DEF WalkTo
  <1>8. QED BY <1>7 DEF q

LEMMA WalkUnlessThere ==
  ASSUME NEW S, NEW p, NEW x, WalkTo(S, p, x), NEW y \in S, y # x => <<x, y>> \in DF!Cables
  PROVE  WalkTo(S, p \o (IF y = x THEN << >> ELSE <<y>>), y)
  <1>1. CASE y = x
    <2>1. p \o << >> = p
      BY DEF WalkTo
    <2>2. QED BY <1>1, <2>1
  <1>2. CASE y # x
    BY <1>2, WalkExtended
  <1>3. QED BY <1>1, <1>2

LEMMA LaidThroughGroups ==
  ASSUME NEW src \in 0 .. DF!Nodes - 1, NEW dest \in 0 .. DF!Nodes - 1,
         DF!HostGroup(src) # DF!HostGroup(dest)
  PROVE  Laid(DF!ThroughGroups(src, dest))
  <1> DEFINE gs == DF!HostGroup(src)
             gd == DF!HostGroup(dest)
             from == DF!HostTor(src)
             exit == DF!Gateway(gs, gd)
             entry == DF!Gateway(gd, gs)
             to == DF!HostTor(dest)
             s == DF!Host(src)
             d == DF!Host(dest)
             F == DF!Switch(from)
             X == DF!Switch(exit)
             N == DF!Switch(entry)
             T == DF!Switch(to)
  <1>1. <<s, F>> \in DF!Cables /\ <<T, d>> \in DF!Cables
    BY HostJoined
  <1>2. /\ from \in 0 .. DF!Switches - 1 /\ to \in 0 .. DF!Switches - 1
        /\ gs = from \div A /\ gd = to \div A
        /\ gs \in 0 .. DF!Groups - 1 /\ gd \in 0 .. DF!Groups - 1
    BY HostJoined, HostGroupOfTor
  <1>3. /\ exit \in 0 .. DF!Switches - 1 /\ exit \div A = gs
        /\ entry \in 0 .. DF!Switches - 1 /\ entry \div A = gd
    BY <1>2, GatewayIsInTheGroup
  <1>4. <<X, N>> \in DF!Cables
    BY <1>2, GroupsAreJoined
  <1>5. exit # from => <<F, X>> \in DF!Cables
    BY <1>2, <1>3, RoutersJoined
  <1>6. entry # to => <<N, T>> \in DF!Cables
    BY <1>2, <1>3, RoutersJoined
  <1>7. (X = F <=> exit = from) /\ (N = T <=> entry = to)
    BY DEF DF!Switch
  <1>8. DF!ThroughGroups(src, dest)
          = <<s, F>> \o (IF X = F THEN << >> ELSE <<X>>) \o <<N>>
              \o (IF N = T THEN << >> ELSE <<T>>) \o <<d>>
    BY DEF DF!ThroughGroups
  <1> DEFINE S == {s, d, F, X, N, T}
  <1> HIDE DEF s, d, F, X, N, T, from, to, exit, entry
  <1>9. s \in S /\ d \in S /\ F \in S /\ X \in S /\ N \in S /\ T \in S
    OBVIOUS
  <1> HIDE DEF S
  <1>10. WalkTo(S, <<s, F>>, F)
    BY <1>1, <1>9, WalkBegun
  <1> DEFINE p == <<s, F>> \o (IF X = F THEN << >> ELSE <<X>>)
             q == p \o <<N>> \o (IF T = N THEN << >> ELSE <<T>>)
  <1>11. WalkTo(S, p, X)
    BY <1>5, <1>7, <1>9, <1>10, WalkUnlessThere
  <1> HIDE DEF p
  <1>12. WalkTo(S, p \o <<N>>, N)
    BY <1>4, <1>9, <1>11, WalkExtended
  <1>13. WalkTo(S, q, T)
    BY <1>6, <1>7, <1>9, <1>12, WalkUnlessThere
  <1> HIDE DEF q
  <1>14. WalkTo(S, q \o <<d>>, d)
    BY <1>1, <1>9, <1>13, WalkExtended
  <1>15. DF!ThroughGroups(src, dest) = q \o <<d>>
    BY <1>8 DEF p, q
  <1>16. QED BY <1>14, <1>15 DEF WalkTo

\* Every node of a route is joined to the next, and so the route is the one path.
LEMMA LaidBetween ==
  ASSUME NEW src \in 0 .. DF!Nodes - 1, NEW dest \in 0 .. DF!Nodes - 1, src # dest
  PROVE  /\ Laid(DF!NodesBetween(src, dest))
         /\ DF!Paths(src, dest) = <<DF!Along(DF!NodesBetween(src, dest))>>
  <1>1. Laid(DF!NodesBetween(src, dest))
    <2>1. CASE DF!HostTor(src) = DF!HostTor(dest)
      <3>1. DF!NodesBetween(src, dest) = <<DF!Host(src), DF!Switch(DF!HostTor(src)), DF!Host(dest)>>
        BY <2>1 DEF DF!NodesBetween
      <3>2. /\ <<DF!Host(src), DF!Switch(DF!HostTor(src))>> \in DF!Cables
            /\ <<DF!Switch(DF!HostTor(src)), DF!Host(dest)>> \in DF!Cables
        BY <2>1, HostJoined
      <3>3. QED BY <3>1, <3>2, LaidSteps
    <2>2. CASE DF!HostTor(src) # DF!HostTor(dest) /\ DF!HostGroup(src) = DF!HostGroup(dest)
      <3>1. DF!NodesBetween(src, dest)
              = <<DF!Host(src), DF!Switch(DF!HostTor(src)), DF!Switch(DF!HostTor(dest)), DF!Host(dest)>>
        BY <2>2 DEF DF!NodesBetween
      <3>2. /\ <<DF!Host(src), DF!Switch(DF!HostTor(src))>> \in DF!Cables
            /\ <<DF!Switch(DF!HostTor(dest)), DF!Host(dest)>> \in DF!Cables
            /\ DF!HostTor(src) \in 0 .. DF!Switches - 1 /\ DF!HostTor(dest) \in 0 .. DF!Switches - 1
        BY HostJoined
      <3>3. DF!HostTor(src) \div A = DF!HostTor(dest) \div A
        BY <2>2, HostGroupOfTor
      <3>4. <<DF!Switch(DF!HostTor(src)), DF!Switch(DF!HostTor(dest))>> \in DF!Cables
        BY <2>2, <3>2, <3>3, RoutersJoined
      <3>5. QED BY <3>1, <3>2, <3>4, LaidSteps
    <2>3. CASE DF!HostTor(src) # DF!HostTor(dest) /\ DF!HostGroup(src) # DF!HostGroup(dest)
      BY <2>3, LaidThroughGroups DEF DF!NodesBetween
    <2>4. QED BY <2>1, <2>2, <2>3
  <1>2. src < DF!Nodes /\ dest < DF!Nodes
    BY Sizes
  <1>3. QED BY <1>1, <1>2, LaidAlong DEF DF!Paths

(***************************************************************************)
(* Any two hosts are given a route, for every number of hosts, routers and *)
(* long cables: get_bidir_paths drops without a word a path one of whose   *)
(* cables was not laid, and would then return no path at all.              *)
(***************************************************************************)
THEOREM EveryPairHasARoute ==
  ASSUME NEW src \in 0 .. DF!Nodes - 1, NEW dest \in 0 .. DF!Nodes - 1, src # dest
  PROVE  DF!Paths(src, dest) # << >>
  BY LaidBetween
------------------------------------------------------------------------------
\* The walks over any cables.

\* A walk, a cable at a time.
IsWalk(C, a, b, w, n) ==
  /\ w \in Seq(C) /\ Len(w) = n /\ w[1] \in Onwards(C, a, b)
  /\ \A i \in 1 .. n - 1 : w[i + 1] \in Onwards(C, w[i][2], b)

\* A walk of one cable; a walk and one cable more; a walk without its last cable.
LEMMA WalkOfOne ==
  ASSUME NEW C, NEW a, NEW b, NEW w
  PROVE  IsWalk(C, a, b, w, 1) <=> \E c \in Onwards(C, a, b) : w = <<c>>
  <1>1. ASSUME NEW c \in Onwards(C, a, b)
        PROVE  IsWalk(C, a, b, <<c>>, 1)
    <2>1. c \in C
      BY DEF Onwards
    <2> DEFINE u == <<c>>
    <2>2. u \in Seq(C) /\ Len(u) = 1 /\ u[1] = c /\ 1 .. 1 - 1 = {}
      BY <2>1
    <2> HIDE DEF u
    <2>3. IsWalk(C, a, b, u, 1)
      BY <2>2 DEF IsWalk
    <2>4. QED BY <2>3 DEF u
  <1>2. ASSUME IsWalk(C, a, b, w, 1)
        PROVE  w[1] \in Onwards(C, a, b) /\ w = <<w[1]>>
    BY <1>2 DEF IsWalk
  <1>3. QED BY <1>1, <1>2

LEMMA WalkGrows ==
  ASSUME NEW C, NEW a, NEW b, NEW n \in Nat \ {0}, NEW u, IsWalk(C, a, b, u, n),
         NEW c \in Onwards(C, Last(u)[2], b)
  PROVE  IsWalk(C, a, b, Append(u, c), n + 1)
  <1> DEFINE w == Append(u, c)
  <1>1. u \in Seq(C) /\ Len(u) = n /\ c \in C
    BY DEF IsWalk, Onwards
  <1>2. /\ w \in Seq(C) /\ Len(w) = n + 1 /\ w[n + 1] = c
        /\ \A i \in 1 .. n : w[i] = u[i]
    BY <1>1
  <1>3. Last(u) = u[n]
    BY <1>1 DEF Last
  <1> HIDE DEF w
  <1>4. w[1] \in Onwards(C, a, b)
    BY <1>2 DEF IsWalk
  <1>5. ASSUME NEW i \in 1 .. n
        PROVE  w[i + 1] \in Onwards(C, w[i][2], b)
    <2>1. CASE i = n
      BY <1>2, <1>3, <2>1
    <2>2. CASE i # n
      <3>1. i \in 1 .. n - 1 /\ i + 1 \in 1 .. n
        BY <2>2
      <3>2. u[i + 1] \in Onwards(C, u[i][2], b)
        BY <3>1 DEF IsWalk
      <3>3. QED BY <1>2, <3>1, <3>2
    <2>3. QED BY <2>1, <2>2
  <1>6. (n + 1) - 1 = n
    OBVIOUS
  <1>7. IsWalk(C, a, b, w, n + 1)
    BY <1>2, <1>4, <1>5, <1>6 DEF IsWalk
  <1>8. QED BY <1>7 DEF w

LEMMA WalkShrinks ==
  ASSUME NEW C, NEW a, NEW b, NEW n \in Nat \ {0}, NEW w, IsWalk(C, a, b, w, n + 1)
  PROVE  \E u : /\ IsWalk(C, a, b, u, n)
                /\ \E c \in Onwards(C, Last(u)[2], b) : w = Append(u, c)
  <1> DEFINE u == [i \in 1 .. n |-> w[i]]
             c == w[n + 1]
  <1>1. w \in Seq(C) /\ Len(w) = n + 1
    BY DEF IsWalk
  <1>2. (n + 1) - 1 = n /\ n \in 1 .. n /\ n + 1 \in Nat
    OBVIOUS
  <1>3. u \in Seq(C) /\ Len(u) = n /\ \A i \in 1 .. n : u[i] = w[i]
    BY <1>1
  <1>4. Last(u) = w[n]
    BY <1>2, <1>3 DEF Last
  <1>5. /\ w[1] \in Onwards(C, a, b)
        /\ \A i \in 1 .. n : w[i + 1] \in Onwards(C, w[i][2], b)
    BY <1>2 DEF IsWalk
  <1>6. c \in Onwards(C, Last(u)[2], b)
    BY <1>2, <1>4, <1>5
  <1>7. w = Append(u, c)
    BY <1>1, <1>3
  <1> HIDE DEF u, c
  <1>8. \A i \in 1 .. n - 1 : u[i + 1] \in Onwards(C, u[i][2], b)
    BY <1>3, <1>5
  <1>9. IsWalk(C, a, b, u, n)
    BY <1>3, <1>5, <1>8 DEF IsWalk
  <1>10. QED BY <1>6, <1>7, <1>9

\* What Walks computes.
LEMMA WalksAre ==
  ASSUME NEW C, NEW a, NEW b, NEW n \in 1 .. 6
  PROVE  \A w : w \in Walks(C, a, b)[n] <=> IsWalk(C, a, b, w, n)
  <1> DEFINE G(k) == {w \in Seq(C) : IsWalk(C, a, b, w, k)}
             g == [k \in 1 .. 6 |-> G(k)]
             From(f, k) == UNION {{Append(walk, c) : c \in Onwards(C, Last(walk)[2], b)} : walk \in f[k - 1]}
             Eq(f) == f = [k \in 1 .. 6 |-> IF k = 1 THEN {<<c>> : c \in Onwards(C, a, b)} ELSE From(f, k)]
             h == CHOOSE f : Eq(f)
  <1>1. Walks(C, a, b) = h
    BY DEF Walks
  <1>2. \A k, w : w \in G(k) <=> IsWalk(C, a, b, w, k)
    BY DEF IsWalk
  <1>3. G(1) = {<<c>> : c \in Onwards(C, a, b)}
    <2> HIDE DEF G
    <2>1. QED BY <1>2, WalkOfOne
  <1>4. ASSUME NEW k \in 2 .. 6
        PROVE  G(k) = From(g, k)
    <2> DEFINE j == k - 1
    <2>1. j \in 1 .. 6 /\ j \in Nat \ {0} /\ k = j + 1
      OBVIOUS
    <2>2. g[j] = G(j)
      BY <2>1
    <2>3. From(g, k) = UNION {{Append(walk, c) : c \in Onwards(C, Last(walk)[2], b)} : walk \in G(j)}
      BY <2>2
    <2> HIDE DEF G, g, j
    <2>4. \A w : IsWalk(C, a, b, w, j + 1)
                 <=> \E u \in G(j) : \E c \in Onwards(C, Last(u)[2], b) : w = Append(u, c)
      <3>1. ASSUME NEW u \in G(j), NEW c \in Onwards(C, Last(u)[2], b)
            PROVE  IsWalk(C, a, b, Append(u, c), j + 1)
        <4>1. IsWalk(C, a, b, u, j)
          BY <1>2
        <4>2. QED BY <2>1, <4>1, WalkGrows
      <3>2. ASSUME NEW w, IsWalk(C, a, b, w, j + 1)
            PROVE  \E u \in G(j) : \E c \in Onwards(C, Last(u)[2], b) : w = Append(u, c)
        <4>1. \E u : /\ IsWalk(C, a, b, u, j)
                     /\ \E c \in Onwards(C, Last(u)[2], b) : w = Append(u, c)
          BY <2>1, <3>2, WalkShrinks
        <4>2. QED BY <1>2, <4>1
      <3>3. QED BY <3>1, <3>2
    <2>5. \A w : w \in G(k) <=> \E u \in G(j) : \E c \in Onwards(C, Last(u)[2], b) : w = Append(u, c)
      BY <1>2, <2>1, <2>4
    <2>6. QED BY <2>3, <2>5
  <1>5. Eq(g)
    <2> DEFINE g1 == [k \in 1 .. 6 |-> IF k = 1 THEN {<<c>> : c \in Onwards(C, a, b)} ELSE From(g, k)]
    <2>1. ASSUME NEW k \in 1 .. 6
          PROVE  g[k] = g1[k]
      <3> HIDE DEF G, From
      <3>1. CASE k = 1
        BY <1>3, <3>1
      <3>2. CASE k # 1
        <4>1. k \in 2 .. 6
          BY <3>2
        <4>2. QED BY <1>4, <3>2, <4>1
      <3>3. QED BY <3>1, <3>2
    <2>2. g = g1
      <3> HIDE DEF G, From
      <3>1. QED BY <2>1
    <2>3. QED BY <2>2
  <1>6. Eq(h)
    <2> HIDE DEF g, Eq
    <2>1. QED BY <1>5
  <1> HIDE DEF h
  <1> DEFINE M == {k \in 0 .. 6 : k # 0 => h[k] = g[k]}
  <1>7. ASSUME NEW k \in M, k < 6
        PROVE  k + 1 \in M
    <2>1. k + 1 \in 1 .. 6 /\ k + 1 \in 0 .. 6 /\ (k + 1) - 1 = k
      BY <1>7
    <2>2. CASE k = 0
      <3>1. h[1] = {<<c>> : c \in Onwards(C, a, b)}
        <4> HIDE DEF From
        <4>1. QED BY <1>6
      <3>2. g[1] = G(1)
        OBVIOUS
      <3> HIDE DEF G, g
      <3>3. h[1] = g[1]
        BY <1>3, <3>1, <3>2
      <3>4. QED BY <2>1, <2>2, <3>3
    <2>3. CASE k # 0
      <3>1. k + 1 # 1 /\ k + 1 \in 2 .. 6
        BY <2>1, <2>3
      <3>2. h[k + 1] = From(h, k + 1)
        <4> HIDE DEF From
        <4>1. QED BY <1>6, <2>1, <3>1
      <3>3. h[k] = g[k]
        BY <2>3
      <3>4. From(h, k + 1) = From(g, k + 1)
        <4> HIDE DEF g
        <4>1. QED BY <2>1, <3>3
      <3>5. G(k + 1) = From(g, k + 1)
        BY <1>4, <3>1
      <3>6. g[k + 1] = G(k + 1)
        <4> HIDE DEF G
        <4>1. QED BY <2>1
      <3> HIDE DEF G, g, From
      <3>7. h[k + 1] = g[k + 1]
        BY <3>2, <3>4, <3>5, <3>6
      <3>8. QED BY <2>1, <3>7
    <2>4. QED BY <2>2, <2>3
  <1>8. M = 0 .. 6
    <2>1. M \in SUBSET (0 .. 6) /\ 0 \in M
      OBVIOUS
    <2> HIDE DEF M
    <2>2. QED BY <1>7, <2>1, BoundedInduction
  <1>9. h[n] = G(n)
    <2>1. n \in 0 .. 6 /\ n # 0
      OBVIOUS
    <2>2. n \in M
      <3> HIDE DEF M
      <3>1. QED BY <1>8, <2>1
    <2> HIDE DEF G
    <2>3. QED BY <2>1, <2>2
  <1> HIDE DEF G
  <1>10. QED BY <1>1, <1>2, <1>9

\* The nodes of a walk from host to host that comes by no third.
Trail(C, a, b, v, n) ==
  /\ v[1] = a /\ v[n + 1] = b
  /\ \A i \in 1 .. n : <<v[i], v[i + 1]>> \in C /\ (v[i + 1][1] = "host" => v[i + 1] = b)

\* The cables between nodes; that a cable is the pair of its ends.
Cabled(v, n) == [i \in 1 .. n |-> <<v[i], v[i + 1]>>]

Joins(C) == \A c \in C : c = <<c[1], c[2]>>

\* The walks that end where they should are the cables of such nodes.
LEMMA TrailIsAWalk ==
  ASSUME NEW C, NEW a, NEW b, NEW n \in Nat \ {0}, NEW v, Trail(C, a, b, v, n)
  PROVE  IsWalk(C, a, b, Cabled(v, n), n) /\ Last(Cabled(v, n))[2] = b
  <1> DEFINE w == Cabled(v, n)
  <1>1. /\ v[1] = a /\ v[n + 1] = b
        /\ \A i \in 1 .. n : <<v[i], v[i + 1]>> \in C /\ (v[i + 1][1] = "host" => v[i + 1] = b)
    BY DEF Trail
  <1>2. w \in Seq(C) /\ Len(w) = n /\ \A i \in 1 .. n : w[i] = <<v[i], v[i + 1]>>
    BY <1>1 DEF Cabled
  <1> HIDE DEF w
  <1>3. ASSUME NEW i \in 1 .. n
        PROVE  w[i] \in Onwards(C, v[i], b) /\ w[i][2] = v[i + 1]
    <2> DEFINE y == v[i + 1]
    <2>1. w[i] = <<v[i], y>> /\ w[i] \in C /\ (y[1] = "host" => y = b)
      BY <1>1, <1>2
    <2> HIDE DEF y
    <2>2. w[i][1] = v[i] /\ w[i][2] = y
      BY <2>1
    <2>3. w[i] \in Onwards(C, v[i], b)
      BY <2>1, <2>2 DEF Onwards
    <2>4. QED BY <2>2, <2>3 DEF y
  <1>4. w[1] \in Onwards(C, a, b) /\ w[n][2] = b
    <2>1. 1 \in 1 .. n /\ n \in 1 .. n
      OBVIOUS
    <2>2. QED BY <1>1, <1>3, <2>1
  <1>5. ASSUME NEW i \in 1 .. n - 1
        PROVE  w[i + 1] \in Onwards(C, w[i][2], b)
    <2>1. i \in 1 .. n /\ i + 1 \in 1 .. n
      OBVIOUS
    <2>2. QED BY <1>3, <2>1
  <1>6. IsWalk(C, a, b, w, n)
    BY <1>2, <1>4, <1>5 DEF IsWalk
  <1>7. Last(w) = w[n]
    BY <1>2 DEF Last
  <1>8. QED BY <1>4, <1>6, <1>7 DEF w

LEMMA WalkIsATrail ==
  ASSUME NEW C, Joins(C), NEW a, NEW b, NEW n \in Nat \ {0}, NEW w,
         IsWalk(C, a, b, w, n), Last(w)[2] = b
  PROVE  \E v : Trail(C, a, b, v, n) /\ w = Cabled(v, n)
  <1> DEFINE v == [i \in 1 .. n + 1 |-> IF i = 1 THEN a ELSE w[i - 1][2]]
  <1>1. /\ w \in Seq(C) /\ Len(w) = n /\ w[1] \in Onwards(C, a, b)
        /\ \A i \in 1 .. n - 1 : w[i + 1] \in Onwards(C, w[i][2], b)
    BY DEF IsWalk
  <1>2. v[1] = a
    OBVIOUS
  <1>3. ASSUME NEW i \in 1 .. n
        PROVE  v[i + 1] = w[i][2]
    <2>1. i + 1 \in 1 .. n + 1 /\ i + 1 # 1 /\ (i + 1) - 1 = i
      OBVIOUS
    <2>2. QED BY <2>1
  <1> HIDE DEF v
  <1>4. Last(w) = w[n]
    BY <1>1 DEF Last
  <1>5. v[n + 1] = b
    BY <1>3, <1>4
  <1>6. ASSUME NEW i \in 1 .. n
        PROVE  w[i] \in Onwards(C, v[i], b)
    <2>1. CASE i = 1
      BY <1>1, <1>2, <2>1
    <2>2. CASE i # 1
      <3> DEFINE j == i - 1
      <3>1. j \in 1 .. n - 1 /\ j \in 1 .. n /\ i = j + 1
        BY <2>2
      <3> HIDE DEF j
      <3>2. w[j + 1] \in Onwards(C, w[j][2], b) /\ v[j + 1] = w[j][2]
        BY <1>1, <1>3, <3>1
      <3>3. QED BY <3>1, <3>2
    <2>3. QED BY <2>1, <2>2
  <1>7. ASSUME NEW i \in 1 .. n
        PROVE  /\ w[i] = <<v[i], v[i + 1]>> /\ <<v[i], v[i + 1]>> \in C
               /\ v[i + 1][1] = "host" => v[i + 1] = b
    <2>1. w[i] \in C /\ w[i][1] = v[i] /\ (w[i][2][1] = "host" => w[i][2] = b)
      BY <1>6 DEF Onwards
    <2>2. w[i] = <<v[i], v[i + 1]>>
      BY <1>3, <2>1 DEF Joins
    <2>3. QED BY <1>3, <2>1, <2>2
  <1>8. Trail(C, a, b, v, n)
    BY <1>2, <1>5, <1>7 DEF Trail
  <1>9. w = Cabled(v, n)
    <2>1. w = [i \in 1 .. n |-> w[i]]
      BY <1>1
    <2>2. [i \in 1 .. n |-> w[i]] = [i \in 1 .. n |-> <<v[i], v[i + 1]>>]
      BY <1>7
    <2>3. QED BY <2>1, <2>2 DEF Cabled
  <1>10. QED BY <1>8, <1>9

\* The shortest walks, when there are none of fewer than m cables.
LEMMA ShortestAre ==
  ASSUME NEW C, Joins(C), NEW a, NEW b, NEW m \in 1 .. 6,
         \A n \in 1 .. m - 1 : \A v : ~ Trail(C, a, b, v, n),
         \E v : Trail(C, a, b, v, m)
  PROVE  \A w : w \in Shortest(C, a, b) <=> \E v : Trail(C, a, b, v, m) /\ w = Cabled(v, m)
  <1> DEFINE There(n) == {walk \in Walks(C, a, b)[n] : Last(walk)[2] = b}
             there == [n \in 1 .. 6 |-> There(n)]
             Some == {n \in 1 .. 6 : there[n] # {}}
  <1>1. Shortest(C, a, b) = there[Min(Some)]
    BY DEF Shortest
  <1>2. ASSUME NEW n \in 1 .. 6
        PROVE  \A w : w \in There(n) <=> \E v : Trail(C, a, b, v, n) /\ w = Cabled(v, n)
    <2>1. \A w : w \in There(n) <=> IsWalk(C, a, b, w, n) /\ Last(w)[2] = b
      BY WalksAre
    <2> HIDE DEF There
    <2>2. ASSUME NEW w, IsWalk(C, a, b, w, n), Last(w)[2] = b
          PROVE  \E v : Trail(C, a, b, v, n) /\ w = Cabled(v, n)
      BY <2>2, WalkIsATrail
    <2>3. ASSUME NEW v, Trail(C, a, b, v, n)
          PROVE  IsWalk(C, a, b, Cabled(v, n), n) /\ Last(Cabled(v, n))[2] = b
      BY <2>3, TrailIsAWalk
    <2>4. QED BY <2>1, <2>2, <2>3
  <1> HIDE DEF There
  <1>3. \A n \in 1 .. 6 : there[n] = There(n)
    OBVIOUS
  <1> HIDE DEF there
  <1>4. Some \in SUBSET Nat /\ m \in Some
    <2>1. There(m) # {}
      BY <1>2
    <2>2. QED BY <1>3, <2>1
  <1>5. \A n \in Some : ~ (n < m)
    <2> SUFFICES ASSUME NEW n \in Some, n < m
                 PROVE  FALSE
      OBVIOUS
    <2>1. n \in 1 .. 6 /\ n \in 1 .. m - 1
      OBVIOUS
    <2>2. There(n) # {}
      BY <1>3, <2>1
    <2>3. \E w : w \in There(n)
      BY <2>2
    <2>4. QED BY <1>2, <2>1, <2>3
  <1>6. Min(Some) \in Some /\ ~ (m < Min(Some))
    <2> HIDE DEF Some
    <2>1. QED BY <1>4, MinIsMember, MinIsLeast
  <1>7. Min(Some) = m
    <2> DEFINE k == Min(Some)
    <2>1. k \in Nat /\ ~ (m < k) /\ ~ (k < m)
      <3> HIDE DEF Some
      <3>1. QED BY <1>4, <1>5, <1>6
    <2> HIDE DEF k
    <2>2. k = m
      BY <2>1
    <2>3. QED BY <2>2 DEF k
  <1>8. Shortest(C, a, b) = There(m)
    BY <1>1, <1>3, <1>7
  <1>9. QED BY <1>2, <1>8
------------------------------------------------------------------------------
\* What a cable of the dragonfly joins.
HostCable(c) ==
  \E i \in 0 .. DF!Nodes - 1 : c \in DF!Both(DF!Switch(DF!HostTor(i)), DF!Host(i))
GroupCable(c) ==
  \E j \in 0 .. DF!Switches - 1 : \E k \in 0 .. DF!Switches - 1 :
    j # k /\ j \div A = k \div A /\ c = <<DF!Switch(j), DF!Switch(k)>>
LongCable(c) ==
  \E g \in 0 .. DF!Groups - 1 : \E o \in 0 .. DF!Groups - 1 :
    g # o /\ c = <<DF!Switch(DF!Gateway(g, o)), DF!Switch(DF!Gateway(o, g))>>

LEMMA HostCableIs ==
  ASSUME NEW c \in DF!HostCables
  PROVE  HostCable(c)
  <1>1. PICK j \in 0 .. DF!Switches - 1, l \in 0 .. P - 1 : c \in DF!Both(DF!Switch(j), DF!Host(j * P + l))
    BY DEF DF!HostCables
  <1> DEFINE i == j * P + l
  <1>2. P \in Nat \ {0} /\ DF!Switches \in Nat /\ j \in Nat /\ j < DF!Switches
    BY Sized, Sizes
  <1>3. i \in Nat /\ i \div P = j
    BY <1>2, Unique
  <1>4. j * P + P =< DF!Switches * P
    BY <1>2, Apart
  <1>5. j * P \in Nat /\ DF!Switches * P \in Nat
    BY <1>2, Product
  <1>6. i \in 0 .. DF!Nodes - 1
    BY <1>2, <1>3, <1>4, <1>5 DEF DF!Nodes
  <1> HIDE DEF i
  <1>7. DF!HostTor(i) = j
    BY <1>3 DEF DF!HostTor
  <1>8. c \in DF!Both(DF!Switch(DF!HostTor(i)), DF!Host(i))
    BY <1>1, <1>7 DEF i
  <1>9. QED BY <1>6, <1>8 DEF HostCable

LEMMA GroupCableIs ==
  ASSUME NEW c \in DF!GroupCables
  PROVE  GroupCable(c)
  <1>1. PICK j \in 0 .. DF!Switches - 1 :
          \E k \in j + 1 .. (j \div A + 1) * A - 1 : c \in DF!Both(DF!Switch(j), DF!Switch(k))
    BY DEF DF!GroupCables
  <1>2. PICK k \in j + 1 .. (j \div A + 1) * A - 1 : c \in DF!Both(DF!Switch(j), DF!Switch(k))
    BY <1>1
  <1> DEFINE g == j \div A
             r == j % A
  <1>3. A \in Nat \ {0} /\ DF!Switches = DF!Groups * A /\ DF!Groups \in Nat /\ j \in Nat /\ j < DF!Switches
    BY Sized, Sizes DEF DF!Switches
  <1>4. g \in Nat /\ r \in 0 .. A - 1 /\ j = g * A + r
    BY <1>3, Division
  <1>5. k \in j + 1 .. (g + 1) * A - 1
    OBVIOUS
  <1>6. g < DF!Groups
    BY <1>3, Below
  <1> HIDE DEF g, r
  <1>7. g * A \in Nat /\ (g + 1) * A = g * A + A
    BY <1>3, <1>4, Product
  <1> DEFINE q == k - g * A
  <1>8. k \in Nat /\ j < k /\ q \in 0 .. A - 1 /\ k = g * A + q
    BY <1>3, <1>4, <1>5, <1>7
  <1>9. k \div A = g
    <2> HIDE DEF q
    <2>1. QED BY <1>3, <1>4, <1>8, Unique
  <1>10. k < DF!Switches
    <2>1. g * A + A =< DF!Groups * A
      BY <1>3, <1>4, <1>6, Apart
    <2>2. DF!Groups * A \in Nat
      BY <1>3, Product
    <2>3. QED BY <1>3, <1>7, <1>8, <2>1, <2>2
  <1>11. j # k /\ k \in 0 .. DF!Switches - 1 /\ j \div A = k \div A
    BY <1>3, <1>8, <1>9, <1>10 DEF g
  <1>12. c = <<DF!Switch(j), DF!Switch(k)>> \/ c = <<DF!Switch(k), DF!Switch(j)>>
    BY <1>2 DEF DF!Both
  <1>13. QED BY <1>11, <1>12 DEF GroupCable

LEMMA LongCableIs ==
  ASSUME NEW c \in DF!LongCables
  PROVE  LongCable(c)
  <1>1. PICK j \in 0 .. DF!Switches - 1 :
          \E t \in DF!GroupTargets(j) : c \in DF!Both(DF!Switch(j), DF!Switch(t * A + (j \div A) \div H))
    BY DEF DF!LongCables
  <1>2. PICK t \in DF!GroupTargets(j) : c \in DF!Both(DF!Switch(j), DF!Switch(t * A + (j \div A) \div H))
    BY <1>1
  <1>3. PICK l \in 0 .. H - 1 : t = (j % A) * H + l + 1
    BY DEF DF!GroupTargets, DF!Target
  <1> DEFINE g == j \div A
             r == j % A
  <1>4. /\ A \in Nat \ {0} /\ H \in Nat \ {0} /\ DF!Switches = DF!Groups * A /\ DF!Groups \in Nat
        /\ j \in Nat /\ j < DF!Switches
    BY Sized, Sizes DEF DF!Switches
  <1>5. g \in Nat /\ r \in 0 .. A - 1 /\ j = g * A + r
    BY <1>4, Division
  <1>6. g < DF!Groups
    BY <1>4, Below
  <1>7. t > g /\ t < DF!Groups
    BY DEF DF!GroupTargets
  <1>8. t = r * H + l + 1
    BY <1>3
  <1> HIDE DEF g, r
  <1>9. r * H \in Nat
    BY <1>4, <1>5, Product
  <1>10. t \in Nat /\ t - 1 = r * H + l
    BY <1>4, <1>8, <1>9
  <1>11. (t - 1) \div H = r
    BY <1>4, <1>5, <1>10, Unique
  <1>12. DF!Gateway(g, t) = j
    BY <1>5, <1>7, <1>10, <1>11 DEF DF!Gateway
  <1>13. DF!Gateway(t, g) = t * A + g \div H
    BY <1>5, <1>7, <1>10 DEF DF!Gateway
  <1>14. g \in 0 .. DF!Groups - 1 /\ t \in 0 .. DF!Groups - 1 /\ g # t
    BY <1>4, <1>5, <1>6, <1>7, <1>10
  <1>15. \/ c = <<DF!Switch(DF!Gateway(g, t)), DF!Switch(DF!Gateway(t, g))>>
         \/ c = <<DF!Switch(DF!Gateway(t, g)), DF!Switch(DF!Gateway(g, t))>>
    BY <1>2, <1>12, <1>13 DEF DF!Both, g
  <1>16. QED BY <1>14, <1>15 DEF LongCable

LEMMA CableIs ==
  ASSUME NEW c \in DF!Cables
  PROVE  HostCable(c) \/ GroupCable(c) \/ LongCable(c)
  BY HostCableIs, GroupCableIs, LongCableIs DEF DF!Cables

LEMMA CablesJoin == Joins(DF!Cables)
  <1>1. ASSUME NEW c \in DF!Cables
        PROVE  c = <<c[1], c[2]>>
    <2>1. \E x, y : c = <<x, y>>
      BY CableIs DEF HostCable, GroupCable, LongCable, DF!Both
    <2>2. QED BY <2>1
  <1>2. QED BY <1>1 DEF Joins

\* Where the cables of a host and of a router lead.
LEMMA FromHost ==
  ASSUME NEW i \in 0 .. DF!Nodes - 1, NEW y,
         <<DF!Host(i), y>> \in DF!Cables \/ <<y, DF!Host(i)>> \in DF!Cables
  PROVE  y = DF!Switch(DF!HostTor(i))
  <1>1. ASSUME NEW c, HostCable(c), c = <<DF!Host(i), y>> \/ c = <<y, DF!Host(i)>>
        PROVE  y = DF!Switch(DF!HostTor(i))
    BY <1>1 DEF HostCable, DF!Both, DF!Host, DF!Switch
  <1>2. ASSUME NEW c, c = <<DF!Host(i), y>> \/ c = <<y, DF!Host(i)>>
        PROVE  ~ GroupCable(c) /\ ~ LongCable(c)
    BY <1>2 DEF GroupCable, LongCable, DF!Host, DF!Switch
  <1>3. QED BY <1>1, <1>2, CableIs

LEMMA BetweenSwitches ==
  ASSUME NEW j, NEW k, <<DF!Switch(j), DF!Switch(k)>> \in DF!Cables
  PROVE  /\ j \in 0 .. DF!Switches - 1 /\ k \in 0 .. DF!Switches - 1
         /\ \/ j # k /\ j \div A = k \div A
            \/ /\ j \div A # k \div A
               /\ j = DF!Gateway(j \div A, k \div A) /\ k = DF!Gateway(k \div A, j \div A)
  <1> DEFINE c == <<DF!Switch(j), DF!Switch(k)>>
  <1>1. ~ HostCable(c)
    BY DEF HostCable, DF!Both, DF!Host, DF!Switch
  <1>2. CASE GroupCable(c)
    BY <1>2 DEF GroupCable, DF!Switch
  <1>3. CASE LongCable(c)
    <2>1. PICK g \in 0 .. DF!Groups - 1 : \E o \in 0 .. DF!Groups - 1 :
            g # o /\ c = <<DF!Switch(DF!Gateway(g, o)), DF!Switch(DF!Gateway(o, g))>>
      BY <1>3 DEF LongCable
    <2>2. PICK o \in 0 .. DF!Groups - 1 :
            g # o /\ c = <<DF!Switch(DF!Gateway(g, o)), DF!Switch(DF!Gateway(o, g))>>
      BY <2>1
    <2>3. j = DF!Gateway(g, o) /\ k = DF!Gateway(o, g)
      BY <2>2 DEF DF!Switch
    <2>4. /\ j \in 0 .. DF!Switches - 1 /\ j \div A = g
          /\ k \in 0 .. DF!Switches - 1 /\ k \div A = o
      BY <2>2, <2>3, GatewayIsInTheGroup
    <2>5. QED BY <2>2, <2>3, <2>4
  <1>4. QED BY <1>1, <1>2, <1>3, CableIs

LEMMA OfNodes ==
  ASSUME NEW x, NEW y, <<x, y>> \in DF!Cables
  PROVE  /\ (\E i \in 0 .. DF!Nodes - 1 : y = DF!Host(i)) \/ (\E j : y = DF!Switch(j))
         /\ (\E i \in 0 .. DF!Nodes - 1 : x = DF!Host(i)) \/ (\E j : x = DF!Switch(j))
  BY CableIs DEF HostCable, GroupCable, LongCable, DF!Both

\* When there is one walk of m cables and none of fewer.
LEMMA OnlyTrail ==
  ASSUME NEW C, Joins(C), NEW a, NEW b, NEW m \in 1 .. 6, NEW p, Trail(C, a, b, p, m),
         \A n \in 1 .. m - 1 : \A v : ~ Trail(C, a, b, v, n),
         \A v : Trail(C, a, b, v, m) => \A i \in 1 .. m + 1 : v[i] = p[i]
  PROVE  Shortest(C, a, b) = {Cabled(p, m)}
  <1>1. \A w : w \in Shortest(C, a, b) <=> \E v : Trail(C, a, b, v, m) /\ w = Cabled(v, m)
    BY ShortestAre
  <1>2. ASSUME NEW v, Trail(C, a, b, v, m)
        PROVE  Cabled(v, m) = Cabled(p, m)
    <2>1. \A i \in 1 .. m : v[i] = p[i] /\ v[i + 1] = p[i + 1]
      <3>1. \A i \in 1 .. m : i \in 1 .. m + 1 /\ i + 1 \in 1 .. m + 1
        OBVIOUS
      <3>2. QED BY <1>2, <3>1
    <2>2. QED BY <2>1 DEF Cabled
  <1>3. QED BY <1>1, <1>2

\* The group of a node; the nodes of two groups.
GroupOf(node) == IF node[1] = "host" THEN DF!HostGroup(node[2]) ELSE node[2] \div A
Near(src, dest, node) == GroupOf(node) \in {DF!HostGroup(src), DF!HostGroup(dest)}

LEMMA BetweenIs ==
  ASSUME NEW src, NEW dest
  PROVE  /\ Joins(Between(src, dest))
         /\ \A x, y : <<x, y>> \in Between(src, dest)
                        <=> <<x, y>> \in DF!Cables /\ Near(src, dest, x) /\ Near(src, dest, y)
  <1>1. Between(src, dest)
          = {c \in DF!Cables : Near(src, dest, c[1]) /\ Near(src, dest, c[2])}
    BY DEF Between, Near, GroupOf
  <1>2. Joins(Between(src, dest))
    BY <1>1, CablesJoin DEF Joins
  <1>3. QED BY <1>1, <1>2

\* The hosts; a walk from one to another by its nodes, within their groups.
Hosts == 0 .. DF!Nodes - 1
Toured(src, dest, v, n) == Trail(Between(src, dest), DF!Host(src), DF!Host(dest), v, n)

\* Such a walk begins and ends at the routers of the hosts, and has routers between.
LEMMA TouredEnds ==
  ASSUME NEW src \in Hosts, NEW dest \in Hosts, NEW n \in Nat \ {0}, NEW v, Toured(src, dest, v, n)
  PROVE  /\ n >= 2 /\ v[1] = DF!Host(src) /\ v[2] = DF!Switch(DF!HostTor(src))
         /\ v[n] = DF!Switch(DF!HostTor(dest)) /\ v[n + 1] = DF!Host(dest)
  <1>1. v[1] = DF!Host(src) /\ v[n + 1] = DF!Host(dest)
    BY DEF Toured, Trail
  <1>2. \A i \in 1 .. n : <<v[i], v[i + 1]>> \in DF!Cables
    BY BetweenIs DEF Toured, Trail
  <1>3. v[2] = DF!Switch(DF!HostTor(src))
    <2>1. <<v[1], v[2]>> \in DF!Cables
      <3>1. 1 \in 1 .. n /\ 1 + 1 = 2
        OBVIOUS
      <3>2. QED BY <1>2, <3>1
    <2>2. QED BY <1>1, <2>1, FromHost DEF Hosts
  <1>4. v[n] = DF!Switch(DF!HostTor(dest))
    <2>1. <<v[n], v[n + 1]>> \in DF!Cables
      BY <1>2
    <2>2. QED BY <1>1, <2>1, FromHost DEF Hosts
  <1>5. n # 1
    BY <1>1, <1>3 DEF DF!Host, DF!Switch
  <1>6. QED BY <1>1, <1>3, <1>4, <1>5

\* A node that a tour comes to after x.
Relayed(src, dest, x, y) ==
  \/ y = DF!Host(dest) /\ x = DF!Switch(DF!HostTor(dest))
  \/ \E j : y = DF!Switch(j) /\ j \div A \in {DF!HostGroup(src), DF!HostGroup(dest)}

LEMMA TouredMiddle ==
  ASSUME NEW src \in Hosts, NEW dest \in Hosts, NEW n \in Nat \ {0}, NEW v, Toured(src, dest, v, n),
         NEW i \in 1 .. n, NEW k, k = i + 1
  PROVE  <<v[i], v[k]>> \in DF!Cables /\ Relayed(src, dest, v[i], v[k])
  <1> DEFINE x == v[i]
             y == v[k]
  <1>1. <<x, y>> \in Between(src, dest) /\ (y[1] = "host" => y = DF!Host(dest))
    BY DEF Toured, Trail
  <1> HIDE DEF x, y
  <1>2. <<x, y>> \in DF!Cables /\ Near(src, dest, y)
    BY <1>1, BetweenIs
  <1>3. CASE \E h \in 0 .. DF!Nodes - 1 : y = DF!Host(h)
    <2>1. y = DF!Host(dest)
      BY <1>1, <1>3 DEF DF!Host
    <2>2. x = DF!Switch(DF!HostTor(dest))
      BY <1>2, <2>1, FromHost DEF Hosts
    <2>3. QED BY <1>2, <2>1, <2>2 DEF Relayed, x, y
  <1>4. CASE \E j : y = DF!Switch(j)
    <2>1. PICK j : y = DF!Switch(j)
      BY <1>4
    <2>2. GroupOf(y) = j \div A
      BY <2>1 DEF GroupOf, DF!Switch
    <2>3. QED BY <1>2, <2>1, <2>2 DEF Relayed, Near, x, y
  <1>5. QED BY <1>2, <1>3, <1>4, OfNodes

\* A cable from one of the two groups to the other.
LEMMA Crossing ==
  ASSUME NEW g, NEW o, g # o, NEW j, NEW k, <<DF!Switch(j), DF!Switch(k)>> \in DF!Cables,
         j \div A = g, k \div A = o
  PROVE  j = DF!Gateway(g, o) /\ k = DF!Gateway(o, g)
  BY BetweenSwitches

LEMMA NoLoop ==
  ASSUME NEW j
  PROVE  <<DF!Switch(j), DF!Switch(j)>> \notin DF!Cables
  BY BetweenSwitches

LEMMA SwitchIs ==
  ASSUME NEW j, NEW k
  PROVE  /\ DF!Switch(j) = DF!Switch(k) => j = k
         /\ DF!Switch(j) # DF!Host(k)
  BY DEF DF!Switch, DF!Host

\* The tours of two, three, four and five cables between routers that differ.
LEMMA ShortTours ==
  ASSUME NEW src \in Hosts, NEW dest \in Hosts, DF!HostTor(src) # DF!HostTor(dest), NEW v
  PROVE  /\ ~ Toured(src, dest, v, 1) /\ ~ Toured(src, dest, v, 2)
         /\ Toured(src, dest, v, 3)
              => <<DF!Switch(DF!HostTor(src)), DF!Switch(DF!HostTor(dest))>> \in DF!Cables
  <1>1. ~ Toured(src, dest, v, 1)
    BY TouredEnds
  <1>2. ~ Toured(src, dest, v, 2)
    BY TouredEnds, SwitchIs
  <1>3. ASSUME Toured(src, dest, v, 3)
        PROVE  <<DF!Switch(DF!HostTor(src)), DF!Switch(DF!HostTor(dest))>> \in DF!Cables
    <2>1. v[2] = DF!Switch(DF!HostTor(src)) /\ v[3] = DF!Switch(DF!HostTor(dest))
      BY <1>3, TouredEnds
    <2>2. 2 \in 1 .. 3 /\ 3 = 2 + 1 /\ 3 \in Nat \ {0}
      OBVIOUS
    <2>3. <<v[2], v[3]>> \in DF!Cables
      BY <1>3, <2>2, TouredMiddle
    <2>4. QED BY <2>1, <2>3
  <1>4. QED BY <1>1, <1>2, <1>3

\* A tour between groups leaves the one and enters the other over their cable.
LEMMA ToursOfFour ==
  ASSUME NEW src \in Hosts, NEW dest \in Hosts, DF!HostTor(src) # DF!HostTor(dest),
         DF!HostGroup(src) # DF!HostGroup(dest), NEW v, Toured(src, dest, v, 4)
  PROVE  LET exit == DF!Gateway(DF!HostGroup(src), DF!HostGroup(dest))
             entry == DF!Gateway(DF!HostGroup(dest), DF!HostGroup(src))
         IN  \/ DF!HostTor(src) = exit /\ DF!HostTor(dest) # entry /\ v[3] = DF!Switch(entry)
             \/ DF!HostTor(src) # exit /\ DF!HostTor(dest) = entry /\ v[3] = DF!Switch(exit)
  <1> DEFINE gs == DF!HostGroup(src)
             gd == DF!HostGroup(dest)
             f == DF!HostTor(src)
             t == DF!HostTor(dest)
             exit == DF!Gateway(gs, gd)
             entry == DF!Gateway(gd, gs)
  <1>1. gs = f \div A /\ gd = t \div A
    BY HostGroupOfTor DEF Hosts
  <1>2. v[2] = DF!Switch(f) /\ v[4] = DF!Switch(t)
    BY TouredEnds
  <1>3. /\ 2 \in 1 .. 4 /\ 3 \in 1 .. 4 /\ 4 \in Nat \ {0}
        /\ 3 = 2 + 1 /\ 4 = 3 + 1
    OBVIOUS
  <1>4. <<v[2], v[3]>> \in DF!Cables /\ <<v[3], v[4]>> \in DF!Cables
    BY <1>3, TouredMiddle
  <1>5. \E j : v[3] = DF!Switch(j) /\ j \div A \in {gs, gd}
    <2>1. Relayed(src, dest, v[2], v[3])
      BY <1>3, TouredMiddle
    <2>2. v[2] # DF!Switch(t)
      BY <1>2, SwitchIs
    <2>3. QED BY <2>1, <2>2 DEF Relayed, gs, gd, t
  <1>6. PICK j : v[3] = DF!Switch(j) /\ j \div A \in {gs, gd}
    BY <1>5
  <1>7. <<DF!Switch(f), DF!Switch(j)>> \in DF!Cables /\ <<DF!Switch(j), DF!Switch(t)>> \in DF!Cables
    BY <1>2, <1>4, <1>6
  <1> HIDE DEF gs, gd, f, t
  <1>8. CASE j \div A = gs
    <2>1. j = exit /\ t = entry
      BY <1>1, <1>7, <1>8, Crossing DEF gs, gd
    <2>2. f # j
      BY <1>7, NoLoop
    <2>3. QED BY <1>6, <2>1, <2>2 DEF gs, gd, f, t
  <1>9. CASE j \div A = gd
    <2>1. f = exit /\ j = entry
      BY <1>1, <1>7, <1>9, Crossing DEF gs, gd
    <2>2. j # t
      BY <1>7, NoLoop
    <2>3. QED BY <1>6, <2>1, <2>2 DEF gs, gd, f, t
  <1>10. QED BY <1>6, <1>8, <1>9

LEMMA ToursOfFive ==
  ASSUME NEW src \in Hosts, NEW dest \in Hosts, DF!HostGroup(src) # DF!HostGroup(dest),
         DF!HostTor(src) # DF!Gateway(DF!HostGroup(src), DF!HostGroup(dest)),
         DF!HostTor(dest) # DF!Gateway(DF!HostGroup(dest), DF!HostGroup(src)),
         NEW v, Toured(src, dest, v, 5)
  PROVE  /\ v[3] = DF!Switch(DF!Gateway(DF!HostGroup(src), DF!HostGroup(dest)))
         /\ v[4] = DF!Switch(DF!Gateway(DF!HostGroup(dest), DF!HostGroup(src)))
  <1> DEFINE gs == DF!HostGroup(src)
             gd == DF!HostGroup(dest)
             f == DF!HostTor(src)
             t == DF!HostTor(dest)
             exit == DF!Gateway(gs, gd)
             entry == DF!Gateway(gd, gs)
  <1>1. gs = f \div A /\ gd = t \div A
    BY HostGroupOfTor DEF Hosts
  <1>2. v[2] = DF!Switch(f) /\ v[5] = DF!Switch(t)
    BY TouredEnds
  <1>3. /\ 2 \in 1 .. 5 /\ 3 \in 1 .. 5 /\ 4 \in 1 .. 5 /\ 5 \in Nat \ {0}
        /\ 3 = 2 + 1 /\ 4 = 3 + 1 /\ 5 = 4 + 1
    OBVIOUS
  <1>4. /\ <<v[2], v[3]>> \in DF!Cables /\ <<v[3], v[4]>> \in DF!Cables
        /\ <<v[4], v[5]>> \in DF!Cables
    BY <1>3, TouredMiddle
  <1>5. f # t
    BY <1>1
  <1>6. \E j : v[3] = DF!Switch(j) /\ j \div A \in {gs, gd}
    <2>1. Relayed(src, dest, v[2], v[3])
      BY <1>3, TouredMiddle
    <2>2. v[2] # DF!Switch(t)
      BY <1>2, <1>5, SwitchIs
    <2>3. QED BY <2>1, <2>2 DEF Relayed, gs, gd, t
  <1>7. PICK j : v[3] = DF!Switch(j) /\ j \div A \in {gs, gd}
    BY <1>6
  <1> HIDE DEF gs, gd, f, t
  <1>8. j \div A = gs
    <2> SUFFICES ASSUME j \div A = gd
                 PROVE  FALSE
      BY <1>7
    <2>1. <<DF!Switch(f), DF!Switch(j)>> \in DF!Cables
      BY <1>2, <1>4, <1>7
    <2>2. f = exit
      BY <1>1, <2>1, Crossing DEF gs, gd
    <2>3. QED BY <2>2 DEF gs, gd, f
  <1>9. \E k : v[4] = DF!Switch(k) /\ k \div A \in {gs, gd}
    <2>1. Relayed(src, dest, v[3], v[4])
      BY <1>3, TouredMiddle
    <2>2. v[3] # DF!Switch(t)
      <3> SUFFICES ASSUME v[3] = DF!Switch(t)
                   PROVE  FALSE
        OBVIOUS
      <3>1. j = t
        BY <1>7, SwitchIs
      <3>2. QED BY <1>1, <1>8, <3>1 DEF gs, gd
    <2>3. QED BY <2>1, <2>2 DEF Relayed, gs, gd, t
  <1>10. PICK k : v[4] = DF!Switch(k) /\ k \div A \in {gs, gd}
    BY <1>9
  <1>11. k \div A = gd
    <2> SUFFICES ASSUME k \div A = gs
                 PROVE  FALSE
      BY <1>10
    <2>1. <<DF!Switch(k), DF!Switch(t)>> \in DF!Cables
      BY <1>2, <1>4, <1>10
    <2>2. t = entry
      BY <1>1, <2>1, Crossing DEF gs, gd
    <2>3. QED BY <2>2 DEF gs, gd, t
  <1>12. <<DF!Switch(j), DF!Switch(k)>> \in DF!Cables
    BY <1>4, <1>7, <1>10
  <1>13. j = exit /\ k = entry
    BY <1>8, <1>11, <1>12, Crossing DEF gs, gd
  <1>14. QED BY <1>7, <1>10, <1>13 DEF gs, gd

LEMMA IsTour ==
  ASSUME NEW src \in Hosts, NEW dest \in Hosts, NEW m \in 1 .. 6, NEW p,
         Len(p) = m + 1, Laid(p), p[1] = DF!Host(src), p[m + 1] = DF!Host(dest),
         \A i \in 2 .. m : \E j : /\ p[i] = DF!Switch(j)
                                  /\ j \div A \in {DF!HostGroup(src), DF!HostGroup(dest)}
  PROVE  Toured(src, dest, p, m) /\ DF!Along(p) = Cabled(p, m)
  <1>1. \A i \in 1 .. m : <<p[i], p[i + 1]>> \in DF!Cables
    <2>1. (m + 1) - 1 = m
      OBVIOUS
    <2>2. QED BY <2>1 DEF Laid
  <1>2. ASSUME NEW i \in 2 .. m
        PROVE  Near(src, dest, p[i]) /\ p[i][1] # "host"
    <2>1. PICK j : p[i] = DF!Switch(j) /\ j \div A \in {DF!HostGroup(src), DF!HostGroup(dest)}
      OBVIOUS
    <2>2. p[i][1] = "switch" /\ p[i][2] = j
      BY <2>1 DEF DF!Switch
    <2>3. QED BY <2>1, <2>2 DEF Near, GroupOf
  <1>3. Near(src, dest, p[1]) /\ Near(src, dest, p[m + 1])
    BY DEF Near, GroupOf, DF!Host
  <1>4. ASSUME NEW i \in 1 .. m + 1
        PROVE  Near(src, dest, p[i])
    <2>1. i = 1 \/ i = m + 1 \/ i \in 2 .. m
      OBVIOUS
    <2>2. QED BY <1>2, <1>3, <2>1
  <1>5. ASSUME NEW i \in 1 .. m
        PROVE  /\ <<p[i], p[i + 1]>> \in Between(src, dest)
               /\ p[i + 1][1] = "host" => p[i + 1] = DF!Host(dest)
    <2>1. i \in 1 .. m + 1 /\ i + 1 \in 1 .. m + 1 /\ (i + 1 = m + 1 \/ i + 1 \in 2 .. m)
      OBVIOUS
    <2>2. Near(src, dest, p[i]) /\ Near(src, dest, p[i + 1])
      BY <1>4, <2>1
    <2>3. <<p[i], p[i + 1]>> \in Between(src, dest)
      BY <1>1, <2>2, BetweenIs
    <2>4. QED BY <1>2, <2>1, <2>3
  <1>6. Toured(src, dest, p, m)
    BY <1>5 DEF Toured, Trail
  <1>7. DF!Along(p) = Cabled(p, m)
    BY DEF DF!Along, Cabled
  <1>8. QED BY <1>6, <1>7

\* The one tour that is shortest is the route.
LEMMA OnlyTour ==
  ASSUME NEW src \in Hosts, NEW dest \in Hosts, NEW m \in 1 .. 6, NEW p,
         Len(p) = m + 1, Laid(p), p[1] = DF!Host(src), p[m + 1] = DF!Host(dest),
         \A i \in 2 .. m : \E j : /\ p[i] = DF!Switch(j)
                                  /\ j \div A \in {DF!HostGroup(src), DF!HostGroup(dest)},
         \A n \in 1 .. m - 1 : \A v : ~ Toured(src, dest, v, n),
         \A v : Toured(src, dest, v, m) => \A i \in 2 .. m : v[i] = p[i]
  PROVE  Shortest(Between(src, dest), DF!Host(src), DF!Host(dest)) = {DF!Along(p)}
  <1>1. Toured(src, dest, p, m) /\ DF!Along(p) = Cabled(p, m)
    BY IsTour
  <1>2. ASSUME NEW v, Toured(src, dest, v, m), NEW i \in 1 .. m + 1
        PROVE  v[i] = p[i]
    <2>1. i = 1 \/ i = m + 1 \/ i \in 2 .. m
      OBVIOUS
    <2>2. v[1] = DF!Host(src) /\ v[m + 1] = DF!Host(dest)
      BY <1>2, TouredEnds
    <2>3. CASE i \in 2 .. m
      BY <1>2, <2>3
    <2>4. QED BY <2>1, <2>2, <2>3
  <1>3. Joins(Between(src, dest))
    BY BetweenIs
  <1>4. QED BY <1>1, <1>2, <1>3, OnlyTrail DEF Toured

\* A route is built a node at a time: what it is made of, by length.
Lengthened(X, s, t, x) ==
  /\ t \in Seq(X) /\ Len(t) = Len(s) + 1 /\ t[Len(s) + 1] = x
  /\ \A i \in 1 .. Len(s) : t[i] = s[i]

LEMMA LongerByOne ==
  ASSUME NEW X, NEW s \in Seq(X), NEW x \in X
  PROVE  Lengthened(X, s, s \o <<x>>, x)
  BY DEF Lengthened

Four(p, a, b, c, d) == Len(p) = 4 /\ p[1] = a /\ p[2] = b /\ p[3] = c /\ p[4] = d
Five(p, a, b, c, d, e) ==
  Len(p) = 5 /\ p[1] = a /\ p[2] = b /\ p[3] = c /\ p[4] = d /\ p[5] = e
Six(p, a, b, c, d, e, f) ==
  Len(p) = 6 /\ p[1] = a /\ p[2] = b /\ p[3] = c /\ p[4] = d /\ p[5] = e /\ p[6] = f

LEMMA Tuples ==
  ASSUME NEW a, NEW b, NEW c, NEW d, NEW e, NEW f
  PROVE  /\ Four(<<a, b>> \o << >> \o <<c>> \o << >> \o <<f>>, a, b, c, f)
         /\ Five(<<a, b>> \o << >> \o <<c>> \o <<d>> \o <<f>>, a, b, c, d, f)
         /\ Five(<<a, b>> \o <<c>> \o <<d>> \o << >> \o <<f>>, a, b, c, d, f)
         /\ Six(<<a, b>> \o <<c>> \o <<d>> \o <<e>> \o <<f>>, a, b, c, d, e, f)
  <1> DEFINE X == {a, b, c, d, e, f}
             r == <<a, b>>
             rc == r \o <<c>>
             rcf == rc \o <<f>>
             rcd == rc \o <<d>>
             rcdf == rcd \o <<f>>
             rcde == rcd \o <<e>>
             rcdef == rcde \o <<f>>
  <1>1. c \in X /\ d \in X /\ e \in X /\ f \in X
    OBVIOUS
  <1>2. r \in Seq(X) /\ Len(r) = 2 /\ r[1] = a /\ r[2] = b
    OBVIOUS
  <1> HIDE DEF X, r
  <1>3. Lengthened(X, r, rc, c)
    BY <1>1, <1>2, LongerByOne
  <1> HIDE DEF rc
  <1>4. rc \in Seq(X) /\ Len(rc) = 3 /\ rc[1] = a /\ rc[2] = b /\ rc[3] = c
    BY <1>2, <1>3 DEF Lengthened
  <1>5. Lengthened(X, rc, rcf, f) /\ Lengthened(X, rc, rcd, d)
    BY <1>1, <1>4, LongerByOne
  <1> HIDE DEF rcf, rcd
  <1>6. Len(rcf) = 4 /\ rcf[1] = a /\ rcf[2] = b /\ rcf[3] = c /\ rcf[4] = f
    BY <1>4, <1>5 DEF Lengthened
  <1>7. /\ rcd \in Seq(X) /\ Len(rcd) = 4
        /\ rcd[1] = a /\ rcd[2] = b /\ rcd[3] = c /\ rcd[4] = d
    BY <1>4, <1>5 DEF Lengthened
  <1>8. Lengthened(X, rcd, rcdf, f) /\ Lengthened(X, rcd, rcde, e)
    BY <1>1, <1>7, LongerByOne
  <1> HIDE DEF rcdf, rcde
  <1>9. /\ Len(rcdf) = 5
        /\ rcdf[1] = a /\ rcdf[2] = b /\ rcdf[3] = c /\ rcdf[4] = d /\ rcdf[5] = f
    BY <1>7, <1>8 DEF Lengthened
  <1>10. /\ rcde \in Seq(X) /\ Len(rcde) = 5
         /\ rcde[1] = a /\ rcde[2] = b /\ rcde[3] = c /\ rcde[4] = d /\ rcde[5] = e
    BY <1>7, <1>8 DEF Lengthened
  <1>11. Lengthened(X, rcde, rcdef, f)
    BY <1>1, <1>10, LongerByOne
  <1> HIDE DEF rcdef
  <1>12. /\ Len(rcdef) = 6 /\ rcdef[1] = a /\ rcdef[2] = b /\ rcdef[3] = c
         /\ rcdef[4] = d /\ rcdef[5] = e /\ rcdef[6] = f
    BY <1>10, <1>11 DEF Lengthened
  <1>13. r \o << >> = r /\ rc \o << >> = rc /\ rcd \o << >> = rcd
    BY <1>2, <1>4, <1>7, ConcatEmptySeq
  <1>14. r \o << >> \o <<c>> \o << >> \o <<f>> = rcf
    BY <1>13, Zenon DEF rcf, rc
  <1>15. r \o << >> \o <<c>> \o <<d>> \o <<f>> = rcdf
    BY <1>13, Zenon DEF rcdf, rcd, rc
  <1>16. r \o <<c>> \o <<d>> \o << >> \o <<f>> = rcdf
    BY <1>13, Zenon DEF rcdf, rcd, rc
  <1>17. r \o <<c>> \o <<d>> \o <<e>> \o <<f>> = rcdef
    BY Zenon DEF rcdef, rcde, rcd, rc
  <1>18. /\ Four(rcf, a, b, c, f) /\ Five(rcdf, a, b, c, d, f)
         /\ Six(rcdef, a, b, c, d, e, f)
    BY <1>6, <1>9, <1>12 DEF Four, Five, Six
  <1>19. QED BY <1>14, <1>15, <1>16, <1>17, <1>18, Zenon DEF r

\* A tour over given nodes.
LEMMA TourThree ==
  ASSUME NEW src \in Hosts, NEW dest \in Hosts, DF!HostTor(src) = DF!HostTor(dest), src # dest
  PROVE  Shortest(Between(src, dest), DF!Host(src), DF!Host(dest))
           = {DF!Along(<<DF!Host(src), DF!Switch(DF!HostTor(src)), DF!Host(dest)>>)}
  <1> DEFINE p == <<DF!Host(src), DF!Switch(DF!HostTor(src)), DF!Host(dest)>>
  <1>1. /\ Len(p) = 2 + 1 /\ p[1] = DF!Host(src) /\ p[2] = DF!Switch(DF!HostTor(src))
        /\ p[2 + 1] = DF!Host(dest)
    OBVIOUS
  <1>2. Laid(p)
    <2>1. /\ <<DF!Host(src), DF!Switch(DF!HostTor(src))>> \in DF!Cables
          /\ <<DF!Switch(DF!HostTor(src)), DF!Host(dest)>> \in DF!Cables
      BY HostJoined DEF Hosts
    <2>2. QED BY <2>1, LaidSteps
  <1> HIDE DEF p
  <1>3. 2 .. 2 = {2} /\ 1 .. 2 - 1 = {1} /\ 2 \in 1 .. 6 /\ 2 \in Nat \ {0} /\ 1 \in Nat \ {0}
    OBVIOUS
  <1>4. DF!HostTor(src) \div A = DF!HostGroup(src)
    BY HostGroupOfTor DEF Hosts
  <1>5. \A v : ~ Toured(src, dest, v, 1)
    BY <1>3, TouredEnds
  <1>6. ASSUME NEW v, Toured(src, dest, v, 2)
        PROVE  v[2] = p[2]
    BY <1>1, <1>3, <1>6, TouredEnds
  <1>7. Shortest(Between(src, dest), DF!Host(src), DF!Host(dest)) = {DF!Along(p)}
    BY <1>1, <1>2, <1>3, <1>4, <1>5, <1>6, OnlyTour
  <1>8. QED BY <1>7 DEF p

LEMMA TourFour ==
  ASSUME NEW src \in Hosts, NEW dest \in Hosts, DF!HostTor(src) # DF!HostTor(dest),
         NEW p, Len(p) = 4, Laid(p), p[1] = DF!Host(src), p[2] = DF!Switch(DF!HostTor(src)),
         p[3] = DF!Switch(DF!HostTor(dest)), p[4] = DF!Host(dest)
  PROVE  Shortest(Between(src, dest), DF!Host(src), DF!Host(dest)) = {DF!Along(p)}
  <1>1. /\ \A i \in 2 .. 3 : i = 2 \/ i = 3
        /\ \A i \in 1 .. 3 - 1 : i = 1 \/ i = 2
        /\ 3 \in 1 .. 6 /\ 3 \in Nat \ {0} /\ 4 = 3 + 1
    OBVIOUS
  <1>2. /\ DF!HostTor(src) \div A = DF!HostGroup(src)
        /\ DF!HostTor(dest) \div A = DF!HostGroup(dest)
    BY HostGroupOfTor DEF Hosts
  <1>3. \A i \in 2 .. 3 : \E j : /\ p[i] = DF!Switch(j)
                                 /\ j \div A \in {DF!HostGroup(src), DF!HostGroup(dest)}
    BY <1>1, <1>2
  <1>4. \A n \in 1 .. 3 - 1 : \A v : ~ Toured(src, dest, v, n)
    BY <1>1, ShortTours
  <1>5. ASSUME NEW v, Toured(src, dest, v, 3)
        PROVE  \A i \in 2 .. 3 : v[i] = p[i]
    BY <1>1, <1>5, TouredEnds
  <1>6. QED BY <1>1, <1>3, <1>4, <1>5, OnlyTour

Exit(src, dest) == DF!Gateway(DF!HostGroup(src), DF!HostGroup(dest))

LEMMA ExitIs ==
  ASSUME NEW src \in Hosts, NEW dest \in Hosts, DF!HostGroup(src) # DF!HostGroup(dest)
  PROVE  /\ DF!HostTor(src) # DF!HostTor(dest)
         /\ DF!HostTor(src) \div A = DF!HostGroup(src)
         /\ DF!HostTor(dest) \div A = DF!HostGroup(dest)
         /\ Exit(src, dest) \div A = DF!HostGroup(src)
         /\ Exit(dest, src) \div A = DF!HostGroup(dest)
         /\ DF!HostTor(src) # Exit(src, dest) \/ DF!HostTor(dest) # Exit(dest, src)
              => \A v : ~ Toured(src, dest, v, 3)
  <1>1. /\ DF!HostTor(src) \div A = DF!HostGroup(src)
        /\ DF!HostTor(dest) \div A = DF!HostGroup(dest)
        /\ DF!HostGroup(src) \in 0 .. DF!Groups - 1 /\ DF!HostGroup(dest) \in 0 .. DF!Groups - 1
    BY HostGroupOfTor DEF Hosts
  <1>2. /\ Exit(src, dest) \div A = DF!HostGroup(src)
        /\ Exit(dest, src) \div A = DF!HostGroup(dest)
    BY <1>1, GatewayIsInTheGroup DEF Exit
  <1>3. DF!HostTor(src) # DF!HostTor(dest)
    BY <1>1
  <1>4. ASSUME NEW v, Toured(src, dest, v, 3)
        PROVE  DF!HostTor(src) = Exit(src, dest) /\ DF!HostTor(dest) = Exit(dest, src)
    <2>1. <<DF!Switch(DF!HostTor(src)), DF!Switch(DF!HostTor(dest))>> \in DF!Cables
      BY <1>3, <1>4, ShortTours
    <2>2. QED BY <1>1, <2>1, Crossing DEF Exit
  <1>5. QED BY <1>1, <1>2, <1>3, <1>4

\* The router of the source is the one that leads to the other group, or the router
\* of the destination is the one that is come to.
LEMMA TourFive ==
  ASSUME NEW src \in Hosts, NEW dest \in Hosts, DF!HostGroup(src) # DF!HostGroup(dest),
         NEW m, \/ /\ DF!HostTor(src) = Exit(src, dest) /\ DF!HostTor(dest) # Exit(dest, src)
                   /\ m = Exit(dest, src)
                \/ /\ DF!HostTor(src) # Exit(src, dest) /\ DF!HostTor(dest) = Exit(dest, src)
                   /\ m = Exit(src, dest),
         NEW p, Len(p) = 5, Laid(p), p[1] = DF!Host(src), p[2] = DF!Switch(DF!HostTor(src)),
         p[3] = DF!Switch(m), p[4] = DF!Switch(DF!HostTor(dest)), p[5] = DF!Host(dest)
  PROVE  Shortest(Between(src, dest), DF!Host(src), DF!Host(dest)) = {DF!Along(p)}
  <1>1. /\ \A i \in 2 .. 4 : i = 2 \/ i = 3 \/ i = 4
        /\ \A i \in 1 .. 4 - 1 : i = 1 \/ i = 2 \/ i = 3
        /\ 4 \in 1 .. 6 /\ 4 \in Nat \ {0} /\ 5 = 4 + 1
    OBVIOUS
  <1>2. \A i \in 2 .. 4 : \E j : /\ p[i] = DF!Switch(j)
                                 /\ j \div A \in {DF!HostGroup(src), DF!HostGroup(dest)}
    BY <1>1, ExitIs
  <1>3. \A n \in 1 .. 4 - 1 : \A v : ~ Toured(src, dest, v, n)
    BY <1>1, ExitIs, ShortTours
  <1>4. ASSUME NEW v, Toured(src, dest, v, 4)
        PROVE  \A i \in 2 .. 4 : v[i] = p[i]
    <2>1. v[2] = p[2] /\ v[4] = p[4]
      BY <1>1, <1>4, TouredEnds
    <2>2. v[3] = p[3]
      BY <1>4, ExitIs, ToursOfFour DEF Exit
    <2>3. QED BY <1>1, <2>1, <2>2
  <1>5. QED BY <1>1, <1>2, <1>3, <1>4, OnlyTour

LEMMA TourSix ==
  ASSUME NEW src \in Hosts, NEW dest \in Hosts, DF!HostGroup(src) # DF!HostGroup(dest),
         DF!HostTor(src) # Exit(src, dest), DF!HostTor(dest) # Exit(dest, src),
         NEW p, Len(p) = 6, Laid(p), p[1] = DF!Host(src), p[2] = DF!Switch(DF!HostTor(src)),
         p[3] = DF!Switch(Exit(src, dest)), p[4] = DF!Switch(Exit(dest, src)),
         p[5] = DF!Switch(DF!HostTor(dest)), p[6] = DF!Host(dest)
  PROVE  Shortest(Between(src, dest), DF!Host(src), DF!Host(dest)) = {DF!Along(p)}
  <1>1. /\ \A i \in 2 .. 5 : i = 2 \/ i = 3 \/ i = 4 \/ i = 5
        /\ \A i \in 1 .. 5 - 1 : i = 1 \/ i = 2 \/ i = 3 \/ i = 4
        /\ 5 \in 1 .. 6 /\ 5 \in Nat \ {0} /\ 6 = 5 + 1
    OBVIOUS
  <1>2. \A i \in 2 .. 5 : \E j : /\ p[i] = DF!Switch(j)
                                 /\ j \div A \in {DF!HostGroup(src), DF!HostGroup(dest)}
    BY <1>1, ExitIs
  <1>3. \A v : ~ Toured(src, dest, v, 4)
    BY ExitIs, ToursOfFour DEF Exit
  <1>4. \A n \in 1 .. 5 - 1 : \A v : ~ Toured(src, dest, v, n)
    BY <1>1, <1>3, ExitIs, ShortTours
  <1>5. ASSUME NEW v, Toured(src, dest, v, 5)
        PROVE  \A i \in 2 .. 5 : v[i] = p[i]
    <2>1. v[2] = p[2] /\ v[5] = p[5]
      BY <1>1, <1>5, TouredEnds
    <2>2. v[3] = p[3] /\ v[4] = p[4]
      BY <1>5, ToursOfFive DEF Exit
    <2>3. QED BY <1>1, <2>1, <2>2
  <1>6. QED BY <1>1, <1>2, <1>4, <1>5, OnlyTour

(***************************************************************************)
(* Any two hosts of the dragonfly are offered the one shortest walk over   *)
(* the cables of their groups.                                             *)
(***************************************************************************)
LEMMA DragonFlyRoute ==
  ASSUME NEW src \in Hosts, NEW dest \in Hosts, src # dest
  PROVE  /\ DF!Paths(src, dest) = <<DF!Along(DF!NodesBetween(src, dest))>>
         /\ Shortest(Between(src, dest), DF!Host(src), DF!Host(dest))
              = {DF!Along(DF!NodesBetween(src, dest))}
  <1> DEFINE s == DF!Host(src)
             d == DF!Host(dest)
             F == DF!Switch(DF!HostTor(src))
             T == DF!Switch(DF!HostTor(dest))
             X == DF!Switch(Exit(src, dest))
             N == DF!Switch(Exit(dest, src))
             p == DF!NodesBetween(src, dest)
  <1>1. Laid(p) /\ DF!Paths(src, dest) = <<DF!Along(p)>>
    BY LaidBetween DEF Hosts
  <1>2. CASE DF!HostTor(src) = DF!HostTor(dest)
    <2>1. p = <<s, F, d>>
      BY <1>2 DEF DF!NodesBetween
    <2>2. QED BY <1>1, <1>2, <2>1, TourThree
  <1>3. CASE DF!HostTor(src) # DF!HostTor(dest) /\ DF!HostGroup(src) = DF!HostGroup(dest)
    <2>1. p = <<s, F, T, d>>
      BY <1>3 DEF DF!NodesBetween
    <2>2. Len(p) = 4 /\ p[1] = s /\ p[2] = F /\ p[3] = T /\ p[4] = d
      BY <2>1
    <2> HIDE DEF p
    <2>3. Shortest(Between(src, dest), DF!Host(src), DF!Host(dest)) = {DF!Along(p)}
      BY <1>1, <1>3, <2>2, TourFour
    <2>4. QED BY <1>1, <2>3 DEF p
  <1>4. CASE DF!HostTor(src) # DF!HostTor(dest) /\ DF!HostGroup(src) # DF!HostGroup(dest)
    <2>1. p = <<s, F>> \o (IF X = F THEN << >> ELSE <<X>>) \o <<N>>
                \o (IF N = T THEN << >> ELSE <<T>>) \o <<d>>
      BY <1>4 DEF DF!NodesBetween, DF!ThroughGroups, Exit
    <2>2. /\ X = F <=> DF!HostTor(src) = Exit(src, dest)
          /\ N = T <=> DF!HostTor(dest) = Exit(dest, src)
      BY SwitchIs
    <2> HIDE DEF p, s, d, F, T, X, N
    <2>3. CASE X = F /\ N = T
      <3>1. p = <<s, F>> \o << >> \o <<N>> \o << >> \o <<d>>
        BY <2>1, <2>3
      <3>2. Four(p, s, F, N, d)
        BY <3>1, Tuples, Zenon
      <3>3. Shortest(Between(src, dest), DF!Host(src), DF!Host(dest)) = {DF!Along(p)}
        BY <1>1, <1>4, <2>3, <3>2, TourFour DEF s, d, F, T, Four
      <3>4. QED BY <1>1, <3>3 DEF p
    <2>4. CASE X = F /\ N # T
      <3>1. p = <<s, F>> \o << >> \o <<N>> \o <<T>> \o <<d>>
        BY <2>1, <2>4
      <3>2. Five(p, s, F, N, T, d)
        BY <3>1, Tuples, Zenon
      <3>3. Shortest(Between(src, dest), DF!Host(src), DF!Host(dest)) = {DF!Along(p)}
        BY <1>1, <1>4, <2>2, <2>4, <3>2, TourFive DEF Five, s, d, F, T, N
      <3>4. QED BY <1>1, <3>3 DEF p
    <2>5. CASE X # F /\ N = T
      <3>1. p = <<s, F>> \o <<X>> \o <<N>> \o << >> \o <<d>>
        BY <2>1, <2>5
      <3>2. Five(p, s, F, X, N, d)
        BY <3>1, Tuples, Zenon
      <3>3. p[4] = T
        BY <2>5, <3>2 DEF Five
      <3>4. Shortest(Between(src, dest), DF!Host(src), DF!Host(dest)) = {DF!Along(p)}
        BY <1>1, <1>4, <2>2, <2>5, <3>2, <3>3, TourFive DEF Five, s, d, F, T, X
      <3>5. QED BY <1>1, <3>4 DEF p
    <2>6. CASE X # F /\ N # T
      <3>1. p = <<s, F>> \o <<X>> \o <<N>> \o <<T>> \o <<d>>
        BY <2>1, <2>6
      <3>2. Six(p, s, F, X, N, T, d)
        BY <3>1, Tuples, Zenon
      <3>3. Shortest(Between(src, dest), DF!Host(src), DF!Host(dest)) = {DF!Along(p)}
        BY <1>1, <1>4, <2>2, <2>6, <3>2, TourSix DEF Six, s, d, F, T, X, N
      <3>4. QED BY <1>1, <3>3 DEF p
    <2>7. QED BY <2>3, <2>4, <2>5, <2>6
  <1>5. QED BY <1>2, <1>3, <1>4
------------------------------------------------------------------------------
\* Half the ports of a switch of the fat tree.
Half == K \div 2

LEMMA Halved == Half \in Nat \ {0} /\ K = 2 * Half
  BY FatTreeAssumption DEF Half

\* The numbers of one stretch.
LEMMA Stretch ==
  ASSUME NEW g \in Nat, NEW d \in Nat \ {0}, NEW n \in Nat
  PROVE  n \in g * d .. g * d + d - 1 <=> n \div d = g
  <1>1. g * d \in Nat
    BY Product
  <1>2. ASSUME n \in g * d .. g * d + d - 1
        PROVE  n \div d = g
    <2> DEFINE q == n - g * d
    <2>1. q \in 0 .. d - 1 /\ n = g * d + q
      BY <1>1, <1>2
    <2> HIDE DEF q
    <2>2. (g * d + q) \div d = g
      BY <2>1, Unique
    <2>3. QED BY <2>1, <2>2
  <1>3. ASSUME n \div d = g
        PROVE  n \in g * d .. g * d + d - 1
    <2>1. n % d \in 0 .. d - 1 /\ n = g * d + (n % d)
      BY <1>3, Division
    <2>2. QED BY <1>1, <2>1
  <1>4. QED BY <1>2, <1>3

\* The sizes of the fat tree, and where its numbers fall, in halves.
LEMMA FatSizes ==
  /\ FT!NK = (2 * Half) * Half /\ FT!NC = Half * Half /\ FT!NSrv = FT!NK * (2 * K)
  /\ FT!NK \in Nat /\ FT!NC \in Nat /\ FT!NSrv \in Nat /\ 2 * K \in Nat \ {0}
  <1> DEFINE Q == Half * Half
  <1>1. Half \in Nat \ {0} /\ K = 2 * Half /\ K \in Nat
    BY Halved
  <1>2. Q \in Nat
    BY <1>1, Product
  <1>3. K * K = 4 * Q /\ (2 * Half) * Half = 2 * Q
    BY <1>1
  <1>4. FT!NK = 2 * Q /\ FT!NC = Q
    <2> HIDE DEF Q
    <2>1. (4 * Q) \div 2 = 2 * Q /\ (4 * Q) \div 4 = Q
      BY <1>2
    <2>2. QED BY <1>3, <2>1 DEF FT!NK, FT!NC
  <1>5. FT!NSrv = FT!NK * (2 * K)
    <2>1. FT!NSrv = (4 * Q) * K
      BY <1>3 DEF FT!NSrv
    <2>2. (2 * Q) * (2 * K) = (4 * Q) * K
      <3> HIDE DEF Q
      <3>1. QED BY <1>1, <1>2
    <2>3. QED BY <1>4, <2>1, <2>2
  <1>6. FT!NK \in Nat /\ 2 * K \in Nat \ {0}
    BY <1>1, <1>2, <1>4
  <1>7. FT!NSrv \in Nat
    <2>1. FT!NK * (2 * K) \in Nat
      BY <1>6, Product
    <2>2. QED BY <1>5, <2>1
  <1>8. QED BY <1>2, <1>3, <1>4, <1>5, <1>6, <1>7

LEMMA PodIds ==
  ASSUME NEW g \in Nat
  PROVE  FT!MinPodId(g) = g * Half /\ FT!MaxPodId(g) = g * Half + Half - 1
  <1> DEFINE q == g * Half
  <1>1. Half \in Nat \ {0} /\ K = 2 * Half
    BY Halved
  <1>2. q \in Nat
    BY <1>1, Product
  <1>3. g * K = 2 * q /\ (g + 1) * K = 2 * (q + Half)
    BY <1>1
  <1> HIDE DEF q
  <1>4. (2 * q) \div 2 = q /\ (2 * (q + Half)) \div 2 = q + Half
    BY <1>1, <1>2
  <1>5. FT!MinPodId(g) = q /\ FT!MaxPodId(g) = q + Half - 1
    <2> DEFINE y == g * K
               z == (g + 1) * K
    <2>1. FT!MinPodId(g) = y \div 2 /\ FT!MaxPodId(g) = z \div 2 - 1
      BY Zenon DEF FT!MinPodId, FT!MaxPodId
    <2>2. y = 2 * q /\ z = 2 * (q + Half)
      BY <1>3
    <2> HIDE DEF y, z
    <2>3. QED BY <1>1, <1>2, <1>4, <2>1, <2>2
  <1>6. QED BY <1>5 DEF q

LEMMA PodOf ==
  ASSUME NEW j \in Nat
  PROVE  (2 * j) \div K = j \div Half /\ j \div Half \in Nat
  <1>1. Half \in Nat \ {0} /\ K = Half * 2
    BY Halved
  <1>2. (2 * j) \div (Half * 2) = ((2 * j) \div 2) \div Half
    BY <1>1, InTurn
  <1>3. (2 * j) \div 2 = j
    OBVIOUS
  <1>4. j \div Half \in Nat
    BY <1>1
  <1>5. QED BY <1>1, <1>2, <1>3, <1>4

LEMMA PodOfHost ==
  ASSUME NEW i \in Nat
  PROVE  FT!HostPod(i) = FT!HostPodSwitch(i) \div Half
  <1>1. Half \in Nat \ {0} /\ K = 2 * Half /\ 2 * K \in Nat \ {0}
    BY Halved, FatSizes
  <1>2. K * K = Half * (2 * K)
    BY <1>1
  <1>3. i \div (Half * (2 * K)) = (i \div (2 * K)) \div Half
    BY <1>1, InTurn
  <1>4. QED BY <1>2, <1>3 DEF FT!HostPod, FT!HostPodSwitch

LEMMA CoreIs ==
  ASSUME NEW up \in Nat, NEW l \in Nat
  PROVE  FT!CoreAbove(up, l) = (up % Half) * Half + l /\ up % Half \in 0 .. Half - 1
  <1> DEFINE r == up % Half
             q == r * Half
  <1>1. Half \in Nat \ {0} /\ K = 2 * Half
    BY Halved
  <1>2. r \in 0 .. Half - 1
    BY <1>1
  <1>3. FT!CoreAbove(up, l) = (r * K) \div 2 + l
    BY DEF FT!CoreAbove, Half
  <1> HIDE DEF r
  <1>4. q \in Nat
    BY <1>1, <1>2, Product
  <1>5. r * K = 2 * q
    BY <1>1, <1>2
  <1> HIDE DEF q
  <1>6. (2 * q) \div 2 = q
    BY <1>4
  <1>7. QED BY <1>2, <1>3, <1>5, <1>6 DEF r, q

\* The switches of a pod, and the cores of an upper switch.
LEMMA InPod ==
  ASSUME NEW g \in Nat, NEW k
  PROVE  k \in FT!MinPodId(g) .. FT!MaxPodId(g) <=> k \in Nat /\ k \div Half = g
  <1>1. Half \in Nat \ {0} /\ g * Half \in Nat
    BY Halved, Product
  <1>2. FT!MinPodId(g) .. FT!MaxPodId(g) = g * Half .. g * Half + Half - 1
    BY PodIds
  <1>3. k \in g * Half .. g * Half + Half - 1 => k \in Nat
    BY <1>1
  <1>4. QED BY <1>1, <1>2, <1>3, Stretch

LEMMA AboveIs ==
  ASSUME NEW up \in Nat, NEW x
  PROVE  x \in FT!CoresAbove(up) <=> x \in Nat /\ x \div Half = up % Half
  <1> DEFINE r == up % Half
  <1>1. Half \in Nat \ {0} /\ r \in Nat
    BY Halved
  <1>2. FT!CoresAbove(up) = FT!CoreAbove(up, 0) .. FT!CoreAbove(up, 0) + Half - 1
    BY DEF FT!CoresAbove, Half
  <1>3. FT!CoreAbove(up, 0) = r * Half + 0
    BY CoreIs
  <1> HIDE DEF r
  <1>4. r * Half \in Nat
    BY <1>1, Product
  <1>5. FT!CoresAbove(up) = r * Half .. r * Half + Half - 1
    BY <1>2, <1>3, <1>4
  <1>6. x \in r * Half .. r * Half + Half - 1 => x \in Nat
    BY <1>1, <1>4
  <1>7. QED BY <1>1, <1>5, <1>6, Stretch DEF r

\* The hosts, the upper or lower switches and the cores, by number.
TreeHosts == 0 .. FT!NSrv - 1
PodSwitches == 0 .. FT!NK - 1
Cores == 0 .. FT!NC - 1

LEMMA HostTreeSwitch ==
  ASSUME NEW i \in TreeHosts
  PROVE  FT!HostPodSwitch(i) \in PodSwitches /\ FT!HostPod(i) = FT!HostPodSwitch(i) \div Half
         /\ FT!HostPod(i) \in Nat /\ FT!HostPod(i) < 2 * Half
  <1> DEFINE j == FT!HostPodSwitch(i)
  <1>1. /\ i \in Nat /\ i < FT!NK * (2 * K) /\ FT!NK \in Nat /\ 2 * K \in Nat \ {0}
        /\ FT!NK = (2 * Half) * Half /\ Half \in Nat \ {0} /\ 2 * Half \in Nat
    BY FatSizes, Halved DEF TreeHosts
  <1>2. j = i \div (2 * K)
    BY DEF FT!HostPodSwitch
  <1>3. j \in Nat /\ j < FT!NK
    <2> DEFINE d == 2 * K
               n == FT!NK
    <2>1. i < n * d /\ n \in Nat /\ d \in Nat \ {0} /\ j = i \div d
      BY <1>1, <1>2
    <2> HIDE DEF d, n, j
    <2>2. i \div d < n
      BY <1>1, <2>1, Below
    <2>3. i \div d \in Nat
      BY <1>1, <2>1, Division
    <2>4. QED BY <2>1, <2>2, <2>3 DEF n
  <1>4. FT!HostPod(i) = j \div Half
    BY <1>1, PodOfHost
  <1> HIDE DEF j
  <1>5. j \div Half \in Nat /\ j \div Half < 2 * Half
    BY <1>1, <1>3, Below, Division
  <1>6. QED BY <1>1, <1>3, <1>4, <1>5 DEF PodSwitches, j

LEMMA InRange ==
  /\ \A k \in Nat : k \div Half < 2 * Half => k \in PodSwitches
  /\ \A x \in Nat : x \div Half < Half => x \in Cores
  <1>1. Half \in Nat \ {0} /\ FT!NK = (2 * Half) * Half /\ FT!NC = Half * Half /\ FT!NK \in Nat /\ FT!NC \in Nat
    BY Halved, FatSizes
  <1>2. ASSUME NEW n \in Nat, NEW m \in Nat, n \div Half < m
        PROVE  n < m * Half
    <2> DEFINE g == n \div Half
               r == n % Half
    <2>1. g \in Nat /\ r \in 0 .. Half - 1 /\ n = g * Half + r
      BY <1>1, Division
    <2>2. g < m
      BY <1>2
    <2> HIDE DEF g, r
    <2>3. g * Half + Half =< m * Half
      BY <1>1, <2>1, <2>2, Apart
    <2>4. g * Half \in Nat /\ m * Half \in Nat
      BY <1>1, <2>1, Product
    <2>5. QED BY <1>1, <2>1, <2>3, <2>4
  <1>3. ASSUME NEW k \in Nat, k \div Half < 2 * Half
        PROVE  k \in PodSwitches
    <2>1. k < (2 * Half) * Half
      <3>1. 2 * Half \in Nat
        BY <1>1
      <3>2. QED BY <1>2, <1>3, <3>1
    <2>2. QED BY <1>1, <2>1 DEF PodSwitches
  <1>4. ASSUME NEW x \in Nat, x \div Half < Half
        PROVE  x \in Cores
    <2>1. x < Half * Half
      BY <1>1, <1>2, <1>4
    <2>2. QED BY <1>1, <2>1 DEF Cores
  <1>5. QED BY <1>3, <1>4

\* What a cable of the fat tree joins.
TreeHostCable(c) ==
  \E i \in TreeHosts : c \in FT!Both(FT!Lower(FT!HostPodSwitch(i)), FT!Host(i))
TreePodCable(c) ==
  \E j \in PodSwitches : \E k \in PodSwitches :
    k \div Half = j \div Half /\ c \in FT!Both(FT!Upper(k), FT!Lower(j))
TreeCoreCable(c) ==
  \E k \in PodSwitches : \E x \in Cores :
    x \div Half = k % Half /\ c \in FT!Both(FT!Upper(k), FT!Core(x))

LEMMA TreeHostCableIs ==
  ASSUME NEW c
  PROVE  c \in FT!HostCables <=> TreeHostCable(c)
  <1>1. /\ FT!NK \in Nat /\ 2 * K \in Nat \ {0} /\ FT!NSrv = FT!NK * (2 * K) /\ FT!NSrv \in Nat
        /\ K \in Nat
    BY FatSizes, Halved
  <1>2. ASSUME NEW j \in PodSwitches, NEW l \in 0 .. 2 * K - 1
        PROVE  j * 2 * K + l \in TreeHosts /\ FT!HostPodSwitch(j * 2 * K + l) = j
    <2> DEFINE d == 2 * K
               n == FT!NK
    <2>1. j \in Nat /\ j < n /\ n \in Nat /\ d \in Nat \ {0} /\ l \in 0 .. d - 1
      BY <1>1 DEF PodSwitches
    <2>2. j * 2 * K + l = j * d + l
      BY <1>1, <2>1
    <2>3. FT!NSrv = n * d
      BY <1>1
    <2>4. FT!HostPodSwitch(j * 2 * K + l) = (j * d + l) \div d
      BY <2>2 DEF FT!HostPodSwitch
    <2> HIDE DEF d, n
    <2>5. j * d + l \in Nat /\ (j * d + l) \div d = j
      BY <2>1, Unique
    <2>6. j * d + d =< n * d
      BY <2>1, Apart
    <2>7. j * d \in Nat /\ n * d \in Nat
      BY <2>1, Product
    <2>8. j * d + l \in TreeHosts
      BY <2>1, <2>3, <2>5, <2>6, <2>7 DEF TreeHosts
    <2>9. QED BY <2>2, <2>4, <2>5, <2>8
  <1>3. ASSUME c \in FT!HostCables
        PROVE  TreeHostCable(c)
    <2>1. PICK j \in PodSwitches, l \in 0 .. 2 * K - 1 :
            c \in FT!Both(FT!Lower(j), FT!Host(j * 2 * K + l))
      BY <1>3 DEF FT!HostCables, PodSwitches
    <2>2. QED BY <1>2, <2>1 DEF TreeHostCable
  <1>4. ASSUME TreeHostCable(c)
        PROVE  c \in FT!HostCables
    <2>1. PICK i \in TreeHosts : c \in FT!Both(FT!Lower(FT!HostPodSwitch(i)), FT!Host(i))
      BY <1>4 DEF TreeHostCable
    <2> DEFINE d == 2 * K
               j == FT!HostPodSwitch(i)
               l == i % d
    <2>2. j \in PodSwitches /\ j \in Nat /\ i \in Nat
      BY HostTreeSwitch, <1>1 DEF TreeHosts, PodSwitches
    <2>3. d \in Nat \ {0} /\ j = i \div d
      BY <1>1 DEF FT!HostPodSwitch
    <2>4. l \in 0 .. d - 1 /\ i = j * d + l
      <3> HIDE DEF d, j
      <3>1. QED BY <2>2, <2>3, Division
    <2>5. j * d + l = j * 2 * K + l
      <3> HIDE DEF j, l
      <3>1. QED BY <1>1, <2>2, <2>4
    <2>6. c \in FT!Both(FT!Lower(j), FT!Host(j * 2 * K + l)) /\ l \in 0 .. 2 * K - 1
      BY <2>1, <2>4, <2>5
    <2> HIDE DEF j, l
    <2>7. QED BY <2>2, <2>6 DEF FT!HostCables, PodSwitches
  <1>5. QED BY <1>3, <1>4

LEMMA TreePodCableIs ==
  ASSUME NEW c
  PROVE  c \in FT!PodCables <=> TreePodCable(c)
  <1>1. FT!NK \in Nat /\ PodSwitches = 0 .. FT!NK - 1 /\ FT!NK = (2 * Half) * Half /\ Half \in Nat \ {0}
    BY FatSizes, Halved DEF PodSwitches
  <1>2. ASSUME NEW j \in PodSwitches, NEW k
        PROVE  k \in FT!MinPodId((2 * j) \div K) .. FT!MaxPodId((2 * j) \div K)
                 <=> k \in PodSwitches /\ k \div Half = j \div Half
    <2> DEFINE g == j \div Half
    <2>1. j \in Nat /\ j < (2 * Half) * Half
      BY <1>1
    <2>2. (2 * j) \div K = g /\ g \in Nat
      BY <2>1, PodOf
    <2>3. g < 2 * Half
      <3>1. 2 * Half \in Nat
        BY <1>1
      <3>2. QED BY <1>1, <2>1, <3>1, Below
    <2> HIDE DEF g
    <2>4. k \in FT!MinPodId(g) .. FT!MaxPodId(g) <=> k \in Nat /\ k \div Half = g
      BY <2>2, InPod
    <2>5. k \in Nat /\ k \div Half = g => k \in PodSwitches
      BY <2>3, InRange
    <2>6. k \in PodSwitches => k \in Nat
      BY <1>1
    <2>7. QED BY <2>2, <2>4, <2>5, <2>6 DEF g
  <1>3. FT!PodCables
          = UNION {UNION {FT!Both(FT!Upper(k), FT!Lower(j)) : k \in FT!MinPodId((2 * j) \div K) .. FT!MaxPodId((2 * j) \div K)}
                     : j \in PodSwitches}
    BY <1>1 DEF FT!PodCables
  <1>4. c \in FT!PodCables
          <=> \E j \in PodSwitches :
                \E k \in FT!MinPodId((2 * j) \div K) .. FT!MaxPodId((2 * j) \div K) :
                  c \in FT!Both(FT!Upper(k), FT!Lower(j))
    BY <1>3
  <1>5. QED BY <1>2, <1>4 DEF TreePodCable

LEMMA TreeCoreCableIs ==
  ASSUME NEW c
  PROVE  c \in FT!CoreCables <=> TreeCoreCable(c)
  <1>1. /\ FT!NK \in Nat /\ PodSwitches = 0 .. FT!NK - 1 /\ Half \in Nat \ {0}
        /\ Cores = 0 .. FT!NC - 1 /\ FT!NC \in Nat
    BY FatSizes, Halved DEF PodSwitches, Cores
  <1>2. FT!CoreCables = UNION {FT!Both(FT!Upper(j), FT!Core(FT!CoreAbove(j, l)))
                                 : j \in PodSwitches, l \in 0 .. Half - 1}
    BY <1>1 DEF FT!CoreCables, FT!CoreAbove, Half
  <1>3. ASSUME NEW j \in PodSwitches, NEW l \in 0 .. Half - 1
        PROVE  FT!CoreAbove(j, l) \in Cores /\ FT!CoreAbove(j, l) \div Half = j % Half
    <2> DEFINE r == j % Half
    <2>1. j \in Nat /\ l \in Nat
      BY <1>1
    <2>2. FT!CoreAbove(j, l) = r * Half + l /\ r \in 0 .. Half - 1
      BY <2>1, CoreIs
    <2> HIDE DEF r
    <2>3. r \in Nat
      BY <1>1, <2>2
    <2>4. r * Half + l \in Nat /\ (r * Half + l) \div Half = r
      BY <1>1, <2>3, Unique
    <2>5. FT!CoreAbove(j, l) \in Nat /\ FT!CoreAbove(j, l) \div Half = r /\ r < Half
      BY <1>1, <2>2, <2>4
    <2>6. QED BY <2>5, InRange DEF r
  <1>4. ASSUME NEW j \in PodSwitches, NEW x \in Cores, x \div Half = j % Half
        PROVE  \E l \in 0 .. Half - 1 : x = FT!CoreAbove(j, l)
    <2> DEFINE r == j % Half
               l == x % Half
    <2>1. l \in 0 .. Half - 1 /\ x = (x \div Half) * Half + l
      BY <1>1, Division
    <2>2. l \in Nat /\ j \in Nat
      BY <1>1, <2>1
    <2>3. FT!CoreAbove(j, l) = r * Half + l
      <3> HIDE DEF l
      <3>1. QED BY <2>2, CoreIs
    <2>4. x = r * Half + l
      <3> HIDE DEF l
      <3>1. QED BY <1>4, <2>1
    <2>5. x = FT!CoreAbove(j, l)
      BY <2>3, <2>4
    <2>6. QED BY <2>1, <2>5
  <1>5. QED BY <1>2, <1>3, <1>4 DEF TreeCoreCable

LEMMA TreeCableIs ==
  ASSUME NEW c
  PROVE  c \in FT!Cables <=> TreeHostCable(c) \/ TreePodCable(c) \/ TreeCoreCable(c)
  BY TreeHostCableIs, TreePodCableIs, TreeCoreCableIs DEF FT!Cables

LEMMA TreeCablesJoin == Joins(FT!Cables)
  <1>1. ASSUME NEW c \in FT!Cables
        PROVE  c = <<c[1], c[2]>>
    <2>1. \E x, y : c = <<x, y>>
      BY TreeCableIs DEF TreeHostCable, TreePodCable, TreeCoreCable, FT!Both
    <2>2. QED BY <2>1
  <1>2. QED BY <1>1 DEF Joins

\* Where the cables of a host, of a lower and of an upper switch lead.
LEMMA FromTreeHost ==
  ASSUME NEW i, NEW y, <<FT!Host(i), y>> \in FT!Cables \/ <<y, FT!Host(i)>> \in FT!Cables
  PROVE  y = FT!Lower(FT!HostPodSwitch(i))
  <1>1. ASSUME NEW c, TreeHostCable(c), c = <<FT!Host(i), y>> \/ c = <<y, FT!Host(i)>>
        PROVE  y = FT!Lower(FT!HostPodSwitch(i))
    BY <1>1 DEF TreeHostCable, FT!Both, FT!Host, FT!Lower
  <1>2. ASSUME NEW c, c = <<FT!Host(i), y>> \/ c = <<y, FT!Host(i)>>
        PROVE  ~ TreePodCable(c) /\ ~ TreeCoreCable(c)
    BY <1>2 DEF TreePodCable, TreeCoreCable, FT!Both, FT!Host, FT!Lower, FT!Upper, FT!Core
  <1>3. QED BY <1>1, <1>2, TreeCableIs

LEMMA FromLower ==
  ASSUME NEW j, NEW y, <<FT!Lower(j), y>> \in FT!Cables \/ <<y, FT!Lower(j)>> \in FT!Cables
  PROVE  \/ \E i \in TreeHosts : y = FT!Host(i) /\ FT!HostPodSwitch(i) = j
         \/ \E k \in PodSwitches : y = FT!Upper(k) /\ k \div Half = j \div Half
  <1>1. ASSUME NEW c, TreeHostCable(c), c = <<FT!Lower(j), y>> \/ c = <<y, FT!Lower(j)>>
        PROVE  \E i \in TreeHosts : y = FT!Host(i) /\ FT!HostPodSwitch(i) = j
    BY <1>1 DEF TreeHostCable, FT!Both, FT!Host, FT!Lower
  <1>2. ASSUME NEW c, TreePodCable(c), c = <<FT!Lower(j), y>> \/ c = <<y, FT!Lower(j)>>
        PROVE  \E k \in PodSwitches : y = FT!Upper(k) /\ k \div Half = j \div Half
    BY <1>2 DEF TreePodCable, FT!Both, FT!Upper, FT!Lower
  <1>3. ASSUME NEW c, c = <<FT!Lower(j), y>> \/ c = <<y, FT!Lower(j)>>
        PROVE  ~ TreeCoreCable(c)
    BY <1>3 DEF TreeCoreCable, FT!Both, FT!Lower, FT!Upper, FT!Core
  <1>4. QED BY <1>1, <1>2, <1>3, TreeCableIs

LEMMA FromUpper ==
  ASSUME NEW k, NEW y, <<FT!Upper(k), y>> \in FT!Cables \/ <<y, FT!Upper(k)>> \in FT!Cables
  PROVE  \/ \E j \in PodSwitches : y = FT!Lower(j) /\ k \div Half = j \div Half
         \/ \E x \in Cores : y = FT!Core(x) /\ x \div Half = k % Half
  <1>1. ASSUME NEW c, TreePodCable(c), c = <<FT!Upper(k), y>> \/ c = <<y, FT!Upper(k)>>
        PROVE  \E j \in PodSwitches : y = FT!Lower(j) /\ k \div Half = j \div Half
    BY <1>1 DEF TreePodCable, FT!Both, FT!Upper, FT!Lower
  <1>2. ASSUME NEW c, TreeCoreCable(c), c = <<FT!Upper(k), y>> \/ c = <<y, FT!Upper(k)>>
        PROVE  \E x \in Cores : y = FT!Core(x) /\ x \div Half = k % Half
    BY <1>2 DEF TreeCoreCable, FT!Both, FT!Upper, FT!Core
  <1>3. ASSUME NEW c, c = <<FT!Upper(k), y>> \/ c = <<y, FT!Upper(k)>>
        PROVE  ~ TreeHostCable(c)
    BY <1>3 DEF TreeHostCable, FT!Both, FT!Lower, FT!Upper, FT!Host
  <1>4. QED BY <1>1, <1>2, <1>3, TreeCableIs

\* The cables that are laid.
LEMMA TreeLaid ==
  /\ \A i \in TreeHosts : FT!Both(FT!Lower(FT!HostPodSwitch(i)), FT!Host(i)) \subseteq FT!Cables
  /\ \A j, k \in PodSwitches : k \div Half = j \div Half
       => FT!Both(FT!Upper(k), FT!Lower(j)) \subseteq FT!Cables
  /\ \A k \in PodSwitches : \A x \in Cores : x \div Half = k % Half
       => FT!Both(FT!Upper(k), FT!Core(x)) \subseteq FT!Cables
  BY TreeCableIs DEF TreeHostCable, TreePodCable, TreeCoreCable
------------------------------------------------------------------------------
\* The walks over the fat tree.

\* A walk over the fat tree from host to host, by its nodes.
Climbed(src, dest, v, n) == Trail(FT!Cables, FT!Host(src), FT!Host(dest), v, n)

LEMMA NodesDiffer ==
  ASSUME NEW i, NEW j
  PROVE  /\ FT!Host(i) # FT!Lower(j) /\ FT!Host(i) # FT!Upper(j) /\ FT!Host(i) # FT!Core(j)
         /\ FT!Lower(i) # FT!Upper(j) /\ FT!Lower(i) # FT!Core(j) /\ FT!Upper(i) # FT!Core(j)
         /\ FT!Host(i) = FT!Host(j) => i = j
         /\ FT!Lower(i) = FT!Lower(j) => i = j
         /\ FT!Upper(i) = FT!Upper(j) => i = j
         /\ FT!Core(i) = FT!Core(j) => i = j
  BY DEF FT!Host, FT!Lower, FT!Upper, FT!Core

\* Between which nodes there is a cable.
LEMMA LowerToUpper ==
  ASSUME NEW j, NEW k,
         <<FT!Lower(j), FT!Upper(k)>> \in FT!Cables \/ <<FT!Upper(k), FT!Lower(j)>> \in FT!Cables
  PROVE  k \div Half = j \div Half
  <1> DEFINE y == FT!Upper(k)
  <1>1. <<FT!Lower(j), y>> \in FT!Cables \/ <<y, FT!Lower(j)>> \in FT!Cables
    OBVIOUS
  <1> HIDE DEF y
  <1>2. \/ \E i \in TreeHosts : y = FT!Host(i) /\ FT!HostPodSwitch(i) = j
        \/ \E m \in PodSwitches : y = FT!Upper(m) /\ m \div Half = j \div Half
    BY <1>1, FromLower
  <1>3. QED BY <1>2, NodesDiffer DEF y

LEMMA UpperToCore ==
  ASSUME NEW k, NEW x,
         <<FT!Core(x), FT!Upper(k)>> \in FT!Cables \/ <<FT!Upper(k), FT!Core(x)>> \in FT!Cables
  PROVE  x \div Half = k % Half
  <1> DEFINE y == FT!Core(x)
  <1>1. <<FT!Upper(k), y>> \in FT!Cables \/ <<y, FT!Upper(k)>> \in FT!Cables
    OBVIOUS
  <1> HIDE DEF y
  <1>2. \/ \E j \in PodSwitches : y = FT!Lower(j) /\ k \div Half = j \div Half
        \/ \E m \in Cores : y = FT!Core(m) /\ m \div Half = k % Half
    BY <1>1, FromUpper
  <1>3. QED BY <1>2, NodesDiffer DEF y

LEMMA NoCable ==
  ASSUME NEW j, NEW k
  PROVE  /\ <<FT!Lower(j), FT!Lower(k)>> \notin FT!Cables
         /\ <<FT!Host(j), FT!Host(k)>> \notin FT!Cables
         /\ <<FT!Upper(j), FT!Upper(k)>> \notin FT!Cables
         /\ <<FT!Host(j), FT!Upper(k)>> \notin FT!Cables
         /\ <<FT!Upper(j), FT!Host(k)>> \notin FT!Cables
  <1>1. <<FT!Host(j), FT!Host(k)>> \notin FT!Cables /\ <<FT!Host(j), FT!Upper(k)>> \notin FT!Cables
        /\ <<FT!Upper(j), FT!Host(k)>> \notin FT!Cables
    BY FromTreeHost, NodesDiffer
  <1>2. <<FT!Lower(j), FT!Lower(k)>> \notin FT!Cables
    <2> DEFINE y == FT!Lower(k)
    <2>1. ASSUME <<FT!Lower(j), y>> \in FT!Cables
          PROVE  \/ \E i \in TreeHosts : y = FT!Host(i)
                 \/ \E m \in PodSwitches : y = FT!Upper(m)
      <3> HIDE DEF y
      <3>1. QED BY <2>1, FromLower
    <2>2. QED BY <2>1, NodesDiffer
  <1>3. <<FT!Upper(j), FT!Upper(k)>> \notin FT!Cables
    <2> DEFINE y == FT!Upper(k)
    <2>1. ASSUME <<FT!Upper(j), y>> \in FT!Cables
          PROVE  \/ \E i \in PodSwitches : y = FT!Lower(i)
                 \/ \E m \in Cores : y = FT!Core(m)
      <3> HIDE DEF y
      <3>1. QED BY <2>1, FromUpper
    <2>2. QED BY <2>1, NodesDiffer
  <1>4. QED BY <1>1, <1>2, <1>3

\* A walk begins at the lower switch of the one host and ends at that of the other.
LEMMA ClimbedEnds ==
  ASSUME NEW src \in TreeHosts, NEW dest \in TreeHosts, NEW n \in Nat \ {0}, NEW v, Climbed(src, dest, v, n)
  PROVE  /\ n >= 2 /\ v[1] = FT!Host(src) /\ v[2] = FT!Lower(FT!HostPodSwitch(src))
         /\ v[n] = FT!Lower(FT!HostPodSwitch(dest)) /\ v[n + 1] = FT!Host(dest)
  <1>1. v[1] = FT!Host(src) /\ v[n + 1] = FT!Host(dest)
    BY DEF Climbed, Trail
  <1>2. \A i \in 1 .. n : <<v[i], v[i + 1]>> \in FT!Cables
    BY DEF Climbed, Trail
  <1>3. v[2] = FT!Lower(FT!HostPodSwitch(src))
    <2>1. <<v[1], v[2]>> \in FT!Cables
      <3>1. 1 \in 1 .. n /\ 1 + 1 = 2
        OBVIOUS
      <3>2. QED BY <1>2, <3>1
    <2>2. QED BY <1>1, <2>1, FromTreeHost
  <1>4. v[n] = FT!Lower(FT!HostPodSwitch(dest))
    <2>1. <<v[n], v[n + 1]>> \in FT!Cables
      BY <1>2
    <2>2. QED BY <1>1, <2>1, FromTreeHost
  <1>5. n # 1
    BY <1>1, <1>3, NodesDiffer
  <1>6. QED BY <1>1, <1>3, <1>4, <1>5

LEMMA ClimbedStep ==
  ASSUME NEW src \in TreeHosts, NEW dest \in TreeHosts, NEW n \in Nat \ {0}, NEW v, Climbed(src, dest, v, n),
         NEW i \in 1 .. n, NEW k, k = i + 1
  PROVE  <<v[i], v[k]>> \in FT!Cables /\ \A h : v[k] = FT!Host(h) => h = dest
  <1>1. <<v[i], v[k]>> \in FT!Cables /\ (v[k][1] = "host" => v[k] = FT!Host(dest))
    BY DEF Climbed, Trail
  <1>2. ASSUME NEW h, v[k] = FT!Host(h)
        PROVE  h = dest
    BY <1>1, <1>2 DEF FT!Host
  <1>3. QED BY <1>1, <1>2

\* A walk has an even number of cables.
LEMMA ClimbedEvenly ==
  ASSUME NEW src \in TreeHosts, NEW dest \in TreeHosts, NEW v
  PROVE  ~ Climbed(src, dest, v, 1) /\ ~ Climbed(src, dest, v, 3) /\ ~ Climbed(src, dest, v, 5)
  <1> DEFINE a == FT!HostPodSwitch(src)
             b == FT!HostPodSwitch(dest)
  <1>1. ~ Climbed(src, dest, v, 1)
    BY ClimbedEnds
  <1>2. ASSUME Climbed(src, dest, v, 3)
        PROVE  FALSE
    <2>1. 2 \in 1 .. 3 /\ 3 = 2 + 1 /\ 3 \in Nat \ {0}
      OBVIOUS
    <2>2. v[2] = FT!Lower(a) /\ v[3] = FT!Lower(b)
      BY <1>2, <2>1, ClimbedEnds
    <2>3. <<FT!Lower(a), FT!Lower(b)>> \in FT!Cables
      BY <1>2, <2>1, <2>2, ClimbedStep
    <2>4. QED BY <2>3, NoCable
  <1>3. ASSUME Climbed(src, dest, v, 5)
        PROVE  FALSE
    <2>1. /\ 2 \in 1 .. 5 /\ 3 \in 1 .. 5 /\ 4 \in 1 .. 5 /\ 5 \in Nat \ {0}
          /\ 3 = 2 + 1 /\ 4 = 3 + 1 /\ 5 = 4 + 1
      OBVIOUS
    <2>2. v[2] = FT!Lower(a) /\ v[5] = FT!Lower(b)
      BY <1>3, <2>1, ClimbedEnds
    <2>3. /\ <<FT!Lower(a), v[3]>> \in FT!Cables /\ <<v[3], v[4]>> \in FT!Cables
          /\ <<v[4], FT!Lower(b)>> \in FT!Cables
      BY <1>3, <2>1, <2>2, ClimbedStep
    <2>4. (\E i : v[3] = FT!Host(i)) \/ (\E k : v[3] = FT!Upper(k))
      BY <2>3, FromLower
    <2>5. (\E i : v[4] = FT!Host(i)) \/ (\E k : v[4] = FT!Upper(k))
      BY <2>3, FromLower
    <2>6. CASE \E i : v[3] = FT!Host(i)
      BY <2>3, <2>5, <2>6, NoCable
    <2>7. CASE \E k : v[3] = FT!Upper(k)
      BY <2>3, <2>5, <2>7, NoCable
    <2>8. QED BY <2>4, <2>6, <2>7
  <1>4. QED BY <1>1, <1>2, <1>3

\* The walks of two cables stay at a lower switch, those of four in a pod.
LEMMA ClimbedTwo ==
  ASSUME NEW src \in TreeHosts, NEW dest \in TreeHosts, NEW v, Climbed(src, dest, v, 2)
  PROVE  FT!HostPodSwitch(src) = FT!HostPodSwitch(dest)
  BY ClimbedEnds, NodesDiffer

LEMMA ClimbedFour ==
  ASSUME NEW src \in TreeHosts, NEW dest \in TreeHosts,
         FT!HostPodSwitch(src) # FT!HostPodSwitch(dest), NEW v, Climbed(src, dest, v, 4)
  PROVE  /\ FT!HostPod(src) = FT!HostPod(dest)
         /\ \E u \in PodSwitches : u \div Half = FT!HostPod(src) /\ v[3] = FT!Upper(u)
  <1> DEFINE a == FT!HostPodSwitch(src)
             b == FT!HostPodSwitch(dest)
  <1>1. /\ 2 \in 1 .. 4 /\ 3 \in 1 .. 4 /\ 4 \in Nat \ {0}
        /\ 3 = 2 + 1 /\ 4 = 3 + 1
    OBVIOUS
  <1>2. v[2] = FT!Lower(a) /\ v[4] = FT!Lower(b)
    BY <1>1, ClimbedEnds
  <1>3. /\ <<FT!Lower(a), v[3]>> \in FT!Cables /\ <<v[3], FT!Lower(b)>> \in FT!Cables
        /\ \A h : v[3] = FT!Host(h) => h = dest
    BY <1>1, <1>2, ClimbedStep
  <1>4. FT!HostPod(src) = a \div Half /\ FT!HostPod(dest) = b \div Half
    BY HostTreeSwitch
  <1>5. ~ \E i \in TreeHosts : v[3] = FT!Host(i) /\ FT!HostPodSwitch(i) = a
    BY <1>3
  <1>6. PICK u \in PodSwitches : v[3] = FT!Upper(u) /\ u \div Half = a \div Half
    BY <1>3, <1>5, FromLower
  <1>7. u \div Half = b \div Half
    BY <1>3, <1>6, LowerToUpper
  <1>8. QED BY <1>4, <1>6, <1>7

LEMMA ClimbedSix ==
  ASSUME NEW src \in TreeHosts, NEW dest \in TreeHosts, FT!HostPod(src) # FT!HostPod(dest),
         NEW v, Climbed(src, dest, v, 6)
  PROVE  \E u \in PodSwitches : \E d \in PodSwitches : \E x \in Cores :
           /\ u \div Half = FT!HostPod(src) /\ d \div Half = FT!HostPod(dest)
           /\ x \div Half = u % Half /\ x \div Half = d % Half
           /\ v[3] = FT!Upper(u) /\ v[4] = FT!Core(x) /\ v[5] = FT!Upper(d)
  <1> DEFINE a == FT!HostPodSwitch(src)
             b == FT!HostPodSwitch(dest)
  <1>1. /\ 2 \in 1 .. 6 /\ 3 \in 1 .. 6 /\ 4 \in 1 .. 6 /\ 5 \in 1 .. 6 /\ 6 \in Nat \ {0}
        /\ 3 = 2 + 1 /\ 4 = 3 + 1 /\ 5 = 4 + 1 /\ 6 = 5 + 1
    OBVIOUS
  <1>2. v[2] = FT!Lower(a) /\ v[6] = FT!Lower(b)
    BY <1>1, ClimbedEnds
  <1>3. /\ <<FT!Lower(a), v[3]>> \in FT!Cables /\ <<v[3], v[4]>> \in FT!Cables
        /\ <<v[4], v[5]>> \in FT!Cables /\ <<v[5], FT!Lower(b)>> \in FT!Cables
        /\ \A h : v[3] = FT!Host(h) => h = dest
        /\ \A h : v[5] = FT!Host(h) => h = dest
    BY <1>1, <1>2, ClimbedStep
  <1>4. FT!HostPod(src) = a \div Half /\ FT!HostPod(dest) = b \div Half /\ a # b
    BY HostTreeSwitch
  <1>5. ~ \E i \in TreeHosts : v[3] = FT!Host(i) /\ FT!HostPodSwitch(i) = a
    BY <1>3, <1>4
  <1>6. PICK u \in PodSwitches : v[3] = FT!Upper(u) /\ u \div Half = a \div Half
    BY <1>3, <1>5, FromLower
  <1>7. <<FT!Upper(u), v[4]>> \in FT!Cables
    BY <1>3, <1>6
  <1>8. ~ \E i : v[5] = FT!Host(i)
    <2> SUFFICES ASSUME v[5] = FT!Host(dest)
                 PROVE  FALSE
      BY <1>3
    <2>1. v[4] = FT!Lower(b)
      BY <1>3, FromTreeHost
    <2>2. u \div Half = b \div Half
      BY <1>7, <2>1, LowerToUpper
    <2>3. QED BY <1>4, <1>6, <2>2
  <1>9. PICK d \in PodSwitches : v[5] = FT!Upper(d) /\ d \div Half = b \div Half
    BY <1>3, <1>8, FromLower
  <1>10. <<v[4], FT!Upper(d)>> \in FT!Cables
    BY <1>3, <1>9
  <1>11. ~ \E j : v[4] = FT!Lower(j)
    <2> SUFFICES ASSUME NEW j, v[4] = FT!Lower(j)
                 PROVE  FALSE
      OBVIOUS
    <2>1. u \div Half = j \div Half /\ d \div Half = j \div Half
      BY <1>7, <1>10, LowerToUpper
    <2>2. QED BY <1>4, <1>6, <1>9, <2>1
  <1>12. PICK x \in Cores : v[4] = FT!Core(x) /\ x \div Half = u % Half
    BY <1>7, <1>11, FromUpper
  <1>13. x \div Half = d % Half
    BY <1>10, <1>12, UpperToCore
  <1>14. QED BY <1>4, <1>6, <1>9, <1>12, <1>13
------------------------------------------------------------------------------
\* The candidates.

\* The operators on sequences that FatTree uses are those of this module.
LEMMA TreeSequences ==
  ASSUME NEW q
  PROVE  FT!FlattenSeq(q) = FlattenSeq(q) /\ FT!ToSet(q) = ToSet(q)
  BY DEF FT!FlattenSeq, FlattenSeq, FT!ToSet, ToSet

LEMMA UppersAre ==
  ASSUME NEW g \in Nat, NEW ups, ups = FT!UppersOf(g)
  PROVE  /\ ups \in Seq(Nat) /\ Len(ups) = Half /\ DOMAIN ups = 1 .. Half
         /\ IsInjective(ups)
         /\ \A k : (\E i \in 1 .. Half : ups[i] = k) <=> k \in Nat /\ k \div Half = g
  <1> DEFINE lo == g * Half
  <1>1. Half \in Nat \ {0} /\ lo \in Nat
    BY Halved, Product
  <1>2. FT!MinPodId(g) = lo /\ FT!MaxPodId(g) = lo + Half - 1
    BY PodIds
  <1> HIDE DEF lo
  <1>3. ups = [i \in 1 .. Half |-> lo + i - 1]
    <2> DEFINE hi == lo + Half - 1
    <2>1. ups = [i \in 1 .. hi - lo + 1 |-> lo + i - 1]
      BY <1>2, Zenon DEF FT!UppersOf, FT!Upwards
    <2>2. hi - lo + 1 = Half
      BY <1>1
    <2> HIDE DEF hi
    <2>3. QED BY <2>1, <2>2
  <1>4. /\ ups \in Seq(Nat) /\ Len(ups) = Half /\ DOMAIN ups = 1 .. Half
        /\ \A i \in 1 .. Half : ups[i] = lo + i - 1
    BY <1>1, <1>3
  <1>5. IsInjective(ups)
    BY <1>1, <1>4 DEF IsInjective
  <1>6. ASSUME NEW k
        PROVE  (\E i \in 1 .. Half : ups[i] = k) <=> k \in lo .. lo + Half - 1
    <2>1. ASSUME k \in lo .. lo + Half - 1
          PROVE  \E i \in 1 .. Half : ups[i] = k
      <3>1. k - lo + 1 \in 1 .. Half /\ lo + (k - lo + 1) - 1 = k
        BY <1>1, <2>1
      <3>2. QED BY <1>4, <3>1
    <2>2. QED BY <1>1, <1>4, <2>1
  <1>7. ASSUME NEW k
        PROVE  k \in lo .. lo + Half - 1 <=> k \in Nat /\ k \div Half = g
    <2>1. k \in lo .. lo + Half - 1 => k \in Nat
      BY <1>1
    <2>2. QED BY <1>1, <2>1, Stretch DEF lo
  <1>8. QED BY <1>4, <1>5, <1>6, <1>7

\* What is gathered from several sequences that share nothing.
LEMMA Gathered ==
  ASSUME NEW X, NEW n \in Nat, NEW q, DOMAIN q = 1 .. n, q = [i \in 1 .. n |-> q[i]],
         \A i \in 1 .. n : q[i] \in Seq(X) /\ IsInjective(q[i]),
         \A i, j \in 1 .. n : i # j => ToSet(q[i]) \cap ToSet(q[j]) = {}
  PROVE  /\ FT!FlattenSeq(q) \in Seq(X) /\ IsInjective(FT!FlattenSeq(q))
         /\ \A x : x \in ToSet(FT!FlattenSeq(q)) <=> \E i \in 1 .. n : x \in ToSet(q[i])
  <1>1. q \in Seq(Seq(X)) /\ Len(q) = n
    <2> DEFINE p == [i \in 1 .. n |-> q[i]]
    <2>1. p \in Seq(Seq(X)) /\ Len(p) = n
      OBVIOUS
    <2>2. QED BY <2>1
  <1>2. FT!FlattenSeq(q) = FlattenSeq(q)
    BY TreeSequences
  <1>3. FlattenSeq(q) \in Seq(X)
    BY <1>1, FlattenExists, FlattenIs
  <1>4. IsInjective(FlattenSeq(q))
    BY <1>1, FlattenOnce
  <1>5. \A x : x \in ToSet(FlattenSeq(q)) <=> \E i \in 1 .. Len(q) : x \in ToSet(q[i])
    BY <1>1, FlattenHolds
  <1>6. QED BY <1>1, <1>2, <1>3, <1>4, <1>5

\* How long a sequence of sequences is when they are laid end to end.
LEMMA Measured ==
  ASSUME NEW X, NEW n \in Nat, NEW q, DOMAIN q = 1 .. n, q = [i \in 1 .. n |-> q[i]],
         NEW m \in Nat, \A i \in 1 .. n : q[i] \in Seq(X) /\ Len(q[i]) = m
  PROVE  Len(FT!FlattenSeq(q)) = n * m
  <1>1. q \in Seq(Seq(X)) /\ Len(q) = n
    <2> DEFINE p == [i \in 1 .. n |-> q[i]]
    <2>1. p \in Seq(Seq(X)) /\ Len(p) = n
      OBVIOUS
    <2>2. QED BY <2>1
  <1>2. FT!FlattenSeq(q) = FlattenSeq(q)
    BY TreeSequences
  <1>3. Len(FlattenSeq(q)) = Len(q) * m
    BY <1>1, FlattenLength
  <1>4. QED BY <1>1, <1>2, <1>3

LEMMA MeasuredOnes ==
  ASSUME NEW X, NEW n \in Nat, NEW q, DOMAIN q = 1 .. n, q = [i \in 1 .. n |-> q[i]],
         \A i \in 1 .. n : q[i] \in Seq(X) /\ Len(q[i]) = 1
  PROVE  Len(FT!FlattenSeq(q)) = n
  <1>1. PICK m \in Nat : m = 1
    OBVIOUS
  <1>2. \A i \in 1 .. n : q[i] \in Seq(X) /\ Len(q[i]) = m
    BY <1>1
  <1>3. Len(FT!FlattenSeq(q)) = n * m
    <2>1. n \in Nat /\ DOMAIN q = 1 .. n /\ q = [i \in 1 .. n |-> q[i]]
      OBVIOUS
    <2>2. QED BY ONLY m \in Nat, <1>2, <2>1, Measured
  <1>4. n * m = n
    BY <1>1
  <1>5. QED BY ONLY <1>3, <1>4

LEMMA OneOrNone ==
  ASSUME NEW X, NEW x \in X
  PROVE  /\ <<x>> \in Seq(X) /\ IsInjective(<<x>>) /\ ToSet(<<x>>) = {x}
         /\ << >> \in Seq(X) /\ IsInjective(<< >>) /\ ToSet(<< >>) = {}
  <1>1. <<x>> \in Seq(X) /\ Len(<<x>>) = 1 /\ DOMAIN <<x>> = {1} /\ <<x>>[1] = x
    OBVIOUS
  <1>2. << >> \in Seq(X) /\ DOMAIN << >> = {}
    OBVIOUS
  <1>3. IsInjective(<<x>>) /\ ToSet(<<x>>) = {x}
    BY <1>1 DEF IsInjective, ToSet
  <1>4. IsInjective(<< >>) /\ ToSet(<< >>) = {}
    BY <1>2 DEF IsInjective, ToSet
  <1>5. QED BY <1>1, <1>2, <1>3, <1>4

\* A candidate tells its switches.
Ways(src, dest) == {FT!Over(src, dest, u, c, d) : u \in Nat, c \in Nat, d \in Nat}

\* The nodes of a candidate between pods; two that are the same have the same switches.
LEMMA OverIs ==
  ASSUME NEW src, NEW dest, NEW u, NEW c, NEW d, NEW v, v = FT!Over(src, dest, u, c, d)
  PROVE  /\ Len(v) = 7 /\ v[1] = FT!Host(src) /\ v[2] = FT!Lower(FT!HostPodSwitch(src))
         /\ v[3] = FT!Upper(u) /\ v[4] = FT!Core(c) /\ v[5] = FT!Upper(d)
         /\ v[6] = FT!Lower(FT!HostPodSwitch(dest)) /\ v[7] = FT!Host(dest)
  BY DEF FT!Over

LEMMA OverTells ==
  ASSUME NEW src, NEW dest, NEW u, NEW c, NEW d, NEW u2, NEW c2, NEW d2,
         FT!Over(src, dest, u, c, d) = FT!Over(src, dest, u2, c2, d2)
  PROVE  u = u2 /\ c = c2 /\ d = d2
  BY OverIs, NodesDiffer

\* The switches on the way down, given the core; down from an upper switch; and all.
Down(dest, c, d) == d \in Nat /\ d \div Half = FT!HostPod(dest) /\ c \div Half = d % Half

LEMMA ByCoreIs ==
  ASSUME NEW src \in TreeHosts, NEW dest \in TreeHosts, NEW up \in Nat, NEW core \in Nat
  PROVE  /\ FT!ByCore(src, dest, up, core) \in Seq(Ways(src, dest))
         /\ IsInjective(FT!ByCore(src, dest, up, core))
         /\ \A x : x \in ToSet(FT!ByCore(src, dest, up, core))
                     <=> \E d \in Nat : Down(dest, core, d) /\ x = FT!Over(src, dest, up, core, d)
  <1> DEFINE X == Ways(src, dest)
             downs == FT!UppersOf(FT!HostPod(dest))
             over(i) == FT!Over(src, dest, up, core, downs[i])
             q == [i \in DOMAIN downs |-> IF core \in FT!CoresAbove(downs[i]) THEN <<over(i)>> ELSE << >>]
  <1>1. FT!ByCore(src, dest, up, core) = FT!FlattenSeq(q)
    BY DEF FT!ByCore
  <1>2. FT!HostPod(dest) \in Nat /\ Half \in Nat
    BY HostTreeSwitch, Halved
  <1>3. /\ downs \in Seq(Nat) /\ DOMAIN downs = 1 .. Half /\ IsInjective(downs)
        /\ \A k : (\E i \in 1 .. Half : downs[i] = k) <=> k \in Nat /\ k \div Half = FT!HostPod(dest)
    BY <1>2, UppersAre
  <1> HIDE DEF downs
  <1>4. \A i \in 1 .. Half : downs[i] \in Nat
    BY <1>3
  <1>5. \A i \in 1 .. Half : over(i) \in X
    BY <1>4 DEF Ways
  <1>6. \A i \in 1 .. Half : core \in FT!CoresAbove(downs[i]) <=> core \div Half = downs[i] % Half
    BY <1>4, AboveIs
  <1>7. \A i, j \in 1 .. Half : over(i) = over(j) => i = j
    <2>1. \A i, j \in 1 .. Half : over(i) = over(j) => downs[i] = downs[j]
      BY OverTells
    <2>2. QED BY <1>3, <2>1 DEF IsInjective
  <1> HIDE DEF over, X
  <1>8. /\ DOMAIN q = 1 .. Half
        /\ \A i \in 1 .. Half : q[i] = IF core \div Half = downs[i] % Half THEN <<over(i)>> ELSE << >>
        /\ q = [i \in 1 .. Half |-> q[i]]
    BY <1>3, <1>6
  <1> HIDE DEF q
  <1>9. \A i \in 1 .. Half : q[i] \in Seq(X) /\ IsInjective(q[i])
    BY <1>5, <1>8, OneOrNone
  <1>10. \A i \in 1 .. Half : ToSet(q[i]) = IF core \div Half = downs[i] % Half THEN {over(i)} ELSE {}
    BY <1>5, <1>8, OneOrNone
  <1>11. \A i, j \in 1 .. Half : i # j => ToSet(q[i]) \cap ToSet(q[j]) = {}
    BY <1>7, <1>10
  <1>12. /\ FT!FlattenSeq(q) \in Seq(X) /\ IsInjective(FT!FlattenSeq(q))
         /\ \A x : x \in ToSet(FT!FlattenSeq(q)) <=> \E i \in 1 .. Half : x \in ToSet(q[i])
    BY <1>2, <1>8, <1>9, <1>11, Gathered
  <1>13. ASSUME NEW x
         PROVE  (\E i \in 1 .. Half : x \in ToSet(q[i]))
                  <=> \E d \in Nat : Down(dest, core, d) /\ x = FT!Over(src, dest, up, core, d)
    BY <1>3, <1>10 DEF over, Down
  <1>14. QED BY <1>1, <1>12, <1>13 DEF X

\* One switch of the pod is under a given core.
LEMMA OneDown ==
  ASSUME NEW src \in TreeHosts, NEW dest \in TreeHosts, NEW up \in Nat, NEW core \in Nat,
         core \div Half < Half
  PROVE  Len(FT!ByCore(src, dest, up, core)) = 1
  <1> DEFINE o == FT!HostPod(dest)
             r == core \div Half
             d == o * Half + r
             w == FT!Over(src, dest, up, core, d)
             s == FT!ByCore(src, dest, up, core)
  <1>1. Half \in Nat \ {0} /\ o \in Nat /\ r \in 0 .. Half - 1
    BY Halved, HostTreeSwitch
  <1>2. /\ s \in Seq(Ways(src, dest)) /\ IsInjective(s)
        /\ \A x : x \in ToSet(s)
                    <=> \E e \in Nat : Down(dest, core, e) /\ x = FT!Over(src, dest, up, core, e)
    BY ByCoreIs
  <1>3. d \in Nat /\ d \div Half = o /\ d % Half = r
    <2> HIDE DEF o, r
    <2>1. QED BY <1>1, Unique
  <1>4. Down(dest, core, d)
    <2> HIDE DEF d
    <2>1. QED BY <1>3 DEF Down
  <1>5. ASSUME NEW e \in Nat, Down(dest, core, e)
        PROVE  e = d
    <2>1. e \div Half = o /\ e % Half = r
      BY <1>5 DEF Down
    <2>2. e = (e \div Half) * Half + (e % Half)
      BY <1>1, Division
    <2>3. QED BY <2>1, <2>2
  <1> HIDE DEF d, s
  <1>6. ToSet(s) = {w}
    BY <1>2, <1>3, <1>4, <1>5
  <1> HIDE DEF w
  <1>7. Len(s) = Cardinality({w}) /\ Cardinality({w}) = 1
    BY <1>2, <1>6, OnceCounted, FS_Singleton
  <1>8. QED BY <1>7 DEF s

LEMMA ByUpperIs ==
  ASSUME NEW src \in TreeHosts, NEW dest \in TreeHosts, NEW up \in Nat
  PROVE  /\ FT!ByUpper(src, dest, up) \in Seq(Ways(src, dest))
         /\ IsInjective(FT!ByUpper(src, dest, up))
         /\ Len(FT!ByUpper(src, dest, up)) = Half
         /\ \A x : x \in ToSet(FT!ByUpper(src, dest, up))
                     <=> \E c \in Nat : /\ c \div Half = up % Half
                                        /\ \E d \in Nat : /\ Down(dest, c, d)
                                                          /\ x = FT!Over(src, dest, up, c, d)
  <1> DEFINE X == Ways(src, dest)
             r == up % Half
             core(l) == r * Half + (l - 1)
             q == [l \in 1 .. Half |-> FT!ByCore(src, dest, up, FT!CoreAbove(up, l - 1))]
             Held(c, x) == \E d \in Nat : Down(dest, c, d) /\ x = FT!Over(src, dest, up, c, d)
  <1>1. FT!ByUpper(src, dest, up) = FT!FlattenSeq(q)
    BY DEF FT!ByUpper, Half
  <1>2. Half \in Nat \ {0} /\ r \in 0 .. Half - 1
    BY Halved
  <1>3. ASSUME NEW l \in 1 .. Half
        PROVE  FT!CoreAbove(up, l - 1) = core(l)
    <2>1. l - 1 \in Nat
      BY <1>2
    <2>2. QED BY <2>1, CoreIs
  <1>4. \A l \in 1 .. Half : q[l] = FT!ByCore(src, dest, up, core(l))
    BY <1>3
  <1>5. DOMAIN q = 1 .. Half /\ q = [l \in 1 .. Half |-> q[l]]
    OBVIOUS
  <1> HIDE DEF q, r
  <1>6. ASSUME NEW c
        PROVE  (\E l \in 1 .. Half : c = core(l)) <=> c \in Nat /\ c \div Half = r
    <2>1. r \in Nat /\ r * Half \in Nat
      BY <1>2, Product
    <2>2. c \in r * Half .. r * Half + Half - 1 <=> \E l \in 1 .. Half : c = core(l)
      <3> DEFINE y == r * Half
      <3>1. y \in Nat
        BY <2>1
      <3> HIDE DEF y
      <3>2. ASSUME c \in y .. y + Half - 1
            PROVE  \E l \in 1 .. Half : c = y + (l - 1)
        <4>1. c - y + 1 \in 1 .. Half /\ c = y + ((c - y + 1) - 1)
          BY <1>2, <3>1, <3>2
        <4>2. QED BY <4>1
      <3>3. \A l \in 1 .. Half : y + (l - 1) \in y .. y + Half - 1
        BY <1>2, <3>1
      <3>4. QED BY <3>2, <3>3 DEF y
    <2>3. c \in r * Half .. r * Half + Half - 1 => c \in Nat
      BY <1>2, <2>1
    <2>4. QED BY <1>2, <2>1, <2>2, <2>3, Stretch
  <1>7. \A i, j \in 1 .. Half : core(i) = core(j) => i = j
    <2> DEFINE y == r * Half
    <2>1. y \in Nat
      BY <1>2, Product
    <2> HIDE DEF y
    <2>2. \A i, j \in 1 .. Half : y + (i - 1) = y + (j - 1) => i = j
      BY <1>2, <2>1
    <2>3. QED BY <2>2 DEF y
  <1>8. \A l \in 1 .. Half : core(l) \in Nat
    BY <1>6
  <1> HIDE DEF core
  <1>9. ASSUME NEW l \in 1 .. Half
        PROVE  /\ q[l] \in Seq(X) /\ IsInjective(q[l])
               /\ \A x : x \in ToSet(q[l]) <=> Held(core(l), x)
    <2> DEFINE k == core(l)
    <2>1. k \in Nat /\ q[l] = FT!ByCore(src, dest, up, k)
      BY <1>4, <1>8
    <2> HIDE DEF k
    <2>2. k \in Nat
      BY <2>1
    <2>3. /\ FT!ByCore(src, dest, up, k) \in Seq(X) /\ IsInjective(FT!ByCore(src, dest, up, k))
          /\ \A x : x \in ToSet(FT!ByCore(src, dest, up, k)) <=> Held(k, x)
      BY <2>2, ByCoreIs, Zenon
    <2> HIDE DEF Held, X
    <2>4. QED BY <2>1, <2>3 DEF k
  <1> HIDE DEF X
  <1>10. \A i, j \in 1 .. Half : i # j => ToSet(q[i]) \cap ToSet(q[j]) = {}
    <2>1. ASSUME NEW i \in 1 .. Half, NEW j \in 1 .. Half, NEW x, Held(core(i), x), Held(core(j), x)
          PROVE  i = j
      <3>1. PICK d : x = FT!Over(src, dest, up, core(i), d)
        BY <2>1
      <3>2. PICK e : x = FT!Over(src, dest, up, core(j), e)
        BY <2>1
      <3>3. core(i) = core(j)
        <4>1. x[4] = FT!Core(core(i))
          BY <3>1 DEF FT!Over
        <4>2. x[4] = FT!Core(core(j))
          BY <3>2 DEF FT!Over
        <4>3. QED BY <4>1, <4>2, NodesDiffer
      <3>4. QED BY <1>7, <3>3
    <2> HIDE DEF Held
    <2>2. QED BY <1>9, <2>1
  <1>11. /\ FT!FlattenSeq(q) \in Seq(X) /\ IsInjective(FT!FlattenSeq(q))
         /\ \A x : x \in ToSet(FT!FlattenSeq(q)) <=> \E l \in 1 .. Half : x \in ToSet(q[l])
    <2>1. \A l \in 1 .. Half : q[l] \in Seq(X) /\ IsInjective(q[l])
      BY <1>9
    <2>2. Half \in Nat
      BY <1>2
    <2>3. QED BY <1>5, <1>10, <2>1, <2>2, Gathered
  <1>12. ASSUME NEW x
         PROVE  (\E l \in 1 .. Half : x \in ToSet(q[l])) <=> \E c \in Nat : c \div Half = r /\ Held(c, x)
    <2> HIDE DEF Held
    <2>1. QED BY <1>6, <1>9
  <1>13. ASSUME NEW l \in 1 .. Half
         PROVE  q[l] \in Seq(X) /\ Len(q[l]) = 1
    <2> DEFINE k == core(l)
    <2>1. k \in Nat /\ k \div Half < Half /\ q[l] = FT!ByCore(src, dest, up, k)
      BY <1>2, <1>4, <1>6, <1>8
    <2> HIDE DEF k
    <2>2. Len(FT!ByCore(src, dest, up, k)) = 1
      BY <2>1, OneDown
    <2>3. QED BY <1>9, <2>1, <2>2
  <1>14. Len(FT!FlattenSeq(q)) = Half
    <2>1. Half \in Nat
      BY <1>2
    <2>2. QED BY <1>5, <1>13, <2>1, MeasuredOnes
  <1>15. QED BY <1>1, <1>11, <1>12, <1>14 DEF X, r

\* The candidates between pods.
LEMMA InterPodIs ==
  ASSUME NEW src \in TreeHosts, NEW dest \in TreeHosts
  PROVE  /\ FT!InterPod(src, dest) \in Seq(Ways(src, dest))
         /\ IsInjective(FT!InterPod(src, dest))
         /\ Len(FT!InterPod(src, dest)) = Half * Half
         /\ \A x : x \in ToSet(FT!InterPod(src, dest))
              <=> \E u \in Nat : /\ u \div Half = FT!HostPod(src)
                                 /\ \E c \in Nat : /\ c \div Half = u % Half
                                                   /\ \E d \in Nat : /\ Down(dest, c, d)
                                                                     /\ x = FT!Over(src, dest, u, c, d)
  <1> DEFINE X == Ways(src, dest)
             g == FT!HostPod(src)
             ups == FT!UppersOf(g)
             q == [i \in DOMAIN ups |-> FT!ByUpper(src, dest, ups[i])]
             Held(u, x) == \E c \in Nat : /\ c \div Half = u % Half
                                          /\ \E d \in Nat : /\ Down(dest, c, d)
                                                            /\ x = FT!Over(src, dest, u, c, d)
  <1>1. FT!InterPod(src, dest) = FT!FlattenSeq(q)
    BY DEF FT!InterPod
  <1>2. Half \in Nat /\ g \in Nat
    BY HostTreeSwitch, Halved
  <1>3. /\ ups \in Seq(Nat) /\ DOMAIN ups = 1 .. Half /\ IsInjective(ups)
        /\ \A k : (\E i \in 1 .. Half : ups[i] = k) <=> k \in Nat /\ k \div Half = g
    <2> HIDE DEF g
    <2>1. QED BY <1>2, UppersAre
  <1> HIDE DEF ups
  <1>4. \A i \in 1 .. Half : ups[i] \in Nat
    BY <1>3
  <1>5. /\ DOMAIN q = 1 .. Half /\ q = [i \in 1 .. Half |-> q[i]]
        /\ \A i \in 1 .. Half : q[i] = FT!ByUpper(src, dest, ups[i])
    BY <1>3
  <1> HIDE DEF q
  <1>6. \A i \in 1 .. Half : /\ q[i] \in Seq(X) /\ IsInjective(q[i])
                             /\ \A x : x \in ToSet(q[i]) <=> Held(ups[i], x)
    BY <1>4, <1>5, ByUpperIs
  <1> HIDE DEF X
  <1>7. \A i, j \in 1 .. Half : i # j => ToSet(q[i]) \cap ToSet(q[j]) = {}
    <2>1. ASSUME NEW i \in 1 .. Half, NEW j \in 1 .. Half, NEW x, Held(ups[i], x), Held(ups[j], x)
          PROVE  i = j
      <3>1. PICK c, d : x = FT!Over(src, dest, ups[i], c, d)
        BY <2>1
      <3>2. PICK e, f : x = FT!Over(src, dest, ups[j], e, f)
        BY <2>1
      <3>3. ups[i] = ups[j]
        <4>1. x[3] = FT!Upper(ups[i])
          BY <3>1 DEF FT!Over
        <4>2. x[3] = FT!Upper(ups[j])
          BY <3>2 DEF FT!Over
        <4>3. QED BY <4>1, <4>2, NodesDiffer
      <3>4. QED BY <1>3, <3>3 DEF IsInjective
    <2> HIDE DEF Held
    <2>2. QED BY <1>6, <2>1
  <1>8. /\ FT!FlattenSeq(q) \in Seq(X) /\ IsInjective(FT!FlattenSeq(q))
        /\ \A x : x \in ToSet(FT!FlattenSeq(q)) <=> \E i \in 1 .. Half : x \in ToSet(q[i])
    <2>1. \A i \in 1 .. Half : q[i] \in Seq(X) /\ IsInjective(q[i])
      BY <1>6
    <2>2. QED BY <1>2, <1>5, <1>7, <2>1, Gathered
  <1>9. ASSUME NEW x
        PROVE  (\E i \in 1 .. Half : x \in ToSet(q[i])) <=> \E u \in Nat : u \div Half = g /\ Held(u, x)
    <2> HIDE DEF Held
    <2>1. QED BY <1>3, <1>6
  <1>10. Len(FT!FlattenSeq(q)) = Half * Half
    <2>1. ASSUME NEW i \in 1 .. Half
          PROVE  q[i] \in Seq(X) /\ Len(q[i]) = Half
      <3>1. q[i] = FT!ByUpper(src, dest, ups[i]) /\ ups[i] \in Nat
        BY <1>4, <1>5
      <3>2. Len(FT!ByUpper(src, dest, ups[i])) = Half
        BY <3>1, ByUpperIs
      <3>3. QED BY <1>6, <3>1, <3>2
    <2>2. QED BY <1>2, <1>5, <2>1, Measured
  <1>11. QED BY <1>1, <1>8, <1>9, <1>10 DEF X, g

\* The candidates by way of an upper switch of the pod.
LEMMA IntraPodIs ==
  ASSUME NEW src \in TreeHosts, NEW dest \in TreeHosts
  PROVE  LET over(u) == <<FT!Host(src), FT!Lower(FT!HostPodSwitch(src)), FT!Upper(u),
                          FT!Lower(FT!HostPodSwitch(dest)), FT!Host(dest)>>
         IN  /\ FT!IntraPod(src, dest) \in Seq({over(u) : u \in Nat})
             /\ IsInjective(FT!IntraPod(src, dest)) /\ Len(FT!IntraPod(src, dest)) = Half
             /\ \A x : x \in ToSet(FT!IntraPod(src, dest))
                         <=> \E u \in Nat : u \div Half = FT!HostPod(src) /\ x = over(u)
  <1> DEFINE over(u) == <<FT!Host(src), FT!Lower(FT!HostPodSwitch(src)), FT!Upper(u),
                          FT!Lower(FT!HostPodSwitch(dest)), FT!Host(dest)>>
             g == FT!HostPod(src)
             ups == FT!UppersOf(g)
             q == [i \in DOMAIN ups |-> over(ups[i])]
  <1>1. FT!IntraPod(src, dest) = q
    BY DEF FT!IntraPod
  <1>2. Half \in Nat /\ g \in Nat
    BY HostTreeSwitch, Halved
  <1>3. /\ ups \in Seq(Nat) /\ DOMAIN ups = 1 .. Half /\ IsInjective(ups)
        /\ \A k : (\E i \in 1 .. Half : ups[i] = k) <=> k \in Nat /\ k \div Half = g
    <2> HIDE DEF g
    <2>1. QED BY <1>2, UppersAre
  <1> HIDE DEF ups
  <1>4. \A u, w : over(u) = over(w) => u = w
    BY NodesDiffer
  <1> HIDE DEF over
  <1>5. \A i \in 1 .. Half : ups[i] \in Nat
    BY <1>3
  <1>6. q = [i \in 1 .. Half |-> over(ups[i])] /\ q \in Seq({over(u) : u \in Nat}) /\ Len(q) = Half
    BY <1>2, <1>3, <1>5
  <1>7. IsInjective(q)
    BY <1>3, <1>4 DEF IsInjective
  <1>8. \A x : x \in ToSet(q) <=> \E i \in 1 .. Half : x = over(ups[i])
    BY <1>6 DEF ToSet
  <1> HIDE DEF q
  <1>9. \A x : x \in ToSet(q) <=> \E u \in Nat : u \div Half = g /\ x = over(u)
    BY <1>3, <1>8
  <1>10. QED BY <1>1, <1>6, <1>7, <1>9 DEF over, g

LEMMA CabledTells ==
  ASSUME NEW m \in Nat \ {0}, NEW x, NEW y, Cabled(x, m) = Cabled(y, m), NEW i \in 1 .. m + 1
  PROVE  x[i] = y[i]
  <1>1. \A j \in 1 .. m : Cabled(x, m)[j] = <<x[j], x[j + 1]>> /\ Cabled(y, m)[j] = <<y[j], y[j + 1]>>
    BY DEF Cabled
  <1>2. \A j \in 1 .. m : x[j] = y[j] /\ x[j + 1] = y[j + 1]
    <2>1. ASSUME NEW j \in 1 .. m
          PROVE  x[j] = y[j] /\ x[j + 1] = y[j + 1]
      <3>1. <<x[j], x[j + 1]>> = <<y[j], y[j + 1]>>
        BY <1>1
      <3>2. QED BY <3>1
    <2>2. QED BY <2>1
  <1>3. CASE i \in 1 .. m
    BY <1>2, <1>3
  <1>4. CASE i = m + 1
    <2>1. m \in 1 .. m
      OBVIOUS
    <2>2. QED BY <1>2, <1>4, <2>1
  <1>5. QED BY <1>3, <1>4

\* All candidates are wired.
Wireable(cands, m) ==
  /\ \A x \in ToSet(cands) : Len(x) = m + 1 /\ \A i \in 1 .. m : <<x[i], x[i + 1]>> \in FT!Cables
  /\ \A x, y \in ToSet(cands) : (\A i \in 1 .. m + 1 : x[i] = y[i]) => x = y

\* Then the routes are those candidates, as many and as different.
LEMMA WiredAre ==
  ASSUME NEW X, NEW cands \in Seq(X), IsInjective(cands), NEW m \in Nat \ {0}, Wireable(cands, m)
  PROVE  /\ Len(FT!Wired(cands)) = Cardinality(ToSet(FT!Wired(cands)))
         /\ Len(FT!Wired(cands)) = Len(cands)
         /\ \A w : w \in ToSet(FT!Wired(cands)) <=> \E x \in ToSet(cands) : w = Cabled(x, m)
  <1> DEFINE n == Len(cands)
             Y == {Cabled(x, m) : x \in ToSet(cands)}
             way(i) == Cabled(cands[i], m)
             q == [i \in DOMAIN cands |->
                     LET route == FT!Along(cands[i])
                     IN  IF FT!ToSet(route) \subseteq FT!Cables THEN <<route>> ELSE << >>]
  <1>1. FT!Wired(cands) = FT!FlattenSeq(q)
    BY DEF FT!Wired
  <1>2. n \in Nat /\ DOMAIN cands = 1 .. n /\ \A i \in 1 .. n : cands[i] \in ToSet(cands)
    BY DEF ToSet
  <1>3. ASSUME NEW i \in 1 .. n
        PROVE  FT!Along(cands[i]) = way(i) /\ ToSet(way(i)) \subseteq FT!Cables
    <2> DEFINE x == cands[i]
    <2>1. Len(x) = m + 1 /\ \A k \in 1 .. m : <<x[k], x[k + 1]>> \in FT!Cables
      BY <1>2 DEF Wireable
    <2> HIDE DEF x
    <2>2. Len(x) - 1 = m
      BY <2>1
    <2>3. FT!Along(x) = Cabled(x, m)
      BY <2>2 DEF FT!Along, Cabled
    <2>4. ToSet(Cabled(x, m)) \subseteq FT!Cables
      BY <2>1 DEF ToSet, Cabled
    <2>5. QED BY <2>3, <2>4 DEF x
  <1>4. \A i \in 1 .. n : way(i) \in Y
    BY <1>2
  <1>5. ASSUME NEW i \in 1 .. n, NEW j \in 1 .. n, way(i) = way(j)
        PROVE  i = j
    <2>1. \A k \in 1 .. m + 1 : cands[i][k] = cands[j][k]
      BY <1>5, CabledTells
    <2>2. cands[i] = cands[j]
      BY <1>2, <2>1 DEF Wireable
    <2>3. QED BY <1>2, <2>2 DEF IsInjective
  <1>6. ASSUME NEW w
        PROVE  (\E i \in 1 .. n : w = way(i)) <=> \E x \in ToSet(cands) : w = Cabled(x, m)
    BY <1>2 DEF ToSet
  <1> HIDE DEF way, Y
  <1>7. DOMAIN q = 1 .. n /\ q = [i \in 1 .. n |-> q[i]] /\ \A i \in 1 .. n : q[i] = <<way(i)>>
    BY <1>2, <1>3, TreeSequences
  <1> HIDE DEF q, n
  <1>8. ASSUME NEW i \in 1 .. n
        PROVE  q[i] \in Seq(Y) /\ IsInjective(q[i]) /\ ToSet(q[i]) = {way(i)}
    <2> DEFINE y == way(i)
    <2>1. y \in Y /\ q[i] = <<y>>
      BY <1>4, <1>7
    <2> HIDE DEF y
    <2>2. <<y>> \in Seq(Y) /\ IsInjective(<<y>>) /\ ToSet(<<y>>) = {y}
      BY <2>1, OneOrNone
    <2>3. q[i] \in Seq(Y) /\ IsInjective(q[i]) /\ ToSet(q[i]) = {y}
      BY <2>1, <2>2
    <2>4. QED BY <2>3 DEF y
  <1>9. ASSUME NEW i \in 1 .. n, NEW j \in 1 .. n, i # j
        PROVE  ToSet(q[i]) \cap ToSet(q[j]) = {}
    <2>1. way(i) # way(j)
      BY <1>5, <1>9
    <2>2. ToSet(q[i]) = {way(i)} /\ ToSet(q[j]) = {way(j)}
      BY <1>8
    <2>3. QED BY <2>1, <2>2
  <1>10. /\ FT!FlattenSeq(q) \in Seq(Y) /\ IsInjective(FT!FlattenSeq(q))
         /\ \A w : w \in ToSet(FT!FlattenSeq(q)) <=> \E i \in 1 .. n : w \in ToSet(q[i])
    BY <1>2, <1>7, <1>8, <1>9, Gathered
  <1>11. \A w : w \in ToSet(FT!FlattenSeq(q)) <=> \E i \in 1 .. n : w = way(i)
    <2>1. \A i \in 1 .. n : \A w : w \in ToSet(q[i]) <=> w = way(i)
      BY <1>8
    <2>2. QED BY <1>10, <2>1
  <1>12. Len(FT!FlattenSeq(q)) = Cardinality(ToSet(FT!FlattenSeq(q)))
    BY <1>10, OnceCounted
  <1>13. Len(FT!FlattenSeq(q)) = n
    <2>1. ASSUME NEW i \in 1 .. n
          PROVE  q[i] \in Seq(Y) /\ Len(q[i]) = 1
      <3>1. q[i] = <<way(i)>>
        BY <1>7
      <3>2. QED BY <1>8, <3>1
    <2>2. QED BY <1>2, <1>7, <2>1, MeasuredOnes
  <1>14. QED BY <1>1, <1>6, <1>11, <1>12, <1>13 DEF n

\* What makes the candidates all the shortest walks.
Complete(cands, src, dest, m) ==
  /\ ToSet(cands) # {}
  /\ \A x \in ToSet(cands) : Climbed(src, dest, x, m)
  /\ \A v : Climbed(src, dest, v, m) => \E x \in ToSet(cands) : \A i \in 1 .. m + 1 : v[i] = x[i]
  /\ \A k \in 1 .. m - 1 : \A v : ~ Climbed(src, dest, v, k)

\* Then the routes are the shortest walks, each once.
LEMMA RoutesAre ==
  ASSUME NEW src \in TreeHosts, NEW dest \in TreeHosts, NEW X, NEW cands \in Seq(X),
         IsInjective(cands), NEW m \in 1 .. 6, Wireable(cands, m), Complete(cands, src, dest, m)
  PROVE  /\ ToSet(FT!Wired(cands)) = Shortest(FT!Cables, FT!Host(src), FT!Host(dest))
         /\ ToSet(FT!Wired(cands)) # {}
         /\ Len(FT!Wired(cands)) = Cardinality(ToSet(FT!Wired(cands)))
         /\ Len(FT!Wired(cands)) = Len(cands)
  <1>1. m \in Nat \ {0}
    OBVIOUS
  <1>2. /\ Len(FT!Wired(cands)) = Cardinality(ToSet(FT!Wired(cands)))
        /\ Len(FT!Wired(cands)) = Len(cands)
        /\ \A w : w \in ToSet(FT!Wired(cands)) <=> \E x \in ToSet(cands) : w = Cabled(x, m)
    BY <1>1, WiredAre
  <1>3. /\ \A k \in 1 .. m - 1 : \A v : ~ Trail(FT!Cables, FT!Host(src), FT!Host(dest), v, k)
        /\ \E v : Trail(FT!Cables, FT!Host(src), FT!Host(dest), v, m)
    BY DEF Complete, Climbed
  <1>4. \A w : w \in Shortest(FT!Cables, FT!Host(src), FT!Host(dest))
                 <=> \E v : Climbed(src, dest, v, m) /\ w = Cabled(v, m)
    BY <1>3, ShortestAre, TreeCablesJoin DEF Climbed
  <1>5. ASSUME NEW v, Climbed(src, dest, v, m)
        PROVE  \E x \in ToSet(cands) : Cabled(v, m) = Cabled(x, m)
    <2>1. PICK x \in ToSet(cands) : \A i \in 1 .. m + 1 : v[i] = x[i]
      BY <1>5 DEF Complete
    <2>2. \A i \in 1 .. m : v[i] = x[i] /\ v[i + 1] = x[i + 1]
      <3>1. \A i \in 1 .. m : i \in 1 .. m + 1 /\ i + 1 \in 1 .. m + 1
        OBVIOUS
      <3>2. QED BY <2>1, <3>1
    <2>3. QED BY <2>2 DEF Cabled
  <1>6. \A x \in ToSet(cands) : Climbed(src, dest, x, m)
    BY DEF Complete
  <1>7. \A w : w \in ToSet(FT!Wired(cands)) <=> w \in Shortest(FT!Cables, FT!Host(src), FT!Host(dest))
    BY <1>2, <1>4, <1>5, <1>6
  <1>8. ToSet(FT!Wired(cands)) # {}
    BY <1>2 DEF Complete
  <1>9. QED BY <1>2, <1>7, <1>8

\* Every cable lies both ways.
LEMMA BothWays ==
  /\ \A i \in TreeHosts : /\ <<FT!Host(i), FT!Lower(FT!HostPodSwitch(i))>> \in FT!Cables
                          /\ <<FT!Lower(FT!HostPodSwitch(i)), FT!Host(i)>> \in FT!Cables
  /\ \A j, k \in PodSwitches : k \div Half = j \div Half
       => /\ <<FT!Lower(j), FT!Upper(k)>> \in FT!Cables /\ <<FT!Upper(k), FT!Lower(j)>> \in FT!Cables
  /\ \A k \in PodSwitches : \A x \in Cores : x \div Half = k % Half
       => /\ <<FT!Upper(k), FT!Core(x)>> \in FT!Cables /\ <<FT!Core(x), FT!Upper(k)>> \in FT!Cables
  BY TreeLaid DEF FT!Both

LEMMA ClimbedBy ==
  ASSUME NEW src \in TreeHosts, NEW dest \in TreeHosts, NEW m \in Nat \ {0}, NEW x,
         x[1] = FT!Host(src), x[m + 1] = FT!Host(dest),
         \A i \in 1 .. m : <<x[i], x[i + 1]>> \in FT!Cables,
         \A i \in 2 .. m : x[i][1] # "host"
  PROVE  Climbed(src, dest, x, m)
  <1>1. ASSUME NEW i \in 1 .. m
        PROVE  x[i + 1][1] = "host" => x[i + 1] = FT!Host(dest)
    <2>1. i + 1 = m + 1 \/ i + 1 \in 2 .. m
      OBVIOUS
    <2>2. QED BY <2>1
  <1>2. QED BY <1>1 DEF Climbed, Trail

LEMMA NotHosts ==
  ASSUME NEW i
  PROVE  FT!Lower(i)[1] # "host" /\ FT!Upper(i)[1] # "host" /\ FT!Core(i)[1] # "host"
  BY DEF FT!Lower, FT!Upper, FT!Core

\* The routes under one switch, in one pod and between two.
LEMMA TorRoutes ==
  ASSUME NEW src \in TreeHosts, NEW dest \in TreeHosts, src # dest,
         FT!HostPodSwitch(src) = FT!HostPodSwitch(dest)
  PROVE  /\ ToSet(FT!Wired(FT!IntraTor(src, dest))) = Shortest(FT!Cables, FT!Host(src), FT!Host(dest))
         /\ ToSet(FT!Wired(FT!IntraTor(src, dest))) # {}
         /\ Len(FT!Wired(FT!IntraTor(src, dest))) = Cardinality(ToSet(FT!Wired(FT!IntraTor(src, dest))))
         /\ Len(FT!Wired(FT!IntraTor(src, dest))) = 1
  <1> DEFINE a == FT!HostPodSwitch(src)
             x == <<FT!Host(src), FT!Lower(a), FT!Host(dest)>>
             cands == FT!IntraTor(src, dest)
  <1>1. cands = <<x>>
    BY DEF FT!IntraTor
  <1>2. /\ Len(x) = 2 + 1 /\ x[1] = FT!Host(src) /\ x[2] = FT!Lower(a) /\ x[2 + 1] = FT!Host(dest)
    OBVIOUS
  <1>3. 1 .. 2 = {1, 2} /\ 2 .. 2 = {2} /\ 1 .. 2 + 1 = {1, 2, 2 + 1} /\ 1 .. 2 - 1 = {1} /\ 1 + 1 = 2
        /\ 2 \in Nat \ {0} /\ 2 \in 1 .. 6
    OBVIOUS
  <1> HIDE DEF x, cands
  <1>4. cands \in Seq({x}) /\ IsInjective(cands) /\ ToSet(cands) = {x} /\ Len(cands) = 1
    BY <1>1, OneOrNone
  <1>5. \A i \in 1 .. 2 : <<x[i], x[i + 1]>> \in FT!Cables
    <2>1. <<FT!Host(src), FT!Lower(a)>> \in FT!Cables /\ <<FT!Lower(a), FT!Host(dest)>> \in FT!Cables
      BY BothWays
    <2>2. QED BY <1>2, <1>3, <2>1
  <1>6. Wireable(cands, 2)
    BY <1>2, <1>4, <1>5 DEF Wireable
  <1>7. Climbed(src, dest, x, 2)
    BY <1>2, <1>3, <1>5, NotHosts, ClimbedBy
  <1>8. ASSUME NEW v, Climbed(src, dest, v, 2), NEW i \in 1 .. 2 + 1
        PROVE  v[i] = x[i]
    <2>1. v[1] = FT!Host(src) /\ v[2] = FT!Lower(a) /\ v[2 + 1] = FT!Host(dest)
      BY <1>3, <1>8, ClimbedEnds
    <2>2. i = 1 \/ i = 2 \/ i = 2 + 1
      BY <1>3
    <2>3. QED BY <1>2, <2>1, <2>2
  <1>9. Complete(cands, src, dest, 2)
    BY <1>3, <1>4, <1>7, <1>8, ClimbedEvenly DEF Complete
  <1>10. QED BY <1>3, <1>4, <1>6, <1>9, RoutesAre DEF cands

LEMMA PodRoutes ==
  ASSUME NEW src \in TreeHosts, NEW dest \in TreeHosts,
         FT!HostPodSwitch(src) # FT!HostPodSwitch(dest), FT!HostPod(src) = FT!HostPod(dest)
  PROVE  /\ ToSet(FT!Wired(FT!IntraPod(src, dest))) = Shortest(FT!Cables, FT!Host(src), FT!Host(dest))
         /\ ToSet(FT!Wired(FT!IntraPod(src, dest))) # {}
         /\ Len(FT!Wired(FT!IntraPod(src, dest))) = Cardinality(ToSet(FT!Wired(FT!IntraPod(src, dest))))
         /\ Len(FT!Wired(FT!IntraPod(src, dest))) = Half
  <1> DEFINE a == FT!HostPodSwitch(src)
             b == FT!HostPodSwitch(dest)
             g == FT!HostPod(src)
             over(u) == <<FT!Host(src), FT!Lower(a), FT!Upper(u), FT!Lower(b), FT!Host(dest)>>
             cands == FT!IntraPod(src, dest)
  <1>1. /\ cands \in Seq({over(u) : u \in Nat}) /\ IsInjective(cands) /\ Len(cands) = Half
        /\ \A x : x \in ToSet(cands) <=> \E u \in Nat : u \div Half = g /\ x = over(u)
    BY IntraPodIs
  <1>2. ASSUME NEW u
        PROVE  /\ Len(over(u)) = 4 + 1 /\ over(u)[1] = FT!Host(src) /\ over(u)[2] = FT!Lower(a)
               /\ over(u)[3] = FT!Upper(u) /\ over(u)[4] = FT!Lower(b)
               /\ over(u)[4 + 1] = FT!Host(dest)
    OBVIOUS
  <1>3. /\ 1 .. 4 = {1, 2, 3, 4} /\ 2 .. 4 = {2, 3, 4} /\ 1 .. 4 + 1 = {1, 2, 3, 4, 4 + 1}
        /\ 1 .. 4 - 1 = {1, 2, 3} /\ 1 + 1 = 2 /\ 2 + 1 = 3 /\ 3 + 1 = 4
        /\ 4 \in Nat \ {0} /\ 4 \in 1 .. 6
    OBVIOUS
  <1>4. /\ a \in PodSwitches /\ b \in PodSwitches /\ a \div Half = g /\ b \div Half = g
        /\ g \in Nat /\ g < 2 * Half
    BY HostTreeSwitch
  <1> HIDE DEF over, cands, g
  <1>5. ASSUME NEW u \in Nat, u \div Half = g
        PROVE  u \in PodSwitches /\ \A i \in 1 .. 4 : <<over(u)[i], over(u)[i + 1]>> \in FT!Cables
    <2>1. u \in PodSwitches
      BY <1>4, <1>5, InRange
    <2>2. /\ <<FT!Host(src), FT!Lower(a)>> \in FT!Cables /\ <<FT!Lower(a), FT!Upper(u)>> \in FT!Cables
          /\ <<FT!Upper(u), FT!Lower(b)>> \in FT!Cables /\ <<FT!Lower(b), FT!Host(dest)>> \in FT!Cables
      BY <1>4, <1>5, <2>1, BothWays
    <2>3. QED BY <1>2, <1>3, <2>1, <2>2
  <1>6. ASSUME NEW u \in Nat, u \div Half = g
        PROVE  Climbed(src, dest, over(u), 4)
    <2> DEFINE x == over(u)
    <2>1. /\ x[1] = FT!Host(src) /\ x[4 + 1] = FT!Host(dest)
          /\ \A i \in 1 .. 4 : <<x[i], x[i + 1]>> \in FT!Cables
          /\ \A i \in 2 .. 4 : x[i][1] # "host"
      BY <1>2, <1>3, <1>5, <1>6, NotHosts
    <2> HIDE DEF x
    <2>2. Climbed(src, dest, x, 4)
      BY <1>3, <2>1, ClimbedBy
    <2>3. QED BY <2>2 DEF x
  <1>7. Wireable(cands, 4)
    <2>1. ASSUME NEW u, NEW w, \A i \in 1 .. 4 + 1 : over(u)[i] = over(w)[i]
          PROVE  u = w
      <3>1. over(u)[3] = over(w)[3]
        BY <1>3, <2>1
      <3>2. QED BY <1>2, <3>1, NodesDiffer
    <2>2. ASSUME NEW x \in ToSet(cands)
          PROVE  Len(x) = 4 + 1 /\ \A i \in 1 .. 4 : <<x[i], x[i + 1]>> \in FT!Cables
      <3>1. PICK u \in Nat : u \div Half = g /\ x = over(u)
        BY <1>1
      <3>2. QED BY <1>2, <1>5, <3>1
    <2>3. ASSUME NEW x \in ToSet(cands), NEW y \in ToSet(cands), \A i \in 1 .. 4 + 1 : x[i] = y[i]
          PROVE  x = y
      <3>1. PICK u, w : x = over(u) /\ y = over(w)
        BY <1>1
      <3>2. QED BY <2>1, <2>3, <3>1
    <2>4. QED BY <2>2, <2>3 DEF Wireable
  <1>8. ASSUME NEW v, Climbed(src, dest, v, 4)
        PROVE  \E x \in ToSet(cands) : \A i \in 1 .. 4 + 1 : v[i] = x[i]
    <2>1. PICK u \in PodSwitches : u \div Half = g /\ v[3] = FT!Upper(u)
      BY <1>8, ClimbedFour DEF g
    <2>2. /\ v[1] = FT!Host(src) /\ v[2] = FT!Lower(a) /\ v[4] = FT!Lower(b)
          /\ v[4 + 1] = FT!Host(dest)
      BY <1>3, <1>8, ClimbedEnds
    <2>3. \A i \in 1 .. 4 + 1 : v[i] = over(u)[i]
      BY <1>2, <1>3, <2>1, <2>2
    <2>4. u \in Nat
      BY FatSizes DEF PodSwitches
    <2>5. over(u) \in ToSet(cands)
      BY <1>1, <2>1, <2>4
    <2>6. QED BY <2>3, <2>5
  <1>9. ToSet(cands) # {}
    <2> DEFINE u == g * Half + 0
    <2>1. Half \in Nat \ {0} /\ 0 \in 0 .. Half - 1
      BY Halved
    <2>2. u \in Nat /\ u \div Half = g
      BY <1>4, <2>1, Unique
    <2> HIDE DEF u
    <2>3. over(u) \in ToSet(cands)
      BY <1>1, <2>2
    <2>4. QED BY <2>3
  <1>10. \A k \in 1 .. 4 - 1 : \A v : ~ Climbed(src, dest, v, k)
    BY <1>3, ClimbedEvenly, ClimbedTwo
  <1>11. \A x \in ToSet(cands) : Climbed(src, dest, x, 4)
    BY <1>1, <1>6
  <1>12. Complete(cands, src, dest, 4)
    BY <1>8, <1>9, <1>10, <1>11 DEF Complete
  <1>13. QED BY <1>1, <1>3, <1>7, <1>12, RoutesAre DEF cands

LEMMA FarRoutes ==
  ASSUME NEW src \in TreeHosts, NEW dest \in TreeHosts, FT!HostPod(src) # FT!HostPod(dest)
  PROVE  /\ ToSet(FT!Wired(FT!InterPod(src, dest))) = Shortest(FT!Cables, FT!Host(src), FT!Host(dest))
         /\ ToSet(FT!Wired(FT!InterPod(src, dest))) # {}
         /\ Len(FT!Wired(FT!InterPod(src, dest))) = Cardinality(ToSet(FT!Wired(FT!InterPod(src, dest))))
         /\ Len(FT!Wired(FT!InterPod(src, dest))) = Half * Half
  <1> DEFINE a == FT!HostPodSwitch(src)
             b == FT!HostPodSwitch(dest)
             g == FT!HostPod(src)
             o == FT!HostPod(dest)
             over(u, c, d) == FT!Over(src, dest, u, c, d)
             Way(u, c, d) == /\ u \in Nat /\ c \in Nat /\ d \in Nat
                             /\ u \div Half = g /\ c \div Half = u % Half
                             /\ d \div Half = o /\ c \div Half = d % Half
             cands == FT!InterPod(src, dest)
  <1>1. /\ cands \in Seq(Ways(src, dest)) /\ IsInjective(cands) /\ Len(cands) = Half * Half
        /\ \A x : x \in ToSet(cands) <=> \E u, c, d : Way(u, c, d) /\ x = over(u, c, d)
    <2>1. \A x : x \in ToSet(cands)
              <=> \E u \in Nat : /\ u \div Half = g
                                 /\ \E c \in Nat : /\ c \div Half = u % Half
                                                   /\ \E d \in Nat : /\ Down(dest, c, d)
                                                                     /\ x = over(u, c, d)
      BY InterPodIs
    <2> HIDE DEF cands, over, g
    <2>2. \A x : x \in ToSet(cands) <=> \E u, c, d : Way(u, c, d) /\ x = over(u, c, d)
      BY <2>1 DEF Down
    <2>3. QED BY <2>2, InterPodIs DEF cands
  <1>2. ASSUME NEW u, NEW c, NEW d
        PROVE  /\ Len(over(u, c, d)) = 6 + 1 /\ over(u, c, d)[1] = FT!Host(src)
               /\ over(u, c, d)[2] = FT!Lower(a) /\ over(u, c, d)[3] = FT!Upper(u)
               /\ over(u, c, d)[4] = FT!Core(c) /\ over(u, c, d)[5] = FT!Upper(d)
               /\ over(u, c, d)[6] = FT!Lower(b) /\ over(u, c, d)[6 + 1] = FT!Host(dest)
    BY DEF FT!Over
  <1>3. /\ 1 .. 6 = {1, 2, 3, 4, 5, 6} /\ 2 .. 6 = {2, 3, 4, 5, 6}
        /\ 1 .. 6 + 1 = {1, 2, 3, 4, 5, 6, 6 + 1} /\ 1 .. 6 - 1 = {1, 2, 3, 4, 5}
        /\ 1 + 1 = 2 /\ 2 + 1 = 3 /\ 3 + 1 = 4 /\ 4 + 1 = 5 /\ 5 + 1 = 6
        /\ 6 \in Nat \ {0} /\ 6 \in 1 .. 6
    OBVIOUS
  <1>4. /\ a \in PodSwitches /\ b \in PodSwitches /\ a \div Half = g /\ b \div Half = o
        /\ g \in Nat /\ g < 2 * Half /\ o \in Nat /\ o < 2 * Half
    BY HostTreeSwitch
  <1>5. a # b
    BY <1>4
  <1> HIDE DEF over, cands, g, o
  <1>6. ASSUME NEW u, NEW c, NEW d, Way(u, c, d)
        PROVE  \A i \in 1 .. 6 : <<over(u, c, d)[i], over(u, c, d)[i + 1]>> \in FT!Cables
    <2>1. u \in PodSwitches /\ d \in PodSwitches
      BY <1>4, <1>6, InRange
    <2>2. c \in Cores
      <3>1. u % Half < Half
        BY <1>6, Halved
      <3>2. QED BY <1>6, <3>1, InRange
    <2>3. /\ <<FT!Host(src), FT!Lower(a)>> \in FT!Cables /\ <<FT!Lower(a), FT!Upper(u)>> \in FT!Cables
          /\ <<FT!Upper(u), FT!Core(c)>> \in FT!Cables /\ <<FT!Core(c), FT!Upper(d)>> \in FT!Cables
          /\ <<FT!Upper(d), FT!Lower(b)>> \in FT!Cables /\ <<FT!Lower(b), FT!Host(dest)>> \in FT!Cables
      BY <1>4, <1>6, <2>1, <2>2, BothWays
    <2> HIDE DEF Way
    <2>4. QED BY <1>2, <1>3, <2>3
  <1>7. ASSUME NEW u, NEW c, NEW d, Way(u, c, d)
        PROVE  Climbed(src, dest, over(u, c, d), 6)
    <2> DEFINE x == over(u, c, d)
    <2>1. /\ x[1] = FT!Host(src) /\ x[6 + 1] = FT!Host(dest)
          /\ \A i \in 2 .. 6 : x[i][1] # "host"
      <3> HIDE DEF Way
      <3>1. QED BY <1>2, <1>3, NotHosts
    <2>2. \A i \in 1 .. 6 : <<x[i], x[i + 1]>> \in FT!Cables
      BY <1>6, <1>7
    <2> HIDE DEF x
    <2>3. Climbed(src, dest, x, 6)
      BY <1>3, <2>1, <2>2, ClimbedBy
    <2>4. QED BY <2>3 DEF x
  <1>8. ASSUME NEW v, Climbed(src, dest, v, 6)
        PROVE  \E x \in ToSet(cands) : \A i \in 1 .. 6 + 1 : v[i] = x[i]
    <2>1. PICK u \in PodSwitches : \E d \in PodSwitches : \E c \in Cores :
            /\ u \div Half = g /\ d \div Half = o
            /\ c \div Half = u % Half /\ c \div Half = d % Half
            /\ v[3] = FT!Upper(u) /\ v[4] = FT!Core(c) /\ v[5] = FT!Upper(d)
      BY <1>8, ClimbedSix DEF g, o
    <2>2. PICK d \in PodSwitches : \E c \in Cores :
            /\ u \div Half = g /\ d \div Half = o
            /\ c \div Half = u % Half /\ c \div Half = d % Half
            /\ v[3] = FT!Upper(u) /\ v[4] = FT!Core(c) /\ v[5] = FT!Upper(d)
      BY <2>1
    <2>3. PICK c \in Cores :
            /\ u \div Half = g /\ d \div Half = o
            /\ c \div Half = u % Half /\ c \div Half = d % Half
            /\ v[3] = FT!Upper(u) /\ v[4] = FT!Core(c) /\ v[5] = FT!Upper(d)
      BY <2>2
    <2>4. /\ v[1] = FT!Host(src) /\ v[2] = FT!Lower(a) /\ v[6] = FT!Lower(b)
          /\ v[6 + 1] = FT!Host(dest)
      BY <1>3, <1>8, ClimbedEnds
    <2>5. \A i \in 1 .. 6 + 1 : v[i] = over(u, c, d)[i]
      BY <1>2, <1>3, <2>3, <2>4
    <2>6. u \in Nat /\ d \in Nat /\ c \in Nat
      BY FatSizes DEF PodSwitches, Cores
    <2>7. Way(u, c, d)
      BY <2>3, <2>6
    <2> HIDE DEF Way
    <2>8. over(u, c, d) \in ToSet(cands)
      BY <1>1, <2>7
    <2>9. QED BY <2>5, <2>8
  <1>9. \E u, c, d : Way(u, c, d)
    <2> DEFINE u == g * Half + 0
               d == o * Half + 0
    <2>1. Half \in Nat \ {0} /\ 0 \in 0 .. Half - 1
      BY Halved
    <2>2. u \in Nat /\ u \div Half = g /\ u % Half = 0
      BY <1>4, <2>1, Unique
    <2>3. d \in Nat /\ d \div Half = o /\ d % Half = 0
      BY <1>4, <2>1, Unique
    <2>4. 0 \div Half = 0 /\ 0 \in Nat
      BY <2>1
    <2> HIDE DEF u, d
    <2>5. Way(u, 0, d)
      BY <2>2, <2>3, <2>4
    <2> HIDE DEF Way
    <2>6. QED BY <2>5
  <1> HIDE DEF Way
  <1>10. ToSet(cands) # {}
    BY <1>1, <1>9
  <1>11. Wireable(cands, 6)
    <2>1. ASSUME NEW x \in ToSet(cands)
          PROVE  Len(x) = 6 + 1 /\ \A i \in 1 .. 6 : <<x[i], x[i + 1]>> \in FT!Cables
      <3>1. PICK u, c, d : Way(u, c, d) /\ x = over(u, c, d)
        BY <1>1
      <3>2. QED BY <1>2, <1>6, <3>1
    <2>2. ASSUME NEW x \in ToSet(cands), NEW y \in ToSet(cands), \A i \in 1 .. 6 + 1 : x[i] = y[i]
          PROVE  x = y
      <3>1. PICK u, c, d : x = over(u, c, d)
        BY <1>1
      <3>2. PICK u2, c2, d2 : y = over(u2, c2, d2)
        BY <1>1
      <3>3. x[3] = y[3] /\ x[4] = y[4] /\ x[5] = y[5]
        BY <1>3, <2>2
      <3>4. u = u2 /\ c = c2 /\ d = d2
        BY <1>2, <3>1, <3>2, <3>3, NodesDiffer
      <3>5. QED BY <3>1, <3>2, <3>4
    <2>3. QED BY <2>1, <2>2 DEF Wireable
  <1>12. \A k \in 1 .. 6 - 1 : \A v : ~ Climbed(src, dest, v, k)
    <2>1. \A v : ~ Climbed(src, dest, v, 2)
      BY <1>5, ClimbedTwo
    <2>2. \A v : ~ Climbed(src, dest, v, 4)
      BY <1>5, ClimbedFour
    <2>3. QED BY <1>3, <2>1, <2>2, ClimbedEvenly
  <1>13. \A x \in ToSet(cands) : Climbed(src, dest, x, 6)
    BY <1>1, <1>7
  <1>14. Complete(cands, src, dest, 6)
    BY <1>8, <1>10, <1>12, <1>13 DEF Complete
  <1>15. QED BY <1>1, <1>3, <1>11, <1>14, RoutesAre DEF cands

(***************************************************************************)
(* Any two hosts of the fat tree are offered every shortest walk over its  *)
(* cables, once each: one under their switch, K/2 in their pod and (K/2)^2 *)
(* between pods (oversubscribed_fat_tree_topology.py:290-352).             *)
(***************************************************************************)
THEOREM FatTreeOffersAll ==
  ASSUME NEW src \in TreeHosts, NEW dest \in TreeHosts, src # dest
  PROVE  /\ ToSet(FT!Paths(src, dest)) = Shortest(FT!Cables, FT!Host(src), FT!Host(dest))
         /\ FT!Paths(src, dest) # << >>
         /\ Len(FT!Paths(src, dest)) = Cardinality(ToSet(FT!Paths(src, dest)))
         /\ Len(FT!Paths(src, dest))
              = IF FT!HostPodSwitch(src) = FT!HostPodSwitch(dest) THEN 1
                ELSE IF FT!HostPod(src) = FT!HostPod(dest) THEN Half ELSE Half * Half
  <1>0. ToSet(<< >>) = {}
    BY DEF ToSet
  <1>1. ~ (src = dest \/ src >= FT!NSrv \/ dest >= FT!NSrv)
    BY FatSizes DEF TreeHosts
  <1>2. CASE FT!HostPodSwitch(src) = FT!HostPodSwitch(dest)
    <2>1. FT!Paths(src, dest) = FT!Wired(FT!IntraTor(src, dest))
      BY <1>1, <1>2 DEF FT!Paths
    <2>2. QED BY <1>0, <1>2, <2>1, TorRoutes
  <1>3. CASE FT!HostPodSwitch(src) # FT!HostPodSwitch(dest) /\ FT!HostPod(src) = FT!HostPod(dest)
    <2>1. FT!Paths(src, dest) = FT!Wired(FT!IntraPod(src, dest))
      BY <1>1, <1>3 DEF FT!Paths
    <2>2. QED BY <1>0, <1>3, <2>1, PodRoutes
  <1>4. CASE FT!HostPodSwitch(src) # FT!HostPodSwitch(dest) /\ FT!HostPod(src) # FT!HostPod(dest)
    <2>1. FT!Paths(src, dest) = FT!Wired(FT!InterPod(src, dest))
      BY <1>1, <1>4 DEF FT!Paths
    <2>2. QED BY <1>0, <1>4, <2>1, FarRoutes
  <1>5. QED BY <1>2, <1>3, <1>4

(***************************************************************************)
(* Any two hosts of the dragonfly are offered the one shortest walk that   *)
(* visits no third group (dragon_fly_topology.py:232-248, 448-453).        *)
(***************************************************************************)
THEOREM DragonFlyOffersAll ==
  ASSUME NEW src \in Hosts, NEW dest \in Hosts, src # dest
  PROVE  /\ ToSet(DF!Paths(src, dest)) = Shortest(Between(src, dest), DF!Host(src), DF!Host(dest))
         /\ Len(DF!Paths(src, dest)) = 1
         /\ Len(DF!Paths(src, dest)) = Cardinality(ToSet(DF!Paths(src, dest)))
  <1> DEFINE r == DF!Along(DF!NodesBetween(src, dest))
  <1>1. /\ DF!Paths(src, dest) = <<r>>
        /\ Shortest(Between(src, dest), DF!Host(src), DF!Host(dest)) = {r}
    BY DragonFlyRoute
  <1> HIDE DEF r
  <1>2. ToSet(<<r>>) = {r} /\ Len(<<r>>) = 1 /\ Cardinality({r}) = 1
    BY OneOrNone, FS_Singleton
  <1>3. QED BY <1>1, <1>2

\* What a topology of the two gives for two of its hosts.
LEMMA OfNetwork ==
  ASSUME NEW paths \in NetPaths, NEW pair \in DOMAIN paths
  PROVE  \/ /\ paths = FatTreePaths /\ pair \in FatTreePairs
            /\ paths[pair] = FT!Paths(pair[1], pair[2])
            /\ pair[1] \in TreeHosts /\ pair[2] \in TreeHosts /\ pair[1] # pair[2]
         \/ /\ paths = DragonFlyPaths /\ pair \in DragonFlyPairs
            /\ paths[pair] = DF!Paths(pair[1], pair[2])
            /\ pair[1] \in Hosts /\ pair[2] \in Hosts /\ pair[1] # pair[2]
  <1>1. paths = FatTreePaths \/ paths = DragonFlyPaths
    BY NetPathsAssumption DEF MCNetPaths
  <1>2. CASE paths = FatTreePaths
    <2>1. pair \in FatTreePairs /\ paths[pair] = FT!Paths(pair[1], pair[2])
      BY <1>2 DEF FatTreePaths
    <2>2. pair[1] \in TreeHosts /\ pair[2] \in TreeHosts /\ pair[1] # pair[2]
      BY <2>1, PairsAssumption DEF Pairs, TreeHosts
    <2>3. QED BY <1>2, <2>1, <2>2
  <1>3. CASE paths = DragonFlyPaths
    <2>1. pair \in DragonFlyPairs /\ paths[pair] = DF!Paths(pair[1], pair[2])
      BY <1>3 DEF DragonFlyPaths
    <2>2. pair[1] \in Hosts /\ pair[2] \in Hosts /\ pair[1] # pair[2]
      BY <2>1, PairsAssumption DEF Pairs, Hosts
    <2>3. QED BY <1>3, <2>1, <2>2
  <1>4. QED BY <1>1, <1>2, <1>3

(***************************************************************************)
(* Every flow is offered the shortest walks over the cables of its network *)
(* and nothing else, once each: what builds the paths and what lays the    *)
(* cables agree, for every size of the two topologies.                     *)
(***************************************************************************)
THEOREM EveryRouteIsOffered == Spec => []AllRoutes
  <1>1. FInv => AllRoutes
    <2> SUFFICES ASSUME FInv, NEW i \in DOMAIN flow_counters
                 PROVE  LET pair == flow_counters[i].pair
                            routes == IF net_paths = FatTreePaths THEN FatTreeRoutes[pair]
                                      ELSE DragonFlyRoutes[pair]
                        IN  /\ ToSet(net_paths[pair]) = routes
                            /\ Len(net_paths[pair]) = Cardinality(routes)
      BY DEF AllRoutes
    <2> DEFINE pair == flow_counters[i].pair
    <2>1. pair \in DOMAIN net_paths /\ net_paths \in NetPaths
      <3>1. flow_counters[i] \in Entry /\ net_paths \in NetPaths
        BY DEF FInv
      <3>2. QED BY <3>1 DEF Entry
    <2> HIDE DEF pair
    <2>2. CASE net_paths = FatTreePaths
      <3>1. /\ pair \in FatTreePairs /\ net_paths[pair] = FT!Paths(pair[1], pair[2])
            /\ pair[1] \in TreeHosts /\ pair[2] \in TreeHosts /\ pair[1] # pair[2]
        <4>1. pair \in FatTreePairs /\ net_paths[pair] = FT!Paths(pair[1], pair[2])
          BY <2>1, <2>2 DEF FatTreePaths
        <4>2. QED BY <4>1, PairsAssumption DEF Pairs, TreeHosts
      <3>2. FatTreeRoutes[pair] = Shortest(FT!Cables, FT!Host(pair[1]), FT!Host(pair[2]))
        BY <3>1 DEF FatTreeRoutes
      <3>3. QED BY <2>2, <3>1, <3>2, FatTreeOffersAll DEF pair
    <2>3. CASE net_paths # FatTreePaths
      <3>1. /\ pair \in DragonFlyPairs /\ net_paths[pair] = DF!Paths(pair[1], pair[2])
            /\ pair[1] \in Hosts /\ pair[2] \in Hosts /\ pair[1] # pair[2]
        BY <2>1, <2>3, OfNetwork
      <3>2. DragonFlyRoutes[pair] = Shortest(Between(pair[1], pair[2]), DF!Host(pair[1]), DF!Host(pair[2]))
        BY <3>1 DEF DragonFlyRoutes
      <3>3. QED BY <2>3, <3>1, <3>2, DragonFlyOffersAll DEF pair
    <2>4. QED BY <2>2, <2>3
  <1>2. QED BY <1>1, FAlways, PTL

\* Every scan places each flow that has moved enough, for both topologies have
\* routes for all pairs of hosts (firstfit.py:123-132).
THEOREM BusyFlowsArePlaced == Spec => BusyPlaced
  <1>1. Routed
    <2> SUFFICES ASSUME NEW paths \in NetPaths, NEW pair \in DOMAIN paths
                 PROVE  paths[pair] # << >>
      BY DEF Routed
    <2>1. Len(<< >>) = 0
      OBVIOUS
    <2>2. QED BY <2>1, OfNetwork, FatTreeOffersAll, DragonFlyOffersAll
  <1>2. QED BY <1>1, BusyIfRouted
==============================================================================
