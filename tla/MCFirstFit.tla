------------------------------ MODULE MCFirstFit ------------------------------
(***************************************************************************)
(* Flows on a fat tree of 64 hosts and on a dragonfly of 20, between hosts *)
(* of one pod or group, and of two.                                        *)
(***************************************************************************)
EXTENDS FirstFit, TLC

CONSTANTS K, P, A, H, FatTreePairs, DragonFlyPairs

ASSUME FatTreeAssumption == K \in Nat /\ K > 0 /\ K % 2 = 0
ASSUME DragonFlyAssumption == {P, A, H} \subseteq Nat \ {0}

FT == INSTANCE FatTree
DF == INSTANCE DragonFly

MCFatTreePairs == {<<0, 9>>, <<0, 63>>, <<2, 61>>}
MCDragonFlyPairs == {<<0, 3>>, <<1, 19>>, <<18, 5>>}

FatTreePaths == [pair \in FatTreePairs |-> FT!Paths(pair[1], pair[2])]
DragonFlyPaths == [pair \in DragonFlyPairs |-> DF!Paths(pair[1], pair[2])]

MCNetPaths == {FatTreePaths, DragonFlyPaths}

\* Two hosts of a network of n.
Pairs(n) == {pair \in (0 .. n - 1) \X (0 .. n - 1) : pair[1] # pair[2]}

ASSUME PairsAssumption == FatTreePairs \subseteq Pairs(FT!NSrv) /\ DragonFlyPairs \subseteq Pairs(DF!Nodes)
ASSUME NetPathsAssumption == NetPaths = MCNetPaths
------------------------------------------------------------------------------
\* The cables from a node that end in no host but the one wanted.
Onwards(cables, node, to) == {c \in cables : c[1] = node /\ (c[2][1] = "host" => c[2] = to)}

\* The walks of n cables from a node towards a host.
Walks(cables, from, to) ==
  LET w[n \in 1 .. 6] ==
        IF n = 1 THEN {<<c>> : c \in Onwards(cables, from, to)}
        ELSE UNION {{Append(walk, c) : c \in Onwards(cables, Last(walk)[2], to)} : walk \in w[n - 1]}
  IN  w

Shortest(cables, from, to) ==
  LET there == [n \in 1 .. 6 |-> {walk \in Walks(cables, from, to)[n] : Last(walk)[2] = to}]
      least == Min({n \in 1 .. 6 : there[n] # {}})
  IN  there[least]

\* The cables between nodes of the groups of two hosts.
Between(src, dest) ==
  LET groups == {DF!HostGroup(src), DF!HostGroup(dest)}
      group(node) == IF node[1] = "host" THEN DF!HostGroup(node[2]) ELSE node[2] \div A
  IN  {c \in DF!Cables : group(c[1]) \in groups /\ group(c[2]) \in groups}

FatTreeRoutes ==
  [pair \in FatTreePairs |-> Shortest(FT!Cables, FT!Host(pair[1]), FT!Host(pair[2]))]
DragonFlyRoutes ==
  [pair \in DragonFlyPairs |->
     Shortest(Between(pair[1], pair[2]), DF!Host(pair[1]), DF!Host(pair[2]))]

\* What builds the paths and what lays the cables agree: a flow is offered every
\* shortest walk over the cables, in the dragonfly those that visit no third
\* group, once each, and nothing else.  A path over a cable that was not laid is
\* left out by the code without a word
\* (oversubscribed_fat_tree_topology.py:199-206, 331-348; dragon_fly_topology.py:232-248, 448-453).
AllRoutes ==
  \A i \in DOMAIN flow_counters :
    LET pair == flow_counters[i].pair
        routes == IF net_paths = FatTreePaths THEN FatTreeRoutes[pair] ELSE DragonFlyRoutes[pair]
    IN  /\ ToSet(net_paths[pair]) = routes
        /\ Len(net_paths[pair]) = Cardinality(routes)
==============================================================================
