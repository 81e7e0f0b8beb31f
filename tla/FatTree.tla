------------------------------- MODULE FatTree -------------------------------
(***************************************************************************)
(* datacenter/oversubscribed_fat_tree_topology.py: the cables that         *)
(* init_network lays and the paths get_bidir_paths offers over them.  A    *)
(* cable, a queue and its pipe, is the pair of nodes it joins; a route is  *)
(* the sequence of its cables.  Queues, pipes and hosts are left out.      *)
(***************************************************************************)
EXTENDS Naturals, SequencesExt

CONSTANT K  \* _k, the ports of a switch, an even number

NK == (K * K) \div 2    \* _nk, the upper, and as many lower, pod switches
NC == (K * K) \div 4    \* _nc, the core switches
NSrv == K * K * K     \* _nsrv, the hosts

Host(i) == <<"host", i>>
Lower(i) == <<"lower", i>>
Upper(i) == <<"upper", i>>
Core(i) == <<"core", i>>

HostPodSwitch(src) == src \div (2 * K)
HostPod(src) == src \div (K * K)
MinPodId(pod) == (pod * K) \div 2
MaxPodId(pod) == ((pod + 1) * K) \div 2 - 1

\* A slip the checks must notice: the cores of an upper switch taken by turns, as
\* fat_tree_topology.py does it, while they are cabled in a row.
CoreInTurn(up, l) == (l * K) \div 2 + (up % (K \div 2))
------------------------------------------------------------------------------
\* A cable each way.
Both(a, b) == {<<a, b>>, <<b, a>>}

\* The l-th core switch above an upper pod switch.
CoreAbove(up, l) == ((up % (K \div 2)) * K) \div 2 + l

HostCables ==
  UNION {Both(Lower(j), Host(j * 2 * K + l)) : j \in 0 .. NK - 1, l \in 0 .. 2 * K - 1}

PodCables ==
  UNION {UNION {Both(Upper(k), Lower(j)) : k \in MinPodId((2 * j) \div K) .. MaxPodId((2 * j) \div K)}
           : j \in 0 .. NK - 1}

CoreCables ==
  UNION {Both(Upper(j), Core(((j % (K \div 2)) * K) \div 2 + l))
           : j \in 0 .. NK - 1, l \in 0 .. K \div 2 - 1}

Cables == HostCables \cup PodCables \cup CoreCables
------------------------------------------------------------------------------
\* The cables a packet takes from node to node.
Along(nodes) == [i \in 1 .. Len(nodes) - 1 |-> <<nodes[i], nodes[i + 1]>>]

\* The routes of all the candidates that are wired, in the order given.
Wired(candidates) ==
  FlattenSeq([i \in DOMAIN candidates |->
    LET route == Along(candidates[i])
    IN  IF ToSet(route) \subseteq Cables THEN <<route>> ELSE << >>])

\* range(lo, hi + 1).
Upwards(lo, hi) == [i \in 1 .. hi - lo + 1 |-> lo + i - 1]

\* The upper switches of a pod.
UppersOf(pod) == Upwards(MinPodId(pod), MaxPodId(pod))

IntraTor(src, dest) == << <<Host(src), Lower(HostPodSwitch(src)), Host(dest)>> >>

IntraPod(src, dest) ==
  LET ups == UppersOf(HostPod(src))
  IN  [i \in DOMAIN ups |->
         <<Host(src), Lower(HostPodSwitch(src)), Upper(ups[i]),
           Lower(HostPodSwitch(dest)), Host(dest)>>]

\* The core switches that an upper switch is looked for under.
CoresAbove(up) == CoreAbove(up, 0) .. CoreAbove(up, 0) + K \div 2 - 1

Over(src, dest, up, core, down) ==
  <<Host(src), Lower(HostPodSwitch(src)), Upper(up), Core(core), Upper(down),
    Lower(HostPodSwitch(dest)), Host(dest)>>

\* The candidates by way of a core switch, by way of an upper switch, and all.
ByCore(src, dest, up, core) ==
  LET downs == UppersOf(HostPod(dest))
  IN  FlattenSeq([i \in DOMAIN downs |->
        IF core \in CoresAbove(downs[i]) THEN <<Over(src, dest, up, core, downs[i])>> ELSE << >>])

ByUpper(src, dest, up) ==
  FlattenSeq([l \in 1 .. K \div 2 |-> ByCore(src, dest, up, CoreAbove(up, l - 1))])

\* No upper switch of a pod is beyond _nk and no core above it beyond _nc, so that
\* the loops skip none.
InterPod(src, dest) ==
  LET ups == UppersOf(HostPod(src))
  IN  FlattenSeq([i \in DOMAIN ups |-> ByUpper(src, dest, ups[i])])

\* get_bidir_paths, forwards.
Paths(src, dest) ==
  IF src = dest \/ src >= NSrv \/ dest >= NSrv THEN << >>
  ELSE IF HostPodSwitch(src) = HostPodSwitch(dest) THEN Wired(IntraTor(src, dest))
  ELSE IF HostPod(src) = HostPod(dest) THEN Wired(IntraPod(src, dest))
  ELSE Wired(InterPod(src, dest))
==============================================================================
