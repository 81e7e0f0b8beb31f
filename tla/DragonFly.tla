------------------------------ MODULE DragonFly ------------------------------
(***************************************************************************)
(* datacenter/dragon_fly_topology.py: P hosts on a router, A routers in a  *)
(* group, all joined, and H cables from each router to other groups.  A    *)
(* cable, a queue and its pipe, is the pair of nodes it joins; a route is  *)
(* the sequence of its cables.                                             *)
(***************************************************************************)
EXTENDS Naturals, SequencesExt

CONSTANTS P, A, H  \* _p, _a, _h

Groups == A * H + 1         \* _no_of_groups
Switches == Groups * A      \* _no_of_switches
Nodes == Switches * P       \* _no_of_nodes

Host(i) == <<"host", i>>
Switch(i) == <<"switch", i>>

HostTor(host) == host \div P
HostGroup(host) == host \div (A * P)

\* A slip the checks must notice: the group counts itself among the others when the
\* router that leads to one of them is looked for.
GatewayCountingItself(group, other) == group * A + other \div H
------------------------------------------------------------------------------
Both(a, b) == {<<a, b>>, <<b, a>>}

HostCables == UNION {Both(Switch(j), Host(j * P + l)) : j \in 0 .. Switches - 1, l \in 0 .. P - 1}

\* The routers of a group are joined in pairs.
GroupCables ==
  UNION {UNION {Both(Switch(j), Switch(k)) : k \in j + 1 .. (j \div A + 1) * A - 1}
           : j \in 0 .. Switches - 1}

\* The group at the far end of the l-th long cable of router j.  Its own group is
\* left out of the count, and only the cables to later groups are laid from here.
Target(j, l) == (j % A) * H + l + 1

GroupTargets(j) == {t \in {Target(j, l) : l \in 0 .. H - 1} : t > j \div A /\ t < Groups}

LongCables ==
  UNION {UNION {Both(Switch(j), Switch(t * A + (j \div A) \div H)) : t \in GroupTargets(j)}
           : j \in 0 .. Switches - 1}

Cables == HostCables \cup GroupCables \cup LongCables
------------------------------------------------------------------------------
\* The router of a group that leads to another group.
Gateway(group, other) ==
  group * A + (IF group < other THEN other - 1 ELSE other) \div H

Along(nodes) == [i \in 1 .. Len(nodes) - 1 |-> <<nodes[i], nodes[i + 1]>>]

\* The router of the source, where the group is left and the other entered, and
\* the router of the destination: those that are the same are one.
ThroughGroups(src, dest) ==
  LET gs == HostGroup(src)  gd == HostGroup(dest)
      from == Switch(HostTor(src))  exit == Switch(Gateway(gs, gd))
      entry == Switch(Gateway(gd, gs))  to == Switch(HostTor(dest))
  IN  <<Host(src), from>> \o (IF exit = from THEN << >> ELSE <<exit>>) \o <<entry>>
      \o (IF entry = to THEN << >> ELSE <<to>>) \o <<Host(dest)>>

NodesBetween(src, dest) ==
  IF HostTor(src) = HostTor(dest) THEN <<Host(src), Switch(HostTor(src)), Host(dest)>>
  ELSE IF HostGroup(src) = HostGroup(dest)
  THEN <<Host(src), Switch(HostTor(src)), Switch(HostTor(dest)), Host(dest)>>
  ELSE ThroughGroups(src, dest)

\* get_bidir_paths, forwards: one route, and none by way of a third group, for
\* _build_indirect_route builds nothing.
Paths(src, dest) ==
  LET route == Along(NodesBetween(src, dest))
  IN  IF src # dest /\ src < Nodes /\ dest < Nodes /\ ToSet(route) \subseteq Cables
      THEN <<route>> ELSE << >>
==============================================================================
