------------------------------ MODULE DelayLine ------------------------------
(***************************************************************************)
(* What a link promises: its transmitter sends one packet after the other, *)
(* each for as long as its size asks, and the wire then delays it.  So the *)
(* moment a packet leaves is settled when it enters, packets leave in the  *)
(* order they entered, and each leaves once.  A wire without a transmitter *)
(* (core/pipe.py: "simply delays all incoming packets") has Drain = 0.     *)
(***************************************************************************)
EXTENDS Naturals, SequencesExt

CONSTANTS
  Packet,
  Drain,   \* how long the transmitter needs for each packet
  Delay    \* how long the wire delays it

VARIABLE line   \* the packets under way, [pkt, left], in the order they entered

Init == line = << >>

\* How long the transmitter is still busy with what entered before.
Backlog == IF line = << >> \/ Last(line).left < Delay THEN 0
           ELSE Last(line).left - Delay

Enter(p) ==
  line' = Append(line, [pkt |-> p, left |-> Backlog + Drain[p] + Delay])

\* Time passes, but never past the moment a packet is due.
Tick ==
  /\ \A i \in DOMAIN line : line[i].left > 0
  /\ line' = [i \in DOMAIN line |-> [line[i] EXCEPT !.left = @ - 1]]

Leave ==
  /\ line # << >>
  /\ Head(line).left = 0
  /\ line' = Tail(line)

Next == (\E p \in Packet : Enter(p)) \/ Tick \/ Leave

Spec == Init /\ [][Next]_line
==============================================================================
