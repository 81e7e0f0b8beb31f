--------------------------- MODULE SysEventsProofs ---------------------------
(***************************************************************************)
(* Every tick with events has its one CallEvents task, for any events, any *)
(* delays and any callers of system/sys.py.                                *)
(***************************************************************************)
EXTENDS SysCallers, Sums

\* The inductive invariant: a walk is of a list that is still there, and outside
\* of a walk there is no copy.
Inv ==
  /\ EventsTypeOK
  /\ calling => event_queue[0] # << >>
  /\ ~ calling => batch = << >>
  /\ Woken

\* The first event is called with nothing filed.
LEMMA InvInit == EventsInit => Inv
  BY EventsAssumption DEF EventsInit, Inv, EventsTypeOK, Woken, Cycles

\* Filing an event keeps the tasks right, even in the tick being walked.
LEMMA RegisterKeepsInv ==
  ASSUME Inv, NEW e \in Event, NEW c \in Cycles, Register(e, c),
         called' \in Event \cup {None}
  PROVE  Inv'
  <1> USE DEF Inv
  <1>1. /\ event_queue' = [event_queue EXCEPT ![c] = Append(event_queue[c], e)]
        /\ event_queue \in [Cycles -> Seq(Event)]
        /\ calling' = calling /\ batch' = batch
    BY DEF Register, EventsTypeOK
  <1>2. /\ Append(event_queue[c], e) \in Seq(Event)
        /\ Append(event_queue[c], e) # << >>
    BY <1>1
  <1>3. EventsTypeOK'
    <2>1. event_queue' \in [Cycles -> Seq(Event)]
      BY <1>1, <1>2
    <2>2. call_list' \in [Cycles -> Nat] /\ pending_events' \in Int
      BY DEF Register, EventsTypeOK
    <2>3. QED BY <2>1, <2>2, <1>1 DEF EventsTypeOK
  <1>4. 0 \in Cycles
    BY EventsAssumption DEF Cycles
  <1>5. calling' => event_queue'[0] # << >>
    BY <1>1, <1>2, <1>4
  <1>6. ASSUME NEW d \in Cycles
        PROVE  call_list'[d] = IF event_queue'[d] = << >> \/ (calling' /\ d = 0)
                               THEN 0 ELSE 1
    <2>1. call_list[d] = IF event_queue[d] = << >> \/ (calling /\ d = 0) THEN 0 ELSE 1
      BY DEF Woken
    <2>2. call_list' = [call_list EXCEPT ![c] = IF event_queue[c] = << >>
                                                THEN call_list[c] + 1 ELSE call_list[c]]
      BY DEF Register, NeedsTask
    <2>3. call_list \in [Cycles -> Nat]
      BY DEF EventsTypeOK
    <2>4. CASE d # c
      BY <2>1, <2>2, <2>3, <2>4, <1>1
    <2>5. CASE d = c
      <3>1. event_queue'[d] # << >>
        BY <2>5, <1>1, <1>2
      <3>2. CASE event_queue[c] = << >>
        <4>1. call_list'[d] = 0 + 1
          BY <2>1, <2>2, <2>3, <2>5, <3>2
        <4>2. ~ (calling /\ d = 0)
          BY <2>5, <3>2
        <4>3. QED BY <3>1, <4>1, <4>2, <1>1
      <3>3. CASE event_queue[c] # << >>
        <4>1. call_list'[d] = call_list[d]
          BY <2>2, <2>3, <2>5, <3>3
        <4>2. QED BY <3>1, <4>1, <2>1, <2>5, <3>3, <1>1
      <3>4. QED BY <3>2, <3>3
    <2>6. QED BY <2>4, <2>5
  <1>7. Woken'
    BY <1>6 DEF Woken
  <1>8. ~ calling' => batch' = << >>
    BY <1>1
  <1>9. QED BY <1>3, <1>5, <1>7, <1>8

\* Taking the next task moves every list and its task alike, and the task it
\* takes is the one of the list it walks.
LEMMA RunKeepsInv ==
  ASSUME Inv, Run
  PROVE  Inv'
  <1> USE DEF Inv
  <1> DEFINE t == Popped(Due)
  <1>1. t \in Due /\ t \in Cycles /\ call_list[t] > 0
    <2>1. Due \in SUBSET Nat /\ Due # {}
      BY EventsAssumption DEF Due, Cycles, Run
    <2>2. QED BY <2>1, MinIsMember DEF Due, Popped
  <1>2. /\ ~ calling
        /\ event_queue' = [c \in Cycles |-> IF c + t \in Cycles THEN event_queue[c + t] ELSE << >>]
        /\ call_list' = [c \in Cycles |->
                           IF c = 0 THEN (IF c + t \in Cycles THEN call_list[c + t] ELSE 0) - 1
                           ELSE IF c + t \in Cycles THEN call_list[c + t] ELSE 0]
        /\ calling' = (event_queue[t] # << >>)
        /\ batch' = event_queue[t]
        /\ pending_events' = pending_events
        /\ called' = called
    BY DEF Run
  <1> HIDE DEF t
  <1>3. /\ event_queue \in [Cycles -> Seq(Event)] /\ call_list \in [Cycles -> Nat]
        /\ \A c \in Cycles : c \in Nat
        /\ 0 \in Cycles /\ t \in Nat
    BY <1>1, EventsAssumption DEF EventsTypeOK, Cycles
  <1>4. ASSUME NEW c \in Cycles
        PROVE  call_list[c] = IF event_queue[c] = << >> THEN 0 ELSE 1
    BY <1>2 DEF Woken
  <1>5. event_queue[t] # << >> /\ call_list[t] = 1
    BY <1>1, <1>3, <1>4
  <1>6. event_queue'[0] = event_queue[t] /\ call_list'[0] = 0 /\ calling'
    <2>1. 0 + t = t
      BY <1>3
    <2>2. event_queue'[0] = event_queue[t]
      BY <1>1, <1>2, <1>3, <2>1
    <2>3. call_list'[0] = call_list[t] - 1
      BY <1>1, <1>2, <1>3, <2>1
    <2>4. call_list'[0] = 0
      BY <2>3, <1>5
    <2>5. calling' = TRUE
      BY <1>2, <1>5
    <2>6. QED BY <2>2, <2>4, <2>5
  <1>7. ASSUME NEW c \in Cycles, c # 0
        PROVE  /\ call_list'[c] = IF event_queue'[c] = << >> THEN 0 ELSE 1
               /\ call_list'[c] \in Nat
    <2>1. CASE c + t \in Cycles
      <3>1. event_queue'[c] = event_queue[c + t] /\ call_list'[c] = call_list[c + t]
        BY <1>2, <1>7, <2>1
      <3>2. QED BY <3>1, <2>1, <1>4
    <2>2. CASE c + t \notin Cycles
      BY <1>2, <1>7, <2>2
    <2>3. QED BY <2>1, <2>2
  <1>8. Woken'
    BY <1>6, <1>7 DEF Woken
  <1>9. EventsTypeOK'
    <2>1. event_queue' \in [Cycles -> Seq(Event)]
      BY <1>2, <1>3
    <2>2. call_list' \in [Cycles -> Nat]
      <3>1. \A c \in Cycles : call_list'[c] \in Nat
        BY <1>6, <1>7
      <3>2. QED BY <1>2, <3>1
    <2>3. batch' \in Seq(Event) /\ calling' \in BOOLEAN
      BY <1>1, <1>2, <1>3
    <2>4. QED BY <2>1, <2>2, <2>3, <1>2 DEF EventsTypeOK
  <1>10. QED BY <1>5, <1>6, <1>8, <1>9

\* Calling an event, its return and the end of a walk.
LEMMA CallKeepsInv ==
  ASSUME Inv, CallNext \/ Return
  PROVE  Inv'
  <1>1. /\ UNCHANGED <<event_queue, call_list, calling>>
        /\ batch' \in Seq(Event) /\ called' \in Event \cup {None}
        /\ pending_events' \in Int
        /\ ~ calling' => batch' = << >>
    <2>1. CASE CallNext
      <3>1. batch \in Seq(Event) /\ batch # << >> /\ pending_events \in Int
        BY <2>1 DEF CallNext, Inv, EventsTypeOK
      <3>2. Head(batch) \in Event /\ Tail(batch) \in Seq(Event)
        BY <3>1
      <3>3. QED BY <2>1, <3>1, <3>2 DEF CallNext, Lowered
    <2>2. CASE Return
      BY <2>2 DEF Return, Inv, EventsTypeOK
    <2>3. QED BY <2>1, <2>2
  <1>2. QED BY <1>1 DEF Inv, EventsTypeOK, Woken

LEMMA BatchEndsKeepsInv ==
  ASSUME Inv, BatchEnds
  PROVE  Inv'
  <1>1. 0 \in Cycles
    BY EventsAssumption DEF Cycles
  <1>2. /\ calling /\ calling' = FALSE
        /\ event_queue' = [event_queue EXCEPT ![0] = << >>]
        /\ UNCHANGED <<pending_events, call_list, batch, called>>
    BY DEF BatchEnds
  <1>3. event_queue' \in [Cycles -> Seq(Event)]
    BY <1>1, <1>2 DEF Inv, EventsTypeOK
  <1>4. ASSUME NEW c \in Cycles
        PROVE  call_list'[c] = IF event_queue'[c] = << >> \/ (calling' /\ c = 0)
                               THEN 0 ELSE 1
    <2>1. call_list[c] = IF event_queue[c] = << >> \/ (calling /\ c = 0) THEN 0 ELSE 1
      BY DEF Inv, Woken
    <2>2. event_queue'[c] = IF c = 0 THEN << >> ELSE event_queue[c]
      BY <1>2 DEF Inv, EventsTypeOK
    <2>3. QED BY <2>1, <2>2, <1>2
  <1>5. Woken'
    BY <1>4 DEF Woken
  <1>6. EventsTypeOK'
    BY <1>2, <1>3 DEF Inv, EventsTypeOK
  <1>7. batch' = << >>
    BY <1>2 DEF BatchEnds
  <1>8. QED BY <1>2, <1>5, <1>6, <1>7 DEF Inv

------------------------------------------------------------------------------
\* The ticks whose events have not been called.
Open == {c \in Cycles : ~ calling \/ c > 0}

LEMMA UncalledIsTotal == Uncalled = Len(batch) + Total(Lengths, Open)
  BY DEF Uncalled, Total, Open

LEMMA UncalledIsTotalNext == Uncalled' = Len(batch') + Total(Lengths', Open')
  <1>1. (Uncalled = Len(batch) + Total(Lengths, Open))'
    BY UncalledIsTotal, PTL
  <1>2. QED BY <1>1

\* The ticks are finitely many, each with so many events.
LEMMA LengthsAreNumbers ==
  ASSUME EventsTypeOK
  PROVE  /\ IsFiniteSet(Cycles) /\ IsFiniteSet(Open) /\ Open \subseteq Cycles
         /\ \A c \in Cycles : Lengths[c] = Len(event_queue[c]) /\ Lengths[c] \in Nat
         /\ Len(batch) \in Nat
         /\ Total(Lengths, Open) \in Nat
  <1>1. IsFiniteSet(Cycles)
    BY EventsAssumption, FS_Interval DEF Cycles
  <1>2. Open \subseteq Cycles
    BY DEF Open
  <1>3. IsFiniteSet(Open)
    BY <1>1, <1>2, FS_Subset
  <1>4. ASSUME NEW c \in Cycles
        PROVE  Lengths[c] = Len(event_queue[c]) /\ Lengths[c] \in Nat
    <2>1. event_queue[c] \in Seq(Event)
      BY DEF EventsTypeOK
    <2>2. QED BY <2>1 DEF Lengths
  <1>5. Len(batch) \in Nat
    BY DEF EventsTypeOK
  <1>6. Total(Lengths, Open) \in Nat
    BY <1>2, <1>3, <1>4, TotalIsNatural
  <1>7. QED BY <1>1, <1>2, <1>3, <1>4, <1>5, <1>6

LEMMA LengthsAreNumbersNext ==
  ASSUME EventsTypeOK'
  PROVE  /\ Uncalled' = Len(batch') + Total(Lengths', Open')
         /\ \A c \in Cycles : Lengths'[c] = Len(event_queue'[c]) /\ Lengths'[c] \in Nat
  <1>1. ASSUME NEW c \in Cycles
        PROVE  Lengths'[c] = Len(event_queue'[c]) /\ Lengths'[c] \in Nat
    <2>1. event_queue'[c] \in Seq(Event)
      BY DEF EventsTypeOK
    <2>2. QED BY <2>1 DEF Lengths
  <1>2. Uncalled' = Len(batch') + Total(Lengths', Open')
    BY UncalledIsTotalNext
  <1>3. QED BY <1>1, <1>2

\* An event filed in a later tick is one more to be called.
LEMMA RegisterCounts ==
  ASSUME Inv, NEW e \in Event, NEW c \in Cycles, c > 0, Register(e, c),
         called' \in Event \cup {None}
  PROVE  Uncalled' = Uncalled + 1
  <1>1. /\ event_queue' = [event_queue EXCEPT ![c] = Append(event_queue[c], e)]
        /\ event_queue \in [Cycles -> Seq(Event)]
        /\ calling' = calling /\ batch' = batch
    BY DEF Register, Inv, EventsTypeOK
  <1>2. EventsTypeOK /\ EventsTypeOK'
    BY RegisterKeepsInv DEF Inv
  <1>3. Open' = Open /\ c \in Open
    BY <1>1 DEF Open
  <1>4. Lengths[c] = Len(event_queue[c]) /\ Lengths'[c] = Lengths[c] + 1
    <2>1. Lengths[c] = Len(event_queue[c]) /\ Lengths'[c] = Len(event_queue'[c])
      BY <1>2, LengthsAreNumbers, LengthsAreNumbersNext
    <2>2. event_queue'[c] = Append(event_queue[c], e) /\ event_queue[c] \in Seq(Event)
      BY <1>1
    <2>3. QED BY <2>1, <2>2
  <1>5. ASSUME NEW d \in Open \ {c}
        PROVE  Lengths[d] \in Int /\ Lengths[d] = Lengths'[d]
    <2>1. d \in Cycles /\ event_queue'[d] = event_queue[d]
      BY <1>1 DEF Open
    <2>2. QED BY <1>2, <2>1, LengthsAreNumbers, LengthsAreNumbersNext
  <1>6. IsFiniteSet(Open) /\ Lengths[c] \in Nat /\ Len(batch) \in Nat
    BY <1>2, LengthsAreNumbers
  <1>7. /\ Total(Lengths', Open) = (Total(Lengths, Open) - Lengths[c]) + Lengths'[c]
        /\ Total(Lengths, Open) \in Int
    <2>1. Lengths[c] \in Int /\ Lengths'[c] \in Int
      BY <1>4, <1>6
    <2>2. QED BY <1>3, <1>5, <1>6, <2>1, TotalChanged
  <1>8. Total(Lengths', Open) = Total(Lengths, Open) + 1
    BY <1>4, <1>6, <1>7
  <1>9. Uncalled' = Len(batch) + Total(Lengths', Open)
    BY <1>1, <1>2, <1>3, LengthsAreNumbersNext
  <1>10. QED BY <1>6, <1>7, <1>8, <1>9, UncalledIsTotal

\* Taking the next task only moves events, from their tick into the copy.
LEMMA RunCounts ==
  ASSUME Inv, Run
  PROVE  Uncalled' = Uncalled
  <1> DEFINE t == Popped(Due)
             Rest == MaxCycles - t
  <1>1. t \in Due /\ t \in Cycles /\ \A c \in Cycles : c < t => call_list[c] = 0
    <2>1. Due \in SUBSET Nat /\ Due # {}
      BY EventsAssumption DEF Due, Cycles, Run
    <2>2. t \in Due
      BY <2>1, MinIsMember DEF Popped
    <2>3. \A c \in Due : ~ (c < t)
      BY <2>1, MinIsLeast DEF Popped
    <2>4. ASSUME NEW c \in Cycles, c < t
          PROVE  call_list[c] = 0
      <3>1. ~ (call_list[c] > 0) /\ call_list[c] \in Nat
        BY <2>3, <2>4 DEF Due, Inv, EventsTypeOK
      <3>2. QED BY <3>1
    <2>5. QED BY <2>2, <2>4 DEF Due
  <1>2. /\ ~ calling /\ batch = << >>
        /\ event_queue' = [c \in Cycles |-> IF c + t \in Cycles THEN event_queue[c + t] ELSE << >>]
        /\ calling' = (event_queue[t] # << >>)
        /\ batch' = event_queue[t]
    BY DEF Run, Inv
  <1> HIDE DEF t
  <1>3. EventsTypeOK /\ EventsTypeOK' /\ Woken
    BY RunKeepsInv DEF Inv
  <1>4. ASSUME NEW c \in Cycles
        PROVE  call_list[c] = IF event_queue[c] = << >> THEN 0 ELSE 1
    BY <1>2, <1>3 DEF Woken
  <1>5. event_queue[t] # << >>
    <2>1. call_list[t] > 0
      BY <1>1 DEF Due
    <2>2. QED BY <1>1, <1>4, <2>1
  <1>6. ASSUME NEW c \in Cycles, c < t
        PROVE  event_queue[c] = << >>
    BY <1>1, <1>4, <1>6
  <1>7. /\ t \in Nat /\ MaxCycles \in Nat /\ Rest \in Nat /\ t + Rest = MaxCycles
        /\ Cycles = 0 .. MaxCycles
    BY <1>1, EventsAssumption DEF Cycles
  <1>8. Open = Cycles /\ Open' = 1 .. MaxCycles
    <2>1. calling' = TRUE
      BY <1>2, <1>5
    <2>2. QED BY <1>2, <1>7, <2>1 DEF Open
  <1> HIDE DEF Rest
  <1>9. \A c \in Cycles : Lengths[c] = Len(event_queue[c]) /\ Lengths[c] \in Nat
    BY <1>3, LengthsAreNumbers
  <1>10. \A c \in Cycles : Lengths'[c] = Len(event_queue'[c]) /\ Lengths'[c] \in Nat
    BY <1>3, LengthsAreNumbersNext
  <1>11. ASSUME NEW a \in Nat, NEW b \in Nat, b =< MaxCycles
         PROVE  /\ IsFiniteSet(a .. b)
                /\ \A c \in a .. b : Lengths[c] \in Int /\ Lengths'[c] \in Int
    <2>1. a .. b \subseteq Cycles
      BY <1>7, <1>11
    <2>2. QED BY <1>9, <1>10, <2>1, FS_Interval
  \* What was filed: nothing before t, the events of t, and those after.
  <1>12. Total(Lengths, Cycles) = Lengths[t] + Total(Lengths, t + 1 .. t + Rest)
    <2> DEFINE Low == 0 .. t
               High == t + 1 .. t + Rest
    <2>1. Cycles = Low \cup High /\ Low \cap High = {} /\ t \in Low
      BY <1>7
    <2>2. IsFiniteSet(Low) /\ \A c \in Low : Lengths[c] \in Int
      BY <1>7, <1>11
    <2>3. IsFiniteSet(High) /\ \A c \in High : Lengths[c] \in Int
      BY <1>7, <1>11
    <2>4. \A c \in Low \ {t} : c \in Cycles /\ c < t
      BY <1>7
    <2> HIDE DEF Low, High
    <2>5. /\ Total(Lengths, Low \cup High) = Total(Lengths, Low) + Total(Lengths, High)
          /\ Total(Lengths, Low) \in Int /\ Total(Lengths, High) \in Int
      BY <2>1, <2>2, <2>3, TotalOfBoth
    <2>6. Total(Lengths, Low) = Lengths[t] + Total(Lengths, Low \ {t})
      BY <2>1, <2>2, TotalWithout
    <2>7. Total(Lengths, Low \ {t}) = 0
      <3>1. IsFiniteSet(Low \ {t})
        BY <2>2, FS_RemoveElement
      <3>2. ASSUME NEW c \in Low \ {t}
            PROVE  Lengths[c] = 0
        BY <1>6, <1>9, <2>4
      <3>3. QED BY <3>1, <3>2, TotalOfZeros
    <2>8. Lengths[t] \in Nat
      BY <1>1, <1>9
    <2>9. Total(Lengths, Cycles) = Lengths[t] + Total(Lengths, High)
      BY <2>1, <2>5, <2>6, <2>7, <2>8
    <2>10. QED BY <2>9 DEF High
  \* What is filed: those after, and nothing in the last t ticks.
  <1>13. Total(Lengths', 1 .. MaxCycles) = Total(Lengths, t + 1 .. t + Rest)
    <2> DEFINE Low == 1 .. Rest
               High == Rest + 1 .. MaxCycles
    <2>1. 1 .. MaxCycles = Low \cup High /\ Low \cap High = {}
      BY <1>7
    <2>2. IsFiniteSet(Low) /\ \A c \in Low : Lengths'[c] \in Int
      BY <1>7, <1>11
    <2>3. IsFiniteSet(High) /\ \A c \in High : Lengths'[c] \in Int
      BY <1>7, <1>11
    <2>4. ASSUME NEW c \in High
          PROVE  Lengths'[c] = 0
      <3>1. c \in Cycles /\ c + t \notin Cycles
        BY <1>7
      <3>2. event_queue'[c] = << >>
        BY <1>2, <3>1
      <3>3. QED BY <1>10, <3>1, <3>2
    <2>5. ASSUME NEW i \in 1 .. Rest
          PROVE  Lengths'[i] \in Int /\ Lengths'[i] = Lengths[t + i]
      <3>1. i \in Cycles /\ i + t \in Cycles /\ t + i = i + t
        BY <1>7
      <3>2. event_queue'[i] = event_queue[i + t]
        BY <1>2, <3>1
      <3>3. Lengths'[i] = Len(event_queue'[i]) /\ Lengths'[i] \in Nat
        BY <1>10, <3>1
      <3>4. Lengths[i + t] = Len(event_queue[i + t])
        BY <1>9, <3>1
      <3>5. QED BY <3>1, <3>2, <3>3, <3>4
    <2>6. Total(Lengths', Low) = Total(Lengths, t + 1 .. t + Rest)
      BY <1>7, <2>5, TotalFromOne
    <2> HIDE DEF Low, High
    <2>7. /\ Total(Lengths', Low \cup High) = Total(Lengths', Low) + Total(Lengths', High)
          /\ Total(Lengths', Low) \in Int
      BY <2>1, <2>2, <2>3, TotalOfBoth
    <2>8. Total(Lengths', High) = 0
      BY <2>3, <2>4, TotalOfZeros
    <2>9. Total(Lengths', 1 .. MaxCycles) = Total(Lengths', Low \cup High)
      BY <2>1
    <2>10. QED BY <2>6, <2>7, <2>8, <2>9
  <1>14. Len(batch) = 0 /\ Len(batch') = Lengths[t]
    BY <1>1, <1>2, <1>9
  <1>15. Uncalled = Len(batch) + Total(Lengths, Cycles)
    BY <1>8, UncalledIsTotal
  <1>16. Uncalled' = Len(batch') + Total(Lengths', 1 .. MaxCycles)
    BY <1>3, <1>8, LengthsAreNumbersNext
  <1>17. Total(Lengths, t + 1 .. t + Rest) \in Int /\ Lengths[t] \in Nat
    <2>1. IsFiniteSet(t + 1 .. t + Rest) /\ \A c \in t + 1 .. t + Rest : Lengths[c] \in Int
      BY <1>7, <1>11
    <2>2. QED BY <1>1, <1>9, <2>1, TotalWithout
  <1>18. QED BY <1>12, <1>13, <1>14, <1>15, <1>16, <1>17

\* A call takes its event, a return and the end of a walk take none.
LEMMA CallCounts ==
  ASSUME Inv, CallNext
  PROVE  Uncalled' = Uncalled - 1
  <1>1. /\ UNCHANGED <<event_queue, calling>> /\ batch' = Tail(batch) /\ batch # << >>
        /\ EventsTypeOK
    BY DEF CallNext, Inv
  <1>2. Lengths' = Lengths /\ Open' = Open
    BY <1>1 DEF Lengths, Open
  <1>3. Uncalled' = Len(batch') + Total(Lengths, Open)
    <2>1. Uncalled' = Len(batch') + Total(Lengths', Open')
      BY UncalledIsTotalNext
    <2>2. QED BY <1>2, <2>1
  <1>4. Len(batch') = Len(batch) - 1
    BY <1>1 DEF EventsTypeOK
  <1>5. QED BY <1>1, <1>3, <1>4, UncalledIsTotal, LengthsAreNumbers

LEMMA ReturnCounts ==
  ASSUME Return
  PROVE  Uncalled' = Uncalled
  <1>1. batch' = batch /\ Lengths' = Lengths /\ Open' = Open
    BY DEF Return, Lengths, Open
  <1>2. Uncalled' = Len(batch') + Total(Lengths', Open')
    BY UncalledIsTotalNext
  <1>3. QED BY <1>1, <1>2, UncalledIsTotal

LEMMA BatchEndsCounts ==
  ASSUME Inv, BatchEnds
  PROVE  Uncalled' = Uncalled
  <1>1. /\ event_queue' = [event_queue EXCEPT ![0] = << >>] /\ calling /\ ~ calling'
        /\ batch' = batch
        /\ event_queue \in [Cycles -> Seq(Event)]
    BY DEF BatchEnds, Inv, EventsTypeOK
  <1>2. EventsTypeOK /\ EventsTypeOK'
    BY BatchEndsKeepsInv DEF Inv
  <1>3. 0 \in Cycles /\ 0 \notin Open /\ Open' = Open \cup {0}
    <2>1. 0 \in Cycles /\ \A c \in Cycles : c > 0 \/ c = 0
      BY EventsAssumption DEF Cycles
    <2>2. QED BY <1>1, <2>1 DEF Open
  <1>4. ASSUME NEW c \in Open
        PROVE  Lengths[c] \in Int /\ Lengths[c] = Lengths'[c] /\ Lengths'[c] \in Int
    <2>1. c \in Cycles /\ event_queue'[c] = event_queue[c]
      BY <1>1, <1>3 DEF Open
    <2>2. QED BY <1>2, <2>1, LengthsAreNumbers, LengthsAreNumbersNext
  <1>5. Lengths'[0] = 0
    <2>1. event_queue'[0] = << >>
      BY <1>1, <1>3
    <2>2. QED BY <1>2, <1>3, <2>1, LengthsAreNumbersNext
  <1>6. IsFiniteSet(Open) /\ Total(Lengths, Open) \in Nat
    BY <1>2, LengthsAreNumbers
  <1>7. Total(Lengths', Open) = Total(Lengths, Open)
    BY <1>4, <1>6, TotalAgrees
  <1>8. Total(Lengths', Open \cup {0}) = Total(Lengths', Open) + Lengths'[0]
    <2>1. Lengths'[0] \in Int
      BY <1>5
    <2>2. QED BY <1>3, <1>4, <1>6, <2>1, TotalWith
  <1>9. Total(Lengths', Open') = Total(Lengths, Open)
    BY <1>3, <1>5, <1>6, <1>7, <1>8
  <1>10. Uncalled' = Len(batch') + Total(Lengths', Open')
    BY <1>2, LengthsAreNumbersNext
  <1>11. QED BY <1>1, <1>9, <1>10, UncalledIsTotal
------------------------------------------------------------------------------
\* The invariant is inductive.
LEMMA InvStep == Inv /\ [EventsNext]_events => Inv'
  <1> SUFFICES ASSUME Inv, [EventsNext]_events
               PROVE  Inv'
    OBVIOUS
  <1>1. CASE Run
    BY <1>1, RunKeepsInv
  <1>2. CASE CallNext \/ Return
    BY <1>2, CallKeepsInv
  <1>3. CASE BatchEnds
    BY <1>3, BatchEndsKeepsInv
  <1>4. ASSUME NEW e \in Event, NEW c \in MinCycles .. MaxCycles,
               Register(e, c), UNCHANGED called
        PROVE  Inv'
    <2>1. c \in Cycles
      BY EventsAssumption, CyclesAssumption DEF Cycles
    <2>2. called' \in Event \cup {None}
      BY <1>4 DEF Inv, EventsTypeOK
    <2>3. QED BY <1>4, <2>1, <2>2, RegisterKeepsInv
  <1>5. CASE UNCHANGED events
    BY <1>5 DEF events, Inv, EventsTypeOK, Woken
  <1>6. QED BY <1>1, <1>2, <1>3, <1>4, <1>5 DEF EventsNext, CallEvents, Handle

LEMMA InvAlways == EventsSpec => []Inv
  BY InvInit, InvStep, PTL DEF EventsSpec

\* The variables hold what the code keeps in them.
THEOREM EventsTypeCorrect == EventsSpec => []EventsTypeOK
  <1>1. Inv => EventsTypeOK
    BY DEF Inv
  <1>2. QED BY <1>1, InvAlways, PTL

\* Every tick with events has one task and no more, whatever callers file and
\* at whatever delay, so no event waits for a call that nobody has asked for
\* (sys.py:446-459).
THEOREM EveryTickIsWoken == EventsSpec => []Woken
  <1>1. Inv => Woken
    BY DEF Inv
  <1>2. QED BY <1>1, InvAlways, PTL

\* Callers that never file into the tick being walked: a delay of 0 counts as an
\* event and is deleted uncalled (sys.py:479).
LaterOnly == MinCycles > 0

LEMMA CountedStep == LaterOnly /\ Inv /\ PendingCounted /\ [EventsNext]_events => PendingCounted'
  <1> SUFFICES ASSUME LaterOnly, Inv, PendingCounted, [EventsNext]_events
               PROVE  PendingCounted'
    OBVIOUS
  <1>1. pending_events = Uncalled /\ pending_events \in Int
    BY DEF PendingCounted, Inv, EventsTypeOK
  <1>2. CASE Run
    <2>1. Uncalled' = Uncalled
      BY <1>2, RunCounts
    <2>2. QED BY <1>1, <1>2, <2>1 DEF Run, PendingCounted
  <1>3. CASE CallNext
    <2>1. Uncalled' = Uncalled - 1
      BY <1>3, CallCounts
    <2>2. QED BY <1>1, <1>3, <2>1 DEF CallNext, Lowered, PendingCounted
  <1>4. CASE BatchEnds
    <2>1. Uncalled' = Uncalled
      BY <1>4, BatchEndsCounts
    <2>2. QED BY <1>1, <1>4, <2>1 DEF BatchEnds, PendingCounted
  <1>5. CASE Return
    <2>1. Uncalled' = Uncalled
      BY <1>5, ReturnCounts
    <2>2. QED BY <1>1, <1>5, <2>1 DEF Return, PendingCounted
  <1>6. ASSUME NEW e \in Event, NEW c \in MinCycles .. MaxCycles,
               Register(e, c), UNCHANGED called
        PROVE  PendingCounted'
    <2>1. c \in Cycles /\ c > 0
      BY EventsAssumption, CyclesAssumption DEF Cycles, LaterOnly
    <2>2. called' \in Event \cup {None}
      BY <1>6 DEF Inv, EventsTypeOK
    <2>3. Uncalled' = Uncalled + 1
      BY <1>6, <2>1, <2>2, RegisterCounts
    <2>4. QED BY <1>1, <1>6, <2>3 DEF Register, PendingCounted
  <1>7. CASE UNCHANGED events
    <2>1. batch' = batch /\ Lengths' = Lengths /\ Open' = Open
      BY <1>7 DEF events, Lengths, Open
    <2>2. Uncalled' = Uncalled
      BY <2>1, UncalledIsTotal, UncalledIsTotalNext
    <2>3. QED BY <1>1, <1>7, <2>2 DEF events, PendingCounted
  <1>8. QED BY <1>2, <1>3, <1>4, <1>5, <1>6, <1>7 DEF EventsNext, CallEvents, Handle

LEMMA CountedInit == EventsInit => Uncalled = 0 /\ PendingCounted
  <1> SUFFICES ASSUME EventsInit
               PROVE  Uncalled = 0 /\ PendingCounted
    OBVIOUS
  <1>1. EventsTypeOK /\ batch = << >> /\ pending_events = 0
    BY InvInit DEF Inv, EventsInit
  <1>2. \A c \in Open : Lengths[c] = 0
    BY DEF EventsInit, Open, Lengths
  <1>3. Total(Lengths, Open) = 0
    BY <1>1, <1>2, LengthsAreNumbers, TotalOfZeros
  <1>4. Uncalled = 0
    BY <1>1, <1>3, UncalledIsTotal
  <1>5. QED BY <1>1, <1>4 DEF PendingCounted

\* pending_events counts just the events that wait to be called, whatever is
\* filed, in any order and through any number of walks, as long as nothing is
\* filed into the tick being walked (sys.py:450-479).
THEOREM PendingIsCounted ==
  ASSUME LaterOnly
  PROVE  EventsSpec => []PendingCounted
  <1>1. EventsInit => PendingCounted
    BY CountedInit
  <1>2. Inv /\ PendingCounted /\ [EventsNext]_events => PendingCounted'
    BY CountedStep
  <1>3. QED BY <1>1, <1>2, InvAlways, PTL DEF EventsSpec
==============================================================================
