---------------------------- MODULE WorkloadProofs ----------------------------
(***************************************************************************)
(* The workload walks in one thread of events, begins every piece of work  *)
(* once in each pass and in an order that training allows, and reports     *)
(* itself finished once and not before: for any number of layers and       *)
(* passes, any compute times and any set of active collectives.            *)
(***************************************************************************)
EXTENDS Workload, SysEventsProofs

Ended == current_state = "Wait_For_Sim_Finish"

\* The pieces that come before the one at layer i in state s.
PastAt(x, s, i) ==
  \/ x[1] = "fwd" /\ (s \in {"Input_Gradient", "Weight_Gradient"}
                      \/ (s = "Forward_Pass" /\ x[2] < i))
  \/ x[1] = "ig" /\ s = "Input_Gradient" /\ x[2] > i
  \/ x[1] = "ig" /\ s = "Weight_Gradient"
       /\ (x[2] > i \/ (Policy \in LayerWise /\ x[2] = i) \/ Policy = "TransformerFwdInBckwd")
  \/ x[1] = "wg" /\ s = "Weight_Gradient" /\ x[2] > i
  \/ x[1] = "wg" /\ s = "Input_Gradient"
       /\ ((Policy \in LayerWise /\ x[2] > i) \/ (Policy = "Data" /\ x[2] >= i))

Past(x) == PastAt(x, current_state, index)
Begun(x) == Past(x) \/ (x = Here /\ delay_loaded)

\* A piece has been begun once in each pass that is over, and once more if it
\* comes before the place the workload is at.
Progress ==
  \A x \in Piece :
    loaded[x] = IF x \notin Work THEN 0
                ELSE IF Begun(x) THEN pass_counter + 1 ELSE pass_counter

Types ==
  /\ setup \in Setup
  /\ index \in Layer
  /\ current_state \in {"Forward_Pass", "Input_Gradient", "Weight_Gradient",
                        "Wait_For_Sim_Finish"}
  /\ counter \in Cycles
  /\ pass_counter \in 0 .. setup.total_pass
  /\ delay_loaded \in BOOLEAN
  /\ datasets \subseteq setup.active
  /\ loaded \in [Piece -> Nat]

\* Where each policy can be.
Places ==
  /\ Policy = "MicroBenchmark" =>
       current_state \in {"Forward_Pass", "Wait_For_Sim_Finish"} /\ ~ delay_loaded
  /\ Policy = "DistributedInference" =>
       current_state \in {"Forward_Pass", "Wait_For_Sim_Finish"}
  /\ Policy = "DLRM" =>
       /\ current_state # "Input_Gradient"
       /\ current_state = "Weight_Gradient" => index = Size - 1
  /\ Policy = "Data" /\ current_state = "Input_Gradient" => index > 0
  /\ Ended => pass_counter = setup.total_pass /\ ~ delay_loaded
  /\ pass_counter = setup.total_pass =>
       Ended \/ (current_state = "Forward_Pass" /\ index = 0 /\ ~ delay_loaded)

\* The end is reached once, by the call that was the only thread.
Threads == Uncalled + (IF called # None THEN 1 ELSE 0)
Single == Threads = 1 \/ (Threads = 0 /\ Stopped)
Finish ==
  /\ Ended => Threads = 0
  /\ finished_workloads = 0 \/ (finished_workloads = 1 /\ Ended /\ datasets = {})

WInv == Inv /\ PendingCounted /\ Types /\ Places /\ Progress /\ Single /\ Finish
------------------------------------------------------------------------------
\* How a call moves through the pieces: it begins the one it is at, if it has not
\* yet; then it stays, or goes on within the pass, or closes the pass.
Begins ==
  /\ called # None
  /\ Policy # "MicroBenchmark" /\ pass_counter # setup.total_pass /\ ~ Ended
  /\ Load
  /\ setup' = setup

Stays == Begins /\ delay_loaded' = TRUE /\ UNCHANGED <<index, current_state, pass_counter>>

GoesOn ==
  \/ /\ current_state = "Forward_Pass" /\ index < Size - 1
     /\ current_state' = "Forward_Pass" /\ index' = index + 1
  \/ /\ current_state = "Forward_Pass" /\ index = Size - 1
     /\ Policy # "DistributedInference"
     /\ current_state' = Backward /\ index' = index
  \/ /\ Policy = "Data" /\ current_state = "Weight_Gradient" /\ index # 0
     /\ current_state' = "Input_Gradient" /\ index' = index
  \/ /\ Policy = "Data" /\ current_state = "Input_Gradient"
     /\ current_state' = "Weight_Gradient" /\ index' = index - 1
  \/ /\ Policy \in LayerWise /\ current_state = "Input_Gradient"
     /\ current_state' = "Weight_Gradient" /\ index' = index
  \/ /\ Policy \in LayerWise /\ current_state = "Weight_Gradient" /\ index # 0
     /\ current_state' = "Input_Gradient" /\ index' = index - 1
  \/ /\ Policy = "TransformerFwdInBckwd" /\ current_state = "Input_Gradient" /\ index = 0
     /\ current_state' = "Weight_Gradient" /\ index' = Size - 1
  \/ /\ Policy = "TransformerFwdInBckwd" /\ index # 0
     /\ current_state \in {"Input_Gradient", "Weight_Gradient"}
     /\ current_state' = current_state /\ index' = index - 1

Advances == Begins /\ delay_loaded' = FALSE /\ GoesOn /\ pass_counter' = pass_counter

\* The last piece of a pass.
AtLast ==
  \/ /\ current_state = "Forward_Pass" /\ index = Size - 1
     /\ Policy = "DistributedInference"
  \/ /\ current_state = "Weight_Gradient" /\ index = 0
     /\ Policy \in LayerWise \cup {"Data", "TransformerFwdInBckwd"}

Closes ==
  /\ Begins /\ delay_loaded' = FALSE /\ AtLast /\ pass_counter' = pass_counter + 1
  /\ \/ current_state' = "Forward_Pass" /\ index' = 0
     \/ pass_counter' = setup.total_pass /\ current_state' = "Wait_For_Sim_Finish" /\ index' = index

\* Or it begins nothing.
Rests == UNCHANGED <<setup, index, current_state, delay_loaded, pass_counter, loaded,
                     finished_workloads>>

Stops ==
  /\ called # None
  /\ current_state' = "Wait_For_Sim_Finish" /\ pass_counter' = setup.total_pass
  /\ Policy = "MicroBenchmark" \/ pass_counter = setup.total_pass
  /\ UNCHANGED <<setup, index, delay_loaded, loaded>>
------------------------------------------------------------------------------
\* What the file and the arguments fix.
LEMMA SetupTypes ==
  ASSUME setup \in Setup
  PROVE  /\ Policy \in Policies /\ setup.id \in Nat /\ setup.total_pass \in Nat
         /\ setup.time \in [Piece -> Cycles] /\ setup.active \subseteq Piece
  BY WorkloadAssumption DEF Policy

LEMMA HereIsPiece ==
  ASSUME Types
  PROVE  Here \in Piece /\ Phase \in {"fwd", "ig", "wg"} /\ Time \in Cycles
  <1>1. Phase \in {"fwd", "ig", "wg"}
    BY DEF Phase
  <1>2. Here \in Piece
    BY <1>1 DEF Here, Piece, Types
  <1>3. QED BY <1>1, <1>2, SetupTypes DEF Types, Time

\* A call leaves one event in a later tick, or returns where nothing has to come
\* after it, or goes on.
LEMMA CallMoves ==
  ASSUME Types, Iterate
  PROVE  /\ called # None
         /\ \/ \E e \in Event, c \in Cycles : c > 0 /\ Leave(e, c)
            \/ Return /\ Stopped'
            \/ UNCHANGED events
  <1> DEFINE Leaves == \E e \in Event, c \in Cycles : c > 0 /\ Leave(e, c)
  <1>1. ASSUME NEW i, NEW s, NEW p, Move(i, s, p)
        PROVE  Leaves
    <2>1. "General" \in Event /\ 1 \in Cycles
      BY WorkloadAssumption, EventsAssumption DEF Cycles
    <2>2. QED BY <1>1, <2>1 DEF Move
  <1>2. CASE WaitAgain
    <2>1. "Workload_Wait" \in Event /\ counter \in Cycles
      BY WorkloadAssumption DEF Types
    <2>2. QED BY <1>2, <2>1 DEF WaitAgain
  <1>3. CASE Compute
    <2>1. "Workload_Wait" \in Event /\ Time \in Cycles
      BY WorkloadAssumption, HereIsPiece
    <2>2. QED BY <1>3, <2>1 DEF Compute, Entered, Iterating
  <1>4. ASSUME NEW ds, SimEnds(ds)
        PROVE  Return /\ Stopped'
    BY <1>4 DEF SimEnds, Stopped
  <1>5. CASE CheckForSimEnd \/ MicroBenchmark
    BY <1>4, <1>5 DEF CheckForSimEnd, MicroBenchmark
  <1>6. CASE WaitForWeights
    <2>1. Return /\ datasets' # {} /\ called # None
      BY <1>6 DEF WaitForWeights, Iterating, wvars
    <2>2. QED BY <2>1 DEF Stopped
  <1>7. ASSUME NEW x, IssueBlocking(x)
        PROVE  (Return /\ Stopped') \/ UNCHANGED events
    <2>1. CASE x \in setup.active
      <3>1. Return /\ datasets' # {}
        BY <1>7, <2>1 DEF IssueBlocking, Issued
      <3>2. QED BY <3>1 DEF Stopped
    <2>2. CASE x \notin setup.active
      BY <1>7, <2>2 DEF IssueBlocking
    <2>3. QED BY <2>1, <2>2
  <1>8. CASE IssueForwardPassComm \/ IssueInputGradComm
    BY <1>7, <1>8 DEF IssueForwardPassComm, IssueInputGradComm, Computed, Entered, Iterating
  <1>9. CASE WaitForEmbeddings \/ WaitForInputs
    <2>1. /\ called # None /\ Return
          /\ datasets # {} /\ (datasets' = datasets \/ datasets' = WeightIssued)
      BY <1>9 DEF WaitForEmbeddings, WaitForInputs, Computed, Entered, Iterating
    <2>2. datasets' # {}
      BY <2>1 DEF WeightIssued, Issued
    <2>3. QED BY <2>1, <2>2 DEF Stopped
  <1>10. CASE DlrmWeightGradient
    <2>1. /\ called # None /\ Return /\ Policy = "DLRM" /\ current_state = "Weight_Gradient"
          /\ setup' = setup /\ current_state' = current_state
      BY <1>10 DEF DlrmWeightGradient, Computed, Entered, Iterating
    <2>2. QED BY <2>1 DEF Stopped, Policy
  <1>11. CASE ForwardPass \/ DataWeightGradient \/ DataInputGradient
    <2>1. called # None
      BY <1>11 DEF ForwardPass, DataWeightGradient, DataInputGradient, Computed, Entered, Iterating
    <2>2. QED BY <1>1, <1>11, <2>1 DEF ForwardPass, DataWeightGradient, DataInputGradient
  <1>12. CASE InputGradient \/ WeightGradient \/ SweepInputGradient
    <2>1. called # None
      BY <1>12 DEF InputGradient, WeightGradient, SweepInputGradient, Computed, Entered, Iterating
    <2>2. QED BY <1>1, <1>12, <2>1 DEF InputGradient, WeightGradient, SweepInputGradient
  <1>13. CASE SweepWeightGradient
    <2>1. called # None
      BY <1>13 DEF SweepWeightGradient, Computed, Entered, Iterating
    <2>2. QED BY <1>1, <1>4, <1>13, <2>1 DEF SweepWeightGradient
  <1>14. QED BY <1>2, <1>3, <1>5, <1>6, <1>8, <1>9, <1>10, <1>11, <1>12, <1>13 DEF Iterate

\* While a call is on, no event is waiting.
LEMMA CallIsOnly ==
  ASSUME Inv, Single, called # None
  PROVE  Uncalled = 0 /\ Threads = 1
  <1>1. Uncalled \in Nat
    <2>1. EventsTypeOK
      BY DEF Inv
    <2>2. Len(batch) \in Nat /\ Total(Lengths, Open) \in Nat
      BY <2>1, LengthsAreNumbers
    <2>3. QED BY <2>2, UncalledIsTotal
  <1>2. QED BY <1>1 DEF Single, Threads

\* The events in a call of the workload.
LEMMA CallSide ==
  ASSUME Inv, PendingCounted, Types, Single, Iterate
  PROVE  Inv' /\ PendingCounted' /\ Single'
  <1>1. pending_events = Uncalled /\ pending_events \in Int
    BY DEF PendingCounted, Inv, EventsTypeOK
  <1>2. called # None /\ Uncalled = 0 /\ Threads = 1
    BY CallMoves, CallIsOnly
  <1>3. CASE \E e \in Event, c \in Cycles : c > 0 /\ Leave(e, c)
    <2>1. PICK e \in Event, c \in Cycles : c > 0 /\ Leave(e, c)
      BY <1>3
    <2>2. Register(e, c) /\ called' = None /\ called' \in Event \cup {None} /\ c > 0
      BY <2>1 DEF Leave
    <2>3. Inv'
      BY <2>2, RegisterKeepsInv
    <2>4. Uncalled' = Uncalled + 1
      BY <2>2, RegisterCounts
    <2>5. PendingCounted'
      BY <1>1, <2>2, <2>4 DEF Register, PendingCounted
    <2>6. Threads' = 1
      BY <1>2, <2>2, <2>4 DEF Threads
    <2>7. QED BY <2>3, <2>5, <2>6 DEF Single
  <1>4. CASE Return /\ Stopped'
    <2>1. Inv'
      BY <1>4, CallKeepsInv
    <2>2. Uncalled' = Uncalled
      BY <1>4, ReturnCounts
    <2>3. PendingCounted'
      BY <1>1, <1>4, <2>2 DEF Return, PendingCounted
    <2>4. Threads' = 0
      BY <1>2, <1>4, <2>2 DEF Threads, Return
    <2>5. QED BY <1>4, <2>1, <2>3, <2>4 DEF Single
  <1>5. CASE UNCHANGED events
    <2>1. Inv'
      BY <1>5 DEF events, Inv, EventsTypeOK, Woken
    <2>2. batch' = batch /\ Lengths' = Lengths /\ Open' = Open
      BY <1>5 DEF events, Lengths, Open
    <2>3. Uncalled' = Uncalled
      BY <2>2, UncalledIsTotal, UncalledIsTotalNext
    <2>4. PendingCounted'
      BY <1>1, <1>5, <2>3 DEF events, PendingCounted
    <2>5. Threads' = 1
      BY <1>2, <1>5, <2>3 DEF events, Threads
    <2>6. QED BY <2>1, <2>4, <2>5 DEF Single
  <1>6. QED BY <1>3, <1>4, <1>5, CallMoves

\* The events in the walk of the queue: a call takes the one that was waiting.
LEMMA WalkSide ==
  ASSUME Inv, PendingCounted, CallEvents
  PROVE  Inv' /\ PendingCounted' /\ Threads' = Threads
  <1>1. pending_events = Uncalled /\ pending_events \in Int /\ None \notin Event
    BY EventsAssumption DEF PendingCounted, Inv, EventsTypeOK
  <1>2. called = None
    BY DEF CallEvents, Run, CallNext, BatchEnds
  <1>3. CASE Run
    <2>1. Inv'
      BY <1>3, RunKeepsInv
    <2>2. Uncalled' = Uncalled
      BY <1>3, RunCounts
    <2>3. pending_events' = pending_events /\ called' = called
      BY <1>3 DEF Run
    <2>4. QED BY <1>1, <2>1, <2>2, <2>3 DEF PendingCounted, Threads
  <1>4. CASE CallNext
    <2>1. Inv'
      BY <1>4, CallKeepsInv
    <2>2. Uncalled' = Uncalled - 1
      BY <1>4, CallCounts
    <2>3. pending_events' = pending_events - 1 /\ called' # None
      <3>1. batch \in Seq(Event) /\ batch # << >> /\ called' = Head(batch)
        BY <1>4 DEF CallNext, Inv, EventsTypeOK
      <3>2. called' \in Event
        BY <3>1
      <3>3. QED BY <1>1, <1>4, <3>2 DEF CallNext, Lowered
    <2>4. QED BY <1>1, <1>2, <2>1, <2>2, <2>3 DEF PendingCounted, Threads
  <1>5. CASE BatchEnds
    <2>1. Inv'
      BY <1>5, BatchEndsKeepsInv
    <2>2. Uncalled' = Uncalled
      BY <1>5, BatchEndsCounts
    <2>3. pending_events' = pending_events /\ called' = called
      BY <1>5 DEF BatchEnds
    <2>4. QED BY <1>1, <2>1, <2>2, <2>3 DEF PendingCounted, Threads
  <1>6. QED BY <1>3, <1>4, <1>5 DEF CallEvents
------------------------------------------------------------------------------
\* A call of a training workload takes its piece and stays, goes on or closes.
LEMMA CallKinds ==
  ASSUME Types, Places, ~ Ended, Iterate
  PROVE  Rests \/ Stops \/ Stays \/ Advances \/ Closes
  <1>1. /\ index \in Layer /\ Size \in Nat \ {0} /\ Layer = 0 .. Size - 1
        /\ pass_counter \in Int
    BY WorkloadAssumption DEF Types, Layer
  <1>2. ASSUME NEW s, Computed(s), setup' = setup
        PROVE  Begins /\ current_state = s
    BY <1>2 DEF Begins, Computed, Entered, Iterating, Ended
  <1>3. ASSUME NEW i, NEW s, NEW p, Move(i, s, p)
        PROVE  /\ index' = i /\ current_state' = s /\ pass_counter' = p
               /\ delay_loaded' = FALSE
               /\ setup' = setup
    BY <1>3 DEF Move, KeepsDelay
  <1>4. CASE WaitAgain \/ WaitForWeights
    BY <1>4 DEF WaitAgain, WaitForWeights, Rests, wvars
  <1>5. CASE CheckForSimEnd \/ MicroBenchmark
    BY <1>5 DEF CheckForSimEnd, MicroBenchmark, SimEnds, Stops
  <1>6. CASE Compute
    BY <1>6 DEF Compute, Entered, Iterating, Stays, Begins, Ended
  <1>7. CASE IssueForwardPassComm \/ WaitForEmbeddings \/ DlrmWeightGradient
             \/ IssueInputGradComm \/ WaitForInputs
    BY <1>2, <1>7 DEF IssueForwardPassComm, WaitForEmbeddings, DlrmWeightGradient,
                      IssueInputGradComm, WaitForInputs, Stays
  <1>8. CASE ForwardPass
    <2>1. Begins /\ current_state = "Forward_Pass" /\ delay_loaded' = FALSE
      BY <1>2, <1>3, <1>8 DEF ForwardPass
    <2>2. CASE index < Size - 1 /\ Move(index + 1, "Forward_Pass", pass_counter)
      BY <1>3, <2>1, <2>2 DEF Advances, GoesOn
    <2>3. CASE /\ index = Size - 1 /\ Policy = "DistributedInference"
               /\ Move(0, "Forward_Pass", pass_counter + 1)
      BY <1>3, <2>1, <2>3 DEF Closes, AtLast
    <2>4. CASE /\ index = Size - 1 /\ Policy # "DistributedInference"
               /\ Move(index, Backward, pass_counter)
      BY <1>3, <2>1, <2>4 DEF Advances, GoesOn
    <2>5. QED BY <1>8, <2>2, <2>3, <2>4 DEF ForwardPass
  <1>9. CASE DataWeightGradient
    <2>1. Begins /\ current_state = "Weight_Gradient" /\ delay_loaded' = FALSE /\ Policy = "Data"
      BY <1>2, <1>3, <1>9 DEF DataWeightGradient
    <2>2. CASE index = 0
      <3>1. Move(0, "Forward_Pass", pass_counter + 1)
        BY <1>9, <2>2 DEF DataWeightGradient, First
      <3>2. QED BY <1>3, <2>1, <2>2, <3>1 DEF Closes, AtLast
    <2>3. CASE index # 0
      <3>1. Move(index, "Input_Gradient", pass_counter)
        BY <1>9, <2>3 DEF DataWeightGradient, First
      <3>2. QED BY <1>3, <2>1, <2>3, <3>1 DEF Advances, GoesOn
    <2>4. QED BY <2>2, <2>3
  <1>10. CASE DataInputGradient
    <2>1. Begins /\ current_state = "Input_Gradient" /\ delay_loaded' = FALSE /\ Policy = "Data"
      BY <1>2, <1>3, <1>10 DEF DataInputGradient
    <2>2. QED BY <1>3, <1>10, <2>1 DEF DataInputGradient, Advances, GoesOn
  <1>11. CASE InputGradient
    <2>1. Begins /\ current_state = "Input_Gradient" /\ delay_loaded' = FALSE /\ Policy \in LayerWise
      BY <1>2, <1>3, <1>11 DEF InputGradient
    <2>2. QED BY <1>3, <1>11, <2>1 DEF InputGradient, Advances, GoesOn
  <1>12. CASE WeightGradient
    <2>1. Begins /\ current_state = "Weight_Gradient" /\ delay_loaded' = FALSE /\ Policy \in LayerWise
      BY <1>2, <1>3, <1>12 DEF WeightGradient
    <2>2. CASE index = 0
      <3>1. Move(0, "Forward_Pass", pass_counter + 1)
        BY <1>12, <2>2 DEF WeightGradient, First
      <3>2. QED BY <1>3, <2>1, <2>2, <3>1 DEF Closes, AtLast
    <2>3. CASE index # 0
      <3>1. Move(index - 1, "Input_Gradient", pass_counter)
        BY <1>12, <2>3 DEF WeightGradient, First
      <3>2. QED BY <1>3, <2>1, <2>3, <3>1 DEF Advances, GoesOn
    <2>4. QED BY <2>2, <2>3
  <1>13. CASE SweepInputGradient
    <2>1. /\ Begins /\ current_state = "Input_Gradient" /\ delay_loaded' = FALSE
          /\ Policy = "TransformerFwdInBckwd"
      BY <1>2, <1>3, <1>13 DEF SweepInputGradient
    <2>2. CASE index = 0
      <3>1. Move(Size - 1, "Weight_Gradient", pass_counter)
        BY <1>13, <2>2 DEF SweepInputGradient, First
      <3>2. QED BY <1>3, <2>1, <2>2, <3>1 DEF Advances, GoesOn
    <2>3. CASE index # 0
      <3>1. Move(index - 1, "Input_Gradient", pass_counter)
        BY <1>13, <2>3 DEF SweepInputGradient, First
      <3>2. QED BY <1>3, <2>1, <2>3, <3>1 DEF Advances, GoesOn
    <2>4. QED BY <2>2, <2>3
  <1>14. CASE SweepWeightGradient
    <2>1. /\ current_state = "Weight_Gradient" /\ Policy = "TransformerFwdInBckwd"
          /\ Computed("Weight_Gradient")
      BY <1>14 DEF SweepWeightGradient, Computed, Entered, Iterating
    <2>2. CASE index > 0 /\ Move(index - 1, "Weight_Gradient", pass_counter)
      <3>1. Begins
        BY <1>2, <1>3, <2>1, <2>2
      <3>2. index # 0
        BY <1>1, <2>2
      <3>3. QED BY <1>3, <2>1, <2>2, <3>1, <3>2 DEF Advances, GoesOn
    <2>3. CASE index = 0 /\ Move(0, "Forward_Pass", pass_counter + 1)
      <3>1. Begins
        BY <1>2, <1>3, <2>1, <2>3
      <3>2. QED BY <1>3, <2>1, <2>3, <3>1 DEF Closes, AtLast
    <2>4. CASE /\ index = 0 /\ pass_counter + 1 = setup.total_pass
               /\ pass_counter' = pass_counter + 1 /\ delay_loaded' = FALSE
               /\ SimEnds(datasets') /\ UNCHANGED <<setup, index, counter, collective_issued>>
      <3>1. /\ called # None /\ Policy # "MicroBenchmark" /\ ~ Ended /\ Load
            /\ pass_counter # setup.total_pass
        BY <2>1 DEF Computed, Entered, Iterating, Ended
      <3>2. pass_counter' = setup.total_pass /\ current_state' = "Wait_For_Sim_Finish"
        BY <2>4 DEF SimEnds
      <3>3. QED BY <2>1, <2>4, <3>1, <3>2 DEF Closes, AtLast, Begins
    <2>5. QED BY <1>14, <2>2, <2>3, <2>4 DEF SweepWeightGradient
  <1>15. QED
    BY <1>4, <1>5, <1>6, <1>7, <1>8, <1>9, <1>10, <1>11, <1>12, <1>13, <1>14 DEF Iterate

\* What a call does to the counter, the collectives and the report.
LEMMA CallReports ==
  ASSUME Types, Iterate
  PROVE  /\ counter' \in Cycles
         /\ datasets' \subseteq setup.active
         /\ \/ finished_workloads' = finished_workloads /\ (Ended' => Ended)
            \/ /\ Return /\ Ended'
               /\ \/ finished_workloads' = finished_workloads
                  \/ finished_workloads' = finished_workloads + 1 /\ datasets' = {}
  <1> DEFINE Quiet == finished_workloads' = finished_workloads /\ (Ended' => Ended)
             Reports == /\ Return /\ Ended'
                        /\ \/ finished_workloads' = finished_workloads
                           \/ finished_workloads' = finished_workloads + 1 /\ datasets' = {}
  <1>1. counter \in Cycles /\ datasets \subseteq setup.active /\ Time \in Cycles
    BY HereIsPiece DEF Types
  <1>2. 0 \in Cycles
    BY EventsAssumption DEF Cycles
  <1>3. /\ \A x : Issued(x) \subseteq setup.active
        /\ WeightIssued \subseteq setup.active
    BY <1>1 DEF Issued, WeightIssued
  <1>4. ASSUME NEW i, NEW s, NEW p, Move(i, s, p), s # "Wait_For_Sim_Finish"
        PROVE  counter' = counter /\ Quiet
    BY <1>4 DEF Move, Ended
  <1>5. ASSUME SimEnds(datasets')
        PROVE  Reports
    BY <1>5 DEF SimEnds, StreamsDone, Ended
  <1>6. CASE WaitAgain \/ WaitForWeights \/ Compute
    BY <1>1, <1>2, <1>6 DEF WaitAgain, Cleared, WaitForWeights, wvars, Compute, Ended
  <1>7. CASE CheckForSimEnd \/ MicroBenchmark
    <2>1. counter' = counter /\ SimEnds(datasets')
          /\ (datasets' = datasets \/ datasets' = Issued(<<"wg", index>>))
      BY <1>7 DEF CheckForSimEnd, MicroBenchmark, SimEnds
    <2>2. QED BY <1>1, <1>3, <1>5, <2>1
  <1>8. CASE IssueForwardPassComm \/ WaitForEmbeddings \/ DlrmWeightGradient
             \/ IssueInputGradComm \/ WaitForInputs
    <2>1. /\ counter' = counter /\ finished_workloads' = finished_workloads
          /\ current_state' = current_state
          /\ datasets' = datasets \/ datasets' = Issued(Here) \/ datasets' = WeightIssued
      BY <1>8 DEF IssueForwardPassComm, WaitForEmbeddings, DlrmWeightGradient,
                  IssueInputGradComm, WaitForInputs, IssueBlocking
    <2>2. QED BY <1>1, <1>3, <2>1 DEF Ended
  <1>9. CASE ForwardPass
    <2>1. Backward # "Wait_For_Sim_Finish"
      BY DEF Backward
    <2>2. counter' = counter /\ Quiet
      BY <1>4, <1>9, <2>1 DEF ForwardPass
    <2>3. QED BY <1>1, <1>3, <1>9, <2>2 DEF ForwardPass
  <1>10. CASE DataWeightGradient \/ DataInputGradient
    <2>1. counter' = counter /\ Quiet
      BY <1>4, <1>10 DEF DataWeightGradient, DataInputGradient
    <2>2. QED BY <1>1, <1>3, <1>10, <2>1 DEF DataWeightGradient, DataInputGradient
  <1>11. CASE InputGradient \/ WeightGradient
    <2>1. counter' = counter /\ Quiet
      BY <1>4, <1>11 DEF InputGradient, WeightGradient
    <2>2. QED BY <1>1, <1>3, <1>11, <2>1 DEF InputGradient, WeightGradient
  <1>12. CASE SweepInputGradient
    <2>1. counter' = counter /\ Quiet
      BY <1>4, <1>12 DEF SweepInputGradient
    <2>2. QED BY <1>1, <1>3, <1>12, <2>1 DEF SweepInputGradient
  <1>13. CASE SweepWeightGradient
    <2>1. counter' = counter /\ (Quiet \/ Reports)
      BY <1>4, <1>5, <1>13 DEF SweepWeightGradient
    <2>2. QED BY <1>1, <1>3, <1>13, <2>1 DEF SweepWeightGradient
  <1>14. QED BY <1>6, <1>7, <1>8, <1>9, <1>10, <1>11, <1>12, <1>13 DEF Iterate
------------------------------------------------------------------------------
\* A piece is a phase and a layer.
LEMMA PieceParts ==
  ASSUME NEW x \in Piece
  PROVE  /\ x[1] \in {"fwd", "ig", "wg"} /\ x[2] \in Layer /\ x = <<x[1], x[2]>>
         /\ x = Here <=> x[1] = Phase /\ x[2] = index
  <1>1. x[1] \in {"fwd", "ig", "wg"} /\ x[2] \in Layer /\ x = <<x[1], x[2]>>
    BY DEF Piece
  <1>2. QED BY <1>1 DEF Here

\* The pieces of each policy.
LEMMA WorkParts ==
  ASSUME NEW x \in Piece
  PROVE  x \in Work <=>
           /\ Policy # "MicroBenchmark"
           /\ Policy = "DistributedInference" => x[1] = "fwd"
           /\ Policy \in {"Data", "DLRM"} => ~ (x[1] = "ig" /\ x[2] = 0)
  <1>1. x[1] \in {"fwd", "ig", "wg"} /\ x[2] \in Layer /\ x = <<x[1], x[2]>>
    BY PieceParts
  <1>2. x \in {"fwd"} \X Layer <=> x[1] = "fwd"
    BY <1>1
  <1>3. x = <<"ig", 0>> <=> x[1] = "ig" /\ x[2] = 0
    BY <1>1
  <1>4. CASE Policy = "MicroBenchmark"
    BY <1>4 DEF Work
  <1>5. CASE Policy = "DistributedInference"
    BY <1>2, <1>5 DEF Work
  <1>6. CASE Policy \in {"Data", "DLRM"}
    BY <1>3, <1>6 DEF Work
  <1>7. CASE Policy \notin {"MicroBenchmark", "DistributedInference", "Data", "DLRM"}
    BY <1>7 DEF Work
  <1>8. QED BY <1>4, <1>5, <1>6, <1>7

LEMMA WorkIsPieces == Work \subseteq Piece
  BY DEF Work, Piece

\* The piece the workload is at is one of the pass, and not begun before.
LEMMA HereIsWork ==
  ASSUME Types, Places, ~ Ended, Policy # "MicroBenchmark"
  PROVE  Here \in Work /\ ~ Past(Here)
  <1>1. /\ Here \in Piece /\ Here[1] = Phase /\ Here[2] = index
        /\ index \in Int
    BY HereIsPiece, WorkloadAssumption DEF Here, Types, Layer
  <1>2. Here \in Work
    <2>1. Policy = "DistributedInference" => Phase = "fwd"
      BY DEF Places, Ended, Phase
    <2>2. Policy \in {"Data", "DLRM"} => ~ (Phase = "ig" /\ index = 0)
      BY <1>1 DEF Places, Phase
    <2>3. QED BY <1>1, <2>1, <2>2, WorkParts
  <1>3. ~ Past(Here)
    BY <1>1 DEF Past, PastAt, Phase, LayerWise, Places, Types, Ended
  <1>4. QED BY <1>2, <1>3

\* Going on, the piece left behind is the only one that comes to lie before.
LEMMA PastGrows ==
  ASSUME Types, Places, ~ Ended, Policy # "MicroBenchmark", GoesOn, NEW x \in Work
  PROVE  PastAt(x, current_state', index') <=> Past(x) \/ x = Here
  <1>1. /\ x \in Piece
        /\ x[1] \in {"fwd", "ig", "wg"} /\ x[2] \in Layer
        /\ x = Here <=> x[1] = Phase /\ x[2] = index
    BY WorkIsPieces, PieceParts
  <1>2. /\ Policy = "DistributedInference" => x[1] = "fwd"
        /\ Policy \in {"Data", "DLRM"} => ~ (x[1] = "ig" /\ x[2] = 0)
    BY <1>1, WorkParts
  <1>3. /\ x[2] \in Int /\ x[2] >= 0 /\ x[2] =< Size - 1
        /\ index \in Int /\ index >= 0 /\ index =< Size - 1 /\ Size \in Int
    BY <1>1, WorkloadAssumption DEF Types, Layer
  <1>4. Policy \in Policies
    BY SetupTypes DEF Types
  <1>5. CASE current_state = "Forward_Pass" /\ current_state' = "Forward_Pass" /\ index' = index + 1
    BY <1>1, <1>3, <1>5 DEF Past, PastAt, Phase
  <1>6. CASE /\ current_state = "Forward_Pass" /\ index = Size - 1
             /\ Policy # "DistributedInference"
             /\ current_state' = Backward /\ index' = index
    <2>1. Past(x) \/ x = Here <=> x[1] = "fwd"
      BY <1>1, <1>3, <1>6 DEF Past, PastAt, Phase
    <2>2. CASE Policy \in {"Data", "DLRM"}
      BY <1>2, <1>3, <1>6, <2>1, <2>2 DEF PastAt, Backward, LayerWise
    <2>3. CASE Policy \notin {"Data", "DLRM"}
      BY <1>1, <1>3, <1>6, <2>1, <2>3 DEF PastAt, Backward, LayerWise
    <2>4. QED BY <2>2, <2>3
  <1>7. CASE /\ Policy = "Data" /\ current_state = "Weight_Gradient" /\ index # 0
             /\ current_state' = "Input_Gradient" /\ index' = index
    BY <1>1, <1>3, <1>7 DEF Past, PastAt, Phase, LayerWise
  <1>8. CASE /\ Policy = "Data" /\ current_state = "Input_Gradient"
             /\ current_state' = "Weight_Gradient" /\ index' = index - 1
    BY <1>1, <1>3, <1>8 DEF Past, PastAt, Phase, LayerWise
  <1>9. CASE /\ Policy \in LayerWise /\ current_state = "Input_Gradient"
             /\ current_state' = "Weight_Gradient" /\ index' = index
    BY <1>1, <1>3, <1>9 DEF Past, PastAt, Phase, LayerWise
  <1>10. CASE /\ Policy \in LayerWise /\ current_state = "Weight_Gradient" /\ index # 0
              /\ current_state' = "Input_Gradient" /\ index' = index - 1
    BY <1>1, <1>3, <1>10 DEF Past, PastAt, Phase, LayerWise
  <1>11. CASE /\ Policy = "TransformerFwdInBckwd" /\ current_state = "Input_Gradient" /\ index = 0
              /\ current_state' = "Weight_Gradient" /\ index' = Size - 1
    BY <1>1, <1>3, <1>11 DEF Past, PastAt, Phase, LayerWise
  <1>12. CASE /\ Policy = "TransformerFwdInBckwd" /\ index # 0
              /\ current_state \in {"Input_Gradient", "Weight_Gradient"}
              /\ current_state' = current_state /\ index' = index - 1
    BY <1>1, <1>3, <1>12 DEF Past, PastAt, Phase, LayerWise
  <1>13. QED BY <1>5, <1>6, <1>7, <1>8, <1>9, <1>10, <1>11, <1>12 DEF GoesOn

\* At the last piece of a pass all others lie before it.
LEMMA LastOfPass ==
  ASSUME Types, ~ Ended, AtLast, NEW x \in Work
  PROVE  Past(x) \/ x = Here
  <1>1. /\ x \in Piece
        /\ x[1] \in {"fwd", "ig", "wg"} /\ x[2] \in Layer
        /\ x = Here <=> x[1] = Phase /\ x[2] = index
    BY WorkIsPieces, PieceParts
  <1>2. /\ Policy = "DistributedInference" => x[1] = "fwd"
        /\ Policy \in {"Data", "DLRM"} => ~ (x[1] = "ig" /\ x[2] = 0)
    BY <1>1, WorkParts
  <1>3. /\ x[2] \in Int /\ x[2] >= 0 /\ x[2] =< Size - 1
        /\ index \in Int /\ Size \in Int
    BY <1>1, WorkloadAssumption DEF Types, Layer
  <1>4. QED BY <1>1, <1>2, <1>3 DEF AtLast, Past, PastAt, Phase, LayerWise

\* Beginning the piece it is at, the workload counts it with those before.
LEMMA BeginCounts ==
  ASSUME Types, Places, Progress, Begins, NEW x \in Piece
  PROVE  loaded'[x] = IF x \notin Work THEN 0
                      ELSE IF Past(x) \/ x = Here THEN pass_counter + 1 ELSE pass_counter
  <1>1. /\ Here \in Piece /\ Here \in Work /\ ~ Past(Here)
        /\ loaded \in [Piece -> Nat]
        /\ loaded' = IF delay_loaded THEN loaded ELSE [loaded EXCEPT ![Here] = loaded[Here] + 1]
    BY HereIsPiece, HereIsWork DEF Begins, Types, Load
  <1>2. /\ loaded[x] = IF x \notin Work THEN 0
                       ELSE IF Begun(x) THEN pass_counter + 1 ELSE pass_counter
        /\ loaded[Here] = IF Begun(Here) THEN pass_counter + 1 ELSE pass_counter
    BY <1>1 DEF Progress
  <1>3. CASE delay_loaded
    BY <1>1, <1>2, <1>3 DEF Begun
  <1>4. CASE ~ delay_loaded /\ x = Here
    BY <1>1, <1>2, <1>4 DEF Begun
  <1>5. CASE ~ delay_loaded /\ x # Here
    BY <1>1, <1>2, <1>5 DEF Begun
  <1>6. QED BY <1>3, <1>4, <1>5
------------------------------------------------------------------------------
\* The counts stay right, whatever the call does.
LEMMA ProgressStep ==
  ASSUME Types, Places, Progress, ~ Ended,
         Rests \/ Stops \/ Stays \/ Advances \/ Closes
  PROVE  Progress'
  <1>1. setup' = setup
    BY DEF Rests, Stops, Stays, Advances, Closes, Begins
  <1>2. Policy' = Policy /\ Work' = Work
    BY <1>1 DEF Policy, Work
  <1>3. \A x : Past(x)' = PastAt(x, current_state', index')
    BY <1>2 DEF Past, PastAt
  <1>4. ASSUME NEW x \in Piece
        PROVE  loaded'[x] = IF x \notin Work THEN 0
                            ELSE IF Begun(x)' THEN pass_counter' + 1 ELSE pass_counter'
    <2>1. loaded[x] = IF x \notin Work THEN 0
                      ELSE IF Begun(x) THEN pass_counter + 1 ELSE pass_counter
      BY DEF Progress
    <2>2. CASE Rests
      <3>1. Begun(x)' = Begun(x)
        BY <1>2, <2>2 DEF Rests, Begun, Past, PastAt, Here, Phase
      <3>2. QED BY <2>1, <2>2, <3>1 DEF Rests
    <2>3. CASE Stops
      <3>1. ~ PastAt(x, current_state', index')
        BY <2>3 DEF Stops, PastAt
      <3>2. ~ delay_loaded /\ ~ delay_loaded'
        BY <2>3 DEF Stops, Places
      <3>3. ~ Begun(x)'
        BY <1>3, <3>1, <3>2 DEF Begun
      <3>4. CASE Policy = "MicroBenchmark"
        <4>1. x \notin Work
          BY <3>4, WorkParts
        <4>2. QED BY <2>1, <2>3, <4>1 DEF Stops
      <3>5. CASE Policy # "MicroBenchmark"
        <4>1. /\ pass_counter = setup.total_pass /\ pass_counter' = pass_counter
              /\ loaded' = loaded
          BY <2>3, <3>5 DEF Stops
        <4>2. current_state = "Forward_Pass" /\ index = 0
          BY <4>1 DEF Places
        <4>3. x[2] \in Layer /\ ~ (x[2] < 0)
          BY PieceParts, WorkloadAssumption DEF Layer
        <4>4. ~ Past(x)
          BY <4>2, <4>3 DEF Past, PastAt
        <4>5. ~ Begun(x)
          BY <3>2, <4>4 DEF Begun
        <4>6. QED BY <2>1, <3>3, <4>1, <4>5
      <3>6. QED BY <3>4, <3>5
    <2>4. CASE Stays
      <3>1. Begins /\ delay_loaded' /\ UNCHANGED <<index, current_state, pass_counter>>
        BY <2>4 DEF Stays
      <3>2. Begun(x)' <=> Past(x) \/ x = Here
        BY <1>2, <3>1 DEF Begun, Past, PastAt, Here, Phase
      <3>3. QED BY <3>1, <3>2, BeginCounts
    <2>5. CASE Advances
      <3>1. /\ Begins /\ ~ delay_loaded' /\ GoesOn /\ pass_counter' = pass_counter
            /\ Policy # "MicroBenchmark"
        BY <2>5 DEF Advances, Begins
      <3>2. Begun(x)' <=> PastAt(x, current_state', index')
        BY <1>3, <3>1 DEF Begun
      <3>3. x \in Work => (Begun(x)' <=> Past(x) \/ x = Here)
        BY <3>1, <3>2, PastGrows
      <3>4. QED BY <3>1, <3>3, BeginCounts
    <2>6. CASE Closes
      <3>1. /\ Begins /\ ~ delay_loaded' /\ AtLast /\ pass_counter' = pass_counter + 1
            /\ \/ current_state' = "Forward_Pass" /\ index' = 0
               \/ current_state' = "Wait_For_Sim_Finish"
        BY <2>6 DEF Closes
      <3>2. x[2] \in Layer /\ ~ (x[2] < 0)
        BY PieceParts, WorkloadAssumption DEF Layer
      <3>3. ~ PastAt(x, current_state', index')
        BY <3>1, <3>2 DEF PastAt
      <3>4. ~ Begun(x)'
        BY <1>3, <3>1, <3>3 DEF Begun
      <3>5. x \in Work => Past(x) \/ x = Here
        BY <3>1, LastOfPass
      <3>6. QED BY <3>1, <3>4, <3>5, BeginCounts
    <2>7. QED BY <2>2, <2>3, <2>4, <2>5, <2>6
  <1>5. QED BY <1>2, <1>4 DEF Progress

LEMMA PlacesStep ==
  ASSUME Types, Places, ~ Ended,
         Rests \/ Stops \/ Stays \/ Advances \/ Closes
  PROVE  Places'
  <1>1. setup' = setup /\ Policy' = Policy
    BY DEF Rests, Stops, Stays, Advances, Closes, Begins, Policy
  <1>2. CASE Rests
    BY <1>1, <1>2 DEF Rests, Places, Ended
  <1>3. CASE Stops
    BY <1>1, <1>3 DEF Stops, Places, Ended
  <1>4. CASE Stays
    BY <1>1, <1>4 DEF Stays, Begins, Places, Ended
  <1>5. CASE Advances
    <2>1. /\ Policy # "MicroBenchmark" /\ pass_counter' # setup'.total_pass
          /\ GoesOn /\ index \in Int
      BY <1>1, <1>5, WorkloadAssumption DEF Advances, Begins, Types, Layer
    <2>2. ~ Ended'
      BY <2>1 DEF GoesOn, Backward, Ended
    <2>3. Policy = "DistributedInference" => current_state' = "Forward_Pass"
      BY <2>1 DEF GoesOn, Places, Ended, LayerWise
    <2>4. Policy = "DLRM" =>
            /\ current_state' # "Input_Gradient"
            /\ current_state' = "Weight_Gradient" => index' = Size - 1
      BY <2>1 DEF GoesOn, Backward, LayerWise
    <2>5. CASE Policy = "Data" /\ current_state' = "Input_Gradient"
      <3>1. index' = index /\ index # 0
        BY <2>1, <2>5 DEF GoesOn, Backward, LayerWise
      <3>2. index' > 0
        BY <3>1, WorkloadAssumption DEF Types, Layer
      <3>3. QED BY <1>1, <2>1, <2>2, <2>5, <3>2 DEF Places
    <2>6. CASE ~ (Policy = "Data" /\ current_state' = "Input_Gradient")
      BY <1>1, <2>1, <2>2, <2>3, <2>4, <2>6 DEF Places
    <2>7. QED BY <2>5, <2>6
  <1>6. CASE Closes
    BY <1>1, <1>6 DEF Closes, Begins, Places, Ended
  <1>7. QED BY <1>2, <1>3, <1>4, <1>5, <1>6

LEMMA TypesStep ==
  ASSUME Types, Places, ~ Ended, counter' \in Cycles, datasets' \subseteq setup.active,
         Rests \/ Stops \/ Stays \/ Advances \/ Closes
  PROVE  Types'
  <1>1. setup' = setup
    BY DEF Rests, Stops, Stays, Advances, Closes, Begins
  <1>2. /\ setup.total_pass \in Nat /\ Here \in Piece
        /\ pass_counter \in Nat /\ pass_counter =< setup.total_pass
        /\ index \in Int /\ index >= 0 /\ index =< Size - 1 /\ Size \in Nat \ {0}
    BY SetupTypes, HereIsPiece, WorkloadAssumption DEF Types, Layer
  <1>3. loaded' \in [Piece -> Nat]
    <2>1. CASE Load
      BY <1>2, <2>1 DEF Load, Types
    <2>2. CASE loaded' = loaded
      BY <2>2 DEF Types
    <2>3. QED BY <2>1, <2>2 DEF Rests, Stops, Stays, Advances, Closes, Begins
  <1>4. /\ pass_counter' \in 0 .. setup.total_pass /\ delay_loaded' \in BOOLEAN
        /\ index' \in Layer
        /\ current_state' \in {"Forward_Pass", "Input_Gradient", "Weight_Gradient",
                               "Wait_For_Sim_Finish"}
    <2>1. CASE Rests
      BY <2>1 DEF Rests, Types
    <2>2. CASE Stops
      BY <1>2, <2>2 DEF Stops, Types
    <2>3. CASE Stays
      BY <2>3 DEF Stays, Types
    <2>4. CASE Advances
      <3>1. /\ pass_counter' = pass_counter /\ delay_loaded' = FALSE /\ GoesOn
        BY <2>4 DEF Advances, Begins, Load, Types
      <3>2. index' \in Layer
        <4>1. index' \in Int /\ index' >= 0 /\ index' =< Size - 1
          <5>1. \/ index' = index + 1 /\ index < Size - 1
                \/ index' = index
                \/ index' = index - 1 /\ index # 0
                \/ index' = Size - 1
                \/ index' = index - 1 /\ Policy = "Data" /\ current_state = "Input_Gradient"
            BY <3>1 DEF GoesOn
          <5>2. Policy = "Data" /\ current_state = "Input_Gradient" => index # 0
            BY <1>2 DEF Places
          <5>3. QED BY <1>2, <5>1, <5>2
        <4>2. QED BY <1>2, <4>1 DEF Layer
      <3>3. QED BY <3>1, <3>2 DEF GoesOn, Backward, Types
    <2>5. CASE Closes
      <3>1. pass_counter' = pass_counter + 1 /\ pass_counter # setup.total_pass
        BY <2>5 DEF Closes, Begins
      <3>2. pass_counter' \in 0 .. setup.total_pass
        BY <1>2, <3>1
      <3>3. 0 \in Layer /\ index \in Layer
        BY <1>2 DEF Layer
      <3>4. QED BY <2>5, <3>2, <3>3 DEF Closes
    <2>6. QED BY <2>1, <2>2, <2>3, <2>4, <2>5
  <1>5. QED BY <1>1, <1>3, <1>4 DEF Types

\* The workload counts itself finished in the call that ends it.
LEMMA FinishStep ==
  ASSUME Inv, Types, Single, Finish, ~ Ended, Iterate
  PROVE  Finish'
  <1>1. finished_workloads = 0
    BY DEF Finish
  <1>2. CASE finished_workloads' = finished_workloads /\ (Ended' => Ended)
    BY <1>1, <1>2 DEF Finish
  <1>3. CASE /\ Return /\ Ended'
             /\ \/ finished_workloads' = finished_workloads
                \/ finished_workloads' = finished_workloads + 1 /\ datasets' = {}
    <2>1. Uncalled = 0
      BY CallMoves, CallIsOnly
    <2>2. Uncalled' = 0 /\ called' = None
      BY <1>3, <2>1, ReturnCounts DEF Return
    <2>3. Threads' = 0
      BY <2>2 DEF Threads
    <2>4. QED BY <1>1, <1>3, <2>3 DEF Finish
  <1>4. QED BY <1>2, <1>3, CallReports

LEMMA WorkloadInv == WorkloadInit => WInv
  <1> SUFFICES ASSUME WorkloadInit
               PROVE  WInv
    OBVIOUS
  <1>1. EventsInit /\ called = "General" /\ setup \in Setup
    BY DEF WorkloadInit
  <1>2. Inv /\ PendingCounted /\ Uncalled = 0
    BY <1>1, InvInit, CountedInit
  <1>3. called # None
    BY <1>1, EventsAssumption, WorkloadAssumption
  <1>4. Threads = 1
    BY <1>2, <1>3 DEF Threads
  <1>5. /\ 0 \in Layer /\ 0 \in Cycles /\ \A i \in Layer : ~ (i < 0)
    BY WorkloadAssumption, EventsAssumption DEF Layer, Cycles
  <1>6. /\ index = 0 /\ current_state = "Forward_Pass" /\ counter = 0 /\ delay_loaded = FALSE
        /\ pass_counter = 0 /\ datasets = {} /\ loaded = [x \in Piece |-> 0]
        /\ finished_workloads = 0 /\ ~ Ended
    BY DEF WorkloadInit, Ended
  <1>7. Types
    <2>1. setup.total_pass \in Nat
      BY <1>1, SetupTypes
    <2>2. loaded \in [Piece -> Nat]
      BY <1>6
    <2>3. pass_counter \in 0 .. setup.total_pass
      BY <1>6, <2>1
    <2>4. QED BY <1>1, <1>5, <1>6, <2>2, <2>3 DEF Types
  <1>8. Places
    BY <1>6 DEF Places
  <1>9. Progress
    <2>1. ASSUME NEW x \in Piece
          PROVE  ~ Begun(x)
      <3>1. x[2] \in Layer
        BY PieceParts
      <3>2. QED BY <1>5, <1>6, <3>1 DEF Begun, Past, PastAt
    <2>2. QED BY <1>6, <2>1 DEF Progress
  <1>10. QED BY <1>2, <1>4, <1>6, <1>7, <1>8, <1>9 DEF WInv, Single, Finish

\* The invariant is inductive.
LEMMA WorkloadStep == WInv /\ [Next]_vars => WInv'
  <1> SUFFICES ASSUME WInv, [Next]_vars
               PROVE  WInv'
    OBVIOUS
  <1>1. Inv /\ PendingCounted /\ Types /\ Places /\ Progress /\ Single /\ Finish
    BY DEF WInv
  <1>2. CASE Iterate
    <2>1. called # None /\ Threads = 1 /\ ~ Ended
      BY <1>1, <1>2, CallMoves, CallIsOnly DEF Finish
    <2>2. Rests \/ Stops \/ Stays \/ Advances \/ Closes
      BY <1>1, <1>2, <2>1, CallKinds
    <2>3. counter' \in Cycles /\ datasets' \subseteq setup.active
      BY <1>1, <1>2, CallReports
    <2>4. Types' /\ Places' /\ Progress'
      BY <1>1, <2>1, <2>2, <2>3, TypesStep, PlacesStep, ProgressStep
    <2>5. Finish' /\ Inv' /\ PendingCounted' /\ Single'
      BY <1>1, <1>2, <2>1, FinishStep, CallSide
    <2>6. QED BY <2>4, <2>5 DEF WInv
  <1>3. ASSUME UNCHANGED wvars
        PROVE  /\ Types' = Types /\ Places' = Places /\ Progress' = Progress
               /\ Stopped' = Stopped /\ Ended' = Ended
               /\ finished_workloads' = finished_workloads /\ datasets' = datasets
    <2>1. Policy' = Policy /\ Work' = Work
      BY <1>3 DEF wvars, Policy, Work
    <2>2. Ended' = Ended
      BY <1>3 DEF wvars, Ended
    <2>3. \A x : Begun(x)' = Begun(x)
      BY <1>3, <2>1 DEF wvars, Begun, Past, PastAt, Here, Phase
    <2>4. Types' = Types
      BY <1>3 DEF wvars, Types
    <2>5. Places' = Places
      BY <1>3, <2>1, <2>2 DEF wvars, Places
    <2>6. Progress' = Progress
      BY <1>3, <2>1, <2>3 DEF wvars, Progress
    <2>7. QED BY <1>3, <2>1, <2>2, <2>4, <2>5, <2>6 DEF wvars, Stopped
  <1>4. CASE CallEvents /\ UNCHANGED wvars
    <2>1. Inv' /\ PendingCounted' /\ Threads' = Threads
      BY <1>1, <1>4, WalkSide
    <2>2. Single' /\ Finish'
      BY <1>1, <1>3, <1>4, <2>1 DEF Single, Finish
    <2>3. QED BY <1>1, <1>3, <1>4, <2>1, <2>2 DEF WInv
  <1>5. CASE UNCHANGED vars
    <2>1. UNCHANGED wvars /\ UNCHANGED events
      BY <1>5 DEF vars
    <2>2. Inv' /\ pending_events' = pending_events /\ called' = called
      BY <1>1, <2>1 DEF events, Inv, EventsTypeOK, Woken
    <2>3. batch' = batch /\ Lengths' = Lengths /\ Open' = Open
      BY <2>1 DEF events, Lengths, Open
    <2>4. Uncalled' = Uncalled
      BY <2>3, UncalledIsTotal, UncalledIsTotalNext
    <2>5. PendingCounted' /\ Threads' = Threads
      BY <1>1, <2>2, <2>4 DEF PendingCounted, Threads
    <2>6. Single' /\ Finish'
      BY <1>1, <1>3, <2>1, <2>5 DEF Single, Finish
    <2>7. QED BY <1>1, <1>3, <2>1, <2>2, <2>5, <2>6 DEF WInv
  <1>6. QED BY <1>2, <1>4, <1>5 DEF Next

LEMMA WInvAlways == Spec => []WInv
  BY WorkloadInv, WorkloadStep, PTL DEF Spec

\* A piece is begun in no pass beyond the last.
LEMMA LoadedInPasses ==
  ASSUME WInv, NEW x \in Piece
  PROVE  loaded[x] \in 0 .. setup.total_pass
  <1>1. /\ Types /\ Places
        /\ loaded[x] = IF x \notin Work THEN 0
                       ELSE IF Begun(x) THEN pass_counter + 1 ELSE pass_counter
    BY DEF WInv, Progress
  <1>2. setup.total_pass \in Nat /\ pass_counter \in Nat /\ pass_counter =< setup.total_pass
    BY <1>1, SetupTypes DEF Types
  <1>3. CASE pass_counter = setup.total_pass
    <2>1. Ended \/ (current_state = "Forward_Pass" /\ index = 0)
      BY <1>1, <1>3 DEF Places
    <2>2. ~ delay_loaded
      BY <1>1, <1>3 DEF Places
    <2>3. x[2] \in Layer /\ ~ (x[2] < 0)
      BY PieceParts, WorkloadAssumption DEF Layer
    <2>4. ~ Begun(x)
      BY <2>1, <2>2, <2>3 DEF Begun, Past, PastAt, Ended
    <2>5. QED BY <1>1, <1>2, <2>4
  <1>4. CASE pass_counter # setup.total_pass
    BY <1>1, <1>2, <1>4
  <1>5. QED BY <1>3, <1>4
------------------------------------------------------------------------------
\* The walk stays within its layers, its passes and the collectives of the file,
\* and begins nothing in a pass beyond the last (workload_iterators.py).
THEOREM WorkloadTypeCorrect == Spec => []TypeOK
  <1>1. ASSUME WInv
        PROVE  TypeOK
    <2>1. Inv /\ Types
      BY <1>1 DEF WInv
    <2>2. \A x \in Piece : loaded[x] \in 0 .. setup.total_pass
      BY <1>1, LoadedInPasses
    <2>3. loaded \in [Piece -> 0 .. setup.total_pass]
      BY <2>1, <2>2 DEF Types
    <2>4. QED BY <2>1, <2>3 DEF TypeOK, Types, Inv
  <1>2. WInv => TypeOK
    BY <1>1
  <1>3. QED BY <1>2, WInvAlways, PTL

\* The workload walks in one thread of events, and is without one only where
\* nothing has to come after (workload_base.py:158-180, workload_iterators.py).
THEOREM WalksInOneThread == Spec => []OneThread
  <1>1. WInv => OneThread
    BY DEF WInv, Single, Threads, OneThread
  <1>2. QED BY <1>1, WInvAlways, PTL

\* A workload that counts itself finished has begun every piece in every pass,
\* holds no collective and has left no event behind, and it does so once
\* (workload_base.py:218-237).
THEOREM FinishedOnlyWhenDone == Spec => []FinishedMeansDone
  <1>1. ASSUME WInv
        PROVE  FinishedMeansDone
    <2>1. CASE finished_workloads = 0
      BY <2>1 DEF FinishedMeansDone
    <2>2. CASE finished_workloads = 1 /\ Ended /\ datasets = {}
      <3>1. pass_counter = setup.total_pass /\ ~ delay_loaded
        BY <1>1, <2>2 DEF WInv, Places
      <3>2. ASSUME NEW x \in Work
            PROVE  loaded[x] = setup.total_pass
        <4>1. x \in Piece
          BY WorkIsPieces
        <4>2. ~ Begun(x)
          BY <2>2, <3>1 DEF Begun, Past, PastAt, Ended
        <4>3. QED BY <1>1, <3>1, <4>1, <4>2 DEF WInv, Progress
      <3>3. Threads = 0 /\ pending_events = Uncalled
        BY <1>1, <2>2 DEF WInv, Finish, PendingCounted
      <3>4. Uncalled \in Nat
        <4>1. EventsTypeOK
          BY <1>1 DEF WInv, Inv
        <4>2. Len(batch) \in Nat /\ Total(Lengths, Open) \in Nat
          BY <4>1, LengthsAreNumbers
        <4>3. QED BY <4>2, UncalledIsTotal
      <3>5. pending_events = 0
        BY <3>3, <3>4 DEF Threads
      <3>6. QED BY <2>2, <3>2, <3>5 DEF FinishedMeansDone
    <2>3. QED BY <1>1, <2>1, <2>2 DEF WInv, Finish
  <1>2. WInv => FinishedMeansDone
    BY <1>1
  <1>3. QED BY <1>2, WInvAlways, PTL
------------------------------------------------------------------------------
\* The refinement.  The passes that are over are those of the piece that was
\* begun least often.
CountsOf(f, W) == {f[x] : x \in W}
Near(f, W, n) == \A x \in W : f[x] = n \/ f[x] = n + 1

LEMMA LeastCount ==
  ASSUME NEW n \in Nat, NEW W, W # {}, NEW f, Near(f, W, n)
  PROVE  Min(CountsOf(f, W)) = IF \E x \in W : f[x] = n THEN n ELSE n + 1
  <1> DEFINE Counts == {f[x] : x \in W}
  <1>1. Counts \in SUBSET Nat /\ Counts # {} /\ \A x \in W : f[x] = n \/ f[x] = n + 1
    BY DEF Near
  <1>2. \A m \in Counts : \E x \in W : m = f[x]
    OBVIOUS
  <1>3. \A x \in W : f[x] \in Counts
    OBVIOUS
  <1> HIDE DEF Counts
  <1>4. Min(Counts) \in Counts
    BY <1>1, MinIsMember
  <1>5. \A m \in Counts : ~ (m < Min(Counts))
    BY <1>1, MinIsLeast
  <1>6. Min(Counts) = IF \E x \in W : f[x] = n THEN n ELSE n + 1
    <2>1. CASE \E x \in W : f[x] = n
      <3>1. n \in Counts
        BY <1>3, <2>1
      <3>2. Min(Counts) = n \/ Min(Counts) = n + 1
        BY <1>1, <1>2, <1>4
      <3>3. ~ (n < Min(Counts))
        BY <1>5, <3>1
      <3>4. QED BY <2>1, <3>2, <3>3
    <2>2. CASE ~ \E x \in W : f[x] = n
      BY <1>1, <1>2, <1>4, <2>2
    <2>3. QED BY <2>1, <2>2
  <1>7. QED BY <1>6 DEF Counts, CountsOf

\* All the pieces that training wants before this one lie before it.
LEMMA BeforeIsPast ==
  ASSUME Types, Places, ~ Ended, NEW y \in Work, y \in T!Before(Here)
  PROVE  Past(y)
  <1>1. /\ y \in Piece
        /\ y[1] \in {"fwd", "ig", "wg"} /\ y[2] \in Layer
        /\ Here[1] = Phase /\ Here[2] = index
    BY WorkIsPieces, PieceParts DEF Here
  <1>2. T!Layer = Layer
    BY DEF T!Layer, Layer
  <1>3. \/ Phase = "fwd" /\ y[1] = "fwd" /\ y[2] < index
        \/ Phase # "fwd" /\ y[1] = "fwd"
        \/ Phase # "fwd" /\ y[1] = Phase /\ y[2] > index
    BY <1>1, <1>2 DEF T!Before
  <1>4. QED BY <1>3 DEF Types, Phase, Past, PastAt, Ended

\* While some piece has not been begun in this pass, the passes that are over
\* are those the workload has counted.
LEMMA PassBefore ==
  ASSUME WInv, NEW y \in Work, ~ Begun(y)
  PROVE  /\ Pass = pass_counter
         /\ \A x \in Work : loaded[x] = Pass <=> ~ Begun(x)
  <1>1. pass_counter \in Nat /\ Work \subseteq Piece
    BY WorkIsPieces, SetupTypes DEF WInv, Types
  <1>2. \A x \in Work : loaded[x] = IF Begun(x) THEN pass_counter + 1 ELSE pass_counter
    BY <1>1 DEF WInv, Progress
  <1>3. /\ \A x \in Work : loaded[x] = pass_counter \/ loaded[x] = pass_counter + 1
        /\ \E x \in Work : loaded[x] = pass_counter
    BY <1>1, <1>2
  <1>4. Min(CountsOf(loaded, Work)) = pass_counter
    <2>1. Near(loaded, Work, pass_counter)
      BY <1>3 DEF Near
    <2>2. QED BY <1>1, <1>3, <2>1, LeastCount
  <1>5. QED BY <1>1, <1>2, <1>4 DEF Pass, CountsOf

\* Taking the time of a piece is to begin it.
LEMMA BeginsTraining ==
  ASSUME WInv, Begins, ~ Ended, ~ delay_loaded
  PROVE  T!Begin(Here)
  <1> DEFINE Todo == {x \in Work : loaded[x] = Pass}
             Todo1 == {x \in Work : loaded'[x] = Pass'}
  <1>1. /\ Types /\ Places /\ Progress /\ Policy # "MicroBenchmark"
        /\ setup' = setup /\ Work' = Work
        /\ pass_counter # setup.total_pass
    BY DEF WInv, Begins, Work, Policy
  <1>2. Here \in Work /\ ~ Past(Here) /\ ~ Begun(Here)
    BY <1>1, HereIsWork DEF Begun
  <1>3. /\ pass_counter \in Nat /\ setup.total_pass \in Nat
        /\ pass_counter < setup.total_pass /\ Work \subseteq Piece
    BY <1>1, WorkIsPieces, SetupTypes DEF Types
  <1>4. Pass = pass_counter /\ \A x \in Work : x \in Todo <=> ~ Past(x)
    <2>1. /\ Pass = pass_counter
          /\ \A x \in Work : loaded[x] = Pass <=> ~ Begun(x)
      BY <1>2, PassBefore
    <2>2. QED BY <2>1 DEF Begun
  <1>5. \A x \in Work : loaded'[x] = IF Past(x) \/ x = Here THEN pass_counter + 1
                                     ELSE pass_counter
    BY <1>1, <1>3, BeginCounts
  <1>6. Pass' = Min(CountsOf(loaded', Work))
    BY <1>1, <1>2 DEF Pass, CountsOf
  <1>7. Min(CountsOf(loaded', Work)) = IF \E x \in Work : loaded'[x] = pass_counter
                                         THEN pass_counter ELSE pass_counter + 1
    <2>1. Work # {} /\ Near(loaded', Work, pass_counter)
      BY <1>2, <1>5 DEF Near
    <2>2. QED BY <1>3, <2>1, LeastCount
  <1>8. Pass' = IF \E x \in Work : ~ Past(x) /\ x # Here THEN pass_counter ELSE pass_counter + 1
    <2>1. \A x \in Work : loaded'[x] = pass_counter <=> ~ Past(x) /\ x # Here
      BY <1>3, <1>5
    <2>2. QED BY <1>6, <1>7, <2>1
  <1>9. Todo \cap T!Before(Here) = {}
    BY <1>1, <1>4, BeforeIsPast
  <1>10. Here \in Todo
    BY <1>2, <1>4
  <1>11. CASE Todo = {Here}
    <2>1. \A x \in Work : Past(x) \/ x = Here
      BY <1>4, <1>11
    <2>2. Pass' = pass_counter + 1 /\ \A x \in Work : loaded'[x] = pass_counter + 1
      BY <1>5, <1>8, <2>1
    <2>3. Todo1 = Work
      BY <2>2
    <2>4. QED BY <1>1, <1>3, <1>4, <1>9, <1>11, <2>2, <2>3 DEF T!Begin
  <1>12. CASE Todo # {Here}
    <2>1. Pass' = pass_counter
      BY <1>4, <1>8, <1>10, <1>12
    <2>2. \A x \in Work : x \in Todo1 <=> ~ Past(x) /\ x # Here
      BY <1>3, <1>5, <2>1
    <2>3. Todo1 = Todo \ {Here}
      BY <1>4, <2>2
    <2>4. QED BY <1>1, <1>3, <1>4, <1>9, <1>10, <1>12, <2>1, <2>3 DEF T!Begin
  <1>13. QED BY <1>11, <1>12

\* A step of the node begins one piece, or is none of training's.
LEMMA TrainingStep ==
  ASSUME WInv, [Next]_vars
  PROVE  [T!Next]_(T!vars)
  <1>1. ASSUME setup' = setup, loaded' = loaded
        PROVE  UNCHANGED T!vars
    <2>1. Work' = Work
      BY <1>1 DEF Work, Policy
    <2>2. Pass' = Pass
      BY <1>1, <2>1 DEF Pass
    <2>3. QED BY <1>1, <2>1, <2>2 DEF T!vars
  <1>2. CASE Iterate
    <2>1. called # None /\ ~ Ended
      <3>1. called # None
        BY <1>2, CallMoves DEF WInv
      <3>2. QED BY <3>1, CallIsOnly DEF WInv, Finish
    <2>2. Rests \/ Stops \/ Stays \/ Advances \/ Closes
      BY <1>2, <2>1, CallKinds DEF WInv
    <2>3. CASE Rests \/ Stops
      BY <1>1, <2>3 DEF Rests, Stops
    <2>4. CASE Begins
      <3>1. CASE delay_loaded
        BY <1>1, <2>4, <3>1 DEF Begins, Load
      <3>2. CASE ~ delay_loaded
        <4>1. T!Begin(Here)
          BY <2>1, <2>4, <3>2, BeginsTraining
        <4>2. Here \in T!Piece
          BY HereIsPiece DEF WInv, Piece, Layer, T!Piece, T!Layer
        <4>3. T!Next
          BY <4>1, <4>2 DEF T!Next, T!Begin
        <4>4. QED BY <4>3
      <3>3. QED BY <3>1, <3>2
    <2>5. QED BY <2>2, <2>3, <2>4 DEF Stays, Advances, Closes
  <1>3. CASE UNCHANGED wvars
    BY <1>1, <1>3 DEF wvars
  <1>4. QED BY <1>2, <1>3 DEF Next, vars

LEMMA TrainingInit == WorkloadInit => T!Init
  <1> SUFFICES ASSUME WorkloadInit
               PROVE  T!Init
    OBVIOUS
  <1>1. WInv /\ pass_counter = 0 /\ loaded = [x \in Piece |-> 0]
    BY WorkloadInv DEF WorkloadInit
  <1>2. Work \subseteq Piece /\ setup.total_pass \in Nat /\ T!Piece = Piece
    BY <1>1, WorkIsPieces, SetupTypes DEF WInv, Types, Piece, Layer, T!Piece, T!Layer
  <1>3. \A x \in Work : loaded[x] = 0
    BY <1>1, <1>2
  <1>4. Pass = 0
    <2>1. CASE Work = {}
      BY <2>1 DEF Pass
    <2>2. CASE Work # {}
      <3> DEFINE n == 0
      <3>1. n \in Nat /\ \A x \in Work : loaded[x] = n
        BY <1>3
      <3>2. n = 0
        OBVIOUS
      <3> HIDE DEF n
      <3>3. Min(CountsOf(loaded, Work)) = n
        <4>1. Near(loaded, Work, n)
          BY <3>1 DEF Near
        <4>2. QED BY <2>2, <3>1, <4>1, LeastCount
      <3>4. QED BY <2>2, <3>2, <3>3 DEF Pass, CountsOf
    <2>3. QED BY <2>1, <2>2
  <1>5. QED BY <1>2, <1>3, <1>4 DEF T!Init

\* Whatever its policy, its layers and its collectives, a workload does what
\* training allows: each piece once in each pass, forward before backward, the
\* gradients from the last layer to the first.
THEOREM WorkloadTrains == Spec => RefinesTraining
  <1>1. WInv /\ [Next]_vars => [T!Next]_(T!vars)
    BY TrainingStep
  <1>2. QED BY <1>1, TrainingInit, WInvAlways, PTL DEF Spec, RefinesTraining
==============================================================================
