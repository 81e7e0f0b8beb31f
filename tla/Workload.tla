------------------------------- MODULE Workload -------------------------------
(***************************************************************************)
(* workload/workload_base.py and workload_iterators.py: a node walks the   *)
(* layers of its workload, forward and backward, one call of the iterator  *)
(* at a time.  A call loads the compute time of a piece of work and waits, *)
(* or issues the collective of the layer and waits, or moves on and leaves *)
(* an event for the next call.                                             *)
(* One action is one path through a call.  A blocking collective that has  *)
(* nothing to do calls the workload again before the first call returns    *)
(* (layer_communication.py:43,117,130): called then stays what it is.      *)
(* A collective that is active injects streams that nothing starts (no     *)
(* code calls Sys.schedule), so its data set stays outstanding.            *)
(***************************************************************************)
EXTENDS SysEvents

CONSTANTS
  Size,          \* the layers, counted from 0
  LastBottom,    \* dlrm_last_bottom_layer
  Setup          \* what the workload file and the arguments may fix

Layer == 0 .. Size - 1
Piece == {"fwd", "ig", "wg"} \X Layer

Policies == {"MicroBenchmark", "Data", "TransformerFwdInBckwd", "Transformer", "DLRM",
             "Model", "HybridDataModel", "HybridModelData", "DistributedInference"}

ASSUME WorkloadAssumption ==
  /\ Size \in Nat \ {0} /\ LastBottom \in Int
  /\ {"General", "Workload_Wait"} \subseteq Event /\ MaxCycles > 0
  /\ Setup \subseteq [policy : Policies, id : Nat, total_pass : Nat,
                      time : [Piece -> Cycles], active : SUBSET Piece,
                      all_to_all : SUBSET Layer]

VARIABLES
  setup,             \* [policy, id, total_pass, time, active, all_to_all]: the collectives
                     \* that inject streams when issued, the layers with forward All_to_All
  index, current_state, counter, delay_loaded, collective_issued, pass_counter,
  datasets,          \* the collectives outstanding, by the dictionary they are in
  loaded,            \* how often the compute time of each piece was taken
  finished_workloads

wvars == <<setup, index, current_state, counter, delay_loaded, collective_issued,
           pass_counter, datasets, loaded, finished_workloads>>
vars == <<wvars, events>>

Policy == setup.policy

\* The policies, by what their iterators do.
LayerWise == {"Transformer", "Model", "HybridDataModel", "HybridModelData"}
IssuesForward == LayerWise \cup {"TransformerFwdInBckwd", "DistributedInference"}
IssuesWeight == {"Transformer", "HybridDataModel", "HybridModelData"}

WorkloadInit ==
  /\ EventsInit /\ called = "General"
  /\ setup \in Setup
  /\ index = 0 /\ current_state = "Forward_Pass"
  /\ counter = 0 /\ delay_loaded = FALSE /\ collective_issued = FALSE
  /\ pass_counter = 0
  /\ datasets = {}
  /\ loaded = [x \in Piece |-> 0]
  /\ finished_workloads = 0

\* The piece of work the workload is at.
Phase == CASE current_state = "Forward_Pass" -> "fwd"
           [] current_state = "Input_Gradient" -> "ig"
           [] OTHER -> "wg"
Here == <<Phase, index>>
Time == setup.time[Here]
------------------------------------------------------------------------------
\* Slips the checks must notice: an event left in the tick being walked, a
\* counter that is waited for again and again, a move to the next layer that
\* forgets its compute time, layers counted past the first, a report that does
\* not wait for the streams.
LeavesInTick(e, c) == Register(e, 0) /\ called' = None
KeepsCounter(n) == n
KeepsLoaded(s) == s = current_state
PastFirst(i) == i < 0
ReportsBlindly(ds) == TRUE

\* The last thing a call does is to leave an event for the next one.
Leave(e, c) == Register(e, c) /\ called' = None

\* The backward pass ends with the first layer.
First(i) == i = 0

\* Issuing a collective leaves a data set in the layer if it has streams to
\* inject; the ones that are inactive or analytical leave nothing.
Issued(x) == datasets \cup ({x} \cap setup.active)

\* With a barrier, nothing to do means to call the workload at once.
IssueBlocking(x) ==
  /\ datasets' = Issued(x)
  /\ IF x \in setup.active THEN Return ELSE UNCHANGED events

\* The flag delay_loaded of the next piece.
KeepsDelay(s) == FALSE

\* On to another piece of work, with the flags reset.
Move(i, s, p) ==
  /\ index' = i /\ current_state' = s /\ pass_counter' = p
  /\ delay_loaded' = KeepsDelay(s) /\ collective_issued' = FALSE
  /\ Leave("General", 1)
  /\ UNCHANGED <<setup, counter, finished_workloads>>

\* A layer is reported with the sizes of its groups, which two parallelism
\* policies read from the file; with the others report divides by zero.
ReportRaises ==
  setup.id = 0 /\ Policy \notin {"Transformer", "TransformerFwdInBckwd"}

StreamsDone(ds) == ds = {}

\* check_for_sim_end once the passes are over: with streams injected it waits
\* for them, without it reports and counts itself finished.
SimEnds(ds) ==
  /\ current_state' = "Wait_For_Sim_Finish"
  /\ finished_workloads' =
       IF StreamsDone(ds) /\ ~ ReportRaises THEN finished_workloads + 1
       ELSE finished_workloads
  /\ Return

Cleared(n) == 0

\* Workload.call while a counter is left: it waits for it, and clears it.
WaitAgain ==
  /\ called # None /\ counter > 0
  /\ Leave("Workload_Wait", counter)
  /\ counter' = Cleared(counter)
  /\ UNCHANGED <<setup, index, current_state, delay_loaded, collective_issued,
                 pass_counter, datasets, loaded, finished_workloads>>

\* The iterators find the passes over.
CheckForSimEnd ==
  /\ called # None /\ counter = 0
  /\ Policy # "MicroBenchmark" /\ pass_counter = setup.total_pass
  /\ SimEnds(datasets)
  /\ UNCHANGED <<setup, index, counter, delay_loaded, collective_issued,
                 pass_counter, datasets, loaded>>

\* iterate_micro_benchmark: the collective once for each pass, and the end.
MicroBenchmark ==
  /\ called # None /\ Policy = "MicroBenchmark"
  /\ datasets' = IF setup.total_pass = 0 THEN datasets ELSE Issued(<<"wg", index>>)
  /\ pass_counter' = setup.total_pass
  /\ SimEnds(datasets')
  /\ UNCHANGED <<setup, index, counter, delay_loaded, collective_issued, loaded>>

Iterating(s) ==
  /\ called # None /\ counter = 0
  /\ Policy # "MicroBenchmark" /\ pass_counter # setup.total_pass
  /\ current_state = s

\* A layer is not entered again before its last weight gradients are exchanged.
WaitForWeights ==
  /\ Iterating("Forward_Pass")
  /\ <<"wg", index>> \in datasets
  /\ Return
  /\ UNCHANGED wvars

\* The compute time of the piece is taken once, at the first call.
Load == loaded' = IF delay_loaded THEN loaded ELSE [loaded EXCEPT ![Here] = @ + 1]

Entered(s) ==
  /\ Iterating(s)
  /\ s = "Forward_Pass" => <<"wg", index>> \notin datasets

Compute ==
  /\ Entered(current_state)
  /\ ~ delay_loaded /\ Time > 0
  /\ Leave("Workload_Wait", Time)
  /\ counter' = Time /\ delay_loaded' = TRUE
  /\ Load
  /\ UNCHANGED <<setup, index, current_state, collective_issued, pass_counter,
                 datasets, finished_workloads>>

\* The call goes on when the time has passed, or there was none.
Computed(s) ==
  /\ Entered(s)
  /\ delay_loaded \/ Time = 0
  /\ Load
------------------------------------------------------------------------------
IssueForwardPassComm ==
  /\ Computed("Forward_Pass")
  /\ Policy \in IssuesForward /\ ~ collective_issued
  /\ collective_issued' = TRUE /\ delay_loaded' = TRUE
  /\ IssueBlocking(Here)
  /\ UNCHANGED <<setup, index, current_state, counter, pass_counter, finished_workloads>>

\* DLRM exchanges embeddings all-to-all and needs those of layer 0 at the end of
\* the bottom layers.  It is the type of the collective that counts, active or not.
AllToAll(l) == Policy = "DLRM" /\ l \in setup.all_to_all

WaitForEmbeddings ==
  /\ Computed("Forward_Pass")
  /\ Policy = "DLRM" /\ index = LastBottom
  /\ ~ AllToAll(index)
  /\ <<"fwd", 0>> \in datasets
  /\ delay_loaded' = TRUE
  /\ Return
  /\ UNCHANGED <<setup, index, current_state, counter, collective_issued,
                 pass_counter, datasets, finished_workloads>>

\* What follows the forward pass of the last layer.
Backward == IF Policy \in {"Data", "DLRM"} THEN "Weight_Gradient" ELSE "Input_Gradient"

ForwardPass ==
  /\ Computed("Forward_Pass")
  /\ Policy \in IssuesForward => collective_issued
  /\ ~ (Policy = "DLRM" /\ index = LastBottom /\ ~ AllToAll(index)
        /\ <<"fwd", 0>> \in datasets)
  /\ datasets' = IF AllToAll(index) THEN Issued(Here) ELSE datasets
  /\ \/ index < Size - 1 /\ Move(index + 1, "Forward_Pass", pass_counter)
     \/ /\ index = Size - 1 /\ Policy = "DistributedInference"
        /\ Move(0, "Forward_Pass", pass_counter + 1)
     \/ /\ index = Size - 1 /\ Policy # "DistributedInference"
        /\ Move(index, Backward, pass_counter)

\* iterate_data_parallel: weights, then inputs, layer by layer.
DataWeightGradient ==
  /\ Computed("Weight_Gradient") /\ Policy = "Data"
  /\ datasets' = Issued(Here)
  /\ IF First(index) THEN Move(0, "Forward_Pass", pass_counter + 1)
     ELSE Move(index, "Input_Gradient", pass_counter)

DataInputGradient ==
  /\ Computed("Input_Gradient") /\ Policy = "Data"
  /\ Move(index - 1, "Weight_Gradient", pass_counter)
  /\ UNCHANGED datasets

\* iterate_hybrid_parallel_dlrm: the first weight gradient issues its collective
\* and raises (an undefined name), which the event loop swallows.
DlrmWeightGradient ==
  /\ Computed("Weight_Gradient") /\ Policy = "DLRM"
  /\ datasets' = Issued(Here)
  /\ collective_issued' = TRUE /\ delay_loaded' = TRUE
  /\ Return
  /\ UNCHANGED <<setup, index, current_state, counter, pass_counter, finished_workloads>>

\* Transformer, model, data-model and model-data: inputs, then weights, layer by
\* layer.  Only the transformer waits for its input collective at once.
IssueInputGradComm ==
  /\ Computed("Input_Gradient")
  /\ Policy = "Transformer" /\ ~ collective_issued
  /\ collective_issued' = TRUE /\ delay_loaded' = TRUE
  /\ IssueBlocking(Here)
  /\ UNCHANGED <<setup, index, current_state, counter, pass_counter, finished_workloads>>

InputGradient ==
  /\ Computed("Input_Gradient")
  /\ Policy \in LayerWise
  /\ Policy = "Transformer" => collective_issued
  /\ datasets' = IF Policy # "Transformer" /\ index > 0 THEN Issued(Here) ELSE datasets
  /\ Move(index, "Weight_Gradient", pass_counter)

WeightIssued ==
  IF Policy \in IssuesWeight /\ ~ collective_issued THEN Issued(Here) ELSE datasets

WaitForInputs ==
  /\ Computed("Weight_Gradient")
  /\ Policy \in LayerWise
  /\ <<"ig", index>> \in datasets
  /\ datasets' = WeightIssued
  /\ collective_issued' = (collective_issued \/ Policy \in IssuesWeight)
  /\ delay_loaded' = TRUE
  /\ Return
  /\ UNCHANGED <<setup, index, current_state, counter, pass_counter, finished_workloads>>

WeightGradient ==
  /\ Computed("Weight_Gradient")
  /\ Policy \in LayerWise
  /\ <<"ig", index>> \notin datasets
  /\ datasets' = WeightIssued
  /\ IF First(index) THEN Move(0, "Forward_Pass", pass_counter + 1)
     ELSE Move(index - 1, "Input_Gradient", pass_counter)

\* iterate_hybrid_parallel_transformer_fwd_in_bckwd: all inputs, then all
\* weights.  The wait for the layer's forward collective never comes to pass,
\* because that one was blocking.
SweepInputGradient ==
  /\ Computed("Input_Gradient") /\ Policy = "TransformerFwdInBckwd"
  /\ <<"fwd", index>> \notin datasets
  /\ datasets' = Issued(Here)
  /\ IF First(index) THEN Move(Size - 1, "Weight_Gradient", pass_counter)
     ELSE Move(index - 1, "Input_Gradient", pass_counter)

SweepWeightGradient ==
  /\ Computed("Weight_Gradient") /\ Policy = "TransformerFwdInBckwd"
  /\ datasets' = Issued(Here)
  /\ \/ index > 0 /\ Move(index - 1, "Weight_Gradient", pass_counter)
     \/ /\ index = 0 /\ pass_counter + 1 # setup.total_pass
        /\ Move(0, "Forward_Pass", pass_counter + 1)
     \/ /\ index = 0 /\ pass_counter + 1 = setup.total_pass
        /\ pass_counter' = pass_counter + 1
        /\ delay_loaded' = FALSE
        /\ SimEnds(datasets')
        /\ UNCHANGED <<setup, index, counter, collective_issued>>

Iterate ==
  \/ WaitAgain \/ CheckForSimEnd \/ MicroBenchmark
  \/ WaitForWeights \/ Compute
  \/ IssueForwardPassComm \/ WaitForEmbeddings \/ ForwardPass
  \/ DataWeightGradient \/ DataInputGradient \/ DlrmWeightGradient
  \/ IssueInputGradComm \/ InputGradient \/ WaitForInputs \/ WeightGradient
  \/ SweepInputGradient \/ SweepWeightGradient

Next == Iterate \/ (CallEvents /\ UNCHANGED wvars)

\* The loop of the simulator goes on while it has a task.
Spec == WorkloadInit /\ [][Next]_vars /\ WF_vars(Next)
------------------------------------------------------------------------------
\* The pieces of a pass.  With data parallelism the input of layer 0 has no
\* gradient, and a micro benchmark computes nothing.
Work ==
  CASE Policy = "MicroBenchmark" -> {}
    [] Policy = "DistributedInference" -> {"fwd"} \X Layer
    [] Policy \in {"Data", "DLRM"} -> Piece \ {<<"ig", 0>>}
    [] OTHER -> Piece

TypeOK ==
  /\ EventsTypeOK
  /\ index \in Layer
  /\ current_state \in {"Forward_Pass", "Input_Gradient", "Weight_Gradient",
                        "Wait_For_Sim_Finish"}
  /\ counter \in Cycles
  /\ pass_counter \in 0 .. setup.total_pass
  /\ datasets \subseteq setup.active
  /\ loaded \in [Piece -> 0 .. setup.total_pass]

\* The workload walks in one thread: while a call is on no event is waiting,
\* and between two calls there is one, until it has nothing more to wait for.
\* Two events would share the counter and the flags; none would stop it for
\* good (workload_base.py:158-180, workload_iterators.py).
Stopped ==
  \/ current_state = "Wait_For_Sim_Finish"
  \/ datasets # {}
  \/ Policy = "DLRM" /\ current_state = "Weight_Gradient"

OneThread ==
  LET threads == Uncalled + (IF called # None THEN 1 ELSE 0)
  IN  threads = 1 \/ (threads = 0 /\ Stopped)

\* The passes that are over, and what this one has still to begin.
Pass == IF Work = {} THEN 0 ELSE Min({loaded[x] : x \in Work})

T == INSTANCE Training WITH
       work <- Work, total_pass <- setup.total_pass,
       pass <- Pass, todo <- {x \in Work : loaded[x] = Pass}

\* Every policy does each piece of work once in each pass, in an order that
\* training allows: forward before backward, the last layer's gradient first.
RefinesTraining == T!Init /\ [][T!Next]_(T!vars)

\* A workload counts itself finished once, with all passes behind it and no
\* collective outstanding (workload_base.py:218-237).
FinishedMeansDone ==
  /\ finished_workloads <= 1
  /\ finished_workloads = 1 =>
       /\ \A x \in Work : loaded[x] = setup.total_pass
       /\ datasets = {} /\ pending_events = 0

\* The workloads whose collectives are analytical or inactive and which can be
\* reported come to their end (sys.py:488-490).
CanFinish == setup.active = {} /\ Policy # "DLRM" /\ ~ ReportRaises

Finishes == CanFinish ~> finished_workloads = 1

\* A counter for which a wait has been registered has been cleared.
CounterCleared ==
  \A c \in Cycles :
    called = None /\ "Workload_Wait" \in ToSet(event_queue[c]) => counter = 0
==============================================================================
