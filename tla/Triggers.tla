------------------------------- MODULE Triggers -------------------------------
(***************************************************************************)
(* core/trigger.py on top of the event list: a component that finishes     *)
(* activates triggers, a trigger puts its targets on the event list's      *)
(* stack, and do_next_event activates them from there one at a time.       *)
(* Targets are the flows to start; they belong to one trigger each.        *)
(***************************************************************************)
EXTENDS EventList, FiniteSets

CONSTANTS
  SingleShot, MultiShot, Barrier,  \* the triggers, by class
  Targets,                         \* _targets of each trigger
  ActivationsNeeded                \* the constructor's argument of each barrier

ASSUME TriggersAssumption ==
  /\ Targets \in [SingleShot \cup MultiShot \cup Barrier -> Seq(Target)]
  /\ ActivationsNeeded \in [Barrier -> Nat \ {0}]
  /\ SingleShot \cap MultiShot = {}
  /\ (SingleShot \cup MultiShot) \cap Barrier = {}

\* bind_triggers makes a new target for each connection and adds it to the one
\* trigger the connection names (datacenter/connection_matrix.py:517-523).
ASSUME OwnersAssumption ==
  \A t, u \in SingleShot \cup MultiShot \cup Barrier :
    \A i \in DOMAIN Targets[t], j \in DOMAIN Targets[u] :
      Targets[t][i] = Targets[u][j] => t = u /\ i = j

VARIABLES
  done,       \* _done of each single-shot trigger
  next,       \* _next of each multi-shot trigger
  remaining,  \* _activations_remaining of each barrier
  ran         \* how often each target has been activated

tvars == <<done, next, remaining, ran>>
vars == <<evars, tvars>>

TriggersInit ==
  /\ done = [t \in SingleShot |-> FALSE]
  /\ next = [t \in MultiShot |-> 0]
  /\ remaining = ActivationsNeeded
  /\ ran = [x \in Target |-> 0]

\* A slip the checks must notice: a barrier that opens one activation early.
BarrierOpensEarly(t) == remaining[t] <= 2

\* A second activation of a single-shot trigger fails an assertion.
ActivateSingleShot(t) ==
  /\ ~done[t]
  /\ Targets[t] # << >>
  /\ TriggersArePending(Targets[t])
  /\ done' = [done EXCEPT ![t] = TRUE]
  /\ UNCHANGED <<next, remaining, ran>>

\* Each activation starts the next target; when none is left it does nothing.
ActivateMultiShot(t) ==
  /\ next[t] < Len(Targets[t])
  /\ TriggersArePending(<<Targets[t][next[t] + 1]>>)
  /\ next' = [next EXCEPT ![t] = @ + 1]
  /\ UNCHANGED <<done, remaining, ran>>

BarrierOpens(t) == remaining[t] = 1

\* Too many activations fail an assertion; the last one expected opens it.
ActivateBarrier(t) ==
  /\ remaining[t] > 0
  /\ Targets[t] # << >>
  /\ remaining' = [remaining EXCEPT ![t] = @ - 1]
  /\ IF BarrierOpens(t) THEN TriggersArePending(Targets[t]) ELSE UNCHANGED evars
  /\ UNCHANGED <<done, next, ran>>

ActivateTarget ==
  /\ ActivateTrigger
  /\ ran' = [ran EXCEPT ![Last(pending_triggers)] = @ + 1]
  /\ UNCHANGED <<done, next, remaining>>

\* A new simulation builds its triggers again.
Restart ==
  /\ Reset
  /\ done' = [t \in SingleShot |-> FALSE]
  /\ next' = [t \in MultiShot |-> 0]
  /\ remaining' = ActivationsNeeded
  /\ ran' = [x \in Target |-> 0]

TInit == Init /\ TriggersInit

TNext ==
  \/ \E t \in SingleShot : ActivateSingleShot(t)
  \/ \E t \in MultiShot : ActivateMultiShot(t)
  \/ \E t \in Barrier : ActivateBarrier(t)
  \/ ActivateTarget
  \/ /\ \/ \E src \in Source, when \in Time : Call(src, when)
        \/ \E src \in Source : CancelPendingSource(src)
        \/ \E t \in Time : SetEndtime(t)
        \/ RunSource
     /\ UNCHANGED tvars
  \/ Restart

TSpec == TInit /\ [][TNext]_vars
------------------------------------------------------------------------------
Occurrences(s, x) == Cardinality({i \in DOMAIN s : s[i] = x})

\* How often the triggers have released a target.
Released(x) ==
  CASE \E t \in SingleShot : x \in ToSet(Targets[t]) ->
         IF \E t \in SingleShot : x \in ToSet(Targets[t]) /\ done[t] THEN 1 ELSE 0
    [] \E t \in MultiShot : x \in ToSet(Targets[t]) ->
         IF \E t \in MultiShot : \E i \in 1 .. next[t] : Targets[t][i] = x
         THEN 1 ELSE 0
    [] OTHER ->
         IF \E t \in Barrier : x \in ToSet(Targets[t]) /\ remaining[t] = 0 THEN 1 ELSE 0

\* A flow that a trigger releases is started exactly once: it waits on the
\* stack or it has run, whatever other triggers fire meanwhile, and none waits
\* or runs before its trigger says so (trigger.py:83-114, 129-155, 179-216).
ReleasedOnce ==
  \A x \in Target : Occurrences(pending_triggers, x) + ran[x] = Released(x)
==============================================================================
