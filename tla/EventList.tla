------------------------------ MODULE EventList ------------------------------
(***************************************************************************)
(* core/eventlist.py: the event list every simulated component schedules   *)
(* itself on.  The pending sources are kept twice, as a dictionary from a  *)
(* time to the list of its sources and as the sorted list of those times,  *)
(* and every operation has to keep the two in step.                        *)
(***************************************************************************)
EXTENDS Integers, SequencesExt

CONSTANTS
  Source,      \* the EventSource objects
  Target,      \* the TriggerTarget objects
  None,        \* nobody
  MaxTime,     \* bound on the times asked for
  MaxPending,  \* bound on the pending sources a new event may join
  MaxTriggers  \* bound on the triggers waiting at once

ASSUME MaxTimeAssumption == MaxTime \in Nat
ASSUME MaxTriggersAssumption == MaxTriggers \in Nat
ASSUME NoneAssumption == None \notin Source \cup Target

VARIABLES
  endtime,           \* _endtime
  lasteventtime,     \* _lasteventtime
  pending_triggers,  \* _pending_triggers
  pending_by_time,   \* _pending_by_time
  sorted_times,      \* _sorted_times
  dispatched         \* whose do_next_event or activate ran last

evars == <<endtime, lasteventtime, pending_triggers, pending_by_time,
           sorted_times, dispatched>>

Time == 0 .. MaxTime

Init ==
  /\ endtime = 0
  /\ lasteventtime = 0
  /\ pending_triggers = << >>
  /\ pending_by_time = << >>
  /\ sorted_times = << >>
  /\ dispatched = None
------------------------------------------------------------------------------
(* The two structures as one value, so that calls can be composed.         *)

Pending == [times |-> sorted_times, at |-> pending_by_time]

Becomes(p) == sorted_times' = p.times /\ pending_by_time' = p.at

Holds(p, src) == \E t \in DOMAIN p.at : src \in ToSet(p.at[t])

PendingCount == FoldFunction(+, 0, [t \in DOMAIN pending_by_time |->
                                      Len(pending_by_time[t])])

\* Slips the checks must notice: a new time put at the end of the sorted list,
\* a source put in front of its bucket or nested into it, a past time taken as
\* it is, an emptied bucket that is kept.
AppendTime(times, when) == Append(times, when)
BucketHead(bucket, src) == <<src>> \o bucket
NestedBucket(bucket, src) == <<bucket, src>>
Unclamped(when) == when
LeaveEmpty(p, when, i) == [p EXCEPT !.at[when] = RemoveAt(@, i)]

\* bisect.insort of a time that is not in the list yet.
Insort(times, when) ==
  LET k == CHOOSE k \in 0 .. Len(times) :
             /\ \A i \in 1 .. k : times[i] <= when
             /\ \A i \in k + 1 .. Len(times) : when < times[i]
  IN  InsertAt(times, k + 1, when)

Joined(bucket, src) == Append(bucket, src)

Clamped(when) == IF when < lasteventtime THEN lasteventtime ELSE when

Accepts(when) == endtime = 0 \/ when < endtime

\* source_is_pending: a past time becomes now, a time past the end is dropped.
Scheduled(p, src, when) ==
  LET t == Clamped(when)
  IN  IF ~Accepts(t) THEN p
      ELSE IF t \in DOMAIN p.at
           THEN [p EXCEPT !.at[t] = Joined(@, src)]
           ELSE [times |-> Insort(p.times, t),
                 at |-> [u \in DOMAIN p.at \cup {t} |->
                           IF u = t THEN <<src>> ELSE p.at[u]]]

FirstIndex(s, e) == CHOOSE i \in DOMAIN s : s[i] = e /\ \A j \in 1 .. i - 1 : s[j] # e

\* A bucket loses an entry; an emptied bucket goes, and its time with it.
Dropped(p, when, i) ==
  IF Len(p.at[when]) > 1
  THEN [p EXCEPT !.at[when] = RemoveAt(@, i)]
  ELSE [times |-> RemoveAt(p.times, FirstIndex(p.times, when)),
        at |-> [u \in DOMAIN p.at \ {when} |-> p.at[u]]]

\* cancel_pending_source: the first entry of src in the order of the times.
Cancelled(p, src) ==
  IF ~Holds(p, src) THEN p
  ELSE LET k == CHOOSE k \in DOMAIN p.times :
                  /\ src \in ToSet(p.at[p.times[k]])
                  /\ \A j \in 1 .. k - 1 : src \notin ToSet(p.at[p.times[j]])
           t == p.times[k]
       IN  Dropped(p, t, FirstIndex(p.at[t], src))

HasEntry(src, when) == /\ when \in DOMAIN pending_by_time
                       /\ src \in ToSet(pending_by_time[when])
------------------------------------------------------------------------------
(* The calls a component makes, one action each.                           *)

SourceIsPending(src, when) ==
  /\ PendingCount < MaxPending
  /\ Becomes(Scheduled(Pending, src, when))
  /\ UNCHANGED <<endtime, lasteventtime, pending_triggers, dispatched>>

\* source_is_pending_get_handle asserts that the time is not past; the handle
\* it returns is the pair of the time and the source.
SourceIsPendingGetHandle(src, when) ==
  /\ when >= lasteventtime
  /\ SourceIsPending(src, when)

CancelPendingSource(src) ==
  /\ Becomes(Cancelled(Pending, src))
  /\ UNCHANGED <<endtime, lasteventtime, pending_triggers, dispatched>>

\* Without the entry the process exits.
CancelPendingSourceByTime(src, when) ==
  /\ HasEntry(src, when)
  /\ Becomes(Dropped(Pending, when, FirstIndex(pending_by_time[when], src)))
  /\ UNCHANGED <<endtime, lasteventtime, pending_triggers, dispatched>>

\* Without the entry an exception is raised, with a past time an assertion
\* fails; neither changes anything.
CancelPendingSourceByHandle(src, when) ==
  /\ when >= lasteventtime
  /\ CancelPendingSourceByTime(src, when)

ReschedulePendingSource(src, when) ==
  /\ Becomes(Scheduled(Cancelled(Pending, src), src, when))
  /\ PendingCount' <= MaxPending
  /\ UNCHANGED <<endtime, lasteventtime, pending_triggers, dispatched>>

TriggersArePending(targets) ==
  /\ Len(pending_triggers) + Len(targets) <= MaxTriggers
  /\ pending_triggers' = pending_triggers \o targets
  /\ UNCHANGED <<endtime, lasteventtime, pending_by_time, sorted_times, dispatched>>

SetEndtime(t) ==
  /\ endtime' = t
  /\ UNCHANGED <<lasteventtime, pending_triggers, pending_by_time, sorted_times,
                 dispatched>>

Reset ==
  /\ endtime' = 0
  /\ lasteventtime' = 0
  /\ pending_triggers' = << >>
  /\ pending_by_time' = << >>
  /\ sorted_times' = << >>
  /\ dispatched' = None

\* do_next_event with a trigger waiting: the last one added, no time passes.
ActivateTrigger ==
  /\ pending_triggers # << >>
  /\ dispatched' = Last(pending_triggers)
  /\ pending_triggers' = Front(pending_triggers)
  /\ UNCHANGED <<endtime, lasteventtime, pending_by_time, sorted_times>>

\* do_next_event otherwise: the first source of the earliest time.  The branch
\* that skips an empty bucket is dead, see NoEmptyBucket.
RunSource ==
  /\ pending_triggers = << >>
  /\ sorted_times # << >>
  /\ LET t == Head(sorted_times)
     IN  /\ dispatched' = Head(pending_by_time[t])
         /\ Becomes(Dropped(Pending, t, 1))
         /\ lasteventtime' = t
  /\ UNCHANGED <<endtime, pending_triggers>>

DoNextEvent == ActivateTrigger \/ RunSource

Call(src, when) ==
  \/ SourceIsPending(src, when)
  \/ SourceIsPendingGetHandle(src, when)
  \/ CancelPendingSourceByTime(src, when)
  \/ CancelPendingSourceByHandle(src, when)
  \/ ReschedulePendingSource(src, when)

Next ==
  \/ \E src \in Source, when \in Time : Call(src, when)
  \/ \E src \in Source : CancelPendingSource(src)
  \/ \E targets \in BoundedSeq(Target, MaxTriggers) : TriggersArePending(targets)
  \/ \E t \in Time : SetEndtime(t)
  \/ Reset
  \/ DoNextEvent

Spec == Init /\ [][Next]_evars
------------------------------------------------------------------------------
TypeOK ==
  /\ endtime \in Nat
  /\ lasteventtime \in Nat
  /\ pending_triggers \in Seq(Target)
  /\ sorted_times \in Seq(Nat)
  /\ pending_by_time \in [DOMAIN pending_by_time -> Seq(Source)]
  /\ dispatched \in Source \cup Target \cup {None}

\* Popping the first time takes the earliest one only if the list stays sorted
\* through every insertion and removal (eventlist.py:223, 268, 317).
SortedTimes ==
  \A i, j \in 1 .. Len(sorted_times) : i < j => sorted_times[i] < sorted_times[j]

\* The list and the dictionary name the same times: a time in one of them only
\* would be a lost event or a KeyError (eventlist.py:226-238).
SameTimes ==
  /\ \A i \in 1 .. Len(sorted_times) : sorted_times[i] \in DOMAIN pending_by_time
  /\ \A t \in DOMAIN pending_by_time :
       \E i \in 1 .. Len(sorted_times) : sorted_times[i] = t

\* A bucket that is emptied goes away: the branch of do_next_event that skips
\* an empty one (eventlist.py:227-231) is never taken.
NoEmptyBucket == \A t \in DOMAIN pending_by_time : pending_by_time[t] # << >>

\* No pending event is in the past, so the assertion of do_next_event
\* (eventlist.py:241) holds and time never runs backwards.
NothingPast == \A t \in DOMAIN pending_by_time : lasteventtime <= t

AgendaConsistent == SortedTimes /\ SameTimes /\ NoEmptyBucket /\ NothingPast

\* Outside reset the clock only moves forward, and it does not move while a
\* trigger waits (eventlist.py:213-216, 241-243).
ClockMovesForward ==
  [][\/ Reset
     \/ lasteventtime' = lasteventtime
     \/ lasteventtime' > lasteventtime /\ pending_triggers = << >>]_evars

\* The dictionary and the list of times together are the ordered calendar of
\* module Calendar.
Agenda ==
  FlattenSeq([k \in DOMAIN sorted_times |->
                LET t == sorted_times[k]
                IN  [j \in DOMAIN pending_by_time[t] |->
                       [at |-> t, src |-> pending_by_time[t][j]]]])

C == INSTANCE Calendar WITH now <- lasteventtime, agenda <- Agenda,
                            triggers <- pending_triggers
RefinesCalendar == C!Spec
==============================================================================
