------------------------------- MODULE Calendar -------------------------------
(***************************************************************************)
(* What core/eventlist.py promises to every component of the simulator: a  *)
(* calendar of entries ordered by time, entries for the same time in the   *)
(* order they were made, and a stack of triggers that runs empty before    *)
(* the clock may move.  It knows of no buckets and of no list of times.    *)
(***************************************************************************)
EXTENDS Naturals, SequencesExt

CONSTANTS
  Source,   \* who can be woken at a time
  Target,   \* who can be activated by a trigger
  None,     \* nobody
  Time,     \* the instants a caller may name
  MaxPending, MaxTriggers   \* bounds on what waits at once

VARIABLES
  now,         \* time of the last entry run
  endtime,     \* entries at or after it are refused; 0 means no end
  agenda,      \* the entries, [at, src], in the order they will run
  triggers,    \* the targets waiting, the next to run last
  dispatched   \* the source or target the last step woke

cvars == <<now, endtime, agenda, triggers, dispatched>>

Init ==
  /\ now = 0 /\ endtime = 0
  /\ agenda = << >> /\ triggers = << >>
  /\ dispatched = None

Latest(a, b) == IF a < b THEN b ELSE a

\* How many entries run before one made now for a time.
Ahead(entries, t) ==
  CHOOSE k \in 0 .. Len(entries) : /\ \A i \in 1 .. k : entries[i].at <= t
                                   /\ \A i \in k + 1 .. Len(entries) : t < entries[i].at

\* The agenda with an entry for src behind every entry that is not later.
With(entries, src, when) ==
  LET t == Latest(when, now)
  IN  IF endtime = 0 \/ t < endtime
      THEN InsertAt(entries, Ahead(entries, t) + 1, [at |-> t, src |-> src])
      ELSE entries

\* The agenda without the first entry of a set of entries.
WithoutFirst(entries, E) ==
  IF ToSet(entries) \cap E = {} THEN entries
  ELSE LET i == CHOOSE i \in DOMAIN entries :
                  entries[i] \in E /\ \A j \in 1 .. i - 1 : entries[j] \notin E
       IN  RemoveAt(entries, i)

EntriesOf(src) == {e \in ToSet(agenda) : e.src = src}

Schedule(src, when) ==
  /\ Len(agenda) < MaxPending
  /\ agenda' = With(agenda, src, when)
  /\ UNCHANGED <<now, endtime, triggers, dispatched>>

Cancel(src) ==
  /\ agenda' = WithoutFirst(agenda, EntriesOf(src))
  /\ UNCHANGED <<now, endtime, triggers, dispatched>>

CancelAt(src, when) ==
  /\ agenda' = WithoutFirst(agenda, {[at |-> when, src |-> src]})
  /\ UNCHANGED <<now, endtime, triggers, dispatched>>

Reschedule(src, when) ==
  /\ agenda' = With(WithoutFirst(agenda, EntriesOf(src)), src, when)
  /\ UNCHANGED <<now, endtime, triggers, dispatched>>

AddTriggers(targets) ==
  /\ triggers' = triggers \o targets
  /\ UNCHANGED <<now, endtime, agenda, dispatched>>

SetEndtime(t) ==
  /\ endtime' = t
  /\ UNCHANGED <<now, agenda, triggers, dispatched>>

RunTrigger ==
  /\ triggers # << >>
  /\ dispatched' = Last(triggers)
  /\ triggers' = Front(triggers)
  /\ UNCHANGED <<now, endtime, agenda>>

RunEntry ==
  /\ triggers = << >>
  /\ agenda # << >>
  /\ now' = Head(agenda).at
  /\ dispatched' = Head(agenda).src
  /\ agenda' = Tail(agenda)
  /\ UNCHANGED <<endtime, triggers>>

Restart ==
  /\ now' = 0 /\ endtime' = 0
  /\ agenda' = << >> /\ triggers' = << >>
  /\ dispatched' = None

Next ==
  \/ \E src \in Source, when \in Time :
       Schedule(src, when) \/ CancelAt(src, when) \/ Reschedule(src, when)
  \/ \E src \in Source : Cancel(src)
  \/ \E targets \in BoundedSeq(Target, MaxTriggers) : AddTriggers(targets)
  \/ \E t \in Time : SetEndtime(t)
  \/ RunTrigger \/ RunEntry \/ Restart

Spec == Init /\ [][Next]_cvars
==============================================================================
