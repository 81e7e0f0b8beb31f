# Formal models of simpy

simpy is a Python port of two simulators: **HTSimPy**, a packet-level network
simulator (after csg-htsim), and the **SimAI/ASTRA-sim** system and workload layers
that drive collective communication over a network backend. This directory models
the parts whose correctness is a matter of order, time and reuse, checks them with
TLC on small instances, and proves the central invariants with TLAPS.

## 1. The system

| Component | State | Operations | Interacts with | What is hard | What makes it correct |
|---|---|---|---|---|---|
| Event list `core/eventlist.py` | clock, end time, dictionary time → sources, sorted list of times, stack of triggers | five ways to schedule, three to cancel, reschedule, `do_next_event`, `reset` | calls every component, is called by all | two structures for one agenda; past times; equal times; triggers before sources | the two agree; ordered, first in first out; the clock never goes back |
| Triggers `core/trigger.py` | done / next / activations left | `activate`, by class | stack of the event list | several triggers firing while targets wait | every released flow starts exactly once |
| Ring buffer `core/circular_buffer.py` | array, two indices, count | `push`, `pop`, `pop_front` | inside every queue | growth while the content wraps | it is an unbounded first-in first-out buffer |
| Pipe `core/pipe.py`, `callback_pipe.py` | ring of records (by reference), next wake-up | `receivePacket`, `do_next_event`, `_resize_buffer` | event list, next element of the route | shared records after growth, early return | packets are only delayed |
| Queues `queues/` | buffered packets, byte count, service | arrive/drop, begin, complete service | event list, ring buffer, pipe | byte limit, no service lost or doubled | bytes counted are bytes held; busy exactly when filled |
| Packets `core/network.py`, `packets/` | reference count, route, next hop, free list | allocate, `sendOn`, free, bounce | every element | recycling while under way | a packet is in one place |
| TCP `protocols/tcp.py` | windows, sequence numbers, timer; ACK and early segments | segment, ACK, timer scan, timeout | event list, routes | loss, early timeout, late ACKs after a rewind | acknowledged means arrived; the flow completes |
| MPTCP `protocols/multipath_tcp.py` | data sequence counter, receive window, coupling type; data ACK and early segments | `getDataSeq`, `inflate_window`, `deflate_window`, the poll every second, the sink | TCP, as its subflows | one data sequence, many subflows, each retransmitting by itself; windows that depend on each other | every data number is given once, data acknowledged has arrived, no window closes |
| DCTCP, NDP `protocols/` | as TCP | as TCP | TCP | | |
| Topologies `datacenter/` | queues and pipes by pair of nodes, routes | `init_network`, `get_bidir_paths` | queues, pipes, flow placement | wiring and routing compute the same switch by different formulas | every pair is offered every shortest route that is wired |
| Flow placement `datacenter/firstfit.py` | flows, counts by queue | `add_flow`, `run` | topologies, TCP sources | counts raised and lowered in different scans | a queue is counted for the flows that hold it; the least loaded route is taken |
| Analytical backend `network_frontend/analytical/` | heap of tasks | `Schedule`, `Run` | `Sys` | equal times, swallowed exceptions | tasks run in time order |
| ns3 backend `network_frontend/ns3/` | expected and received bytes by tag | `sim_send`, `sim_recv`, completion | `Sys` | arrival before or after the receive, partial amounts | every receive completes once |
| System layer, events `system/sys.py` | event queue by tick, count of pending events | `try_register_event`, `register_event`, `call_events` | workload, analytical backend | events registered while a tick is walked; handlers that raise | each registered event is called; one task per tick |
| System layer, streams `system/` | streams, queues, data sets | `insert_stream`, `schedule`, `proceed_to_next_vnet_baseline` | workload, collectives | streams of several chunks that share queues | every stream finishes |
| Collectives `system/collective/` | packets, phases per node | `run`, `exit` | `Sys`, backend | nodes at different speeds | all nodes finish |
| Workload `workload/` | layer index, state, counter, three flags, outstanding data sets | `call`, nine iterators, waits, the end of the simulation | `Sys` | flags reset by hand in each iterator; waiting for collectives | each piece of work once per pass, in an order training allows; the end is reached and reported once |

Everything is single-threaded: what interleaves is the order of events of equal
time, the calls that components make at any moment, lost and delayed packets, and
timers.

## 2. Modules

| Module | Models | Uses |
|---|---|---|
| `Deque` | what a buffer promises: order, and nothing of arrays | |
| `CircularBuffer` | the ring buffer, index by index | `Deque` through `RefinesDeque` |
| `Calendar` | what the event list promises: one ordered agenda, a stack of triggers | |
| `EventList` | the event list with both structures, one action per call | `Calendar` through `RefinesCalendar` |
| `Triggers` | the three trigger classes on the event list | extends `EventList` |
| `DelayLine` | what a link promises: a packet leaves once, in order, at a time settled when it enters | |
| `Pipe` | the pipe with its list of *references* to records | `DelayLine` |
| `Queue` | `Queue` and `RandomQueue`: bytes, drops and service | |
| `Link` | queue → pipe → receiver, with the recycled packets of `PacketDB` | instances of `Queue`, `Pipe`, `DelayLine` |
| `MultipathSrc` | data numbers, receive window and window coupling of an MPTCP connection; a record that a source without a connection has as well | |
| `TcpSrc`, `TcpSink` | sources with fast recovery and timer; sinks with early segments, of a flow and of a connection | `MultipathSrc` |
| `Tcp` | sources and sinks over a network that drops packets and, on several routes, lets some overtake others; several flows are the subflows of one connection | instances of both |
| `FatTree`, `DragonFly` | the cables of two topologies and the routes offered over them | |
| `FirstFit` | the placement of flows on routes | the routes as a constant |
| `SysEvents` | the events of a node by tick, and the task that calls them | |
| `SysCallers` | the same under callers that file anything at any delay | extends `SysEvents` |
| `Training` | what a workload promises: passes over layers, forward before backward | |
| `Workload` | nine parallelism policies walking their layers | extends `SysEvents`, `Training` through `RefinesTraining` |

`MC*.tla` instantiate them for TLC; `*Proofs.tla` hold the theorems: `EventListProofs` of
the event list and its triggers, `PlacementProofs` of flow placement and the two topologies, the
others of the module they are named after. `Sums` holds the lemmas on data they share.

### How state and actions correspond to the code

* Variables carry the names of the attributes without the leading underscore.
  `pending_by_time` is a function from the times in the dictionary to sequences;
  the operators `Scheduled`, `Cancelled` and `Dropped` take both structures as one
  value, so that `reschedule_pending_source` is their composition, as in the code.
* `dispatched` in `EventList` and `result` in `CircularBuffer` record what the last
  call returned or whom it woke: they let a refinement tell *which* item came out.
* Failing calls (an assertion, `sys.exit`, an exception) change nothing and are not
  actions: `CancelPendingSourceByTime` without an entry, a second activation of a
  single-shot trigger. Accordingly the guards name these conditions.
* `Pipe` keeps `inflight_v` (slot → record) apart from `record` (record → content):
  the code copies references when it grows, and the difference is what
  `pipe_overflow` is about. Times are relative to now (`Tick` counts them down); a
  time already past counts as 0, which is what `source_is_pending` makes of it.
* In `Link` two events due at once may run in either order. That allows more than
  the bucket order of the event list, so what is shown holds for every order.
* `TcpSrc` leaves out round-trip times: they decide only when the timer expires, and
  the model lets an armed timer expire at any moment. `RtxTimerHook`, called by the
  scanner, and the timeout it schedules are two actions, as they are two events.
  `scheduled` says that a `do_next_event` is pending, `armed` that the timer is not
  `TIME_INF`. A segment's fields are its first byte and its size.
* All sources of `Tcp` are in one function from flow to record. `conn` is the record
  of the connection; with type "NONE" a source has none, and the same actions are
  plain TCP. `Poll` is the connection's own event: `send_packets` of each subflow in
  turn, the earlier ones taking their data numbers first. The two coupling types that
  weigh round-trip times may add anything up to what TCP would (`Increments`). The
  data ACK is kept in the sink and left out of the acknowledgements: no source looks
  at it.
* An assumption that is named: `ConnectionEvent` waits until every subflow has started,
  and for nothing else. It comes at 3 s and then every second, whatever is under way or
  being repaired, and every start in the repository is within 50 ms. A subflow that
  starts later is sent on before its start, which then takes `established` back (a
  hazard without a property). A poll that finds nothing to send is free; `MaxPolls`
  bounds the others.
* Another: a connection has at most four subflows (`SubflowsAssumption`). The map of
  packets has four columns (`multipath_tcp.py:196`), and a fifth subflow raises an
  `IndexError` (281) after the counter has advanced; no program that runs makes one.
* In `FatTree` and `DragonFly` a cable, a queue and its pipe, is the pair of nodes it
  joins. The code leaves a path out without a word when one of its cables was not
  laid (`Wired`); `MCFirstFit` therefore compares what is offered with a reference:
  all shortest walks over the cables.
* In `Triggers` a target belongs to one trigger (`OwnersAssumption`): `bind_triggers` makes
  a new one for each connection. In `Calendar` a new entry goes behind all that are not
  later (`Ahead`), which says the order of equal times without a list of times.
* `FirstFit` has the entries of `flow_counters` in the order they were added, `acked`
  being `_last_acked` less `byte_counter`. `Run` folds the two passes of `run()` over
  them. It is called by its user: with a scan period the constructor fails.
* In `SysEvents` ticks are counted from now, so `Run` shifts the queue, and a key of
  the dictionary is a list that is not empty. `call_list` counts the tasks of a tick.
  The walk of `call_events` is three actions, for a handler runs between two events:
  take the copy, call the next, delete the list with what has been added meanwhile.
* `Workload` has one action for each path through `call` and the iterator of the
  policy: load a compute time and wait, issue a collective and wait, or move on. A
  collective that is active leaves a data set that nothing removes, for no code starts
  streams; one that is inactive or analytical leaves none, and a blocking one with
  nothing to do calls the workload again at once (`called` then stays what it is).
  Whether a layer of DLRM waits for the embeddings goes by the *type* of its collective
  (`setup.all_to_all`), active or not.
* A deviation that is named: `RtxTimerHook` stops when a flow is acknowledged past
  its end. In the code a timeout noted before the last ACK makes the source send
  beyond the end, and can do so again; without the stop the model is infinite.

## 3. Runs and bounds

| Run | Instance | Shows |
|---|---|---|
| `ring` | three items, starting size 2, at most 6 buffered | agreement of indices and count, refinement of `Deque`. Growth happens twice, wrapped and unwrapped, at every position |
| `triggers` | two sources, times 0..2, 3 pending, 2 triggers waiting, one trigger of each class with five targets | consistent agenda, each flow started once, refinement of `Calendar`, the clock |
| `link` | three packets of one and two bytes, queue of three bytes with early drops, delay 3, ring of three | bytes counted, service and wake-ups neither lost nor doubled, no packet in two places, refinement of `DelayLine`, delivery |
| `tcp` | segments of two bytes, a flow of four (the code sends six), window 10, three packets lost or overtaking, one early timeout | window, timer, SYN, acknowledged means arrived, progress |
| `mptcp` | two subflows of one segment (the code sends three) of two bytes against a counter that steps by one, two coupling types with a wide receive window and three with a narrow one, one packet lost or overtaking, two polls that send, a loss assumed at the first duplicate | each data number given once and gone only with a loss, the connection's sink acknowledges segments that have arrived and overshoots the counter by no more than the difference of sizes, windows open, both subflows complete |
| `firstfit` | a fat tree of 64 hosts (K = 4) and a dragonfly of 20 (P = A = H = 2), three pairs of hosts each, three flows, bytes below, at and above the threshold | every shortest route offered once, counts right, least loaded route taken, busy flows placed |
| `sys_events` | two events, delays 1..3, four pending | one task per tick with events, the counter, every event called |
| `workload` | nine policies, three layers, one or two passes, two nodes' identities, four tables of compute times, at most one active collective, layers of DLRM with and without an all-to-all collective | refinement of `Training`, one thread of events, finished means done, the end is reached |
| `pipe_overflow` | ring of three, four packets | **violated**: see section 6 |
| `tcp_sink_duplicate` | as `tcp` | **violated**: see section 6 |
| `mptcp_window` | two subflows of two segments, nothing lost, a receive window of three segments, four polls that send | **violated**: see section 6 |
| `workload_wait` | as `workload` | **violated**: see section 6 |

Why these bounds are enough to be interesting: in `ring` three passes round the
array fit between two doublings, so every index is met wrapped and not. Three
pending entries on three times, of two sources, include two entries of one source at
one time, and a source at two times (which a cancel must tell apart). In `link` the
ring of three grows once, wrapped or not, and the queue's bytes admit one large or
several small packets. In `tcp` six segments and three mishaps reach every branch of
`receivePacket` (TLC's coverage shows it): an old ACK, entering fast recovery (three
duplicates), a partial ACK in it, the third duplicate of a window already repaired,
and a timeout from within recovery; the early timeout sends a segment again while it
or its answer is still under way. In `mptcp` one duplicate stands for three, so that
flows of three segments enter recovery; the narrow window is used up, the wide one
never, a loss on one subflow meets new data on the other, and polls send on subflows
with packets under way and in the middle of a recovery. A segment is twice the step of the counter, as 9000 bytes are
nine times 1000: the sink of the connection runs ahead of the numbers given and takes
the next ones for bad retransmits. In `firstfit` two of
three flows share a pair or a cable, a dragonfly route leaves its group by its own
router and by another, and there are one, two and four routes to choose from. In
`sys_events` handlers file into ticks that have a task already and into ticks that have
none, up to three of them open at once. In `workload` three layers have a first, a
middle and a last one, and the embeddings of DLRM end at the middle one; each
collective is the one that never completes in some run.

Bounds, each named where it is used: `MaxCount` (items buffered), `MaxTime`,
`MaxPending`, `MaxTriggers` (agenda and stack), `MaxInFlight` (packets in a pipe),
`MaxMishaps` (packets lost or overtaking), `MaxEarly` (timeouts with packets under way,
and polls that send a SYN again with an earlier one under way), `MaxPolls` (polls of a
connection that send something), `MaxFlows`, `MaxAcked` (flows placed, bytes between two scans), `MaxCycles` (the
longest delay).
`CHECK_DEADLOCK FALSE` appears for `Tcp`, `SysCallers` and `Workload`, where the
simulation ends when nothing is pending.

**Fairness.** `Link` and `Tcp` assume weak fairness of the events on the event list
(service, arrival, the scanner's poll, a source's own event, the clock). The main
loops run `do_next_event` until nothing is pending, in the order of time, so every
pending event is run in the end; nothing is assumed of senders or of losses, which
are bounded by `MaxMishaps` and never fair. `SysCallers` and `Workload` assume that the
loop of `AnaSim.Run` goes on while it has a task and that handlers come to an end;
callers are not assumed to ever stop filing events. `EventList` and `CircularBuffer` are
called by others and are given no fairness.

**Mutants.** Every property is broken by a plausible slip in a definition that
models the code, written next to it in the module (an array that grows too late, a
timer set only while data is outstanding, and so on).

## 4. What is proved

For all values of the constants that meet the named assumptions. Every safety property
and every refinement the runs check is also a theorem, but for those named at the end of
this section.

* `CircularBufferProofs` — `Invariance`, `ValidateHolds`, `RingTypeCorrect`,
  `Refinement`. The inductive invariant is `TypeOK /\ Validate /\ ContentsAreItems`.
  `Validate` alone is not inductive: that the slots between the indices hold pushed
  items is needed to show that doubling moves the wrapped part to where the indices
  expect it. From it each step maps to one of `Deque` with `elements <- Contents`,
  `Contents` being read through the index arithmetic modulo the size.
* `EventListProofs` — first `AgendaHolds`, `EventListTypeCorrect` and `ClockHolds`.
  `AgendaConsistent` has four parts: the times sorted, the times and the dictionary's
  keys the same, no bucket empty, nothing in the past. None is inductive by itself:
  removing the first index of a time removes *the* time only because the list has no
  repeats, and the earliest bucket is at or after the clock only because the keys agree.
  Lemmas on insertion into and removal from a sorted sequence carry the argument, then
  one lemma for each of `Scheduled`, `Dropped` and `Cancelled` and one step for each
  action. Then `EventListIsACalendar` (`Spec => RefinesCalendar`): the buckets laid end
  to end in the order of the times are the agenda of `Calendar`. The lemmas on
  flattening in `Sums` say what a change of one bucket does to the whole; a time splits
  the agenda into what is up to it and what is after it (`Early`, `Late`), and there
  lies both the place `Calendar` gives a new entry and the end of its bucket. A cancel
  takes the first entry of a source in the first bucket that has one, and the lemma on
  `WithoutFirst` asks that nothing before it matches.
* The same module, of `Triggers` — `TriggersImplementEventList` (every behaviour with
  triggers is a behaviour of the event list), and from it `TriggersKeepAgenda`,
  `TriggersKeepCalendar` and `TriggersKeepClock` without a second induction.
  `FlowsAreReleasedOnce` (`TSpec => []ReleasedOnce`) counts occurrences in the stack: a
  release adds the targets of one trigger, in which each occurs once because targets
  have one owner (`OwnersAssumption`, from `bind_triggers`,
  `connection_matrix.py:517-523`).
* `SysEventsProofs` — `EveryTickIsWoken` (`Spec => []Woken`) and `EventsTypeCorrect`,
  for any events and delays. `Woken` is not inductive alone: while a tick is walked
  its task is gone, and only because its list is still there (`calling =>
  event_queue[0] # << >>`) does an event filed in it not ask for a second task.
  `PendingIsCounted` adds the lengths of all lists and of the walk; it holds for callers
  that file at least one tick ahead (`LaterOnly`), as all in the repository do, and an
  event filed for the tick being walked refutes it (section 6).
* `WorkloadProofs`, on top of these — `WorkloadTypeCorrect`, `WalksInOneThread`,
  `FinishedOnlyWhenDone` and `WorkloadTrains` (`Spec => RefinesTraining`), for all nine
  policies, any layers, passes, compute times and collectives. The invariant `WInv` says
  where the walk stands (`Places`: which flags and which states go with which index),
  how many threads there are (`Single`), and how often each piece has been loaded: once
  more than the passes over when the place of the walk is past it (`Past`). The pass of
  `Training` is the least of these counts, so that a pass ends with the last piece.
* `TcpProofs` — `SourceHolds` (`TimerGuards`), `WindowsStayOpen`, `SynGoesFirst`,
  `TcpTypeCorrect` and `SourceNeverBehind`, for any number of sources alone and for up
  to four subflows of a connection of any coupling type, polled at any time, with any
  sizes, windows, receive windows, thresholds, losses and early timeouts. What may be added to a coupled window
  is divided by the total of all, so that no window closes only because none of the
  others has; a threshold a subflow loses to the total is kept at a segment. The
  inductive invariant `Inv` is `Guarded` (windows, timer, nothing acknowledged that was
  not sent) with two parts that say what may be under way: `Greeting`, before the
  connection stands only the SYN and its answer, so that no ACK can move a source that
  has sent nothing but the SYN; and `Waiting`, before its start nothing of a flow. One
  lemma (`ReceiveAckSettles`) takes the seven returns of `receivePacket` together.
  `SinkIsHonest` (`Spec => []AckedArrived`) stands on top of `Inv`. The strengthening
  `HonestInv` says that ends of segments are multiples of the segment size after the SYN
  (`Ends`, `Later`), that every segment under way begins one after such an end, and that
  the early list holds numbers that have arrived. The lemmas on multiples turn `Upto`
  into a set indexed by a count, and `TakenHasArrived` shows that what a sink skips when
  it fills a gap is just the run it kept.
  `DataNumbersOnce` (`Spec => []DataOnce`) says that a step gives each flow a run of
  numbers beyond the counter, that the runs of two flows do not overlap (`Runs`), and
  that what is sent again carries none (`Carries`). An ACK gives a run to one flow; the
  connection's event gives one to each, and there the sums of what the flows before want
  are monotone (`NumbersGrow`). That a retransmission has no number means that a lost
  segment takes its number with it for good; the other half of the theorem is that
  nothing else does. The runs cover all that a step adds to the counter (`Covers`), an
  arrival moves a number from under way to arrived (`StillNumbered`), and a loss removes
  one (`NetworkDrops`), so that the numbers missing never exceed the losses.
  `DataHasArrived` (`DataArrived`) is about the sink of the connection, for any segment
  size and step. The counter goes by 1000 whatever the segment (`multipath_tcp.py:275`),
  the sink by the size of the segment (1048), and the default segment has 9000 bytes
  (`network.py:46`): the sink then counts bytes beyond the numbers given and takes the
  next numbers for bad retransmits. What is true at every size is that it acknowledges
  only whole segments, each of which has arrived on some subflow, keeps only such, and is
  never further ahead of the counter than one segment exceeds the step (`NotFarAhead`:
  what it takes last has been given a number). Its invariant `MarkedInv` adds that a
  segment with a number is a whole one (`Marked`), and that the sink's count is a multiple
  of the segment size with all the numbers below it arrived (`Points`, `Holds`).
* `LinkProofs` — `BytesAreCounted` and `QueueStaysAwake` (`BusyWhenFilled`) without any
  condition; then `PacketsInOnePlace`, `PipeStaysAwake` (`WokenForHead`),
  `LinkTypeCorrect`, `PipeOnlyDelays` (the pipe of a link implements `DelayLine`) and
  `LinkIsADelayLine` (`Spec => RefinesDelayLine`, queue and pipe together), all under
  `Roomy`: the pipe never holds more packets than its ring began with. The condition is
  sharp: run `pipe_overflow` shows what happens beyond it. The ring may still grow once,
  even while wrapped, and then two slots name one record; `Shape` says that such slots
  are exactly an old ring apart (`SharedAcross`), so that no two packets under way share
  one (`RecordsApart`). `Inv` adds that the packets under way differ and have their
  route before them (`Held`), that each stands once in the queue (`Queued`), and that
  queue, pipe and free list share all packets between them; `Ordered`, that nobody is
  due before the first, is needed for the clock to tick as `DelayLine` says. For the
  whole link, a queued packet is due when the drain times before it, its own and the
  delay have passed: sums that a service, an arrival and a tick each change at one end.
* `PlacementProofs` — `FirstFitTypeCorrect`, `AllocationsAreCounted`,
  `PlacedWhereLeastLoaded`, `BusyFlowsArePlaced` and `EveryRouteIsOffered`
  (`Spec => []AllRoutes`). A scan is two folds over the flows; `PassesOver` names the
  states in between, so that what a flow meets is the state its predecessors left. The
  first three hold for any `NetPaths`, for their proofs do not use that it is made of the
  two topologies; `BusyIfRouted` needs of it that every pair has a route.
  What routes there are is shown for any even `K` and any positive `P`, `A` and `H`.
  `init_network` lays the cables by one set of formulas, `get_bidir_paths` looks for them
  by another, and a path over a cable that was not laid is dropped in silence; the run
  `firstfit` compares the two on three pairs of one size. `GroupsAreJoined` and
  `EveryPairHasARoute` show that the dragonfly always has the path; the proof needs that
  a quotient and a remainder are unique, and that the group of a host is the group of its
  router (`InTurn`); a route is then built as a walk, one laid cable at a time.
  `DragonFlyOffersAll` and `FatTreeOffersAll` show more, that what is offered is *all*
  the shortest walks over the cables, once each. `WalksAre` says what the reference
  computes, and `ShortestAre` that, where no walk has fewer cables, the shortest are
  those of a given length; a walk is then taken by its nodes (`Trail`). What a cable
  joins (`CableIs`, `TreeCableIs`) leaves a walk few ways: between two groups of a
  dragonfly it must take their one cable (`Crossing`), and in the fat tree it climbs to an
  upper switch and to a core and comes down (`ClimbedFour`, `ClimbedSix`), with an even
  number of cables (`ClimbedEvenly`). Conversely every candidate is wired (`WiredAre`),
  and the loops make each candidate once (`InterPodIs`): one upper switch of the
  other pod is under a given core (`OneDown`), so that two hosts have 1, K/2 or K\*K/4
  routes. The candidates are sequences laid end to end, whose lemmas are in `Sums`.
* `Sums` — no component, but the lemmas on data that the others rest on: the folds the
  models add with, as functions that satisfy their equations; what a sum becomes when
  one element changes, joins or leaves; folds over sequences, least and greatest
  elements; sequences of sequences laid end to end. The library's theorems on induction
  take an operator as a parameter, which the provers cannot instantiate; here induction
  is the least counterexample of a *set* (`NumberInduction`, `SubsetInduction`), which is
  first-order.

The assumptions are the `ASSUME`s of the modules: positive sizes, bounds that are
naturals, `None` not an item, windows of at least a segment, subflows numbered from 1,
connections as the constructor makes them (`ConnectionsAssumption`), one owner for each
target of a trigger, at most four subflows (`SubflowsAssumption`), `K` even, pairs of different hosts of the network
(`PairsAssumption`) and the routes of the two topologies (`NetPathsAssumption`). TLC
evaluates them in the runs.

**Only model-checked:** liveness under fairness and `ENABLED` are beyond the prover, so
`AcceptedDelivered`, `FlowCompletes`, `SubflowsComplete`, `EventuallyCalled` and
`Finishes` stay with TLC. Every invariant, step property and refinement of the passing
runs is proved, under the conditions named above. The modules use folds and `CHOOSE` in place of recursive operators, so that all of them can be proved
about.

## 5. Not modelled

Much of the repository cannot run, and a model of it would be of code that was meant
rather than of code that is there:

* **Topologies.** `FatTreeTopology` raises an `IndexError` for pairs in different pods
  (`fat_tree_topology.py:986`), `StarTopology` and `VL2Topology` cannot be constructed,
  BCube raises in its paths, the multihomed tree an `UnboundLocalError` (384), CamCube
  is abstract. `CallbackPipe` and the switches serve only these.
* **Protocols and queues.** DCTCP waits for the echo flag 0x01 while `TcpSink` sends
  0x40, so it is TCP; NDP makes packets and sends none. The queues not listed in section
  2 call attributes their base classes do not have and fail at the first packet.
* **ns3 backend.** Every completion reads `flowTag.size` (`entry.py:363`), a field
  `NcclFlowTag` lacks, and raises: nothing is ever matched.
* **System layer.** `Sys.schedule` (`sys.py:822`) is never called, so no stream starts;
  `notify_stream_added_into_ready_list` is empty; the exits of the collectives call
  `stream.changeState`, which no class has. The queues of streams, the collectives, the
  flow models and the logical topologies they would consult never run. `Workload` has
  their one effect, a data set that stays outstanding.
* **Workload.** `hybrid_customized` files are rejected by the parser (`KeyError`); the
  state `Forward_In_BackPass` is never entered; the handlers of `layer_events.py` raise
  in `update_stream_stats`.

Left out of components that are modelled: statistics, logging, reports beyond the one
that raises; the utilisation window of a queue; bouncing packets; the optional modes of
MPTCP and `cap` and `app_limited` of TCP, which are off; adding a flow to `FirstFit` a
second time; the drawing of connection matrices; parsing; the stubs of phynet.

## 6. Findings

* **`pipe_overflow`.** `pipe.py:5` says a pipe simply delays every packet. When the
  ring grows while wrapped, `_resize_buffer` (154) copies references, after which two
  slots name one record; a later packet overwrites an earlier one, is delivered
  twice over, and the second delivery, at the end of its route, returns (117-121)
  without waking the pipe again; this run alone takes that return. A pipe that never holds more packets than its ring
  began with is a delay line (run `link`, theorem `PipeOnlyDelays`).
* **`tcp_sink_duplicate`.** `tcp.py:817` says the sink looks for further packets to
  acknowledge once a gap is filled. A number that is already in the list of early
  segments is appended again (841, 846), and its stale copy later stops that loop:
  segments the sink has are no longer acknowledged. The flow recovers only because
  the source sends them again.

* **`mptcp_window`.** `multipath_tcp.py:14` names the receive window and its adjustment
  among what is reproduced. No ACK is ever handed to the connection, so its
  `_last_acked` stays 0 and `getDataSeq` refuses for good (271, 332) once as many bytes
  as the window holds have been sent by all subflows together; `FlowCompletes` fails
  with nothing lost.
* **`workload_wait`.** `sys.py:436` and `workload_base.py:174` say that the return of
  `try_register_event` decides whether the counter is cleared. `Workload.call` obeys,
  the iterators (`workload_iterators.py:61` and every other wait) do not: each wait is
  registered a second time when it is over, and every compute time counts twice.

Three more have no line of the repository that says otherwise, and stay hazards. An
exception in a handler ends its thread of events in silence (the DLRM policy stops at
its first weight gradient, an undefined name at `workload_iterators.py:265`; the report
divides by zero for most policies); properties of the passing runs hold with it. An
event filed for the tick being walked would be deleted uncalled (`sys.py:479`): the
callers of the repository never use a delay of 0, so the passing run, whose `MinCycles`
is 1, does not take that branch. The data counter and the sink of a connection step by
different sizes; no source reads the data ACK, so `DataArrived` states how far they part.

## 7. Plan

1. *Done:* ring buffer, event list, triggers, link, TCP and MPTCP over lossy paths,
   topologies and flow placement, events of a node over the analytical backend,
   workload; proofs of all their safety properties and refinements.
2. *Should the code come to run:* streams and collectives over `SysEvents`, and the
   matching of sends and receives by tag.
