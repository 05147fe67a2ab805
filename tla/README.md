# Formal models of atomix-raft-storage

TLA+ models of the Go program in `src/`: a Raft storage node for Atomix (built
on dragonboat) and the Kubernetes controllers that deploy and report on it.
The models are checked with TLC, and proved about with TLAPS; of those of
bytes, the parts a message is made of.

Run one check with `tlc -workers 2 -config X.cfg M`, where `PROJECT.json` names
the module `M` of each configuration, and the proofs about a module `X` with
`tlapm XProofs.tla`.

## 1. Inventory

### Node process

| Component | State | Operations | Talks to |
|---|---|---|---|
| `streams.go` streamManager | `nextID`, `streams` (ID -> stream), a lock | `addStream`, `removeStream`, `getStream` | partition, state machine |
| `partition.go` Partition | `config`, `listeners`, `listenerID` | `SyncCommand`, `SyncQuery`, `StaleQuery`, `updateConfig`, `WatchConfig`, `MustLeader`, `IsLeader` | streamManager, dragonboat, callers |
| `fsm.go` StateMachine | the primitives' state (external) | `Update`, `Lookup`, `SaveSnapshot`, `RecoverFromSnapshot` | called by dragonboat, streamManager |
| `events.go` raftEventListener, EventServer | `listeners`, `listenerID`, an RWMutex | `listen`, `publish`, 15 callbacks, `Subscribe` | called by dragonboat; remote watchers; `Start` |
| `protocol.go` Protocol | `clients`, `servers`, memoised ID and address maps | `Start`, `Stop`, `Partition`, `watch` | all of the above |
| `protocol.pb.go`, `config.pb.go` | none | `Marshal`, `Size`, `Unmarshal` of log entries, events and the configuration | other nodes, later incarnations, the controller |
| `server.go` Server | none of its own | `Start`, `Stop` | dragonboat |

Hard behaviours: commands are replicated but their callers are local, so an
entry and the stream it answers to meet in a table that other entries use too;
proposals time out, are dropped or commit late; nodes crash and replay; events
are sent over unbuffered channels while a lock is held, and one receiver
passes them on in the same way under another lock; queries run on nodes that
may be behind or deposed.

What makes it correct: a call that succeeds was executed once and had its own
output on its own stream; every call returns; no stream leaks; no send on a
closed channel; watchers see events and configurations in order and without gaps;
one watcher that disappears does not stop the others; `Start` waits for a leader of every
partition and hears of it; a query sees what was acknowledged before it; what
is read is what was written.

### Controller process

`protocol -> cluster -> groups -> members`, each a resource with a controller
that creates what it owns and writes its own status.

| Component | State | Operations | Woken by |
|---|---|---|---|
| `protocol.go` MultiRaftProtocolReconciler | status of the protocol | `reconcileCluster`, `reconcileStatus` | protocol, cluster |
| `cluster.go` MultiRaftClusterReconciler | status of the cluster | `reconcileGroups`, ConfigMap, StatefulSet, Services, `reconcileStatus` | cluster, groups |
| `group.go` RaftGroupReconciler | status of the group | `reconcileMembers`, `reconcileStatus` | group, members |
| `member.go` RaftMemberReconciler | status of the member, `streams` (one monitor per member) | `reconcileStatus`, `startMonitoringPod`, `record*`, `updateMemberStatus` | member, pods; the monitors by the nodes' events |

Hard behaviours: all reads come from a cache that lags; updates are refused
when the object has changed; two writers share a member; a pass does one thing
and counts on being woken again; event streams break and lose events.

What makes it correct: terms never go back; a leader is shown beside its own
term; what a status shows is founded on what Raft did; everything is created
although passes fail; a State that is out of date is put right; the pods a
status names are those that run the group, and the nodes run with the
configuration of the spec.

The remaining parts (command-line programs, generated deep-copy
code, deployment files) have no logic of their own; `PROJECT.json` lists them
under `components` with the reason each is left out, and all hazards of the code
at their lines under `hazards`.

## 2. Modules

| Module | Models |
|---|---|
| `CommandService` | what a partition promises to the callers of `SyncCommand` (abstract) |
| `CommandStreams` | `partition.go` (commands), `streams.go`, `fsm.go` over several nodes; implements `CommandService` |
| `PartitionQueries` | `SyncQuery`, `StaleQuery` and `Lookup`, on top of `CommandStreams` |
| `GoRWMutex` | `sync.RWMutex` (external), with its preference for announced writers |
| `ListenerTable` | what `events.go` and `partition.go` do in the same way: the table of channels, `listen`, its closing goroutine, the receivers |
| `RaftEventListener` | `events.go`, and the listener that `Protocol.Start` registers; extends `ListenerTable` |
| `PartitionConfig` | `updateConfig` and `WatchConfig` in `partition.go`; extends `ListenerTable` |
| `NodeEvents` | the loop and the start barrier of `Protocol.Start`; composes `RaftEventListener` and `PartitionConfig` |
| `Varints` | how `protocol.pb.go` and `config.pb.go` write numbers and pieces of known length, and find them |
| `WireFormat` | the messages of `protocol.pb.go` and `config.pb.go`; extends `Varints` |
| `Deployment` | placement and configuration in `cluster.go`, `group.go`, `protocol.go`, `main.go`, and how a cluster is applied and started |
| `Conversions` | messages and configurations handed from one process to another; composes the two |
| `MemberObjects` | what the RaftMember objects promise to their readers (abstract) |
| `MemberStatus` | `member.go`: monitor, records, reconciler of RaftMembers; implements `MemberObjects` |
| `GroupStatus` | term and leader in `group.go`; its members are those of `MemberObjects` |
| `Controllers` | passes, watches and States of all four controllers |
| `CommandStreamsProofs`, `PartitionQueriesProofs`, `RaftEventListenerProofs`, `NodeEventsProofs`, `MemberStatusProofs`, `GroupStatusProofs`, `ControllersProofs`, `ConversionsProofs` | theorems about these modules (section 4) |
| `MC*` | instances for TLC |

### CommandStreams

A call goes `idle -> registered` (`AddStream`) `-> waiting` (`Propose`)
`-> succeeded | failing -> ok | failed` (`RemoveStream`, the deferred
`removeStream`). A failure may come before or after the proposal:
marshalling, a refusal, the client's context or `clientTimeout`; after the
proposal the entry stays on its way and may be committed later.
`Update` is two steps, `GetStream` (which takes and releases the table's lock)
and `RunCommand` (which writes to the stream found), so everything else may come
in between. A node that `Restart`s loses its open calls and its table, its IDs
start again, and it replays the log from its snapshot. Dragonboat is one
committed log, a set of proposals that may commit once, in any order or never,
and a flag per node that it *believes* to lead (several may, for a time).
`done` records that dragonboat has completed the proposal on the node that
waits for it, which is independent of streams.

Choices: no session is used (`GetNoOPSession`), so dragonboat does not retry and
each call has at most one entry. All output of a command is one element of
`out`. Snapshots carry the executed commands, hence a position in the log.

### PartitionQueries

A query sees the set of commands that the state machine had run when `Lookup`
took its lock, which it shares with `Update`. `SyncQuery` is called where a
command would be, learns the read index (`ReadIndex`, external: the length of
the committed log, confirmed by a majority), waits until its node has run that
far, and looks up; its context, `clientTimeout` or Raft may end it before.
`StaleQuery` looks up at once. `known` records what anybody had been told when
the query was called. A restart cuts off the queries of its node, and its
state machine starts again from the snapshot.

### ListenerTable, RaftEventListener

`listenerID++` and its second reading are separate steps
(`ReadCounter`, `WriteCounter`, `TakeID`), since no lock covers them. `publish`
takes the read lock, fixes the set of channels and sends to one after the other
in any order; a send and its receipt are one step (unbuffered). A watcher
handles what it got, returns when its channel is closed (`RangeEnds`) or when
its Send fails (`SendFails`), and is cancelled when its client goes away.
Watchers may subscribe before `Start` does, since the node serves `EventServer`
first; Raft publishes only after `Start` listens. The events' contents are
numbers per publisher.

### PartitionConfig, NodeEvents

A configuration is the number of updates so far. A watcher's goroutine sends
it the first one with the read lock held, and looks at the context only after
that; `updateConfig` sends the later ones with the write lock held. In
`NodeEvents` the loop of `Start` is a receiver of `RaftEventListener` which,
before it receives again, marks the partition of a leader event, lets `Start`
go when all partitions are marked, and runs `updateConfig`; so `publish` waits
for the loop and the loop for the watchers of the configuration. Remote
watchers (`Remote`) share the table of the loop: `EventServer` is served before
`Start` runs, so one may come first, overlap with `Start`'s call of `listen`
and take its ID, or fail while `publish` waits for it. One of the
partitions is watched, and updating the other one waits for nobody.

### Varints, WireFormat, Deployment, Conversions

The generated code repeats a pattern per message and field. `WireFormat` has
the pattern once (tag, embedded and optional messages, oneofs, unknown fields,
groups, overflow; varints and prefixed pieces are in `Varints`, without recursive
operators, so that they can be proved about) and describes each message by its
fields;
the lines of each message's `Unmarshal` are mapped to its description.
`Deployment` has the four computations of a member's place (the nodes' file,
`Spec.PodName`, the group's pods, the status for clients), the mode in which a
pod serves a partition (`Mode`), and the way of the Raft configuration from the
spec through `encoding/json`, `jsonpb` and `Start` to dragonboat; around them a
spec is applied, the ConfigMap made and the pods set out to start (`DeploySpec`).
`Accepted` has dragonboat's conditions on what `Start` hands over: a tick, an
election timeout of more than two heartbeats, and no snapshots of a witness;
`Starts` says whether a pod goes on, as `Start` gives up at the first group
that is refused.
`Conversions` adds the messages: one is written, perhaps by a later version,
or bytes arrive.

### MemberStatus, MemberObjects

`fresh[m]` is the set of copies (cache, the monitor's, the reconciler's) that
have the object's current resource version: an update needs its copy to be
fresh, and makes all copies stale, unless it writes what was there already.
The monitor receives an event only after it has recorded the one before;
recording is get / update / retry / give up. Events are lost when the monitor is
not subscribed or its stream breaks. `MemberReady` sets the State to Ready
without a look at the pod, as the code does. Of the events, LeaderUpdated and
MemberReady write the modelled fields. Objects are never deleted (no code does).

### GroupStatus

One pass is `GroupGet`, a `GroupReadMember` per member and `GroupUpdate`; the
members and the cache move in between. The members are an abstract
`MemberObjects`, which `MemberStatus` is shown to implement.

### Controllers

A pass is one step from a stale cache to at most one write, which is refused
when the copy of its own object is not fresh; the steps inside a pass are in
`MemberStatus` and `GroupStatus`. `Woken` and `MembersOn` are the watches;
`Resync` is what the informers hand over once more after ten hours, at any time
in the model. The schema of the CRD has no State of a protocol, so that the API
server drops it: a protocol has no status, or a `"blank"` one with the parts the
model leaves out, and as soon as the cluster has a State every pass writes.
Answers of Create may be lost (the object exists, the pass runs again), the
four other objects of the cluster may be created in several passes, and the
controllers may restart at any time. Read replicas are 0 (see `Deployment` for
what they do).

## 3. Runs

| Run | What it shows |
|---|---|
| `command_streams` | `StreamsAreOpenCalls`, `AckedImpliesAnswered`, `StrayOnlyAcrossNodes`, the inductive invariant `IndInv` (with `TypeOK`), and the refinement `ServiceSpec` |
| `queries` | `SyncQueriesAreCurrent`: linearizable reads across nodes, elections and a crash; `QueriesReturn`, `CallsReturn`: every query and command ends though Raft never answers |
| `command_stray` | **violated** `NoStrayOutput`: output reaches a foreign stream |
| `raft_events` | the inductive invariant `IndInv`; `NoSendOnClosed`, `NoGap`; `OnlyGoneHoldUp`: no deadlock but behind a failed Send; `PublishReturns` and `CancelEndsSubscribe`, unless a Send fails |
| `node_events` | `WatchersAreCurrent`; no send on a closed channel of either table, and `Start` returns after all leaders (`NodeInv`, the inductive invariant); `OnlyGoneHoldsUpNode`, the same about deadlocks over both locks; `PublishGetsThrough`, `CancelEndsWatch` and `WatchersGetConfig`, unless a Send fails; `LeaderReachesStart`, unless a Send fails or a namesake takes `Start`'s place |
| `start_hears` | **violated** `StartHears`: one failed Send blocks all events |
| `member_status` | the inductive invariant `IndInv`; `MemberLeaderOfTerm`, `LeaderRoleIsElected`, the refinement `ObjectsSpec`, `StateFollowsPod` |
| `group_status` | `GroupInv`, the inductive invariant, `GroupTermNeverDecreases`, `LeaderStaysInTerm`, `GroupCatchesUp` |
| `group_leader` | **violated** `GroupLeaderOfTerm`: new term, old leader |
| `controllers` | the inductive invariant `IndInv`: order of creation, and nobody forgotten; `Provisioned`: all objects and the status of the protocol, without a resync; `StatesRefreshed` |
| `ready_is_reported` | **violated** `ReadyIsReported`: at rest, with all pods ready, the cluster shows NotReady |
| `conversions` | `RoundTrips`, `AcceptedIsMessage`; `MembersRunTheirGroup`, `StatusNamesTheMembers` and `GroupsAreSpread` without read replicas; `ConfigArrives` without durations; `PodsThatStart`: which pods dragonboat lets run |

Each passing property has a mutant in the module it is about (operators whose
comment starts with "Mutant:"): put in the place of the modelled operator it makes the
property fail under the same configuration.

### Findings

1. *Foreign output.* `fsm.go:44` looks an ID of the proposing node up in the
   table of the node that applies the entry. `StrayOnlyAcrossNodes` bounds the
   damage: only between calls on different nodes, or across a restart.
   A call still gets its own output before it succeeds (`AckedImpliesAnswered`).
2. *A blocked publish.* `events.go:67`: a watcher whose Send has failed stops
   receiving while it is registered; publish waits for it with the read lock
   held, and the goroutine that would unregister it waits for that lock.
3. *Shared listener IDs.* `events.go:47`, and likewise `partition.go:100`: two
   overlapping calls may take one ID. `NoGap` and `DroppedOnlyByNamesake` hold
   for a watcher alone under its ID (`AloneUnderID`) and fail without that.
   If it is `Start` that loses its place, it waits for leaders it is not told
   of; `LeaderReachesStart` fails without its last disjunct.
4. *A leader of another term.* `group.go:207` takes a leader from any member
   read after the term was taken, also from one that is a term behind.
5. *Unreported readiness.* `cluster.go:91`: State is computed from pods, and no
   pod or StatefulSet wakes the controller of the cluster. It shows NotReady
   until the next resync of the informers (ten hours by default) or another
   change of the cluster or a group.
6. *Read replicas.* `cluster.go:276` writes their names over the members', and
   `group.go:154` counts members without them. The placement properties hold
   without read replicas (`WithoutReadReplicas`) and fail with them.
7. *Durations in the Raft configuration.* `cluster.go:322` writes what
   `main.go:113` cannot read, and the error is only printed: `ConfigArrives`
   holds without durations (`WithoutDurations`) and fails with them. By what is
   left of the configuration dragonboat refuses the node (`PodsThatStart`).
8. *The State of a protocol.* The schema of the CRD
   (`deploy/atomix-raft-storage.yaml:100-152`) has none, so what
   `v2beta2/protocol.go:185` writes is dropped: it is never shown, and every pass
   writes, and announces Ready or NotReady, once more.
9. *Witnesses that take snapshots.* `storage/protocol.go:235-238`: a pod that is
   not a replica of a group is a witness with the snapshots of all others, which
   dragonboat refuses. With a quorum smaller than the number of pods, and
   snapshots, only the pods that are members of every group start
   (`PodsThatStart`).

### Bounds

- Two nodes and two calls are the least with foreign output; two IDs make a node
  serve both; two restarts allow a crash of either node, or of one node twice
  (replay, and reuse of an ID).
- One command, two queries, two nodes and a restart: a query that must see what
  another one has seen on the other node, and a state machine that falls back to
  its snapshot in between. Liveness of one call does not depend on a second
  command, which would only share the log.
- `Start`, one remote watcher, two publishers and two events each: both watchers
  register, overlap and may share an ID, publishers overlap, and a second event
  makes a gap visible.
- `node_events`: one publisher with three events about two partitions or none,
  `Start` and a remote watcher, one watcher of one partition's configuration;
  `MaxInputs` bounds what comes from outside to four: events, watchers that
  came, and watchers that were cancelled or whose Send failed. Within it three
  events meet a watcher of either kind, so that a partition may elect
  twice while the other one is waited for; two events meet both watchers, or one
  that goes; and one event meets both, of whom one goes. The remote watcher may
  take the ID of `Start`, and with one event `Start` then misses a leader. Two
  publishers are the business of `raft_events`.
- `conversions`: 15 bits stand for 64 and 8 for 32, so that numbers of one,
  two and three bytes, the overflow of each width and an overlong number occur;
  field values 0, 1, 127, 128 and the greatest; strings that are empty, have
  bytes above 127, or make a length of two bytes; all byte strings up to four
  bytes over tags of known, unknown and wrong fields, lengths too long and
  overlong numbers. Up to four pods, three groups, quorums and read replicas
  above and below the number of pods; durations and thresholds that are absent,
  zero, below a millisecond and ordinary, for one pod and for two with a quorum
  of one or both.
- Terms up to 2 give one change of leadership between two members. One
  member object is followed: objects of two members do not interact but in
  `elected`, which the untracked member changes freely. One event under
  way plus one in hand is enough for a conflict, a loss and a reordering with
  the reconciler.
- One group of two members on two pods; two changes of pods. Two groups would
  repeat the same chain under the same controller.

The symmetric configurations (`command_streams`, `command_stray`) permute model
values that the specifications do not tell apart and check no liveness.

Deadlock checking is off where the system may really come to rest: all calls
made and the log applied, all events sent, or all bounds used up.

### Fairness

- `PartitionQueries`: weak fairness of a goroutine's own next step; a waiting
  command or query can always take its timeout. None for Raft, clients, crashes.
- `RaftEventListener`, `NodeEvents`: weak fairness of goroutines that can run, strong fairness
  of taking the lock, as `sync.RWMutex` admits a waiting writer in the end. None
  for Raft's events, the clients or failing Sends.
- `MemberStatus`, `GroupStatus`, `Controllers`: caches catch up
  (informers resynchronise) and work queues are worked off (failed requests are
  put back with at most 5 s of delay). None for pods, streams, Raft, restarts or
  resyncs: they are ten hours apart.

## 4. Proofs

The theorems hold for every value of the constants: any number of nodes, calls,
watchers, members, groups and pods, and any bounds. The inductive invariants
are checked by the runs as well, on their small instances, with these
exceptions. TLC has checked them under the configuration named, but they are not
among the properties of its run, as the theorems imply them: `QueryInv` (`queries`),
`NodesRunTheSpec` (`conversions`), `RestIsComplete` (`controllers`),
`RestIsCurrent` (`group_status`), `InOrderOnce` and `NoneIsAhead` (`raft_events`),
`UpdatesAreHeard` and `BoundIsEnough` (`node_events`).

Liveness is out of the provers' reach. Its part without fairness is not:
in a state where nobody has anything left to do, what should happen has happened.
`NothingIsMissingAtRest`, `CurrentAtRest`, `StateAtRest`, `OnlyFailedSendsBlock`
and `OnlyFailedSendsBlockNode` say so of the controllers and of the node. They
exclude a lost wake-up and a deadlock, of any number of processes; that rest is
reached is what TLC checks.

### CommandStreamsProofs

| Theorem | Statement |
|---|---|
| `Inductive` | `Spec => []IndInv` |
| `Typed` | `Spec => []TypeOK` |
| `StreamsMatchCalls` | `Spec => []StreamsAreOpenCalls` |
| `AckedAnswered` | `Spec => []AckedImpliesAnswered` |
| `StrayAcrossNodes` | `Spec => []StrayOnlyAcrossNodes` |
| `ImplementsService` | `Spec => ServiceSpec` |

That a call which succeeds was answered is not inductive. It needs
that the stream `Update` looked up is the caller's own while the caller waits on
that node (`TargetFits`); that needs the entry to carry the ID of its call
(`EntriesAreProposals`) and the table to hold the open calls exactly
(`StreamsAreOpenCalls`); that needs IDs in use to lie below the counter of
their node (`CallsAreNumbered`), and the last two again each other: a new ID
must not hit an open call. `OutputIsLogged` ties what was written and reported
to the log. `IndInv` is their conjunction with `TypeOK` and
`StrayOnlyAcrossNodes`; a lemma per action shows that it is kept. The refinement
follows from it: `Update` maps to `Answer` or a stutter, `Commit` to `Execute`,
`Restart` to `Fail` of the open calls of the node.

### PartitionQueriesProofs

| Theorem | Statement |
|---|---|
| `CommandsAreServed` | `QSpec => Spec` |
| `QueryInductive` | `QSpec => []QueryInv` |
| `QueriesCurrent` | `QSpec => []SyncQueriesAreCurrent` |

Queries leave the commands alone, so all theorems above hold with queries as
well (`CommandsAreServed`), and `OutputIsLogged` says that what a caller was
told is in the log. The log only grows at its end (`LogGrows`). So what was
known when a query was called lies below the read index it learns later
(`IndexCoversKnown`), and a state machine that has run that far shows it.
A node that is behind, or falls back to its snapshot, makes a query wait only.

### RaftEventListenerProofs

| Theorem | Statement |
|---|---|
| `Inductive` | `Spec => []IndInv` |
| `TypeCorrect` | `Spec => []TypeOK` |
| `ClosedIsNotSentTo` | `Spec => []NoSendOnClosed` |
| `EventsWithoutGap` | `Spec => []NoGap` |
| `OnlyNamesakesDrop` | `Spec => []DroppedOnlyByNamesake` |
| `EventsInOrderOnce` | `Spec => [](InOrderOnce /\ NoneIsAhead)` |
| `OnlyFailedSendsBlock` | `Spec => []OnlyGoneHoldUp` |

`publish` has the read lock while it goes through the channels
(`PublishersRead`), and whoever changes the table has announced himself as the
writer (`ChangersHoldLock`) and changes it when there are no readers, so that
what `publish` has still before it stays in the table; what is in the table
listens and is not closed (`ListenersListen`). `NoGap` needs a statement about
times when an event is being published: a watcher has the latest event, or
the one before while `publish` owes it (`NoneIsMissed`). An ID of 0 would make
a watcher a namesake of nobody; that there is none, and that IDs stay below the
number of calls (which makes the table finite), is `IDsAreCounted`: the
unlocked counter can go back, but not to 0. This step counts a set of watchers
and is where `FiniteSetTheorems` are needed.

`EventsInOrderOnce` has no condition on IDs: nobody, namesake or not, has an event
that `publish` owes him, and each send is of the publisher's latest.

`OnlyGoneHoldUp` looks at a state where no watcher and no publisher can go on
(`GoesOn` and `PublishGoesOn` are the conditions under which the fair actions
are enabled; TLC has compared them with ENABLED). If nobody has the lock, a
waiting one could take it. If a writer has it, it can finish. If readers have
it, they are in `publish` (`PublishersRead`), sending to a channel that is
in the table, so not closed (`ListenersListen`), and whose watcher is not
`ended` (`EndedIsClosed`): he receives, or his Send has failed. `Start` never is
such a watcher (`StarterReceives`).

### NodeEventsProofs

| Theorem | Statement |
|---|---|
| `NodeListens` | `NodeSpec => Spec` (of `RaftEventListener`) |
| `NodeInductive` | `NodeSpec => []NodeInv` |
| `WatchersCurrent` | `NodeSpec => []WatchersAreCurrent` |
| `StartWaits` | `NodeSpec => []StartWaitsForAll` |
| `OnlyFailedSendsBlockNode` | `NodeSpec => []OnlyGoneHoldsUpNode` |
| `BoundSuffices` | `NodeSpec => [](UpdatesAreHeard /\ BoundIsEnough)` |

The loop of `Start` is a receiver like the remote watchers, so the theorems about
`RaftEventListener` hold (`NodeListens`). The second table has the same
`TableInv`. A watcher has the latest configuration, or `updateConfig` owes it
(`NoneIsBehind`); this needs that the first configuration is sent under the
read lock (`InitialUnderLock`) and updates under the write lock
(`UpdaterHoldsLock`), so that neither overtakes the other, and that an update
happens only while the loop has an event in hand (`LoopIsBusy`).

`OnlyGoneHoldsUpNode` is about a chain of two locks: `publish` waits, with the
first, for the loop and the remote watchers, and the loop, in `updateConfig`, for
the second, whose readers wait for the watchers of the configuration. The chain
has no cycle, since those watchers need neither the first lock nor the loop, and
remote ones nothing while they are sent to. What holds it up is a watcher of
either kind whose Send has failed; where there is none, all calls of `publish`
have returned and every remote watcher that was cancelled is closed
(`EventsAreDone`), and the same is true of the configuration.
`BoundIsEnough` shows that the bound on configurations hides nothing: each stands
for an event the loop has received (`UpdatesAreHeard`), no event is received
twice (`EventsInOrderOnce`), so the bound on events comes first.

The module is
long because tlapm cannot take a theorem through `INSTANCE`: what
`RaftEventListenerProofs` shows of the steps of `ListenerTable` is shown again
for the names of `Config`.

### MemberStatusProofs, GroupStatusProofs

| Theorem | Statement |
|---|---|
| `MemberStatusProofs.Inductive` | `Spec => []IndInv` |
| `TypeCorrect` | `Spec => []TypeOK` |
| `LeaderOfTerm` | `Spec => []MemberLeaderOfTerm` |
| `RoleIsElected` | `Spec => []LeaderRoleIsElected` |
| `ImplementsObjects` | `Spec => ObjectsSpec` |
| `StateAtRest` | `Spec => []RestShowsPod` |
| `GroupWellFounded` | `Spec => []GroupInv` |
| `TermNeverDecreases` | `Spec => GroupTermNeverDecreases` |
| `LeaderStays` | `Spec => LeaderStaysInTerm` |
| `CurrentAtRest` | `Spec => []RestIsCurrent` |

That a member shows the leader of its term needs three things: what nodes know
and events say is true (`NodesSayTheTruth`); events are lost but never overtake
each other, so that a record never takes the term back (`EventsInOrder`); and a
copy whose update will be accepted is what the object is (`FreshCopiesAgree`),
so that of two writers none undoes the other. This is `LeaderInv`. `IndInv`
adds the State: a reconciler that has a write to do has the right State for
it, or the member is queued again (`WriteIsDue`), so that the State is that of
the pod when all is done (`RestShowsPod`), also after `MemberReady` has written
Ready without a look at the pod. From `LeaderInv` the objects do what
`MemberObjects` promises, which is all that `GroupStatus` knows of them.
The group computes its status from copies: each is founded on what some member
has shown (`Founded`), and the status being computed is not behind the one that
was read (`PassGoesForward`). As an update is accepted only if what was read is
still there, the term of the group never goes back and its leader stays.
`NoMemberForgotten` says why the group catches up without a timer: what
a member shows is in the group's status, or in the pass under way, or the
group is queued or about to be. A pass that finds a newer term clears the
leader and so misses those of the members it has read before; but then it
changes the group, which wakes it once more. `RestIsCurrent` follows, and is the
most there is: the leader may be of an earlier term (finding 4).

### ControllersProofs

| Theorem | Statement |
|---|---|
| `Inductive` | `Spec => []IndInv` |
| `NothingIsMissingAtRest` | `Spec => []RestIsComplete` |

A pass creates one object and relies on being run again. `NoneForgotten` says
why that is enough: whenever an object is missing that a controller has to
create, the controller is queued, or its own object or one that it owns has
changed without its cache knowing yet, and that change will wake it. It is
inductive together with `TypeOK` (the cache never knows more than there is),
`CreatedInOrder` and `StatusNotForgotten`, which says the same of a protocol
without a status: its controller is to run, or will hear of its own object or
of the cluster. So when nothing is queued or on its way, everything is there:
this is the part of `Provisioned` that needs no fairness, and no resync. The
States of groups and clusters have no such theorem: they depend on pods that
wake nobody (finding 5).

### ConversionsProofs

| Theorem | Statement |
|---|---|
| `Inductive` | `DeploySpec => []NodesRunTheSpec` |
| `NamedPodsAreMembers` | `DeploySpec => []MembersRunTheirGroup` |
| `StatusIsRight` | `DeploySpec => []StatusNamesTheMembers` |
| `Spread` | `DeploySpec => []GroupsAreSpread` |
| `ConfigIsRead` | `DeploySpec => []ConfigArrives` |
| `WhoStarts` | `DeploySpec => []PodsThatStart` |
| `NoObservers` | no pod ever serves a group as an observer |
| `SizeIsLength` | `Len(Varint[n]) = SizeOfVarint(n)` for every number |
| `NumbersAreReadBack` | a number that fits the reader's type is read back, wherever it is |
| `PiecesAreReadBack` | so are bytes, strings and messages after their length |

Every pod runs by the spec (`NodesRunTheSpec`), and the four computations of a
member's place come to the same function when there are no read replicas
(`PlacesAgree`). `Spread` is about arithmetic: members are numbered through all
groups, two on one pod are a multiple of the number of pods apart, and each
member of one pod but the last is followed by one of the other pod at a fixed
distance (`LoadsAreEven`): an injection, hence the loads differ by one at most.
`WhoStarts` and `NoObservers` show findings 7, 9 and 6 for every spec:
a duration makes dragonboat refuse a node (`ReadInPart`), and without one it
refuses witnesses only (`ReadAsWritten`), of which there are none if the quorum
takes in all pods (`QuorumOfAll`). These theorems are about `DeploySpec`, the part of `Conversions` that
does not touch messages.

The last three are about `Varints`, and need induction. The library's theorems
about it take an operator, which the provers cannot instantiate; those about
well-founded relations also come with sets (`WFMin`), and `SetInduction`
and `StrongInduction` are proved from that. A recursive function is a CHOOSE of
one that satisfies its definition, so that there is one has to be proved
(`Recursion`: from ever longer parts that agree with each other). The rest is by
induction on the number: seven bits are one byte (`BitsShift`), all but the last
byte are above 127 (`VarintForm`), and from the last byte backwards the bytes
are worth the number (`ValueOfVarint`). The provers know nothing of `^`: that a number
fits is said by its bits, and what is read is the number `% 2^width`.

### Assumptions

`BoundsAssumption`, `NamesAssumption`, `TableAssumption`, `WatchersAssumption`,
`PartitionsAssumption`, `MemberAssumption`, `GroupAssumption`, `SpecAssumption`
`ClustersAssumption` and `Width64Assumption`: bounds and sizes are numbers, names for "none" are
none of the real ones, there are finitely many watchers and publishers (a node
is asked finitely often, and its table is a map in memory), and an option
of a spec is a number if it is there. TLC evaluates all of them.

### Model-checked only

Liveness: `QueriesReturn`, `CallsReturn`, `PublishReturns`,
`CancelEndsSubscribe`, `PublishGetsThrough`, `CancelEndsWatch`,
`LeaderReachesStart`, `WatchersGetConfig`, `StateFollowsPod`, `GroupCatchesUp`,
`Provisioned` and `StatesRefreshed`; the provers have
neither fairness nor ENABLED. `RoundTrips` and `AcceptedIsMessage`: how fields
and messages are put together is recursive over descriptions that contain each
other, written with RECURSIVE operators; only what they are made of is proved.
The four violated properties are TLC's counterexamples.

## 5. Not modelled

- The replicated primitives, dragonboat and Kubernetes themselves: external,
  reduced to what this code relies on.
- `Stop` and `server.go`: calls into dragonboat that keep nothing. The memoised
  tables of `protocol.go`: functions of the replicas, computed at the first use.
- The manifests of StatefulSet and Services, which are constants of the code;
  Partitions and Revision in the protocol's status.
- A spec that changes: the code reads it in every pass, but the ConfigMap is
  written once; the models' specs stay as they are.
- Snapshot, connection and log events: they write fields nothing reads. Their
  writes as conflicts are in `Controllers` (`MemberWritten`).
- Errors of the generated code that other conversions bring up: times and
  durations out of range are not told apart, and an entry that cannot be read is
  left out of `Update`, as all entries come from `SyncCommand`. Errors of reading
  an object other than that it is not there.
- Deletion of objects: left to Kubernetes' garbage collector.

## 6. Plan

1. Proofs: that a State of a group or a cluster was right for the pods
   when its pass looked; a message with fields of numbers and bytes only, from
   `NumbersAreReadBack` and `PiecesAreReadBack`; shorter proofs where `NodeEventsProofs`
   repeats `RaftEventListenerProofs`.
2. `ProtocolRevision`: Replicas, Partitions and Revision of the protocol's
   status and the changes that count it up.
3. `MemberMonitor`: the lifecycle of monitor goroutines and the `streams` map.
