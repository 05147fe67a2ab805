----------------------------- MODULE NodeEvents -----------------------------
(***************************************************************************)
(* From an election to those who watch a partition: the events that Raft   *)
(* publishes, the loop that Protocol.Start runs on them until every        *)
(* partition has a leader and ever after, the remote watchers that share   *)
(* its table, and the configuration of a partition that the loop updates.  *)
(*                                                                         *)
(* They are coupled by their locks: publish waits for the loop and the     *)
(* remote watchers, the loop for the watchers of the configuration.        *)
(***************************************************************************)
EXTENDS RaftEventListener

CONSTANTS Partitions,       \* the partitions this node serves
          Watched,          \* the one whose configuration is watched
          NoPartition,      \* what the other kinds of events are about
          ConfigWatchers,   \* the calls of WatchConfig
          MaxInputs         \* bound on what comes from outside, see Inputs

ASSUME PartitionsAssumption == /\ Watched \in Partitions
                               /\ NoPartition \notin Partitions
                               /\ ConfigWatchers \cap Watchers = {}
                               /\ IsFiniteSet(ConfigWatchers)
                               /\ IsFiniteSet(Publishers)
                               /\ NoWatcher \notin ConfigWatchers
                               /\ NoGoroutine \notin ConfigWatchers
                               /\ MaxInputs \in Nat

VARIABLES
  about,       \* about[p]: the partition the event of p names a leader of
  inHand,      \* the same of the event that Start's loop has received
  spc,         \* where the loop is with that event
  started,     \* startedPartitions
  returned,    \* startedCh is closed: Start returns
  cmu, clisteners, clistenerID, clpc, cread, cid, ccancelled, cclosed, crpc,
  cgot, config, initial, upc, uto, upending   \* see PartitionConfig

Config == INSTANCE PartitionConfig WITH
            Watchers <- ConfigWatchers,
            Updater <- Starter,
            MaxConfigs <- MaxEvents * Cardinality(Publishers),
            mu <- cmu, listeners <- clisteners, listenerID <- clistenerID,
            lpc <- clpc, read <- cread, id <- cid,
            cancelled <- ccancelled, closed <- cclosed, rpc <- crpc,
            got <- cgot

startVars  == <<about, inHand, spc, started, returned>>
configVars == <<cmu, clisteners, clistenerID, clpc, cread, cid, ccancelled,
                cclosed, crpc, cgot, config, initial, upc, uto, upending>>
nodeVars   == <<vars, startVars, configVars>>

\* The calls of Subscribe: their clients may come before Start does.
Remote == Watchers \ {Starter}

NodeInit ==
  /\ Init
  /\ Config!Init
  /\ about = [p \in Publishers |-> NoPartition]
  /\ inHand = NoPartition
  /\ spc = "free"
  /\ started = {}
  /\ returned = FALSE

\* What has come from outside: the events of Raft, the watchers, and the
\* clients that have gone or to whom a Send has failed.
Inputs ==
  LET Events == {e \in Publishers \X (1..MaxEvents) : e[2] <= event[e[1]]}
      Came   == {w \in Remote : lpc[w] # "new"}
                  \cup {w \in ConfigWatchers : clpc[w] # "new"}
      Went   == cancelled \cup ccancelled
  IN  Cardinality(Events) + Cardinality(Came) + Cardinality(Went)

-----------------------------------------------------------------------------
(* Raft publishes; Start's loop is one of the receivers, and Subscribe the *)
(* other ones.                                                             *)

\* LeaderUpdated with a term and a leader, or any other event.
PublishAbout(p) ==
  /\ RLockToPublish(p)
  /\ \E g \in Partitions \cup {NoPartition} : about' = [about EXCEPT ![p] = g]
  /\ UNCHANGED <<inHand, spc, started, returned, configVars>>
  /\ Inputs' <= MaxInputs

SendEvent(p) ==
  /\ Send(p)
  /\ inHand' = IF to[p] = Starter THEN about[p] ELSE inHand
  /\ UNCHANGED <<about, spc, started, returned, configVars>>

PublishStep(p) == \/ PublishAbout(p)
                  \/ SendEvent(p)
                  \/ /\ StartRange(p) \/ RUnlock(p)
                     /\ UNCHANGED <<startVars, configVars>>

RemoteStep(w) ==
  /\ WatcherStep(w)
  /\ UNCHANGED <<publishVars, startVars, configVars>>
  /\ Inputs' <= MaxInputs

-----------------------------------------------------------------------------
(* Protocol.Start                                                          *)

\* The listener is made, and later the loop is started.
StartListens ==
  /\ Listen(Starter) \/ LockToListen(Starter) \/ Receive(Starter)
  /\ UNCHANGED <<publishVars, startVars, configVars>>

\* An event of another kind, or without a leader.
PassOver ==
  /\ inHand = NoPartition
  /\ Handled(Starter)
  /\ UNCHANGED <<publishVars, startVars, configVars>>

\* Mutant: the first leader of any partition ends the wait.
LeaderHeardOfOne ==
  /\ rpc[Starter] = "handling"
  /\ inHand \in Partitions
  /\ spc = "free"
  /\ started' = started \cup {inHand}
  /\ returned' = TRUE
  /\ spc' = "leader"
  /\ UNCHANGED <<vars, about, inHand, configVars>>

\* The partition is marked as started, and Start is let go when it is the
\* last one, before the partition's configuration is updated.
LeaderHeard ==
  /\ rpc[Starter] = "handling"
  /\ inHand \in Partitions
  /\ spc = "free"
  /\ started' = started \cup {inHand}
  /\ returned' = (returned \/ started' = Partitions)
  /\ spc' = "leader"
  /\ UNCHANGED <<vars, about, inHand, configVars>>

\* updateConfig of a partition that nobody watches waits for nobody.
UpdateUnwatched ==
  /\ spc = "leader"
  /\ inHand # Watched
  /\ spc' = "free"
  /\ Handled(Starter)
  /\ UNCHANGED <<publishVars, about, inHand, started, returned, configVars>>

CallUpdateConfig ==
  /\ spc = "leader"
  /\ inHand = Watched
  /\ spc' = "updating"
  /\ Config!LockToUpdate
  /\ UNCHANGED <<vars, about, inHand, started, returned>>

UpdateStep == Config!UpdateStep /\ UNCHANGED <<vars, startVars>>

UpdateConfigReturns ==
  /\ Config!UnlockUpdated
  /\ spc' = "free"
  /\ Handled(Starter)
  /\ UNCHANGED <<publishVars, about, inHand, started, returned>>

\* There is a partition to watch once Raft runs its state machine.
ConfigWatcher(w) ==
  /\ lpc[Starter] = "listening"
  /\ Config!WatcherStep(w)
  /\ UNCHANGED <<vars, startVars>>
  /\ Inputs' <= MaxInputs

StartLoop == \/ PassOver \/ LeaderHeard \/ UpdateUnwatched
             \/ UpdateStep \/ UpdateConfigReturns

-----------------------------------------------------------------------------

NodeNext == \/ \E p \in Publishers : PublishStep(p)
            \/ \E w \in Remote : RemoteStep(w)
            \/ StartListens \/ StartLoop \/ CallUpdateConfig
            \/ \E w \in ConfigWatchers : ConfigWatcher(w)

NodeSpec == NodeInit /\ [][NodeNext]_nodeVars

\* As in RaftEventListener: goroutines that can run do run, and a lock is had
\* in the end.  Watchers need not come, and clients need not go.
NodeFairness ==
  LET OfRaft(A)   == A /\ UNCHANGED <<publishVars, startVars, configVars>>
      OfConfig(A) == A /\ UNCHANGED <<vars, startVars>>
      Counts(w)   == /\ \/ Config!WriteCounter(w) \/ Config!TakeID(w)
                        \/ Config!Register(w)
                     /\ UNCHANGED <<initial, config, upc, uto, upending>>
      Locks(w)    == /\ Config!LockToListen(w)
                     /\ UNCHANGED <<initial, config, upc, uto, upending>>
  IN
  /\ \A p \in Publishers :
       WF_nodeVars(\/ SendEvent(p)
                   \/ /\ StartRange(p) \/ RUnlock(p)
                      /\ UNCHANGED <<startVars, configVars>>)
  /\ \A w \in Remote :
       /\ WF_nodeVars(OfRaft(\/ WriteCounter(w) \/ TakeID(w) \/ Register(w)
                             \/ Close(w)))
       /\ WF_nodeVars(OfRaft(Loop(w)))
       /\ SF_nodeVars(OfRaft(Lock(w)))
  /\ WF_nodeVars(OfRaft(Listen(Starter) \/ Receive(Starter)) \/ StartLoop)
  /\ SF_nodeVars(OfRaft(LockToListen(Starter)) \/ CallUpdateConfig)
  /\ \A w \in ConfigWatchers :
       /\ WF_nodeVars(OfConfig(\/ Counts(w) \/ Config!CloseWatch(w)
                               \/ Config!RLockToSend(w) \/ Config!SendInitial(w)
                               \/ Config!RUnlockSent(w)))
       /\ WF_nodeVars(OfConfig(Config!Watch(w)))
       /\ SF_nodeVars(OfConfig(Config!LockToLeave(w) \/ Locks(w)))

NodeFairSpec == NodeSpec /\ NodeFairness

-----------------------------------------------------------------------------
(* Properties                                                              *)

\* The state is of the expected shape.
NodeTypeOK ==
  /\ TypeOK
  /\ Config!TypeOK
  /\ about \in [Publishers -> Partitions \cup {NoPartition}]
  /\ inHand \in Partitions \cup {NoPartition}
  /\ spc \in {"free", "leader", "updating"}
  /\ started \in SUBSET Partitions
  /\ returned \in BOOLEAN

\* Nobody has stopped receiving from a channel that is in a table.
SomeoneGone == \/ \E w \in Remote : rpc[w] = "gone"
               \/ \E w \in ConfigWatchers : crpc[w] = "gone"

\* publish returns although it waits for Start's loop, and through it for the
\* watchers of a configuration, and for remote watchers that come and go;
\* unless a Send has failed.
PublishGetsThrough ==
  \A p \in Publishers : []<>(ppc[p] = "idle" \/ SomeoneGone)

\* A watcher of the configuration whose context is done is closed and told so,
\* although his goroutine has a first configuration to send before that;
\* unless a Send has failed.
CancelEndsWatch ==
  \A w \in ConfigWatchers :
    []<>(w \in ccancelled => crpc[w] = "ended" \/ SomeoneGone)

\* A leader that Raft publishes counts towards the start of the node, unless
\* a Send has failed or Start's channel is no longer in the table: a Subscribe
\* whose call of listen overlaps with that of Start can take its ID, and with
\* it its place (DroppedOnlyByNamesake: nobody else can).
LeaderReachesStart ==
  \A g \in Partitions :
    (\E p \in Publishers : ppc[p] = "locking" /\ about[p] = g)
      ~> g \in started \/ SomeoneGone \/ Starter \notin Registered

\* Whoever watches a partition gets a configuration, whether a leader is ever
\* elected or not, and before his context is looked at; unless a Send failed.
WatchersGetConfig ==
  \A w \in ConfigWatchers :
    []<>(clpc[w] \in {"listening", "closing", "closed"} =>
           cgot[w] # <<>> \/ SomeoneGone)

\* The watchers of the configuration see it in order, and those in the table
\* have the latest one when no update is being sent.
WatchersAreCurrent == Config!WatchersAreCurrent

\* The loop deals with the event it has received, and updates the configuration
\* only while it does.
LoopIsBusy ==
  /\ spc # "free" => rpc[Starter] = "handling" /\ inHand \in Partitions
  /\ spc = "updating" <=> upc # "idle"

\* Start returns when every partition has a leader, and not before.
StartWaitsForAll == returned => started = Partitions

\* The state is of the expected shape, locks, tables and loops hang together,
\* and neither an event nor a configuration is sent on a closed channel.
NodeInv == /\ NodeTypeOK
           /\ NoSendOnClosed
           /\ Config!NoConfigOnClosed
           /\ LoopIsBusy
           /\ StartWaitsForAll
           /\ Config!IndInv
\* The loop has called updateConfig for one event at most that it has received.
UpdatesAreHeard ==
  config + (IF rpc[Starter] = "handling" /\ upc # "sending" THEN 1 ELSE 0)
    <= Len(got[Starter])

\* updateConfig is never kept from running by the bound of the model on the
\* configurations: the bound on the events is reached first.
BoundIsEnough ==
  spc = "leader" /\ inHand = Watched => config < MaxEvents * Cardinality(Publishers)

\* Start, or the loop it leaves behind, has a step to take.
StartGoesOn ==
  \/ lpc[Starter] = "new"
  \/ ListensOn(Starter)
  \/ rpc[Starter] = "off" /\ lpc[Starter] = "listening"
  \/ rpc[Starter] = "handling" /\ spc = "free"
  \/ spc = "leader" /\ (inHand # Watched \/ RW!CanAnnounce(cmu))
  \/ Config!UpdateGoesOn

\* No event and no lock is held; Start's loop waits for an event, and a remote
\* watcher has yet to come, listens, or is closed and no longer received for.
EventsAreDone ==
  /\ mu = RW!Free
  /\ \A p \in Publishers : ppc[p] = "idle"
  /\ rpc[Starter] = "receiving" /\ spc = "free"
  /\ \A w \in Remote :
       \/ lpc[w] = "new"
       \/ lpc[w] = "listening" /\ w \notin cancelled
       \/ lpc[w] = "closed" /\ rpc[w] \in {"ended", "gone"}

\* Raft, the loop and those who watch events or a configuration wait for each
\* other, under two locks, only behind a watcher whose Send has failed: where
\* nobody can go on, publish, updateConfig or a lock waits for such a watcher,
\* or every call of publish has returned, the loop waits for an event, and no
\* watcher is owed anything.
OnlyGoneHoldsUpNode ==
  /\ \A p \in Publishers : ~PublishGoesOn(p)
  /\ ~StartGoesOn
  /\ \A w \in Remote : ~GoesOn(w)
  /\ \A w \in ConfigWatchers : ~Config!GoesOn(w)
  => \/ \E p \in Publishers : to[p] # NoWatcher /\ rpc[to[p]] = "gone"
     \/ Config!GoneHoldsUp
     \/ EventsAreDone /\ Config!AllIsDone
=============================================================================
