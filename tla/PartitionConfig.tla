--------------------------- MODULE PartitionConfig ---------------------------
(***************************************************************************)
(* The configuration of a partition and those who watch it: updateConfig   *)
(* and WatchConfig in pkg/storage/partition.go.                            *)
(*                                                                         *)
(* The goroutine that Protocol.Start leaves behind calls updateConfig for  *)
(* every leader it hears of.  updateConfig sends the new configuration to  *)
(* the table of watchers under the write lock.  A watcher is first sent    *)
(* the configuration of the moment, by a goroutine of its own that holds   *)
(* the read lock until it is received.  A configuration is represented by  *)
(* the number of updates so far.                                           *)
(***************************************************************************)
EXTENDS ListenerTable

CONSTANTS Updater,      \* the goroutine that calls updateConfig
          MaxConfigs    \* bound on the updates

VARIABLES
  config,      \* Partition.config
  initial,     \* initial[w]: how far the first configuration of w has come
  upc,         \* where updateConfig is
  uto,         \* the channel it is sending to, or NoWatcher
  upending     \* the channels it has to send to after that one

updateVars == <<config, upc, uto, upending>>
vars == <<tableVars, initial, updateVars>>

Init ==
  /\ TableInit
  /\ config = 0
  /\ initial = [w \in Watchers |-> "none"]
  /\ upc = "idle"
  /\ uto = NoWatcher
  /\ upending = {}

-----------------------------------------------------------------------------
(* Partition.WatchConfig                                                   *)

Listen(w) == /\ \/ ReadCounter(w) \/ WriteCounter(w) \/ TakeID(w)
                \/ LockToListen(w) \/ Register(w)
             /\ UNCHANGED <<initial, updateVars>>

RLockToSend(w) ==
  /\ lpc[w] = "listening"
  /\ initial[w] = "none"
  /\ mu' = RW!RLock(mu, w)
  /\ initial' = [initial EXCEPT ![w] = "locking"]
  /\ UNCHANGED <<listeners, listenVars, receiveVars, updateVars>>

SendInitial(w) ==
  /\ initial[w] = "locking"
  /\ RW!Reads(mu, w)
  /\ Deliver(w, config)
  /\ initial' = [initial EXCEPT ![w] = "sent"]
  /\ UNCHANGED <<mu, listeners, listenVars, cancelled, closed, updateVars>>

\* Mutant: the read lock is not released.
KeepRLock(w) ==
  /\ initial[w] = "sent"
  /\ initial' = [initial EXCEPT ![w] = "done"]
  /\ UNCHANGED <<mu, listeners, listenVars, receiveVars, updateVars>>

RUnlockSent(w) ==
  /\ initial[w] = "sent"
  /\ mu' = RW!RUnlock(mu, w)
  /\ initial' = [initial EXCEPT ![w] = "done"]
  /\ UNCHANGED <<listeners, listenVars, receiveVars, updateVars>>

\* Mutant: the goroutine looks at the context before anything else.
LockToLeaveEarly(w) ==
  /\ initial[w] \in {"none", "done"}
  /\ LockToClose(w)
  /\ UNCHANGED <<initial, updateVars>>

\* The goroutine looks at the context only now.
LockToLeave(w) ==
  /\ initial[w] = "done"
  /\ LockToClose(w)
  /\ UNCHANGED <<initial, updateVars>>

CloseWatch(w) == Close(w) /\ UNCHANGED <<initial, updateVars>>

-----------------------------------------------------------------------------
(* Partition.updateConfig                                                  *)

LockToUpdate ==
  /\ upc = "idle"
  /\ config < MaxConfigs
  /\ RW!CanAnnounce(mu)
  /\ mu' = RW!Announce(mu, Updater)
  /\ upc' = "locking"
  /\ UNCHANGED <<listeners, listenVars, receiveVars, initial, config, uto,
                 upending>>

\* The loop goes on with one of the channels in S, in no particular order.
GoOnWith(S) ==
  \E w \in IF S = {} THEN {NoWatcher} ELSE S :
    /\ uto' = w
    /\ upending' = S \ {w}

Update ==
  /\ upc = "locking"
  /\ RW!Writes(mu, Updater)
  /\ config' = config + 1
  /\ GoOnWith(Registered)
  /\ upc' = "sending"
  /\ UNCHANGED <<mu, listeners, listenVars, receiveVars, initial>>

\* Mutant: a watcher that is busy is passed over.
SendOrSkip ==
  /\ uto # NoWatcher
  /\ \/ Deliver(uto, config)
     \/ rpc[uto] # "receiving" /\ UNCHANGED <<got, rpc>>
  /\ GoOnWith(upending)
  /\ UNCHANGED <<mu, listeners, listenVars, cancelled, closed, initial, config,
                 upc>>

Send ==
  /\ uto # NoWatcher
  /\ Deliver(uto, config)
  /\ GoOnWith(upending)
  /\ UNCHANGED <<mu, listeners, listenVars, cancelled, closed, initial, config,
                 upc>>

UnlockUpdated ==
  /\ upc = "sending"
  /\ uto = NoWatcher
  /\ mu' = RW!Unlock(mu)
  /\ upc' = "idle"
  /\ UNCHANGED <<listeners, listenVars, receiveVars, initial, config, uto,
                 upending>>

-----------------------------------------------------------------------------
(* The callers of WatchConfig (external: atomix-go-framework).             *)

Watch(w) == /\ Receive(w) \/ Handled(w) \/ RangeEnds(w)
            /\ UNCHANGED <<initial, updateVars>>

Leave(w) == /\ SendFails(w) \/ Cancel(w)
            /\ UNCHANGED <<initial, updateVars>>

-----------------------------------------------------------------------------

WatcherStep(w) == \/ Listen(w) \/ Watch(w) \/ Leave(w)
                  \/ RLockToSend(w) \/ SendInitial(w) \/ RUnlockSent(w)
                  \/ LockToLeave(w) \/ CloseWatch(w)

UpdateStep == Update \/ Send

Next == \/ \E w \in Watchers : WatcherStep(w)
        \/ LockToUpdate \/ UpdateStep \/ UnlockUpdated

Spec == Init /\ [][Next]_vars

-----------------------------------------------------------------------------
(* Properties                                                              *)

\* The state is of the expected shape.
TypeOK ==
  /\ TableOK(Watchers, Watchers \cup {Updater}, 0..MaxConfigs)
  /\ config \in 0..MaxConfigs
  /\ initial \in [Watchers -> {"none", "locking", "sent", "done"}]
  /\ upc \in {"idle", "locking", "sending"}
  /\ uto \in Watchers \cup {NoWatcher}
  /\ upending \in SUBSET Watchers

\* updateConfig holds the lock until it is done, and goes through what is in
\* the table.
UpdaterHoldsLock ==
  /\ mu.writer = Updater <=> upc # "idle"
  /\ upc = "sending" => mu.readers = {}
  /\ upc = "locking" => config < MaxConfigs
  /\ upc # "sending" => uto = NoWatcher
  /\ uto = NoWatcher => upending = {}
  /\ uto \notin upending
  /\ upending \subseteq Registered /\ uto \in Registered \cup {NoWatcher}

\* A watcher's goroutine sends the first configuration under the read lock,
\* and looks at the context when it has let go of it.
InitialUnderLock ==
  \A w \in Watchers :
    /\ w \in mu.readers \cup mu.parked <=> initial[w] \in {"locking", "sent"}
    /\ initial[w] = "sent" => w \in mu.readers
    /\ initial[w] # "none" => lpc[w] \in {"listening", "closing", "closed"}
    /\ lpc[w] \in {"closing", "closed"} => initial[w] = "done"

\* updateConfig has still to send the configuration to w.
Owes(w) == w \in upending \cup {uto}

\* Configurations are sent in order and none before its time; a watcher in the
\* table has the latest once he has had his first one, or is owed it.
NoneIsBehind ==
  /\ \A w \in Watchers : \A i \in 1..Len(got[w]) : got[w][i] <= config
  /\ \A w \in Watchers : \A i \in 1..Len(got[w]) - 1 : got[w][i] <= got[w][i + 1]
  /\ \A w \in Registered :
       initial[w] \in {"sent", "done"} /\ ~Owes(w) =>
         got[w] # <<>> /\ got[w][Len(got[w])] = config

\* A watcher is never shown an older configuration after a newer one, although
\* its first one comes from another goroutine than the ones that follow, and
\* whenever no update is being sent, every watcher in the table that has had
\* its first configuration has the latest one.
WatchersAreCurrent ==
  /\ \A w \in Watchers : \A i \in 1..Len(got[w]) - 1 : got[w][i] <= got[w][i + 1]
  /\ \A w \in Registered :
       initial[w] \in {"sent", "done"} /\ upc # "sending" =>
         got[w][Len(got[w])] = config

\* No configuration is sent on a closed channel.
NoConfigOnClosed ==
  /\ (upending \cup {uto}) \cap closed = {}
  /\ \A w \in closed : initial[w] = "done"

\* How table, lock and counter hang together with the calls of WatchConfig and
\* updateConfig, and what follows for who gets what.
IndInv == /\ TypeOK
          /\ TableInv
          /\ UpdaterHoldsLock
          /\ InitialUnderLock
          /\ NoneIsBehind
\* A goroutine of w has a step to take that needs neither an update nor the
\* client.
GoesOn(w) ==
  \/ ListensOn(w)
  \/ ReceivesOn(w)
  \/ initial[w] = "none" /\ lpc[w] = "listening"
  \/ initial[w] = "locking" /\ RW!Reads(mu, w) /\ rpc[w] = "receiving"
  \/ initial[w] = "sent"
  \/ /\ initial[w] = "done" /\ lpc[w] = "listening"
     /\ w \in cancelled /\ RW!CanAnnounce(mu)

\* The same of updateConfig, once called.
UpdateGoesOn ==
  \/ upc = "locking" /\ RW!Writes(mu, Updater)
  \/ uto # NoWatcher /\ rpc[uto] = "receiving"
  \/ upc = "sending" /\ uto = NoWatcher

\* A watcher whose Send has failed holds up updateConfig, or, if his first
\* configuration is still to come, keeps the read lock.
GoneHoldsUp == \E w \in Watchers : rpc[w] = "gone" /\ w \in mu.readers \cup {uto}

\* No update and no lock is held; whoever watches has had the configuration of
\* the moment, and whoever was cancelled is closed and no longer received for.
AllIsDone ==
  /\ mu = RW!Free
  /\ upc = "idle"
  /\ \A w \in Watchers :
       \/ lpc[w] = "new"
       \/ lpc[w] = "listening" /\ initial[w] = "done" /\ w \notin cancelled
       \/ lpc[w] = "closed" /\ rpc[w] \in {"ended", "gone"}

\* Where neither updateConfig nor a watcher can go on, all is done, unless a
\* Send has failed.
OnlyGoneHoldUp ==
  (\A w \in Watchers : ~GoesOn(w)) /\ ~UpdateGoesOn => GoneHoldsUp \/ AllIsDone
=============================================================================
