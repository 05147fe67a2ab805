-------------------------- MODULE NodeEventsProofs --------------------------
(***************************************************************************)
(* Proofs about NodeEvents, for any number of partitions, watchers of the  *)
(* configuration, publishers and events.                                   *)
(*                                                                         *)
(* Start, Raft and the remote watchers do nothing in NodeEvents that       *)
(* RaftEventListener does not allow them, so that its theorems hold of the *)
(* events.  What is to be shown is the invariant of the configuration's    *)
(* table, Config!IndInv, under the steps of its watchers and of            *)
(* updateConfig, and that Start's loop is where its locks say it is.  From *)
(* these follows what holds where nobody can go on: nobody waits, unless a *)
(* Send has failed.                                                        *)
(***************************************************************************)
EXTENDS NodeEvents, RaftEventListenerProofs

USE TableAssumption, WatchersAssumption, PartitionsAssumption

-----------------------------------------------------------------------------
(* The lock of the partition.                                              *)

CLocks == [readers : SUBSET ConfigWatchers, parked : SUBSET ConfigWatchers,
           writer : ConfigWatchers \cup {Starter, NoGoroutine}]

\* A goroutine is let in if no writer is announced, and parked if one is.
LEMMA CRLockFields ==
  ASSUME cmu \in CLocks, NEW w \in ConfigWatchers
  PROVE  LET rw == Config!RW!RLock(cmu, w)
         IN  /\ rw \in CLocks
             /\ rw.writer = cmu.writer
             /\ cmu.writer = NoGoroutine =>
                  rw.readers = cmu.readers \cup {w} /\ rw.parked = cmu.parked
             /\ cmu.writer # NoGoroutine =>
                  rw.readers = cmu.readers /\ rw.parked = cmu.parked \cup {w}
BY DEF CLocks, Config!RW!RLock

\* It leaves, and nothing else changes.
LEMMA CRUnlockFields ==
  ASSUME cmu \in CLocks, NEW w \in ConfigWatchers
  PROVE  LET rw == Config!RW!RUnlock(cmu, w)
         IN  /\ rw \in CLocks
             /\ rw.readers = cmu.readers \ {w}
             /\ rw.parked = cmu.parked
             /\ rw.writer = cmu.writer
BY DEF CLocks, Config!RW!RUnlock

\* A writer announces himself.
LEMMA CAnnounceFields ==
  ASSUME cmu \in CLocks, NEW w \in ConfigWatchers \cup {Starter}
  PROVE  LET rw == Config!RW!Announce(cmu, w)
         IN  /\ rw \in CLocks
             /\ rw.readers = cmu.readers
             /\ rw.parked = cmu.parked
             /\ rw.writer = w
BY DEF CLocks, Config!RW!Announce

\* He unlocks, and lets those in who wait to read.
LEMMA CUnlockFields ==
  ASSUME cmu \in CLocks
  PROVE  LET rw == Config!RW!Unlock(cmu)
         IN  /\ rw \in CLocks
             /\ rw.readers = cmu.parked
             /\ rw.parked = {}
             /\ rw.writer = NoGoroutine
BY DEF CLocks, Config!RW!Unlock

-----------------------------------------------------------------------------
(* The calls of WatchConfig, up to the lock.                               *)

\* The bound on the configurations.
LEMMA MaxConfigsNat == MaxEvents * Cardinality(Publishers) \in Nat
<1>1. Cardinality(Publishers) \in Nat /\ MaxEvents \in Nat
  BY FS_CardinalityType
<1> QED  BY <1>1

\* The instance has its own copy of this.
LEMMA SameCardinality == \A S : Config!Cardinality(S) = Cardinality(S)
BY DEF Config!Cardinality, Cardinality

\* No more watchers have counted than there are.
LEMMA CCountedBounds ==
  /\ IsFiniteSet(Config!Counted)
  /\ Config!Cardinality(Config!Counted) \in Nat
  /\ Config!Cardinality(ConfigWatchers) \in Nat
  /\ Config!Cardinality(Config!Counted) <= Config!Cardinality(ConfigWatchers)
<1>1. Config!Counted \subseteq ConfigWatchers
  BY DEF Config!Counted
<1>2. /\ IsFiniteSet(Config!Counted)
      /\ Cardinality(Config!Counted) \in Nat
      /\ Cardinality(ConfigWatchers) \in Nat
      /\ Cardinality(Config!Counted) <= Cardinality(ConfigWatchers)
  BY <1>1, FS_Subset, FS_CardinalityType
<1> QED  BY <1>2, SameCardinality

\* Those who count, or take an ID, leave the rest of the state alone.
LEMMA CCountingInd ==
  ASSUME Config!IndInv, UNCHANGED <<initial, config, upc, uto, upending>>,
         NEW w \in ConfigWatchers,
         Config!ReadCounter(w) \/ Config!WriteCounter(w) \/ Config!TakeID(w)
  PROVE  Config!IndInv'
<1> USE DEF Config!IndInv, Config!TableInv
<1>1. /\ UNCHANGED <<cmu, clisteners, ccancelled, cclosed, crpc, cgot>>
      /\ clpc[w] \in {"new", "counting", "counted"}
      /\ clpc'[w] \in {"counting", "counted", "locking"}
      /\ \A v \in ConfigWatchers : v # w => clpc'[v] = clpc[v]
      /\ \A v \in ConfigWatchers : v # w => cid'[v] = cid[v] /\ cread'[v] = cread[v]
  BY DEF Config!ReadCounter, Config!WriteCounter, Config!TakeID, Config!receiveVars,
         Config!TypeOK, Config!TableOK
<1>2. /\ clistenerID \in Nat /\ Config!Cardinality(Config!Counted) \in Nat
      /\ \A v \in ConfigWatchers : cread[v] \in Nat /\ cid[v] \in Nat
  BY CCountedBounds DEF Config!TypeOK, Config!TableOK
<1>3. Config!IDsAreCounted' /\ Config!Cardinality(Config!Counted)' \in Nat
  <2>1. CASE Config!ReadCounter(w)
    <3>1. Config!Counted' = Config!Counted
      BY <1>1, <2>1 DEF Config!Counted, Config!ReadCounter, Config!TypeOK, Config!TableOK
    <3>2. /\ clistenerID' = clistenerID /\ cid' = cid
          /\ \A v \in ConfigWatchers : cread'[v] \in {cread[v], clistenerID}
          /\ clpc[w] = "new" /\ clpc'[w] = "counting"
      BY <2>1 DEF Config!ReadCounter, Config!TypeOK, Config!TableOK
    <3> QED  BY <1>1, <1>2, <3>1, <3>2 DEF Config!IDsAreCounted
  <2>2. CASE Config!WriteCounter(w)
    <3>1. Config!Counted' = Config!Counted \cup {w} /\ w \notin Config!Counted
      BY <1>1, <2>2 DEF Config!Counted, Config!WriteCounter, Config!TypeOK, Config!TableOK
    <3>2. Config!Cardinality(Config!Counted)' = Config!Cardinality(Config!Counted) + 1
      <4>1. PICK S : S = Config!Counted
        OBVIOUS
      <4>2. Cardinality(S \cup {w}) = Cardinality(S) + 1
        BY <3>1, <4>1, CCountedBounds, FS_AddElement
      <4> QED  BY <3>1, <4>1, <4>2, SameCardinality
    <3>3. /\ clistenerID' = cread[w] + 1 /\ UNCHANGED <<cread, cid>>
          /\ clpc[w] = "counting" /\ clpc'[w] = "counted"
      BY <2>2 DEF Config!WriteCounter, Config!TypeOK, Config!TableOK
    <3>4. clistenerID' <= Config!Cardinality(Config!Counted)' /\ clistenerID' > 0
      BY <1>2, <3>2, <3>3 DEF Config!IDsAreCounted
    <3> QED  BY <1>1, <1>2, <3>2, <3>3, <3>4 DEF Config!IDsAreCounted
  <2>3. CASE Config!TakeID(w)
    <3>1. Config!Counted' = Config!Counted
      BY <1>1, <2>3 DEF Config!Counted, Config!TakeID, Config!TypeOK, Config!TableOK
    <3>2. /\ UNCHANGED <<clistenerID, cread>>
          /\ cid'[w] = clistenerID
          /\ clpc[w] = "counted" /\ clpc'[w] = "locking"
      BY <2>3 DEF Config!TakeID, Config!TypeOK, Config!TableOK
    <3>3. clistenerID > 0
      BY <3>2 DEF Config!IDsAreCounted, Config!Counted
    <3> QED  BY <1>1, <1>2, <3>1, <3>2, <3>3 DEF Config!IDsAreCounted
  <2> QED  BY <2>1, <2>2, <2>3
<1>4. Config!TypeOK'
  <2>1. /\ Config!Cardinality(Config!Counted)' <= Config!Cardinality(ConfigWatchers)
        /\ Config!Cardinality(ConfigWatchers) \in Nat
    <3>1. PICK S : S = Config!Counted'
      OBVIOUS
    <3>2. S \subseteq ConfigWatchers
      BY <3>1 DEF Config!Counted
    <3>3. Cardinality(S) <= Cardinality(ConfigWatchers)
      BY <3>2, FS_Subset
    <3> QED  BY <3>1, <3>3, CCountedBounds, SameCardinality
  <2>2. /\ clistenerID' \in Nat
        /\ cread' \in [ConfigWatchers -> Nat] /\ cid' \in [ConfigWatchers -> Nat]
    <3>1. cread \in [ConfigWatchers -> Nat] /\ cid \in [ConfigWatchers -> Nat]
      BY <1>2 DEF Config!TypeOK, Config!TableOK
    <3>2. CASE Config!ReadCounter(w)
      BY <1>2, <3>1, <3>2 DEF Config!ReadCounter
    <3>3. CASE Config!WriteCounter(w)
      BY <1>2, <3>1, <3>3 DEF Config!WriteCounter
    <3>4. CASE Config!TakeID(w)
      BY <1>2, <3>1, <3>4 DEF Config!TakeID
    <3> QED  BY <3>2, <3>3, <3>4
  <2>3. /\ clistenerID' \in 0..Config!Cardinality(ConfigWatchers)
        /\ \A v \in ConfigWatchers : /\ cread'[v] \in 0..Config!Cardinality(ConfigWatchers)
                                     /\ cid'[v] \in 0..Config!Cardinality(ConfigWatchers)
    <3>1. PICK m : m = Config!Cardinality(Config!Counted)'
      OBVIOUS
    <3>2. /\ m \in Nat /\ clistenerID' <= m
          /\ \A v \in ConfigWatchers : cread'[v] <= m /\ cid'[v] <= m
      BY <1>3, <3>1 DEF Config!IDsAreCounted
    <3> QED  BY <2>1, <2>2, <3>1, <3>2
  <2>4. /\ cread' \in [ConfigWatchers -> 0..Config!Cardinality(ConfigWatchers)]
        /\ cid' \in [ConfigWatchers -> 0..Config!Cardinality(ConfigWatchers)]
    BY <2>2, <2>3
  <2>5. clpc' \in [ConfigWatchers -> {"new", "counting", "counted", "locking",
                      "registering", "listening", "closing", "closed"}]
    <3>1. \A v \in ConfigWatchers : clpc[v] \in {"new", "counting", "counted",
            "locking", "registering", "listening", "closing", "closed"}
      BY DEF Config!TypeOK, Config!TableOK
    <3>2. \E x \in {"counting", "counted", "locking"} : clpc' = [clpc EXCEPT ![w] = x]
      BY DEF Config!ReadCounter, Config!WriteCounter, Config!TakeID
    <3>3. DOMAIN clpc = ConfigWatchers /\ clpc = [v \in ConfigWatchers |-> clpc[v]]
      BY DEF Config!TypeOK, Config!TableOK
    <3> QED  BY <3>1, <3>2, <3>3
  <2> QED  BY <1>1, <2>3, <2>4, <2>5 DEF Config!TypeOK, Config!TableOK
<1>5. Config!ListenersListen'
  <2>1. \A i \in Config!IDs(ConfigWatchers) : clisteners'[i] # NoWatcher =>
          /\ cid'[clisteners'[i]] = i
          /\ clpc'[clisteners'[i]] \in {"listening", "closing"}
    <3> SUFFICES ASSUME NEW i \in Config!IDs(ConfigWatchers), clisteners[i] # NoWatcher
                 PROVE  /\ cid'[clisteners[i]] = i
                        /\ clpc'[clisteners[i]] \in {"listening", "closing"}
      BY <1>1 DEF Config!IDs
    <3>1. clisteners[i] \in ConfigWatchers
      BY DEF Config!TypeOK, Config!TableOK
    <3>2. clpc[clisteners[i]] \in {"listening", "closing"}
      BY DEF Config!ListenersListen
    <3>3. clisteners[i] # w
      BY <1>1, <3>2
    <3> QED  BY <1>1, <3>1, <3>3 DEF Config!ListenersListen
  <2>2. cclosed' = {v \in ConfigWatchers : clpc'[v] = "closed"}
    BY <1>1 DEF Config!ListenersListen
  <2>3. \A v \in ConfigWatchers :
          /\ clpc'[v] \in {"closing", "closed"} => v \in ccancelled'
          /\ crpc'[v] = "off" => cgot'[v] = <<>>
          /\ crpc'[v] # "off" => clpc'[v] \in {"listening", "closing", "closed"}
    BY <1>1 DEF Config!ListenersListen
  <2> QED  BY <2>1, <2>2, <2>3 DEF Config!ListenersListen, Config!IDs
<1>6. Config!ChangersHoldLock' /\ Config!ParkedBehindWriter'
  BY <1>1 DEF Config!ChangersHoldLock, Config!ParkedBehindWriter
<1>7. Config!UpdaterHoldsLock' /\ Config!InitialUnderLock'
  BY <1>1 DEF Config!UpdaterHoldsLock, Config!InitialUnderLock, Config!Registered
<1>8. Config!NoneIsBehind'
  <2>1. /\ UNCHANGED <<clisteners, cgot, initial, config, upc, uto, upending>>
        /\ Config!Registered' = Config!Registered
        /\ \A v \in ConfigWatchers : Config!Owes(v)' <=> Config!Owes(v)
    BY <1>1 DEF Config!Owes, Config!Registered
  <2>2. \A v \in ConfigWatchers :
          /\ \A i \in 1..Len(cgot'[v]) : cgot'[v][i] <= config'
          /\ \A i \in 1..Len(cgot'[v]) - 1 : cgot'[v][i] <= cgot'[v][i + 1]
    <3>1. \A v \in ConfigWatchers :
            /\ \A i \in 1..Len(cgot[v]) : cgot[v][i] <= config
            /\ \A i \in 1..Len(cgot[v]) - 1 : cgot[v][i] <= cgot[v][i + 1]
      BY Zenon DEF Config!NoneIsBehind
    <3> QED  BY <2>1, <3>1, Zenon
  <2>3. \A v \in Config!Registered' : initial'[v] \in {"sent", "done"} /\ ~Config!Owes(v)' =>
          cgot'[v] # <<>> /\ cgot'[v][Len(cgot'[v])] = config'
    <3>1. \A v \in Config!Registered : initial[v] \in {"sent", "done"} /\ ~Config!Owes(v) =>
            cgot[v] # <<>> /\ cgot[v][Len(cgot[v])] = config
      BY Zenon DEF Config!NoneIsBehind
    <3> SUFFICES ASSUME NEW v \in Config!Registered, initial[v] \in {"sent", "done"},
                        ~Config!Owes(v)'
                 PROVE  cgot[v] # <<>> /\ cgot[v][Len(cgot[v])] = config
      BY <2>1, Zenon
    <3>2. ~Config!Owes(v)
      BY <2>1 DEF Config!Owes
    <3> QED  BY <3>1, <3>2, Zenon
  <2> QED  BY <2>2, <2>3, Zenon DEF Config!NoneIsBehind
<1> QED  BY <1>3, <1>4, <1>5, <1>6, <1>7, <1>8

\* Who announces himself to the lock goes on to change the table; he who is
\* to close has sent his first configuration.
LEMMA CLockInd ==
  ASSUME Config!IndInv, UNCHANGED <<initial, config, upc, uto, upending>>,
         NEW w \in ConfigWatchers,
         Config!LockToListen(w) \/ Config!LockToLeave(w)
  PROVE  Config!IndInv'
<1> USE DEF Config!IndInv, Config!TableInv
<1>1. /\ UNCHANGED <<clisteners, clistenerID, cread, cid, ccancelled, cclosed,
                     crpc, cgot>>
      /\ cmu' = Config!RW!Announce(cmu, w)
      /\ cmu.writer = NoGoroutine
      /\ \/ clpc[w] = "locking" /\ clpc'[w] = "registering"
         \/ /\ clpc[w] = "listening" /\ clpc'[w] = "closing"
            /\ w \in ccancelled /\ initial[w] = "done"
      /\ \A v \in ConfigWatchers : v # w => clpc'[v] = clpc[v]
      /\ clpc' \in [ConfigWatchers -> {"new", "counting", "counted", "locking",
                       "registering", "listening", "closing", "closed"}]
  <2>1. CASE Config!LockToListen(w)
    BY <2>1 DEF Config!LockToListen, Config!receiveVars, Config!TypeOK,
                Config!TableOK, Config!RW!CanAnnounce
  <2>2. CASE Config!LockToLeave(w)
    BY <2>2 DEF Config!LockToLeave, Config!LockToClose, Config!receiveVars,
                Config!TypeOK, Config!TableOK, Config!RW!CanAnnounce
  <2> QED  BY <2>1, <2>2
<1>2. /\ cmu \in CLocks /\ cmu' \in CLocks
      /\ cmu'.readers = cmu.readers /\ cmu'.parked = cmu.parked /\ cmu'.writer = w
  BY <1>1, CAnnounceFields DEF Config!TypeOK, Config!TableOK, CLocks
<1>3. Config!TypeOK'
  BY <1>1, <1>2 DEF Config!TypeOK, Config!TableOK, CLocks
<1>4. Config!ListenersListen'
  <2>1. \A i \in Config!IDs(ConfigWatchers) :
          clisteners[i] # NoWatcher => clisteners[i] \in ConfigWatchers
    BY DEF Config!TypeOK, Config!TableOK
  <2>2. \A i \in Config!IDs(ConfigWatchers) : clisteners[i] # NoWatcher =>
          /\ cid[clisteners[i]] = i
          /\ clpc'[clisteners[i]] \in {"listening", "closing"}
    BY <1>1, <2>1 DEF Config!ListenersListen
  <2>3. cclosed = {v \in ConfigWatchers : clpc'[v] = "closed"}
    BY <1>1 DEF Config!ListenersListen
  <2>4. \A v \in ConfigWatchers :
          /\ clpc'[v] \in {"closing", "closed"} => v \in ccancelled
          /\ crpc[v] = "off" => cgot[v] = <<>>
          /\ crpc[v] # "off" => clpc'[v] \in {"listening", "closing", "closed"}
    BY <1>1 DEF Config!ListenersListen
  <2> QED  BY <1>1, <2>2, <2>3, <2>4 DEF Config!ListenersListen, Config!IDs
<1>5. Config!IDsAreCounted'
  <2>1. Config!Counted' = Config!Counted
    BY <1>1 DEF Config!Counted
  <2> QED  BY <1>1, <2>1 DEF Config!IDsAreCounted
<1>6. Config!ChangersHoldLock' /\ Config!ParkedBehindWriter'
  BY <1>1, <1>2 DEF Config!ChangersHoldLock, Config!ParkedBehindWriter
<1>7. Config!UpdaterHoldsLock' /\ Config!InitialUnderLock'
  BY <1>1, <1>2 DEF Config!UpdaterHoldsLock, Config!InitialUnderLock,
                    Config!Registered, Config!IDs
<1>8. Config!NoneIsBehind'
  <2>1. /\ UNCHANGED <<clisteners, cgot, initial, config, upc, uto, upending>>
        /\ Config!Registered' = Config!Registered
        /\ \A v \in ConfigWatchers : Config!Owes(v)' <=> Config!Owes(v)
    BY <1>1 DEF Config!Owes, Config!Registered, Config!IDs
  <2>2. \A v \in ConfigWatchers :
          /\ \A i \in 1..Len(cgot'[v]) : cgot'[v][i] <= config'
          /\ \A i \in 1..Len(cgot'[v]) - 1 : cgot'[v][i] <= cgot'[v][i + 1]
    <3>1. \A v \in ConfigWatchers :
            /\ \A i \in 1..Len(cgot[v]) : cgot[v][i] <= config
            /\ \A i \in 1..Len(cgot[v]) - 1 : cgot[v][i] <= cgot[v][i + 1]
      BY Zenon DEF Config!NoneIsBehind
    <3> QED  BY <2>1, <3>1, Zenon
  <2>3. \A v \in Config!Registered' : initial'[v] \in {"sent", "done"} /\ ~Config!Owes(v)' =>
          cgot'[v] # <<>> /\ cgot'[v][Len(cgot'[v])] = config'
    <3>1. \A v \in Config!Registered : initial[v] \in {"sent", "done"} /\ ~Config!Owes(v) =>
            cgot[v] # <<>> /\ cgot[v][Len(cgot[v])] = config
      BY Zenon DEF Config!NoneIsBehind
    <3> SUFFICES ASSUME NEW v \in Config!Registered, initial[v] \in {"sent", "done"},
                        ~Config!Owes(v)'
                 PROVE  cgot[v] # <<>> /\ cgot[v][Len(cgot[v])] = config
      BY <2>1, Zenon
    <3>2. ~Config!Owes(v)
      BY <2>1 DEF Config!Owes
    <3> QED  BY <3>1, <3>2, Zenon
  <2> QED  BY <2>2, <2>3, Zenon DEF Config!NoneIsBehind
<1> QED  BY <1>3, <1>4, <1>5, <1>6, <1>7, <1>8

-----------------------------------------------------------------------------
(* The calls of WatchConfig, with the lock.                                *)

LPCs == {"new", "counting", "counted", "locking", "registering", "listening",
         "closing", "closed"}

\* No updateConfig is at work while a watcher changes the table, and whoever
\* was parked meanwhile is let in.
LEMMA CUnlockInd ==
  ASSUME Config!IndInv, UNCHANGED <<initial, config, upc, uto, upending>>,
         NEW w \in ConfigWatchers,
         Config!RW!Writes(cmu, w), cmu' = Config!RW!Unlock(cmu),
         clpc[w] \in {"registering", "closing"},
         clpc'[w] \in {"listening", "closed"},
         \A v \in ConfigWatchers : v # w => clpc'[v] = clpc[v],
         initial[w] # "none" => clpc'[w] \in {"listening", "closed"},
         clpc'[w] = "closed" => initial[w] = "done"
  PROVE  /\ cmu' \in CLocks
         /\ upc = "idle" /\ uto = NoWatcher /\ upending = {}
         /\ Config!ChangersHoldLock' /\ Config!ParkedBehindWriter'
         /\ Config!UpdaterHoldsLock' /\ Config!InitialUnderLock'
<1> USE DEF Config!IndInv, Config!TableInv
<1>1. /\ cmu \in CLocks /\ cmu' \in CLocks
      /\ cmu'.readers = cmu.parked /\ cmu'.parked = {} /\ cmu'.writer = NoGoroutine
      /\ cmu.readers = {} /\ cmu.writer = w
  BY CUnlockFields DEF Config!TypeOK, Config!TableOK, CLocks, Config!RW!Writes
<1>2. w # Starter /\ NoGoroutine # Starter
  OBVIOUS
<1>3. upc = "idle" /\ uto = NoWatcher /\ upending = {}
  BY <1>1, <1>2 DEF Config!UpdaterHoldsLock, Config!TypeOK
<1>4. Config!ChangersHoldLock' /\ Config!ParkedBehindWriter'
  BY <1>1 DEF Config!ChangersHoldLock, Config!ParkedBehindWriter
<1>5. Config!UpdaterHoldsLock'
  BY <1>1, <1>2, <1>3 DEF Config!UpdaterHoldsLock
<1>6. Config!InitialUnderLock'
  BY <1>1 DEF Config!InitialUnderLock
<1> QED  BY <1>1, <1>3, <1>4, <1>5, <1>6

\* A watcher who registers has not been sent anything.
LEMMA CRegisterInd ==
  ASSUME Config!IndInv, UNCHANGED <<initial, config, upc, uto, upending>>,
         NEW w \in ConfigWatchers, Config!Register(w)
  PROVE  Config!IndInv'
<1> USE DEF Config!IndInv, Config!TableInv
<1>1. /\ UNCHANGED <<clistenerID, cread, cid, ccancelled, cclosed, crpc, cgot>>
      /\ cmu' = Config!RW!Unlock(cmu) /\ Config!RW!Writes(cmu, w)
      /\ clpc[w] = "registering" /\ clpc'[w] = "listening"
      /\ \A v \in ConfigWatchers : v # w => clpc'[v] = clpc[v]
      /\ clpc' \in [ConfigWatchers -> LPCs]
      /\ clisteners' = [clisteners EXCEPT ![cid[w]] = w]
  BY DEF Config!Register, Config!receiveVars, Config!TypeOK, Config!TableOK, LPCs
<1>2. /\ cmu' \in CLocks
      /\ upc = "idle" /\ uto = NoWatcher /\ upending = {}
      /\ Config!ChangersHoldLock' /\ Config!ParkedBehindWriter'
      /\ Config!UpdaterHoldsLock' /\ Config!InitialUnderLock'
  BY <1>1, CUnlockInd
<1>3. cid[w] \in Config!IDs(ConfigWatchers)
  <2>1. cid[w] \in 0..Config!Cardinality(ConfigWatchers) /\ cid[w] # 0
    BY <1>1 DEF Config!TypeOK, Config!TableOK, Config!IDsAreCounted
  <2> QED  BY <2>1, CCountedBounds DEF Config!IDs
<1>4. /\ clisteners'[cid[w]] = w
      /\ \A i \in Config!IDs(ConfigWatchers) : i # cid[w] => clisteners'[i] = clisteners[i]
      /\ clisteners' \in [Config!IDs(ConfigWatchers) -> ConfigWatchers \cup {NoWatcher}]
  BY <1>1, <1>3 DEF Config!TypeOK, Config!TableOK
<1>5. Config!TypeOK'
  BY <1>1, <1>2, <1>4 DEF Config!TypeOK, Config!TableOK, CLocks, LPCs
<1>6. Config!ListenersListen'
  <2>1. \A i \in Config!IDs(ConfigWatchers) : clisteners'[i] # NoWatcher =>
          /\ cid[clisteners'[i]] = i
          /\ clpc'[clisteners'[i]] \in {"listening", "closing"}
    <3> SUFFICES ASSUME NEW i \in Config!IDs(ConfigWatchers), clisteners'[i] # NoWatcher
                 PROVE  /\ cid[clisteners'[i]] = i
                        /\ clpc'[clisteners'[i]] \in {"listening", "closing"}
      OBVIOUS
    <3>1. CASE i = cid[w]
      BY <1>1, <1>4, <3>1
    <3>2. CASE i # cid[w]
      <4>1. clisteners'[i] = clisteners[i] /\ clisteners[i] \in ConfigWatchers
        BY <1>4, <3>2 DEF Config!TypeOK, Config!TableOK
      <4>2. clisteners[i] # w
        BY <1>1, <4>1 DEF Config!ListenersListen
      <4> QED  BY <1>1, <4>1, <4>2 DEF Config!ListenersListen
    <3> QED  BY <3>1, <3>2
  <2> QED  BY <1>1, <2>1 DEF Config!ListenersListen, Config!IDs
<1>7. Config!IDsAreCounted'
  <2>1. Config!Counted' = Config!Counted
    BY <1>1 DEF Config!Counted
  <2> QED  BY <1>1, <2>1 DEF Config!IDsAreCounted
<1>8. Config!NoneIsBehind'
  <2>1. Config!Registered' \subseteq Config!Registered \cup {w}
    BY <1>4 DEF Config!Registered, Config!IDs
  <2>2. initial[w] = "none"
    BY <1>1, <1>2 DEF Config!InitialUnderLock, Config!TypeOK
  <2> QED  BY <1>1, <2>1, <2>2 DEF Config!NoneIsBehind, Config!Owes
<1> QED  BY <1>2, <1>5, <1>6, <1>7, <1>8

\* A watcher who closes has been sent his first configuration.
LEMMA CCloseInd ==
  ASSUME Config!IndInv, UNCHANGED <<initial, config, upc, uto, upending>>,
         NEW w \in ConfigWatchers, Config!Close(w)
  PROVE  Config!IndInv'
<1> USE DEF Config!IndInv, Config!TableInv
<1>1. /\ UNCHANGED <<clistenerID, cread, cid, ccancelled, crpc, cgot>>
      /\ cmu' = Config!RW!Unlock(cmu) /\ Config!RW!Writes(cmu, w)
      /\ clpc[w] = "closing" /\ clpc'[w] = "closed"
      /\ \A v \in ConfigWatchers : v # w => clpc'[v] = clpc[v]
      /\ clpc' \in [ConfigWatchers -> LPCs]
      /\ cclosed' = cclosed \cup {w}
      /\ clisteners' = [clisteners EXCEPT ![cid[w]] = NoWatcher]
  BY DEF Config!Close, Config!receiveVars, Config!TypeOK, Config!TableOK, LPCs
<1>2. initial[w] = "done" /\ w \in ccancelled
  BY <1>1 DEF Config!InitialUnderLock, Config!ListenersListen
<1>3. /\ cmu' \in CLocks
      /\ upc = "idle" /\ uto = NoWatcher /\ upending = {}
      /\ Config!ChangersHoldLock' /\ Config!ParkedBehindWriter'
      /\ Config!UpdaterHoldsLock' /\ Config!InitialUnderLock'
  BY <1>1, <1>2, CUnlockInd
<1>4. cid[w] \in Config!IDs(ConfigWatchers)
  <2>1. cid[w] \in 0..Config!Cardinality(ConfigWatchers) /\ cid[w] # 0
    BY <1>1 DEF Config!TypeOK, Config!TableOK, Config!IDsAreCounted
  <2> QED  BY <2>1, CCountedBounds DEF Config!IDs
<1>5. /\ clisteners'[cid[w]] = NoWatcher
      /\ \A i \in Config!IDs(ConfigWatchers) : i # cid[w] => clisteners'[i] = clisteners[i]
      /\ clisteners' \in [Config!IDs(ConfigWatchers) -> ConfigWatchers \cup {NoWatcher}]
  BY <1>1, <1>4 DEF Config!TypeOK, Config!TableOK
<1>6. Config!TypeOK'
  BY <1>1, <1>2, <1>3, <1>5 DEF Config!TypeOK, Config!TableOK, CLocks, LPCs
<1>7. Config!ListenersListen'
  <2>1. \A i \in Config!IDs(ConfigWatchers) : clisteners'[i] # NoWatcher =>
          /\ cid[clisteners'[i]] = i
          /\ clpc'[clisteners'[i]] \in {"listening", "closing"}
    <3> SUFFICES ASSUME NEW i \in Config!IDs(ConfigWatchers), clisteners'[i] # NoWatcher
                 PROVE  /\ cid[clisteners'[i]] = i
                        /\ clpc'[clisteners'[i]] \in {"listening", "closing"}
      OBVIOUS
    <3>1. /\ i # cid[w] /\ clisteners'[i] = clisteners[i]
          /\ clisteners[i] \in ConfigWatchers
      BY <1>5 DEF Config!TypeOK, Config!TableOK
    <3>2. clisteners[i] # w
      BY <3>1 DEF Config!ListenersListen
    <3> QED  BY <1>1, <3>1, <3>2 DEF Config!ListenersListen
  <2>2. cclosed' = {v \in ConfigWatchers : clpc'[v] = "closed"}
    BY <1>1 DEF Config!ListenersListen
  <2>3. \A v \in ConfigWatchers :
          /\ clpc'[v] \in {"closing", "closed"} => v \in ccancelled'
          /\ crpc'[v] = "off" => cgot'[v] = <<>>
          /\ crpc'[v] # "off" => clpc'[v] \in {"listening", "closing", "closed"}
    BY <1>1, <1>2 DEF Config!ListenersListen
  <2> QED  BY <1>1, <2>1, <2>2, <2>3 DEF Config!ListenersListen, Config!IDs
<1>8. Config!IDsAreCounted'
  <2>1. Config!Counted' = Config!Counted
    BY <1>1 DEF Config!Counted
  <2> QED  BY <1>1, <2>1 DEF Config!IDsAreCounted
<1>9. Config!NoneIsBehind'
  <2>1. Config!Registered' \subseteq Config!Registered
    BY <1>5 DEF Config!Registered, Config!IDs
  <2> QED  BY <1>1, <2>1 DEF Config!NoneIsBehind, Config!Owes
<1> QED  BY <1>3, <1>6, <1>7, <1>8, <1>9

\* What a receiving end does touches neither table nor lock.
LEMMA CReceiveInd ==
  ASSUME Config!IndInv, NEW w \in ConfigWatchers, Config!Watch(w) \/ Config!Leave(w)
  PROVE  Config!IndInv'
<1> USE DEF Config!IndInv, Config!TableInv
<1>1. /\ UNCHANGED <<cmu, clisteners, clistenerID, cread, cid, clpc, cclosed, cgot>>
      /\ UNCHANGED <<initial, config, upc, uto, upending>>
      /\ crpc' \in [ConfigWatchers -> {"off", "receiving", "handling", "gone", "ended"}]
      /\ \A v \in ConfigWatchers : v # w => crpc'[v] = crpc[v]
      /\ crpc'[w] # crpc[w] =>
           /\ crpc'[w] # "off"
           /\ crpc[w] = "off" => clpc[w] \in {"listening", "closing", "closed"}
      /\ ccancelled \subseteq ccancelled' /\ ccancelled' \subseteq ConfigWatchers
  <2> USE DEF Config!listenVars, Config!updateVars, Config!TypeOK, Config!TableOK
  <2>1. CASE Config!Receive(w) /\ UNCHANGED <<initial, Config!updateVars>>
    BY <2>1 DEF Config!Receive
  <2>2. CASE Config!Handled(w) /\ UNCHANGED <<initial, Config!updateVars>>
    BY <2>2 DEF Config!Handled
  <2>3. CASE Config!RangeEnds(w) /\ UNCHANGED <<initial, Config!updateVars>>
    BY <2>3 DEF Config!RangeEnds
  <2>4. CASE Config!SendFails(w) /\ UNCHANGED <<initial, Config!updateVars>>
    BY <2>4 DEF Config!SendFails
  <2>5. CASE Config!Cancel(w) /\ UNCHANGED <<initial, Config!updateVars>>
    BY <2>5 DEF Config!Cancel
  <2> QED  BY <2>1, <2>2, <2>3, <2>4, <2>5 DEF Config!Watch, Config!Leave
<1>2. Config!TypeOK'
  BY <1>1 DEF Config!TypeOK, Config!TableOK
<1>3. Config!ListenersListen'
  BY <1>1 DEF Config!ListenersListen, Config!IDs
<1>4. Config!IDsAreCounted' /\ Config!ChangersHoldLock' /\ Config!ParkedBehindWriter'
  BY <1>1 DEF Config!IDsAreCounted, Config!Counted, Config!ChangersHoldLock,
              Config!ParkedBehindWriter
<1>5. Config!Registered' = Config!Registered
  BY <1>1 DEF Config!Registered, Config!IDs
<1>6. Config!UpdaterHoldsLock' /\ Config!InitialUnderLock'
  BY <1>1, <1>5 DEF Config!UpdaterHoldsLock, Config!InitialUnderLock
<1>7. Config!NoneIsBehind'
  BY <1>1, <1>5 DEF Config!NoneIsBehind, Config!Owes
<1> QED  BY <1>2, <1>3, <1>4, <1>6, <1>7

\* A configuration more at the end of what a watcher has got, and none is
\* newer.
LEMMA CAppendGot ==
  ASSUME Config!IndInv, NEW w \in ConfigWatchers, config' = config,
         cgot' = [cgot EXCEPT ![w] = Append(@, config)]
  PROVE  /\ cgot' \in [ConfigWatchers -> Seq(0..MaxEvents * Cardinality(Publishers))]
         /\ cgot'[w] # <<>> /\ cgot'[w][Len(cgot'[w])] = config
         /\ \A v \in ConfigWatchers : v # w => cgot'[v] = cgot[v]
         /\ \A v \in ConfigWatchers : \A i \in 1..Len(cgot'[v]) : cgot'[v][i] <= config
         /\ \A v \in ConfigWatchers : \A i \in 1..Len(cgot'[v]) - 1 :
              cgot'[v][i] <= cgot'[v][i + 1]
<1>1. PICK M \in Nat : M = MaxEvents * Cardinality(Publishers)
  BY MaxConfigsNat
<1>2. cgot \in [ConfigWatchers -> Seq(0..M)] /\ config \in 0..M
  BY <1>1 DEF Config!IndInv, Config!TypeOK, Config!TableOK
<1>3. PICK n \in Nat, s \in Seq(0..M) : s = cgot[w] /\ n = Len(s)
  BY <1>2
<1>4. PICK t \in Seq(0..M) : t = Append(s, config)
  <2>1. PICK D : D = 0..M
    OBVIOUS
  <2>2. s \in Seq(D) /\ config \in D
    BY <1>2, <1>3, <2>1
  <2>3. Append(s, config) \in Seq(D)
    BY <2>2
  <2> QED  BY <2>1, <2>3
<1>5. cgot'[w] = t /\ \A v \in ConfigWatchers : v # w => cgot'[v] = cgot[v]
  BY <1>2, <1>3, <1>4
<1>6. cgot' \in [ConfigWatchers -> Seq(0..M)]
  BY <1>2, <1>4, <1>5
<1>7. Len(t) = n + 1 /\ t[n + 1] = config /\ \A i \in 1..n : t[i] = s[i]
  BY <1>2, <1>3, <1>4
<1>8. /\ \A v \in ConfigWatchers : \A i \in 1..Len(cgot[v]) : cgot[v][i] <= config
      /\ \A v \in ConfigWatchers : \A i \in 1..Len(cgot[v]) - 1 :
           cgot[v][i] <= cgot[v][i + 1]
  BY DEF Config!IndInv, Config!NoneIsBehind
<1>9. \A i \in 1..n : s[i] <= config
  BY <1>3, <1>8
<1>10. \A i \in 1..n - 1 : s[i] <= s[i + 1]
  BY <1>3, <1>8
<1>11. \A i \in 1..n + 1 : t[i] <= config
  <2> SUFFICES ASSUME NEW i \in 1..n + 1 PROVE t[i] <= config
    OBVIOUS
  <2>1. CASE i = n + 1
    <3>1. t[i] = config /\ config \in Nat
      BY <1>2, <1>7, <2>1
    <3> QED  BY <3>1
  <2>2. CASE i # n + 1
    <3>1. i \in 1..n
      BY <2>2
    <3> QED  BY <1>7, <1>9, <3>1
  <2> QED  BY <2>1, <2>2
<1>12. \A i \in 1..n : t[i] <= t[i + 1]
  <2> SUFFICES ASSUME NEW i \in 1..n PROVE t[i] <= t[i + 1]
    OBVIOUS
  <2>1. CASE i = n
    BY <1>7, <1>9, <2>1
  <2>2. CASE i # n
    <3>1. i \in 1..n - 1 /\ i + 1 \in 1..n
      BY <2>2
    <3> QED  BY <1>7, <1>10, <3>1
  <2> QED  BY <2>1, <2>2
<1>13. ASSUME NEW v \in ConfigWatchers
       PROVE  /\ \A i \in 1..Len(cgot'[v]) : cgot'[v][i] <= config
              /\ \A i \in 1..Len(cgot'[v]) - 1 : cgot'[v][i] <= cgot'[v][i + 1]
  <2>1. CASE v = w
    <3>1. cgot'[v] = t /\ 1..Len(t) = 1..n + 1 /\ 1..Len(t) - 1 = 1..n
      BY <1>5, <1>7, <2>1
    <3> QED  BY <1>11, <1>12, <3>1
  <2>2. CASE v # w
    BY <1>5, <1>8, <2>2
  <2> QED  BY <2>1, <2>2
<1>14. t # <<>> /\ t[Len(t)] = config
  BY <1>7
<1> QED  BY <1>1, <1>5, <1>6, <1>13, <1>14

\* The goroutine of a watcher asks for the read lock.
LEMMA CRLockInd ==
  ASSUME Config!IndInv, NEW w \in ConfigWatchers, Config!RLockToSend(w)
  PROVE  Config!IndInv'
<1> USE DEF Config!IndInv, Config!TableInv
<1>1. /\ UNCHANGED <<clisteners, clistenerID, cread, cid, clpc, ccancelled, cclosed,
                     crpc, cgot>>
      /\ UNCHANGED <<config, upc, uto, upending>>
      /\ cmu' = Config!RW!RLock(cmu, w)
      /\ clpc[w] = "listening"
      /\ initial[w] = "none" /\ initial' = [initial EXCEPT ![w] = "locking"]
  BY DEF Config!RLockToSend, Config!listenVars, Config!receiveVars, Config!updateVars
<1>2. cmu \in CLocks
  BY DEF Config!TypeOK, Config!TableOK, CLocks
<1>3. /\ cmu' \in CLocks /\ cmu'.writer = cmu.writer
      /\ cmu.writer = NoGoroutine =>
           cmu'.readers = cmu.readers \cup {w} /\ cmu'.parked = cmu.parked
      /\ cmu.writer # NoGoroutine =>
           cmu'.readers = cmu.readers /\ cmu'.parked = cmu.parked \cup {w}
  BY <1>1, <1>2, CRLockFields
<1>4. /\ initial' \in [ConfigWatchers -> {"none", "locking", "sent", "done"}]
      /\ initial'[w] = "locking"
      /\ \A v \in ConfigWatchers : v # w => initial'[v] = initial[v]
  BY <1>1 DEF Config!TypeOK
<1>5. w \notin cmu.readers /\ w \notin cmu.parked
  BY <1>1 DEF Config!InitialUnderLock
<1>6. Config!TypeOK'
  BY <1>1, <1>3, <1>4 DEF Config!TypeOK, Config!TableOK, CLocks
<1>7. Config!ListenersListen' /\ Config!IDsAreCounted' /\ Config!ChangersHoldLock'
  BY <1>1, <1>3 DEF Config!ListenersListen, Config!IDsAreCounted, Config!Counted,
                    Config!ChangersHoldLock, Config!IDs
<1>8. Config!ParkedBehindWriter'
  BY <1>3, <1>5 DEF Config!ParkedBehindWriter
<1>9. Config!Registered' = Config!Registered
  BY <1>1 DEF Config!Registered, Config!IDs
<1>10. Config!UpdaterHoldsLock'
  <2>1. upc = "sending" => cmu.writer # NoGoroutine
    BY DEF Config!UpdaterHoldsLock
  <2> QED  BY <1>1, <1>3, <1>9, <2>1 DEF Config!UpdaterHoldsLock
<1>11. Config!InitialUnderLock'
  <2>1. \A v \in ConfigWatchers : v # w =>
          /\ v \in cmu'.readers <=> v \in cmu.readers
          /\ v \in cmu'.parked <=> v \in cmu.parked
    BY <1>3
  <2>2. w \in cmu'.readers \cup cmu'.parked
    BY <1>3
  <2> QED  BY <1>1, <1>4, <2>1, <2>2 DEF Config!InitialUnderLock
<1>12. Config!NoneIsBehind'
  <2>1. \A v \in ConfigWatchers : initial'[v] \in {"sent", "done"} => initial'[v] = initial[v]
    BY <1>4
  <2>2. Config!Registered \subseteq ConfigWatchers
    BY DEF Config!Registered, Config!TypeOK, Config!TableOK
  <2> QED  BY <1>1, <1>9, <2>1, <2>2 DEF Config!NoneIsBehind, Config!Owes
<1> QED  BY <1>6, <1>7, <1>8, <1>10, <1>11, <1>12

\* No update is on its way while a first configuration is sent.
LEMMA CSendInitialInd ==
  ASSUME Config!IndInv, NEW w \in ConfigWatchers, Config!SendInitial(w)
  PROVE  Config!IndInv'
<1> USE DEF Config!IndInv, Config!TableInv
<1>1. /\ UNCHANGED <<cmu, clisteners, clistenerID, cread, cid, clpc, ccancelled, cclosed>>
      /\ UNCHANGED <<config, upc, uto, upending>>
      /\ w \in cmu.readers
      /\ initial[w] = "locking" /\ initial' = [initial EXCEPT ![w] = "sent"]
      /\ crpc[w] = "receiving" /\ crpc' = [crpc EXCEPT ![w] = "handling"]
      /\ cgot' = [cgot EXCEPT ![w] = Append(@, config)]
  BY DEF Config!SendInitial, Config!Deliver, Config!listenVars, Config!updateVars,
         Config!RW!Reads
<1>2. /\ cgot' \in [ConfigWatchers -> Seq(0..MaxEvents * Cardinality(Publishers))]
      /\ cgot'[w] # <<>> /\ cgot'[w][Len(cgot'[w])] = config
      /\ \A v \in ConfigWatchers : v # w => cgot'[v] = cgot[v]
      /\ \A v \in ConfigWatchers : \A i \in 1..Len(cgot'[v]) : cgot'[v][i] <= config
      /\ \A v \in ConfigWatchers : \A i \in 1..Len(cgot'[v]) - 1 :
           cgot'[v][i] <= cgot'[v][i + 1]
  BY <1>1, CAppendGot
<1>3. /\ initial' \in [ConfigWatchers -> {"none", "locking", "sent", "done"}]
      /\ initial'[w] = "sent"
      /\ \A v \in ConfigWatchers : v # w => initial'[v] = initial[v]
      /\ crpc' \in [ConfigWatchers -> {"off", "receiving", "handling", "gone", "ended"}]
      /\ crpc'[w] = "handling"
      /\ \A v \in ConfigWatchers : v # w => crpc'[v] = crpc[v]
  BY <1>1 DEF Config!TypeOK, Config!TableOK
<1>4. UNCHANGED <<cmu, clisteners, clistenerID, cread, cid, clpc, ccancelled, cclosed,
                  config, upc, uto, upending>>
  BY <1>1
<1>5. Config!TypeOK'
  BY <1>2, <1>3, <1>4 DEF Config!TypeOK, Config!TableOK
<1>6. Config!ListenersListen'
  BY <1>1, <1>2, <1>3, <1>4 DEF Config!ListenersListen, Config!IDs
<1>7. Config!IDsAreCounted' /\ Config!ChangersHoldLock' /\ Config!ParkedBehindWriter'
  BY <1>4 DEF Config!IDsAreCounted, Config!Counted, Config!ChangersHoldLock,
              Config!ParkedBehindWriter
<1>8. Config!Registered' = Config!Registered /\ Config!Registered \subseteq ConfigWatchers
  BY <1>4 DEF Config!Registered, Config!IDs, Config!TypeOK, Config!TableOK
<1>9. Config!UpdaterHoldsLock'
  BY <1>4, <1>8 DEF Config!UpdaterHoldsLock
<1>10. Config!InitialUnderLock'
  BY <1>1, <1>3, <1>4 DEF Config!InitialUnderLock
<1>11. Config!NoneIsBehind'
  BY <1>2, <1>3, <1>4, <1>8 DEF Config!NoneIsBehind, Config!Owes
<1> QED  BY <1>5, <1>6, <1>7, <1>9, <1>10, <1>11

\* It is done with the lock.
LEMMA CRUnlockInd ==
  ASSUME Config!IndInv, NEW w \in ConfigWatchers, Config!RUnlockSent(w)
  PROVE  Config!IndInv'
<1> USE DEF Config!IndInv, Config!TableInv
<1>1. /\ UNCHANGED <<clisteners, clistenerID, cread, cid, clpc, ccancelled, cclosed,
                     crpc, cgot>>
      /\ UNCHANGED <<config, upc, uto, upending>>
      /\ cmu' = Config!RW!RUnlock(cmu, w)
      /\ initial[w] = "sent" /\ initial' = [initial EXCEPT ![w] = "done"]
  BY DEF Config!RUnlockSent, Config!listenVars, Config!receiveVars, Config!updateVars
<1>2. cmu \in CLocks
  BY DEF Config!TypeOK, Config!TableOK, CLocks
<1>3. /\ cmu' \in CLocks /\ cmu'.writer = cmu.writer
      /\ cmu'.readers = cmu.readers \ {w} /\ cmu'.parked = cmu.parked
  BY <1>1, <1>2, CRUnlockFields
<1>4. /\ initial' \in [ConfigWatchers -> {"none", "locking", "sent", "done"}]
      /\ initial'[w] = "done"
      /\ \A v \in ConfigWatchers : v # w => initial'[v] = initial[v]
  BY <1>1 DEF Config!TypeOK
<1>5. w \in cmu.readers /\ w \notin cmu.parked
  BY <1>1 DEF Config!InitialUnderLock, Config!ParkedBehindWriter
<1>6. Config!TypeOK'
  BY <1>1, <1>3, <1>4 DEF Config!TypeOK, Config!TableOK, CLocks
<1>7. /\ Config!ListenersListen' /\ Config!IDsAreCounted' /\ Config!ChangersHoldLock'
      /\ Config!ParkedBehindWriter'
  BY <1>1, <1>3 DEF Config!ListenersListen, Config!IDsAreCounted, Config!Counted,
                    Config!ChangersHoldLock, Config!ParkedBehindWriter, Config!IDs
<1>8. Config!Registered' = Config!Registered /\ Config!Registered \subseteq ConfigWatchers
  BY <1>1 DEF Config!Registered, Config!IDs, Config!TypeOK, Config!TableOK
<1>9. Config!UpdaterHoldsLock'
  BY <1>1, <1>3, <1>8 DEF Config!UpdaterHoldsLock
<1>10. Config!InitialUnderLock'
  BY <1>1, <1>3, <1>4, <1>5 DEF Config!InitialUnderLock
<1>11. Config!NoneIsBehind'
  BY <1>1, <1>4, <1>8 DEF Config!NoneIsBehind, Config!Owes
<1> QED  BY <1>6, <1>7, <1>9, <1>10, <1>11

-----------------------------------------------------------------------------
(* updateConfig.                                                           *)

\* The loop of Start announces itself.
LEMMA CLockToUpdateInd ==
  ASSUME Config!IndInv, Config!LockToUpdate
  PROVE  Config!IndInv'
<1> USE DEF Config!IndInv, Config!TableInv
<1>1. /\ UNCHANGED <<clisteners, clistenerID, cread, cid, clpc, ccancelled, cclosed,
                     crpc, cgot>>
      /\ UNCHANGED <<initial, config, uto, upending>>
      /\ cmu.writer = NoGoroutine /\ cmu' = Config!RW!Announce(cmu, Starter)
      /\ upc = "idle" /\ upc' = "locking"
      /\ config < MaxEvents * Cardinality(Publishers)
  BY DEF Config!LockToUpdate, Config!listenVars, Config!receiveVars, Config!RW!CanAnnounce
<1>2. /\ cmu' \in CLocks
      /\ cmu'.readers = cmu.readers /\ cmu'.parked = cmu.parked /\ cmu'.writer = Starter
  <2>1. cmu \in CLocks
    BY DEF Config!TypeOK, Config!TableOK, CLocks
  <2> QED  BY <1>1, <2>1, CAnnounceFields
<1>3. Config!TypeOK'
  BY <1>1, <1>2 DEF Config!TypeOK, Config!TableOK, CLocks
<1>4. Config!ListenersListen' /\ Config!IDsAreCounted'
  BY <1>1 DEF Config!ListenersListen, Config!IDsAreCounted, Config!Counted, Config!IDs
<1>5. Config!ChangersHoldLock' /\ Config!ParkedBehindWriter'
  BY <1>1, <1>2 DEF Config!ChangersHoldLock, Config!ParkedBehindWriter
<1>6. Config!Registered' = Config!Registered
  BY <1>1 DEF Config!Registered, Config!IDs
<1>7. Config!UpdaterHoldsLock' /\ Config!InitialUnderLock'
  BY <1>1, <1>2, <1>6 DEF Config!UpdaterHoldsLock, Config!InitialUnderLock
<1>8. Config!NoneIsBehind'
  BY <1>1, <1>6 DEF Config!NoneIsBehind, Config!Owes
<1> QED  BY <1>3, <1>4, <1>5, <1>7, <1>8

\* Its loop comes to one of the channels in S and has the others still before
\* it.
LEMMA CGoOnFields ==
  ASSUME NEW S \in SUBSET ConfigWatchers, Config!GoOnWith(S)
  PROVE  /\ uto' \in ConfigWatchers \cup {NoWatcher}
         /\ upending' \in SUBSET ConfigWatchers
         /\ uto' \notin upending'
         /\ (upending' \cup {uto'}) \ {NoWatcher} = S
         /\ uto' = NoWatcher => upending' = {}
<1>1. PICK w \in IF S = {} THEN {NoWatcher} ELSE S : uto' = w /\ upending' = S \ {w}
  BY DEF Config!GoOnWith
<1>2. NoWatcher \notin S
  OBVIOUS
<1>3. CASE S = {}
  BY <1>1, <1>2, <1>3
<1>4. CASE S # {}
  BY <1>1, <1>2, <1>4
<1> QED  BY <1>3, <1>4

\* A new configuration is owed to everybody in the table.
LEMMA CUpdateInd ==
  ASSUME Config!IndInv, Config!Update
  PROVE  Config!IndInv'
<1> USE DEF Config!IndInv, Config!TableInv
<1>1. PICK S : S = Config!Registered
  OBVIOUS
<1>2. /\ UNCHANGED <<cmu, clisteners, clistenerID, cread, cid, clpc, ccancelled, cclosed,
                     crpc, cgot, initial>>
      /\ upc = "locking" /\ upc' = "sending"
      /\ cmu.writer = Starter /\ cmu.readers = {}
      /\ config' = config + 1
      /\ Config!GoOnWith(S)
  BY <1>1 DEF Config!Update, Config!listenVars, Config!receiveVars, Config!RW!Writes
<1>3. S \in SUBSET ConfigWatchers
  BY <1>1 DEF Config!Registered, Config!TypeOK, Config!TableOK
<1>4. /\ uto' \in ConfigWatchers \cup {NoWatcher}
      /\ upending' \in SUBSET ConfigWatchers
      /\ uto' \notin upending'
      /\ (upending' \cup {uto'}) \ {NoWatcher} = S
      /\ uto' = NoWatcher => upending' = {}
  BY <1>2, <1>3, CGoOnFields
<1>5. PICK M \in Nat : M = MaxEvents * Cardinality(Publishers)
  BY MaxConfigsNat
<1>6. config \in 0..M /\ config' \in 0..M
  BY <1>2, <1>5 DEF Config!TypeOK, Config!UpdaterHoldsLock
<1>7. Config!TypeOK'
  BY <1>2, <1>4, <1>5, <1>6 DEF Config!TypeOK, Config!TableOK
<1>8. Config!ListenersListen' /\ Config!IDsAreCounted'
  BY <1>2 DEF Config!ListenersListen, Config!IDsAreCounted, Config!Counted, Config!IDs
<1>9. Config!ChangersHoldLock' /\ Config!ParkedBehindWriter' /\ Config!InitialUnderLock'
  BY <1>2 DEF Config!ChangersHoldLock, Config!ParkedBehindWriter, Config!InitialUnderLock
<1>10. Config!Registered' = S
  BY <1>1, <1>2 DEF Config!Registered, Config!IDs
<1>11. Config!UpdaterHoldsLock'
  <2>1. upending' \subseteq S /\ uto' \in S \cup {NoWatcher}
    BY <1>4
  <2> QED  BY <1>2, <1>4, <1>10, <2>1 DEF Config!UpdaterHoldsLock
<1>12. Config!NoneIsBehind'
  <2>1. \A v \in S : Config!Owes(v)'
    BY <1>4 DEF Config!Owes
  <2>2. \A v \in ConfigWatchers : \A i \in 1..Len(cgot[v]) : cgot[v][i] <= config'
    <3>1. \A v \in ConfigWatchers : \A i \in 1..Len(cgot[v]) : cgot[v][i] \in Nat
      <4>1. cgot \in [ConfigWatchers -> Seq(0..M)]
        BY <1>5 DEF Config!TypeOK, Config!TableOK
      <4> QED  BY <4>1
    <3> QED  BY <1>2, <1>6, <3>1 DEF Config!NoneIsBehind
  <2> QED  BY <1>2, <1>10, <2>1, <2>2 DEF Config!NoneIsBehind
<1> QED  BY <1>7, <1>8, <1>9, <1>11, <1>12

\* A watcher who gets it is not owed it any more.
LEMMA CSendInd ==
  ASSUME Config!IndInv, Config!Send
  PROVE  Config!IndInv'
<1> USE DEF Config!IndInv, Config!TableInv
<1>1. PICK w, S : w = uto /\ S = upending
  OBVIOUS
<1>2. /\ UNCHANGED <<cmu, clisteners, clistenerID, cread, cid, clpc, ccancelled, cclosed>>
      /\ UNCHANGED <<initial, config, upc>>
      /\ w \in ConfigWatchers
      /\ crpc[w] = "receiving" /\ crpc' = [crpc EXCEPT ![w] = "handling"]
      /\ cgot' = [cgot EXCEPT ![w] = Append(@, config)]
      /\ Config!GoOnWith(S)
  BY <1>1 DEF Config!Send, Config!Deliver, Config!listenVars, Config!TypeOK
<1>3. S \in SUBSET ConfigWatchers
  BY <1>1 DEF Config!TypeOK
<1>4. /\ uto' \in ConfigWatchers \cup {NoWatcher}
      /\ upending' \in SUBSET ConfigWatchers
      /\ uto' \notin upending'
      /\ (upending' \cup {uto'}) \ {NoWatcher} = S
      /\ uto' = NoWatcher => upending' = {}
  BY <1>2, <1>3, CGoOnFields
<1>5. /\ cgot' \in [ConfigWatchers -> Seq(0..MaxEvents * Cardinality(Publishers))]
      /\ cgot'[w] # <<>> /\ cgot'[w][Len(cgot'[w])] = config
      /\ \A v \in ConfigWatchers : v # w => cgot'[v] = cgot[v]
      /\ \A v \in ConfigWatchers : \A i \in 1..Len(cgot'[v]) : cgot'[v][i] <= config
      /\ \A v \in ConfigWatchers : \A i \in 1..Len(cgot'[v]) - 1 :
           cgot'[v][i] <= cgot'[v][i + 1]
  BY <1>2, CAppendGot
<1>6. UNCHANGED <<cmu, clisteners, clistenerID, cread, cid, clpc, ccancelled, cclosed,
                  initial, config, upc>>
  BY <1>2
<1>7. /\ crpc' \in [ConfigWatchers -> {"off", "receiving", "handling", "gone", "ended"}]
      /\ crpc'[w] = "handling"
      /\ \A v \in ConfigWatchers : v # w => crpc'[v] = crpc[v]
  BY <1>2 DEF Config!TypeOK, Config!TableOK
<1>8. Config!TypeOK'
  BY <1>4, <1>5, <1>6, <1>7 DEF Config!TypeOK, Config!TableOK
<1>9. Config!ListenersListen'
  <2>1. \A i \in Config!IDs(ConfigWatchers) : clisteners'[i] # NoWatcher =>
          /\ cid'[clisteners'[i]] = i
          /\ clpc'[clisteners'[i]] \in {"listening", "closing"}
    BY <1>6 DEF Config!ListenersListen
  <2>2. cclosed' = {v \in ConfigWatchers : clpc'[v] = "closed"}
    BY <1>6 DEF Config!ListenersListen
  <2>3. clpc[w] \in {"listening", "closing", "closed"}
    BY <1>2 DEF Config!ListenersListen
  <2>4. \A v \in ConfigWatchers :
          /\ clpc'[v] \in {"closing", "closed"} => v \in ccancelled'
          /\ crpc'[v] = "off" => cgot'[v] = <<>>
          /\ crpc'[v] # "off" => clpc'[v] \in {"listening", "closing", "closed"}
    <3> SUFFICES ASSUME NEW v \in ConfigWatchers
                 PROVE  /\ clpc[v] \in {"closing", "closed"} => v \in ccancelled
                        /\ crpc'[v] = "off" => cgot'[v] = <<>>
                        /\ crpc'[v] # "off" => clpc[v] \in {"listening", "closing", "closed"}
      BY <1>6
    <3>1. CASE v = w
      BY <1>7, <2>3, <3>1 DEF Config!ListenersListen
    <3>2. CASE v # w
      BY <1>5, <1>7, <3>2 DEF Config!ListenersListen
    <3> QED  BY <3>1, <3>2
  <2> QED  BY <2>1, <2>2, <2>4 DEF Config!ListenersListen, Config!IDs
<1>10. /\ Config!IDsAreCounted' /\ Config!ChangersHoldLock' /\ Config!ParkedBehindWriter'
       /\ Config!InitialUnderLock'
  BY <1>6 DEF Config!IDsAreCounted, Config!Counted, Config!ChangersHoldLock,
              Config!ParkedBehindWriter, Config!InitialUnderLock
<1>11. Config!Registered' = Config!Registered /\ Config!Registered \subseteq ConfigWatchers
  BY <1>6 DEF Config!Registered, Config!IDs, Config!TypeOK, Config!TableOK
<1>12. Config!UpdaterHoldsLock'
  <2>1. w # NoWatcher /\ upc = "sending" /\ S \subseteq Config!Registered
    BY <1>1, <1>2 DEF Config!UpdaterHoldsLock
  <2>2. upending' \subseteq S /\ uto' \in S \cup {NoWatcher}
    BY <1>4
  <2> QED  BY <1>4, <1>6, <1>11, <2>1, <2>2 DEF Config!UpdaterHoldsLock
<1>13. Config!NoneIsBehind'
  <2>1. \A v \in ConfigWatchers : v # w => Config!Owes(v)' = Config!Owes(v)
    BY <1>1, <1>4 DEF Config!Owes
  <2> QED  BY <1>5, <1>6, <1>11, <2>1 DEF Config!NoneIsBehind
<1> QED  BY <1>8, <1>9, <1>10, <1>12, <1>13

\* updateConfig is done when it owes nobody anything.
LEMMA CUnlockUpdatedInd ==
  ASSUME Config!IndInv, Config!UnlockUpdated
  PROVE  Config!IndInv'
<1> USE DEF Config!IndInv, Config!TableInv
<1>1. /\ UNCHANGED <<clisteners, clistenerID, cread, cid, clpc, ccancelled, cclosed,
                     crpc, cgot>>
      /\ UNCHANGED <<initial, config, uto, upending>>
      /\ cmu' = Config!RW!Unlock(cmu)
      /\ uto = NoWatcher
      /\ upc = "sending" /\ upc' = "idle"
  BY DEF Config!UnlockUpdated, Config!listenVars, Config!receiveVars
<1>2. /\ cmu' \in CLocks
      /\ cmu'.readers = cmu.parked /\ cmu'.parked = {} /\ cmu'.writer = NoGoroutine
  <2>1. cmu \in CLocks
    BY DEF Config!TypeOK, Config!TableOK, CLocks
  <2> QED  BY <1>1, <2>1, CUnlockFields
<1>3. cmu.writer = Starter /\ cmu.readers = {}
  BY <1>1 DEF Config!UpdaterHoldsLock
<1>4. Config!TypeOK'
  BY <1>1, <1>2 DEF Config!TypeOK, Config!TableOK, CLocks
<1>5. Config!ListenersListen' /\ Config!IDsAreCounted'
  BY <1>1 DEF Config!ListenersListen, Config!IDsAreCounted, Config!Counted, Config!IDs
<1>6. Config!ChangersHoldLock' /\ Config!ParkedBehindWriter'
  BY <1>1, <1>2, <1>3 DEF Config!ChangersHoldLock, Config!ParkedBehindWriter
<1>7. Config!Registered' = Config!Registered
  BY <1>1 DEF Config!Registered, Config!IDs
<1>8. Config!UpdaterHoldsLock' /\ Config!InitialUnderLock'
  BY <1>1, <1>2, <1>3, <1>7 DEF Config!UpdaterHoldsLock, Config!InitialUnderLock
<1>9. Config!NoneIsBehind'
  BY <1>1, <1>7 DEF Config!NoneIsBehind, Config!Owes
<1> QED  BY <1>4, <1>5, <1>6, <1>8, <1>9

\* Nobody watches yet.
LEMMA CInitInd == Config!Init => Config!IndInv
<1> SUFFICES ASSUME Config!Init PROVE Config!IndInv
  OBVIOUS
<1> USE DEF Config!Init, Config!TableInit
<1>1. /\ Config!Cardinality(ConfigWatchers) \in Nat
      /\ MaxEvents * Cardinality(Publishers) \in Nat
  BY CCountedBounds, MaxConfigsNat
<1>2. cmu = [readers |-> {}, parked |-> {}, writer |-> NoGoroutine]
  BY DEF Config!RW!Free
<1>3. PICK M \in Nat : M = MaxEvents * Cardinality(Publishers)
  BY <1>1
<1>4. Config!TypeOK
  BY <1>1, <1>2, <1>3 DEF Config!TypeOK, Config!TableOK
<1>5. Config!ListenersListen
  BY DEF Config!ListenersListen
<1>6. Config!Counted = {} /\ Config!Cardinality(Config!Counted) = 0
  BY FS_EmptySet, SameCardinality DEF Config!Counted
<1>7. Config!IDsAreCounted
  BY <1>6 DEF Config!IDsAreCounted
<1>8. Config!ChangersHoldLock /\ Config!ParkedBehindWriter
  BY <1>2 DEF Config!ChangersHoldLock, Config!ParkedBehindWriter
<1>9. Config!UpdaterHoldsLock /\ Config!InitialUnderLock
  BY <1>2 DEF Config!UpdaterHoldsLock, Config!InitialUnderLock
<1>10. Config!NoneIsBehind
  BY DEF Config!NoneIsBehind, Config!Registered
<1> QED  BY <1>4, <1>5, <1>7, <1>8, <1>9, <1>10 DEF Config!IndInv, Config!TableInv

\* Config!IndInv speaks of the configuration's variables only.
LEMMA CStutterInd == Config!IndInv /\ UNCHANGED configVars => Config!IndInv'
<1> SUFFICES ASSUME Config!IndInv, UNCHANGED configVars PROVE Config!IndInv'
  OBVIOUS
<1> USE DEF configVars, Config!IndInv, Config!TableInv
<1>1. Config!TypeOK' /\ Config!ListenersListen' /\ Config!IDsAreCounted'
  BY DEF Config!TypeOK, Config!TableOK, Config!ListenersListen, Config!IDsAreCounted,
         Config!Counted
<1>2. Config!ChangersHoldLock' /\ Config!ParkedBehindWriter' /\ Config!InitialUnderLock'
  BY DEF Config!ChangersHoldLock, Config!ParkedBehindWriter, Config!InitialUnderLock
<1>3. Config!UpdaterHoldsLock' /\ Config!NoneIsBehind'
  BY DEF Config!UpdaterHoldsLock, Config!NoneIsBehind, Config!Owes, Config!Registered
<1> QED  BY <1>1, <1>2, <1>3

\* What is sent to is in the table, and what is closed is not; in the table
\* nobody lacks the latest configuration unless he is owed it.
LEMMA CSafe == Config!IndInv => Config!NoConfigOnClosed /\ Config!WatchersAreCurrent
<1> SUFFICES ASSUME Config!IndInv
             PROVE  Config!NoConfigOnClosed /\ Config!WatchersAreCurrent
  OBVIOUS
<1> USE DEF Config!IndInv, Config!TableInv
<1>1. Config!Registered \cap cclosed = {}
  BY DEF Config!ListenersListen, Config!Registered
<1>2. NoWatcher \notin cclosed
  BY DEF Config!TypeOK, Config!TableOK
<1>3. Config!NoConfigOnClosed
  BY <1>1, <1>2 DEF Config!NoConfigOnClosed, Config!UpdaterHoldsLock,
                    Config!InitialUnderLock, Config!ListenersListen
<1>4. upc # "sending" => \A w \in Config!Registered : ~Config!Owes(w)
  BY DEF Config!Owes, Config!UpdaterHoldsLock, Config!Registered
<1> QED  BY <1>3, <1>4 DEF Config!WatchersAreCurrent, Config!NoneIsBehind

-----------------------------------------------------------------------------
(* The node.                                                               *)

\* Of the events, all see what RaftEventListener shows them.
LEMMA EventSteps == NodeNext => [Next]_vars
<1>1. ASSUME NEW p \in Publishers, PublishStep(p)
      PROVE  Publish(p)
  BY <1>1 DEF PublishStep, PublishAbout, SendEvent, Publish
<1>2. ASSUME StartListens \/ PassOver \/ UpdateUnwatched \/ UpdateConfigReturns
      PROVE  WatcherStep(Starter) /\ UNCHANGED publishVars
  BY <1>2 DEF StartListens, PassOver, UpdateUnwatched, UpdateConfigReturns,
              WatcherStep, Lock, Loop
<1>3. ASSUME LeaderHeard \/ UpdateStep \/ CallUpdateConfig
      PROVE  UNCHANGED vars
  BY <1>3 DEF LeaderHeard, UpdateStep, CallUpdateConfig
<1>4. ASSUME NEW w \in ConfigWatchers, ConfigWatcher(w)
      PROVE  UNCHANGED vars
  BY <1>4 DEF ConfigWatcher
<1>5. ASSUME NEW w \in Remote, RemoteStep(w)
      PROVE  \E v \in Watchers : WatcherStep(v) /\ UNCHANGED publishVars
  BY <1>5 DEF RemoteStep, Remote
<1> QED  BY <1>1, <1>2, <1>3, <1>4, <1>5 DEF NodeNext, StartLoop, Next

\* A remote watcher leaves Start, its loop and the configuration alone, and
\* gets nothing by himself.
LEMMA RemoteAlone ==
  ASSUME NEW w \in Remote, RemoteStep(w)
  PROVE  /\ UNCHANGED <<about, inHand, spc, started, returned, got>>
         /\ UNCHANGED configVars
         /\ rpc \in [Watchers -> {"off", "receiving", "handling", "gone", "ended"}]
              => rpc'[Starter] = rpc[Starter]
<1>1. WatcherStep(w) /\ w # Starter
  BY DEF RemoteStep, Remote
<1>2. CASE Listen(w) \/ Lock(w)
  BY <1>2 DEF RemoteStep, startVars, Listen, Lock, ReadCounter, WriteCounter, TakeID,
              Register, LockToListen, LockToClose, receiveVars
<1>3. CASE Close(w)
  BY <1>3 DEF RemoteStep, startVars, Close
<1>4. CASE Loop(w)
  BY <1>1, <1>4 DEF RemoteStep, startVars, Loop, Receive, Handled, RangeEnds
<1>5. CASE Leave(w)
  BY <1>1, <1>5 DEF RemoteStep, startVars, Leave, SendFails, Cancel
<1> QED  BY <1>1, <1>2, <1>3, <1>4, <1>5 DEF WatcherStep

\* A step of the node is a step of the configuration's watchers or of
\* updateConfig, or leaves the configuration alone.
LEMMA ConfigSteps ==
  ASSUME NodeNext
  PROVE  \/ UNCHANGED configVars
         \/ \E w \in ConfigWatchers : Config!WatcherStep(w)
         \/ Config!LockToUpdate \/ Config!UpdateStep \/ Config!UnlockUpdated
<1>1. ASSUME NEW p \in Publishers, PublishStep(p)
      PROVE  UNCHANGED configVars
  BY <1>1 DEF PublishStep, PublishAbout, SendEvent
<1>2. ASSUME StartListens \/ PassOver \/ LeaderHeard \/ UpdateUnwatched
      PROVE  UNCHANGED configVars
  BY <1>2 DEF StartListens, PassOver, LeaderHeard, UpdateUnwatched
<1> QED  BY <1>1, <1>2, RemoteAlone DEF NodeNext, StartLoop, UpdateStep,
                           UpdateConfigReturns, CallUpdateConfig, ConfigWatcher

\* The invariant of the configuration's table.
LEMMA CNextInd ==
  ASSUME Config!IndInv, [NodeNext]_nodeVars
  PROVE  Config!IndInv'
<1>1. CASE UNCHANGED configVars
  BY <1>1, CStutterInd
<1>2. ASSUME NEW w \in ConfigWatchers, Config!WatcherStep(w)
      PROVE  Config!IndInv'
  <2>1. CASE Config!Listen(w)
    BY <2>1, CCountingInd, CLockInd, CRegisterInd DEF Config!Listen, Config!updateVars
  <2>2. CASE Config!Watch(w) \/ Config!Leave(w)
    BY <2>2, CReceiveInd
  <2>3. CASE Config!RLockToSend(w) \/ Config!SendInitial(w) \/ Config!RUnlockSent(w)
    BY <2>3, CRLockInd, CSendInitialInd, CRUnlockInd
  <2>4. CASE Config!LockToLeave(w)
    BY <2>4, CLockInd DEF Config!LockToLeave, Config!updateVars
  <2>5. CASE Config!CloseWatch(w)
    BY <2>5, CCloseInd DEF Config!CloseWatch, Config!updateVars
  <2> QED  BY <1>2, <2>1, <2>2, <2>3, <2>4, <2>5 DEF Config!WatcherStep
<1>3. CASE Config!LockToUpdate \/ Config!UpdateStep \/ Config!UnlockUpdated
  BY <1>3, CLockToUpdateInd, CUpdateInd, CSendInd, CUnlockUpdatedInd DEF Config!UpdateStep
<1> QED  BY <1>1, <1>2, <1>3, ConfigSteps DEF nodeVars

\* The variables of Start.
StartTypeOK ==
  /\ about \in [Publishers -> Partitions \cup {NoPartition}]
  /\ inHand \in Partitions \cup {NoPartition}
  /\ spc \in {"free", "leader", "updating"}
  /\ started \in SUBSET Partitions
  /\ returned \in BOOLEAN

\* An event is received only when the one before has been dealt with.
LEMMA PublishedInd ==
  ASSUME IndInv, StartTypeOK, LoopIsBusy, NEW p \in Publishers, PublishStep(p)
  PROVE  StartTypeOK' /\ LoopIsBusy'
<1>1. CASE PublishAbout(p)
  BY <1>1 DEF PublishAbout, RLockToPublish, receiveVars, configVars, StartTypeOK, LoopIsBusy
<1>2. CASE SendEvent(p)
  <2>1. UNCHANGED <<about, spc, started, returned, upc>>
    BY <1>2 DEF SendEvent, configVars
  <2>2. CASE to[p] = Starter
    <3>1. rpc[Starter] = "receiving" /\ inHand' = about[p]
      BY <1>2, <2>2 DEF SendEvent, Send, Deliver
    <3>2. spc = "free"
      BY <3>1 DEF LoopIsBusy
    <3> QED  BY <2>1, <3>1, <3>2 DEF StartTypeOK, LoopIsBusy
  <2>3. CASE to[p] # Starter
    <3>1. UNCHANGED inHand /\ rpc'[Starter] = rpc[Starter]
      BY <1>2, <2>3 DEF SendEvent, Send, Deliver, IndInv, TypeOK, TableOK
    <3> QED  BY <2>1, <3>1 DEF StartTypeOK, LoopIsBusy
  <2> QED  BY <2>2, <2>3
<1>3. CASE (StartRange(p) \/ RUnlock(p)) /\ UNCHANGED <<startVars, configVars>>
  BY <1>3 DEF StartRange, RUnlock, receiveVars, startVars, configVars, StartTypeOK,
              LoopIsBusy
<1> QED  BY <1>1, <1>2, <1>3 DEF PublishStep

\* Start's loop.
LEMMA LoopInd ==
  ASSUME IndInv, StartTypeOK, LoopIsBusy, StartListens \/ StartLoop \/ CallUpdateConfig
  PROVE  StartTypeOK' /\ LoopIsBusy'
<1>1. CASE StartListens
  <2>1. spc # "free" => UNCHANGED rpc
    BY <1>1 DEF StartListens, Listen, ReadCounter, WriteCounter, TakeID, Register,
                LockToListen, Receive, receiveVars, LoopIsBusy
  <2> QED  BY <1>1, <2>1 DEF StartListens, startVars, configVars, StartTypeOK, LoopIsBusy
<1>2. CASE PassOver
  BY <1>2 DEF PassOver, startVars, configVars, StartTypeOK, LoopIsBusy
<1>3. CASE LeaderHeard
  BY <1>3 DEF LeaderHeard, vars, tableVars, receiveVars, configVars, StartTypeOK,
              LoopIsBusy
<1>4. CASE UpdateUnwatched
  BY <1>4 DEF UpdateUnwatched, configVars, StartTypeOK, LoopIsBusy
<1>5. CASE UpdateStep
  <2>1. UNCHANGED <<rpc, about, inHand, spc, started, returned>>
    BY <1>5 DEF UpdateStep, vars, tableVars, receiveVars, startVars
  <2>2. upc # "idle" <=> upc' # "idle"
    BY <1>5 DEF UpdateStep, Config!UpdateStep, Config!Update, Config!Send
  <2> QED  BY <2>1, <2>2 DEF StartTypeOK, LoopIsBusy
<1>6. CASE UpdateConfigReturns
  BY <1>6 DEF UpdateConfigReturns, Config!UnlockUpdated, StartTypeOK, LoopIsBusy
<1>7. CASE CallUpdateConfig
  BY <1>7 DEF CallUpdateConfig, Config!LockToUpdate, vars, tableVars, receiveVars,
              StartTypeOK, LoopIsBusy
<1> QED  BY <1>1, <1>2, <1>3, <1>4, <1>5, <1>6, <1>7 DEF StartLoop

\* The watchers of the configuration leave it alone.
LEMMA WatcherInd ==
  ASSUME StartTypeOK, LoopIsBusy, NEW w \in ConfigWatchers, ConfigWatcher(w)
  PROVE  StartTypeOK' /\ LoopIsBusy'
<1>1. UNCHANGED <<rpc, about, inHand, spc, started, returned>>
  BY DEF ConfigWatcher, vars, tableVars, receiveVars, startVars
<1>2. UNCHANGED upc
  BY DEF ConfigWatcher, Config!WatcherStep, Config!Listen, Config!Watch, Config!Leave,
         Config!RLockToSend, Config!SendInitial, Config!RUnlockSent,
         Config!LockToLeave, Config!CloseWatch, Config!updateVars
<1> QED  BY <1>1, <1>2 DEF StartTypeOK, LoopIsBusy

\* All of it.
LEMMA NodeNextInd ==
  ASSUME IndInv, StartTypeOK, LoopIsBusy, [NodeNext]_nodeVars
  PROVE  StartTypeOK' /\ LoopIsBusy'
<1>1. CASE UNCHANGED nodeVars
  BY <1>1 DEF nodeVars, vars, tableVars, receiveVars, startVars, configVars,
              StartTypeOK, LoopIsBusy
<1>2. ASSUME NEW w \in Remote, RemoteStep(w)
      PROVE  StartTypeOK' /\ LoopIsBusy'
  <2>1. UNCHANGED <<about, inHand, spc, started, returned, upc>>
    BY <1>2, RemoteAlone DEF configVars
  <2>2. rpc'[Starter] = rpc[Starter]
    BY <1>2, RemoteAlone DEF IndInv, TypeOK, TableOK
  <2> QED  BY <2>1, <2>2 DEF StartTypeOK, LoopIsBusy
<1> QED  BY <1>1, <1>2, PublishedInd, LoopInd, WatcherInd DEF NodeNext

\* Only the loop lets Start go.
LEMMA StartWaitsInd == StartTypeOK /\ StartWaitsForAll /\ [NodeNext]_nodeVars => StartWaitsForAll'
<1> SUFFICES ASSUME StartTypeOK, StartWaitsForAll, [NodeNext]_nodeVars
             PROVE  StartWaitsForAll'
  OBVIOUS
<1>1. CASE LeaderHeard
  BY <1>1 DEF LeaderHeard, StartTypeOK, StartWaitsForAll
<1>2. CASE UNCHANGED <<started, returned>>
  BY <1>2 DEF StartWaitsForAll
<1> QED  BY <1>1, <1>2, RemoteAlone DEF nodeVars, NodeNext, PublishStep, PublishAbout, SendEvent,
            StartListens, StartLoop, PassOver, UpdateUnwatched, UpdateStep,
            UpdateConfigReturns, CallUpdateConfig, ConfigWatcher, startVars

-----------------------------------------------------------------------------
(* Who waits for whom.                                                     *)

\* A channel of the configuration's table stays closed, and that it is ends
\* the loop that receives from it.
LEMMA CEndedInd ==
  Config!TypeOK /\ Config!EndedIsClosed /\ [NodeNext]_nodeVars => Config!EndedIsClosed'
<1> SUFFICES ASSUME Config!TypeOK, Config!EndedIsClosed, [NodeNext]_nodeVars,
                    NEW v \in ConfigWatchers
             PROVE  crpc'[v] = "ended" => v \in cclosed'
  BY DEF Config!EndedIsClosed
<1>1. /\ crpc \in [ConfigWatchers -> {"off", "receiving", "handling", "gone", "ended"}]
      /\ uto \in ConfigWatchers \cup {NoWatcher}
      /\ crpc[v] = "ended" => v \in cclosed
  BY DEF Config!TypeOK, Config!TableOK, Config!EndedIsClosed
<1>2. CASE UNCHANGED configVars
  BY <1>1, <1>2 DEF configVars
<1>3. ASSUME NEW w \in ConfigWatchers, Config!WatcherStep(w)
      PROVE  crpc'[v] = "ended" => v \in cclosed'
  <2>1. CASE Config!Listen(w) \/ Config!LockToLeave(w)
    BY <1>1, <2>1 DEF Config!Listen, Config!LockToLeave, Config!ReadCounter,
       Config!WriteCounter, Config!TakeID, Config!Register, Config!LockToListen,
       Config!LockToClose, Config!receiveVars
  <2>2. CASE Config!CloseWatch(w)
    BY <1>1, <2>2 DEF Config!CloseWatch, Config!Close
  <2>3. CASE Config!Watch(w)
    BY <1>1, <2>3 DEF Config!Watch, Config!Receive, Config!Handled, Config!RangeEnds
  <2>4. CASE Config!Leave(w)
    BY <1>1, <2>4 DEF Config!Leave, Config!SendFails, Config!Cancel
  <2>5. CASE Config!RLockToSend(w) \/ Config!RUnlockSent(w)
    BY <1>1, <2>5 DEF Config!RLockToSend, Config!RUnlockSent, Config!receiveVars
  <2>6. CASE Config!SendInitial(w)
    BY <1>1, <2>6 DEF Config!SendInitial, Config!Deliver
  <2> QED  BY <1>3, <2>1, <2>2, <2>3, <2>4, <2>5, <2>6 DEF Config!WatcherStep
<1>4. CASE Config!LockToUpdate \/ Config!UpdateStep \/ Config!UnlockUpdated
  <2>1. CASE Config!Send
    BY <1>1, <2>1 DEF Config!Send, Config!Deliver
  <2>2. CASE Config!LockToUpdate \/ Config!Update \/ Config!UnlockUpdated
    BY <1>1, <2>2 DEF Config!LockToUpdate, Config!Update, Config!UnlockUpdated,
                      Config!receiveVars
  <2> QED  BY <1>4, <2>1, <2>2 DEF Config!UpdateStep
<1> QED  BY <1>2, <1>3, <1>4, ConfigSteps DEF nodeVars

\* Whoever could receive if he were not gone, and cannot go on, is receiving.
LEMMA CReceiving ==
  ASSUME Config!IndInv, Config!EndedIsClosed,
         NEW w \in ConfigWatchers, ~Config!GoesOn(w),
         clpc[w] \in {"listening", "closing"}, crpc[w] # "gone"
  PROVE  crpc[w] = "receiving"
<1>1. w \notin cclosed
  BY DEF Config!IndInv, Config!TableInv, Config!ListenersListen
<1>2. crpc[w] \in {"off", "receiving", "handling", "gone", "ended"}
  BY DEF Config!IndInv, Config!TypeOK, Config!TableOK
<1> QED  BY <1>1, <1>2 DEF Config!GoesOn, Config!ReceivesOn, Config!EndedIsClosed

\* The goroutine that sends the first configuration waits for nobody else.
LEMMA CNoReader ==
  ASSUME Config!IndInv, Config!EndedIsClosed, ~Config!GoneHoldsUp,
         \A w \in ConfigWatchers : ~Config!GoesOn(w)
  PROVE  cmu.readers = {}
<1>1. cmu.readers \subseteq ConfigWatchers
  BY DEF Config!IndInv, Config!TypeOK, Config!TableOK
<1> SUFFICES ASSUME NEW w \in ConfigWatchers, w \in cmu.readers PROVE FALSE
  BY <1>1
<1>2. initial[w] = "locking"
  BY DEF Config!IndInv, Config!InitialUnderLock, Config!GoesOn
<1>3. clpc[w] = "listening"
  BY <1>2 DEF Config!IndInv, Config!InitialUnderLock
<1>4. crpc[w] # "gone"
  BY DEF Config!GoneHoldsUp
<1>5. crpc[w] = "receiving"
  BY <1>3, <1>4, CReceiving
<1> QED  BY <1>2, <1>5 DEF Config!GoesOn, Config!RW!Reads

\* With no reader, nobody holds the lock to write either.
LEMMA CNoWriter ==
  ASSUME Config!IndInv, Config!EndedIsClosed, ~Config!GoneHoldsUp,
         \A w \in ConfigWatchers : ~Config!GoesOn(w), ~Config!UpdateGoesOn
  PROVE  cmu.writer = NoGoroutine /\ upc = "idle"
<1>1. cmu.readers = {}
  BY CNoReader
<1>2. cmu.writer \in ConfigWatchers \cup {Starter, NoGoroutine}
  BY DEF Config!IndInv, Config!TypeOK, Config!TableOK
<1>3. ASSUME NEW w \in ConfigWatchers, cmu.writer = w PROVE FALSE
  <2>1. clpc[w] \in {"registering", "closing"}
    BY <1>3 DEF Config!IndInv, Config!TableInv, Config!ChangersHoldLock
  <2> QED  BY <1>1, <1>3, <2>1 DEF Config!GoesOn, Config!ListensOn, Config!RW!Writes
<1>4. ASSUME cmu.writer = Starter PROVE FALSE
  <2>1. upc \in {"locking", "sending"}
    BY <1>4 DEF Config!IndInv, Config!TypeOK, Config!UpdaterHoldsLock
  <2>2. upc # "locking"
    BY <1>1, <1>4 DEF Config!UpdateGoesOn, Config!RW!Writes
  <2>3. uto # NoWatcher /\ uto \in Config!Registered
    BY <2>1, <2>2 DEF Config!UpdateGoesOn, Config!IndInv, Config!UpdaterHoldsLock
  <2>4. uto \in ConfigWatchers /\ clpc[uto] \in {"listening", "closing"}
    BY <2>3 DEF Config!IndInv, Config!TypeOK, Config!TableInv, Config!ListenersListen,
                Config!Registered
  <2>5. crpc[uto] # "gone"
    BY <2>4 DEF Config!GoneHoldsUp
  <2>6. crpc[uto] = "receiving"
    BY <2>4, <2>5, CReceiving
  <2> QED  BY <2>3, <2>6 DEF Config!UpdateGoesOn
<1>5. cmu.writer = NoGoroutine
  BY <1>2, <1>3, <1>4
<1>6. upc = "idle"
  BY <1>5 DEF Config!IndInv, Config!UpdaterHoldsLock
<1> QED  BY <1>5, <1>6

\* So the lock is free, and nobody waits for it.
LEMMA CNobodyGoesOn ==
  ASSUME Config!IndInv, Config!EndedIsClosed
  PROVE  Config!OnlyGoneHoldUp
<1> SUFFICES ASSUME ~Config!GoneHoldsUp,
                    \A w \in ConfigWatchers : ~Config!GoesOn(w), ~Config!UpdateGoesOn
             PROVE  Config!AllIsDone
  BY DEF Config!OnlyGoneHoldUp
<1>1. cmu.readers = {} /\ cmu.writer = NoGoroutine /\ upc = "idle"
  BY CNoReader, CNoWriter
<1>2. cmu.parked = {} /\ cmu \in CLocks
  BY <1>1 DEF Config!IndInv, Config!TableInv, Config!ParkedBehindWriter, Config!TypeOK,
              Config!TableOK, CLocks
<1>3. cmu = Config!RW!Free
  BY <1>1, <1>2 DEF CLocks, Config!RW!Free
<1>4. ASSUME NEW w \in ConfigWatchers
      PROVE  \/ clpc[w] = "new"
             \/ clpc[w] = "listening" /\ initial[w] = "done" /\ w \notin ccancelled
             \/ clpc[w] = "closed" /\ crpc[w] \in {"ended", "gone"}
  <2>1. /\ clpc[w] \in {"new", "counting", "counted", "locking",
                         "registering", "listening", "closing", "closed"}
        /\ crpc[w] \in {"off", "receiving", "handling", "gone", "ended"}
        /\ initial[w] \in {"none", "locking", "sent", "done"}
    BY DEF Config!IndInv, Config!TypeOK, Config!TableOK
  <2>2. clpc[w] \notin {"registering", "closing"}
    BY <1>1 DEF Config!IndInv, Config!TableInv, Config!ChangersHoldLock
  <2>3. clpc[w] \notin {"counting", "counted", "locking"}
    BY <1>1 DEF Config!GoesOn, Config!ListensOn, Config!RW!CanAnnounce
  <2>4. CASE clpc[w] = "listening"
    <3>1. initial[w] \notin {"locking", "sent"}
      BY <1>1, <1>2 DEF Config!IndInv, Config!InitialUnderLock
    <3> QED  BY <1>1, <2>1, <2>4, <3>1 DEF Config!GoesOn, Config!RW!CanAnnounce
  <2>5. CASE clpc[w] = "closed"
    <3>1. w \in cclosed
      BY <2>5 DEF Config!IndInv, Config!TableInv, Config!ListenersListen
    <3> QED  BY <2>1, <2>5, <3>1 DEF Config!GoesOn, Config!ReceivesOn
  <2> QED  BY <2>1, <2>2, <2>3, <2>4, <2>5
<1> QED  BY <1>1, <1>3, <1>4 DEF Config!AllIsDone

\* If nobody is held up in the configuration, nobody is held up by it.
LEMMA NodeNobodyGoesOn ==
  ASSUME IndInv, StarterReceives, OnlyGoneHoldUp, LoopIsBusy, StartTypeOK,
         Config!OnlyGoneHoldUp
  PROVE  OnlyGoneHoldsUpNode
<1> SUFFICES ASSUME \A p \in Publishers : ~PublishGoesOn(p),
                    ~StartGoesOn,
                    \A w \in Remote : ~GoesOn(w),
                    \A w \in ConfigWatchers : ~Config!GoesOn(w),
                    ~Config!GoneHoldsUp,
                    ~\E p \in Publishers : to[p] # NoWatcher /\ rpc[to[p]] = "gone"
             PROVE  EventsAreDone /\ Config!AllIsDone
  BY DEF OnlyGoneHoldsUpNode
<1>1. Config!AllIsDone
  BY DEF Config!OnlyGoneHoldUp, StartGoesOn
<1>2. cmu.writer = NoGoroutine /\ upc = "idle"
  BY <1>1 DEF Config!AllIsDone, Config!RW!Free
<1>3. spc = "free"
  BY <1>2 DEF StartTypeOK, LoopIsBusy, StartGoesOn, RW!CanAnnounce
<1>4. rpc[Starter] \in {"off", "receiving"}
  BY <1>3 DEF StarterReceives, StartGoesOn
<1>5. /\ Starter \notin cancelled /\ Starter \notin closed
      /\ lpc[Starter] \notin {"closing", "closed"}
  BY DEF IndInv, TypeOK, TableOK, TableInv, ListenersListen
<1>6. ~GoesOn(Starter)
  BY <1>4, <1>5 DEF GoesOn, ReceivesOn, StartGoesOn
<1>7. \A w \in Watchers : ~GoesOn(w)
  BY <1>6 DEF Remote
<1>8. /\ mu = RW!Free
      /\ \A p \in Publishers : ppc[p] = "idle"
      /\ \A w \in Watchers :
           \/ lpc[w] = "new"
           \/ lpc[w] = "listening" /\ w \notin cancelled
           \/ lpc[w] = "closed" /\ rpc[w] \in {"ended", "gone"}
  BY <1>7 DEF OnlyGoneHoldUp
<1>9. rpc[Starter] = "receiving"
  BY <1>4, <1>5, <1>8 DEF StartGoesOn
<1> QED  BY <1>1, <1>3, <1>8, <1>9 DEF EventsAreDone, Remote

-----------------------------------------------------------------------------
(* The bound on the configurations.                                        *)

\* No more events than are published reach the loop: no two it has are alike.
LEMMA HeardAtMost ==
  ASSUME IndInv, InOrderOnce
  PROVE  Len(got[Starter]) <= MaxEvents * Cardinality(Publishers)
<1> DEFINE n == Len(got[Starter])
           Events == Publishers \X (1..MaxEvents)
<1>1. got[Starter] \in Seq(Events) /\ n \in Nat
  BY DEF IndInv, TypeOK, TableOK
<1>2. IsFiniteSet(1..n) /\ Cardinality(1..n) = n
  BY <1>1, FS_Interval
<1>3. IsFiniteSet(1..MaxEvents) /\ Cardinality(1..MaxEvents) = MaxEvents
  BY FS_Interval
<1>4. IsFiniteSet(Events) /\ Cardinality(Events) = Cardinality(Publishers) * MaxEvents
  BY <1>3, FS_Product
<1>5. got[Starter] \in [1..n -> Events]
  BY <1>1
<1>6. ASSUME NEW i \in 1..n, NEW j \in 1..n, got[Starter][i] = got[Starter][j]
      PROVE  i = j
  <2>1. got[Starter][i] \in Events
    BY <1>5
  <2>2. PICK p \in Publishers : p = got[Starter][i][1]
    BY <2>1
  <2>3. i \in From(Starter, p) /\ j \in From(Starter, p)
    BY <1>6, <2>2 DEF From
  <2>4. got[Starter][i][2] \in Nat /\ got[Starter][i][2] = got[Starter][j][2]
    BY <1>6, <2>1
  <2>5. ~(i < j) /\ ~(j < i)
    BY <2>3, <2>4 DEF InOrderOnce
  <2> QED  BY <1>1, <2>5
<1>7. ~(Cardinality(Events) < Cardinality(1..n))
  BY <1>2, <1>4, <1>5, <1>6, FS_PigeonHole
<1>8. Cardinality(Publishers) \in Nat
  BY FS_CardinalityType
<1> HIDE DEF n
<1> QED  BY <1>1, <1>2, <1>4, <1>7, <1>8 DEF n

\* updateConfig is called for an event that has been received, and only once.
LEMMA UpdatesAreHeardInd ==
  IndInv /\ NodeInv /\ UpdatesAreHeard /\ [NodeNext]_nodeVars => UpdatesAreHeard'
<1> SUFFICES ASSUME IndInv, NodeInv, UpdatesAreHeard, [NodeNext]_nodeVars
             PROVE  UpdatesAreHeard'
  OBVIOUS
<1>1. /\ config \in Nat
      /\ got[Starter] \in Seq(Publishers \X (1..MaxEvents))
      /\ Len(got[Starter]) \in Nat
      /\ rpc \in [Watchers -> {"off", "receiving", "handling", "gone", "ended"}]
  BY MaxConfigsNat DEF IndInv, TypeOK, TableOK, NodeInv, Config!IndInv, Config!TypeOK
<1>2. spc = "updating" <=> upc # "idle"
  BY DEF NodeInv, LoopIsBusy
<1>3. upc # "idle" => rpc[Starter] = "handling"
  BY <1>2 DEF NodeInv, LoopIsBusy
<1>4. CASE UNCHANGED <<rpc, got, config, upc>>
  BY <1>4 DEF UpdatesAreHeard
<1>5. ASSUME NEW p \in Publishers, SendEvent(p)
      PROVE  UpdatesAreHeard'
  <2>1. /\ UNCHANGED <<config, upc>>
        /\ to[p] \in Watchers /\ rpc[to[p]] = "receiving"
        /\ got' = [got EXCEPT ![to[p]] = Append(@, <<p, event[p]>>)]
        /\ rpc' = [rpc EXCEPT ![to[p]] = "handling"]
    BY <1>5 DEF SendEvent, Send, Deliver, configVars, IndInv, TypeOK
  <2>2. CASE to[p] = Starter
    <3>1. event[p] \in 1..MaxEvents
      BY <2>1 DEF IndInv, TypeOK, PublishersRead
    <3>2. Len(got'[Starter]) = Len(got[Starter]) + 1
      BY <1>1, <2>1, <2>2, <3>1, AppendFrom
    <3> QED  BY <1>1, <2>1, <2>2, <3>2 DEF UpdatesAreHeard
  <2>3. CASE to[p] # Starter
    <3>1. got'[Starter] = got[Starter] /\ rpc'[Starter] = rpc[Starter]
      BY <1>1, <2>1, <2>3 DEF IndInv, TypeOK, TableOK
    <3> QED  BY <2>1, <3>1 DEF UpdatesAreHeard
  <2> QED  BY <2>2, <2>3
<1>6. ASSUME Handled(Starter), UNCHANGED config, upc' = "idle"
      PROVE  UpdatesAreHeard'
  <2>1. UNCHANGED got /\ rpc'[Starter] = "receiving" /\ UNCHANGED config
    BY <1>1, <1>6 DEF Handled
  <2> QED  BY <1>1, <2>1 DEF UpdatesAreHeard
<1>7. CASE StartListens
  <2>1. CASE Receive(Starter)
    <3>1. UNCHANGED <<got, config, upc>> /\ rpc'[Starter] = "receiving"
      BY <1>1, <1>7, <2>1 DEF StartListens, Receive, configVars
    <3> QED  BY <1>1, <3>1 DEF UpdatesAreHeard
  <2>2. CASE Listen(Starter) \/ LockToListen(Starter)
    BY <1>4, <1>7, <2>2 DEF StartListens, Listen, ReadCounter, WriteCounter, TakeID,
                            Register, LockToListen, receiveVars, configVars
  <2> QED  BY <1>7, <2>1, <2>2 DEF StartListens
<1>8. CASE UpdateStep
  <2>1. CASE Config!Update
    <3>1. /\ UNCHANGED <<rpc, got>> /\ config' = config + 1
          /\ upc = "locking" /\ upc' = "sending"
      BY <1>8, <2>1 DEF UpdateStep, Config!Update, vars, tableVars, receiveVars
    <3> QED  BY <1>1, <1>3, <3>1 DEF UpdatesAreHeard
  <2>2. CASE Config!Send
    BY <1>4, <1>8, <2>2 DEF UpdateStep, Config!Send, vars, tableVars, receiveVars
  <2> QED  BY <1>8, <2>1, <2>2 DEF UpdateStep, Config!UpdateStep
<1>9. CASE CallUpdateConfig
  <2>1. UNCHANGED <<rpc, got, config>> /\ upc = "idle" /\ upc' = "locking"
    BY <1>9 DEF CallUpdateConfig, Config!LockToUpdate, vars, tableVars, receiveVars
  <2> QED  BY <2>1 DEF UpdatesAreHeard
<1>10. ASSUME NEW p \in Publishers, PublishStep(p)
       PROVE  UpdatesAreHeard'
  <2>1. CASE PublishAbout(p)
    BY <1>4, <2>1 DEF PublishAbout, RLockToPublish, receiveVars, configVars
  <2>2. CASE (StartRange(p) \/ RUnlock(p)) /\ UNCHANGED <<startVars, configVars>>
    BY <1>4, <2>2 DEF StartRange, RUnlock, receiveVars, configVars
  <2> QED  BY <1>5, <1>10, <2>1, <2>2 DEF PublishStep
<1>11. CASE PassOver \/ UpdateUnwatched \/ UpdateConfigReturns
  <2>1. Handled(Starter) /\ UNCHANGED config
    BY <1>11 DEF PassOver, UpdateUnwatched, UpdateConfigReturns, Config!UnlockUpdated,
                 configVars
  <2>2. upc' = "idle"
    <3>1. CASE PassOver
      BY <1>2, <3>1 DEF PassOver, configVars, NodeInv, LoopIsBusy, NodeTypeOK
    <3>2. CASE UpdateUnwatched
      BY <1>2, <3>2 DEF UpdateUnwatched, configVars
    <3>3. CASE UpdateConfigReturns
      BY <3>3 DEF UpdateConfigReturns, Config!UnlockUpdated
    <3> QED  BY <1>11, <3>1, <3>2, <3>3
  <2> QED  BY <1>6, <2>1, <2>2
<1>12. CASE LeaderHeard
  BY <1>4, <1>12 DEF LeaderHeard, vars, tableVars, receiveVars, configVars
<1>13. ASSUME NEW w \in ConfigWatchers, ConfigWatcher(w)
       PROVE  UpdatesAreHeard'
  <2>1. UNCHANGED <<config, upc>>
    BY <1>13 DEF ConfigWatcher, Config!WatcherStep, Config!Listen, Config!Watch,
       Config!Leave, Config!RLockToSend, Config!SendInitial, Config!RUnlockSent,
       Config!LockToLeave, Config!CloseWatch, Config!updateVars
  <2> QED  BY <1>4, <1>13, <2>1 DEF ConfigWatcher, vars, tableVars, receiveVars
<1>14. ASSUME NEW w \in Remote, RemoteStep(w)
       PROVE  UpdatesAreHeard'
  <2>1. UNCHANGED <<got, config, upc>> /\ rpc'[Starter] = rpc[Starter]
    BY <1>1, <1>14, RemoteAlone DEF configVars
  <2> QED  BY <2>1 DEF UpdatesAreHeard
<1>15. CASE UNCHANGED nodeVars
  BY <1>4, <1>15 DEF nodeVars, vars, tableVars, receiveVars, configVars
<1> QED  BY <1>7, <1>8, <1>9, <1>10, <1>11, <1>12, <1>13, <1>14, <1>15 DEF NodeNext, StartLoop

-----------------------------------------------------------------------------

\* The events of a node that serves partitions are those of RaftEventListener,
\* and so its theorems hold of them.
THEOREM NodeListens == NodeSpec => Spec
<1>1. NodeInit => Init
  BY DEF NodeInit
<1>2. [NodeNext]_nodeVars => [Next]_vars
  BY EventSteps DEF nodeVars
<1> QED  BY <1>1, <1>2, PTL DEF NodeSpec, Spec

\* Start's loop, its two locks and the two tables hang together, and neither
\* an event nor a configuration is sent on a closed channel.
THEOREM NodeInductive == NodeSpec => []NodeInv
<1>1. NodeInit => Config!IndInv /\ StartTypeOK /\ LoopIsBusy /\ StartWaitsForAll
  <2>1. NodeInit => Config!IndInv
    BY CInitInd DEF NodeInit
  <2>2. NodeInit => StartTypeOK /\ LoopIsBusy /\ StartWaitsForAll
    BY DEF NodeInit, StartTypeOK, LoopIsBusy, StartWaitsForAll, Config!Init
  <2> QED  BY <2>1, <2>2
<1>2. IndInv /\ Config!IndInv /\ StartTypeOK /\ LoopIsBusy /\ [NodeNext]_nodeVars
        => Config!IndInv' /\ StartTypeOK' /\ LoopIsBusy'
  BY CNextInd, NodeNextInd
<1>3. StartTypeOK /\ StartWaitsForAll /\ [NodeNext]_nodeVars => StartWaitsForAll'
  BY StartWaitsInd
<1>4. Config!IndInv /\ StartTypeOK /\ LoopIsBusy /\ StartWaitsForAll
        /\ TypeOK /\ NoSendOnClosed => NodeInv
  BY CSafe DEF NodeInv, NodeTypeOK, StartTypeOK, Config!IndInv
<1> QED  BY <1>1, <1>2, <1>3, <1>4, NodeListens, Inductive, TypeCorrect, ClosedIsNotSentTo,
            PTL DEF NodeSpec

\* Those who watch the configuration see it in order, and those in the table
\* have the latest one when no update is being sent.
THEOREM WatchersCurrent == NodeSpec => []WatchersAreCurrent
<1>1. NodeInv => WatchersAreCurrent
  BY CSafe DEF NodeInv, WatchersAreCurrent
<1> QED  BY <1>1, NodeInductive, PTL

\* Start does not return before every partition has a leader.
THEOREM StartWaits == NodeSpec => []StartWaitsForAll
<1>1. NodeInv => StartWaitsForAll
  BY DEF NodeInv
<1> QED  BY <1>1, NodeInductive, PTL

\* Raft, Start's loop, the watchers of a configuration and the two locks do not
\* come to wait for each other in a circle, whatever the order of their steps:
\* only a watcher whose Send has failed can hold the others up.  The liveness
\* properties of the node rest on this.
THEOREM OnlyFailedSendsBlockNode == NodeSpec => []OnlyGoneHoldsUpNode
<1>1. NodeInit => StarterReceives /\ Config!EndedIsClosed
  BY DEF NodeInit, Init, TableInit, StarterReceives, Config!Init, Config!TableInit,
         Config!EndedIsClosed
<1>2. NodeInv => Config!IndInv /\ Config!TypeOK /\ StartTypeOK /\ LoopIsBusy
  BY DEF NodeInv, NodeTypeOK, StartTypeOK, Config!IndInv
<1>3. Spec /\ StarterReceives => []StarterReceives
  BY Inductive, StarterInd, PTL DEF Spec
<1>4. IndInv /\ StarterReceives /\ OnlyGoneHoldUp /\ NodeInv /\ Config!EndedIsClosed
        => OnlyGoneHoldsUpNode
  BY <1>2, CNobodyGoesOn, NodeNobodyGoesOn
<1>5. NodeInv /\ Config!EndedIsClosed /\ [NodeNext]_nodeVars => Config!EndedIsClosed'
  BY <1>2, CEndedInd
<1> QED  BY <1>1, <1>3, <1>4, <1>5, NodeListens, Inductive, OnlyFailedSendsBlock,
            NodeInductive, PTL DEF NodeSpec

\* The bound of the model on configurations never stops updateConfig: it is
\* called once at most for an event, and no event comes twice.
THEOREM BoundSuffices == NodeSpec => [](UpdatesAreHeard /\ BoundIsEnough)
<1>1. NodeInit => UpdatesAreHeard
  BY DEF NodeInit, Init, TableInit, Config!Init, UpdatesAreHeard
<1>2. IndInv /\ NodeInv /\ InOrderOnce /\ UpdatesAreHeard => BoundIsEnough
  <2> SUFFICES ASSUME IndInv, NodeInv, InOrderOnce, UpdatesAreHeard, spc = "leader"
               PROVE  config < MaxEvents * Cardinality(Publishers)
    BY DEF BoundIsEnough
  <2>1. rpc[Starter] = "handling" /\ upc = "idle"
    BY DEF NodeInv, LoopIsBusy
  <2>2. config + 1 <= Len(got[Starter])
    BY <2>1 DEF UpdatesAreHeard
  <2>3. PICK M \in Nat : M = MaxEvents * Cardinality(Publishers)
    BY MaxConfigsNat
  <2>4. config \in Nat /\ Len(got[Starter]) \in Nat
    BY <2>3 DEF IndInv, TypeOK, TableOK, NodeInv, Config!IndInv, Config!TypeOK
  <2>5. Len(got[Starter]) <= M
    BY <2>3, HeardAtMost
  <2> QED  BY <2>2, <2>3, <2>4, <2>5
<1> QED  BY <1>1, <1>2, NodeListens, Inductive, EventsInOrderOnce, NodeInductive,
            UpdatesAreHeardInd, PTL DEF NodeSpec
=============================================================================
