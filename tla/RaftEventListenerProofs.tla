---------------------- MODULE RaftEventListenerProofs ----------------------
(***************************************************************************)
(* Proofs about RaftEventListener, for any number of watchers, publishers  *)
(* and events.                                                             *)
(*                                                                         *)
(* IndInv is inductive: who is about to change the table has announced     *)
(* himself to the lock, so that nobody else is and no publisher is in the  *)
(* middle of his round when the change comes.  What holds where nobody can *)
(* go on follows from it: nobody waits, unless a Send has failed.          *)
(***************************************************************************)
EXTENDS RaftEventListener, FiniteSetTheorems, TLAPS

USE TableAssumption, WatchersAssumption

-----------------------------------------------------------------------------
(* The lock.                                                               *)

Locks == [readers : SUBSET Publishers, parked : SUBSET Publishers,
          writer : Watchers \cup {NoGoroutine}]

\* A publisher is let in if no writer is announced, and parked if one is.
LEMMA RLockFields ==
  ASSUME mu \in Locks, NEW p \in Publishers
  PROVE  LET rw == RW!RLock(mu, p)
         IN  /\ rw \in Locks
             /\ rw.writer = mu.writer
             /\ mu.writer = NoGoroutine =>
                  rw.readers = mu.readers \cup {p} /\ rw.parked = mu.parked
             /\ mu.writer # NoGoroutine =>
                  rw.readers = mu.readers /\ rw.parked = mu.parked \cup {p}
BY DEF Locks, RW!RLock

\* He leaves, and nothing else changes.
LEMMA RUnlockFields ==
  ASSUME mu \in Locks, NEW p \in Publishers
  PROVE  LET rw == RW!RUnlock(mu, p)
         IN  /\ rw \in Locks
             /\ rw.readers = mu.readers \ {p}
             /\ rw.parked = mu.parked
             /\ rw.writer = mu.writer
BY DEF Locks, RW!RUnlock

\* A writer announces himself.
LEMMA AnnounceFields ==
  ASSUME mu \in Locks, NEW w \in Watchers
  PROVE  LET rw == RW!Announce(mu, w)
         IN  /\ rw \in Locks
             /\ rw.readers = mu.readers
             /\ rw.parked = mu.parked
             /\ rw.writer = w
BY DEF Locks, RW!Announce

\* He unlocks, and lets those in who wait to read.
LEMMA UnlockFields ==
  ASSUME mu \in Locks
  PROVE  LET rw == RW!Unlock(mu)
         IN  /\ rw \in Locks
             /\ rw.readers = mu.parked
             /\ rw.parked = {}
             /\ rw.writer = NoGoroutine
BY DEF Locks, RW!Unlock

-----------------------------------------------------------------------------
(* The counter, and the IDs.                                               *)

\* No more watchers have counted than there are.
LEMMA CountedBounds ==
  /\ IsFiniteSet(Counted)
  /\ Cardinality(Counted) \in Nat
  /\ Cardinality(Watchers) \in Nat
  /\ Cardinality(Counted) <= Cardinality(Watchers)
<1>1. Counted \subseteq Watchers
  BY DEF Counted
<1> QED  BY <1>1, FS_Subset, FS_CardinalityType

\* A watcher who has taken his ID keeps it, so that he who is alone under his
\* ID has always been.
LEMMA AloneBefore ==
  ASSUME NEW w \in Watchers, id[w] # 0, id'[w] = id[w],
         \A v \in Watchers : id'[v] = id[v] \/ id[v] = 0,
         AloneUnderID(w)'
  PROVE  AloneUnderID(w)
BY DEF AloneUnderID

\* Those who count, or take an ID, leave the rest of the state alone, and have
\* not received anything yet.
LEMMA CountingInd ==
  ASSUME IndInv, UNCHANGED publishVars,
         NEW w \in Watchers, ReadCounter(w) \/ WriteCounter(w) \/ TakeID(w)
  PROVE  IndInv'
<1> USE DEF IndInv, TableInv
<1>1. /\ UNCHANGED <<mu, listeners, cancelled, closed, rpc, got, ppc, event, to, pending>>
      /\ lpc[w] \in {"new", "counting", "counted"}
      /\ lpc'[w] \in {"counting", "counted", "locking"}
      /\ \A v \in Watchers : v # w => lpc'[v] = lpc[v]
      /\ \A v \in Watchers : v # w => id'[v] = id[v] /\ read'[v] = read[v]
      /\ \A v \in Watchers : id'[v] = id[v] \/ (v = w /\ id[v] = 0)
  BY DEF ReadCounter, WriteCounter, TakeID, receiveVars, publishVars, TypeOK,
         TableOK, IDsAreCounted
<1>2. /\ listenerID \in Nat /\ Cardinality(Counted) \in Nat
      /\ \A v \in Watchers : read[v] \in Nat /\ id[v] \in Nat
  BY CountedBounds DEF TypeOK, TableOK
<1>3. IDsAreCounted' /\ Cardinality(Counted)' \in Nat
  <2>1. CASE ReadCounter(w)
    <3>1. Counted' = Counted
      BY <1>1, <2>1 DEF Counted, ReadCounter, TypeOK, TableOK
    <3>2. /\ listenerID' = listenerID /\ id' = id
          /\ \A v \in Watchers : read'[v] \in {read[v], listenerID}
          /\ lpc[w] = "new" /\ lpc'[w] = "counting"
      BY <2>1 DEF ReadCounter, TypeOK, TableOK
    <3> QED  BY <1>1, <1>2, <3>1, <3>2 DEF IDsAreCounted
  <2>2. CASE WriteCounter(w)
    <3>1. Counted' = Counted \cup {w} /\ w \notin Counted
      BY <1>1, <2>2 DEF Counted, WriteCounter, TypeOK, TableOK
    <3>2. Cardinality(Counted)' = Cardinality(Counted) + 1
      BY <3>1, CountedBounds, FS_AddElement
    <3>3. /\ listenerID' = read[w] + 1 /\ UNCHANGED <<read, id>>
          /\ lpc[w] = "counting" /\ lpc'[w] = "counted"
      BY <2>2 DEF WriteCounter, TypeOK, TableOK
    <3>4. listenerID' <= Cardinality(Counted)' /\ listenerID' > 0
      BY <1>2, <3>2, <3>3 DEF IDsAreCounted
    <3> QED  BY <1>1, <1>2, <3>2, <3>3, <3>4 DEF IDsAreCounted
  <2>3. CASE TakeID(w)
    <3>1. Counted' = Counted
      BY <1>1, <2>3 DEF Counted, TakeID, TypeOK, TableOK
    <3>2. /\ UNCHANGED <<listenerID, read>>
          /\ id'[w] = listenerID
          /\ lpc[w] = "counted" /\ lpc'[w] = "locking"
      BY <2>3 DEF TakeID, TypeOK, TableOK
    <3>3. listenerID > 0
      BY <3>2 DEF IDsAreCounted, Counted
    <3> QED  BY <1>1, <1>2, <3>1, <3>2, <3>3 DEF IDsAreCounted
  <2> QED  BY <2>1, <2>2, <2>3
<1>4. TypeOK'
  <2>1. /\ Cardinality(Counted)' <= Cardinality(Watchers)
        /\ Cardinality(Watchers) \in Nat
    <3>1. Counted' \subseteq Watchers
      BY DEF Counted
    <3> QED  BY <3>1, FS_Subset, FS_CardinalityType
  <2>2. /\ listenerID' \in Nat
        /\ read' \in [Watchers -> Nat] /\ id' \in [Watchers -> Nat]
    <3>1. read \in [Watchers -> Nat] /\ id \in [Watchers -> Nat]
      BY <1>2 DEF TypeOK, TableOK
    <3>2. CASE ReadCounter(w)
      BY <1>2, <3>1, <3>2 DEF ReadCounter
    <3>3. CASE WriteCounter(w)
      BY <1>2, <3>1, <3>3 DEF WriteCounter
    <3>4. CASE TakeID(w)
      BY <1>2, <3>1, <3>4 DEF TakeID
    <3> QED  BY <3>2, <3>3, <3>4
  <2>3. /\ listenerID' \in 0..Cardinality(Watchers)
        /\ \A v \in Watchers : /\ read'[v] \in 0..Cardinality(Watchers)
                               /\ id'[v] \in 0..Cardinality(Watchers)
    BY <1>3, <2>1, <2>2 DEF IDsAreCounted
  <2>4. /\ read' \in [Watchers -> 0..Cardinality(Watchers)]
        /\ id' \in [Watchers -> 0..Cardinality(Watchers)]
    BY <2>2, <2>3
  <2>5. lpc' \in [Watchers -> {"new", "counting", "counted", "locking",
                               "registering", "listening", "closing", "closed"}]
    BY DEF ReadCounter, WriteCounter, TakeID, TypeOK, TableOK
  <2> QED  BY <1>1, <2>3, <2>4, <2>5 DEF TypeOK, TableOK
<1>5. ListenersListen'
  <2>1. \A i \in IDs(Watchers) : listeners'[i] # NoWatcher =>
          /\ id'[listeners'[i]] = i
          /\ lpc'[listeners'[i]] \in {"listening", "closing"}
    <3> SUFFICES ASSUME NEW i \in IDs(Watchers), listeners[i] # NoWatcher
                 PROVE  /\ id'[listeners[i]] = i
                        /\ lpc'[listeners[i]] \in {"listening", "closing"}
      BY <1>1 DEF IDs
    <3>1. listeners[i] \in Watchers
      BY DEF TypeOK, TableOK
    <3>2. lpc[listeners[i]] \in {"listening", "closing"}
      BY DEF ListenersListen
    <3>3. listeners[i] # w
      BY <1>1, <3>2
    <3> QED  BY <1>1, <3>1, <3>3 DEF ListenersListen
  <2>2. closed' = {v \in Watchers : lpc'[v] = "closed"}
    BY <1>1 DEF ListenersListen
  <2>3. \A v \in Watchers :
          /\ lpc'[v] \in {"closing", "closed"} => v \in cancelled'
          /\ rpc'[v] = "off" => got'[v] = <<>>
          /\ rpc'[v] # "off" => lpc'[v] \in {"listening", "closing", "closed"}
    BY <1>1 DEF ListenersListen
  <2> QED  BY <2>1, <2>2, <2>3 DEF ListenersListen, IDs
<1>6. ChangersHoldLock' /\ ParkedBehindWriter'
  BY <1>1 DEF ChangersHoldLock, ParkedBehindWriter
<1>7. PublishersRead'
  BY <1>1 DEF PublishersRead, Registered
<1>8. NoneIsMissed' /\ NoGap' /\ DroppedOnlyByNamesake'
  <2>1. Len(got[w]) = 0
    BY <1>1 DEF ListenersListen
  <2>2. \A v \in Watchers, p \in Publishers : From(v, p)' = From(v, p)
    BY <1>1 DEF From
  <2>3. \A p \in Publishers : From(w, p) = {}
    BY <2>1 DEF From
  <2>4. ASSUME NEW v \in Watchers, v # w,
               lpc[v] \in {"listening", "closing", "closed"}, AloneUnderID(v)'
        PROVE  AloneUnderID(v)
    <3>1. id[v] # 0
      BY <2>4 DEF IDsAreCounted
    <3> QED  BY <1>1, <2>4, <3>1, AloneBefore
  <2>5. ASSUME NEW v \in Watchers, NEW p \in Publishers, From(v, p) # {}
        PROVE  v # w /\ lpc[v] \in {"listening", "closing", "closed"}
    BY <2>3, <2>5 DEF From, ListenersListen
  <2>6. NoneIsMissed'
    BY <1>1, <2>2, <2>4, <2>5 DEF NoneIsMissed, Owes
  <2>7. NoGap'
    BY <1>1, <2>2, <2>4, <2>5 DEF NoGap
  <2>8. DroppedOnlyByNamesake'
    BY <1>1, <2>4 DEF DroppedOnlyByNamesake, Registered
  <2> QED  BY <2>6, <2>7, <2>8
<1> QED  BY <1>3, <1>4, <1>5, <1>6, <1>7, <1>8

-----------------------------------------------------------------------------
(* The table.                                                              *)

\* A watcher in the table is a watcher.
LEMMA RegisteredWatch ==
  ASSUME IndInv
  PROVE  Registered \subseteq Watchers
BY DEF IndInv, TypeOK, TableOK, Registered

\* Who announces himself to the lock goes on to change the table.
LEMMA LockInd ==
  ASSUME IndInv, UNCHANGED publishVars,
         NEW w \in Watchers, Lock(w)
  PROVE  IndInv'
<1> USE DEF IndInv, TableInv
<1>1. /\ UNCHANGED <<listeners, listenerID, read, id, cancelled, closed, rpc, got>>
      /\ UNCHANGED <<ppc, event, to, pending>>
      /\ mu' = RW!Announce(mu, w)
      /\ mu.writer = NoGoroutine
      /\ \/ lpc[w] = "locking" /\ lpc'[w] = "registering"
         \/ lpc[w] = "listening" /\ lpc'[w] = "closing" /\ w \in cancelled
      /\ \A v \in Watchers : v # w => lpc'[v] = lpc[v]
      /\ lpc' \in [Watchers -> {"new", "counting", "counted", "locking",
                               "registering", "listening", "closing", "closed"}]
  <2>1. CASE LockToListen(w)
    BY <2>1 DEF LockToListen, receiveVars, publishVars, TypeOK, TableOK, RW!CanAnnounce
  <2>2. CASE LockToClose(w)
    BY <2>2 DEF LockToClose, receiveVars, publishVars, TypeOK, TableOK, RW!CanAnnounce
  <2> QED  BY <2>1, <2>2 DEF Lock
<1>2. /\ mu \in Locks /\ mu' \in Locks
      /\ mu'.readers = mu.readers /\ mu'.parked = mu.parked /\ mu'.writer = w
  BY <1>1, AnnounceFields DEF TypeOK, TableOK, Locks
<1>3. TypeOK'
  BY <1>1, <1>2 DEF TypeOK, TableOK, Locks
<1>4. ListenersListen'
  <2>1. \A i \in IDs(Watchers) : listeners[i] # NoWatcher => listeners[i] \in Watchers
    BY DEF TypeOK, TableOK
  <2>2. \A i \in IDs(Watchers) : listeners[i] # NoWatcher =>
          /\ id[listeners[i]] = i
          /\ lpc'[listeners[i]] \in {"listening", "closing"}
    BY <1>1, <2>1 DEF ListenersListen
  <2>3. closed = {v \in Watchers : lpc'[v] = "closed"}
    BY <1>1 DEF ListenersListen
  <2>4. \A v \in Watchers :
          /\ lpc'[v] \in {"closing", "closed"} => v \in cancelled
          /\ rpc[v] = "off" => got[v] = <<>>
          /\ rpc[v] # "off" => lpc'[v] \in {"listening", "closing", "closed"}
    BY <1>1 DEF ListenersListen
  <2> QED  BY <1>1, <2>2, <2>3, <2>4 DEF ListenersListen, IDs
<1>5. Counted' = Counted
  BY <1>1 DEF Counted
<1>6. IDsAreCounted'
  BY <1>1, <1>5 DEF IDsAreCounted
<1>7. ChangersHoldLock' /\ ParkedBehindWriter'
  BY <1>1, <1>2 DEF ChangersHoldLock, ParkedBehindWriter
<1>8. PublishersRead'
  BY <1>1, <1>2 DEF PublishersRead, Registered, IDs
<1>9. NoneIsMissed' /\ NoGap' /\ DroppedOnlyByNamesake'
  <2>1. \A v \in Watchers, p \in Publishers : From(v, p)' = From(v, p)
    BY <1>1 DEF From
  <2>2. \A v \in Watchers : AloneUnderID(v)' = AloneUnderID(v)
    BY <1>1 DEF AloneUnderID
  <2>3. \A p \in Publishers : lpc[w] = "locking" => From(w, p) = {}
    BY DEF ListenersListen, From
  <2>4. NoneIsMissed'
    BY <1>1, <2>1, <2>2, <2>3 DEF NoneIsMissed, Owes
  <2>5. NoGap'
    BY <1>1, <2>1, <2>2 DEF NoGap
  <2>6. DroppedOnlyByNamesake'
    BY <1>1, <2>2 DEF DroppedOnlyByNamesake, Registered, IDs
  <2> QED  BY <2>4, <2>5, <2>6
<1> QED  BY <1>3, <1>4, <1>6, <1>7, <1>8, <1>9

\* Nobody goes through the table while it is changed, and whoever was parked
\* meanwhile is let in.
LEMMA UnlockInd ==
  ASSUME IndInv, NEW w \in Watchers, RW!Writes(mu, w), mu' = RW!Unlock(mu),
         lpc[w] \in {"registering", "closing"},
         lpc'[w] \in {"listening", "closed"},
         \A v \in Watchers : v # w => lpc'[v] = lpc[v],
         UNCHANGED <<ppc, event, to, pending>>
  PROVE  /\ mu' \in Locks
         /\ ChangersHoldLock' /\ ParkedBehindWriter' /\ PublishersRead'
<1> USE DEF IndInv, TableInv
<1>1. /\ mu \in Locks /\ mu' \in Locks
      /\ mu'.readers = mu.parked /\ mu'.parked = {} /\ mu'.writer = NoGoroutine
      /\ mu.readers = {} /\ mu.writer = w
  BY UnlockFields DEF TypeOK, TableOK, Locks, RW!Writes
<1>2. ChangersHoldLock' /\ ParkedBehindWriter'
  BY <1>1 DEF ChangersHoldLock, ParkedBehindWriter
<1>3. \A p \in Publishers : /\ ppc[p] # "sending"
                            /\ to[p] = NoWatcher /\ pending[p] = {}
  BY <1>1 DEF PublishersRead
<1>4. PublishersRead'
  BY <1>1, <1>3 DEF PublishersRead
<1> QED  BY <1>1, <1>2, <1>4

\* Registering puts out whoever was under the same ID.
LEMMA RegisterInd ==
  ASSUME IndInv, UNCHANGED publishVars, NEW w \in Watchers, Register(w)
  PROVE  IndInv'
<1> USE DEF IndInv, TableInv
<1>1. /\ UNCHANGED <<listenerID, read, id, cancelled, closed, rpc, got>>
      /\ UNCHANGED <<ppc, event, to, pending>>
      /\ mu' = RW!Unlock(mu) /\ RW!Writes(mu, w)
      /\ lpc[w] = "registering" /\ lpc'[w] = "listening"
      /\ \A v \in Watchers : v # w => lpc'[v] = lpc[v]
      /\ lpc' \in [Watchers -> {"new", "counting", "counted", "locking",
                               "registering", "listening", "closing", "closed"}]
      /\ listeners' = [listeners EXCEPT ![id[w]] = w]
  BY DEF Register, receiveVars, publishVars, TypeOK, TableOK
<1>2. mu' \in Locks /\ ChangersHoldLock' /\ ParkedBehindWriter' /\ PublishersRead'
  BY <1>1, UnlockInd
<1>3. id[w] \in IDs(Watchers)
  <2>1. id[w] \in 0..Cardinality(Watchers) /\ id[w] # 0
    BY <1>1 DEF TypeOK, TableOK, IDsAreCounted
  <2> QED  BY <2>1, CountedBounds DEF IDs
<1>4. /\ listeners'[id[w]] = w
      /\ \A i \in IDs(Watchers) : i # id[w] => listeners'[i] = listeners[i]
      /\ listeners' \in [IDs(Watchers) -> Watchers \cup {NoWatcher}]
  BY <1>1, <1>3 DEF TypeOK, TableOK
<1>5. TypeOK'
  BY <1>1, <1>2, <1>4 DEF TypeOK, TableOK, Locks
<1>6. ListenersListen'
  <2>1. \A i \in IDs(Watchers) : listeners'[i] # NoWatcher =>
          /\ id[listeners'[i]] = i
          /\ lpc'[listeners'[i]] \in {"listening", "closing"}
    <3> SUFFICES ASSUME NEW i \in IDs(Watchers), listeners'[i] # NoWatcher
                 PROVE  /\ id[listeners'[i]] = i
                        /\ lpc'[listeners'[i]] \in {"listening", "closing"}
      OBVIOUS
    <3>1. CASE i = id[w]
      BY <1>1, <1>4, <3>1
    <3>2. CASE i # id[w]
      <4>1. listeners'[i] = listeners[i] /\ listeners[i] \in Watchers
        BY <1>4, <3>2 DEF TypeOK, TableOK
      <4>2. listeners[i] # w
        BY <1>1, <4>1 DEF ListenersListen
      <4> QED  BY <1>1, <4>1, <4>2 DEF ListenersListen
    <3> QED  BY <3>1, <3>2
  <2> QED  BY <1>1, <2>1 DEF ListenersListen, IDs
<1>7. IDsAreCounted'
  <2>1. Counted' = Counted
    BY <1>1 DEF Counted
  <2> QED  BY <1>1, <2>1 DEF IDsAreCounted
<1>8. \A v \in Watchers, p \in Publishers : From(v, p)' = From(v, p)
  BY <1>1 DEF From
<1>9. \A v \in Watchers : AloneUnderID(v)' = AloneUnderID(v)
  BY <1>1 DEF AloneUnderID
<1>10. \A p \in Publishers : From(w, p) = {}
  BY <1>1 DEF ListenersListen, From
<1>11. NoneIsMissed'
  BY <1>1, <1>8, <1>9, <1>10 DEF NoneIsMissed, Owes
<1>12. NoGap'
  BY <1>1, <1>8, <1>9, <1>10 DEF NoGap
<1>13. DroppedOnlyByNamesake'
  <2> SUFFICES ASSUME NEW v \in Watchers, AloneUnderID(v),
                      lpc'[v] \in {"listening", "closing"}
               PROVE  \E i \in IDs(Watchers) : listeners'[i] = v
    BY <1>9 DEF DroppedOnlyByNamesake, Registered, IDs
  <2>1. CASE v = w
    BY <1>3, <1>4, <2>1
  <2>2. CASE v # w
    <3>1. PICK i \in IDs(Watchers) : listeners[i] = v
      BY <1>1, <2>2 DEF DroppedOnlyByNamesake, Registered
    <3>2. i # id[w]
      BY <2>2, <3>1 DEF ListenersListen, AloneUnderID
    <3> QED  BY <1>4, <3>1, <3>2
  <2> QED  BY <2>1, <2>2
<1> QED  BY <1>2, <1>5, <1>6, <1>7, <1>11, <1>12, <1>13

\* So does closing.
LEMMA CloseInd ==
  ASSUME IndInv, UNCHANGED publishVars, NEW w \in Watchers, Close(w)
  PROVE  IndInv'
<1> USE DEF IndInv, TableInv
<1>1. /\ UNCHANGED <<listenerID, read, id, cancelled, rpc, got>>
      /\ UNCHANGED <<ppc, event, to, pending>>
      /\ mu' = RW!Unlock(mu) /\ RW!Writes(mu, w)
      /\ lpc[w] = "closing" /\ lpc'[w] = "closed"
      /\ \A v \in Watchers : v # w => lpc'[v] = lpc[v]
      /\ lpc' \in [Watchers -> {"new", "counting", "counted", "locking",
                               "registering", "listening", "closing", "closed"}]
      /\ closed' = closed \cup {w}
      /\ listeners' = [listeners EXCEPT ![id[w]] = NoWatcher]
  BY DEF Close, receiveVars, publishVars, TypeOK, TableOK
<1>2. mu' \in Locks /\ ChangersHoldLock' /\ ParkedBehindWriter' /\ PublishersRead'
  BY <1>1, UnlockInd
<1>3. id[w] \in IDs(Watchers)
  <2>1. id[w] \in 0..Cardinality(Watchers) /\ id[w] # 0
    BY <1>1 DEF TypeOK, TableOK, IDsAreCounted
  <2> QED  BY <2>1, CountedBounds DEF IDs
<1>4. /\ listeners'[id[w]] = NoWatcher
      /\ \A i \in IDs(Watchers) : i # id[w] => listeners'[i] = listeners[i]
      /\ listeners' \in [IDs(Watchers) -> Watchers \cup {NoWatcher}]
  BY <1>1, <1>3 DEF TypeOK, TableOK
<1>5. w \in cancelled
  BY <1>1 DEF ListenersListen
<1>6. TypeOK'
  BY <1>1, <1>2, <1>4, <1>5 DEF TypeOK, TableOK, Locks
<1>7. ListenersListen'
  <2>1. \A i \in IDs(Watchers) : listeners'[i] # NoWatcher =>
          /\ id[listeners'[i]] = i
          /\ lpc'[listeners'[i]] \in {"listening", "closing"}
    <3> SUFFICES ASSUME NEW i \in IDs(Watchers), listeners'[i] # NoWatcher
                 PROVE  /\ id[listeners'[i]] = i
                        /\ lpc'[listeners'[i]] \in {"listening", "closing"}
      OBVIOUS
    <3>1. i # id[w] /\ listeners'[i] = listeners[i] /\ listeners[i] \in Watchers
      BY <1>4 DEF TypeOK, TableOK
    <3>2. listeners[i] # w
      BY <3>1 DEF ListenersListen
    <3> QED  BY <1>1, <3>1, <3>2 DEF ListenersListen
  <2>2. closed' = {v \in Watchers : lpc'[v] = "closed"}
    BY <1>1 DEF ListenersListen
  <2>3. \A v \in Watchers :
          /\ lpc'[v] \in {"closing", "closed"} => v \in cancelled'
          /\ rpc'[v] = "off" => got'[v] = <<>>
          /\ rpc'[v] # "off" => lpc'[v] \in {"listening", "closing", "closed"}
    BY <1>1, <1>5 DEF ListenersListen
  <2> QED  BY <1>1, <2>1, <2>2, <2>3 DEF ListenersListen, IDs
<1>8. IDsAreCounted'
  <2>1. Counted' = Counted
    BY <1>1 DEF Counted
  <2> QED  BY <1>1, <2>1 DEF IDsAreCounted
<1>9. \A v \in Watchers, p \in Publishers : From(v, p)' = From(v, p)
  BY <1>1 DEF From
<1>10. \A v \in Watchers : AloneUnderID(v)' = AloneUnderID(v)
  BY <1>1 DEF AloneUnderID
<1>11. NoneIsMissed'
  BY <1>1, <1>9, <1>10 DEF NoneIsMissed, Owes
<1>12. NoGap'
  BY <1>1, <1>9, <1>10 DEF NoGap
<1>13. DroppedOnlyByNamesake'
  <2> SUFFICES ASSUME NEW v \in Watchers, AloneUnderID(v),
                      lpc'[v] \in {"listening", "closing"}
               PROVE  \E i \in IDs(Watchers) : listeners'[i] = v
    BY <1>10 DEF DroppedOnlyByNamesake, Registered, IDs
  <2>1. v # w
    BY <1>1
  <2>2. PICK i \in IDs(Watchers) : listeners[i] = v
    BY <1>1, <2>1 DEF DroppedOnlyByNamesake, Registered
  <2>3. i # id[w]
    BY <2>1, <2>2 DEF ListenersListen, AloneUnderID
  <2> QED  BY <1>4, <2>2, <2>3
<1> QED  BY <1>2, <1>6, <1>7, <1>8, <1>11, <1>12, <1>13

-----------------------------------------------------------------------------
(* The receiving ends.                                                     *)

\* What a receiving end does, publishing aside, touches neither table nor lock.
LEMMA ReceiveInd ==
  ASSUME IndInv, UNCHANGED publishVars, NEW w \in Watchers, Loop(w) \/ Leave(w)
  PROVE  IndInv'
<1> USE DEF IndInv, TableInv
<1>1. /\ UNCHANGED <<mu, listeners, listenerID, read, id, lpc, closed, got>>
      /\ UNCHANGED <<ppc, event, to, pending>>
      /\ rpc' \in [Watchers -> {"off", "receiving", "handling", "gone", "ended"}]
      /\ \A v \in Watchers : v # w => rpc'[v] = rpc[v]
      /\ rpc'[w] # rpc[w] =>
           /\ rpc'[w] # "off"
           /\ rpc[w] = "off" => lpc[w] \in {"listening", "closing", "closed"}
      /\ cancelled \subseteq cancelled' /\ cancelled' \subseteq Watchers
      /\ Starter \notin cancelled'
  <2>1. CASE Receive(w)
    BY <2>1 DEF Receive, listenVars, publishVars, TypeOK, TableOK
  <2>2. CASE Handled(w)
    BY <2>2 DEF Handled, listenVars, publishVars, TypeOK, TableOK
  <2>3. CASE RangeEnds(w)
    BY <2>3 DEF RangeEnds, listenVars, publishVars, TypeOK, TableOK
  <2>4. CASE w # Starter /\ SendFails(w)
    BY <2>4 DEF SendFails, listenVars, publishVars, TypeOK, TableOK
  <2>5. CASE w # Starter /\ Cancel(w)
    BY <2>5 DEF Cancel, listenVars, publishVars, TypeOK, TableOK
  <2> QED  BY <2>1, <2>2, <2>3, <2>4, <2>5 DEF Loop, Leave
<1>2. TypeOK'
  BY <1>1 DEF TypeOK, TableOK
<1>3. ListenersListen'
  BY <1>1 DEF ListenersListen, IDs
<1>4. IDsAreCounted' /\ ChangersHoldLock' /\ ParkedBehindWriter'
  BY <1>1 DEF IDsAreCounted, Counted, ChangersHoldLock, ParkedBehindWriter
<1>5. PublishersRead'
  BY <1>1 DEF PublishersRead, Registered, IDs
<1>6. NoneIsMissed' /\ NoGap' /\ DroppedOnlyByNamesake'
  BY <1>1 DEF NoneIsMissed, NoGap, DroppedOnlyByNamesake, Owes, From,
              AloneUnderID, Registered, IDs
<1> QED  BY <1>2, <1>3, <1>4, <1>5, <1>6

-----------------------------------------------------------------------------
(* publish.                                                                *)

\* The loop comes to one of the channels in S and has the others still before
\* it; nothing changes for the other publishers.
LEMMA GoOnFields ==
  ASSUME IndInv, NEW p \in Publishers,
         NEW S \in SUBSET Watchers, GoOnWith(p, S)
  PROVE  /\ to' \in [Publishers -> Watchers \cup {NoWatcher}]
         /\ pending' \in [Publishers -> SUBSET Watchers]
         /\ to'[p] \notin pending'[p]
         /\ (pending'[p] \cup {to'[p]}) \ {NoWatcher} = S
         /\ to'[p] = NoWatcher => pending'[p] = {}
         /\ \A q \in Publishers : q # p => to'[q] = to[q] /\ pending'[q] = pending[q]
<1>1. /\ to \in [Publishers -> Watchers \cup {NoWatcher}]
      /\ pending \in [Publishers -> SUBSET Watchers]
  BY DEF IndInv, TypeOK
<1>2. PICK w \in IF S = {} THEN {NoWatcher} ELSE S :
             /\ to' = [to EXCEPT ![p] = w]
             /\ pending' = [pending EXCEPT ![p] = S \ {w}]
  BY DEF GoOnWith
<1>3. NoWatcher \notin S /\ w \in Watchers \cup {NoWatcher}
  OBVIOUS
<1>4. to'[p] = w /\ pending'[p] = S \ {w}
  BY <1>1, <1>2
<1>5. CASE S = {}
  BY <1>1, <1>2, <1>3, <1>4, <1>5
<1>6. CASE S # {}
  BY <1>1, <1>2, <1>3, <1>4, <1>6
<1> QED  BY <1>5, <1>6

\* Who calls publish has one event more, and owes it to every watcher.
LEMMA RLockInd ==
  ASSUME IndInv, NEW p \in Publishers, RLockToPublish(p)
  PROVE  IndInv'
<1> USE DEF IndInv, TableInv
<1>1. /\ UNCHANGED <<listeners, listenerID, lpc, read, id, cancelled, closed, rpc, got>>
      /\ UNCHANGED <<to, pending>>
      /\ mu' = RW!RLock(mu, p)
      /\ ppc[p] = "idle" /\ ppc' = [ppc EXCEPT ![p] = "locking"]
      /\ event[p] < MaxEvents /\ event' = [event EXCEPT ![p] = @ + 1]
  BY DEF RLockToPublish, listenVars, receiveVars
<1>2. mu \in Locks /\ mu' = RW!RLock(mu, p)
  BY <1>1 DEF TypeOK, TableOK, Locks
<1>3. /\ mu' \in Locks /\ mu'.writer = mu.writer
      /\ mu.writer = NoGoroutine =>
           mu'.readers = mu.readers \cup {p} /\ mu'.parked = mu.parked
      /\ mu.writer # NoGoroutine =>
           mu'.readers = mu.readers /\ mu'.parked = mu.parked \cup {p}
  BY <1>2, RLockFields
<1>4. /\ event[p] \in 0..MaxEvents
      /\ event'[p] = event[p] + 1
      /\ event' \in [Publishers -> 0..MaxEvents]
      /\ ppc' \in [Publishers -> {"idle", "locking", "sending"}]
      /\ ppc'[p] = "locking"
      /\ \A q \in Publishers : q # p => event'[q] = event[q] /\ ppc'[q] = ppc[q]
  BY <1>1 DEF TypeOK
<1>5. /\ to[p] = NoWatcher /\ pending[p] = {}
      /\ p \notin mu.readers /\ p \notin mu.parked
  BY <1>1 DEF PublishersRead
<1>6. TypeOK'
  BY <1>1, <1>3, <1>4 DEF TypeOK, TableOK, Locks
<1>7. ListenersListen' /\ IDsAreCounted' /\ ChangersHoldLock'
  BY <1>1, <1>3 DEF ListenersListen, IDsAreCounted, Counted, ChangersHoldLock, IDs
<1>8. ParkedBehindWriter'
  BY <1>3, <1>5 DEF ParkedBehindWriter
<1>9. PublishersRead'
  <2>1. \A q \in Publishers : q \in mu'.readers \cup mu'.parked
                             <=> q = p \/ q \in mu.readers \cup mu.parked
    BY <1>3
  <2>2. \A q \in Publishers : q # p => (q \in mu'.readers <=> q \in mu.readers)
    BY <1>3
  <2>3. event'[p] > 0
    BY <1>4
  <2> QED  BY <1>1, <1>4, <1>5, <2>1, <2>2, <2>3 DEF PublishersRead, Registered, IDs
<1>10. NoneIsMissed'
  <2> SUFFICES ASSUME NEW v \in Watchers, NEW q \in Publishers, AloneUnderID(v),
                      lpc[v] \in {"listening", "closing"},
                      NEW i \in From(v, q), \A j \in From(v, q) : j <= i
               PROVE  got[v][i][2]
                        = IF Owes(q, v)' THEN event'[q] - 1 ELSE event'[q]
    BY <1>1 DEF NoneIsMissed, From, AloneUnderID
  <2>1. got[v][i][2] = IF Owes(q, v) THEN event[q] - 1 ELSE event[q]
    BY DEF NoneIsMissed
  <2>2. CASE q = p
    <3>1. ~Owes(p, v) /\ Owes(p, v)'
      BY <1>1, <1>4, <1>5 DEF Owes
    <3> QED  BY <1>4, <2>1, <2>2, <3>1
  <2>3. CASE q # p
    <3>1. Owes(q, v)' = Owes(q, v)
      BY <1>1, <1>4, <2>3 DEF Owes
    <3> QED  BY <1>4, <2>1, <2>3, <3>1
  <2> QED  BY <2>2, <2>3
<1>11. NoGap'
  BY <1>1, <1>4 DEF NoGap, From, AloneUnderID
<1>12. DroppedOnlyByNamesake'
  BY <1>1 DEF DroppedOnlyByNamesake, AloneUnderID, Registered, IDs
<1> QED  BY <1>6, <1>7, <1>8, <1>9, <1>10, <1>11, <1>12

\* publish finds every watcher in the table who is alone under his ID.
LEMMA RangeInd ==
  ASSUME IndInv, NEW p \in Publishers, StartRange(p)
  PROVE  IndInv'
<1> USE DEF IndInv, TableInv
<1>1. /\ UNCHANGED <<mu, listeners, listenerID, lpc, read, id, cancelled, closed,
                     rpc, got, event>>
      /\ p \in mu.readers
      /\ GoOnWith(p, Registered)
      /\ ppc[p] = "locking" /\ ppc' = [ppc EXCEPT ![p] = "sending"]
  BY DEF StartRange, listenVars, receiveVars, RW!Reads
<1>2. PICK S : S = Registered /\ S \in SUBSET Watchers
  BY RegisteredWatch
<1>3. GoOnWith(p, S)
  BY <1>1, <1>2
<1>4. /\ to' \in [Publishers -> Watchers \cup {NoWatcher}]
      /\ pending' \in [Publishers -> SUBSET Watchers]
      /\ to'[p] \notin pending'[p]
      /\ (pending'[p] \cup {to'[p]}) \ {NoWatcher} = S
      /\ to'[p] = NoWatcher => pending'[p] = {}
      /\ \A q \in Publishers : q # p => to'[q] = to[q] /\ pending'[q] = pending[q]
  BY <1>2, <1>3, GoOnFields
<1>5. /\ ppc' \in [Publishers -> {"idle", "locking", "sending"}]
      /\ ppc'[p] = "sending"
      /\ \A q \in Publishers : q # p => ppc'[q] = ppc[q]
  BY <1>1 DEF TypeOK
<1>6. Registered' = Registered
  BY <1>1 DEF Registered, IDs
<1>7. TypeOK'
  BY <1>1, <1>4, <1>5 DEF TypeOK, TableOK
<1>8. ListenersListen' /\ IDsAreCounted' /\ ChangersHoldLock' /\ ParkedBehindWriter'
  BY <1>1 DEF ListenersListen, IDsAreCounted, Counted, ChangersHoldLock,
              ParkedBehindWriter, IDs
<1>9. PublishersRead'
  <2> SUFFICES ASSUME NEW q \in Publishers
               PROVE  /\ q \in mu.readers \cup mu.parked <=> ppc'[q] # "idle"
                      /\ ppc'[q] = "sending" => q \in mu.readers
                      /\ ppc'[q] # "sending" => to'[q] = NoWatcher
                      /\ pending'[q] \subseteq Registered
                      /\ to'[q] \in Registered \cup {NoWatcher}
                      /\ to'[q] \notin pending'[q]
                      /\ to'[q] = NoWatcher => pending'[q] = {}
                      /\ ppc'[q] # "idle" => event[q] > 0
    BY <1>1, <1>6 DEF PublishersRead
  <2>1. CASE q = p
    <3>1. NoWatcher \notin pending'[p]
      BY <1>4
    <3> QED  BY <1>1, <1>2, <1>4, <1>5, <2>1, <3>1 DEF PublishersRead
  <2>2. CASE q # p
    BY <1>4, <1>5, <2>2 DEF PublishersRead
  <2> QED  BY <2>1, <2>2
<1>10. NoneIsMissed'
  <2> SUFFICES ASSUME NEW v \in Watchers, NEW q \in Publishers, AloneUnderID(v),
                      lpc[v] \in {"listening", "closing"},
                      NEW i \in From(v, q), \A j \in From(v, q) : j <= i
               PROVE  got[v][i][2]
                        = IF Owes(q, v)' THEN event[q] - 1 ELSE event[q]
    BY <1>1 DEF NoneIsMissed, From, AloneUnderID
  <2>1. got[v][i][2] = IF Owes(q, v) THEN event[q] - 1 ELSE event[q]
    BY DEF NoneIsMissed
  <2>2. CASE q = p
    <3>1. v \in S
      BY <1>2 DEF DroppedOnlyByNamesake
    <3>2. Owes(p, v) /\ Owes(p, v)'
      BY <1>1, <1>4, <3>1 DEF Owes
    <3> QED  BY <2>1, <2>2, <3>2
  <2>3. CASE q # p
    <3>1. Owes(q, v)' = Owes(q, v)
      BY <1>4, <1>5, <2>3 DEF Owes
    <3> QED  BY <2>1, <3>1
  <2> QED  BY <2>2, <2>3
<1>11. NoGap'
  BY <1>1, <1>5 DEF NoGap, From, AloneUnderID
<1>12. DroppedOnlyByNamesake'
  BY <1>1, <1>6 DEF DroppedOnlyByNamesake, AloneUnderID
<1> QED  BY <1>7, <1>8, <1>9, <1>10, <1>11, <1>12

\* publish is done when it owes nobody anything.
LEMMA RUnlockInd ==
  ASSUME IndInv, NEW p \in Publishers, RUnlock(p)
  PROVE  IndInv'
<1> USE DEF IndInv, TableInv
<1>1. /\ UNCHANGED <<listeners, listenerID, lpc, read, id, cancelled, closed, rpc, got,
                     event, to, pending>>
      /\ mu' = RW!RUnlock(mu, p)
      /\ to[p] = NoWatcher
      /\ ppc[p] = "sending" /\ ppc' = [ppc EXCEPT ![p] = "idle"]
  BY DEF RUnlock, listenVars, receiveVars
<1>2. mu \in Locks
  BY DEF TypeOK, TableOK, Locks
<1>3. /\ mu' \in Locks /\ mu'.writer = mu.writer
      /\ mu'.readers = mu.readers \ {p} /\ mu'.parked = mu.parked
  BY <1>1, <1>2, RUnlockFields
<1>4. /\ ppc' \in [Publishers -> {"idle", "locking", "sending"}]
      /\ ppc'[p] = "idle"
      /\ \A q \in Publishers : q # p => ppc'[q] = ppc[q]
  BY <1>1 DEF TypeOK
<1>5. p \in mu.readers /\ p \notin mu.parked /\ pending[p] = {}
  BY <1>1 DEF PublishersRead, ParkedBehindWriter
<1>6. TypeOK'
  BY <1>1, <1>3, <1>4 DEF TypeOK, TableOK, Locks
<1>7. ListenersListen' /\ IDsAreCounted' /\ ChangersHoldLock' /\ ParkedBehindWriter'
  BY <1>1, <1>3 DEF ListenersListen, IDsAreCounted, Counted, ChangersHoldLock,
                    ParkedBehindWriter, IDs
<1>8. PublishersRead'
  BY <1>1, <1>3, <1>4, <1>5 DEF PublishersRead, Registered, IDs
<1>9. \A v \in Watchers, q \in Publishers : Owes(q, v)' = Owes(q, v)
  BY <1>1, <1>4 DEF Owes
<1>10. NoneIsMissed'
  BY <1>1, <1>9 DEF NoneIsMissed, From, AloneUnderID
<1>11. NoGap'
  <2>1. \A v \in Watchers : ~Owes(p, v)
    BY <1>1, <1>5 DEF Owes
  <2> QED  BY <1>1, <1>4, <2>1 DEF NoGap, NoneIsMissed, From, AloneUnderID
<1>12. DroppedOnlyByNamesake'
  BY <1>1 DEF DroppedOnlyByNamesake, AloneUnderID, Registered, IDs
<1> QED  BY <1>6, <1>7, <1>8, <1>10, <1>11, <1>12

\* One event more at the end of what a watcher has got.
LEMMA AppendFrom ==
  ASSUME IndInv, NEW w \in Watchers, NEW p \in Publishers,
         event[p] \in 1..MaxEvents,
         got' = [got EXCEPT ![w] = Append(@, <<p, event[p]>>)]
  PROVE  /\ got' \in [Watchers -> Seq(Publishers \X (1..MaxEvents))]
         /\ Len(got[w]) \in Nat /\ Len(got'[w]) = Len(got[w]) + 1
         /\ got'[w][Len(got[w]) + 1] = <<p, event[p]>>
         /\ \A i \in 1..Len(got[w]) : got'[w][i] = got[w][i]
         /\ \A v \in Watchers : v # w => got'[v] = got[v]
         /\ From(w, p)' = From(w, p) \cup {Len(got[w]) + 1}
         /\ \A v \in Watchers, q \in Publishers :
              v # w \/ q # p => From(v, q)' = From(v, q)
<1>1. got \in [Watchers -> Seq(Publishers \X (1..MaxEvents))]
  BY DEF IndInv, TypeOK, TableOK
<1>2. got[w] \in Seq(Publishers \X (1..MaxEvents))
      /\ <<p, event[p]>> \in Publishers \X (1..MaxEvents)
  BY <1>1
<1>3. /\ got'[w] = Append(got[w], <<p, event[p]>>)
      /\ \A v \in Watchers : v # w => got'[v] = got[v]
  BY <1>1
<1>4. /\ got'[w] \in Seq(Publishers \X (1..MaxEvents))
      /\ Len(got[w]) \in Nat /\ Len(got'[w]) = Len(got[w]) + 1
      /\ got'[w][Len(got[w]) + 1] = <<p, event[p]>>
      /\ \A i \in 1..Len(got[w]) : got'[w][i] = got[w][i]
  BY <1>2, <1>3
<1>5. got' \in [Watchers -> Seq(Publishers \X (1..MaxEvents))]
  BY <1>1, <1>3, <1>4
<1>6. got'[w][Len(got[w]) + 1][1] = p
  BY <1>4
<1>7. From(w, p)' = From(w, p) \cup {Len(got[w]) + 1}
  BY <1>4, <1>6 DEF From
<1>8. \A v \in Watchers, q \in Publishers :
              v # w \/ q # p => From(v, q)' = From(v, q)
  BY <1>3, <1>4, <1>6 DEF From
<1> QED  BY <1>3, <1>4, <1>5, <1>7, <1>8

\* The watcher that publish sends to gets the event that it is owed, which is
\* the one after the last one it has.
LEMMA SendInd ==
  ASSUME IndInv, NEW p \in Publishers, Send(p)
  PROVE  IndInv'
<1> USE DEF IndInv, TableInv
<1>1. PICK w : w = to[p]
  OBVIOUS
<1>2. PICK S : S = pending[p]
  OBVIOUS
<1>3. /\ UNCHANGED <<mu, listeners, listenerID, lpc, read, id, cancelled, closed,
                     ppc, event>>
      /\ GoOnWith(p, S)
      /\ w # NoWatcher /\ w \in Watchers
      /\ rpc[w] = "receiving" /\ rpc' = [rpc EXCEPT ![w] = "handling"]
      /\ got' = [got EXCEPT ![w] = Append(@, <<p, event[p]>>)]
  BY <1>1, <1>2 DEF Send, Deliver, listenVars, TypeOK
<1>4. S \in SUBSET Watchers
  BY <1>2 DEF TypeOK
<1>5. /\ to' \in [Publishers -> Watchers \cup {NoWatcher}]
      /\ pending' \in [Publishers -> SUBSET Watchers]
      /\ to'[p] \notin pending'[p]
      /\ (pending'[p] \cup {to'[p]}) \ {NoWatcher} = S
      /\ to'[p] = NoWatcher => pending'[p] = {}
      /\ \A q \in Publishers : q # p => to'[q] = to[q] /\ pending'[q] = pending[q]
  BY <1>3, <1>4, GoOnFields
<1>6. /\ ppc[p] = "sending"
      /\ w \in Registered /\ w \notin S /\ S \subseteq Registered
      /\ event[p] \in 1..MaxEvents
  BY <1>1, <1>2, <1>3 DEF PublishersRead, TypeOK
<1>7. PICK n \in Nat : n = Len(got[w])
  BY <1>3 DEF TypeOK, TableOK
<1>8. PICK Now, Then :
        /\ Now = [v \in Watchers |-> [q \in Publishers |-> From(v, q)]]
        /\ Then = [v \in Watchers |-> [q \in Publishers |-> From(v, q)']]
  OBVIOUS
<1>9. \A v \in Watchers, q \in Publishers :
        Now[v][q] = From(v, q) /\ Then[v][q] = From(v, q)'
  BY <1>8
<1>10. /\ got' \in [Watchers -> Seq(Publishers \X (1..MaxEvents))]
      /\ \A v \in Watchers : v # w => got'[v] = got[v]
  BY <1>3, <1>6, AppendFrom
<1>11. /\ \A i \in 1..n : got'[w][i] = got[w][i]
      /\ got'[w][n + 1][2] = event[p]
  <2>1. /\ \A i \in 1..n : got'[w][i] = got[w][i]
        /\ got'[w][n + 1] = <<p, event[p]>>
    BY <1>3, <1>6, <1>7, AppendFrom
  <2> QED  BY <2>1
<1>12. /\ Then[w][p] = Now[w][p] \cup {n + 1}
      /\ \A v \in Watchers, q \in Publishers :
           v # w \/ q # p => Then[v][q] = Now[v][q]
  <2>1. /\ From(w, p)' = From(w, p) \cup {n + 1}
        /\ \A v \in Watchers, q \in Publishers :
             v # w \/ q # p => From(v, q)' = From(v, q)
    BY <1>3, <1>6, <1>7, AppendFrom
  <2> QED  BY <1>3, <1>9, <2>1
<1>13. /\ \A v \in Watchers, q \in Publishers : Now[v][q] \subseteq Nat
      /\ \A q \in Publishers : Now[w][q] \subseteq 1..n
  <2>1. /\ \A v \in Watchers, q \in Publishers : From(v, q) \subseteq Nat
        /\ \A q \in Publishers : From(w, q) \subseteq 1..n
    BY <1>7 DEF From
  <2> QED  BY <1>3, <1>9, <2>1
<1>14. lpc[w] \in {"listening", "closing"}
  BY <1>3, <1>6 DEF ListenersListen, Registered
<1>15. /\ rpc' \in [Watchers -> {"off", "receiving", "handling", "gone", "ended"}]
       /\ rpc'[w] = "handling"
       /\ \A v \in Watchers : v # w => rpc'[v] = rpc[v]
  BY <1>3 DEF TypeOK, TableOK
<1>16. TypeOK'
  BY <1>3, <1>5, <1>10, <1>15 DEF TypeOK, TableOK
<1>17. ListenersListen'
  BY <1>3, <1>10, <1>14, <1>15 DEF ListenersListen, IDs
<1>18. IDsAreCounted' /\ ChangersHoldLock' /\ ParkedBehindWriter'
  BY <1>3 DEF IDsAreCounted, Counted, ChangersHoldLock, ParkedBehindWriter
<1>19. PublishersRead'
  <2>1. Registered' = Registered
    BY <1>3 DEF Registered, IDs
  <2>2. /\ pending'[p] \subseteq Registered
        /\ to'[p] \in Registered \cup {NoWatcher}
    BY <1>5, <1>6
  <2>3. ASSUME NEW q \in Publishers
        PROVE  /\ q \in mu.readers \cup mu.parked <=> ppc[q] # "idle"
               /\ ppc[q] = "sending" => q \in mu.readers
               /\ ppc[q] # "sending" => to'[q] = NoWatcher
               /\ pending'[q] \subseteq Registered
               /\ to'[q] \in Registered \cup {NoWatcher}
               /\ to'[q] \notin pending'[q]
               /\ to'[q] = NoWatcher => pending'[q] = {}
               /\ ppc[q] # "idle" => event[q] > 0
    <3>1. CASE q = p
      BY <1>5, <1>6, <2>2, <3>1 DEF PublishersRead
    <3>2. CASE q # p
      BY <1>5, <3>2 DEF PublishersRead
    <3> QED  BY <3>1, <3>2
  <2> QED  BY <1>3, <2>1, <2>3 DEF PublishersRead
<1>20. Owes(p, w) /\ ~Owes(p, w)'
  BY <1>1, <1>3, <1>5, <1>6 DEF Owes
<1>21. \A v \in Watchers, q \in Publishers :
         v # w \/ q # p => Owes(q, v)' = Owes(q, v)
  <2>1. \A v \in Watchers : v # w => Owes(p, v)' = Owes(p, v)
    BY <1>1, <1>2, <1>3, <1>5, <1>6 DEF Owes
  <2>2. \A v \in Watchers, q \in Publishers : q # p => Owes(q, v)' = Owes(q, v)
    BY <1>3, <1>5 DEF Owes
  <2> QED  BY <2>1, <2>2
<1>22. \A v \in Watchers, q \in Publishers :
         \A i \in Now[v][q] : got'[v][i] = got[v][i]
  BY <1>10, <1>11, <1>13
<1>23. \A v \in Watchers : AloneUnderID(v)' = AloneUnderID(v)
  BY <1>3 DEF AloneUnderID
<1>24. UNCHANGED <<lpc, ppc, event>>
  BY <1>3
<1>25. NoneIsMissed'
  <2> SUFFICES ASSUME NEW v \in Watchers, NEW q \in Publishers, AloneUnderID(v),
                      lpc[v] \in {"listening", "closing"},
                      NEW i \in Then[v][q], \A j \in Then[v][q] : j <= i
               PROVE  got'[v][i][2]
                        = IF Owes(q, v)' THEN event[q] - 1 ELSE event[q]
    BY <1>24, <1>23, <1>9 DEF NoneIsMissed
  <2>1. CASE v = w /\ q = p
    <3>1. i = n + 1
      BY <1>12, <1>13, <2>1
    <3> QED  BY <1>11, <1>20, <2>1, <3>1
  <2>2. CASE v # w \/ q # p
    BY <1>21, <1>22, <1>9, <1>12, <2>2 DEF NoneIsMissed
  <2> QED  BY <2>1, <2>2
<1>26. NoGap'
  <2> SUFFICES ASSUME NEW v \in Watchers, NEW q \in Publishers, AloneUnderID(v)
               PROVE  /\ \A i, j \in Then[v][q] :
                           i < j /\ Then[v][q] \cap (i + 1..j - 1) = {}
                             => got'[v][j][2] = got'[v][i][2] + 1
                      /\ lpc[v] = "listening" /\ ppc[q] = "idle" =>
                           \A i \in Then[v][q] : (\A j \in Then[v][q] : j <= i)
                             => got'[v][i][2] = event[q]
    BY <1>24, <1>23, <1>9 DEF NoGap
  <2>1. CASE v # w \/ q # p
    BY <1>22, <1>9, <1>12, <2>1 DEF NoGap
  <2>2. CASE v = w /\ q = p
    <3>1. ASSUME NEW i \in Then[w][p], NEW j \in Then[w][p], i < j,
                 Then[w][p] \cap (i + 1..j - 1) = {}
          PROVE  got'[w][j][2] = got'[w][i][2] + 1
      <4>1. i \in Now[w][p] /\ i \in Nat /\ j \in Nat
        BY <1>12, <1>13, <3>1
      <4>2. CASE j \in Now[w][p]
        BY <1>22, <1>9, <1>12, <2>2, <3>1, <4>1, <4>2 DEF NoGap
      <4>3. CASE j = n + 1
        <5>1. \A k \in Now[w][p] : k <= i
          BY <1>12, <1>13, <3>1, <4>1, <4>3
        <5>2. got[w][i][2] = event[p] - 1
          BY <1>14, <1>20, <2>2, <4>1, <5>1, <1>9 DEF NoneIsMissed
        <5>3. got'[w][j][2] = event[p]
          BY <1>11, <4>3
        <5>4. got'[w][i][2] = got[w][i][2]
          BY <1>3, <1>22, <4>1
        <5>5. event[p] \in Nat
          BY <1>6
        <5> QED  BY <5>2, <5>3, <5>4, <5>5
      <4> QED  BY <1>12, <3>1, <4>2, <4>3
    <3> QED  BY <1>6, <2>2, <3>1
  <2> QED  BY <2>1, <2>2
<1>27. DroppedOnlyByNamesake'
  BY <1>3, <1>23, <1>9 DEF DroppedOnlyByNamesake, Registered, IDs
<1> QED  BY <1>16, <1>17, <1>18, <1>19, <1>25, <1>26, <1>27

-----------------------------------------------------------------------------

\* Nobody listens yet, and the counter is 0.
LEMMA InitInd == Init => IndInv
<1> SUFFICES ASSUME Init PROVE IndInv
  OBVIOUS
<1> USE DEF Init, TableInit
<1>1. Cardinality(Watchers) \in Nat
  BY FS_CardinalityType
<1>2. mu = [readers |-> {}, parked |-> {}, writer |-> NoGoroutine]
  BY DEF RW!Free
<1>3. TypeOK
  BY <1>1, <1>2 DEF TypeOK, TableOK
<1>4. ListenersListen
  BY DEF ListenersListen
<1>5. Counted = {} /\ Cardinality(Counted) = 0
  BY FS_EmptySet DEF Counted
<1>6. IDsAreCounted
  BY <1>5 DEF IDsAreCounted
<1>7. ChangersHoldLock /\ ParkedBehindWriter
  BY <1>2 DEF ChangersHoldLock, ParkedBehindWriter
<1>8. PublishersRead
  BY <1>2 DEF PublishersRead
<1>9. NoneIsMissed /\ NoGap
  BY DEF NoneIsMissed, NoGap, From
<1>10. DroppedOnlyByNamesake
  BY DEF DroppedOnlyByNamesake
<1> QED  BY <1>3, <1>4, <1>6, <1>7, <1>8, <1>9, <1>10 DEF IndInv, TableInv

\* IndInv does not speak of anything that a stutter could change.
LEMMA StutterInd == IndInv /\ UNCHANGED vars => IndInv'
<1> SUFFICES ASSUME IndInv, UNCHANGED vars PROVE IndInv'
  OBVIOUS
<1>1. /\ UNCHANGED <<mu, listeners, listenerID, lpc, read, id, cancelled, closed, rpc, got>>
      /\ UNCHANGED <<ppc, event, to, pending>>
  BY DEF vars, tableVars, listenVars, receiveVars, publishVars
<1>2. TypeOK' /\ ListenersListen' /\ IDsAreCounted'
  BY <1>1 DEF IndInv, TableInv, TypeOK, TableOK, ListenersListen, IDsAreCounted, Counted
<1>3. ChangersHoldLock' /\ ParkedBehindWriter' /\ PublishersRead'
  BY <1>1 DEF IndInv, TableInv, ChangersHoldLock, ParkedBehindWriter, PublishersRead,
              Registered
<1>4. NoneIsMissed' /\ NoGap' /\ DroppedOnlyByNamesake'
  BY <1>1 DEF IndInv, NoneIsMissed, NoGap, DroppedOnlyByNamesake, Owes, From,
              AloneUnderID, Registered
<1> QED  BY <1>2, <1>3, <1>4 DEF IndInv, TableInv

\* What a watcher, and what a publisher, does.
LEMMA NextInd == IndInv /\ [Next]_vars => IndInv'
<1> SUFFICES ASSUME IndInv, [Next]_vars PROVE IndInv'
  OBVIOUS
<1>1. ASSUME NEW w \in Watchers, WatcherStep(w), UNCHANGED publishVars
      PROVE  IndInv'
  BY <1>1, CountingInd, RegisterInd, LockInd, CloseInd, ReceiveInd
     DEF WatcherStep, Listen
<1>2. ASSUME NEW p \in Publishers, Publish(p)
      PROVE  IndInv'
  BY <1>2, RLockInd, RangeInd, SendInd, RUnlockInd DEF Publish
<1> QED  BY <1>1, <1>2, StutterInd DEF Next

-----------------------------------------------------------------------------
(* Once, and in order.                                                     *)

\* Only Send gives a watcher anything.
LEMMA OnlySendDelivers ==
  ASSUME [Next]_vars
  PROVE  UNCHANGED got \/ \E p \in Publishers : Send(p)
<1>1. CASE UNCHANGED vars
  BY <1>1 DEF vars, tableVars, receiveVars
<1>2. ASSUME NEW w \in Watchers, WatcherStep(w)
      PROVE  UNCHANGED got
  BY <1>2 DEF WatcherStep, Listen, Lock, Loop, Leave, ReadCounter, WriteCounter, TakeID,
              Register, LockToListen, LockToClose, Close, Receive, Handled, RangeEnds,
              SendFails, Cancel, receiveVars
<1>3. ASSUME NEW p \in Publishers, RLockToPublish(p) \/ StartRange(p) \/ RUnlock(p)
      PROVE  UNCHANGED got
  BY <1>3 DEF RLockToPublish, StartRange, RUnlock, receiveVars
<1> QED  BY <1>1, <1>2, <1>3 DEF Next, Publish

\* An event becomes due to a watcher when it is published, at no other time.
LEMMA DueWhenPublished ==
  ASSUME IndInv, [Next]_vars, NEW w \in Watchers, NEW p \in Publishers
  PROVE  \/ event'[p] = event[p] + 1
         \/ event'[p] = event[p] /\ (Owes(p, w)' => Owes(p, w))
<1>1. CASE UNCHANGED publishVars
  BY <1>1 DEF publishVars, Owes
<1>2. ASSUME NEW q \in Publishers, Publish(q)
      PROVE  \/ event'[p] = event[p] + 1
             \/ event'[p] = event[p] /\ (Owes(p, w)' => Owes(p, w))
  <2>1. /\ event \in [Publishers -> 0..MaxEvents]
        /\ ppc \in [Publishers -> {"idle", "locking", "sending"}]
    BY DEF IndInv, TypeOK
  <2>2. CASE RLockToPublish(q)
    <3>1. event' = [event EXCEPT ![q] = @ + 1] /\ UNCHANGED <<to, pending>>
          /\ ppc' = [ppc EXCEPT ![q] = "locking"]
      BY <2>2 DEF RLockToPublish
    <3> QED  BY <2>1, <3>1 DEF Owes
  <2>3. CASE StartRange(q)
    <3>1. /\ UNCHANGED event /\ ppc[q] = "locking"
          /\ ppc' = [ppc EXCEPT ![q] = "sending"]
          /\ GoOnWith(q, Registered)
      BY <2>3 DEF StartRange
    <3>2. q # p => to'[p] = to[p] /\ pending'[p] = pending[p]
      BY <3>1, GoOnFields, RegisteredWatch
    <3> QED  BY <2>1, <3>1, <3>2 DEF Owes
  <2>4. CASE Send(q)
    <3>1. UNCHANGED <<ppc, event>> /\ GoOnWith(q, pending[q]) /\ pending[q] \in SUBSET Watchers
      BY <2>4 DEF Send, IndInv, TypeOK
    <3>2. /\ (pending'[q] \cup {to'[q]}) \ {NoWatcher} = pending[q]
          /\ q # p => to'[p] = to[p] /\ pending'[p] = pending[p]
      BY <3>1, GoOnFields
    <3>3. w \in pending'[q] \cup {to'[q]} => w \in pending[q]
      BY <3>2
    <3> QED  BY <3>1, <3>2, <3>3 DEF Owes
  <2>5. CASE RUnlock(q)
    BY <2>1, <2>5 DEF RUnlock, Owes
  <2> QED  BY <1>2, <2>2, <2>3, <2>4, <2>5 DEF Publish
<1> QED  BY <1>1, <1>2 DEF Next, vars

\* What is sent to a watcher is newer than all it has of that publisher.
LEMMA OrderInd ==
  IndInv /\ InOrderOnce /\ NoneIsAhead /\ [Next]_vars => InOrderOnce' /\ NoneIsAhead'
<1> SUFFICES ASSUME IndInv, InOrderOnce, NoneIsAhead, [Next]_vars,
                    NEW w \in Watchers, NEW p \in Publishers
             PROVE  /\ \A i, j \in From(w, p)' : i < j => got'[w][i][2] < got'[w][j][2]
                    /\ \A i \in From(w, p)' :
                         got'[w][i][2] <= IF Owes(p, w)' THEN event'[p] - 1 ELSE event'[p]
  BY DEF InOrderOnce, NoneIsAhead
<1>1. /\ event[p] \in Nat
      /\ \A i \in From(w, p) : got[w][i][2] \in Nat
  <2>1. event[p] \in Nat /\ got[w] \in Seq(Publishers \X (1..MaxEvents))
    BY DEF IndInv, TypeOK, TableOK
  <2> QED  BY <2>1 DEF From
<1>2. \/ event'[p] = event[p] + 1
      \/ event'[p] = event[p] /\ (Owes(p, w)' => Owes(p, w))
  BY DueWhenPublished
<1>3. CASE UNCHANGED got
  <2>1. From(w, p)' = From(w, p)
    BY <1>3 DEF From
  <2>2. \A i \in From(w, p) :
          got[w][i][2] <= IF Owes(p, w)' THEN event'[p] - 1 ELSE event'[p]
    BY <1>1, <1>2 DEF NoneIsAhead
  <2> QED  BY <1>3, <2>1, <2>2 DEF InOrderOnce
<1>4. ASSUME NEW q \in Publishers, Send(q)
      PROVE  /\ \A i, j \in From(w, p)' : i < j => got'[w][i][2] < got'[w][j][2]
             /\ \A i \in From(w, p)' :
                  got'[w][i][2] <= IF Owes(p, w)' THEN event'[p] - 1 ELSE event'[p]
  <2>1. PICK v \in Watchers : v = to[q]
    BY <1>4 DEF Send, IndInv, TypeOK
  <2>2. /\ event' = event /\ UNCHANGED ppc
        /\ event[q] \in 1..MaxEvents
        /\ got' = [got EXCEPT ![v] = Append(@, <<q, event[q]>>)]
        /\ GoOnWith(q, pending[q]) /\ pending[q] \in SUBSET Watchers
        /\ v \notin pending[q] /\ ppc[q] # "locking" /\ v # NoWatcher
    BY <1>4, <2>1 DEF Send, Deliver, IndInv, TypeOK, PublishersRead
  <2>3. CASE w # v \/ p # q
    <3>1. From(w, p)' = From(w, p)
      <4>1. \A x \in Watchers, y \in Publishers : x # v \/ y # q => From(x, y)' = From(x, y)
        BY <2>2, AppendFrom
      <4> QED  BY <2>3, <4>1
    <3>2. \A i \in From(w, p) : got'[w][i] = got[w][i]
      BY <2>2, AppendFrom DEF From
    <3>3. event'[p] = event[p] /\ (Owes(p, w)' => Owes(p, w))
      BY <1>1, <1>2, <2>2
    <3> QED  BY <1>1, <3>1, <3>2, <3>3 DEF InOrderOnce, NoneIsAhead
  <2>4. CASE w = v /\ p = q
    <3>1. PICK n \in Nat : n = Len(got[w])
      BY <2>2, <2>4, AppendFrom
    <3>2. /\ \A i \in 1..n : got'[w][i] = got[w][i]
          /\ got'[w][n + 1] = <<p, event[p]>>
          /\ From(w, p)' = From(w, p) \cup {n + 1}
      BY <2>2, <2>4, <3>1, AppendFrom
    <3>3. From(w, p) \subseteq 1..n /\ got'[w][n + 1][2] = event[p]
      BY <3>1, <3>2 DEF From
    <3>4. Owes(p, w)
      BY <2>1, <2>4 DEF Owes
    <3>5. ~Owes(p, w)'
      <4>1. (pending'[p] \cup {to'[p]}) \ {NoWatcher} = pending[p]
        BY <2>2, <2>4, GoOnFields
      <4> QED  BY <2>2, <2>4, <4>1 DEF Owes
    <3>6. \A i \in From(w, p) : got'[w][i][2] = got[w][i][2] /\ got[w][i][2] <= event[p] - 1
      BY <3>2, <3>3, <3>4 DEF NoneIsAhead
    <3>7. \A i \in From(w, p)' : got'[w][i][2] <= event[p]
      BY <1>1, <3>2, <3>3, <3>6
    <3>8. ASSUME NEW i \in From(w, p)', NEW j \in From(w, p)', i < j
          PROVE  got'[w][i][2] < got'[w][j][2]
      <4>1. i \in From(w, p) /\ i \in 1..n
        BY <3>2, <3>3, <3>8
      <4>2. CASE j \in From(w, p)
        BY <3>6, <3>8, <4>1, <4>2 DEF InOrderOnce
      <4>3. CASE j = n + 1
        BY <1>1, <3>3, <3>6, <4>1, <4>3
      <4> QED  BY <3>2, <4>2, <4>3
    <3> QED  BY <2>2, <3>5, <3>7, <3>8
  <2> QED  BY <2>3, <2>4
<1> QED  BY <1>3, <1>4, OnlySendDelivers

-----------------------------------------------------------------------------
(* Who waits for whom.                                                     *)

\* A channel stays closed, and that it is ends the loop that receives from it.
LEMMA EndedInd == TypeOK /\ EndedIsClosed /\ [Next]_vars => EndedIsClosed'
<1> SUFFICES ASSUME TypeOK, EndedIsClosed, [Next]_vars,
                    NEW v \in Watchers, rpc'[v] = "ended"
             PROVE  v \in closed'
  BY DEF EndedIsClosed
<1>1. /\ rpc \in [Watchers -> {"off", "receiving", "handling", "gone", "ended"}]
      /\ to \in [Publishers -> Watchers \cup {NoWatcher}]
  BY DEF TypeOK, TableOK
<1>2. closed \subseteq closed' /\ (rpc'[v] = "ended" => rpc[v] = "ended" \/ v \in closed)
  <2>1. CASE UNCHANGED vars
    BY <2>1 DEF vars, tableVars, receiveVars
  <2>2. ASSUME NEW w \in Watchers, WatcherStep(w)
        PROVE  closed \subseteq closed' /\ (rpc'[v] = "ended" => rpc[v] = "ended" \/ v \in closed)
    <3>1. CASE Listen(w) \/ Lock(w)
      BY <3>1 DEF Listen, Lock, ReadCounter, WriteCounter, TakeID, Register, LockToListen,
                  LockToClose, receiveVars
    <3>2. CASE Close(w)
      BY <3>2 DEF Close
    <3>3. CASE Loop(w)
      BY <1>1, <3>3 DEF Loop, Receive, Handled, RangeEnds
    <3>4. CASE Leave(w)
      BY <1>1, <3>4 DEF Leave, SendFails, Cancel
    <3> QED  BY <2>2, <3>1, <3>2, <3>3, <3>4 DEF WatcherStep
  <2>3. ASSUME NEW p \in Publishers, Publish(p)
        PROVE  closed \subseteq closed' /\ (rpc'[v] = "ended" => rpc[v] = "ended" \/ v \in closed)
    <3>1. CASE Send(p)
      BY <1>1, <3>1 DEF Send, Deliver
    <3>2. CASE RLockToPublish(p) \/ StartRange(p) \/ RUnlock(p)
      BY <3>2 DEF RLockToPublish, StartRange, RUnlock, receiveVars
    <3> QED  BY <2>3, <3>1, <3>2 DEF Publish
  <2> QED  BY <2>1, <2>2, <2>3 DEF Next
<1> QED  BY <1>2 DEF EndedIsClosed

\* The context of Start is never done, and so its channel is never closed.
LEMMA StarterInd ==
  IndInv /\ StarterReceives /\ [Next]_vars => StarterReceives'
<1> SUFFICES ASSUME IndInv, StarterReceives, [Next]_vars PROVE StarterReceives'
  OBVIOUS
<1>1. /\ rpc \in [Watchers -> {"off", "receiving", "handling", "gone", "ended"}]
      /\ to \in [Publishers -> Watchers \cup {NoWatcher}]
      /\ Starter \notin closed
  BY DEF IndInv, TypeOK, TableOK
<1>2. CASE UNCHANGED vars
  BY <1>2 DEF vars, tableVars, receiveVars, StarterReceives
<1>3. ASSUME NEW w \in Watchers, WatcherStep(w)
      PROVE  StarterReceives'
  <2>1. CASE Listen(w) \/ Lock(w) \/ Close(w)
    BY <2>1 DEF Listen, Lock, ReadCounter, WriteCounter, TakeID, Register, LockToListen,
                LockToClose, Close, receiveVars, StarterReceives
  <2>2. CASE Loop(w)
    BY <1>1, <2>2 DEF Loop, Receive, Handled, RangeEnds, StarterReceives
  <2>3. CASE Leave(w)
    BY <1>1, <2>3 DEF Leave, SendFails, Cancel, StarterReceives
  <2> QED  BY <1>3, <2>1, <2>2, <2>3 DEF WatcherStep
<1>4. ASSUME NEW p \in Publishers, Publish(p)
      PROVE  StarterReceives'
  <2>1. CASE Send(p)
    BY <1>1, <2>1 DEF Send, Deliver, StarterReceives
  <2>2. CASE RLockToPublish(p) \/ StartRange(p) \/ RUnlock(p)
    BY <2>2 DEF RLockToPublish, StartRange, RUnlock, receiveVars, StarterReceives
  <2> QED  BY <1>4, <2>1, <2>2 DEF Publish
<1> QED  BY <1>2, <1>3, <1>4 DEF Next

\* A publisher that can go no further is parked, or sends to a watcher in the
\* table, whose receiving end is gone: it would receive, or be about to, if it
\* were not.
LEMMA WaitingPublisher ==
  ASSUME IndInv, EndedIsClosed, \A w \in Watchers : ~GoesOn(w),
         NEW p \in Publishers, ~PublishGoesOn(p), ppc[p] # "idle",
         to[p] = NoWatcher \/ rpc[to[p]] # "gone"
  PROVE  p \in mu.parked /\ p \notin mu.readers
<1>1. /\ ppc[p] \in {"idle", "locking", "sending"}
      /\ p \in mu.readers \cup mu.parked
  BY DEF IndInv, TypeOK, PublishersRead
<1>2. CASE ppc[p] = "locking"
  BY <1>1, <1>2 DEF PublishGoesOn, RW!Reads
<1>3. CASE ppc[p] = "sending"
  <2>1. to[p] # NoWatcher /\ to[p] \in Registered
    BY <1>3 DEF PublishGoesOn, IndInv, PublishersRead
  <2>2. PICK w \in Watchers : w = to[p]
    BY <2>1, RegisteredWatch
  <2>3. lpc[w] \in {"listening", "closing"} /\ w \notin closed
    BY <2>1, <2>2 DEF IndInv, TableInv, ListenersListen, Registered
  <2>4. rpc[w] \in {"off", "receiving", "handling", "gone", "ended"}
    BY DEF IndInv, TypeOK, TableOK
  <2>5. rpc[w] \in {"off", "handling"} => GoesOn(w)
    BY <2>3 DEF GoesOn, ReceivesOn
  <2>6. rpc[w] # "ended"
    BY <2>3 DEF EndedIsClosed
  <2>7. rpc[w] # "receiving"
    BY <2>1, <2>2 DEF PublishGoesOn
  <2> QED  BY <2>1, <2>2, <2>4, <2>5, <2>6, <2>7
<1> QED  BY <1>1, <1>2, <1>3

\* What holds where nobody can go on.
LEMMA NobodyGoesOn ==
  ASSUME IndInv, EndedIsClosed, \A w \in Watchers : ~GoesOn(w),
         \A p \in Publishers : ~PublishGoesOn(p)
  PROVE  OnlyGoneHoldUp
<1> SUFFICES ASSUME \A p \in Publishers : to[p] = NoWatcher \/ rpc[to[p]] # "gone"
             PROVE  /\ mu = RW!Free
                    /\ \A p \in Publishers : ppc[p] = "idle"
                    /\ \A w \in Watchers :
                         \/ lpc[w] = "new"
                         \/ lpc[w] = "listening" /\ w \notin cancelled
                         \/ lpc[w] = "closed" /\ rpc[w] \in {"ended", "gone"}
  BY DEF OnlyGoneHoldUp
<1>1. mu \in Locks
  BY DEF IndInv, TypeOK, TableOK, Locks
<1>2. mu.readers = {}
  <2> SUFFICES ASSUME NEW p \in Publishers, p \in mu.readers PROVE FALSE
    BY <1>1 DEF Locks
  <2> QED  BY WaitingPublisher DEF IndInv, PublishersRead
<1>3. mu.writer = NoGoroutine
  <2> SUFFICES ASSUME NEW w \in Watchers, mu.writer = w PROVE FALSE
    BY <1>1 DEF Locks
  <2>1. lpc[w] \in {"registering", "closing"}
    BY DEF IndInv, TableInv, ChangersHoldLock
  <2> QED  BY <1>2, <2>1 DEF GoesOn, ListensOn, RW!Writes
<1>4. mu.parked = {}
  BY <1>3 DEF IndInv, TableInv, ParkedBehindWriter
<1>5. mu = RW!Free
  BY <1>1, <1>2, <1>3, <1>4 DEF Locks, RW!Free
<1>6. \A p \in Publishers : ppc[p] = "idle"
  BY <1>2, <1>4 DEF IndInv, PublishersRead
<1>7. ASSUME NEW w \in Watchers
      PROVE  \/ lpc[w] = "new"
             \/ lpc[w] = "listening" /\ w \notin cancelled
             \/ lpc[w] = "closed" /\ rpc[w] \in {"ended", "gone"}
  <2>1. /\ lpc[w] \in {"new", "counting", "counted", "locking",
                        "registering", "listening", "closing", "closed"}
        /\ rpc[w] \in {"off", "receiving", "handling", "gone", "ended"}
    BY DEF IndInv, TypeOK, TableOK
  <2>2. lpc[w] \notin {"registering", "closing"}
    BY <1>3, TableAssumption DEF IndInv, TableInv, ChangersHoldLock
  <2>3. lpc[w] \notin {"counting", "counted", "locking"}
    BY <1>3 DEF GoesOn, ListensOn, RW!CanAnnounce
  <2>4. CASE lpc[w] = "listening"
    BY <1>3, <2>4 DEF GoesOn, RW!CanAnnounce
  <2>5. CASE lpc[w] = "closed"
    <3>1. w \in closed
      BY <2>5 DEF IndInv, TableInv, ListenersListen
    <3> QED  BY <2>1, <2>5, <3>1 DEF GoesOn, ReceivesOn
  <2> QED  BY <2>1, <2>2, <2>3, <2>4, <2>5
<1> QED  BY <1>5, <1>6, <1>7

-----------------------------------------------------------------------------

\* Table, lock, counter, the calls of listen and those of publish hang
\* together as IndInv says, whatever the order of their steps.
THEOREM Inductive == Spec => []IndInv
<1> QED  BY InitInd, NextInd, PTL DEF Spec

\* The types are right.
THEOREM TypeCorrect == Spec => []TypeOK
<1>1. IndInv => TypeOK
  BY DEF IndInv
<1> QED  BY <1>1, Inductive, PTL

\* publish never sends on a closed channel: what it still has to send to is in
\* the table, and what is closed is not.
THEOREM ClosedIsNotSentTo == Spec => []NoSendOnClosed
<1>1. IndInv => NoSendOnClosed
  <2> SUFFICES ASSUME IndInv PROVE NoSendOnClosed
    OBVIOUS
  <2>1. Registered \cap closed = {}
    BY DEF IndInv, TableInv, ListenersListen, Registered
  <2>2. NoWatcher \notin closed
    BY DEF IndInv, TypeOK, TableOK
  <2> QED  BY <2>1, <2>2 DEF IndInv, PublishersRead, NoSendOnClosed
<1> QED  BY <1>1, Inductive, PTL

\* A watcher that shares its ID with nobody misses no event from its first one
\* on.
THEOREM EventsWithoutGap == Spec => []NoGap
<1>1. IndInv => NoGap
  BY DEF IndInv
<1> QED  BY <1>1, Inductive, PTL

\* Only a namesake can put a watcher that listens out of the table.
THEOREM OnlyNamesakesDrop == Spec => []DroppedOnlyByNamesake
<1>1. IndInv => DroppedOnlyByNamesake
  BY DEF IndInv
<1> QED  BY <1>1, Inductive, PTL
\* No watcher gets an event twice or out of order, even if another call of
\* listen has taken the same ID.
THEOREM EventsInOrderOnce == Spec => [](InOrderOnce /\ NoneIsAhead)
<1>1. Init => InOrderOnce /\ NoneIsAhead
  BY DEF Init, TableInit, InOrderOnce, NoneIsAhead, From
<1> QED  BY <1>1, Inductive, OrderInd, PTL DEF Spec

\* Whatever the order of their steps, publishers, watchers and the lock do not
\* come to wait for each other in a circle: only a watcher whose Send has failed
\* can hold the others up.  This is what PublishReturns and CancelEndsSubscribe
\* rest on, whatever is scheduled when.
THEOREM OnlyFailedSendsBlock == Spec => []OnlyGoneHoldUp
<1>1. Init => EndedIsClosed
  BY DEF Init, TableInit, EndedIsClosed
<1>2. IndInv => TypeOK
  BY DEF IndInv
<1>3. IndInv /\ EndedIsClosed => OnlyGoneHoldUp
  BY NobodyGoesOn DEF OnlyGoneHoldUp
<1> QED  BY <1>1, <1>2, <1>3, Inductive, EndedInd, PTL DEF Spec
=============================================================================
