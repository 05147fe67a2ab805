---------------------------- MODULE ListenerTable ----------------------------
(***************************************************************************)
(* A table of channels, how a watcher gets into it and out of it again.    *)
(*                                                                         *)
(* raftEventListener (pkg/storage/events.go) and Partition (partition.go)  *)
(* keep the same table in the same way: a map from IDs to unbuffered       *)
(* channels under an RWMutex, a counter of IDs that no lock protects, and  *)
(* a goroutine per watcher that closes its channel once the watcher's      *)
(* context is done.  RaftEventListener and PartitionConfig extend this     *)
(* module with what is sent to the channels.                               *)
(***************************************************************************)
EXTENDS Naturals, Sequences, FiniteSets

CONSTANTS Watchers,     \* the calls of listen, each with its own channel
          NoGoroutine,
          NoWatcher     \* no channel under an ID

ASSUME TableAssumption == /\ NoWatcher \notin Watchers
                          /\ NoGoroutine \notin Watchers
                          /\ IsFiniteSet(Watchers)

VARIABLES
  mu,          \* the lock
  listeners,   \* listeners[i]: the channel registered under i
  listenerID,  \* the counter
  lpc,         \* lpc[w]: where listen, and then its goroutine, is
  read,        \* read[w]: the listenerID that "listenerID++" has read
  id,          \* id[w]: the ID listen took
  cancelled,   \* the watchers whose context is done
  closed,      \* the channels that are closed
  rpc,         \* rpc[w]: where the receiving end is
  got          \* got[w]: what it has received

listenVars  == <<listenerID, lpc, read, id>>
receiveVars == <<cancelled, closed, rpc, got>>
tableVars   == <<mu, listeners, listenVars, receiveVars>>

RW == INSTANCE GoRWMutex

IDs(Calls) == 1..Cardinality(Calls)
Registered == {listeners[i] : i \in IDs(Watchers)} \ {NoWatcher}

TableInit ==
  /\ mu = RW!Free
  /\ listeners = [i \in IDs(Watchers) |-> NoWatcher]
  /\ listenerID = 0
  /\ lpc = [w \in Watchers |-> "new"]
  /\ read = [w \in Watchers |-> 0]
  /\ id = [w \in Watchers |-> 0]
  /\ cancelled = {}
  /\ closed = {}
  /\ rpc = [w \in Watchers |-> "off"]
  /\ got = [w \in Watchers |-> <<>>]

-----------------------------------------------------------------------------
(* listen.  The ID is counted and taken without the lock: "listenerID++"   *)
(* is a read and a write, and the counter is read once more for the ID.    *)

ReadCounter(w) ==
  /\ lpc[w] = "new"
  /\ read' = [read EXCEPT ![w] = listenerID]
  /\ lpc' = [lpc EXCEPT ![w] = "counting"]
  /\ UNCHANGED <<mu, listeners, listenerID, id, receiveVars>>

WriteCounter(w) ==
  /\ lpc[w] = "counting"
  /\ listenerID' = read[w] + 1
  /\ lpc' = [lpc EXCEPT ![w] = "counted"]
  /\ UNCHANGED <<mu, listeners, read, id, receiveVars>>

TakeID(w) ==
  /\ lpc[w] = "counted"
  /\ id' = [id EXCEPT ![w] = listenerID]
  /\ lpc' = [lpc EXCEPT ![w] = "locking"]
  /\ UNCHANGED <<mu, listeners, listenerID, read, receiveVars>>

LockToListen(w) ==
  /\ lpc[w] = "locking"
  /\ RW!CanAnnounce(mu)
  /\ mu' = RW!Announce(mu, w)
  /\ lpc' = [lpc EXCEPT ![w] = "registering"]
  /\ UNCHANGED <<listeners, listenerID, read, id, receiveVars>>

Register(w) ==
  /\ lpc[w] = "registering"
  /\ RW!Writes(mu, w)
  /\ listeners' = [listeners EXCEPT ![id[w]] = w]
  /\ mu' = RW!Unlock(mu)
  /\ lpc' = [lpc EXCEPT ![w] = "listening"]
  /\ UNCHANGED <<listenerID, read, id, receiveVars>>

\* Mutant: the goroutine does not wait for the context.
LockToCloseAtOnce(w) ==
  /\ lpc[w] = "listening"
  /\ RW!CanAnnounce(mu)
  /\ mu' = RW!Announce(mu, w)
  /\ lpc' = [lpc EXCEPT ![w] = "closing"]
  /\ UNCHANGED <<listeners, listenerID, read, id, receiveVars>>

\* The goroutine that listen starts: once the context is done it takes the
\* lock, closes the channel and removes what is registered under its ID.
LockToClose(w) ==
  /\ lpc[w] = "listening"
  /\ w \in cancelled
  /\ RW!CanAnnounce(mu)
  /\ mu' = RW!Announce(mu, w)
  /\ lpc' = [lpc EXCEPT ![w] = "closing"]
  /\ UNCHANGED <<listeners, listenerID, read, id, receiveVars>>

\* Mutant: the channel is closed and stays registered.
CloseOnly(w) ==
  /\ lpc[w] = "closing"
  /\ RW!Writes(mu, w)
  /\ closed' = closed \cup {w}
  /\ mu' = RW!Unlock(mu)
  /\ lpc' = [lpc EXCEPT ![w] = "closed"]
  /\ UNCHANGED <<listeners, listenerID, read, id, cancelled, rpc, got>>

\* Mutant: the lock is not released.
CloseKeepLock(w) ==
  /\ lpc[w] = "closing"
  /\ RW!Writes(mu, w)
  /\ closed' = closed \cup {w}
  /\ listeners' = [listeners EXCEPT ![id[w]] = NoWatcher]
  /\ lpc' = [lpc EXCEPT ![w] = "closed"]
  /\ UNCHANGED <<mu, listenerID, read, id, cancelled, rpc, got>>

\* Mutant: what is removed is registered under the newest ID.
CloseNewest(w) ==
  /\ lpc[w] = "closing"
  /\ RW!Writes(mu, w)
  /\ closed' = closed \cup {w}
  /\ listeners' = [listeners EXCEPT ![listenerID] = NoWatcher]
  /\ mu' = RW!Unlock(mu)
  /\ lpc' = [lpc EXCEPT ![w] = "closed"]
  /\ UNCHANGED <<listenerID, read, id, cancelled, rpc, got>>

Close(w) ==
  /\ lpc[w] = "closing"
  /\ RW!Writes(mu, w)
  /\ closed' = closed \cup {w}
  /\ listeners' = [listeners EXCEPT ![id[w]] = NoWatcher]
  /\ mu' = RW!Unlock(mu)
  /\ lpc' = [lpc EXCEPT ![w] = "closed"]
  /\ UNCHANGED <<listenerID, read, id, cancelled, rpc, got>>

-----------------------------------------------------------------------------
(* The receiving ends.                                                     *)

\* listen has returned; the loop over the channel begins.
Receive(w) ==
  /\ rpc[w] = "off"
  /\ lpc[w] \in {"listening", "closing", "closed"}
  /\ rpc' = [rpc EXCEPT ![w] = "receiving"]
  /\ UNCHANGED <<mu, listeners, listenVars, cancelled, closed, got>>

\* What was received has been dealt with: sent to the client, say.
Handled(w) ==
  /\ rpc[w] = "handling"
  /\ rpc' = [rpc EXCEPT ![w] = "receiving"]
  /\ UNCHANGED <<mu, listeners, listenVars, cancelled, closed, got>>

\* stream.Send returns an error and so does the receiver's call: nobody
\* receives from the channel any more, and the server ends the call's context.
SendFails(w) ==
  /\ rpc[w] = "handling"
  /\ rpc' = [rpc EXCEPT ![w] = "gone"]
  /\ cancelled' = cancelled \cup {w}
  /\ UNCHANGED <<mu, listeners, listenVars, closed, got>>

\* The channel is closed: the receiver's call returns.
RangeEnds(w) ==
  /\ rpc[w] = "receiving"
  /\ w \in closed
  /\ rpc' = [rpc EXCEPT ![w] = "ended"]
  /\ UNCHANGED <<mu, listeners, listenVars, cancelled, closed, got>>

\* The client goes away (external).
Cancel(w) ==
  /\ lpc[w] # "new"
  /\ w \notin cancelled
  /\ cancelled' = cancelled \cup {w}
  /\ UNCHANGED <<mu, listeners, listenVars, closed, rpc, got>>

\* A send on the channel of w and its receipt: the channels are unbuffered.
Deliver(w, message) ==
  /\ rpc[w] = "receiving"
  /\ got' = [got EXCEPT ![w] = Append(@, message)]
  /\ rpc' = [rpc EXCEPT ![w] = "handling"]

-----------------------------------------------------------------------------

AloneUnderID(w) == \A v \in Watchers \ {w} : id[v] # id[w]

\* What is in the table listens, under its own ID; what is closed has been
\* cancelled, and what has received anything has been in the table.
ListenersListen ==
  /\ \A i \in IDs(Watchers) : listeners[i] # NoWatcher =>
       /\ id[listeners[i]] = i
       /\ lpc[listeners[i]] \in {"listening", "closing"}
  /\ closed = {w \in Watchers : lpc[w] = "closed"}
  /\ \A w \in Watchers :
       /\ lpc[w] \in {"closing", "closed"} => w \in cancelled
       /\ rpc[w] = "off" => got[w] = <<>>
       /\ rpc[w] # "off" => lpc[w] \in {"listening", "closing", "closed"}

Counted == {w \in Watchers : lpc[w] \notin {"new", "counting"}}

\* There are no more IDs than watchers who have counted, and a watcher who has
\* taken an ID has not taken 0.
IDsAreCounted ==
  /\ listenerID <= Cardinality(Counted)
  /\ Counted # {} => listenerID > 0
  /\ \A w \in Watchers :
       /\ read[w] <= Cardinality(Counted)
       /\ id[w] <= Cardinality(Counted)
       /\ id[w] = 0 <=> lpc[w] \in {"new", "counting", "counted"}

\* Whoever is about to change the table has announced himself.
ChangersHoldLock ==
  \A w \in Watchers : mu.writer = w <=> lpc[w] \in {"registering", "closing"}

\* Nobody waits to read without a writer, or while he reads.
ParkedBehindWriter ==
  /\ mu.writer = NoGoroutine => mu.parked = {}
  /\ mu.readers \cap mu.parked = {}

TableInv == /\ ListenersListen
            /\ IDsAreCounted
            /\ ChangersHoldLock
            /\ ParkedBehindWriter

TableOK(Readers, Writers, Messages) ==
  /\ mu \in [readers : SUBSET Readers, parked : SUBSET Readers,
             writer : Writers \cup {NoGoroutine}]
  /\ listeners \in [IDs(Watchers) -> Watchers \cup {NoWatcher}]
  /\ listenerID \in 0..Cardinality(Watchers)
  /\ lpc \in [Watchers -> {"new", "counting", "counted", "locking",
                           "registering", "listening", "closing", "closed"}]
  /\ read \in [Watchers -> 0..Cardinality(Watchers)]
  /\ id \in [Watchers -> 0..Cardinality(Watchers)]
  /\ cancelled \in SUBSET Watchers
  /\ closed \in SUBSET cancelled
  /\ rpc \in [Watchers -> {"off", "receiving", "handling", "gone", "ended"}]
  /\ got \in [Watchers -> Seq(Messages)]
\* Whose receiving end has ended has been told that the channel is closed.
EndedIsClosed == \A w \in Watchers : rpc[w] = "ended" => w \in closed

\* What listen or its goroutine can do for w, but for waiting for the context.
ListensOn(w) ==
  \/ lpc[w] \in {"counting", "counted"}
  \/ lpc[w] = "locking" /\ RW!CanAnnounce(mu)
  \/ lpc[w] \in {"registering", "closing"} /\ RW!Writes(mu, w)

\* What the receiving end of w can do without a message.
ReceivesOn(w) ==
  \/ rpc[w] = "off" /\ lpc[w] \in {"listening", "closing", "closed"}
  \/ rpc[w] = "handling"
  \/ rpc[w] = "receiving" /\ w \in closed
=============================================================================
