------------------------- MODULE RaftEventListener -------------------------
(***************************************************************************)
(* The fan-out of Raft events on a node: pkg/storage/events.go.            *)
(*                                                                         *)
(* Raft calls the callbacks of raftEventListener, each of which publishes  *)
(* one event to every registered channel.  The channels are unbuffered, so *)
(* publish waits for each receiver in turn, and it holds the read lock of  *)
(* the listener while it does.  The receivers are the goroutine that       *)
(* Protocol.Start leaves behind, which never goes away, and one Subscribe  *)
(* call per remote watcher, which ends when its client does.               *)
(***************************************************************************)
EXTENDS ListenerTable

CONSTANTS Publishers,   \* goroutines of Raft that call the callbacks
          Starter,      \* the watcher that Protocol.Start makes
          MaxEvents     \* bound on the events of one publisher

ASSUME WatchersAssumption == /\ Starter \in Watchers
                             /\ NoGoroutine \notin Publishers
                             /\ Publishers \cap Watchers = {}
                             /\ MaxEvents \in Nat

VARIABLES
  ppc,         \* ppc[p]: where publish is
  event,       \* event[p]: how many events p has published, this one included
  to,          \* to[p]: the channel publish is sending to, or NoWatcher
  pending      \* pending[p]: the channels it has to send to after that one

publishVars == <<ppc, event, to, pending>>
vars == <<tableVars, publishVars>>

Init ==
  /\ TableInit
  /\ ppc = [p \in Publishers |-> "idle"]
  /\ event = [p \in Publishers |-> 0]
  /\ to = [p \in Publishers |-> NoWatcher]
  /\ pending = [p \in Publishers |-> {}]

-----------------------------------------------------------------------------
(* raftEventListener.listen, EventServer.Subscribe, and the loop in Start. *)

Listen(w) == ReadCounter(w) \/ WriteCounter(w) \/ TakeID(w) \/ Register(w)
Lock(w)   == LockToListen(w) \/ LockToClose(w)
Loop(w)   == Receive(w) \/ Handled(w) \/ RangeEnds(w)

\* A remote watcher may fail to send to its client, or lose it.  The context
\* of Start is never done, and its loop never ends.
Leave(w) == w # Starter /\ (SendFails(w) \/ Cancel(w))

WatcherStep(w) == Listen(w) \/ Lock(w) \/ Close(w) \/ Loop(w) \/ Leave(w)

-----------------------------------------------------------------------------
(* raftEventListener.publish, which every callback of Raft ends in.        *)

\* Raft runs from NewNodeHost on, which Start comes to once it listens.
RLockToPublish(p) ==
  /\ lpc[Starter] = "listening"
  /\ ppc[p] = "idle"
  /\ event[p] < MaxEvents
  /\ event' = [event EXCEPT ![p] = @ + 1]
  /\ mu' = RW!RLock(mu, p)
  /\ ppc' = [ppc EXCEPT ![p] = "locking"]
  /\ UNCHANGED <<listeners, listenVars, receiveVars, to, pending>>

\* The loop goes on with one of the channels in S, in no particular order.
GoOnWith(p, S) ==
  \E w \in IF S = {} THEN {NoWatcher} ELSE S :
    /\ to' = [to EXCEPT ![p] = w]
    /\ pending' = [pending EXCEPT ![p] = S \ {w}]

StartRange(p) ==
  /\ ppc[p] = "locking"
  /\ RW!Reads(mu, p)
  /\ GoOnWith(p, Registered)
  /\ ppc' = [ppc EXCEPT ![p] = "sending"]
  /\ UNCHANGED <<mu, listeners, listenVars, receiveVars, event>>

\* Mutant: a receiver that is busy is passed over.
SendOrSkip(p) ==
  /\ to[p] # NoWatcher
  /\ \/ Deliver(to[p], <<p, event[p]>>)
     \/ rpc[to[p]] # "receiving" /\ UNCHANGED <<got, rpc>>
  /\ GoOnWith(p, pending[p])
  /\ UNCHANGED <<mu, listeners, listenVars, cancelled, closed, ppc, event>>

\* The loop waits for the receiver it has come to even if others are ready.
Send(p) ==
  /\ to[p] # NoWatcher
  /\ Deliver(to[p], <<p, event[p]>>)
  /\ GoOnWith(p, pending[p])
  /\ UNCHANGED <<mu, listeners, listenVars, cancelled, closed, ppc, event>>

\* Mutant: the read lock is kept.
KeepRLock(p) ==
  /\ ppc[p] = "sending"
  /\ to[p] = NoWatcher
  /\ ppc' = [ppc EXCEPT ![p] = "idle"]
  /\ UNCHANGED <<mu, listeners, listenVars, receiveVars, event, to, pending>>

RUnlock(p) ==
  /\ ppc[p] = "sending"
  /\ to[p] = NoWatcher
  /\ mu' = RW!RUnlock(mu, p)
  /\ ppc' = [ppc EXCEPT ![p] = "idle"]
  /\ UNCHANGED <<listeners, listenVars, receiveVars, event, to, pending>>

Publish(p) == RLockToPublish(p) \/ StartRange(p) \/ Send(p) \/ RUnlock(p)

-----------------------------------------------------------------------------

Next == \/ \E w \in Watchers : WatcherStep(w) /\ UNCHANGED publishVars
        \/ \E p \in Publishers : Publish(p)

Spec == Init /\ [][Next]_vars

\* Goroutines that can run do run, and sync.RWMutex lets every writer in in
\* the end.  That Raft has events, that watchers come, that clients go away
\* and that a Send fails is not assumed.
Fairness ==
  /\ \A w \in Watchers :
       LET Runs(A) == A /\ UNCHANGED publishVars IN
       /\ WF_vars(Runs(WriteCounter(w) \/ TakeID(w) \/ Register(w) \/ Close(w)))
       /\ WF_vars(Runs(Loop(w)))
       /\ SF_vars(Runs(Lock(w)))
  /\ \A p \in Publishers : WF_vars(StartRange(p) \/ Send(p) \/ RUnlock(p))

FairSpec == Spec /\ Fairness

-----------------------------------------------------------------------------
(* Properties                                                              *)

\* The state is of the expected shape; Start never leaves.
TypeOK ==
  /\ TableOK(Publishers, Watchers, Publishers \X (1..MaxEvents))
  /\ Starter \notin cancelled
  /\ ppc \in [Publishers -> {"idle", "locking", "sending"}]
  /\ event \in [Publishers -> 0..MaxEvents]
  /\ to \in [Publishers -> Watchers \cup {NoWatcher}]
  /\ pending \in [Publishers -> SUBSET Watchers]

\* publish never sends on a closed channel, which would bring the node down,
\* although watchers come and go while it sends and two of them may be
\* registered under the same ID.
NoSendOnClosed ==
  /\ \A p \in Publishers : (pending[p] \cup {to[p]}) \cap closed = {}
  /\ Registered \cap closed = {}

\* The places of the events of p among those w has received.
From(w, p) == {i \in 1..Len(got[w]) : got[w][i][1] = p}

\* A watcher that shares its ID with nobody gets the events of a publisher in
\* the order of their publication, from its first one on without a gap and,
\* while it listens, up to the last one that publish is done with, however
\* slow the watcher is.
NoGap ==
  \A w \in Watchers, p \in Publishers : AloneUnderID(w) =>
    /\ \A i, j \in From(w, p) :
         i < j /\ From(w, p) \cap (i + 1..j - 1) = {} => got[w][j][2] = got[w][i][2] + 1
    /\ lpc[w] = "listening" /\ ppc[p] = "idle" =>
         \A i \in From(w, p) : (\A j \in From(w, p) : j <= i) => got[w][i][2] = event[p]

\* publish returns, unless some Send has failed.
PublishReturns ==
  \A p \in Publishers :
    ppc[p] # "idle" ~> ppc[p] = "idle" \/ \E w \in Watchers : rpc[w] = "gone"

\* A watcher whose client has gone away is closed and its Subscribe returns,
\* unless some Send has failed.
CancelEndsSubscribe ==
  \A w \in Watchers \ {Starter} :
    w \in cancelled /\ lpc[w] = "listening"
      ~> rpc[w] = "ended" \/ \E v \in Watchers : rpc[v] = "gone"

\* protocol.go says of Start's listener that it is there "to wait for a leader
\* to be elected": every event that Raft publishes should reach it, if its ID
\* is its own.  This does NOT hold: a Send that fails can leave publish
\* blocked on a channel that nobody receives from.
StartHears ==
  \A p \in Publishers, n \in 1..MaxEvents :
    ppc[p] = "locking" /\ event[p] = n
      ~> \/ \E i \in 1..Len(got[Starter]) : got[Starter][i] = <<p, n>>
         \/ ~AloneUnderID(Starter)

\* A watcher that listens is in the table until its client goes away, unless
\* it shares its ID: a call of listen that overlaps with another one can take
\* the same ID, and then one of the two gets no events, or is thrown out when
\* the other one is cancelled.
DroppedOnlyByNamesake ==
  \A w \in Watchers :
    lpc[w] \in {"listening", "closing"} /\ AloneUnderID(w) => w \in Registered

\* A publisher holds the read lock, or is parked, until it is done, and goes
\* through what is in the table.
PublishersRead ==
  \A p \in Publishers :
    /\ p \in mu.readers \cup mu.parked <=> ppc[p] # "idle"
    /\ ppc[p] = "sending" => p \in mu.readers
    /\ ppc[p] # "sending" => to[p] = NoWatcher
    /\ pending[p] \subseteq Registered /\ to[p] \in Registered \cup {NoWatcher}
    /\ to[p] \notin pending[p]
    /\ to[p] = NoWatcher => pending[p] = {}
    /\ ppc[p] # "idle" => event[p] > 0

\* publish of p has still to send its event to w.
Owes(p, w) == ppc[p] = "locking" \/ w \in pending[p] \cup {to[p]}

\* The last event of p that a watcher in the table has is the latest one, or
\* the one before while publish owes him that.
NoneIsMissed ==
  \A w \in Watchers, p \in Publishers :
    AloneUnderID(w) /\ lpc[w] \in {"listening", "closing"} =>
      \A i \in From(w, p) : (\A j \in From(w, p) : j <= i) =>
        got[w][i][2] = IF Owes(p, w) THEN event[p] - 1 ELSE event[p]

\* No watcher, alone under its ID or not, gets an event twice, or two events of
\* a publisher in the wrong order.
InOrderOnce ==
  \A w \in Watchers, p \in Publishers :
    \A i, j \in From(w, p) : i < j => got[w][i][2] < got[w][j][2]

\* No watcher has an event that publish has still to send to it.
NoneIsAhead ==
  \A w \in Watchers, p \in Publishers : \A i \in From(w, p) :
    got[w][i][2] <= IF Owes(p, w) THEN event[p] - 1 ELSE event[p]

\* Start never stops receiving.
StarterReceives == rpc[Starter] \in {"off", "receiving", "handling"}

\* How table, lock and counter hang together with the calls of listen and
\* publish, and what follows for who gets what.
IndInv == /\ TypeOK
          /\ TableInv
          /\ PublishersRead
          /\ NoneIsMissed
          /\ NoGap
          /\ DroppedOnlyByNamesake
\* A goroutine of w has a step to take that needs neither Raft nor the client.
GoesOn(w) == \/ ListensOn(w)
             \/ ReceivesOn(w)
             \/ lpc[w] = "listening" /\ w \in cancelled /\ RW!CanAnnounce(mu)

\* The same of a publisher that has an event to publish.
PublishGoesOn(p) ==
  \/ ppc[p] = "locking" /\ RW!Reads(mu, p)
  \/ to[p] # NoWatcher /\ rpc[to[p]] = "receiving"
  \/ ppc[p] = "sending" /\ to[p] = NoWatcher

\* Publishers, watchers and the lock wait for each other only behind a watcher
\* whose Send has failed: where nobody can go on, some publish is sending to
\* such a watcher, or all is done, every call of publish has returned, the lock
\* is free, and whoever was cancelled is closed and no longer received for.
OnlyGoneHoldUp ==
  (\A w \in Watchers : ~GoesOn(w)) /\ (\A p \in Publishers : ~PublishGoesOn(p)) =>
    \/ \E p \in Publishers : to[p] # NoWatcher /\ rpc[to[p]] = "gone"
    \/ /\ mu = RW!Free
       /\ \A p \in Publishers : ppc[p] = "idle"
       /\ \A w \in Watchers :
            \/ lpc[w] = "new"
            \/ lpc[w] = "listening" /\ w \notin cancelled
            \/ lpc[w] = "closed" /\ rpc[w] \in {"ended", "gone"}
=============================================================================
