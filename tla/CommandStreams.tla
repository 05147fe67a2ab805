--------------------------- MODULE CommandStreams ---------------------------
(***************************************************************************)
(* How the output of a command finds its caller.                           *)
(*                                                                         *)
(* Partition.SyncCommand registers the caller's stream with the node's     *)
(* streamManager, proposes an Entry that carries the stream's ID, and      *)
(* unregisters the stream when it returns.  The Entry is replicated: the   *)
(* state machine of EVERY node applies it, and looks the ID up in its OWN  *)
(* streamManager (StateMachine.Update).                                    *)
(*                                                                         *)
(* pkg/storage/partition.go, fsm.go and streams.go are modelled action by  *)
(* action.  Raft itself (dragonboat) is external and reduced to one        *)
(* committed log, a position per node, and each node's opinion of whether  *)
(* it leads.                                                               *)
(***************************************************************************)
EXTENDS Naturals, Sequences

CONSTANTS Nodes,         \* the nodes that replicate the partition
          Commands,      \* the SyncCommand calls, each made at most once
          NoNode,        \* "host" of a call that has not been made
          NoStream,      \* the nil stream of the streams package
          MaxStreamID,   \* bound on the stream IDs of one incarnation
          MaxRestarts    \* bound on the crashes

ASSUME BoundsAssumption == MaxStreamID \in Nat /\ MaxRestarts \in Nat

Idle == "idle"           \* no Update is running

ASSUME NamesAssumption == /\ NoNode \notin Nodes
                          /\ NoStream \notin Commands
                          /\ Idle \notin Commands \cup {NoStream}

VARIABLES
  pc,        \* pc[c]: how far the call of SyncCommand for c has come
  host,      \* host[c]: the node that serves the call
  streamID,  \* streamID[c]: the ID addStream returned
  done,      \* the calls whose SyncPropose has its result
  streams,   \* streams[n]: streamManager.streams, NoStream where absent
  nextID,    \* nextID[n]: streamManager.nextID
  target,    \* target[n]: the stream Update has looked up, or Idle
  out,       \* <<s, c>>: the output of c was written to the stream of s
  inflight,  \* entries proposed and not committed; an entry that Raft drops
             \* stays here for good
  log,       \* the committed entries
  applied,   \* applied[n]: how much of the log n's state machine has run
  snapshot,  \* snapshot[n]: how much of it n's latest snapshot covers
  leads,     \* leads[n]: whether n believes that it is the leader
  restarts   \* how many crashes there have been, for the bound

callVars == <<pc, host, streamID, done>>
fsmVars  == <<target, out, applied>>
raftVars == <<inflight, log, snapshot, leads>>
vars == <<callVars, streams, nextID, fsmVars, raftVars, restarts>>

StreamIDs == 1..MaxStreamID
Entries   == [cmd : Commands, id : StreamIDs]

\* The call is between addStream and the deferred removeStream.
Open(c) == pc[c] \in {"registered", "waiting", "succeeded", "failing"}

Entry(c) == [cmd |-> c, id |-> streamID[c]]

\* The entry the state machine of n runs next.
NextEntry(n) == log[applied[n] + 1]

-----------------------------------------------------------------------------

Init ==
  /\ pc = [c \in Commands |-> "idle"]
  /\ host = [c \in Commands |-> NoNode]
  /\ streamID = [c \in Commands |-> 0]
  /\ done = {}
  /\ streams = [n \in Nodes |-> [i \in StreamIDs |-> NoStream]]
  /\ nextID = [n \in Nodes |-> 0]
  /\ target = [n \in Nodes |-> Idle]
  /\ out = {}
  /\ inflight = {}
  /\ log = <<>>
  /\ applied = [n \in Nodes |-> 0]
  /\ snapshot = [n \in Nodes |-> 0]
  /\ leads = [n \in Nodes |-> FALSE]
  /\ restarts = 0

-----------------------------------------------------------------------------
(* Partition.SyncCommand                                                   *)

\* Mutant: the counter of the streamManager is not advanced.
AddStreamSameID(c, n) ==
  /\ pc[c] = "idle"
  /\ leads[n]
  /\ nextID[n] < MaxStreamID
  /\ streamID' = [streamID EXCEPT ![c] = nextID[n] + 1]
  /\ streams' = [streams EXCEPT ![n] = [@ EXCEPT ![nextID[n] + 1] = c]]
  /\ host' = [host EXCEPT ![c] = n]
  /\ pc' = [pc EXCEPT ![c] = "registered"]
  /\ UNCHANGED <<nextID, done, fsmVars, raftVars, restarts>>

\* The partition answers TRUE to MustLeader, so commands are sent to a node
\* whose IsLeader says TRUE; SyncCommand starts by registering the stream.
\* streamManager.addStream: the ID is the node's own counter.
AddStream(c, n) ==
  /\ pc[c] = "idle"
  /\ leads[n]
  /\ nextID[n] < MaxStreamID
  /\ nextID' = [nextID EXCEPT ![n] = @ + 1]
  /\ streamID' = [streamID EXCEPT ![c] = nextID'[n]]
  /\ streams' = [streams EXCEPT ![n] = [@ EXCEPT ![nextID'[n]] = c]]
  /\ host' = [host EXCEPT ![c] = n]
  /\ pc' = [pc EXCEPT ![c] = "registered"]
  /\ UNCHANGED <<done, fsmVars, raftVars, restarts>>

\* SyncPropose hands the entry to Raft and waits for it to be applied here.
Propose(c) ==
  /\ pc[c] = "registered"
  /\ inflight' = inflight \cup {Entry(c)}
  /\ pc' = [pc EXCEPT ![c] = "waiting"]
  /\ UNCHANGED <<host, streamID, done, streams, nextID, fsmVars, log, snapshot,
                 leads, restarts>>

\* Mutant: no timeout; only Raft's refusal ends a call.
CommandFailsAtOnce(c) ==
  /\ pc[c] = "registered"
  /\ pc' = [pc EXCEPT ![c] = "failing"]
  /\ UNCHANGED <<host, streamID, done, streams, nextID, fsmVars, raftVars,
                 restarts>>

\* The call fails: the entry cannot be marshalled or Raft does not take it,
\* or the context ends (after clientTimeout at the latest).  Raft's answer
\* and the end of the context race: the context may win over a result that
\* is already there.
CommandFails(c) ==
  /\ pc[c] \in {"registered", "waiting"}
  /\ pc' = [pc EXCEPT ![c] = "failing"]
  /\ UNCHANGED <<host, streamID, done, streams, nextID, fsmVars, raftVars,
                 restarts>>

\* Mutant: success is reported at the commit.
CommandSucceedsAtCommit(c) ==
  /\ pc[c] = "waiting"
  /\ \E i \in 1..Len(log) : log[i].cmd = c
  /\ pc' = [pc EXCEPT ![c] = "succeeded"]
  /\ UNCHANGED <<host, streamID, done, streams, nextID, fsmVars, raftVars,
                 restarts>>

CommandSucceeds(c) ==
  /\ pc[c] = "waiting"
  /\ c \in done
  /\ pc' = [pc EXCEPT ![c] = "succeeded"]
  /\ UNCHANGED <<host, streamID, done, streams, nextID, fsmVars, raftVars,
                 restarts>>

\* Mutant: a call that fails leaves its stream behind.
RemoveStreamOnSuccess(c) ==
  /\ pc[c] \in {"succeeded", "failing"}
  /\ streams' = IF pc[c] = "failing" THEN streams
                ELSE [streams EXCEPT ![host[c]] =
                        [@ EXCEPT ![streamID[c]] = NoStream]]
  /\ pc' = [pc EXCEPT ![c] = IF @ = "succeeded" THEN "ok" ELSE "failed"]
  /\ UNCHANGED <<host, streamID, done, nextID, fsmVars, raftVars, restarts>>

\* The deferred streamManager.removeStream, and the return.
RemoveStream(c) ==
  /\ pc[c] \in {"succeeded", "failing"}
  /\ streams' = [streams EXCEPT ![host[c]] =
                   [@ EXCEPT ![streamID[c]] = NoStream]]
  /\ pc' = [pc EXCEPT ![c] = IF @ = "succeeded" THEN "ok" ELSE "failed"]
  /\ UNCHANGED <<host, streamID, done, nextID, fsmVars, raftVars, restarts>>

-----------------------------------------------------------------------------
(* StateMachine.Update, called by Raft for one committed entry at a time.  *)
(* The stream that getStream returns is written to after the lock of the   *)
(* streamManager is released: removeStream can come in between.            *)

\* streamManager.getStream
GetStream(n) ==
  /\ target[n] = Idle
  /\ applied[n] < Len(log)
  /\ target' = [target EXCEPT ![n] = streams[n][NextEntry(n).id]]
  /\ UNCHANGED <<callVars, streams, nextID, out, applied, raftVars, restarts>>

\* Mutant: the call whose stream was found is completed, not the proposer's.
RunCommandByStream(n) ==
  /\ target[n] # Idle
  /\ out' = IF target[n] = NoStream
              THEN out ELSE out \cup {<<target[n], NextEntry(n).cmd>>}
  /\ done' = done \cup ({target[n]} \ {NoStream})
  /\ applied' = [applied EXCEPT ![n] = @ + 1]
  /\ target' = [target EXCEPT ![n] = Idle]
  /\ UNCHANGED <<pc, host, streamID, streams, nextID, raftVars, restarts>>

\* s.state.Command writes the output to that stream; Raft then completes the
\* proposal if this node is the one that is waiting for it.  (That an entry
\* cannot be unmarshalled, fsm.go:40-42, is left out: all entries come from
\* SyncCommand, which has marshalled them.)
RunCommand(n) ==
  /\ target[n] # Idle
  /\ out' = IF target[n] = NoStream
              THEN out ELSE out \cup {<<target[n], NextEntry(n).cmd>>}
  /\ done' = IF /\ host[NextEntry(n).cmd] = n
                /\ pc[NextEntry(n).cmd] = "waiting"
               THEN done \cup {NextEntry(n).cmd} ELSE done
  /\ applied' = [applied EXCEPT ![n] = @ + 1]
  /\ target' = [target EXCEPT ![n] = Idle]
  /\ UNCHANGED <<pc, host, streamID, streams, nextID, raftVars, restarts>>

\* StateMachine.SaveSnapshot: the state, and none of the streams.
SaveSnapshot(n) ==
  /\ target[n] = Idle
  /\ applied[n] > snapshot[n]
  /\ snapshot' = [snapshot EXCEPT ![n] = applied[n]]
  /\ UNCHANGED <<callVars, streams, nextID, fsmVars, inflight, log, leads,
                 restarts>>

\* Mutant: a snapshot is installed in the middle of an Update.
RecoverDuringUpdate(n, m) ==
  /\ snapshot[m] > applied[n]
  /\ applied' = [applied EXCEPT ![n] = snapshot[m]]
  /\ snapshot' = [snapshot EXCEPT ![n] = snapshot[m]]
  /\ UNCHANGED <<callVars, streams, nextID, target, out, inflight, log, leads,
                 restarts>>

\* StateMachine.RecoverFromSnapshot on a node that is behind: the entries the
\* snapshot covers never pass through its Update.
RecoverFromSnapshot(n, m) ==
  /\ target[n] = Idle
  /\ snapshot[m] > applied[n]
  /\ applied' = [applied EXCEPT ![n] = snapshot[m]]
  /\ snapshot' = [snapshot EXCEPT ![n] = snapshot[m]]
  /\ UNCHANGED <<callVars, streams, nextID, target, out, inflight, log, leads,
                 restarts>>

-----------------------------------------------------------------------------
(* Raft and the process (external).                                        *)

\* A proposal is committed at most once and in any order with the others, or
\* never.
Commit(e) ==
  /\ e \in inflight
  /\ log' = Append(log, e)
  /\ inflight' = inflight \ {e}
  /\ UNCHANGED <<callVars, streams, nextID, fsmVars, snapshot, leads, restarts>>

\* A node wins an election.  The leader before it goes on believing that it
\* leads until it hears of the new term.
Elect(n) ==
  /\ ~leads[n]
  /\ leads' = [leads EXCEPT ![n] = TRUE]
  /\ UNCHANGED <<callVars, streams, nextID, fsmVars, inflight, log, snapshot,
                 restarts>>

StepDown(n) ==
  /\ leads[n]
  /\ leads' = [leads EXCEPT ![n] = FALSE]
  /\ UNCHANGED <<callVars, streams, nextID, fsmVars, inflight, log, snapshot,
                 restarts>>

\* A crash and the start that follows it: the calls the node served are cut
\* off, fsmFactory makes a streamManager whose IDs start again, and the state
\* machine comes back from the latest snapshot, to run the rest of the log
\* once more.  Entries already handed to Raft stay on their way.
Restart(n) ==
  /\ restarts < MaxRestarts
  /\ restarts' = restarts + 1
  /\ pc' = [c \in Commands |-> IF host[c] = n /\ Open(c) THEN "lost"
                                                          ELSE pc[c]]
  /\ streams' = [streams EXCEPT ![n] = [i \in StreamIDs |-> NoStream]]
  /\ nextID' = [nextID EXCEPT ![n] = 0]
  /\ target' = [target EXCEPT ![n] = Idle]
  /\ applied' = [applied EXCEPT ![n] = snapshot[n]]
  /\ leads' = [leads EXCEPT ![n] = FALSE]
  /\ UNCHANGED <<host, streamID, done, out, inflight, log, snapshot>>

-----------------------------------------------------------------------------

CallStep(c) == \/ \E n \in Nodes : AddStream(c, n)
               \/ Propose(c)
               \/ CommandFails(c)
               \/ CommandSucceeds(c)
               \/ RemoveStream(c)

NodeStep(n) == \/ GetStream(n)
               \/ RunCommand(n)
               \/ SaveSnapshot(n)
               \/ \E m \in Nodes : RecoverFromSnapshot(n, m)

RaftStep == \/ \E e \in inflight : Commit(e)
            \/ \E n \in Nodes : Elect(n) \/ StepDown(n) \/ Restart(n)

Next == \/ \E c \in Commands : CallStep(c)
        \/ \E n \in Nodes : NodeStep(n)
        \/ RaftStep

Spec == Init /\ [][Next]_vars

\* A goroutine that can run does run: SyncCommand does not stay between two
\* of its own steps, and clientTimeout ends the wait for Raft.  Nothing is
\* assumed of Raft, of the clients or of crashes.
Fairness ==
  \A c \in Commands :
    /\ WF_vars(Propose(c) \/ CommandFails(c) \/ CommandSucceeds(c))
    /\ WF_vars(RemoveStream(c))

FairSpec == Spec /\ Fairness

-----------------------------------------------------------------------------
(* Properties                                                              *)

CallStates == {"idle", "registered", "waiting", "succeeded", "failing",
               "ok", "failed", "lost"}

\* The state is of the expected shape, the positions point into the log, and
\* an Update that runs has an entry to run.
TypeOK ==
  /\ pc \in [Commands -> CallStates]
  /\ host \in [Commands -> Nodes \cup {NoNode}]
  /\ streamID \in [Commands -> 0..MaxStreamID]
  /\ done \in SUBSET Commands
  /\ streams \in [Nodes -> [StreamIDs -> Commands \cup {NoStream}]]
  /\ nextID \in [Nodes -> 0..MaxStreamID]
  /\ target \in [Nodes -> Commands \cup {NoStream, Idle}]
  /\ out \in SUBSET (Commands \X Commands)
  /\ inflight \in SUBSET Entries
  /\ log \in Seq(Entries)
  /\ applied \in [Nodes -> 0..Len(log)]
  /\ snapshot \in [Nodes -> 0..Len(log)]
  /\ leads \in [Nodes -> BOOLEAN]
  /\ restarts \in 0..MaxRestarts
  /\ \A n \in Nodes : /\ snapshot[n] <= applied[n]
                      /\ target[n] # Idle => applied[n] < Len(log)

\* The streamManager of a node holds exactly the streams of the calls that
\* node is serving, each under the ID its entry carries: no stream goes
\* before its call returns (a reply would be lost), and none stays behind
\* (a leak, and a target for later entries).
StreamsAreOpenCalls ==
  /\ \A c \in Commands : Open(c) => streams[host[c]][streamID[c]] = c
  /\ \A n \in Nodes, i \in StreamIDs :
       streams[n][i] # NoStream =>
         LET c == streams[n][i] IN Open(c) /\ host[c] = n /\ streamID[c] = i

\* SyncCommand returns nil only after the command was committed and its own
\* output was written to the caller's own stream, whatever was applied in
\* between, and although Raft completes the proposal without knowing of
\* streams.
AckedImpliesAnswered ==
  \A c \in Commands : pc[c] \in {"succeeded", "ok"} =>
    /\ <<c, c>> \in out
    /\ \E i \in 1..Len(log) : log[i].cmd = c

\* Output goes astray only between calls that hold the same ID, and as long
\* as no process has restarted only between calls served by two different
\* nodes: one streamManager keeps the calls of its own node apart.
StrayOnlyAcrossNodes ==
  \A s, c \in Commands : <<s, c>> \in out /\ s # c =>
    /\ streamID[s] = streamID[c]
    /\ restarts = 0 => host[s] # host[c]

\* Every call of SyncCommand returns or dies with its node, even if Raft
\* never answers: clientTimeout bounds the wait.
CallsReturn ==
  \A c \in Commands : pc[c] = "registered" ~> pc[c] \in {"ok", "failed", "lost"}

\* protocol.proto calls stream_id "the entry stream identifier", the stream of
\* the entry.  That a stream gets output of its own entry only does NOT hold.
NoStrayOutput == \A s, c \in Commands : <<s, c>> \in out => s = c

-----------------------------------------------------------------------------
(* The inductive invariant behind these properties.                        *)

\* A call that was made has its node and its ID; an ID in use has been given
\* out, and as long as no process restarts it stays below the counter.
CallsAreNumbered ==
  /\ \A c \in Commands : pc[c] # "idle" =>
       /\ host[c] \in Nodes
       /\ streamID[c] \in StreamIDs
       /\ restarts = 0 => streamID[c] <= nextID[host[c]]
  /\ \A n \in Nodes, i \in StreamIDs : streams[n][i] # NoStream => i <= nextID[n]
  /\ restarts = 0 => \A c, d \in Commands :
       /\ pc[c] # "idle"
       /\ pc[d] # "idle"
       /\ host[c] = host[d]
       /\ streamID[c] = streamID[d]
       => c = d

\* An entry carries the ID of its own call, which has been proposed, and is
\* in one place only.
EntriesAreProposals ==
  /\ \A e \in inflight : /\ e.id = streamID[e.cmd]
                         /\ pc[e.cmd] \notin {"idle", "registered"}
                         /\ \A i \in 1..Len(log) : log[i].cmd # e.cmd
  /\ \A i \in 1..Len(log) : /\ log[i].id = streamID[log[i].cmd]
                            /\ pc[log[i].cmd] \notin {"idle", "registered"}
  /\ \A i, j \in 1..Len(log) : log[i].cmd = log[j].cmd => i = j

\* An Update in progress holds a stream of its own node with the ID of its
\* entry, and the caller's own stream when the caller is waiting here.
TargetFits ==
  \A n \in Nodes : target[n] # Idle =>
    /\ target[n] # NoStream => /\ pc[target[n]] # "idle"
                               /\ host[target[n]] = n
                               /\ streamID[target[n]] = NextEntry(n).id
    /\ (host[NextEntry(n).cmd] = n /\ pc[NextEntry(n).cmd] = "waiting")
         => target[n] = NextEntry(n).cmd

\* What has been written and reported stays justified by the log.
OutputIsLogged ==
  /\ \A s, c \in Commands : <<s, c>> \in out =>
       /\ pc[s] # "idle"
       /\ \E i \in 1..Len(log) : log[i].cmd = c
  /\ \A c \in done : <<c, c>> \in out
  /\ \A c \in Commands : pc[c] \in {"succeeded", "ok"} => c \in done

IndInv == /\ TypeOK
          /\ StreamsAreOpenCalls
          /\ StrayOnlyAcrossNodes
          /\ CallsAreNumbered
          /\ EntriesAreProposals
          /\ TargetFits
          /\ OutputIsLogged

\* The partition implements the service its callers are promised: a call is
\* open until SyncCommand returns, a command is executed when it is committed.
status == [c \in Commands |-> CASE pc[c] = "idle" -> "new"
                                [] Open(c) -> "open"
                                [] pc[c] = "ok" -> "ok"
                                [] OTHER -> "failed"]
history == [i \in 1..Len(log) |-> log[i].cmd]
answered == {c \in Commands : <<c, c>> \in out}

Service == INSTANCE CommandService WITH
             status <- status, history <- history, answered <- answered

ServiceSpec == Service!Spec
=============================================================================
