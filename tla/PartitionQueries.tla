-------------------------- MODULE PartitionQueries --------------------------
(***************************************************************************)
(* Queries beside the commands of CommandStreams: SyncQuery and StaleQuery *)
(* in pkg/storage/partition.go, StateMachine.Lookup in fsm.go.             *)
(*                                                                         *)
(* SyncQuery reads through Raft: the node first learns how far the log is  *)
(* committed (the read index, external), waits until its state machine     *)
(* has run that far, and only then looks up.  StaleQuery looks up at once. *)
(* What a query sees is represented by the set of commands that the state  *)
(* machine had run when it looked.                                         *)
(***************************************************************************)
EXTENDS CommandStreams

CONSTANT Queries        \* the calls of SyncQuery and StaleQuery

VARIABLES
  qpc,       \* qpc[q]: how far the call has come
  qkind,     \* qkind[q]: "sync" or "stale"
  qnode,     \* qnode[q]: the node that serves it, until it is over
  qindex,    \* qindex[q]: the read index, until the call is over
  known,     \* known[q]: the commands that were known to be done at the call
  seen       \* seen[q]: the commands whose effects the query saw

queryVars == <<qpc, qkind, qnode, qindex, known, seen>>
qvars == <<vars, queryVars>>

QInit ==
  /\ Init
  /\ qpc = [q \in Queries |-> "idle"]
  /\ qkind = [q \in Queries |-> "sync"]
  /\ qnode = [q \in Queries |-> NoNode]
  /\ qindex = [q \in Queries |-> 0]
  /\ known = [q \in Queries |-> {}]
  /\ seen = [q \in Queries |-> {}]

\* The commands among the first k of the log, and what the state machine of n
\* has run.
Logged(k) == {log[i].cmd : i \in 1..k}
State(n) == Logged(applied[n])

\* What somebody has been told: a command that succeeded, and what a SyncQuery
\* that returned had seen.
Told == {c \in Commands : pc[c] = "ok"} \cup
        UNION {seen[q] : q \in {r \in Queries : /\ qkind[r] = "sync"
                                                /\ qpc[r] = "ok"}}

Return(q, result) ==
  /\ qpc' = [qpc EXCEPT ![q] = result]
  /\ qnode' = [qnode EXCEPT ![q] = NoNode]
  /\ qindex' = [qindex EXCEPT ![q] = 0]

\* StateMachine.Lookup, and the return.  It shares a lock with Update.
Lookup(q, n) ==
  /\ target[n] = Idle
  /\ seen' = [seen EXCEPT ![q] = State(n)]
  /\ Return(q, "ok")

-----------------------------------------------------------------------------
(* Partition.SyncQuery                                                     *)

SyncQuery(q, n) ==
  /\ qpc[q] = "idle"
  /\ leads[n]
  /\ qpc' = [qpc EXCEPT ![q] = "called"]
  /\ qkind' = [qkind EXCEPT ![q] = "sync"]
  /\ qnode' = [qnode EXCEPT ![q] = n]
  /\ known' = [known EXCEPT ![q] = Told]
  /\ UNCHANGED <<vars, qindex, seen>>

\* Mutant: the node takes its own word for how far the log is committed.
ReadIndexOfNode(q) ==
  /\ qpc[q] = "called"
  /\ qindex' = [qindex EXCEPT ![q] = applied[qnode[q]]]
  /\ qpc' = [qpc EXCEPT ![q] = "indexed"]
  /\ UNCHANGED <<vars, qkind, qnode, known, seen>>

\* A majority confirms the leader, which says what is committed (external).
ReadIndex(q) ==
  /\ qpc[q] = "called"
  /\ qindex' = [qindex EXCEPT ![q] = Len(log)]
  /\ qpc' = [qpc EXCEPT ![q] = "indexed"]
  /\ UNCHANGED <<vars, qkind, qnode, known, seen>>

\* The state machine has come as far as the read index, or farther.
SyncRead(q) ==
  /\ qpc[q] = "indexed"
  /\ applied[qnode[q]] >= qindex[q]
  /\ Lookup(q, qnode[q])
  /\ UNCHANGED <<vars, qkind, known>>

\* Mutant: a query waits for its state machine however long it takes.
QueryRefused(q) ==
  /\ qpc[q] = "called"
  /\ Return(q, "failed")
  /\ UNCHANGED <<vars, qkind, known, seen>>

\* Raft refuses the read, or clientTimeout ends the wait.
QueryFails(q) ==
  /\ qpc[q] \in {"called", "indexed"}
  /\ Return(q, "failed")
  /\ UNCHANGED <<vars, qkind, known, seen>>

-----------------------------------------------------------------------------
(* Partition.StaleQuery: the state of whatever node is asked.              *)

StaleQuery(q, n) ==
  /\ qpc[q] = "idle"
  /\ qkind' = [qkind EXCEPT ![q] = "stale"]
  /\ \/ Lookup(q, n)
     \/ Return(q, "failed") /\ UNCHANGED seen
  /\ UNCHANGED <<vars, known>>

-----------------------------------------------------------------------------

\* A crash cuts off the queries that the node serves as well.
RestartNode(n) ==
  LET lost == {q \in Queries : qnode[q] = n} IN
  /\ Restart(n)
  /\ qpc' = [q \in Queries |-> IF q \in lost THEN "lost" ELSE qpc[q]]
  /\ qnode' = [q \in Queries |-> IF q \in lost THEN NoNode ELSE qnode[q]]
  /\ qindex' = [q \in Queries |-> IF q \in lost THEN 0 ELSE qindex[q]]
  /\ UNCHANGED <<qkind, known, seen>>

CommandSide == \/ \E c \in Commands : CallStep(c)
               \/ \E n \in Nodes : NodeStep(n) \/ Elect(n) \/ StepDown(n)
               \/ \E e \in inflight : Commit(e)

QueryStep(q) == \/ \E n \in Nodes : SyncQuery(q, n) \/ StaleQuery(q, n)
                \/ ReadIndex(q)
                \/ SyncRead(q)
                \/ QueryFails(q)

QNext == \/ CommandSide /\ UNCHANGED queryVars
         \/ \E q \in Queries : QueryStep(q)
         \/ \E n \in Nodes : RestartNode(n)

QSpec == QInit /\ [][QNext]_qvars

\* clientTimeout ends every wait; nothing else is assumed.
QFairSpec ==
  /\ QSpec
  /\ \A c \in Commands :
       LET Runs(A) == A /\ UNCHANGED queryVars IN
       /\ WF_qvars(Runs(Propose(c) \/ CommandFails(c) \/ CommandSucceeds(c)))
       /\ WF_qvars(Runs(RemoveStream(c)))
  /\ \A q \in Queries : WF_qvars(ReadIndex(q) \/ SyncRead(q) \/ QueryFails(q))

-----------------------------------------------------------------------------
(* Properties                                                              *)

\* A SyncQuery that returns without an error has seen every command that had
\* succeeded when it was called, and all that an earlier SyncQuery had seen,
\* on whatever nodes, across elections, snapshots and crashes.
SyncQueriesAreCurrent ==
  \A q \in Queries :
    qkind[q] = "sync" /\ qpc[q] = "ok" => known[q] \subseteq seen[q]

QTypeOK ==
  /\ qpc \in [Queries -> {"idle", "called", "indexed", "ok", "failed", "lost"}]
  /\ qkind \in [Queries -> {"sync", "stale"}]
  /\ qnode \in [Queries -> Nodes \cup {NoNode}]
  /\ qindex \in [Queries -> Nat]
  /\ known \in [Queries -> SUBSET Commands]
  /\ seen \in [Queries -> SUBSET Commands]

\* The part of the log that a SyncQuery waits for holds what was known when it
\* was called, and nothing is seen that is not in the log.
IndexCoversKnown ==
  \A q \in Queries :
    /\ qnode[q] \in Nodes <=> qpc[q] \in {"called", "indexed"}
    /\ qpc[q] = "called" => known[q] \subseteq Logged(Len(log))
    /\ qpc[q] = "indexed" => /\ qindex[q] <= Len(log)
                            /\ known[q] \subseteq Logged(qindex[q])
    /\ seen[q] \subseteq Logged(Len(log))

\* Inductive, together with the invariant of CommandStreams.
QueryInv == QTypeOK /\ IndexCoversKnown /\ SyncQueriesAreCurrent

\* Every SyncQuery returns or dies with its node, although a node may never
\* get as far as the read index.
QueriesReturn ==
  \A q \in Queries : qpc[q] = "called" ~> qpc[q] \in {"ok", "failed", "lost"}
=============================================================================
