----------------------- MODULE PartitionQueriesProofs -----------------------
(***************************************************************************)
(* Proofs about PartitionQueries, for any number of nodes, commands and    *)
(* queries.                                                                *)
(*                                                                         *)
(* With the queries beside them the commands do what they do without, so   *)
(* that the invariant of CommandStreams holds: what a command's caller is  *)
(* told, and what a query sees, is in the log.  The log only grows, and so *)
(* the read index of a SyncQuery covers what was known when it was called. *)
(***************************************************************************)
EXTENDS PartitionQueries, CommandStreamsProofs

USE NamesAssumption

-----------------------------------------------------------------------------
(* The log.                                                                *)

\* The log only grows at its end.
LEMMA LogGrows ==
  ASSUME IndInv, [Next]_vars
  PROVE  /\ Len(log) \in Nat /\ Len(log)' \in Nat
         /\ Len(log) <= Len(log)'
         /\ \A i \in 1..Len(log) : log'[i] = log[i]
<1>1. log \in Seq(Entries) /\ inflight \subseteq Entries
  BY DEF IndInv, TypeOK
<1>2. CASE log' = log
  BY <1>1, <1>2
<1>3. CASE \E e \in inflight : Commit(e)
  <2>1. PICK e \in Entries : log' = Append(log, e)
    BY <1>1, <1>3 DEF Commit
  <2> QED  BY <1>1, <2>1
<1>4. ASSUME NEW c \in Commands, CallStep(c)
      PROVE  log' = log
  BY <1>4 DEF CallStep, AddStream, Propose, CommandFails, CommandSucceeds,
              RemoveStream, raftVars
<1>5. ASSUME NEW n \in Nodes,
             NodeStep(n) \/ Elect(n) \/ StepDown(n) \/ Restart(n)
      PROVE  log' = log
  BY <1>5 DEF NodeStep, GetStream, RunCommand, SaveSnapshot, RecoverFromSnapshot,
              Elect, StepDown, Restart, raftVars
<1> QED  BY <1>2, <1>3, <1>4, <1>5 DEF Next, RaftStep, vars, raftVars

\* So what is among its first k entries stays there.
LEMMA LoggedStays ==
  ASSUME IndInv, [Next]_vars, NEW k \in 0..Len(log)
  PROVE  /\ Logged(k)' = Logged(k)
         /\ Logged(k) \subseteq Logged(Len(log))'
<1>1. /\ Len(log) \in Nat /\ Len(log)' \in Nat /\ Len(log) <= Len(log)'
      /\ \A i \in 1..Len(log) : log'[i] = log[i]
  BY LogGrows
<1>2. \A i \in 1..k : i \in 1..Len(log) /\ i \in 1..Len(log)'
  BY <1>1
<1> QED  BY <1>1, <1>2 DEF Logged

\* What is logged are commands, and a longer part of the log holds more.
LEMMA LoggedCommands ==
  ASSUME IndInv
  PROVE  /\ Len(log) \in Nat
         /\ \A k \in 0..Len(log) : /\ Logged(k) \subseteq Commands
                                   /\ Logged(k) \subseteq Logged(Len(log))
         /\ \A j, k \in Nat : j <= k => Logged(j) \subseteq Logged(k)
<1>1. log \in Seq(Entries) /\ Len(log) \in Nat
  BY DEF IndInv, TypeOK
<1>2. \A i \in 1..Len(log) : log[i].cmd \in Commands
  <2>1. \A i \in 1..Len(log) : log[i] \in Entries
    BY <1>1
  <2> QED  BY <2>1 DEF Entries
<1>3. \A k \in 0..Len(log) : /\ Logged(k) \subseteq Commands
                             /\ Logged(k) \subseteq Logged(Len(log))
  BY <1>1, <1>2 DEF Logged
<1>4. \A j, k \in Nat : j <= k => Logged(j) \subseteq Logged(k)
  BY DEF Logged
<1> QED  BY <1>1, <1>3, <1>4

\* A state machine has run a part of the log.
LEMMA StateLogged ==
  ASSUME IndInv, NEW n \in Nodes
  PROVE  /\ applied[n] \in Nat
         /\ State(n) \subseteq Commands
         /\ State(n) \subseteq Logged(Len(log))
<1>1. applied[n] \in 0..Len(log) /\ applied[n] \in Nat
  BY LoggedCommands DEF IndInv, TypeOK
<1> QED  BY <1>1, LoggedCommands DEF State

\* Nobody has been told of anything that is not in the log.
LEMMA ToldLogged ==
  ASSUME IndInv, QueryInv
  PROVE  Told \subseteq Commands /\ Told \subseteq Logged(Len(log))
<1>1. \A c \in Commands : pc[c] = "ok" => c \in Logged(Len(log))
  BY DEF IndInv, OutputIsLogged, Logged
<1>2. \A q \in Queries : /\ seen[q] \subseteq Commands
                         /\ seen[q] \subseteq Logged(Len(log))
  BY DEF QueryInv, QTypeOK, IndexCoversKnown
<1> QED  BY <1>1, <1>2 DEF Told

-----------------------------------------------------------------------------
(* The steps.                                                              *)

\* When only the commands move, the queries' sets stay in the log.
LEMMA CommandsInd ==
  ASSUME IndInv, QueryInv, [Next]_vars, UNCHANGED queryVars
  PROVE  QueryInv'
<1>1. UNCHANGED <<qpc, qkind, qnode, qindex, known, seen>>
  BY DEF queryVars
<1>2. Len(log) \in 0..Len(log) /\ Len(log) \in Nat /\ Len(log) <= Len(log)'
      /\ Len(log)' \in Nat
  BY LogGrows
<1>3. Logged(Len(log)) \subseteq Logged(Len(log))'
  BY <1>2, LoggedStays
<1>4. ASSUME NEW q \in Queries, qpc[q] = "indexed"
      PROVE  qindex[q] <= Len(log)' /\ known[q] \subseteq Logged(qindex[q])'
  <2>1. PICK k : k = qindex[q]
    OBVIOUS
  <2>2. k \in 0..Len(log) /\ known[q] \subseteq Logged(k)
    BY <1>2, <1>4, <2>1 DEF QueryInv, QTypeOK, IndexCoversKnown
  <2>3. Logged(k)' = Logged(k)
    BY <2>2, LoggedStays
  <2>4. Logged(qindex[q])' = Logged(k)'
    BY <1>1, <2>1 DEF Logged
  <2> QED  BY <1>2, <2>1, <2>2, <2>3, <2>4
<1>5. QTypeOK' /\ SyncQueriesAreCurrent'
  BY <1>1 DEF QueryInv, QTypeOK, SyncQueriesAreCurrent
<1>6. IndexCoversKnown'
  BY <1>1, <1>3, <1>4 DEF QueryInv, IndexCoversKnown
<1> QED  BY <1>5, <1>6 DEF QueryInv

\* A call takes note of what has been told so far, all of which is logged.
LEMMA SyncQueryInd ==
  ASSUME IndInv, QueryInv, NEW q \in Queries, NEW n \in Nodes, SyncQuery(q, n)
  PROVE  QueryInv'
<1> USE DEF QueryInv
<1>1. /\ UNCHANGED <<log, qindex, seen>>
      /\ qpc' = [qpc EXCEPT ![q] = "called"]
      /\ qkind' = [qkind EXCEPT ![q] = "sync"]
      /\ qnode' = [qnode EXCEPT ![q] = n]
      /\ known' = [known EXCEPT ![q] = Told]
  BY DEF SyncQuery, vars, raftVars
<1>2. Told \subseteq Commands /\ Told \subseteq Logged(Len(log))
  BY ToldLogged
<1>3. QTypeOK'
  BY <1>1, <1>2 DEF QTypeOK
<1>4. IndexCoversKnown'
  BY <1>1, <1>2 DEF QTypeOK, IndexCoversKnown, Logged
<1>5. SyncQueriesAreCurrent'
  BY <1>1 DEF QTypeOK, SyncQueriesAreCurrent
<1> QED  BY <1>3, <1>4, <1>5

\* The whole log holds it.
LEMMA ReadIndexInd ==
  ASSUME IndInv, QueryInv, NEW q \in Queries, ReadIndex(q)
  PROVE  QueryInv'
<1> USE DEF QueryInv
<1>1. /\ UNCHANGED <<log, qkind, qnode, known, seen>>
      /\ qpc[q] = "called" /\ qpc' = [qpc EXCEPT ![q] = "indexed"]
      /\ qindex' = [qindex EXCEPT ![q] = Len(log)]
      /\ Len(log) \in Nat
  BY LoggedCommands DEF ReadIndex, vars, raftVars
<1>2. QTypeOK'
  BY <1>1 DEF QTypeOK
<1>3. IndexCoversKnown'
  BY <1>1 DEF QTypeOK, IndexCoversKnown, Logged
<1>4. SyncQueriesAreCurrent'
  BY <1>1 DEF QTypeOK, SyncQueriesAreCurrent
<1> QED  BY <1>2, <1>3, <1>4

\* A node that has come as far as the read index has run what was known.
LEMMA SyncReadInd ==
  ASSUME IndInv, QueryInv, NEW q \in Queries, SyncRead(q)
  PROVE  QueryInv'
<1> USE DEF QueryInv
<1>1. PICK n : n = qnode[q]
  OBVIOUS
<1>2. /\ UNCHANGED <<log, qkind, known>>
      /\ qpc[q] = "indexed" /\ qpc' = [qpc EXCEPT ![q] = "ok"]
      /\ qindex' = [qindex EXCEPT ![q] = 0]
      /\ qnode' = [qnode EXCEPT ![q] = NoNode]
      /\ seen' = [seen EXCEPT ![q] = State(n)]
      /\ qindex[q] <= applied[n]
      /\ n \in Nodes
  BY <1>1 DEF SyncRead, Lookup, Return, vars, raftVars, fsmVars, IndexCoversKnown
<1>3. /\ applied[n] \in Nat
      /\ State(n) \subseteq Commands
      /\ State(n) \subseteq Logged(Len(log))
  BY <1>2, StateLogged
<1>4. known[q] \subseteq State(n)
  BY <1>2, <1>3, LoggedCommands DEF QTypeOK, IndexCoversKnown, State
<1>5. QTypeOK'
  BY <1>2, <1>3 DEF QTypeOK
<1>6. IndexCoversKnown'
  BY <1>2, <1>3 DEF QTypeOK, IndexCoversKnown, Logged
<1>7. SyncQueriesAreCurrent'
  BY <1>2, <1>4 DEF QTypeOK, SyncQueriesAreCurrent
<1> QED  BY <1>5, <1>6, <1>7

\* A call that fails claims nothing.
LEMMA QueryFailsInd ==
  ASSUME IndInv, QueryInv, NEW q \in Queries, QueryFails(q)
  PROVE  QueryInv'
<1> USE DEF QueryInv
<1>1. /\ UNCHANGED <<log, qkind, known, seen>>
      /\ qpc' = [qpc EXCEPT ![q] = "failed"]
      /\ qindex' = [qindex EXCEPT ![q] = 0]
      /\ qnode' = [qnode EXCEPT ![q] = NoNode]
  BY DEF QueryFails, Return, vars, raftVars
<1>2. QTypeOK'
  BY <1>1 DEF QTypeOK
<1>3. IndexCoversKnown'
  <2>1. /\ qpc'[q] = "failed" /\ qnode'[q] = NoNode
        /\ \A r \in Queries : r # q => /\ qpc'[r] = qpc[r] /\ qnode'[r] = qnode[r]
                                      /\ qindex'[r] = qindex[r]
    BY <1>1 DEF QTypeOK
  <2> QED  BY <1>1, <2>1 DEF IndexCoversKnown, Logged
<1>4. SyncQueriesAreCurrent'
  BY <1>1 DEF QTypeOK, SyncQueriesAreCurrent
<1> QED  BY <1>2, <1>3, <1>4

\* A StaleQuery sees whatever its node has run, and claims nothing either.
LEMMA StaleQueryInd ==
  ASSUME IndInv, QueryInv, NEW q \in Queries, NEW n \in Nodes, StaleQuery(q, n)
  PROVE  QueryInv'
<1> USE DEF QueryInv
<1>1. /\ UNCHANGED <<log, known>>
      /\ qkind' = [qkind EXCEPT ![q] = "stale"]
      /\ qpc' = [qpc EXCEPT ![q] = "ok"] \/ qpc' = [qpc EXCEPT ![q] = "failed"]
      /\ qindex' = [qindex EXCEPT ![q] = 0]
      /\ qnode' = [qnode EXCEPT ![q] = NoNode]
      /\ seen' = [seen EXCEPT ![q] = State(n)] \/ seen' = seen
  BY DEF StaleQuery, Lookup, Return, vars, raftVars, fsmVars
<1>2. /\ State(n) \subseteq Commands
      /\ State(n) \subseteq Logged(Len(log))
  BY StateLogged
<1>3. QTypeOK'
  BY <1>1, <1>2 DEF QTypeOK
<1>4. IndexCoversKnown'
  BY <1>1, <1>2 DEF QTypeOK, IndexCoversKnown, Logged
<1>5. SyncQueriesAreCurrent'
  BY <1>1 DEF QTypeOK, SyncQueriesAreCurrent
<1> QED  BY <1>3, <1>4, <1>5

\* A crash leaves the log as it is, and ends the calls the node was serving.
LEMMA RestartNodeInd ==
  ASSUME IndInv, QueryInv, NEW n \in Nodes, RestartNode(n)
  PROVE  QueryInv'
<1> USE DEF QueryInv
<1>1. /\ UNCHANGED <<log, qkind, known, seen>>
      /\ qpc' = [q \in Queries |-> IF qnode[q] = n THEN "lost" ELSE qpc[q]]
      /\ qnode' = [q \in Queries |-> IF qnode[q] = n THEN NoNode ELSE qnode[q]]
      /\ qindex' = [q \in Queries |-> IF qnode[q] = n THEN 0 ELSE qindex[q]]
  BY DEF RestartNode, Restart
<1>2. QTypeOK'
  BY <1>1 DEF QTypeOK
<1>3. IndexCoversKnown'
  BY <1>1 DEF QTypeOK, IndexCoversKnown, Logged
<1>4. SyncQueriesAreCurrent'
  BY <1>1 DEF QTypeOK, SyncQueriesAreCurrent
<1> QED  BY <1>2, <1>3, <1>4

-----------------------------------------------------------------------------

\* Beside queries, commands do what they do without them.
LEMMA QueriesKeepOut == QNext => [Next]_vars
BY DEF QNext, CommandSide, QueryStep, SyncQuery, ReadIndex, SyncRead, QueryFails,
       StaleQuery, RestartNode, Next, RaftStep

\* So what CommandStreams promises holds here, too.
THEOREM CommandsAreServed == QSpec => Spec
<1>1. QInit => Init
  BY DEF QInit
<1>2. [QNext]_qvars => [Next]_vars
  BY QueriesKeepOut DEF qvars
<1> QED  BY <1>1, <1>2, PTL DEF QSpec, Spec

\* What a SyncQuery has to see is in the part of the log it waits for.
THEOREM QueryInductive == QSpec => []QueryInv
<1>1. QInit => QueryInv
  BY DEF QInit, QueryInv, QTypeOK, IndexCoversKnown, SyncQueriesAreCurrent
<1>2. IndInv /\ QueryInv /\ [QNext]_qvars => QueryInv'
  <2> SUFFICES ASSUME IndInv, QueryInv, [QNext]_qvars PROVE QueryInv'
    OBVIOUS
  <2>1. CASE CommandSide /\ UNCHANGED queryVars
    BY <2>1, CommandsInd, QueriesKeepOut DEF QNext
  <2>2. CASE UNCHANGED qvars
    BY <2>2, CommandsInd DEF qvars
  <2>3. CASE \E q \in Queries : QueryStep(q)
    BY <2>3, SyncQueryInd, ReadIndexInd, SyncReadInd, QueryFailsInd, StaleQueryInd
       DEF QueryStep
  <2>4. CASE \E n \in Nodes : RestartNode(n)
    BY <2>4, RestartNodeInd
  <2> QED  BY <2>1, <2>2, <2>3, <2>4 DEF QNext
<1> QED  BY <1>1, <1>2, CommandsAreServed, Inductive, PTL DEF QSpec

\* A SyncQuery that returns without an error has seen every command that had
\* succeeded, and all that any SyncQuery had seen, when it was called.
THEOREM QueriesCurrent == QSpec => []SyncQueriesAreCurrent
<1>1. QueryInv => SyncQueriesAreCurrent
  BY DEF QueryInv
<1> QED  BY <1>1, QueryInductive, PTL
=============================================================================
