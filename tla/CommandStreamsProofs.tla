------------------------ MODULE CommandStreamsProofs ------------------------
(***************************************************************************)
(* Proofs about CommandStreams, for any number of nodes and calls and any  *)
(* bounds.  IndInv is inductive; the invariants follow from it, and under  *)
(* it every step is a step of CommandService or leaves its state alone.    *)
(*                                                                         *)
(* One lemma per action.  In most of them a conjunct of IndInv is kept     *)
(* because the action writes none of its variables, or only moves a call   *)
(* between states the conjunct does not tell apart.                        *)
(***************************************************************************)
EXTENDS CommandStreams, TLAPS

USE BoundsAssumption, NamesAssumption

-----------------------------------------------------------------------------
(* The entry a state machine runs next.                                    *)

\* A node that is behind the log has a next entry, and it is an entry.
LEMMA NextEntryTyped ==
  ASSUME TypeOK, NEW n \in Nodes, applied[n] < Len(log)
  PROVE  /\ applied[n] \in Nat
         /\ applied[n] + 1 \in 1..Len(log)
         /\ NextEntry(n) \in Entries
         /\ NextEntry(n).cmd \in Commands
         /\ NextEntry(n).id \in StreamIDs
<1>1. log \in Seq(Entries) /\ Len(log) \in Nat /\ applied[n] \in 0..Len(log)
  BY DEF TypeOK
<1>2. applied[n] \in Nat /\ applied[n] + 1 \in 1..Len(log)
  BY <1>1
<1>3. NextEntry(n) \in Entries
  BY <1>1, <1>2 DEF NextEntry
<1> QED  BY <1>2, <1>3 DEF Entries

\* It was proposed by its call, whose ID it carries.
LEMMA NextEntryProposed ==
  ASSUME IndInv, NEW n \in Nodes, applied[n] < Len(log)
  PROVE  /\ NextEntry(n).id = streamID[NextEntry(n).cmd]
         /\ pc[NextEntry(n).cmd] \notin {"idle", "registered"}
         /\ \E i \in 1..Len(log) : log[i].cmd = NextEntry(n).cmd
BY NextEntryTyped DEF IndInv, EntriesAreProposals, NextEntry

-----------------------------------------------------------------------------
(* IndInv is inductive.                                                    *)

\* Nothing is registered, in flight or applied in the beginning.
LEMMA InitInd == Init => IndInv
<1>1. Init => TypeOK
  BY DEF Init, TypeOK, CallStates, Idle
<1>2. Init => StreamsAreOpenCalls
  BY DEF Init, StreamsAreOpenCalls, Open
<1>3. Init => StrayOnlyAcrossNodes
  BY DEF Init, StrayOnlyAcrossNodes
<1>4. Init => CallsAreNumbered
  BY DEF Init, CallsAreNumbered
<1>5. Init => EntriesAreProposals
  BY DEF Init, EntriesAreProposals
<1>6. Init => TargetFits
  BY DEF Init, TargetFits, NextEntry, Idle
<1>7. Init => OutputIsLogged
  BY DEF Init, OutputIsLogged
<1> QED  BY <1>1, <1>2, <1>3, <1>4, <1>5, <1>6, <1>7 DEF IndInv

\* addStream gives the call a fresh ID: it is larger than every ID in use on
\* the node, so it disturbs no other call, entry or Update.
LEMMA AddStreamInd ==
  ASSUME IndInv, NEW c \in Commands, NEW n \in Nodes, AddStream(c, n)
  PROVE  IndInv'
<1> DEFINE i == nextID[n] + 1
<1> USE DEF IndInv
<1>1. i \in StreamIDs /\ streams[n][i] = NoStream
  BY DEF TypeOK, CallsAreNumbered, AddStream, StreamIDs
<1>2. /\ pc[c] = "idle"
      /\ pc' = [pc EXCEPT ![c] = "registered"]
      /\ host' = [host EXCEPT ![c] = n]
      /\ streamID' = [streamID EXCEPT ![c] = i]
      /\ nextID' = [nextID EXCEPT ![n] = i]
      /\ streams' = [streams EXCEPT ![n] = [@ EXCEPT ![i] = c]]
      /\ UNCHANGED <<done, target, out, applied, inflight, log, snapshot, leads, restarts>>
  BY DEF TypeOK, AddStream, fsmVars, raftVars
<1> HIDE DEF i
<1>3. TypeOK'
  BY <1>1, <1>2 DEF TypeOK, CallStates, StreamIDs
<1>4. /\ \A d \in Commands : d # c => pc'[d] = pc[d] /\ host'[d] = host[d] /\ streamID'[d] = streamID[d]
      /\ pc'[c] = "registered" /\ host'[c] = n /\ streamID'[c] = i
      /\ \A k \in Nodes, j \in StreamIDs :
           streams'[k][j] = IF k = n /\ j = i THEN c ELSE streams[k][j]
  BY <1>1, <1>2 DEF TypeOK
<1>5. StreamsAreOpenCalls'
  <2>1. ASSUME NEW d \in Commands, Open(d)'
        PROVE  streams'[host'[d]][streamID'[d]] = d
    <3>1. CASE d = c  BY <3>1, <1>1, <1>4
    <3>2. CASE d # c
      <4>1. Open(d)  BY <2>1, <3>2, <1>4 DEF Open
      <4>2. host[d] \in Nodes /\ streamID[d] \in StreamIDs
        BY <4>1 DEF Open, CallsAreNumbered
      <4>3. streams[host[d]][streamID[d]] = d
        BY <4>1 DEF StreamsAreOpenCalls
      <4>4. ~(host[d] = n /\ streamID[d] = i)
        BY <4>3, <1>1
      <4> QED  BY <4>2, <4>3, <4>4, <3>2, <1>4
    <3> QED  BY <3>1, <3>2
  <2>2. ASSUME NEW k \in Nodes, NEW j \in StreamIDs, streams'[k][j] # NoStream
        PROVE  (LET d == streams[k][j]
                IN  Open(d) /\ host[d] = k /\ streamID[d] = j)'
    <3>1. CASE k = n /\ j = i  BY <3>1, <1>1, <1>4 DEF Open
    <3>2. CASE ~(k = n /\ j = i)
      <4>1. streams'[k][j] = streams[k][j] /\ streams[k][j] \in Commands
        BY <3>2, <2>2, <1>4 DEF TypeOK
      <4>2. LET d == streams[k][j] IN Open(d) /\ host[d] = k /\ streamID[d] = j
        BY <4>1, <2>2 DEF StreamsAreOpenCalls
      <4>3. streams[k][j] # c  BY <4>2, <1>2 DEF Open
      <4>4. /\ pc'[streams[k][j]] = pc[streams[k][j]]
            /\ host'[streams[k][j]] = k
            /\ streamID'[streams[k][j]] = j
        BY <4>1, <4>2, <4>3, <1>4
      <4> QED  BY <4>1, <4>2, <4>4 DEF Open
    <3> QED  BY <3>1, <3>2
  <2> QED  BY <2>1, <2>2 DEF StreamsAreOpenCalls
<1>6. StrayOnlyAcrossNodes'
  <2> SUFFICES ASSUME NEW s \in Commands, NEW d \in Commands, <<s, d>> \in out, s # d
               PROVE  /\ streamID'[s] = streamID'[d]
                      /\ restarts' = 0 => host'[s] # host'[d]
    BY <1>2 DEF StrayOnlyAcrossNodes
  <2>1. pc[s] # "idle" /\ pc[d] # "idle"
    BY DEF OutputIsLogged, EntriesAreProposals
  <2> QED  BY <2>1, <1>2, <1>4 DEF StrayOnlyAcrossNodes
<1>7. CallsAreNumbered'
  <2>1. \A d \in Commands : pc[d] # "idle" /\ restarts = 0 /\ host[d] = n => streamID[d] < i
    BY DEF CallsAreNumbered, TypeOK, StreamIDs, i
  <2>2. nextID[n] <= i /\ nextID'[n] = i /\ \A k \in Nodes : k # n => nextID'[k] = nextID[k]
    BY <1>2 DEF TypeOK, i
  <2>3. ASSUME NEW d \in Commands, pc'[d] # "idle"
        PROVE  /\ host'[d] \in Nodes
               /\ streamID'[d] \in StreamIDs
               /\ restarts = 0 => streamID'[d] <= nextID'[host'[d]]
    <3>1. CASE d = c  BY <3>1, <1>1, <1>4, <2>2 DEF StreamIDs
    <3>2. CASE d # c  
      <4>1. /\ host[d] \in Nodes /\ streamID[d] \in StreamIDs
            /\ restarts = 0 => streamID[d] <= nextID[host[d]]
         BY <3>2, <2>3, <1>4 DEF CallsAreNumbered
      <4>2. host'[d] = host[d] /\ streamID'[d] = streamID[d] /\ pc[d] # "idle"
        BY <3>2, <2>3, <1>4
      <4>3. CASE host[d] = n
        BY <4>1, <4>2, <4>3, <2>1, <2>2, <1>1 DEF StreamIDs
      <4>4. CASE host[d] # n  BY <4>1, <4>2, <4>4, <2>2
      <4> QED  BY <4>3, <4>4
    <3> QED  BY <3>1, <3>2
  <2>4. ASSUME NEW k \in Nodes, NEW j \in StreamIDs, streams'[k][j] # NoStream
        PROVE  j <= nextID'[k]
    <3>1. nextID[k] \in Nat /\ i = nextID[n] + 1
      BY DEF TypeOK, i
    <3>2. CASE k = n /\ j = i  BY <3>1, <3>2, <2>2, <1>1 DEF StreamIDs
    <3>3. CASE ~(k = n /\ j = i)
      <4>1. j <= nextID[k]  BY <3>3, <2>4, <1>4 DEF CallsAreNumbered
      <4> QED  BY <4>1, <3>1, <2>2 DEF StreamIDs
    <3> QED  BY <3>2, <3>3
  <2>5. ASSUME restarts = 0, NEW d \in Commands, NEW e \in Commands,
               pc'[d] # "idle", pc'[e] # "idle",
               host'[d] = host'[e], streamID'[d] = streamID'[e]
        PROVE  d = e
    <3>1. CASE d # c /\ e # c  BY <3>1, <2>5, <1>4 DEF CallsAreNumbered
    <3>2. CASE d = c /\ e # c  BY <3>2, <2>5, <2>1, <1>4, <1>1 DEF StreamIDs
    <3>3. CASE d # c /\ e = c  BY <3>3, <2>5, <2>1, <1>4, <1>1 DEF StreamIDs
    <3> QED  BY <3>1, <3>2, <3>3
  <2> QED  BY <2>3, <2>4, <2>5, <1>2 DEF CallsAreNumbered
<1>8. EntriesAreProposals'
  BY <1>2 DEF TypeOK, EntriesAreProposals, Entries
<1>9. TargetFits'
  <2> SUFFICES ASSUME NEW k \in Nodes, target[k] # Idle
               PROVE  /\ target[k] # NoStream => /\ pc'[target[k]] # "idle"
                                                 /\ host'[target[k]] = k
                                                 /\ streamID'[target[k]] = NextEntry(k).id
                      /\ (host'[NextEntry(k).cmd] = k /\ pc'[NextEntry(k).cmd] = "waiting")
                           => target[k] = NextEntry(k).cmd
    BY <1>2 DEF TargetFits, NextEntry
  <2>1. applied[k] + 1 \in 1..Len(log) /\ NextEntry(k).cmd \in Commands
    BY NextEntryTyped DEF TypeOK
  <2>2. pc[NextEntry(k).cmd] # "idle"
    BY <2>1 DEF EntriesAreProposals, NextEntry
  <2>3. target[k] # NoStream => target[k] \in Commands /\ pc[target[k]] # "idle"
    BY DEF TargetFits, TypeOK
  <2> QED  BY <2>1, <2>2, <2>3, <1>2, <1>4 DEF TargetFits
<1>10. OutputIsLogged'
  BY <1>2 DEF TypeOK, OutputIsLogged
<1> QED  BY <1>3, <1>5, <1>6, <1>7, <1>8, <1>9, <1>10

\* The entry is an entry: the call has its ID.
LEMMA ProposeTyped ==
  ASSUME IndInv, NEW c \in Commands, Propose(c) PROVE TypeOK'
<1>1. Entry(c) \in Entries
  BY DEF IndInv, TypeOK, CallsAreNumbered, Propose, Entry, Entries
<1> QED  BY <1>1 DEF IndInv, TypeOK, Propose, CallStates, fsmVars

\* No Update runs the entry of a call that is not proposed yet.
LEMMA ProposeTarget ==
  ASSUME IndInv, NEW c \in Commands, Propose(c) PROVE TargetFits'
<1> SUFFICES ASSUME NEW k \in Nodes, target[k] # Idle
             PROVE  /\ target[k] # NoStream => /\ pc'[target[k]] # "idle"
                                               /\ host[target[k]] = k
                                               /\ streamID[target[k]] = NextEntry(k).id
                    /\ (host[NextEntry(k).cmd] = k /\ pc'[NextEntry(k).cmd] = "waiting")
                         => target[k] = NextEntry(k).cmd
  BY DEF TargetFits, Propose, fsmVars, NextEntry
<1>1. applied[k] < Len(log) /\ (target[k] # NoStream => target[k] \in Commands)
  BY DEF IndInv, TypeOK
<1>2. NextEntry(k).cmd \in Commands /\ NextEntry(k).cmd # c
  BY <1>1, NextEntryTyped, NextEntryProposed DEF IndInv, Propose
<1>3. \A d \in Commands : /\ d # c => pc'[d] = pc[d]
                          /\ pc'[c] # "idle"
  BY DEF Propose, IndInv, TypeOK
<1> QED  BY <1>1, <1>2, <1>3 DEF IndInv, TargetFits

\* The entry that enters Raft is the only one of its call: until now the call
\* was only registered, and an entry in the log belongs to a call that is not.
LEMMA ProposeInd ==
  ASSUME IndInv, NEW c \in Commands, Propose(c)
  PROVE  IndInv'
<1>1. TypeOK'
  BY ProposeTyped
<1>2. StreamsAreOpenCalls'
  BY DEF IndInv, StreamsAreOpenCalls, Open, Propose, fsmVars
<1>3. StrayOnlyAcrossNodes'
  BY DEF IndInv, StrayOnlyAcrossNodes, Propose, fsmVars
<1>4. CallsAreNumbered'
  BY DEF IndInv, CallsAreNumbered, Propose, fsmVars
<1>5. EntriesAreProposals'
  BY DEF IndInv, EntriesAreProposals, TypeOK, Propose, fsmVars, Entry
<1>6. TargetFits'
  BY ProposeTarget
<1>7. OutputIsLogged'
  BY DEF IndInv, OutputIsLogged, Propose, fsmVars
<1> QED  BY <1>1, <1>2, <1>3, <1>4, <1>5, <1>6, <1>7 DEF IndInv

\* A call that fails keeps its stream until it returns.
LEMMA CommandFailsInd ==
  ASSUME IndInv, NEW c \in Commands, CommandFails(c)
  PROVE  IndInv'
<1>1. TypeOK'
  BY DEF IndInv, TypeOK, CallStates, CommandFails, fsmVars, raftVars
<1>2. StreamsAreOpenCalls'
  BY DEF IndInv, StreamsAreOpenCalls, Open, CommandFails, fsmVars, raftVars
<1>3. StrayOnlyAcrossNodes'
  BY DEF IndInv, StrayOnlyAcrossNodes, CommandFails, fsmVars, raftVars
<1>4. CallsAreNumbered'
  BY DEF IndInv, CallsAreNumbered, CommandFails, fsmVars, raftVars
<1>5. EntriesAreProposals'
  BY DEF IndInv, EntriesAreProposals, CommandFails, fsmVars, raftVars
<1>6. TargetFits'
  BY DEF IndInv, TargetFits, NextEntry, CommandFails, fsmVars, raftVars
<1>7. OutputIsLogged'
  BY DEF IndInv, OutputIsLogged, CommandFails, fsmVars, raftVars
<1> QED  BY <1>1, <1>2, <1>3, <1>4, <1>5, <1>6, <1>7 DEF IndInv

\* A call succeeds when its proposal is done, and so answered.
LEMMA CommandSucceedsInd ==
  ASSUME IndInv, NEW c \in Commands, CommandSucceeds(c)
  PROVE  IndInv'
<1>1. TypeOK'
  BY DEF IndInv, TypeOK, CallStates, CommandSucceeds, fsmVars, raftVars
<1>2. StreamsAreOpenCalls'
  BY DEF IndInv, StreamsAreOpenCalls, Open, CommandSucceeds, fsmVars, raftVars
<1>3. StrayOnlyAcrossNodes'
  BY DEF IndInv, StrayOnlyAcrossNodes, CommandSucceeds, fsmVars, raftVars
<1>4. CallsAreNumbered'
  BY DEF IndInv, CallsAreNumbered, CommandSucceeds, fsmVars, raftVars
<1>5. EntriesAreProposals'
  BY DEF IndInv, EntriesAreProposals, CommandSucceeds, fsmVars, raftVars
<1>6. TargetFits'
  BY DEF IndInv, TargetFits, NextEntry, CommandSucceeds, fsmVars, raftVars
<1>7. OutputIsLogged'
  BY DEF IndInv, OutputIsLogged, CommandSucceeds, fsmVars, raftVars
<1> QED  BY <1>1, <1>2, <1>3, <1>4, <1>5, <1>6, <1>7 DEF IndInv

\* No call starts to wait, so every Update keeps what it owes.
LEMMA RemoveStreamTarget ==
  ASSUME IndInv, NEW c \in Commands, RemoveStream(c) PROVE TargetFits'
<1> SUFFICES ASSUME NEW k \in Nodes, target[k] # Idle
             PROVE  /\ target[k] # NoStream => /\ pc'[target[k]] # "idle"
                                               /\ host[target[k]] = k
                                               /\ streamID[target[k]] = NextEntry(k).id
                    /\ (host[NextEntry(k).cmd] = k /\ pc'[NextEntry(k).cmd] = "waiting")
                         => target[k] = NextEntry(k).cmd
  BY DEF TargetFits, RemoveStream, fsmVars, raftVars, NextEntry
<1>1. NextEntry(k).cmd \in Commands
  BY NextEntryTyped DEF IndInv, TypeOK
<1>2. \A d \in Commands : /\ pc'[d] = "waiting" => pc[d] = "waiting"
                          /\ pc[d] # "idle" => pc'[d] # "idle"
  BY DEF RemoveStream, IndInv, TypeOK
<1>3. target[k] # NoStream => target[k] \in Commands
  BY DEF IndInv, TypeOK
<1> QED  BY <1>1, <1>2, <1>3 DEF IndInv, TargetFits

\* removeStream takes the stream of a call that is about to return; an Update
\* that holds that stream already is free to write to it late.
LEMMA RemoveStreamInd ==
  ASSUME IndInv, NEW c \in Commands, RemoveStream(c)
  PROVE  IndInv'
<1>1. TypeOK'
  BY DEF IndInv, TypeOK, CallStates, RemoveStream, fsmVars, raftVars
<1>2. StreamsAreOpenCalls'
  BY DEF IndInv, StreamsAreOpenCalls, Open, TypeOK, RemoveStream, fsmVars,
      raftVars
<1>3. StrayOnlyAcrossNodes'
  BY DEF IndInv, StrayOnlyAcrossNodes, RemoveStream, fsmVars, raftVars
<1>4. CallsAreNumbered'
  BY DEF IndInv, CallsAreNumbered, RemoveStream, fsmVars, raftVars
<1>5. EntriesAreProposals'
  BY DEF IndInv, EntriesAreProposals, RemoveStream, fsmVars, raftVars
<1>6. TargetFits'
  BY RemoveStreamTarget
<1>7. OutputIsLogged'
  BY DEF IndInv, OutputIsLogged, RemoveStream, fsmVars, raftVars
<1> QED  BY <1>1, <1>2, <1>3, <1>4, <1>5, <1>6, <1>7 DEF IndInv

\* What the Update has found fits its entry.
LEMMA GetStreamTarget ==
  ASSUME IndInv, NEW n \in Nodes, GetStream(n) PROVE TypeOK' /\ TargetFits'
<1> DEFINE e == NextEntry(n)
<1>1. applied[n] < Len(log)  BY DEF GetStream
<1>2. e.cmd \in Commands /\ e.id \in StreamIDs
  BY <1>1, NextEntryTyped DEF IndInv
<1>3. e.id = streamID[e.cmd] /\ pc[e.cmd] # "idle"
  BY <1>1, NextEntryProposed
<1>4. /\ target' = [target EXCEPT ![n] = streams[n][e.id]]
      /\ UNCHANGED <<pc, host, streamID, done, streams, nextID, out, applied,
                     inflight, log, snapshot, leads, restarts>>
  BY DEF GetStream, callVars, raftVars
<1>5. streams[n][e.id] \in Commands \cup {NoStream}
  BY <1>2 DEF IndInv, TypeOK
<1> HIDE DEF e
<1>6. TypeOK'
  BY <1>1, <1>4, <1>5 DEF IndInv, TypeOK
<1>7. TargetFits'
  <2> SUFFICES ASSUME NEW k \in Nodes, target'[k] # Idle
               PROVE  /\ target'[k] # NoStream => /\ pc[target'[k]] # "idle"
                                                  /\ host[target'[k]] = k
                                                  /\ streamID[target'[k]] = NextEntry(k).id
                      /\ (host[NextEntry(k).cmd] = k /\ pc[NextEntry(k).cmd] = "waiting")
                           => target'[k] = NextEntry(k).cmd
    BY <1>4 DEF TargetFits, NextEntry
  <2>1. CASE k = n
    <3>1. target'[n] = streams[n][e.id]  BY <1>4 DEF IndInv, TypeOK
    <3>2. target'[n] # NoStream =>
            Open(target'[n]) /\ host[target'[n]] = n /\ streamID[target'[n]] = e.id
      BY <3>1, <1>2 DEF IndInv, StreamsAreOpenCalls
    <3>3. host[e.cmd] = n /\ pc[e.cmd] = "waiting" => target'[n] = e.cmd
      BY <3>1, <1>2, <1>3 DEF IndInv, StreamsAreOpenCalls, Open
    <3> QED  BY <2>1, <3>2, <3>3 DEF Open, e
  <2>2. CASE k # n
    <3>1. target'[k] = target[k]  BY <2>2, <1>4 DEF IndInv, TypeOK
    <3> QED  BY <3>1 DEF IndInv, TargetFits
  <2> QED  BY <2>1, <2>2
<1> QED  BY <1>6, <1>7

\* getStream finds the caller's own stream if the caller waits on this node:
\* its stream is still registered, under the ID the entry carries.
LEMMA GetStreamInd ==
  ASSUME IndInv, NEW n \in Nodes, GetStream(n)
  PROVE  IndInv'
<1>1. TypeOK'
  BY GetStreamTarget
<1>2. StreamsAreOpenCalls'
  BY DEF IndInv, StreamsAreOpenCalls, Open, GetStream, callVars, raftVars
<1>3. StrayOnlyAcrossNodes'
  BY DEF IndInv, StrayOnlyAcrossNodes, GetStream, callVars, raftVars
<1>4. CallsAreNumbered'
  BY DEF IndInv, CallsAreNumbered, GetStream, callVars, raftVars
<1>5. EntriesAreProposals'
  BY DEF IndInv, EntriesAreProposals, GetStream, callVars, raftVars
<1>6. TargetFits'
  BY GetStreamTarget
<1>7. OutputIsLogged'
  BY DEF IndInv, OutputIsLogged, GetStream, callVars, raftVars
<1> QED  BY <1>1, <1>2, <1>3, <1>4, <1>5, <1>6, <1>7 DEF IndInv

\* What is written, and what is reported done, fits the log.
LEMMA RunCommandWrites ==
  ASSUME IndInv, NEW n \in Nodes, RunCommand(n)
  PROVE  TypeOK' /\ StrayOnlyAcrossNodes' /\ TargetFits' /\ OutputIsLogged'
<1> DEFINE e == NextEntry(n)
           s == target[n]
<1>1. s # Idle /\ applied[n] < Len(log)
  BY DEF RunCommand, IndInv, TypeOK
<1>2. applied[n] \in Nat /\ Len(log) \in Nat /\ e.cmd \in Commands
  BY <1>1, NextEntryTyped DEF IndInv, TypeOK
<1>3. /\ e.id = streamID[e.cmd]
      /\ pc[e.cmd] \notin {"idle", "registered"}
      /\ \E i \in 1..Len(log) : log[i].cmd = e.cmd
  BY <1>1, NextEntryProposed
<1>4. s # NoStream => /\ s \in Commands
                      /\ pc[s] # "idle"
                      /\ host[s] = n
                      /\ streamID[s] = e.id
  BY <1>1 DEF IndInv, TypeOK, TargetFits
<1>5. host[e.cmd] = n /\ pc[e.cmd] = "waiting" => s = e.cmd
  BY <1>1 DEF IndInv, TargetFits
<1>6. /\ out' = IF s = NoStream THEN out ELSE out \cup {<<s, e.cmd>>}
      /\ done' = IF host[e.cmd] = n /\ pc[e.cmd] = "waiting" THEN done \cup {e.cmd} ELSE done
      /\ applied' = [applied EXCEPT ![n] = @ + 1]
      /\ target' = [target EXCEPT ![n] = Idle]
      /\ UNCHANGED <<pc, host, streamID, streams, nextID, inflight, log, snapshot, leads, restarts>>
  BY DEF RunCommand, raftVars
<1> HIDE DEF e, s
<1>7. TypeOK'
  <2>1. applied' \in [Nodes -> 0..Len(log)] /\ \A k \in Nodes : snapshot[k] <= applied'[k]
    BY <1>1, <1>2, <1>6 DEF IndInv, TypeOK
  <2>2. \A k \in Nodes : target'[k] # Idle => applied'[k] < Len(log)
    BY <1>6 DEF IndInv, TypeOK
  <2>3. out' \in SUBSET (Commands \X Commands) /\ done' \in SUBSET Commands
    BY <1>2, <1>4, <1>6 DEF IndInv, TypeOK
  <2>4. target' \in [Nodes -> Commands \cup {NoStream, Idle}]
    BY <1>6 DEF IndInv, TypeOK
  <2> QED  BY <2>1, <2>2, <2>3, <2>4, <1>6 DEF IndInv, TypeOK
<1>8. StrayOnlyAcrossNodes'
  <2> SUFFICES ASSUME NEW a \in Commands, NEW c \in Commands, <<a, c>> \in out', a # c
               PROVE  streamID[a] = streamID[c] /\ (restarts = 0 => host[a] # host[c])
    BY <1>6 DEF StrayOnlyAcrossNodes
  <2>1. CASE <<a, c>> \in out  BY <2>1 DEF IndInv, StrayOnlyAcrossNodes
  <2>2. CASE <<a, c>> \notin out
    <3>1. s # NoStream /\ a = s /\ c = e.cmd  BY <2>2, <1>6
    <3> QED  BY <3>1, <1>3, <1>4 DEF IndInv, CallsAreNumbered
  <2> QED  BY <2>1, <2>2
<1>9. TargetFits'
  <2> SUFFICES ASSUME NEW k \in Nodes, target'[k] # Idle
               PROVE  /\ target[k] = target'[k] /\ target[k] # Idle
                      /\ applied'[k] = applied[k]
    BY <1>6 DEF IndInv, TargetFits, NextEntry
  <2>1. k # n  BY <1>6 DEF IndInv, TypeOK
  <2> QED  BY <2>1, <1>6 DEF IndInv, TypeOK
<1>10. OutputIsLogged'
  <2>1. ASSUME NEW a \in Commands, NEW c \in Commands, <<a, c>> \in out'
        PROVE  pc[a] # "idle" /\ \E i \in 1..Len(log) : log[i].cmd = c
    <3>1. CASE <<a, c>> \in out  BY <3>1 DEF IndInv, OutputIsLogged
    <3>2. CASE <<a, c>> \notin out
      <4>1. s # NoStream /\ a = s /\ c = e.cmd  BY <2>1, <3>2, <1>6
      <4> QED  BY <4>1, <1>3, <1>4
    <3> QED  BY <3>1, <3>2
  <2>2. ASSUME NEW c \in done' PROVE <<c, c>> \in out'
    <3>1. CASE c \in done  BY <3>1, <1>6 DEF IndInv, OutputIsLogged
    <3>2. CASE c \notin done
      <4>1. c = e.cmd /\ s = e.cmd  BY <2>2, <3>2, <1>5, <1>6
      <4> QED  BY <4>1, <1>2, <1>6
    <3> QED  BY <3>1, <3>2
  <2>3. \A c \in Commands : pc[c] \in {"succeeded", "ok"} => c \in done'
    BY <1>6 DEF IndInv, OutputIsLogged
  <2> QED  BY <2>1, <2>2, <2>3, <1>6 DEF OutputIsLogged
<1> QED  BY <1>7, <1>8, <1>9, <1>10

\* The proposal is completed only on the node where its caller waits, and there
\* the stream written to is the caller's own.
LEMMA RunCommandInd ==
  ASSUME IndInv, NEW n \in Nodes, RunCommand(n)
  PROVE  IndInv'
<1>1. TypeOK'
  BY RunCommandWrites
<1>2. StreamsAreOpenCalls'
  BY DEF IndInv, StreamsAreOpenCalls, Open, RunCommand, raftVars
<1>3. StrayOnlyAcrossNodes'
  BY RunCommandWrites
<1>4. CallsAreNumbered'
  BY DEF IndInv, CallsAreNumbered, RunCommand, raftVars
<1>5. EntriesAreProposals'
  BY DEF IndInv, EntriesAreProposals, RunCommand, raftVars
<1>6. TargetFits'
  BY RunCommandWrites
<1>7. OutputIsLogged'
  BY RunCommandWrites
<1> QED  BY <1>1, <1>2, <1>3, <1>4, <1>5, <1>6, <1>7 DEF IndInv

\* A snapshot stays within what has been applied.
LEMMA SaveSnapshotTyped ==
  ASSUME IndInv, NEW n \in Nodes, SaveSnapshot(n) PROVE TypeOK'
<1>1. snapshot' \in [Nodes -> 0..Len(log)] /\ \A k \in Nodes : snapshot'[k] <= applied[k]
  BY DEF IndInv, TypeOK, SaveSnapshot
<1> QED  BY <1>1 DEF IndInv, TypeOK, SaveSnapshot, callVars, fsmVars

\* A snapshot covers what has been applied.
LEMMA SaveSnapshotInd ==
  ASSUME IndInv, NEW n \in Nodes, SaveSnapshot(n)
  PROVE  IndInv'
<1>1. TypeOK'
  BY SaveSnapshotTyped
<1>2. StreamsAreOpenCalls'
  BY DEF IndInv, StreamsAreOpenCalls, Open, SaveSnapshot, callVars, fsmVars
<1>3. StrayOnlyAcrossNodes'
  BY DEF IndInv, StrayOnlyAcrossNodes, SaveSnapshot, callVars, fsmVars
<1>4. CallsAreNumbered'
  BY DEF IndInv, CallsAreNumbered, SaveSnapshot, callVars, fsmVars
<1>5. EntriesAreProposals'
  BY DEF IndInv, EntriesAreProposals, SaveSnapshot, callVars, fsmVars
<1>6. TargetFits'
  BY DEF IndInv, TargetFits, NextEntry, SaveSnapshot, callVars, fsmVars
<1>7. OutputIsLogged'
  BY DEF IndInv, OutputIsLogged, SaveSnapshot, callVars, fsmVars
<1> QED  BY <1>1, <1>2, <1>3, <1>4, <1>5, <1>6, <1>7 DEF IndInv

\* Only the position of an idle node moves.
LEMMA RecoverTarget ==
  ASSUME IndInv, NEW n \in Nodes, NEW m \in Nodes, RecoverFromSnapshot(n, m)
  PROVE  TypeOK' /\ TargetFits'
<1>1. /\ target[n] = Idle
      /\ applied' = [applied EXCEPT ![n] = snapshot[m]]
      /\ snapshot' = [snapshot EXCEPT ![n] = snapshot[m]]
      /\ UNCHANGED <<pc, host, streamID, done, streams, nextID, target, out, inflight, log, leads, restarts>>
  BY DEF RecoverFromSnapshot, callVars
<1>2. /\ applied' \in [Nodes -> 0..Len(log)]
      /\ snapshot' \in [Nodes -> 0..Len(log)]
      /\ \A k \in Nodes : /\ snapshot'[k] <= applied'[k]
                          /\ target[k] # Idle => applied'[k] < Len(log)
  BY <1>1 DEF IndInv, TypeOK
<1>3. TypeOK'
  BY <1>1, <1>2 DEF IndInv, TypeOK
<1>4. \A k \in Nodes : target[k] # Idle => applied'[k] = applied[k]
  BY <1>1 DEF IndInv, TypeOK
<1>5. TargetFits'
  BY <1>1, <1>4 DEF IndInv, TargetFits, NextEntry
<1> QED  BY <1>3, <1>5

\* A node that is behind jumps ahead; no Update is running on it.
LEMMA RecoverFromSnapshotInd ==
  ASSUME IndInv, NEW n \in Nodes, NEW m \in Nodes, RecoverFromSnapshot(n, m)
  PROVE  IndInv'
<1>1. TypeOK'
  BY RecoverTarget
<1>2. StreamsAreOpenCalls'
  BY DEF IndInv, StreamsAreOpenCalls, Open, RecoverFromSnapshot, callVars
<1>3. StrayOnlyAcrossNodes'
  BY DEF IndInv, StrayOnlyAcrossNodes, RecoverFromSnapshot, callVars
<1>4. CallsAreNumbered'
  BY DEF IndInv, CallsAreNumbered, RecoverFromSnapshot, callVars
<1>5. EntriesAreProposals'
  BY DEF IndInv, EntriesAreProposals, RecoverFromSnapshot, callVars
<1>6. TargetFits'
  BY RecoverTarget
<1>7. OutputIsLogged'
  BY DEF IndInv, OutputIsLogged, RecoverFromSnapshot, callVars
<1> QED  BY <1>1, <1>2, <1>3, <1>4, <1>5, <1>6, <1>7 DEF IndInv

\* One entry moves from Raft's hands to the end of the log.
LEMMA CommitLogged ==
  ASSUME IndInv, NEW e \in inflight, Commit(e)
  PROVE  EntriesAreProposals' /\ TargetFits' /\ OutputIsLogged'
<1>1. /\ inflight' = inflight \ {e}
      /\ UNCHANGED <<pc, host, streamID, done, streams, nextID, target, out, applied, snapshot, leads, restarts>>
  BY DEF Commit, callVars, fsmVars
<1>2. /\ e \in Entries /\ inflight \subseteq Entries
      /\ Len(log) \in Nat
      /\ Len(log') = Len(log) + 1
      /\ log'[Len(log) + 1] = e
      /\ \A i \in 1..Len(log) : log'[i] = log[i]
  BY DEF Commit, IndInv, TypeOK
<1>3. /\ e.id = streamID[e.cmd]
      /\ pc[e.cmd] \notin {"idle", "registered"}
      /\ \A i \in 1..Len(log) : log[i].cmd # e.cmd
  BY DEF IndInv, EntriesAreProposals
<1>4. EntriesAreProposals'
  <2>1. ASSUME NEW f \in inflight'
        PROVE  /\ f.id = streamID[f.cmd]
               /\ pc[f.cmd] \notin {"idle", "registered"}
               /\ \A i \in 1..Len(log') : log'[i].cmd # f.cmd
    <3>1. f \in inflight /\ f # e  BY <1>1
    <3>2. /\ f.id = streamID[f.cmd]
          /\ pc[f.cmd] \notin {"idle", "registered"}
          /\ \A i \in 1..Len(log) : log[i].cmd # f.cmd
      BY <3>1 DEF IndInv, EntriesAreProposals
    <3>3. f.cmd # e.cmd
      BY <3>1, <3>2, <1>2, <1>3 DEF Entries
    <3> QED  BY <3>2, <3>3, <1>2
  <2>2. ASSUME NEW i \in 1..Len(log')
        PROVE  /\ log'[i].id = streamID[log'[i].cmd]
               /\ pc[log'[i].cmd] \notin {"idle", "registered"}
    BY <1>2, <1>3 DEF IndInv, EntriesAreProposals
  <2>3. ASSUME NEW i \in 1..Len(log'), NEW j \in 1..Len(log'), log'[i].cmd = log'[j].cmd
        PROVE  i = j
    <3>1. CASE i \in 1..Len(log) /\ j \in 1..Len(log)
      BY <3>1, <2>3, <1>2 DEF IndInv, EntriesAreProposals
    <3>2. CASE i = Len(log) + 1 \/ j = Len(log) + 1
      BY <3>2, <2>3, <1>2, <1>3
    <3> QED  BY <3>1, <3>2, <1>2
  <2> QED  BY <2>1, <2>2, <2>3, <1>1 DEF EntriesAreProposals
<1>5. TargetFits'
  <2>1. ASSUME NEW k \in Nodes, target[k] # Idle
        PROVE  log'[applied[k] + 1] = log[applied[k] + 1]
    BY <2>1, <1>2, NextEntryTyped DEF IndInv, TypeOK
  <2> QED  BY <2>1, <1>1 DEF IndInv, TargetFits, NextEntry
<1>6. OutputIsLogged'
  <2>1. ASSUME NEW i \in 1..Len(log)
        PROVE  i \in 1..Len(log') /\ log'[i].cmd = log[i].cmd
    BY <1>2
  <2> QED  BY <2>1, <1>1 DEF IndInv, OutputIsLogged
<1> QED  BY <1>4, <1>5, <1>6

\* The log grows at its end, by an entry of a call that has none in it.
LEMMA CommitInd ==
  ASSUME IndInv, NEW e \in inflight, Commit(e)
  PROVE  IndInv'
<1>1. TypeOK'
  BY DEF IndInv, TypeOK, CallStates, Commit, callVars, fsmVars
<1>2. StreamsAreOpenCalls'
  BY DEF IndInv, StreamsAreOpenCalls, Open, Commit, callVars, fsmVars
<1>3. StrayOnlyAcrossNodes'
  BY DEF IndInv, StrayOnlyAcrossNodes, Commit, callVars, fsmVars
<1>4. CallsAreNumbered'
  BY DEF IndInv, CallsAreNumbered, Commit, callVars, fsmVars
<1>5. EntriesAreProposals'
  BY CommitLogged
<1>6. TargetFits'
  BY CommitLogged
<1>7. OutputIsLogged'
  BY CommitLogged
<1> QED  BY <1>1, <1>2, <1>3, <1>4, <1>5, <1>6, <1>7 DEF IndInv

\* Who leads matters to new calls only.
LEMMA ElectInd ==
  ASSUME IndInv, NEW n \in Nodes, Elect(n)
  PROVE  IndInv'
<1>1. TypeOK'
  BY DEF IndInv, TypeOK, CallStates, Elect, callVars, fsmVars
<1>2. StreamsAreOpenCalls'
  BY DEF IndInv, StreamsAreOpenCalls, Open, Elect, callVars, fsmVars
<1>3. StrayOnlyAcrossNodes'
  BY DEF IndInv, StrayOnlyAcrossNodes, Elect, callVars, fsmVars
<1>4. CallsAreNumbered'
  BY DEF IndInv, CallsAreNumbered, Elect, callVars, fsmVars
<1>5. EntriesAreProposals'
  BY DEF IndInv, EntriesAreProposals, Elect, callVars, fsmVars
<1>6. TargetFits'
  BY DEF IndInv, TargetFits, NextEntry, Elect, callVars, fsmVars
<1>7. OutputIsLogged'
  BY DEF IndInv, OutputIsLogged, Elect, callVars, fsmVars
<1> QED  BY <1>1, <1>2, <1>3, <1>4, <1>5, <1>6, <1>7 DEF IndInv

\* Who leads matters to new calls only.
LEMMA StepDownInd ==
  ASSUME IndInv, NEW n \in Nodes, StepDown(n)
  PROVE  IndInv'
<1>1. TypeOK'
  BY DEF IndInv, TypeOK, CallStates, StepDown, callVars, fsmVars
<1>2. StreamsAreOpenCalls'
  BY DEF IndInv, StreamsAreOpenCalls, Open, StepDown, callVars, fsmVars
<1>3. StrayOnlyAcrossNodes'
  BY DEF IndInv, StrayOnlyAcrossNodes, StepDown, callVars, fsmVars
<1>4. CallsAreNumbered'
  BY DEF IndInv, CallsAreNumbered, StepDown, callVars, fsmVars
<1>5. EntriesAreProposals'
  BY DEF IndInv, EntriesAreProposals, StepDown, callVars, fsmVars
<1>6. TargetFits'
  BY DEF IndInv, TargetFits, NextEntry, StepDown, callVars, fsmVars
<1>7. OutputIsLogged'
  BY DEF IndInv, OutputIsLogged, StepDown, callVars, fsmVars
<1> QED  BY <1>1, <1>2, <1>3, <1>4, <1>5, <1>6, <1>7 DEF IndInv

\* Only the node that crashes loses streams and its Update.
LEMMA RestartCutsOff ==
  ASSUME IndInv, NEW n \in Nodes, Restart(n)
  PROVE  StreamsAreOpenCalls' /\ EntriesAreProposals' /\ TargetFits'
<1>1. /\ streams' = [streams EXCEPT ![n] = [i \in StreamIDs |-> NoStream]]
      /\ target' = [target EXCEPT ![n] = Idle]
      /\ applied' = [applied EXCEPT ![n] = snapshot[n]]
      /\ UNCHANGED <<host, streamID, inflight, log>>
  BY DEF Restart
<1>2. \A c \in Commands :
        /\ host[c] = n => pc'[c] = IF Open(c) THEN "lost" ELSE pc[c]
        /\ host[c] # n => pc'[c] = pc[c]
  BY DEF Restart
<1>3. \A k \in Nodes, i \in StreamIDs :
        streams'[k][i] = IF k = n THEN NoStream ELSE streams[k][i]
  BY <1>1 DEF IndInv, TypeOK
<1>4. StreamsAreOpenCalls'
  <2>1. ASSUME NEW c \in Commands, Open(c)'
        PROVE  streams'[host[c]][streamID[c]] = c
    <3>1. Open(c) /\ host[c] # n  BY <2>1, <1>2 DEF Open
    <3>2. host[c] \in Nodes /\ streamID[c] \in StreamIDs /\ streams[host[c]][streamID[c]] = c
      BY <3>1 DEF IndInv, CallsAreNumbered, StreamsAreOpenCalls, Open
    <3> QED  BY <3>1, <3>2, <1>3
  <2>2. ASSUME NEW k \in Nodes, NEW i \in StreamIDs, streams'[k][i] # NoStream
        PROVE  (LET c == streams[k][i]
                IN  Open(c) /\ host[c] = k /\ streamID[c] = i)'
    <3>1. k # n /\ streams'[k][i] = streams[k][i] /\ streams[k][i] \in Commands
      BY <2>2, <1>3 DEF IndInv, TypeOK
    <3>2. Open(streams[k][i]) /\ host[streams[k][i]] = k /\ streamID[streams[k][i]] = i
      BY <3>1, <2>2 DEF IndInv, StreamsAreOpenCalls
    <3> QED  BY <3>1, <3>2, <1>1, <1>2 DEF Open
  <2> QED  BY <2>1, <2>2, <1>1 DEF StreamsAreOpenCalls
<1>5. \A c \in Commands : /\ pc[c] \notin {"idle", "registered"}
                             => pc'[c] \notin {"idle", "registered"}
                          /\ pc[c] # "idle" => pc'[c] # "idle"
                          /\ pc'[c] = "waiting" => pc[c] = "waiting"
  BY <1>2 DEF Open
<1>6. EntriesAreProposals'
  <2>1. \A e \in inflight : e.cmd \in Commands
    BY DEF IndInv, TypeOK, Entries
  <2>2. \A i \in 1..Len(log) : log[i].cmd \in Commands
    <3>1. log \in Seq(Entries)  BY DEF IndInv, TypeOK
    <3>2. \A i \in 1..Len(log) : log[i] \in Entries  BY <3>1
    <3> QED  BY <3>2 DEF Entries
  <2> QED  BY <2>1, <2>2, <1>1, <1>5 DEF IndInv, EntriesAreProposals
<1>7. TargetFits'
  <2> SUFFICES ASSUME NEW k \in Nodes, target'[k] # Idle
               PROVE  /\ target'[k] # NoStream => /\ pc'[target'[k]] # "idle"
                                                  /\ host[target'[k]] = k
                                                  /\ streamID[target'[k]] = NextEntry(k)'.id
                      /\ (host[NextEntry(k)'.cmd] = k /\ pc'[NextEntry(k)'.cmd] = "waiting")
                           => target'[k] = NextEntry(k)'.cmd
    BY <1>1 DEF TargetFits
  <2>1. k # n /\ target'[k] = target[k] /\ NextEntry(k)' = NextEntry(k)
    BY <1>1 DEF IndInv, TypeOK, NextEntry
  <2>2. NextEntry(k).cmd \in Commands /\ (target[k] # NoStream => target[k] \in Commands)
    BY <2>1, NextEntryTyped DEF IndInv, TypeOK
  <2> QED  BY <2>1, <2>2, <1>5 DEF IndInv, TargetFits
<1> QED  BY <1>4, <1>6, <1>7

\* A crash cuts off the calls of its node together with their streams and the
\* Update in progress.
LEMMA RestartInd ==
  ASSUME IndInv, NEW n \in Nodes, Restart(n)
  PROVE  IndInv'
<1>1. TypeOK'
  BY DEF IndInv, TypeOK, CallStates, Restart
<1>2. StreamsAreOpenCalls'
  BY RestartCutsOff
<1>3. StrayOnlyAcrossNodes'
  BY DEF IndInv, StrayOnlyAcrossNodes, TypeOK, Restart, Open
<1>4. CallsAreNumbered'
  BY DEF IndInv, CallsAreNumbered, TypeOK, Restart, Open
<1>5. EntriesAreProposals'
  BY RestartCutsOff
<1>6. TargetFits'
  BY RestartCutsOff
<1>7. OutputIsLogged'
  BY DEF IndInv, OutputIsLogged, Restart
<1> QED  BY <1>1, <1>2, <1>3, <1>4, <1>5, <1>6, <1>7 DEF IndInv

\* A step that changes nothing.
LEMMA StutterInd == ASSUME IndInv, UNCHANGED vars PROVE IndInv'
<1> USE DEF IndInv, vars, callVars, fsmVars, raftVars
<1>1. TypeOK'  BY DEF TypeOK
<1>2. StreamsAreOpenCalls'  BY DEF StreamsAreOpenCalls, Open
<1>3. StrayOnlyAcrossNodes'  BY DEF StrayOnlyAcrossNodes
<1>4. CallsAreNumbered'  BY DEF CallsAreNumbered
<1>5. EntriesAreProposals'  BY DEF EntriesAreProposals
<1>6. TargetFits'  BY DEF TargetFits, NextEntry
<1>7. OutputIsLogged'  BY DEF OutputIsLogged
<1> QED  BY <1>1, <1>2, <1>3, <1>4, <1>5, <1>6, <1>7

\* IndInv holds in every reachable state.
THEOREM Inductive == Spec => []IndInv
<1>1. Init => IndInv
  BY InitInd
<1>2. IndInv /\ [Next]_vars => IndInv'
  <2> SUFFICES ASSUME IndInv, Next PROVE IndInv'
    BY StutterInd
  <2>1. ASSUME NEW c \in Commands, CallStep(c) PROVE IndInv'
    BY <2>1, AddStreamInd, ProposeInd, CommandFailsInd, CommandSucceedsInd,
       RemoveStreamInd DEF CallStep
  <2>2. ASSUME NEW n \in Nodes, NodeStep(n) PROVE IndInv'
    BY <2>2, GetStreamInd, RunCommandInd, SaveSnapshotInd,
       RecoverFromSnapshotInd DEF NodeStep
  <2>3. ASSUME RaftStep PROVE IndInv'
    BY <2>3, CommitInd, ElectInd, StepDownInd, RestartInd DEF RaftStep
  <2> QED  BY <2>1, <2>2, <2>3 DEF Next
<1> QED  BY <1>1, <1>2, PTL DEF Spec

-----------------------------------------------------------------------------
(* The invariants.                                                         *)

\* The state keeps its shape.
THEOREM Typed == Spec => []TypeOK
<1>1. IndInv => TypeOK  BY DEF IndInv
<1> QED  BY <1>1, Inductive, PTL

\* A node's streamManager holds the streams of its open calls and no others:
\* no reply loses its stream, and no stream leaks.
THEOREM StreamsMatchCalls == Spec => []StreamsAreOpenCalls
<1>1. IndInv => StreamsAreOpenCalls  BY DEF IndInv
<1> QED  BY <1>1, Inductive, PTL

\* A SyncCommand that returns nil was committed and answered on its stream.
THEOREM AckedAnswered == Spec => []AckedImpliesAnswered
<1>1. IndInv => AckedImpliesAnswered
  BY DEF IndInv, OutputIsLogged, AckedImpliesAnswered
<1> QED  BY <1>1, Inductive, PTL

\* Without a restart, output strays between the calls of two nodes only, and
\* only between equal IDs.
THEOREM StrayAcrossNodes == Spec => []StrayOnlyAcrossNodes
<1>1. IndInv => StrayOnlyAcrossNodes  BY DEF IndInv
<1> QED  BY <1>1, Inductive, PTL

-----------------------------------------------------------------------------
(* CommandStreams implements CommandService.                               *)

\* The history is the log without the IDs.
LEMMA HistoryOfLog ==
  ASSUME TypeOK
  PROVE  /\ history \in Seq(Commands)
         /\ Len(history) = Len(log)
         /\ \A i \in 1..Len(log) : history[i] = log[i].cmd
<1>1. log \in Seq(Entries) /\ Len(log) \in Nat  BY DEF TypeOK
<1>2. \A i \in 1..Len(log) : log[i] \in Entries  BY <1>1
<1>3. \A i \in 1..Len(log) : log[i].cmd \in Commands  BY <1>2 DEF Entries
<1> QED  BY <1>1, <1>3 DEF history

\* The status of a call, state by state.
LEMMA StatusOfCall ==
  ASSUME NEW c \in Commands
  PROVE  /\ status[c] = CASE pc[c] = "idle" -> "new"
                          [] Open(c) -> "open"
                          [] pc[c] = "ok" -> "ok"
                          [] OTHER -> "failed"
         /\ pc[c] = "idle" <=> status[c] = "new"
         /\ Open(c) <=> status[c] = "open"
         /\ pc[c] = "ok" <=> status[c] = "ok"
         /\ pc[c] \notin {"idle", "ok"} /\ ~Open(c) <=> status[c] = "failed"
BY DEF status, Open

\* Nothing is called, executed or answered in the beginning.
LEMMA InitService == Init => Service!Init
<1> SUFFICES ASSUME Init PROVE Service!Init
  OBVIOUS
<1>1. status = [c \in Commands |-> "new"]
  <2>1. \A c \in Commands : pc[c] = "idle"  BY DEF Init
  <2>2. \A c \in Commands : status[c] = "new"  BY <2>1, StatusOfCall
  <2>3. status = [c \in Commands |-> status[c]]  BY DEF status
  <2> QED  BY <2>2, <2>3
<1>2. history = <<>>
  BY DEF Init, history
<1>3. answered = {}
  BY DEF Init, answered
<1> QED  BY <1>1, <1>2, <1>3 DEF Service!Init

\* addStream is the call, the commit the execution, a write to the caller's
\* own stream the answer, and removeStream the return.
LEMMA StepService ==
  ASSUME IndInv, [Next]_vars
  PROVE  [Service!Next]_(Service!vars)
<1> SUFFICES ASSUME Next PROVE Service!Next \/ UNCHANGED <<status, history, answered>>
  BY DEF vars, callVars, fsmVars, raftVars, Service!vars, status, history, answered, Open
<1>1. ASSUME NEW c \in Commands, NEW n \in Nodes, AddStream(c, n)
      PROVE  Service!Next
  <2>1. status[c] = "new" /\ status' = [status EXCEPT ![c] = "open"]
    BY <1>1 DEF IndInv, TypeOK, AddStream, status, Open
  <2>2. history' = history /\ answered' = answered
    BY <1>1 DEF AddStream, fsmVars, raftVars, history, answered
  <2> QED  BY <2>1, <2>2 DEF Service!Next, Service!Call
<1>2. ASSUME NEW c \in Commands, Propose(c) \/ CommandFails(c) \/ CommandSucceeds(c)
      PROVE  UNCHANGED <<status, history, answered>>
  <2>1. status' = status
    BY <1>2 DEF IndInv, TypeOK, Propose, CommandFails, CommandSucceeds, status, Open
  <2> QED  BY <1>2, <2>1 DEF Propose, CommandFails, CommandSucceeds, fsmVars, raftVars, history, answered
<1>3. ASSUME NEW c \in Commands, RemoveStream(c)
      PROVE  Service!Next
  <2>1. status[c] = "open" /\ history' = history /\ answered' = answered
    BY <1>3 DEF RemoveStream, fsmVars, raftVars, history, answered, status, Open
  <2>2. CASE pc[c] = "succeeded"
    <3>1. status' = [status EXCEPT ![c] = "ok"]
      BY <1>3, <2>2 DEF IndInv, TypeOK, RemoveStream, status, Open
    <3>2. c \in answered
      BY <2>2 DEF IndInv, OutputIsLogged, answered
    <3> QED  BY <2>1, <3>1, <3>2 DEF Service!Next, Service!Succeed
  <2>3. CASE pc[c] = "failing"
    <3>1. status' = [d \in Commands |-> IF d \in {c} THEN "failed" ELSE status[d]]
      BY <1>3, <2>3 DEF IndInv, TypeOK, RemoveStream, status, Open
    <3>2. Service!Fail({c})
      BY <2>1, <3>1 DEF Service!Fail
    <3> QED  BY <3>2 DEF Service!Next
  <2> QED  BY <1>3, <2>2, <2>3 DEF RemoveStream
<1>4. ASSUME NEW n \in Nodes, RunCommand(n)
      PROVE  Service!Next \/ UNCHANGED <<status, history, answered>>
  <2> DEFINE c == NextEntry(n).cmd
  <2>1. applied[n] < Len(log)  BY <1>4 DEF RunCommand, IndInv, TypeOK
  <2>2. status' = status /\ history' = history
    BY <1>4 DEF RunCommand, raftVars, status, history, Open
  <2>3. c \in Commands /\ c \in Service!Executed
    BY <2>1, NextEntryTyped, NextEntryProposed, HistoryOfLog DEF IndInv, Service!Executed
  <2>4. answered' = answered \/ answered' = answered \cup {c}
    BY <1>4, <2>3 DEF RunCommand, answered
  <2> HIDE DEF c
  <2> QED  BY <2>2, <2>3, <2>4 DEF Service!Next, Service!Answer
<1>5. ASSUME NEW n \in Nodes, NEW m \in Nodes,
             \/ GetStream(n) \/ SaveSnapshot(n) \/ RecoverFromSnapshot(n, m)
             \/ Elect(n) \/ StepDown(n)
      PROVE  UNCHANGED <<status, history, answered>>
  BY <1>5 DEF GetStream, SaveSnapshot, RecoverFromSnapshot, Elect, StepDown,
              callVars, fsmVars, raftVars, status, history, answered, Open
<1>6. ASSUME NEW e \in inflight, Commit(e)
      PROVE  Service!Next
  <2>1. /\ e.cmd \in Commands
        /\ log \in Seq(Entries) /\ Len(log) \in Nat
        /\ log' = Append(log, e)
    BY <1>6 DEF IndInv, TypeOK, Entries, Commit
  <2>2. status[e.cmd] \in {"open", "failed", "ok"}
    BY <2>1, StatusOfCall DEF IndInv, EntriesAreProposals
  <2>3. e.cmd \notin Service!Executed
    BY HistoryOfLog DEF IndInv, EntriesAreProposals, Service!Executed
  <2>4. status[e.cmd] # "ok"
    <3>1. SUFFICES ASSUME pc[e.cmd] = "ok" PROVE FALSE
      BY <2>1, StatusOfCall
    <3>2. <<e.cmd, e.cmd>> \in out
      BY <2>1, <3>1 DEF IndInv, OutputIsLogged
    <3>3. PICK i \in 1..Len(log) : log[i].cmd = e.cmd
      BY <2>1, <3>2 DEF IndInv, OutputIsLogged
    <3> QED  BY <3>3 DEF IndInv, EntriesAreProposals
  <2>5. history' = Append(history, e.cmd)
    <3>1. Len(log') = Len(log) + 1 /\ log'[Len(log) + 1] = e
      BY <2>1
    <3>2. \A i \in 1..Len(log) : log'[i] = log[i]
      BY <2>1
    <3>3. history' = [i \in 1..Len(log) + 1 |-> IF i = Len(log) + 1 THEN e.cmd ELSE log[i].cmd]
      BY <2>1, <3>1, <3>2 DEF history
    <3>4. /\ history \in Seq(Commands)
          /\ Len(history) = Len(log)
          /\ \A i \in 1..Len(log) : history[i] = log[i].cmd
      BY HistoryOfLog DEF IndInv
    <3>5. Append(history, e.cmd) = [i \in 1..Len(log) + 1 |-> IF i = Len(log) + 1 THEN e.cmd ELSE log[i].cmd]
      BY <3>4, <2>1
    <3> QED  BY <3>3, <3>5
  <2>6. UNCHANGED <<status, answered>>
    BY <1>6 DEF Commit, callVars, fsmVars, status, answered, Open
  <2> QED  BY <2>1, <2>2, <2>3, <2>4, <2>5, <2>6 DEF Service!Next, Service!Execute
<1>7. ASSUME NEW n \in Nodes, Restart(n)
      PROVE  Service!Next
  <2> DEFINE C == {c \in Commands : host[c] = n /\ Open(c)}
  <2>1. \A c \in C : status[c] = "open"
    BY StatusOfCall
  <2>2. status' = [c \in Commands |-> IF c \in C THEN "failed" ELSE status[c]]
    BY <1>7 DEF Restart, status, Open
  <2>3. history' = history /\ answered' = answered
    BY <1>7 DEF Restart, history, answered
  <2>4. C \in SUBSET Commands  OBVIOUS
  <2> HIDE DEF C
  <2>5. Service!Fail(C)
    BY <2>1, <2>2, <2>3 DEF Service!Fail
  <2> QED  BY <2>4, <2>5 DEF Service!Next
<1> QED  BY <1>1, <1>2, <1>3, <1>4, <1>5, <1>6, <1>7
         DEF Next, CallStep, NodeStep, RaftStep

\* The partition keeps the promises of CommandService to its callers.
THEOREM ImplementsService == Spec => ServiceSpec
<1>1. Init => Service!Init
  BY InitService
<1>2. IndInv /\ [Next]_vars => [Service!Next]_(Service!vars)
  BY StepService
<1> QED  BY <1>1, <1>2, Inductive, PTL DEF Spec, ServiceSpec, Service!Spec
=============================================================================
