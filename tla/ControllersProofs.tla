-------------------------- MODULE ControllersProofs --------------------------
(***************************************************************************)
(* Proofs about Controllers: the objects are of their types and in order,  *)
(* no controller is forgotten while it has something to create, and when   *)
(* nothing is left to do everything is there.                              *)
(***************************************************************************)
EXTENDS Controllers, TLAPS

-----------------------------------------------------------------------------
(* The names of the objects.                                               *)

\* Who is who.
LEMMA Names ==
  /\ Protocol \in Objects /\ Cluster \in Objects
  /\ \A g \in GroupIDs : Group(g) \in Objects /\ Group(g) \in Groups
  /\ \A g \in GroupIDs, j \in MemberIDs : Member(g, j) \in Objects /\ Member(g, j) \in Members
  /\ \A o \in Objects : \/ o = Protocol \/ o = Cluster
                        \/ \E g \in GroupIDs : o = Group(g)
                        \/ \E g \in GroupIDs, j \in MemberIDs : o = Member(g, j)
  BY DEF Objects, Groups, Members

\* No object has two names.
LEMMA Distinct ==
  /\ Protocol # Cluster
  /\ \A g \in GroupIDs : Group(g) # Protocol /\ Group(g) # Cluster
  /\ \A g, h \in GroupIDs : Group(g) = Group(h) => g = h
  /\ \A g \in GroupIDs, j \in MemberIDs : Member(g, j) # Protocol /\ Member(g, j) # Cluster
  /\ \A g, h \in GroupIDs, j \in MemberIDs : Member(g, j) # Group(h)
  /\ \A g, h \in GroupIDs, j, k \in MemberIDs :
       Member(g, j) = Member(h, k) => g = h /\ j = k
  BY DEF Protocol, Cluster, Group, Member

\* Every object but the protocol has the owner that creates it.
LEMMA Owners ==
  /\ Owner(Cluster) = Protocol
  /\ \A g \in GroupIDs : Owner(Group(g)) = Cluster
  /\ \A g \in GroupIDs, j \in MemberIDs : Owner(Member(g, j)) = Group(g)
<1>1. Cluster \notin Groups /\ Cluster \notin Members
  BY Distinct DEF Groups, Members
<1>2. \A g \in GroupIDs : Group(g) \in Groups /\ Group(g) \notin Members
  BY Distinct DEF Groups, Members
<1>3. \A g \in GroupIDs, j \in MemberIDs :
        Member(g, j) \in Members /\ Member(g, j) \notin Groups
  BY Distinct DEF Groups, Members
<1>4. Owner(Cluster) = Protocol
  BY <1>1 DEF Owner
<1>5. \A g \in GroupIDs : Owner(Group(g)) = Cluster
  BY <1>1, <1>2, Distinct DEF Owner
<1>6. ASSUME NEW g \in GroupIDs, NEW j \in MemberIDs
      PROVE  Owner(Member(g, j)) = Group(g)
  <2>1. Owner(Member(g, j)) = Group(Member(g, j)[2])
    BY <1>3, Distinct DEF Owner
  <2>2. Member(g, j)[2] = g
    BY DEF Member
  <2> QED  BY <2>1, <2>2
<1> QED  BY <1>4, <1>5, <1>6

-----------------------------------------------------------------------------
(* What the parts of a pass write.                                         *)

Statuses == States \cup {"blank"}

\* An object is there that was not there before.
LEMMA CreateFields ==
  ASSUME TypeOK, NEW o \in Objects, NEW new \in Objects, Create(o, new)
  PROVE  /\ obj' \in [Objects -> Statuses \cup {Absent}]
         /\ fresh' \in [Objects -> BOOLEAN] /\ queued' \in [Objects -> BOOLEAN]
         /\ obj[new] = Absent /\ obj'[new] # Absent /\ ~fresh'[new]
         /\ \A x \in Objects : x # new => obj'[x] = obj[x] /\ fresh'[x] = fresh[x]
         /\ \A x \in Objects : x # o => queued'[x] = queued[x]
         /\ cache' = cache /\ pod' = pod /\ podChanges' = podChanges
<1>1. /\ obj \in [Objects -> Statuses \cup {Absent}]
      /\ fresh \in [Objects -> BOOLEAN] /\ queued \in [Objects -> BOOLEAN]
  BY DEF TypeOK, Statuses
<1>2. /\ obj[new] = Absent /\ obj' = [obj EXCEPT ![new] = "none"]
      /\ fresh' = [fresh EXCEPT ![new] = FALSE]
      /\ queued' = queued \/ queued' = [queued EXCEPT ![o] = FALSE]
      /\ cache' = cache /\ pod' = pod /\ podChanges' = podChanges
  BY DEF Create, pods
<1>3. "none" \in Statuses /\ "none" # Absent
  BY DEF Statuses, States, Absent
<1>4. /\ obj' \in [Objects -> Statuses \cup {Absent}] /\ obj'[new] = "none"
      /\ \A x \in Objects : x # new => obj'[x] = obj[x]
  BY <1>1, <1>2, <1>3
<1>5. /\ fresh' \in [Objects -> BOOLEAN] /\ ~fresh'[new]
      /\ \A x \in Objects : x # new => fresh'[x] = fresh[x]
  BY <1>1, <1>2
<1>6. /\ queued' \in [Objects -> BOOLEAN]
      /\ \A x \in Objects : x # o => queued'[x] = queued[x]
  BY <1>1, <1>2
<1> QED  BY <1>2, <1>3, <1>4, <1>5, <1>6

\* A pass that ends with the status leaves the other objects alone; if it
\* wrote something, the copy of its object is stale afterwards.
LEMMA StatusFields ==
  ASSUME TypeOK, NEW o \in Objects, cache[o] # Absent, NEW s \in Statuses,
         Done(o) \/ Update(o, s)
  PROVE  /\ obj' \in [Objects -> Statuses \cup {Absent}]
         /\ fresh' \in [Objects -> BOOLEAN] /\ queued' \in [Objects -> BOOLEAN]
         /\ obj[o] # Absent /\ obj'[o] # Absent
         /\ fresh'[o] => fresh[o] /\ obj'[o] = obj[o]
         /\ \A x \in Objects : x # o => /\ obj'[x] = obj[x] /\ fresh'[x] = fresh[x]
                                        /\ queued'[x] = queued[x]
         /\ cache' = cache /\ pod' = pod /\ podChanges' = podChanges
<1>1. /\ obj \in [Objects -> Statuses \cup {Absent}] /\ obj[o] # Absent
      /\ fresh \in [Objects -> BOOLEAN] /\ queued \in [Objects -> BOOLEAN]
  BY DEF TypeOK, Statuses
<1>2. s # Absent
  BY DEF Statuses, States, Absent
<1>3. CASE Done(o)
  BY <1>1, <1>3 DEF Done, pods
<1>4. CASE Update(o, s)
  <2>1. /\ obj' = [obj EXCEPT ![o] = s] /\ fresh' = [fresh EXCEPT ![o] = FALSE]
        /\ queued' = [queued EXCEPT ![o] = FALSE]
        /\ cache' = cache /\ pod' = pod /\ podChanges' = podChanges
    BY <1>4 DEF Update, pods
  <2>2. /\ obj' \in [Objects -> Statuses \cup {Absent}] /\ obj'[o] = s
        /\ \A x \in Objects : x # o => obj'[x] = obj[x]
    BY <1>1, <2>1
  <2>3. /\ fresh' \in [Objects -> BOOLEAN] /\ ~fresh'[o]
        /\ \A x \in Objects : x # o => fresh'[x] = fresh[x]
    BY <1>1, <2>1
  <2>4. /\ queued' \in [Objects -> BOOLEAN]
        /\ \A x \in Objects : x # o => queued'[x] = queued[x]
    BY <1>1, <2>1
  <2> QED  BY <1>1, <1>2, <2>1, <2>2, <2>3, <2>4
<1> QED  BY <1>3, <1>4

-----------------------------------------------------------------------------
(* The steps.                                                              *)

\* A pass that creates an object is forgotten only when what it has created
\* will wake it, or its new object its own controller.
LEMMA CreateKeeps ==
  ASSUME IndInv, NEW o \in Objects, NEW new \in Objects, Create(o, new),
         new # Protocol => Owner(new) = o, cache[o] # Absent, deployed' = deployed,
         \A g \in GroupIDs : new = Group(g) =>
           \A i \in 1..g - 1 : cache[Group(i)] # Absent,
         \A g \in GroupIDs, j \in MemberIDs : new = Member(g, j) =>
           \A i \in 0..j - 1 : cache[Member(g, i)] # Absent
  PROVE  IndInv'
<1> USE DEF IndInv
<1>1. /\ obj' \in [Objects -> Statuses \cup {Absent}]
      /\ fresh' \in [Objects -> BOOLEAN] /\ queued' \in [Objects -> BOOLEAN]
      /\ obj[new] = Absent /\ obj'[new] # Absent /\ ~fresh'[new]
      /\ \A x \in Objects : x # new => obj'[x] = obj[x] /\ fresh'[x] = fresh[x]
      /\ \A x \in Objects : x # o => queued'[x] = queued[x]
      /\ cache' = cache /\ pod' = pod /\ podChanges' = podChanges
  BY CreateFields
<1>2. new # Protocol /\ Owner(new) = o
  BY <1>1 DEF NoneForgotten
<1>3. /\ \A x \in Objects : obj[x] = Absent => cache[x] = Absent
      /\ \A x \in Objects : x # Protocol /\ obj[x] # Absent => obj[Owner(x)] # Absent
      /\ \A x \in Objects : fresh[x] => cache[x] = obj[x]
  BY DEF TypeOK
<1>4. \A x \in Objects : x # Protocol => Owner(x) \in Objects
  BY Names, Owners
<1>5. TypeOK'
  <2>1. \A x \in Objects : /\ obj'[x] = Absent => cache'[x] = Absent
                           /\ fresh'[x] => cache'[x] = obj'[x]
    BY <1>1, <1>3
  <2>2. ASSUME NEW x \in Objects, x # Protocol, obj'[x] # Absent PROVE obj'[Owner(x)] # Absent
    <3>1. Owner(x) \in Objects
      BY <1>4, <2>2
    <3>2. obj[Owner(x)] # Absent
      BY <1>1, <1>2, <1>3, <2>2
    <3> QED  BY <1>1, <3>1, <3>2
  <2> QED  BY <1>1, <2>1, <2>2 DEF TypeOK, Statuses
<1>6. \/ new = Cluster /\ o = Protocol
      \/ \E g \in GroupIDs : new = Group(g) /\ o = Cluster
      \/ \E g \in GroupIDs, j \in MemberIDs : new = Member(g, j) /\ o = Group(g)
  BY <1>2, Names, Owners
<1>7. CreatedInOrder'
  <2>1. \A x \in Objects : obj[x] # Absent => obj'[x] # Absent
    BY <1>1
  <2>2. ASSUME NEW g \in GroupIDs, obj'[Group(g)] # Absent, NEW i \in 1..g - 1
        PROVE  obj'[Group(i)] # Absent
    <3>1. i \in GroupIDs
      BY <2>2, SpecAssumption DEF GroupIDs
    <3>2. obj[Group(i)] # Absent
      BY <1>1, <1>3, <2>2, <3>1, Names DEF CreatedInOrder
    <3> QED  BY <2>1, <3>1, <3>2, Names
  <2>3. ASSUME NEW g \in GroupIDs, NEW j \in MemberIDs, obj'[Member(g, j)] # Absent,
               NEW i \in 0..j - 1
        PROVE  obj'[Member(g, i)] # Absent
    <3>1. i \in MemberIDs
      BY <2>3, SpecAssumption DEF MemberIDs
    <3>2. obj[Member(g, i)] # Absent
      BY <1>1, <1>3, <2>3, <3>1, Names DEF CreatedInOrder
    <3> QED  BY <2>1, <3>1, <3>2, Names
  <2>4. deployed' > 0 => Exists(obj', Groups)
    BY <2>1 DEF CreatedInOrder, Exists, Objects
  <2>5. \A p \in Pods : pod'[p] # Absent => deployed' >= StatefulSet
    BY <1>1 DEF CreatedInOrder
  <2> QED  BY <2>2, <2>3, <2>4, <2>5 DEF CreatedInOrder
<1>8. NoneForgotten'
  <2>1. obj'[Protocol] # Absent
    BY <1>1, <1>2, Names DEF NoneForgotten
  <2>2. obj'[Cluster] = Absent => queued'[Protocol] \/ ~fresh'[Protocol]
    BY <1>1, <1>2, <1>6, Names, Distinct DEF NoneForgotten
  <2>3. ASSUME obj'[Cluster] # Absent, ~(Exists(obj', Groups) /\ deployed' = Deployed)
        PROVE  queued'[Cluster] \/ ~fresh'[Cluster] \/ \E g \in GroupIDs : ~fresh'[Group(g)]
    <3>1. CASE new = Cluster \/ \E g \in GroupIDs : new = Group(g)
      BY <1>1, <3>1
    <3>2. CASE \E g \in GroupIDs, j \in MemberIDs : new = Member(g, j) /\ o = Group(g)
      <4>1. /\ obj'[Cluster] = obj[Cluster] /\ fresh'[Cluster] = fresh[Cluster]
            /\ queued'[Cluster] = queued[Cluster]
            /\ \A g \in GroupIDs : /\ obj'[Group(g)] = obj[Group(g)]
                                   /\ fresh'[Group(g)] = fresh[Group(g)]
        BY <1>1, <3>2, Names, Distinct
      <4>2. ~(Exists(obj, Groups) /\ deployed = Deployed)
        BY <2>3, <4>1 DEF Exists, Groups
      <4> QED  BY <2>3, <4>1, <4>2 DEF NoneForgotten
    <3> QED  BY <1>6, <3>1, <3>2
  <2>4. ASSUME NEW g \in GroupIDs, obj'[Group(g)] # Absent,
               NEW j \in MemberIDs, obj'[Member(g, j)] = Absent
        PROVE  \/ queued'[Group(g)] \/ ~fresh'[Group(g)]
               \/ \E k \in MemberIDs : ~fresh'[Member(g, k)]
    <3>1. CASE new = Group(g) \/ \E k \in MemberIDs : new = Member(g, k)
      BY <1>1, <3>1
    <3>2. CASE new # Group(g) /\ \A k \in MemberIDs : new # Member(g, k)
      <4>1. /\ obj[Group(g)] # Absent /\ obj[Member(g, j)] = Absent
            /\ fresh'[Group(g)] = fresh[Group(g)]
            /\ \A k \in MemberIDs : fresh'[Member(g, k)] = fresh[Member(g, k)]
        BY <1>1, <2>4, <3>2, Names
      <4>2. o # Group(g)
        BY <1>6, <3>2, Distinct
      <4> QED  BY <1>1, <4>1, <4>2, Names DEF NoneForgotten
    <3> QED  BY <3>1, <3>2
  <2> QED  BY <2>1, <2>2, <2>3, <2>4 DEF NoneForgotten
<1>9. StatusNotForgotten'
  <2>1. obj'[Protocol] = obj[Protocol] /\ fresh'[Protocol] = fresh[Protocol]
    BY <1>1, <1>2, Names
  <2>2. CASE new = Cluster
    BY <1>1, <2>1, <2>2 DEF StatusNotForgotten
  <2>3. CASE new # Cluster
    <3>1. o # Protocol
      BY <1>6, <2>3, Distinct
    <3> QED  BY <1>1, <2>1, <2>3, <3>1, Names DEF StatusNotForgotten
  <2> QED  BY <2>2, <2>3
<1> QED  BY <1>5, <1>7, <1>8, <1>9

\* A pass that ends with the status has had nothing to create.
LEMMA StatusKeeps ==
  ASSUME IndInv, NEW o \in Objects, cache[o] # Absent, NEW s \in Statuses,
         Done(o) \/ Update(o, s), deployed' = deployed,
         o = Protocol => /\ cache[Cluster] # Absent /\ s = "blank"
                         /\ cache[Protocol] = "blank" \/ Update(Protocol, s),
         o = Cluster => Exists(cache, Groups) /\ deployed = Deployed,
         \A g \in GroupIDs : o = Group(g) =>
           \A j \in MemberIDs : cache[Member(g, j)] # Absent
  PROVE  IndInv'
<1> USE DEF IndInv
<1>1. /\ obj' \in [Objects -> Statuses \cup {Absent}]
      /\ fresh' \in [Objects -> BOOLEAN] /\ queued' \in [Objects -> BOOLEAN]
      /\ obj[o] # Absent /\ obj'[o] # Absent
      /\ fresh'[o] => fresh[o] /\ obj'[o] = obj[o]
      /\ \A x \in Objects : x # o => /\ obj'[x] = obj[x] /\ fresh'[x] = fresh[x]
                                     /\ queued'[x] = queued[x]
      /\ cache' = cache /\ pod' = pod /\ podChanges' = podChanges
  BY StatusFields
<1>2. /\ \A x \in Objects : obj[x] = Absent => cache[x] = Absent
      /\ \A x \in Objects : x # Protocol /\ obj[x] # Absent => obj[Owner(x)] # Absent
      /\ \A x \in Objects : fresh[x] => cache[x] = obj[x]
  BY DEF TypeOK
<1>3. \A x \in Objects : obj'[x] = Absent <=> obj[x] = Absent
  BY <1>1
<1>4. \A x \in Objects : x # Protocol => Owner(x) \in Objects
  BY Names, Owners
<1>5. TypeOK'
  <2>1. \A x \in Objects : /\ obj'[x] = Absent => cache'[x] = Absent
                           /\ fresh'[x] => cache'[x] = obj'[x]
    BY <1>1, <1>2
  <2>2. \A x \in Objects : x # Protocol /\ obj'[x] # Absent => obj'[Owner(x)] # Absent
    BY <1>2, <1>3, <1>4
  <2> QED  BY <1>1, <2>1, <2>2 DEF TypeOK, Statuses
<1>6. CreatedInOrder'
  <2>1. \A g \in GroupIDs : \A i \in 1..g - 1 : i \in GroupIDs
    BY SpecAssumption DEF GroupIDs
  <2>2. \A j \in MemberIDs : \A i \in 0..j - 1 : i \in MemberIDs
    BY SpecAssumption DEF MemberIDs
  <2>3. /\ \A g \in GroupIDs : obj'[Group(g)] = Absent <=> obj[Group(g)] = Absent
        /\ \A g \in GroupIDs, j \in MemberIDs :
             obj'[Member(g, j)] = Absent <=> obj[Member(g, j)] = Absent
    BY <1>3, Names
  <2>4. Exists(obj', Groups) <=> Exists(obj, Groups)
    BY <2>3 DEF Exists, Groups
  <2> QED  BY <1>1, <2>1, <2>2, <2>3, <2>4 DEF CreatedInOrder
<1>7. NoneForgotten'
  <2>1. obj'[Protocol] # Absent
    BY <1>3, Names DEF NoneForgotten
  <2>2. obj'[Cluster] = Absent => queued'[Protocol] \/ ~fresh'[Protocol]
    <3>1. CASE o = Protocol
      BY <1>2, <1>3, <3>1, Names
    <3>2. CASE o # Protocol
      BY <1>1, <1>3, <3>2, Names DEF NoneForgotten
    <3> QED  BY <3>1, <3>2
  <2>3. ASSUME obj'[Cluster] # Absent, ~(Exists(obj', Groups) /\ deployed' = Deployed)
        PROVE  queued'[Cluster] \/ ~fresh'[Cluster] \/ \E g \in GroupIDs : ~fresh'[Group(g)]
    <3>1. Exists(obj', Groups) <=> Exists(obj, Groups)
      BY <1>3, Names DEF Exists, Groups
    <3>2. o # Cluster
      <4> SUFFICES ASSUME o = Cluster PROVE FALSE
        OBVIOUS
      <4>1. Exists(obj, Groups)
        BY <1>2, Names DEF Exists, Groups
      <4> QED  BY <2>3, <3>1, <4>1
    <3>3. /\ obj[Cluster] # Absent /\ ~(Exists(obj, Groups) /\ deployed = Deployed)
          /\ fresh'[Cluster] = fresh[Cluster] /\ queued'[Cluster] = queued[Cluster]
      BY <1>1, <2>3, <3>1, <3>2, Names
    <3>4. \A g \in GroupIDs : fresh'[Group(g)] => fresh[Group(g)]
      BY <1>1, Names
    <3> QED  BY <3>3, <3>4 DEF NoneForgotten
  <2>4. ASSUME NEW g \in GroupIDs, obj'[Group(g)] # Absent,
               NEW j \in MemberIDs, obj'[Member(g, j)] = Absent
        PROVE  \/ queued'[Group(g)] \/ ~fresh'[Group(g)]
               \/ \E k \in MemberIDs : ~fresh'[Member(g, k)]
    <3>1. obj[Group(g)] # Absent /\ obj[Member(g, j)] = Absent
      BY <1>3, <2>4, Names
    <3>2. o # Group(g)
      BY <1>2, <3>1, Names
    <3>3. fresh'[Group(g)] = fresh[Group(g)] /\ queued'[Group(g)] = queued[Group(g)]
      BY <1>1, <3>2, Names
    <3>4. \A k \in MemberIDs : fresh'[Member(g, k)] => fresh[Member(g, k)]
      BY <1>1, Names
    <3> QED  BY <3>1, <3>3, <3>4 DEF NoneForgotten
  <2> QED  BY <2>1, <2>2, <2>3, <2>4 DEF NoneForgotten
<1>8. StatusNotForgotten'
  <2>1. CASE o = Protocol
    <3>1. CASE Update(Protocol, s)
      <4>1. /\ obj' = [obj EXCEPT ![Protocol] = "blank"]
            /\ fresh' = [fresh EXCEPT ![Protocol] = FALSE]
        BY <2>1, <3>1 DEF Update
      <4>2. /\ obj \in [Objects -> Statuses \cup {Absent}]
            /\ fresh \in [Objects -> BOOLEAN]
        BY DEF TypeOK, Statuses
      <4>3. obj'[Protocol] = "blank"
        BY <4>1, <4>2, Names
      <4> QED  BY <4>3 DEF StatusNotForgotten
    <3>2. CASE Done(Protocol) /\ cache[Protocol] = "blank"
      <4>1. obj' = obj /\ fresh' = fresh
        BY <3>2 DEF Done
      <4> QED  BY <1>2, <3>2, <4>1, Names DEF StatusNotForgotten
    <3> QED  BY <2>1, <3>1, <3>2
  <2>2. CASE o # Protocol
    <3>1. /\ obj'[Protocol] = obj[Protocol] /\ fresh'[Protocol] = fresh[Protocol]
          /\ queued'[Protocol] = queued[Protocol]
      BY <1>1, <2>2, Names
    <3>2. /\ obj'[Cluster] # Absent <=> obj[Cluster] # Absent
          /\ fresh'[Cluster] => fresh[Cluster]
      BY <1>1, <1>3, Names
    <3> QED  BY <3>1, <3>2 DEF StatusNotForgotten
  <2> QED  BY <2>1, <2>2
<1> QED  BY <1>5, <1>6, <1>7, <1>8

\* A change that arrives wakes the owner: what may have been forgotten before
\* it had arrived is in the queue now.
LEMMA SyncKeeps ==
  ASSUME IndInv, NEW o \in Objects, Sync(o)
  PROVE  IndInv'
<1> USE DEF IndInv
<1>1. /\ obj' = obj /\ deployed' = deployed /\ pod' = pod /\ podChanges' = podChanges
      /\ cache' = [cache EXCEPT ![o] = obj[o]]
      /\ fresh' = [fresh EXCEPT ![o] = TRUE]
      /\ queued' = [x \in Objects |-> queued[x] \/ x \in Woken(o)]
  BY DEF Sync, pods
<1>2. /\ obj \in [Objects -> Statuses \cup {Absent}] /\ cache \in [Objects -> Statuses \cup {Absent}]
      /\ fresh \in [Objects -> BOOLEAN] /\ queued \in [Objects -> BOOLEAN]
  BY DEF TypeOK, Statuses
<1>3. /\ \A x \in Objects : x # o => fresh'[x] = fresh[x] /\ cache'[x] = cache[x]
      /\ fresh'[o] /\ cache'[o] = obj[o]
      /\ \A x \in Objects : queued[x] => queued'[x]
      /\ queued'[o]
      /\ \A x \in Objects : o # Protocol /\ x = Owner(o) => queued'[x]
      /\ fresh' \in [Objects -> BOOLEAN] /\ queued' \in [Objects -> BOOLEAN]
      /\ cache' \in [Objects -> Statuses \cup {Absent}]
  BY <1>1, <1>2 DEF Woken
<1>4. TypeOK'
  BY <1>1, <1>3 DEF TypeOK, Statuses
<1>5. CreatedInOrder'
  BY <1>1 DEF CreatedInOrder, Exists
<1>6. NoneForgotten'
  <2>1. obj'[Protocol] # Absent
    BY <1>1 DEF NoneForgotten
  <2>2. obj'[Cluster] = Absent => queued'[Protocol] \/ ~fresh'[Protocol]
    BY <1>1, <1>3, Names DEF NoneForgotten
  <2>3. ASSUME obj'[Cluster] # Absent, ~(Exists(obj', Groups) /\ deployed' = Deployed)
        PROVE  queued'[Cluster] \/ ~fresh'[Cluster] \/ \E g \in GroupIDs : ~fresh'[Group(g)]
    <3>1. queued[Cluster] \/ ~fresh[Cluster] \/ \E g \in GroupIDs : ~fresh[Group(g)]
      BY <1>1, <2>3 DEF NoneForgotten, Exists
    <3>2. CASE o = Cluster
      BY <1>3, <3>2
    <3>3. CASE \E g \in GroupIDs : o = Group(g)
      BY <1>3, <3>3, Names, Owners, Distinct
    <3>4. CASE o # Cluster /\ \A g \in GroupIDs : o # Group(g)
      BY <1>3, <3>1, <3>4, Names
    <3> QED  BY <3>2, <3>3, <3>4
  <2>4. ASSUME NEW g \in GroupIDs, obj'[Group(g)] # Absent,
               NEW j \in MemberIDs, obj'[Member(g, j)] = Absent
        PROVE  \/ queued'[Group(g)] \/ ~fresh'[Group(g)]
               \/ \E k \in MemberIDs : ~fresh'[Member(g, k)]
    <3>1. \/ queued[Group(g)] \/ ~fresh[Group(g)]
          \/ \E k \in MemberIDs : ~fresh[Member(g, k)]
      BY <1>1, <2>4 DEF NoneForgotten
    <3>2. CASE o = Group(g)
      BY <1>3, <3>2
    <3>3. CASE \E k \in MemberIDs : o = Member(g, k)
      BY <1>3, <3>3, Names, Owners, Distinct
    <3>4. CASE o # Group(g) /\ \A k \in MemberIDs : o # Member(g, k)
      BY <1>3, <3>1, <3>4, Names
    <3> QED  BY <3>2, <3>3, <3>4
  <2> QED  BY <2>1, <2>2, <2>3, <2>4 DEF NoneForgotten
<1>7. StatusNotForgotten'
  <2>1. CASE o = Protocol \/ o = Cluster
    <3>1. queued'[Protocol]
      BY <1>3, <2>1, Names, Owners, Distinct
    <3> QED  BY <1>1, <3>1 DEF StatusNotForgotten
  <2>2. CASE o # Protocol /\ o # Cluster
    <3>1. /\ fresh'[Cluster] = fresh[Cluster] /\ fresh'[Protocol] = fresh[Protocol]
          /\ queued[Protocol] => queued'[Protocol]
      BY <1>3, <2>2, Names
    <3> QED  BY <1>1, <3>1 DEF StatusNotForgotten
  <2> QED  BY <2>1, <2>2
<1> QED  BY <1>4, <1>5, <1>6, <1>7

\* Pods come after the StatefulSet, and only put members into the queue.
LEMMA PodChangesKeeps ==
  ASSUME IndInv, NEW p \in Pods, PodChanges(p)
  PROVE  IndInv'
<1> USE DEF IndInv
<1>1. /\ UNCHANGED <<obj, cache, fresh, deployed>>
      /\ deployed >= StatefulSet
      /\ podChanges < MaxPodChanges /\ podChanges' = podChanges + 1
      /\ queued' = [x \in Objects |-> queued[x] \/ x \in MembersOn(p)]
  BY DEF PodChanges
<1>2. PICK s \in {Absent, "unknown", "NotReady", "Ready"} : pod' = [pod EXCEPT ![p] = s]
  BY DEF PodChanges
<1>3. queued' \in [Objects -> BOOLEAN] /\ \A x \in Objects : queued[x] => queued'[x]
  <2>1. queued \in [Objects -> BOOLEAN]
    BY DEF TypeOK
  <2> QED  BY <1>1, <2>1
<1>4. podChanges' \in 0..MaxPodChanges
  BY <1>1, SpecAssumption DEF TypeOK
<1>5. pod' \in [Pods -> {Absent, "unknown", "NotReady", "Ready"}]
  BY <1>2 DEF TypeOK
<1>6. TypeOK'
  BY <1>1, <1>3, <1>4, <1>5 DEF TypeOK
<1>7. CreatedInOrder'
  BY <1>1 DEF CreatedInOrder, Exists
<1>8. NoneForgotten'
  <2>1. queued[Protocol] => queued'[Protocol]
    BY <1>3, Names
  <2>2. queued[Cluster] => queued'[Cluster]
    BY <1>3, Names
  <2>3. \A g \in GroupIDs : queued[Group(g)] => queued'[Group(g)]
    BY <1>3, Names
  <2> QED  BY <1>1, <2>1, <2>2, <2>3 DEF NoneForgotten, Exists
<1>9. StatusNotForgotten'
  <2>1. queued[Protocol] => queued'[Protocol]
    BY <1>3, Names
  <2> QED  BY <1>1, <2>1 DEF StatusNotForgotten
<1> QED  BY <1>6, <1>7, <1>8, <1>9

\* A resync only puts objects into the queue.
LEMMA ResyncKeeps ==
  ASSUME IndInv, Resync
  PROVE  IndInv'
<1> USE DEF IndInv
<1>1. /\ UNCHANGED <<obj, cache, fresh, deployed, pod, podChanges>>
      /\ \E S : queued' = [x \in Objects |-> queued[x] \/ x \in S]
  BY DEF Resync, pods
<1>2. queued' \in [Objects -> BOOLEAN] /\ \A x \in Objects : queued[x] => queued'[x]
  <2>1. queued \in [Objects -> BOOLEAN]
    BY DEF TypeOK
  <2> QED  BY <1>1, <2>1
<1>3. TypeOK'
  BY <1>1, <1>2 DEF TypeOK
<1>4. CreatedInOrder'
  BY <1>1 DEF CreatedInOrder, Exists
<1>5. NoneForgotten' /\ StatusNotForgotten'
  <2>1. /\ queued[Protocol] => queued'[Protocol]
        /\ queued[Cluster] => queued'[Cluster]
        /\ \A g \in GroupIDs : queued[Group(g)] => queued'[Group(g)]
    BY <1>2, Names
  <2> QED  BY <1>1, <2>1 DEF NoneForgotten, StatusNotForgotten, Exists
<1> QED  BY <1>3, <1>4, <1>5

\* After a restart everything that exists is in the queue.
LEMMA RestartKeeps ==
  ASSUME IndInv, Restart
  PROVE  IndInv'
<1> USE DEF IndInv
<1>1. /\ UNCHANGED <<obj, deployed, pod, podChanges>>
      /\ cache' = obj
      /\ fresh' = [o \in Objects |-> TRUE]
      /\ queued' = [o \in Objects |-> obj[o] # Absent]
  BY DEF Restart, pods
<1>2. TypeOK'
  BY <1>1 DEF TypeOK
<1>3. CreatedInOrder'
  BY <1>1 DEF CreatedInOrder, Exists
<1>4. NoneForgotten'
  <2>1. obj[Protocol] # Absent /\ queued'[Protocol]
    BY <1>1, Names DEF NoneForgotten
  <2>2. obj[Cluster] # Absent => queued'[Cluster]
    BY <1>1, Names
  <2>3. \A g \in GroupIDs : obj[Group(g)] # Absent => queued'[Group(g)]
    BY <1>1, Names
  <2> QED  BY <1>1, <2>1, <2>2, <2>3 DEF NoneForgotten
<1>5. StatusNotForgotten'
  BY <1>1, Names DEF StatusNotForgotten, NoneForgotten
<1> QED  BY <1>2, <1>3, <1>4, <1>5

\* What the monitor of a member writes is still to arrive.
LEMMA MemberWrittenKeeps ==
  ASSUME IndInv, NEW o \in Members, MemberWritten(o)
  PROVE  IndInv'
<1> USE DEF IndInv
<1>1. /\ obj[o] \in {"Ready", "NotReady"}
      /\ obj' = obj \/ obj' = [obj EXCEPT ![o] = "Ready"]
      /\ fresh' = [fresh EXCEPT ![o] = FALSE]
      /\ UNCHANGED <<cache, queued, deployed, pod, podChanges>>
  BY DEF MemberWritten, pods
<1>2. PICK g \in GroupIDs, j \in MemberIDs : o = Member(g, j)
  BY DEF Members
<1>3. o \in Objects /\ o # Protocol /\ o # Cluster /\ \A h \in GroupIDs : o # Group(h)
  BY <1>2, Names, Distinct
<1>4. /\ obj \in [Objects -> Statuses \cup {Absent}] /\ fresh \in [Objects -> BOOLEAN]
  BY DEF TypeOK, Statuses
<1>5. "Ready" \in Statuses /\ "Ready" # Absent /\ "NotReady" # Absent
  BY DEF Statuses, States, Absent
<1>6. /\ obj' \in [Objects -> Statuses \cup {Absent}]
      /\ \A x \in Objects : obj'[x] = Absent <=> obj[x] = Absent
      /\ \A x \in Objects : x # o => obj'[x] = obj[x]
  BY <1>1, <1>3, <1>4, <1>5
<1>7. /\ fresh' \in [Objects -> BOOLEAN]
      /\ \A x \in Objects : fresh'[x] => fresh[x] /\ x # o
      /\ \A x \in Objects : x # o => fresh'[x] = fresh[x]
  BY <1>1, <1>3, <1>4
<1>8. TypeOK'
  <2>1. \A x \in Objects : x # Protocol => Owner(x) \in Objects
    BY Names, Owners
  <2>2. /\ \A x \in Objects : obj[x] = Absent => cache[x] = Absent
        /\ \A x \in Objects : x # Protocol /\ obj[x] # Absent => obj[Owner(x)] # Absent
        /\ \A x \in Objects : fresh[x] => cache[x] = obj[x]
    BY DEF TypeOK
  <2>3. \A x \in Objects : /\ obj'[x] = Absent => cache'[x] = Absent
                           /\ x # Protocol /\ obj'[x] # Absent => obj'[Owner(x)] # Absent
                           /\ fresh'[x] => cache'[x] = obj'[x]
    BY <1>1, <1>6, <1>7, <2>1, <2>2
  <2> QED  BY <1>1, <1>6, <1>7, <2>3 DEF TypeOK, Statuses
<1>9. CreatedInOrder'
  <2>1. \A h \in GroupIDs : \A i \in 1..h - 1 : i \in GroupIDs
    BY SpecAssumption DEF GroupIDs
  <2>2. \A k \in MemberIDs : \A i \in 0..k - 1 : i \in MemberIDs
    BY SpecAssumption DEF MemberIDs
  <2>3. /\ \A h \in GroupIDs : obj'[Group(h)] = Absent <=> obj[Group(h)] = Absent
        /\ \A h \in GroupIDs, k \in MemberIDs :
             obj'[Member(h, k)] = Absent <=> obj[Member(h, k)] = Absent
    BY <1>6, Names
  <2>4. Exists(obj', Groups) <=> Exists(obj, Groups)
    BY <2>3 DEF Exists, Groups
  <2> QED  BY <1>1, <2>1, <2>2, <2>3, <2>4 DEF CreatedInOrder
<1>10. NoneForgotten'
  <2>1. Exists(obj', Groups) <=> Exists(obj, Groups)
    BY <1>6, Names DEF Exists, Groups
  <2>2. /\ obj'[Protocol] = obj[Protocol] /\ fresh'[Protocol] = fresh[Protocol]
        /\ obj'[Cluster] = obj[Cluster] /\ fresh'[Cluster] = fresh[Cluster]
        /\ \A h \in GroupIDs : /\ obj'[Group(h)] = obj[Group(h)]
                               /\ fresh'[Group(h)] = fresh[Group(h)]
    BY <1>3, <1>6, <1>7, Names
  <2>3. \A h \in GroupIDs, k \in MemberIDs :
          /\ obj'[Member(h, k)] = Absent <=> obj[Member(h, k)] = Absent
          /\ fresh'[Member(h, k)] => fresh[Member(h, k)]
    BY <1>6, <1>7, Names
  <2> QED  BY <1>1, <2>1, <2>2, <2>3 DEF NoneForgotten
<1>11. StatusNotForgotten'
  <2>1. /\ obj'[Protocol] = obj[Protocol] /\ fresh'[Protocol] = fresh[Protocol]
        /\ obj'[Cluster] = obj[Cluster] /\ fresh'[Cluster] = fresh[Cluster]
    BY <1>3, <1>6, <1>7, Names
  <2> QED  BY <1>1, <2>1 DEF StatusNotForgotten
<1> QED  BY <1>8, <1>9, <1>10, <1>11

\* The other objects of the cluster come after all groups.
LEMMA DeployKeeps ==
  ASSUME IndInv, Deploy
  PROVE  IndInv'
<1> USE DEF IndInv
<1>1. /\ UNCHANGED <<obj, cache, fresh, queued, pod, podChanges>>
      /\ Exists(cache, Groups) /\ Running(Cluster)
      /\ deployed' \in deployed + 1..Deployed
  BY DEF Deploy, pods
<1>2. deployed \in 0..Deployed /\ deployed' \in 0..Deployed /\ deployed' > deployed
  <2>1. deployed \in 0..Deployed /\ Deployed = 4
    BY DEF TypeOK, Deployed
  <2> QED  BY <1>1, <2>1
<1>3. TypeOK'
  BY <1>1, <1>2 DEF TypeOK
<1>4. CreatedInOrder'
  <2>1. Exists(obj, Groups)
    BY <1>1, Names DEF TypeOK, Exists, Groups
  <2>2. \A p \in Pods : pod[p] # Absent => deployed' >= StatefulSet
    BY <1>2 DEF CreatedInOrder, StatefulSet
  <2> QED  BY <1>1, <2>1, <2>2 DEF CreatedInOrder, Exists
<1>5. NoneForgotten'
  BY <1>1 DEF NoneForgotten, Running
<1>6. StatusNotForgotten'
  BY <1>1 DEF StatusNotForgotten
<1> QED  BY <1>3, <1>4, <1>5, <1>6

-----------------------------------------------------------------------------
(* The theorems.                                                           *)

\* The inductive invariant: types, owners, the order of creation, and that no
\* controller is forgotten that has something to create or a status to write.
THEOREM Inductive == Spec => []IndInv
<1>1. Init => IndInv
  <2> SUFFICES ASSUME Init PROVE IndInv
    OBVIOUS
  <2> USE DEF Init
  <2>1. TypeOK
    <3>1. obj \in [Objects -> States \cup {"blank", Absent}]
      BY DEF States
    <3>2. /\ cache \in [Objects -> States \cup {"blank", Absent}]
          /\ pod \in [Pods -> {Absent, "unknown", "NotReady", "Ready"}]
          /\ fresh \in [Objects -> BOOLEAN] /\ queued \in [Objects -> BOOLEAN]
      OBVIOUS
    <3>3. deployed \in 0..Deployed /\ podChanges \in 0..MaxPodChanges
      BY SpecAssumption DEF Deployed
    <3>4. \A o \in Objects : /\ obj[o] = Absent => cache[o] = Absent
                             /\ o # Protocol /\ obj[o] # Absent => obj[Owner(o)] # Absent
                             /\ fresh[o] => cache[o] = obj[o]
      OBVIOUS
    <3> QED  BY <3>1, <3>2, <3>3, <3>4 DEF TypeOK
  <2>2. \A o \in Objects : o # Protocol => obj[o] = Absent
    OBVIOUS
  <2>3. CreatedInOrder
    BY <2>2, Names, Distinct DEF CreatedInOrder
  <2>4. NoneForgotten
    BY <2>2, Names, Distinct DEF NoneForgotten, Absent
  <2>5. StatusNotForgotten
    BY <2>2, Names, Distinct DEF StatusNotForgotten
  <2> QED  BY <2>1, <2>3, <2>4, <2>5 DEF IndInv
<1>2. IndInv /\ [Next]_vars => IndInv'
  <2> SUFFICES ASSUME IndInv, [Next]_vars PROVE IndInv'
    OBVIOUS
  <2>1. ASSUME NEW o \in Objects, Sync(o) PROVE IndInv'
    BY <2>1, SyncKeeps
  <2>2. ASSUME NEW p \in Pods, PodChanges(p) PROVE IndInv'
    BY <2>2, PodChangesKeeps
  <2>3. CASE Restart
    BY <2>3, RestartKeeps
  <2>4. ASSUME NEW o \in Members, MemberWritten(o) PROVE IndInv'
    BY <2>4, MemberWrittenKeeps
  <2>5. CASE ReconcileCluster
    <3>1. /\ Create(Protocol, Cluster) /\ cache[Protocol] # Absent /\ deployed' = deployed
      BY <2>5 DEF ReconcileCluster, Running
    <3> QED  BY <3>1, Names, Distinct, Owners, CreateKeeps
  <2>6. CASE ProtocolStatus
    <3>1. /\ cache[Protocol] # Absent /\ cache[Cluster] # Absent /\ deployed' = deployed
          /\ \/ cache[Protocol] = "blank" /\ Done(Protocol)
             \/ Update(Protocol, "blank")
      BY <2>6 DEF ProtocolStatus, Running
    <3>2. "blank" \in Statuses
      BY DEF Statuses
    <3> QED  BY <3>1, <3>2, Names, Distinct, StatusKeeps
  <2>7. ASSUME NEW g \in GroupIDs, ReconcileGroup(g) PROVE IndInv'
    <3>1. /\ Create(Cluster, Group(g)) /\ cache[Cluster] # Absent /\ deployed' = deployed
          /\ \A i \in 1..g - 1 : cache[Group(i)] # Absent
      BY <2>7 DEF ReconcileGroup, Running
    <3>2. \A h \in GroupIDs : Group(g) = Group(h) => g = h
      BY Distinct
    <3>3. \A h \in GroupIDs, j \in MemberIDs : Group(g) # Member(h, j)
      BY Distinct
    <3> QED  BY <3>1, <3>2, <3>3, Names, Owners, CreateKeeps
  <2>8. CASE Deploy
    BY <2>8, DeployKeeps
  <2>9. CASE ClusterStatus
    <3>1. /\ cache[Cluster] # Absent /\ Exists(cache, Groups) /\ deployed = Deployed
          /\ deployed' = deployed
          /\ Done(Cluster) \/ Update(Cluster, ClusterState)
      BY <2>9 DEF ClusterStatus, Running
    <3>2. ClusterState \in Statuses
      BY DEF ClusterState, AllReady, Statuses, States
    <3> QED  BY <3>1, <3>2, Names, Distinct, StatusKeeps
  <2>10. ASSUME NEW g \in GroupIDs, NEW j \in MemberIDs, ReconcileMember(g, j) PROVE IndInv'
    <3>1. /\ Create(Group(g), Member(g, j)) /\ cache[Group(g)] # Absent
          /\ deployed' = deployed /\ \A i \in 0..j - 1 : cache[Member(g, i)] # Absent
      BY <2>10 DEF ReconcileMember, Running
    <3>2. \A h \in GroupIDs, k \in MemberIDs : Member(g, j) = Member(h, k) => g = h /\ j = k
      BY Distinct
    <3>3. \A h \in GroupIDs : Member(g, j) # Group(h)
      BY Distinct
    <3> QED  BY <3>1, <3>2, <3>3, Names, Owners, CreateKeeps
  <2>11. ASSUME NEW g \in GroupIDs, GroupStatus(g) PROVE IndInv'
    <3>1. /\ cache[Group(g)] # Absent /\ \A j \in MemberIDs : cache[Member(g, j)] # Absent
          /\ deployed' = deployed
          /\ Done(Group(g)) \/ Update(Group(g), GroupState(g))
      BY <2>11 DEF GroupStatus, Running
    <3>2. GroupState(g) \in Statuses
      BY DEF GroupState, AllReady, Statuses, States
    <3>3. \A h \in GroupIDs : Group(g) = Group(h) => g = h
      BY Distinct
    <3> QED  BY <3>1, <3>2, <3>3, Names, Distinct, StatusKeeps
  <2>12. ASSUME NEW g \in GroupIDs, NEW j \in MemberIDs, MemberStatus(g, j) PROVE IndInv'
    <3>1. PICK s \in Statuses : Done(Member(g, j)) \/ Update(Member(g, j), s)
      <4>1. MemberState(PodOf(g, j)) \in Statuses
        BY DEF MemberState, Statuses, States
      <4> QED  BY <2>12, <4>1 DEF MemberStatus
    <3>2. cache[Member(g, j)] # Absent /\ deployed' = deployed
      BY <2>12 DEF MemberStatus, Running
    <3> QED  BY <3>1, <3>2, Names, Distinct, StatusKeeps
  <2>13. CASE UNCHANGED vars
    <3>1. UNCHANGED <<obj, cache, fresh, queued, deployed, pod, podChanges>>
      BY <2>13 DEF vars, pods
    <3> QED  BY <3>1 DEF IndInv, TypeOK, CreatedInOrder, NoneForgotten, Exists,
                         StatusNotForgotten
  <2>14. CASE Resync
    BY <2>14, ResyncKeeps
  <2> QED  BY <2>1, <2>2, <2>3, <2>4, <2>5, <2>6, <2>7, <2>8, <2>9, <2>10, <2>11,
              <2>12, <2>13, <2>14 DEF Next, ProtocolPass, ClusterPass, GroupPass
<1> QED  BY <1>1, <1>2, PTL DEF Spec

\* When the controllers have come to rest, whatever was lost, refused or
\* restarted before, everything has been created and the protocol has its
\* status: no pass counts on a wake-up that does not come, nor on a resync.
THEOREM NothingIsMissingAtRest == Spec => []RestIsComplete
<1>1. IndInv => RestIsComplete
  <2> SUFFICES ASSUME IndInv, \A o \in Objects : fresh[o] /\ ~queued[o]
               PROVE  Complete
    BY DEF RestIsComplete, AtRest
  <2>1. NoneForgotten /\ StatusNotForgotten
    BY DEF IndInv
  <2>2. /\ fresh[Protocol] /\ ~queued[Protocol] /\ fresh[Cluster] /\ ~queued[Cluster]
        /\ \A g \in GroupIDs : fresh[Group(g)] /\ ~queued[Group(g)]
        /\ \A g \in GroupIDs, j \in MemberIDs : fresh[Member(g, j)]
    BY Names
  <2>3. obj[Protocol] # Absent /\ obj[Cluster] # Absent
    BY <2>1, <2>2 DEF NoneForgotten
  <2>4. Exists(obj, Groups) /\ deployed = Deployed
    BY <2>1, <2>2, <2>3 DEF NoneForgotten
  <2>5. \A g \in GroupIDs : obj[Group(g)] # Absent
    BY <2>4 DEF Exists, Groups
  <2>6. \A g \in GroupIDs, j \in MemberIDs : obj[Member(g, j)] # Absent
    BY <2>1, <2>2, <2>5 DEF NoneForgotten
  <2>7. obj[Protocol] = "blank"
    BY <2>1, <2>2, <2>3 DEF StatusNotForgotten
  <2>8. Exists(obj, Objects)
    BY <2>3, <2>5, <2>6, Names DEF Exists
  <2> QED  BY <2>4, <2>7, <2>8 DEF Complete
<1> QED  BY <1>1, Inductive, PTL
=============================================================================
