------------------------------ MODULE TopoProofs ------------------------------
(***************************************************************************)
(* Theorems about Topo, for every finite set of nodes.  The inductive      *)
(* invariant TopoInv says what each counter and list stands for; the       *)
(* properties of Topo follow from it.                                      *)
(***************************************************************************)
EXTENDS Topo, FiniteSetTheorems, TLAPS

-----------------------------------------------------------------------------
(* Facts about cardinalities that the counters rest on. *)

(* Sets of nodes are finite, so their cardinality is a natural number. *)
LEMMA FiniteNodes ==
  ASSUME NEW S \in SUBSET Node
  PROVE  IsFiniteSet(S) /\ Cardinality(S) \in Nat
BY NodeAssumption, FS_Subset, FS_CardinalityType

(* A counter of the nodes of S is zero exactly when S is empty. *)
LEMMA CountZero ==
  ASSUME NEW S \in SUBSET Node
  PROVE  Cardinality(S) = 0 <=> S = {}
BY FiniteNodes, FS_EmptySet

(* The counter of two disjoint sets is the sum of their counters: merging  *)
(* groups, and adding dependencies.                                        *)
LEMMA CountDisjoint ==
  ASSUME NEW S \in SUBSET Node, NEW T \in SUBSET Node, S \cap T = {}
  PROVE  Cardinality(S \cup T) = Cardinality(S) + Cardinality(T)
<1>1. IsFiniteSet(S) /\ IsFiniteSet(T)
  BY FiniteNodes
<1>2. Cardinality(S \cup T) =
        Cardinality(S) + Cardinality(T) - Cardinality(S \cap T)
  BY <1>1, FS_Union
<1>3. Cardinality(S \cap T) = 0
  BY FS_EmptySet
<1>4. Cardinality(S) \in Nat /\ Cardinality(T) \in Nat
  BY FiniteNodes
<1> QED BY <1>2, <1>3, <1>4

(* Taking T out of S lowers the counter by the nodes they share. *)
LEMMA CountMinus ==
  ASSUME NEW S \in SUBSET Node, NEW T \in SUBSET Node
  PROVE  Cardinality(S \ T) = Cardinality(S) - Cardinality(S \cap T)
BY FiniteNodes, FS_Difference

(* Taking one of its members out of S lowers the counter by one. *)
LEMMA CountRemove ==
  ASSUME NEW S \in SUBSET Node, NEW n \in S
  PROVE  Cardinality(S \ {n}) = Cardinality(S) - 1
BY FiniteNodes, FS_RemoveElement

-----------------------------------------------------------------------------
(* The steps that preserve the invariant. *)

(* A new node is alone in its group and nobody depends on it. *)
LEMMA AddNodeInv ==
  ASSUME TopoInv, NEW n \in Node, AddNode(n)
  PROVE  TopoInv'
<1> USE DEF TopoInv
<1>1. TopoTypeOK'
  BY DEF AddNode, TopoTypeOK
<1>2. GroupsPartition'
  BY DEF AddNode, TopoTypeOK, GroupsPartition
<1>3. n \notin semi /\ n \notin scheduled
  BY DEF AddNode, FiredReady
<1>4. LeftCounts'
  <2> SUFFICES ASSUME NEW m \in added'
               PROVE  left'[m] = Cardinality(group'[m] \ semi')
    BY DEF LeftCounts
  <2>1. CASE m = n
    <3>1. group'[m] \ semi' = {n}
      BY <1>3, <2>1 DEF AddNode, TopoTypeOK
    <3>2. left'[m] = 1
      BY <2>1 DEF AddNode, TopoTypeOK
    <3> QED BY <3>1, <3>2, FS_Singleton
  <2>2. CASE m # n
    BY <2>2 DEF AddNode, TopoTypeOK, LeftCounts
  <2> QED BY <2>1, <2>2
<1>5. CompletedGroups'
  BY <1>3 DEF AddNode, TopoTypeOK, CompletedGroups, GroupDone
<1>6. DepsKnown'
  BY DEF AddNode, DepsKnown
<1>7. WaitersAwait'
  BY DEF AddNode, TopoTypeOK, WaitersAwait, DepsKnown
<1>8. AwaitingCounts'
  <2> SUFFICES ASSUME NEW m \in added'
               PROVE  awaiting'[m] = Cardinality(deps'[m] \ completed')
    BY DEF AwaitingCounts
  <2>1. CASE m = n
    <3>1. deps'[m] \ completed' = {}
      BY <2>1 DEF AddNode, DepsKnown
    <3>2. awaiting'[m] = 0
      BY <2>1 DEF AddNode, TopoTypeOK
    <3> QED BY <3>1, <3>2, FS_EmptySet
  <2>2. CASE m # n
    BY <2>2 DEF AddNode, TopoTypeOK, AwaitingCounts
  <2> QED BY <2>1, <2>2
<1>9. FiredReady'
  BY <1>3 DEF AddNode, FiredReady
<1> QED BY <1>1, <1>2, <1>4, <1>5, <1>6, <1>7, <1>8, <1>9

(* Dependencies are counted unless they are completed already. *)
LEMMA AddDepsInv ==
  ASSUME TopoInv, NEW n \in Node, NEW D \in SUBSET Node, AddDeps(n, D)
  PROVE  TopoInv'
<1> USE DEF TopoInv
<1>1. Cardinality(D \ completed) \in Nat
  BY FiniteNodes
<1>2. TopoTypeOK'
  BY <1>1 DEF AddDeps, Pending, TopoTypeOK
<1>3. GroupsPartition' /\ LeftCounts' /\ CompletedGroups'
  BY DEF AddDeps, Pending, GroupsPartition, LeftCounts, CompletedGroups, GroupDone
<1>4. DepsKnown'
  BY DEF AddDeps, Pending, TopoTypeOK, DepsKnown
<1>5. WaitersAwait'
  BY DEF AddDeps, Pending, TopoTypeOK, WaitersAwait
<1>6. AwaitingCounts'
  <2> SUFFICES ASSUME NEW m \in added'
               PROVE  awaiting'[m] = Cardinality(deps'[m] \ completed')
    BY DEF AwaitingCounts
  <2>1. CASE m = n
    <3> DEFINE S == deps[n] \ completed
               T == D \ completed
    <3>1. S \in SUBSET Node /\ T \in SUBSET Node /\ S \cap T = {}
      BY DEF AddDeps, Pending, TopoTypeOK
    <3>2. deps'[m] \ completed' = S \cup T
      BY <2>1 DEF AddDeps, Pending, TopoTypeOK
    <3>3. awaiting'[m] = Cardinality(S) + Cardinality(T)
      BY <2>1 DEF AddDeps, Pending, TopoTypeOK, AwaitingCounts
    <3> HIDE DEF S, T
    <3> QED BY <3>1, <3>2, <3>3, CountDisjoint
  <2>2. CASE m # n
    BY <2>2 DEF AddDeps, Pending, TopoTypeOK, AwaitingCounts
  <2> QED BY <2>1, <2>2
<1>7. FiredReady'
  BY DEF AddDeps, Pending, TopoTypeOK, FiredReady
<1> QED BY <1>2, <1>3, <1>4, <1>5, <1>6, <1>7

(* Two open groups become one, whose counter is the sum of theirs. *)
LEMMA MergeNodesInv ==
  ASSUME TopoInv, NEW n1 \in Node, NEW n2 \in Node, MergeNodes(n1, n2)
  PROVE  TopoInv'
<1> USE DEF TopoInv
<1> DEFINE G == group[n1] \cup group[n2]
<1>1. /\ n1 \in added /\ n2 \in added
      /\ G \in SUBSET Node /\ G \subseteq added
      /\ group[n1] \cap group[n2] = {}
      /\ ~ (group[n1] \subseteq semi) /\ ~ (group[n2] \subseteq semi)
  BY DEF MergeNodes, Mergeable, TopoTypeOK, GroupsPartition, CompletedGroups, GroupDone
<1>2. group' = [n \in Node |-> IF n \in G THEN G ELSE group[n]]
  BY DEF MergeNodes, Mergeable
<1>3. TopoTypeOK'
  BY <1>1 DEF MergeNodes, Mergeable, TopoTypeOK
<1>4. GroupsPartition'
  <2> SUFFICES ASSUME NEW m \in added
               PROVE  /\ m \in group'[m] /\ group'[m] \subseteq added
                      /\ \A k \in group'[m] : group'[k] = group'[m]
    BY DEF GroupsPartition, MergeNodes, Mergeable
  <2>1. CASE m \in G
    BY <1>1, <1>2, <2>1 DEF TopoTypeOK
  <2>2. CASE m \notin G
    <3>1. \A k \in group[m] : k \in Node /\ k \notin G /\ group[k] = group[m]
      BY <1>1, <2>2 DEF GroupsPartition, TopoTypeOK
    <3> QED BY <1>2, <2>2, <3>1 DEF GroupsPartition, TopoTypeOK
  <2> QED BY <2>1, <2>2
<1>5. LeftCounts'
  <2> SUFFICES ASSUME NEW m \in added
               PROVE  left'[m] = Cardinality(group'[m] \ semi)
    BY DEF LeftCounts, MergeNodes, Mergeable
  <2>1. CASE m \in G
    <3> DEFINE S == group[n1] \ semi
               T == group[n2] \ semi
    <3>1. S \in SUBSET Node /\ T \in SUBSET Node /\ S \cap T = {}
      BY <1>1
    <3>2. group'[m] \ semi = S \cup T
      BY <1>2, <2>1 DEF TopoTypeOK
    <3>3. left'[m] = Cardinality(S) + Cardinality(T)
      BY <1>1, <2>1 DEF MergeNodes, Mergeable, LeftCounts, TopoTypeOK
    <3> HIDE DEF S, T
    <3> QED BY <3>1, <3>2, <3>3, CountDisjoint
  <2>2. CASE m \notin G
    BY <1>2, <2>2 DEF MergeNodes, Mergeable, LeftCounts, TopoTypeOK
  <2> QED BY <2>1, <2>2
<1>6. CompletedGroups'
  <2>1. \A m \in added : (group'[m] \subseteq semi) <=> (group[m] \subseteq semi)
    <3> TAKE m \in added
    <3>1. CASE m \in G
      BY <1>1, <1>2, <3>1 DEF GroupsPartition, TopoTypeOK
    <3>2. CASE m \notin G
      BY <1>2, <3>2 DEF TopoTypeOK
    <3> QED BY <3>1, <3>2
  <2> QED BY <2>1 DEF MergeNodes, Mergeable, CompletedGroups, GroupDone
<1>7. DepsKnown' /\ WaitersAwait' /\ AwaitingCounts' /\ FiredReady'
  BY DEF MergeNodes, Mergeable, DepsKnown, WaitersAwait, AwaitingCounts, FiredReady
<1> QED BY <1>3, <1>4, <1>5, <1>6, <1>7

(* A scheduled node fires at once exactly when it waits for nothing. *)
LEMMA ScheduleNodeInv ==
  ASSUME TopoInv, NEW n \in Node, ScheduleNode(n)
  PROVE  TopoInv'
<1> USE DEF TopoInv
<1>1. /\ n \in added /\ n \notin scheduled /\ fired[n] = 0
      /\ awaiting' = awaiting /\ fired \in [Node -> Nat]
  BY DEF ScheduleNode, FiredReady, TopoTypeOK
<1>2. awaiting[n] = 0 <=> deps[n] \subseteq completed
  <2>1. deps[n] \ completed \in SUBSET Node
    BY DEF TopoTypeOK
  <2>2. Cardinality(deps[n] \ completed) = 0 <=> deps[n] \ completed = {}
    BY <2>1, CountZero
  <2>3. awaiting[n] = Cardinality(deps[n] \ completed)
    BY <1>1 DEF AwaitingCounts
  <2> QED BY <2>2, <2>3
<1>3. fired' = [m \in Node |-> IF m = n /\ awaiting[n] = 0 THEN fired[m] + 1
                                                         ELSE fired[m]]
  BY <1>1 DEF ScheduleNode, CheckReady
<1>4. /\ scheduled' = scheduled \cup {n}
      /\ whenReady' = (whenReady \cup {n}) \ {m \in {n} : awaiting[m] = 0}
  BY <1>1 DEF ScheduleNode, CheckReady
<1>5. TopoTypeOK'
  BY <1>1, <1>3, <1>4 DEF ScheduleNode, TopoTypeOK
<1>6. /\ GroupsPartition' /\ LeftCounts' /\ CompletedGroups' /\ DepsKnown'
      /\ WaitersAwait' /\ AwaitingCounts'
  BY DEF ScheduleNode, GroupsPartition, LeftCounts, CompletedGroups, GroupDone,
         DepsKnown, WaitersAwait, AwaitingCounts
<1>7. FiredReady'
  <2>1. \A m \in Node :
          fired'[m] = IF m \in scheduled' /\ deps[m] \subseteq completed
                      THEN 1 ELSE 0
    BY <1>1, <1>2, <1>3, <1>4 DEF FiredReady
  <2>2. whenReady' = {m \in scheduled' : fired'[m] = 0}
    BY <1>1, <1>2, <1>3, <1>4, <2>1 DEF FiredReady, TopoTypeOK
  <2>3. \A m \in semi : fired'[m] > 0
    BY <1>1, <1>3 DEF FiredReady, TopoTypeOK
  <2> QED BY <1>1, <2>1, <2>2, <2>3 DEF FiredReady, ScheduleNode
<1> QED BY <1>5, <1>6, <1>7

(* What a notification does to its group: one member less is left, and     *)
(* none is left exactly when all have notified.                            *)
LEMMA NotifyGroup ==
  ASSUME TopoInv, NEW n \in Node, NotifyDependants(n)
  PROVE  /\ n \in added /\ n \in group[n] /\ group[n] \in SUBSET Node
         /\ group[n] \subseteq added \ completed
         /\ \A m \in added : n \in group[m] => m \in group[n]
         /\ left[n] = 1 <=> group[n] \subseteq semi \cup {n}
         /\ LeftCounts'
<1> USE DEF TopoInv
<1>1. /\ n \in added /\ n \notin semi /\ n \in group[n]
      /\ group[n] \in SUBSET Node /\ group[n] \subseteq added
      /\ \A m \in group[n] : group[m] = group[n]
  BY DEF NotifyDependants, FiredReady, GroupsPartition, TopoTypeOK
<1>2. group[n] \subseteq added \ completed
  BY <1>1 DEF CompletedGroups, GroupDone
<1>3. \A m \in added : n \in group[m] => m \in group[n]
  BY DEF GroupsPartition
<1>4. Cardinality((group[n] \ semi) \ {n}) = left[n] - 1
  BY <1>1, CountRemove DEF LeftCounts
<1>5. (group[n] \ semi) \ {n} \in SUBSET Node
  BY <1>1
<1>6. left[n] - 1 = 0 <=> (group[n] \ semi) \ {n} = {}
  BY <1>4, <1>5, CountZero
<1>7. LeftCounts'
  <2> SUFFICES ASSUME NEW m \in added
               PROVE  left'[m] = Cardinality(group[m] \ semi')
    BY DEF LeftCounts, NotifyDependants
  <2>1. CASE m \in group[n]
    <3>1. group[m] \ semi' = (group[n] \ semi) \ {n}
      BY <1>1, <2>1 DEF NotifyDependants
    <3> QED BY <1>1, <1>4, <2>1, <3>1 DEF NotifyDependants, TopoTypeOK
  <2>2. CASE m \notin group[n]
    <3>1. group[m] \ semi' = group[m] \ semi
      BY <1>3, <2>2 DEF NotifyDependants
    <3> QED BY <2>2, <3>1 DEF NotifyDependants, LeftCounts, TopoTypeOK
  <2> QED BY <2>1, <2>2
<1>8. left[n] \in Int
  BY DEF TopoTypeOK
<1> QED BY <1>1, <1>2, <1>3, <1>6, <1>7, <1>8

(* A notification that leaves members of its group running. *)
LEMMA NotifyOpenInv ==
  ASSUME TopoInv, NEW n \in Node, NotifyDependants(n), left[n] # 1
  PROVE  TopoInv'
<1> USE DEF TopoInv
<1>1. UNCHANGED <<added, group, deps, whoAwaits, scheduled, completed, order,
                  awaiting, whenReady, fired>>
  BY DEF NotifyDependants
<1>2. semi' = semi \cup {n}
  BY DEF NotifyDependants
<1>3. TopoTypeOK'
  BY <1>1, <1>2 DEF NotifyDependants, TopoTypeOK
<1>4. CompletedGroups'
  <2>1. \A m \in added : group[m] \subseteq semi' <=> group[m] \subseteq semi
    BY <1>2, NotifyGroup DEF GroupsPartition
  <2> QED BY <1>1, <2>1 DEF CompletedGroups, GroupDone
<1>5. GroupsPartition' /\ DepsKnown' /\ WaitersAwait' /\ AwaitingCounts'
  BY <1>1 DEF GroupsPartition, DepsKnown, WaitersAwait, AwaitingCounts
<1>6. FiredReady'
  BY <1>1, <1>2 DEF NotifyDependants, FiredReady
<1> QED BY <1>3, <1>4, <1>5, <1>6, NotifyGroup

(* The last notification of a group completes it and fires those who       *)
(* waited for nothing else.                                                *)
LEMMA NotifyLastInv ==
  ASSUME TopoInv, NEW n \in Node, NotifyDependants(n), left[n] = 1
  PROVE  TopoInv'
<1> USE DEF TopoInv
<1> DEFINE G == group[n]
           told == {m \in scheduled : \E d \in G : m \in whoAwaits[d]}
           waits(m) == {d \in G : m \in whoAwaits[d]}
<1>1. /\ UNCHANGED <<added, group, deps, whoAwaits, scheduled>>
      /\ semi' = semi \cup {n}
      /\ completed' = completed \cup G
      /\ order' = Append(order, G)
      /\ awaiting' = [m \in Node |-> awaiting[m] - Cardinality(waits(m))]
      /\ CheckReady(told, whenReady)
  BY DEF NotifyDependants, CompleteGroup
<1>2. /\ n \in added /\ n \in G /\ G \in SUBSET Node
      /\ G \subseteq added \ completed
      /\ G \subseteq semi'
      /\ \A m \in added : n \in group[m] => m \in G
  BY <1>1, NotifyGroup
<1>3. \A m \in Node : waits(m) = deps[m] \cap G
  BY <1>2 DEF WaitersAwait
<1>4. ASSUME NEW m \in Node
      PROVE  /\ awaiting'[m] = awaiting[m] - Cardinality(deps[m] \cap G)
             /\ m \in added => awaiting'[m] = Cardinality(deps[m] \ completed')
             /\ m \in added =>
                  (awaiting'[m] = 0 <=> deps[m] \subseteq completed')
  <2> DEFINE S == deps[m] \ completed
  <2>1. awaiting'[m] = awaiting[m] - Cardinality(deps[m] \cap G)
    BY <1>1, <1>3
  <2>2. S \in SUBSET Node /\ S \cap G = deps[m] \cap G
    BY <1>2 DEF TopoTypeOK
  <2>3. S \ G = deps[m] \ completed'
    BY <1>1
  <2>4. Cardinality(S \ G) = Cardinality(S) - Cardinality(S \cap G)
    BY <1>2, <2>2, CountMinus
  <2>5. m \in added => awaiting'[m] = Cardinality(deps[m] \ completed')
    BY <2>1, <2>2, <2>3, <2>4 DEF AwaitingCounts
  <2>6. deps[m] \ completed' \in SUBSET Node
    BY <1>1 DEF TopoTypeOK
  <2>7. Cardinality(deps[m] \ completed') = 0 <=> deps[m] \subseteq completed'
    BY <2>6, CountZero
  <2> QED BY <2>1, <2>5, <2>7
<1>5. \A m \in Node : fired'[m] = IF m \in told \cap whenReady /\ awaiting'[m] = 0
                                  THEN fired[m] + 1 ELSE fired[m]
  BY <1>1 DEF CheckReady
<1>6. TopoTypeOK'
  <2>1. ASSUME NEW m \in Node
        PROVE  awaiting[m] - Cardinality(waits(m)) \in Int
    <3>1. waits(m) \in SUBSET Node
      BY <1>2
    <3>2. Cardinality(waits(m)) \in Nat
      BY <3>1, FiniteNodes
    <3> QED BY <3>2 DEF TopoTypeOK
  <2>2. awaiting' \in [Node -> Int]
    BY <1>1, <2>1
  <2>3. fired' \in [Node -> Nat] /\ whenReady' \in SUBSET Node
    BY <1>1, <1>5 DEF CheckReady, TopoTypeOK
  <2>4. left' \in [Node -> Int]
    BY DEF NotifyDependants, TopoTypeOK
  <2>5. order' \in Seq(SUBSET Node)
    BY <1>1, <1>2 DEF TopoTypeOK
  <2> QED BY <1>1, <1>2, <2>2, <2>3, <2>4, <2>5 DEF TopoTypeOK
<1>7. CompletedGroups'
  <2>1. \A m \in added : group[m] \subseteq semi' <=>
                           (m \in G \/ group[m] \subseteq semi)
    BY <1>1, <1>2 DEF GroupsPartition
  <2> QED BY <1>1, <1>2, <2>1 DEF CompletedGroups, GroupDone
<1>8. GroupsPartition' /\ DepsKnown' /\ WaitersAwait'
  BY <1>1 DEF GroupsPartition, DepsKnown, WaitersAwait
<1>9. AwaitingCounts'
  BY <1>1, <1>4 DEF AwaitingCounts, TopoTypeOK
<1>10. FiredReady'
  <2>1. ASSUME NEW m \in Node
        PROVE  fired'[m] = IF m \in scheduled /\ deps[m] \subseteq completed'
                           THEN 1 ELSE 0
    <3>1. CASE m \notin scheduled
      BY <1>5, <3>1 DEF FiredReady
    <3>2. CASE m \in scheduled /\ deps[m] \subseteq completed
      <4>1. fired[m] = 1 /\ m \notin whenReady
        BY <3>2 DEF FiredReady
      <4>2. deps[m] \subseteq completed'
        BY <1>1, <3>2
      <4> QED BY <1>5, <3>2, <4>1, <4>2
    <3>3. CASE /\ m \in scheduled
               /\ ~ (deps[m] \subseteq completed)
               /\ deps[m] \subseteq completed'
      <4>1. PICK d \in deps[m] : d \in G
        BY <1>1, <3>3
      <4>2. m \in whoAwaits[d]
        BY <1>2, <4>1 DEF WaitersAwait
      <4>3. m \in told \cap whenReady /\ fired[m] = 0
        BY <3>3, <4>1, <4>2 DEF FiredReady
      <4>4. awaiting'[m] = 0
        BY <1>4, <3>3 DEF FiredReady
      <4> QED BY <1>5, <3>3, <4>3, <4>4
    <3>4. CASE m \in scheduled /\ ~ (deps[m] \subseteq completed')
      <4>1. ~ (deps[m] \subseteq completed) /\ awaiting'[m] # 0
        BY <1>1, <1>4, <3>4 DEF FiredReady
      <4> QED BY <1>5, <3>4, <4>1 DEF FiredReady
    <3> QED BY <3>1, <3>2, <3>3, <3>4
  <2>2. whenReady' = {m \in scheduled : fired'[m] = 0}
    <3>1. whenReady' = {m \in whenReady : ~ (m \in told /\ awaiting'[m] = 0)}
      BY <1>1 DEF CheckReady
    <3>2. \A m \in whenReady : m \in Node /\ m \in scheduled /\ fired[m] = 0
      BY DEF FiredReady, TopoTypeOK
    <3>3. \A m \in whenReady :
            fired'[m] = 0 <=> ~ (m \in told /\ awaiting'[m] = 0)
      BY <1>5, <3>2
    <3>4. \A m \in scheduled : fired'[m] = 0 => m \in whenReady
      <4> SUFFICES ASSUME NEW m \in scheduled, fired'[m] = 0
                   PROVE  fired[m] = 0
        BY DEF FiredReady
      <4>1. m \in Node /\ fired[m] \in Nat
        BY DEF TopoTypeOK
      <4> QED BY <1>5, <4>1
    <3> QED BY <3>1, <3>2, <3>3, <3>4
  <2>3. \A m \in semi' : fired'[m] > 0
    <3>1. \A m \in semi' : m \in Node /\ fired[m] > 0 /\ fired[m] \in Nat
      BY <1>1 DEF NotifyDependants, FiredReady, TopoTypeOK
    <3> QED BY <1>5, <3>1
  <2> QED BY <1>1, <2>1, <2>2, <2>3 DEF FiredReady
<1> QED BY <1>6, <1>7, <1>8, <1>9, <1>10, NotifyGroup

-----------------------------------------------------------------------------
(* The inductive invariant and what follows from it. *)

LEMMA TopoInvInit == TopoInit => TopoInv
<1> SUFFICES ASSUME TopoInit PROVE TopoInv
  OBVIOUS
<1>1. TopoTypeOK
  BY DEF TopoInit, TopoTypeOK
<1>2. /\ GroupsPartition /\ LeftCounts /\ CompletedGroups /\ DepsKnown
      /\ WaitersAwait /\ AwaitingCounts /\ FiredReady
  BY DEF TopoInit, GroupsPartition, LeftCounts, CompletedGroups, DepsKnown,
         WaitersAwait, AwaitingCounts, FiredReady
<1> QED BY <1>1, <1>2 DEF TopoInv

LEMMA TopoInvNext == TopoInv /\ [TopoNext]_topoVars => TopoInv'
<1> SUFFICES ASSUME TopoInv, [TopoNext]_topoVars PROVE TopoInv'
  OBVIOUS
<1>1. ASSUME NEW n \in Node, AddNode(n) PROVE TopoInv'
  BY <1>1, AddNodeInv
<1>2. ASSUME NEW n \in Node, ScheduleNode(n) PROVE TopoInv'
  BY <1>2, ScheduleNodeInv
<1>3. ASSUME NEW n \in Node, NotifyDependants(n) PROVE TopoInv'
  BY <1>3, NotifyOpenInv, NotifyLastInv
<1>4. ASSUME NEW n \in Node, NEW D \in SUBSET Node, AddDeps(n, D)
      PROVE  TopoInv'
  BY <1>4, AddDepsInv
<1>5. ASSUME NEW n1 \in Node, NEW n2 \in Node, MergeNodes(n1, n2)
      PROVE  TopoInv'
  BY <1>5, MergeNodesInv
<1>6. CASE UNCHANGED topoVars
  BY <1>6 DEF topoVars, TopoInv, TopoTypeOK, GroupsPartition, LeftCounts,
              CompletedGroups, GroupDone, DepsKnown, WaitersAwait,
              AwaitingCounts, FiredReady
<1> QED BY <1>1, <1>2, <1>3, <1>4, <1>5, <1>6 DEF TopoNext

(* Every counter, list and set of Topo stands for what TopoInv says; in    *)
(* particular the variables keep their types.                              *)
THEOREM TopoInvariant == TopoSpec => [](TopoInv /\ TopoTypeOK)
<1>1. TopoInv => TopoTypeOK
  BY DEF TopoInv
<1> QED BY <1>1, TopoInvInit, TopoInvNext, PTL DEF TopoSpec

(* A callback is handed out at most once, and only after everything its    *)
(* node depends on has notified.                                           *)
THEOREM TopoFiredOnceAfterDeps == TopoSpec => []FiredOnceAfterDeps
<1>1. TopoInv => FiredOnceAfterDeps
  BY DEF TopoInv, FiredReady, CompletedGroups, FiredOnceAfterDeps
<1> QED BY <1>1, TopoInvariant, PTL

(* A scheduled node whose dependencies are done has been handed out. *)
THEOREM TopoNoLostActivation == TopoSpec => []NoLostActivation
<1>1. TopoInv => NoLostActivation
  <2> SUFFICES ASSUME TopoInv, NEW n \in scheduled,
                      \A d \in deps[n] : GroupDone(d)
               PROVE  fired[n] = 1
    BY DEF NoLostActivation
  <2>1. n \in Node
    BY DEF TopoInv, TopoTypeOK
  <2>2. deps[n] \subseteq completed
    BY <2>1 DEF TopoInv, DepsKnown, CompletedGroups
  <2> QED BY <2>1, <2>2 DEF TopoInv, FiredReady
<1> QED BY <1>1, TopoInvariant, PTL

(* A callback that was handed out stays so. *)
LEMMA FiredStays ==
  ASSUME TopoInv, [TopoNext]_topoVars, NEW n \in Node, fired[n] > 0
  PROVE  fired'[n] > 0
<1>1. fired \in [Node -> Nat]
  BY DEF TopoInv, TopoTypeOK
<1>2. CASE UNCHANGED fired
  BY <1>2
<1>3. ASSUME NEW S, NEW W, CheckReady(S, W) PROVE fired'[n] > 0
  BY <1>1, <1>3 DEF CheckReady
<1>4. UNCHANGED fired \/ \E S, W : CheckReady(S, W)
  BY DEF TopoNext, topoVars, AddNode, AddDeps, MergeNodes, ScheduleNode, NotifyDependants,
         CompleteGroup
<1> QED BY <1>2, <1>3, <1>4

(* Once a node has fired, no step changes what it depends on.              *)
LEMMA FrozenStep ==
  ASSUME TopoInv, [TopoNext]_topoVars, NEW n \in Node, fired[n] > 0
  PROVE  IterDeps(n)' = IterDeps(n)
<1>1. /\ n \in scheduled /\ deps[n] \subseteq completed
      /\ completed \subseteq added
  BY DEF TopoInv, FiredReady, CompletedGroups
<1> SUFFICES deps'[n] = deps[n] /\ \A d \in completed : group'[d] = group[d]
  BY <1>1 DEF IterDeps
<1>2. ASSUME NEW m \in Node, AddNode(m)
      PROVE  deps' = deps /\ \A d \in completed : group'[d] = group[d]
  BY <1>1, <1>2 DEF AddNode, TopoInv, TopoTypeOK
<1>3. ASSUME NEW m \in Node, ScheduleNode(m) \/ NotifyDependants(m)
      PROVE  deps' = deps /\ group' = group
  BY <1>3 DEF ScheduleNode, NotifyDependants
<1>4. ASSUME NEW m \in Node, NEW D \in SUBSET Node, AddDeps(m, D)
      PROVE  deps'[n] = deps[n] /\ group' = group
  BY <1>1, <1>4 DEF AddDeps, Pending, TopoInv, TopoTypeOK
<1>5. ASSUME NEW n1 \in Node, NEW n2 \in Node, MergeNodes(n1, n2)
      PROVE  deps' = deps /\ \A d \in completed : group'[d] = group[d]
  <2>1. \A d \in completed : d \notin group[n1] \cup group[n2]
    BY <1>1, <1>5
       DEF MergeNodes, Mergeable, TopoInv, GroupsPartition, CompletedGroups, GroupDone
  <2> QED BY <1>1, <1>5, <2>1 DEF MergeNodes, Mergeable, TopoInv, TopoTypeOK
<1>6. CASE UNCHANGED topoVars
  BY <1>6 DEF topoVars
<1> QED BY <1>2, <1>3, <1>4, <1>5, <1>6 DEF TopoNext

(* What a callback is told of its dependencies stays true. *)
THEOREM TopoFrozenDeps == TopoSpec => FrozenDeps
<1>1. TopoInv /\ [TopoNext]_topoVars
        => [\A n \in Node : fired[n] > 0 => IterDeps(n)' = IterDeps(n)]_topoVars
  BY FrozenStep
<1> QED BY <1>1, TopoInvariant, PTL DEF TopoSpec, FrozenDeps

-----------------------------------------------------------------------------
(* The order in which groups complete. *)

(* A group that completes consists of nodes none of which was completed    *)
(* before and all of which had fired, so what they depend on was.          *)
LEMMA NotifyOrder ==
  ASSUME TopoInv, ReplayOrder, NEW n \in Node, NotifyDependants(n)
  PROVE  ReplayOrder'
<1> USE DEF TopoInv
<1>1. deps' = deps /\ order \in Seq(SUBSET Node)
  BY DEF NotifyDependants, TopoTypeOK
<1>2. CASE left[n] # 1
  BY <1>2 DEF NotifyDependants, ReplayOrder
<1>3. CASE left[n] = 1
  <2> DEFINE G == group[n]
  <2>1. completed' = completed \cup G /\ order' = Append(order, G)
    BY <1>3 DEF NotifyDependants, CompleteGroup
  <2>2. /\ G \in SUBSET Node /\ G \cap completed = {}
        /\ G \subseteq semi \cup {n}
    BY <1>3, NotifyGroup
  <2>3. \A m \in G : deps[m] \subseteq completed
    <3>1. \A m \in G : fired[m] > 0
      BY <2>2 DEF NotifyDependants, FiredReady
    <3> QED BY <2>2, <3>1 DEF FiredReady
  <2>4. /\ Len(order) \in Nat /\ DOMAIN order = 1 .. Len(order)
        /\ DOMAIN order' = 1 .. Len(order) + 1
        /\ \A i \in DOMAIN order : order'[i] = order[i]
        /\ order'[Len(order) + 1] = G
    BY <1>1, <2>1, <2>2
  <2>5. completed = UNION {order[i] : i \in DOMAIN order}
    BY DEF ReplayOrder
  <2>6. completed' = UNION {order'[i] : i \in DOMAIN order'}
    <3>1. ASSUME NEW x \in completed'
          PROVE  \E i \in DOMAIN order' : x \in order'[i]
      BY <2>1, <2>4, <2>5
    <3>2. ASSUME NEW i \in DOMAIN order', NEW x \in order'[i]
          PROVE  x \in completed'
      <4>1. CASE i = Len(order) + 1
        BY <2>1, <2>4, <3>2, <4>1
      <4>2. CASE i \in DOMAIN order
        BY <2>1, <2>4, <2>5, <3>2, <4>2
      <4> QED BY <2>4, <4>1, <4>2
    <3> QED BY <3>1, <3>2
  <2>7. ASSUME NEW i \in DOMAIN order', NEW j \in DOMAIN order', i # j
        PROVE  order'[i] \cap order'[j] = {}
    <3>1. \A k \in DOMAIN order : order[k] \subseteq completed
      BY <2>5
    <3>2. CASE i \in DOMAIN order /\ j \in DOMAIN order
      BY <2>4, <2>7, <3>2 DEF ReplayOrder
    <3>3. CASE i = Len(order) + 1 /\ j \in DOMAIN order
      BY <2>2, <2>4, <3>1, <3>3
    <3>4. CASE j = Len(order) + 1 /\ i \in DOMAIN order
      BY <2>2, <2>4, <3>1, <3>4
    <3> QED BY <2>4, <2>7, <3>2, <3>3, <3>4
  <2>8. ASSUME NEW i \in DOMAIN order', NEW m \in order'[i], NEW d \in deps[m]
        PROVE  \E j \in 1 .. i - 1 : d \in order'[j]
    <3>1. CASE i \in DOMAIN order
      <4>1. PICK j \in 1 .. i - 1 : d \in order[j]
        BY <2>4, <2>8, <3>1 DEF ReplayOrder
      <4> QED BY <2>4, <3>1, <4>1
    <3>2. CASE i = Len(order) + 1
      <4>1. d \in completed
        BY <2>3, <2>4, <2>8, <3>2
      <4>2. PICK j \in DOMAIN order : d \in order[j]
        BY <2>5, <4>1
      <4> QED BY <2>4, <3>2, <4>2
    <3> QED BY <2>4, <3>1, <3>2
  <2> QED BY <1>1, <2>6, <2>7, <2>8 DEF ReplayOrder
<1> QED BY <1>2, <1>3

(* Exit codes are collected once for every completed node, and the order   *)
(* of collection is an order of the dependencies.                          *)
THEOREM TopoReplayOrder == TopoSpec => []ReplayOrder
<1>1. TopoInit => ReplayOrder
  BY DEF TopoInit, ReplayOrder
<1>2. ASSUME TopoInv, ReplayOrder, [TopoNext]_topoVars
      PROVE  ReplayOrder'
  <2>1. ASSUME NEW n \in Node,
               AddNode(n) \/ ScheduleNode(n) \/ NotifyDependants(n)
        PROVE  ReplayOrder'
    BY <1>2, <2>1, NotifyOrder DEF AddNode, ScheduleNode, ReplayOrder
  <2>2. ASSUME NEW n \in Node, NEW D \in SUBSET Node, AddDeps(n, D)
        PROVE  ReplayOrder'
    <3>1. \A i \in DOMAIN order : \A m \in order[i] : m # n
      BY <1>2, <2>2
         DEF AddDeps, Pending, TopoInv, CompletedGroups, GroupDone, GroupsPartition,
             FiredReady, ReplayOrder
    <3>2. \A m \in Node : m # n => deps'[m] = deps[m]
      BY <1>2, <2>2 DEF AddDeps, Pending, TopoInv, TopoTypeOK
    <3>3. \A i \in DOMAIN order : \A m \in order[i] : m \in Node
      BY <1>2 DEF TopoInv, TopoTypeOK, ReplayOrder
    <3>4. order' = order /\ completed' = completed
      BY <2>2 DEF AddDeps, Pending
    <3> QED BY <1>2, <3>1, <3>2, <3>3, <3>4 DEF ReplayOrder
  <2>3. ASSUME NEW n1 \in Node, NEW n2 \in Node, MergeNodes(n1, n2)
        PROVE  ReplayOrder'
    BY <1>2, <2>3 DEF MergeNodes, Mergeable, ReplayOrder
  <2>4. CASE UNCHANGED topoVars
    BY <1>2, <2>4 DEF topoVars, ReplayOrder
  <2> QED BY <1>2, <2>1, <2>2, <2>3, <2>4 DEF TopoNext
<1> QED BY <1>1, <1>2, TopoInvariant, PTL DEF TopoSpec

-----------------------------------------------------------------------------
(* Topo implements TaskGraph. *)

(* Under the invariant the nodes that have fired are the ready ones. *)
LEMMA FiredIsReady ==
  TopoInv => Started = Abstract!Ready
<1> SUFFICES ASSUME TopoInv
             PROVE  Started = Abstract!Ready
  OBVIOUS
<1>1. \A n \in Node : fired[n] > 0 <=> n \in scheduled /\ deps[n] \subseteq completed
  BY DEF TopoInv, FiredReady
<1>2. \A n \in Node : deps[n] \subseteq completed <=>
                     \A d \in deps[n] : group[d] \subseteq semi
  BY DEF TopoInv, CompletedGroups, DepsKnown, GroupDone
<1>3. scheduled \subseteq Node
  BY DEF TopoInv, TopoTypeOK
<1> QED BY <1>1, <1>2, <1>3 DEF Started, Abstract!Ready, Abstract!Closed

(* Topo makes a node fire in the very step that makes it ready. *)
THEOREM TopoImplementsTaskGraph == TopoSpec => AbstractSpec
<1>1. TopoInit => Abstract!Init
  BY DEF TopoInit, Abstract!Init, Started
<1>2. ASSUME TopoInv, TopoInv', [TopoNext]_topoVars
      PROVE  [Abstract!Next]_(Abstract!vars)
  <2>1. (Started = Abstract!Ready)'
    BY <1>2, FiredIsReady, PTL
  <2>2. ASSUME NEW n \in Node, AddNode(n)
        PROVE  Abstract!Add(n)
    BY <2>2 DEF AddNode, Started, Abstract!Add
  <2>3. ASSUME NEW n \in Node, ScheduleNode(n)
        PROVE  Abstract!Schedule(n)
    BY <2>1, <2>3 DEF ScheduleNode, Abstract!Schedule
  <2>4. ASSUME NEW n \in Node, NotifyDependants(n)
        PROVE  Abstract!Finish(n)
    BY <2>1, <2>4 DEF NotifyDependants, TopoTypeOK, Started, Abstract!Finish
  <2>5. ASSUME NEW n \in Node, NEW D \in SUBSET Node, AddDeps(n, D)
        PROVE  Abstract!Depend(n, D)
    BY <2>5 DEF AddDeps, Pending, Started, Abstract!Depend
  <2>6. ASSUME NEW n1 \in Node, NEW n2 \in Node, MergeNodes(n1, n2)
        PROVE  Abstract!Join(n1, n2)
    BY <1>2, <2>6 DEF MergeNodes, Mergeable, TopoInv, CompletedGroups, GroupDone,
                      Started, Abstract!Join, Abstract!Closed
  <2>7. CASE UNCHANGED topoVars
    BY <2>7 DEF topoVars, Started, Abstract!vars
  <2> QED BY <1>2, <2>2, <2>3, <2>4, <2>5, <2>6, <2>7
          DEF TopoNext, Abstract!Next
<1> QED BY <1>1, <1>2, TopoInvariant, PTL DEF TopoSpec, AbstractSpec, Abstract!Spec
=============================================================================
