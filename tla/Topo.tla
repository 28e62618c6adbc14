--------------------------------- MODULE Topo ---------------------------------
(***************************************************************************)
(* Topo and DisjointSet of devtools/ya/yalibrary/runner/topo.py: the       *)
(* scheduler of the local runner.  Every method runs under Topo._lock, so  *)
(* one call is one step; the callbacks a call makes ready are handed to    *)
(* the caller, which runs them after the lock is released.  fired counts   *)
(* how often the callback of a node has been handed out.                   *)
(*                                                                         *)
(* The guards are the assertions of the methods and the documented         *)
(* discipline of their callers: notify_dependants is called once for a     *)
(* node, by its callback.  RunQueue shows that the run queue keeps it.     *)
(*                                                                         *)
(* The union-find is represented by what it computes: group[n] is          *)
(* _dsu.group(n) and left[n] is _dsu[n], the value its group shares.  The  *)
(* lists _deps[n] and _who_awaits[n] are sets: a caller names a dependency *)
(* of a node once.                                                         *)
(***************************************************************************)
EXTENDS Integers, FiniteSets, Sequences

CONSTANT Node

ASSUME NodeAssumption == IsFiniteSet(Node)

VARIABLES
  added,      \* keys of _dsu
  group,      \* group[n]: nodes merged with n
  left,       \* left[n]: nodes of n's group that have not notified yet
  deps,       \* _deps
  whoAwaits,  \* _who_awaits
  awaiting,   \* _awaiting
  scheduled,  \* _scheduled
  completed,  \* _completed
  whenReady,  \* keys of _when_ready
  order,      \* _activation_order
  semi,       \* nodes that called notify_dependants: "semi-completed (sc)"
  fired       \* fired[n]: times the callback of n was handed out

topoVars == <<added, group, left, deps, whoAwaits, awaiting, scheduled,
              completed, whenReady, order, semi, fired>>

TopoInit ==
  /\ added = {}
  /\ group = [n \in Node |-> {}]
  /\ left = [n \in Node |-> 0]
  /\ deps = [n \in Node |-> {}]
  /\ whoAwaits = [n \in Node |-> {}]
  /\ awaiting = [n \in Node |-> 0]
  /\ scheduled = {}
  /\ completed = {}
  /\ whenReady = {}
  /\ order = <<>>
  /\ semi = {}
  /\ fired = [n \in Node |-> 0]

-----------------------------------------------------------------------------
(* The methods of Topo. *)

AddNode(n) ==
  /\ n \notin added
  /\ added' = added \cup {n}
  /\ group' = [group EXCEPT ![n] = {n}]
  /\ left' = [left EXCEPT ![n] = 1]
  /\ whoAwaits' = [whoAwaits EXCEPT ![n] = {}]
  /\ awaiting' = [awaiting EXCEPT ![n] = 0]
  /\ UNCHANGED <<deps, scheduled, completed, whenReady, order, semi, fired>>

(* Mutant: every dependency is counted.                                    *)
PendingAll(D) == D

(* Only dependencies that are not completed are counted and waited for. *)
Pending(D) == D \ completed

AddDeps(n, D) ==
  /\ D \subseteq added
  /\ n \in added \ scheduled
  /\ D \cap deps[n] = {}
  /\ deps' = [deps EXCEPT ![n] = @ \cup D]
  /\ whoAwaits' = [d \in Node |-> IF d \in Pending(D)
                                    THEN whoAwaits[d] \cup {n}
                                    ELSE whoAwaits[d]]
  /\ awaiting' = [awaiting EXCEPT ![n] = @ + Cardinality(Pending(D))]
  /\ UNCHANGED <<added, group, left, scheduled, completed, whenReady, order,
                 semi, fired>>

(* DisjointSet.merge returns early for nodes of one group. *)
Mergeable(n1, n2) ==
  {n1, n2} \subseteq added \ completed /\ group[n1] # group[n2]

MergeNodes(n1, n2) ==
  /\ Mergeable(n1, n2)
  /\ LET G == group[n1] \cup group[n2]
     IN  /\ group' = [n \in Node |-> IF n \in G THEN G ELSE group[n]]
         /\ left' = [n \in Node |-> IF n \in G THEN left[n1] + left[n2]
                                               ELSE left[n]]
  /\ UNCHANGED <<added, deps, whoAwaits, awaiting, scheduled, completed,
                 whenReady, order, semi, fired>>

(* Mutants: the callback stays in _when_ready; the counter is not looked at.*)
CheckReadyKeeps(S, W) ==
  LET ready == {n \in S \cap W : awaiting'[n] = 0}
  IN  /\ whenReady' = W
      /\ fired' = [n \in Node |-> IF n \in ready THEN fired[n] + 1 ELSE fired[n]]
CheckReadyEarly(S, W) ==
  /\ whenReady' = W \ S
  /\ fired' = [n \in Node |-> IF n \in S \cap W THEN fired[n] + 1 ELSE fired[n]]

(* _check_ready on every node of S: the callbacks of those that wait for   *)
(* nothing any more are taken out of W and handed out.                     *)
CheckReady(S, W) ==
  LET ready == {n \in S \cap W : awaiting'[n] = 0}
  IN  /\ whenReady' = W \ ready
      /\ fired' = [n \in Node |-> IF n \in ready THEN fired[n] + 1
                                                 ELSE fired[n]]

ScheduleNode(n) ==
  /\ n \in added \ scheduled
  /\ scheduled' = scheduled \cup {n}
  /\ UNCHANGED <<added, group, left, deps, whoAwaits, awaiting, completed,
                 order, semi>>
  /\ CheckReady({n}, whenReady \cup {n})

(* The last member of the group: everybody who awaits a member is told. *)
CompleteGroup(G) ==
  /\ completed' = completed \cup G
  /\ order' = Append(order, G)
  /\ awaiting' = [n \in Node |->
                    awaiting[n] - Cardinality({d \in G : n \in whoAwaits[d]})]
  /\ CheckReady({n \in scheduled : \E d \in G : n \in whoAwaits[d]}, whenReady)

NotifyDependants(n) ==
  /\ fired[n] > 0 /\ n \notin semi
  /\ semi' = semi \cup {n}
  /\ left' = [m \in Node |-> IF m \in group[n] THEN left[n] - 1 ELSE left[m]]
  /\ \/ left[n] = 1 /\ CompleteGroup(group[n])
     \/ left[n] # 1 /\ UNCHANGED <<completed, order, awaiting, whenReady, fired>>
  /\ UNCHANGED <<added, group, deps, whoAwaits, scheduled>>

TopoNext ==
  \/ \E n \in Node : AddNode(n) \/ ScheduleNode(n) \/ NotifyDependants(n)
  \/ \E n \in Node, D \in SUBSET Node : AddDeps(n, D)
  \/ \E n1, n2 \in Node : MergeNodes(n1, n2)

TopoSpec == TopoInit /\ [][TopoNext]_topoVars

-----------------------------------------------------------------------------
(* _iter_deps: what a callback is told about the dependencies of its node. *)
IterDeps(n) == UNION {group[d] : d \in deps[n]}

GroupDone(n) == group[n] \subseteq semi

-----------------------------------------------------------------------------
TopoTypeOK ==
  /\ added \in SUBSET Node
  /\ group \in [Node -> SUBSET Node]
  /\ left \in [Node -> Int]
  /\ deps \in [Node -> SUBSET Node]
  /\ whoAwaits \in [Node -> SUBSET Node]
  /\ awaiting \in [Node -> Int]
  /\ scheduled \in SUBSET Node
  /\ completed \in SUBSET Node
  /\ whenReady \in SUBSET Node
  /\ order \in Seq(SUBSET Node)
  /\ semi \in SUBSET Node
  /\ fired \in [Node -> Nat]

(* "For each node _when_ready should be performed once", and "only when    *)
(* the node is in (s) and its dependencies are in (c)": a callback handed  *)
(* out belongs to a scheduled node whose dependencies -- and everything    *)
(* merged with them -- have notified.                                      *)
FiredOnceAfterDeps ==
  \A n \in Node : fired[n] > 0 => /\ fired[n] = 1
                                  /\ n \in scheduled
                                  /\ \A d \in deps[n] : GroupDone(d)

(* No activation is lost: a scheduled node all of whose dependencies have  *)
(* finished, with everything merged with them, has been handed out,        *)
(* whatever the order of add_deps, merge_nodes, schedule_node and          *)
(* notify_dependants was.                                                  *)
NoLostActivation ==
  \A n \in scheduled : (\A d \in deps[n] : GroupDone(d)) => fired[n] = 1

(* _iter_deps runs after the lock is released, and the run queue passes    *)
(* its result to the task: the set cannot change once the node has fired.  *)
FrozenDeps ==
  [][\A n \in Node : fired[n] > 0 => IterDeps(n)' = IterDeps(n)]_topoVars

(* replay() lists every completed node once, and after all the nodes it    *)
(* depended on: exit codes and the critical path are computed from it.     *)
ReplayOrder ==
  /\ completed = UNION {order[i] : i \in DOMAIN order}
  /\ \A i, j \in DOMAIN order : i # j => order[i] \cap order[j] = {}
  /\ \A i \in DOMAIN order : \A n \in order[i] : \A d \in deps[n] :
       \E j \in 1 .. i - 1 : d \in order[j]

-----------------------------------------------------------------------------
(* The inductive invariant: what every counter, list and set of Topo       *)
(* stands for.                                                             *)

GroupsPartition ==
  \A n \in added : /\ n \in group[n]
                   /\ group[n] \subseteq added
                   /\ \A m \in group[n] : group[m] = group[n]

LeftCounts == \A n \in added : left[n] = Cardinality(group[n] \ semi)

CompletedGroups == completed = {n \in added : GroupDone(n)}

DepsKnown == \A n \in Node : /\ deps[n] \subseteq added
                             /\ n \notin added => deps[n] = {}

WaitersAwait ==
  \A d \in added \ completed, n \in Node : n \in whoAwaits[d] <=> d \in deps[n]

AwaitingCounts ==
  \A n \in added : awaiting[n] = Cardinality(deps[n] \ completed)

FiredReady ==
  /\ scheduled \subseteq added
  /\ \A n \in Node : fired[n] = IF n \in scheduled /\ deps[n] \subseteq completed
                                 THEN 1 ELSE 0
  /\ whenReady = {n \in scheduled : fired[n] = 0}
  /\ \A n \in semi : fired[n] > 0

TopoInv ==
  /\ TopoTypeOK
  /\ GroupsPartition
  /\ LeftCounts
  /\ CompletedGroups
  /\ DepsKnown
  /\ WaitersAwait
  /\ AwaitingCounts
  /\ FiredReady

(* Nodes whose callback was handed out. *)
Started == {n \in Node : fired[n] > 0}

(* Topo keeps the promise of TaskGraph: the counters and waiter lists make *)
(* a node fire in the very step that makes it ready.                       *)
Abstract == INSTANCE TaskGraph WITH
              Task <- Node, known <- added, finished <- semi,
              started <- Started
AbstractSpec == Abstract!Spec
=============================================================================
