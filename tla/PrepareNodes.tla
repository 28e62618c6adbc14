----------------------------- MODULE PrepareNodes -----------------------------
(***************************************************************************)
(* How the local runner finds out what has to run (PrepareAllNodesTask of  *)
(* yalibrary/runner/tasks/prepare.py): a pool of threads walks the graph   *)
(* down from the results to the nodes that a cache has, with a Topo of its *)
(* own, and creates a task for a node when those it needs exist.  Tasks    *)
(* created early run meanwhile: one that cannot restore its node after all *)
(* creates tasks too (exec_run_node, PrepareNodeTask), in the same cache.  *)
(***************************************************************************)
EXTENDS Topo

CONSTANTS
  Deps,       \* Deps[n]: Node.dep_nodes()
  Result,     \* nodes with is_result_node
  Answers,    \* Answers[n]: what _get_node_resolve_status may say of n
  Pool,       \* threads of the ThreadPoolExecutor
  Runner,     \* worker threads that run the tasks
  BATCH_SIZE,
  None

ASSUME GraphAssumption ==
  /\ Deps \in [Node -> SUBSET Node] /\ Result \subseteq Node
  /\ Answers \in [Node -> SUBSET {"restore", "run", "error"}]
  /\ BATCH_SIZE \in Nat \ {0} /\ Pool \cap Runner = {}
  /\ None \notin Node \cup {"restore", "run", "prepare", "notify", "add_run_node"}

(* A build graph has no cycles: of any nodes, one needs none of the others.*)
ASSUME Acyclic == \A S \in (SUBSET Node) \ {{}} : \E n \in S : Deps[n] \cap S = {}

Thread == Pool \cup Runner

VARIABLES
  toProcess,  \* nodes_to_process
  seen,       \* seen_nodes
  batches,    \* futures that no thread has begun
  found,      \* new nodes of the futures that are done, until cf.wait
  failed,     \* a future has ended with an exception
  done,       \* "loop", "failed" or "planned": the state of __call__
  stack,      \* stack[th]: the calls thread th is in, the innermost first
  task,       \* task_cache: task[n] is "restore", "run", "prepare" or None
  joint,      \* joint[n]: the tasks added with the task of n as their joint
  begun,      \* <<n, kind>>: the restore and prepare tasks that have begun to run
  stopped,    \* fast_fail was called
  callback,   \* the when_ready of tp.schedule_node: "notify" or "add_run_node"
  resolved    \* resolved[n]: times _process_node considered n

loopVars == <<toProcess, seen, batches, found, failed, done>>
runVars  == <<task, joint, begun, stopped>>
vars == <<topoVars, loopVars, runVars, stack, callback, resolved>>

(* Frames: a batch at a node, callbacks to run, one that has added its run *)
(* task, and a task in exec_run_node.                                      *)
BatchFrame(todo, new) ==
  [op |-> "batch", todo |-> todo, new |-> new, node |-> None, at |-> "next", deps |-> {},
   dep |-> None]
FireFrame(S)  == [op |-> "fire", nodes |-> S]
NotifyFrame(n) == [op |-> "notify", node |-> n]
ExecFrame(n)  == [op |-> "exec", node |-> n, deps |-> Deps[n]]

Top(th)        == Head(stack[th])
In(th, op)     == stack[th] # <<>> /\ Top(th).op = op
At(th, at)     == In(th, "batch") /\ Top(th).at = at
Goto(th, fs)   == stack' = [stack EXCEPT ![th] = fs \o Tail(@)]
Become(th, f)  == Goto(th, <<f>>)
NewlyFired     == {n \in Node : fired'[n] > fired[n]}
Idle(th)       == stack[th] = <<>>

Init ==
  /\ TopoInit
  /\ toProcess = Result /\ seen = {} /\ batches = {} /\ found = {}
  /\ failed = FALSE /\ done = "loop"
  /\ stack = [th \in Thread |-> <<>>]
  /\ task = [n \in Node |-> None] /\ joint = [n \in Node |-> {}] /\ begun = {}
  /\ stopped = FALSE /\ callback = [n \in Node |-> None]
  /\ resolved = [n \in Node |-> 0]

(* The loop of __call__ adds the results to tp before anything else. *)
AddResult(n) ==
  /\ n \in Result /\ seen = {}
  /\ AddNode(n)
  /\ UNCHANGED <<loopVars, runVars, stack, callback, resolved>>

-----------------------------------------------------------------------------
(* The loop. *)

(* Mutant: the nodes that were seen are submitted again. *)
SubmitAgain ==
  /\ done = "loop" /\ toProcess # {} /\ Result \subseteq added
  /\ batches' = batches \cup {{n} : n \in toProcess}
  /\ seen' = seen \cup toProcess
  /\ toProcess' = {}
  /\ UNCHANGED <<topoVars, found, failed, done, runVars, stack, callback, resolved>>

(* A batch is a part of what is new; the parts cover it.                   *)
Submit ==
  /\ done = "loop" /\ toProcess # {} /\ Result \subseteq added
  /\ \E P \in SUBSET ((SUBSET (toProcess \ seen)) \ {{}}) :
       /\ UNION P = toProcess \ seen
       /\ \A A, B \in P : A # B => A \cap B = {}
       /\ \A A \in P : Cardinality(A) <= BATCH_SIZE
       /\ Cardinality({A \in P : Cardinality(A) < BATCH_SIZE}) <= 1
       /\ batches' = batches \cup P
  /\ seen' = seen \cup toProcess
  /\ toProcess' = {}
  /\ UNCHANGED <<topoVars, found, failed, done, runVars, stack, callback, resolved>>

(* Mutant: the futures that are done stay in the list. *)
WaitAgain ==
  /\ done = "loop" /\ toProcess = {} /\ found # {} /\ ~ failed
  /\ toProcess' = found
  /\ UNCHANGED <<topoVars, seen, batches, found, failed, done, runVars, stack, callback,
                 resolved>>

(* cf.wait: some futures are done; what they found is looked at next.      *)
Wait ==
  /\ done = "loop" /\ toProcess = {} /\ found # {} /\ ~ failed
  /\ toProcess' = found /\ found' = {}
  /\ UNCHANGED <<topoVars, seen, batches, failed, done, runVars, stack, callback, resolved>>

(* Mutant: the futures are not waited for. *)
PlannedEarly ==
  /\ done = "loop" /\ toProcess = {} /\ found = {} /\ Result \subseteq seen
  /\ done' = "planned"
  /\ UNCHANGED <<topoVars, toProcess, seen, batches, found, failed, runVars, stack,
                 callback, resolved>>

(* No nodes and no futures left: the results get their tasks.              *)
Planned ==
  /\ done = "loop" /\ toProcess = {} /\ found = {} /\ batches = {} /\ ~ failed
  /\ \A th \in Pool : Idle(th)
  /\ Result \subseteq seen
  /\ done' = "planned"
  /\ UNCHANGED <<topoVars, toProcess, seen, batches, found, failed, runVars, stack,
                 callback, resolved>>

(* An exception of a future ends __call__ when the pool has shut down.     *)
Failed ==
  /\ done = "loop" /\ failed /\ batches = {} /\ \A th \in Pool : Idle(th)
  /\ done' = "failed"
  /\ UNCHANGED <<topoVars, toProcess, seen, batches, found, failed, runVars, stack,
                 callback, resolved>>

-----------------------------------------------------------------------------
(* _process_node. *)

Begin(th) ==
  /\ Idle(th) /\ \E B \in batches :
       /\ batches' = batches \ {B}
       /\ stack' = [stack EXCEPT ![th] = <<BatchFrame(B, {})>>]
  /\ UNCHANGED <<topoVars, toProcess, seen, found, failed, done, runVars, callback, resolved>>

End(th) ==
  /\ At(th, "next") /\ Top(th).todo = {}
  /\ found' = found \cup Top(th).new
  /\ Goto(th, <<>>)
  /\ UNCHANGED <<topoVars, toProcess, seen, batches, failed, done, runVars, callback, resolved>>

Consider(th) ==
  /\ At(th, "next") /\ \E n \in Top(th).todo : \E answer \in Answers[n] \ {"error"} :
       /\ resolved' = [resolved EXCEPT ![n] = @ + 1]
       /\ Become(th, [Top(th) EXCEPT !.todo = @ \ {n}, !.node = n, !.deps = Deps[n],
                                     !.at = answer])
  /\ UNCHANGED <<topoVars, loopVars, runVars, callback>>

(* "Failed to find in the distributed cache": fast_fail and _ResolveError. *)
ResolveError(th) ==
  /\ At(th, "next") /\ \E n \in Top(th).todo :
       "error" \in Answers[n] /\ resolved' = [resolved EXCEPT ![n] = @ + 1]
  /\ stopped' = TRUE /\ failed' = TRUE
  /\ Goto(th, <<>>)
  /\ UNCHANGED <<topoVars, toProcess, seen, batches, found, done, task, joint, begun,
                 callback>>

(* Mutant: a task replaces the one in the cache. *)
CacheReplaces(n, kind) == task' = [task EXCEPT ![n] = kind]

(* task_cache(n, ...): a cached task stays. *)
Cache(n, kind) == task' = [task EXCEPT ![n] = IF @ = None THEN kind ELSE @]

(* Adding a task raises once the state is stopped. *)
Abort(th) ==
  /\ stopped /\ task[Top(th).node] = None
  /\ failed' = TRUE
  /\ stack' = [stack EXCEPT ![th] = <<>>]
  /\ UNCHANGED <<topoVars, toProcess, seen, batches, found, done, runVars, callback, resolved>>

PlanRestore(th) ==
  /\ At(th, "restore")
  /\ stopped => task[Top(th).node] # None
  /\ Cache(Top(th).node, "restore")
  /\ Become(th, [Top(th) EXCEPT !.at = "schedule"])
  /\ UNCHANGED <<topoVars, loopVars, joint, begun, stopped, callback, resolved>>

RestoreAborts(th) == At(th, "restore") /\ Abort(th)

(* "x not in tp", and then add_node: another thread may be between.        *)
LookAtDep(th) ==
  /\ At(th, "run") /\ \E x \in Top(th).deps :
       Become(th, IF x \in added
                    THEN [Top(th) EXCEPT !.at = "link", !.dep = x]
                    ELSE [Top(th) EXCEPT !.at = "add", !.dep = x, !.new = @ \cup {x}])
  /\ UNCHANGED <<topoVars, loopVars, runVars, callback, resolved>>

AddFound(th) ==
  /\ At(th, "add")
  /\ AddNode(Top(th).dep) \/ (Top(th).dep \in added /\ UNCHANGED topoVars)
  /\ Become(th, [Top(th) EXCEPT !.at = "link"])
  /\ UNCHANGED <<loopVars, runVars, callback, resolved>>

LinkDep(th) ==
  /\ At(th, "link")
  /\ AddDeps(Top(th).node, {Top(th).dep})
  /\ Become(th, [Top(th) EXCEPT !.deps = @ \ {Top(th).dep}, !.at = "run"])
  /\ UNCHANGED <<loopVars, runVars, callback, resolved>>

(* The thread that makes a node ready runs its callback.                   *)
Schedule(th) ==
  /\ At(th, "schedule") \/ (At(th, "run") /\ Top(th).deps = {})
  /\ callback' = [callback EXCEPT ![Top(th).node] =
                    IF Top(th).at = "run" THEN "add_run_node" ELSE "notify"]
  /\ ScheduleNode(Top(th).node)
  /\ Goto(th, <<FireFrame(NewlyFired), [Top(th) EXCEPT !.at = "next"]>>)
  /\ UNCHANGED <<loopVars, runVars, resolved>>

-----------------------------------------------------------------------------
(* The callbacks: notify_dependants, after add_run_node if there was a miss.*)

Fire(th) ==
  /\ In(th, "fire") /\ Top(th).nodes = {}
  /\ Goto(th, <<>>)
  /\ UNCHANGED <<topoVars, loopVars, runVars, callback, resolved>>

AddRunNode(th) ==
  /\ In(th, "fire") /\ \E n \in Top(th).nodes :
       /\ callback[n] = "add_run_node" /\ ~ (stopped /\ task[n] = None)
       /\ \A x \in Deps[n] : task[x] # None
       /\ Cache(n, "run")
       /\ Goto(th, <<NotifyFrame(n), FireFrame(Top(th).nodes \ {n})>>)
  /\ UNCHANGED <<topoVars, loopVars, joint, begun, stopped, callback, resolved>>

RunNodeAborts(th) ==
  /\ In(th, "fire") /\ stopped
  /\ \E n \in Top(th).nodes : callback[n] = "add_run_node" /\ task[n] = None
  /\ failed' = TRUE
  /\ stack' = [stack EXCEPT ![th] = <<>>]
  /\ UNCHANGED <<topoVars, toProcess, seen, batches, found, done, runVars, callback,
                 resolved>>

Notify(th) ==
  /\ \/ /\ In(th, "notify") /\ NotifyDependants(Top(th).node)
        /\ Goto(th, <<FireFrame(NewlyFired)>>)
     \/ /\ In(th, "fire") /\ \E n \in Top(th).nodes :
             /\ callback[n] = "notify" /\ NotifyDependants(n)
             /\ Goto(th, <<FireFrame(NewlyFired), FireFrame(Top(th).nodes \ {n})>>)
  /\ UNCHANGED <<loopVars, runVars, callback, resolved>>

-----------------------------------------------------------------------------
(* The tasks of the run queue, as far as they create tasks. *)

Waiting(n, kind) == <<n, kind>> \notin begun /\ (task[n] = kind \/ kind \in joint[n])

(* A restore may find that the artifact has gone.                          *)
Restore(r) ==
  /\ Idle(r) /\ \E n \in Node :
       /\ Waiting(n, "restore")
       /\ begun' = begun \cup {<<n, "restore">>}
       /\ stack' \in {stack, [stack EXCEPT ![r] = <<ExecFrame(n)>>]}
  /\ UNCHANGED <<topoVars, loopVars, task, joint, stopped, callback, resolved>>

(* PrepareNodeTask: everything but a hit means to run the node.            *)
PrepareNode(r) ==
  /\ Idle(r) /\ \E n \in Node, answer \in {"restore", "run", "error"} :
       /\ Waiting(n, "prepare") /\ answer \in Answers[n]
       /\ begun' = begun \cup {<<n, "prepare">>}
       /\ IF answer = "restore"
            THEN /\ joint' = [joint EXCEPT ![n] = IF stopped THEN @ ELSE @ \cup {"restore"}]
                 /\ UNCHANGED stack
            ELSE stack' = [stack EXCEPT ![r] = <<ExecFrame(n)>>] /\ UNCHANGED joint
  /\ UNCHANGED <<topoVars, loopVars, task, stopped, callback, resolved>>

(* exec_run_node: a task for every dependency, then the node's own, joint  *)
(* with the task that could not restore it.  All of it may raise.          *)
ExecDep(r) ==
  /\ In(r, "exec") /\ \E x \in Top(r).deps :
       IF stopped /\ task[x] = None
         THEN Goto(r, <<>>) /\ UNCHANGED task
         ELSE Cache(x, "prepare") /\ Become(r, [Top(r) EXCEPT !.deps = @ \ {x}])
  /\ UNCHANGED <<topoVars, loopVars, joint, begun, stopped, callback, resolved>>

(* Mutant: the tasks of the dependencies are added, the node's own is not. *)
ExecRunForgets(r) ==
  /\ In(r, "exec") /\ Top(r).deps = {}
  /\ Goto(r, <<>>)
  /\ UNCHANGED <<topoVars, loopVars, runVars, callback, resolved>>

ExecRun(r) ==
  /\ In(r, "exec") /\ Top(r).deps = {}
  /\ joint' = [joint EXCEPT ![Top(r).node] = IF stopped THEN @ ELSE @ \cup {"run"}]
  /\ Goto(r, <<>>)
  /\ UNCHANGED <<topoVars, loopVars, task, begun, stopped, callback, resolved>>

-----------------------------------------------------------------------------
Ended ==
  /\ done # "loop" /\ \A th \in Thread : Idle(th)
  /\ \A n \in Node : ~ Waiting(n, "restore") /\ ~ Waiting(n, "prepare")

Terminated == Ended /\ UNCHANGED vars

LoopStep == (\E n \in Node : AddResult(n)) \/ Submit \/ Wait \/ Planned \/ Failed

PoolStep(th) ==
  \/ Begin(th) \/ End(th) \/ Consider(th) \/ ResolveError(th) \/ PlanRestore(th)
  \/ RestoreAborts(th) \/ LookAtDep(th) \/ AddFound(th) \/ LinkDep(th)
  \/ Schedule(th) \/ Fire(th) \/ AddRunNode(th) \/ RunNodeAborts(th) \/ Notify(th)

RunnerStep(r) == Restore(r) \/ PrepareNode(r) \/ ExecDep(r) \/ ExecRun(r)

Next == LoopStep \/ (\E th \in Pool : PoolStep(th)) \/ (\E r \in Runner : RunnerStep(r))
          \/ Terminated

Fairness == /\ WF_vars(LoopStep)
            /\ \A th \in Pool : WF_vars(PoolStep(th))
            /\ \A r \in Runner : WF_vars(RunnerStep(r))

Spec == Init /\ [][Next]_vars /\ Fairness

-----------------------------------------------------------------------------
(* "Measures are taken for every node to be considered at most once" (the  *)
(* README of the tasks), although several nodes lead to it and the threads *)
(* find it at the same time; the assertions of tp hold; and add_run_node   *)
(* finds a task for every dependency: task_cache(x) raises KeyError        *)
(* otherwise.                                                              *)
ConsideredInOrder ==
  /\ \A n \in Node : resolved[n] <= 1
  /\ \A th \in Pool :
       /\ At(th, "schedule") => Top(th).node \in added \ scheduled
       /\ At(th, "link") => Top(th).dep \in added /\ Top(th).node \notin scheduled
       /\ In(th, "fire") =>
            \A n \in Top(th).nodes : callback[n] = "add_run_node" =>
              \A x \in Deps[n] : task[x] # None

(* When the preparation ends, every node it met is scheduled (the sanity   *)
(* check), every result has a task, and a node that will run has a task    *)
(* for each of its dependencies.                                           *)
PlanComplete ==
  done = "planned" =>
    /\ added = scheduled /\ \A n \in Result : task[n] # None
    /\ \A n \in Node : task[n] = "run" \/ "run" \in joint[n] =>
         \A x \in Deps[n] : task[x] # None

(* No node runs twice, whoever finds that it has to run.                   *)
RunsAtMostOnce ==
  /\ \A n \in Node : task[n] = "run" => joint[n] = {}
  /\ \A r \in Runner : In(r, "exec") => "run" \notin joint[Top(r).node]

(* When nothing failed, a node that is no result has a task only because   *)
(* some node needs it that was not in the caches when it was looked for,   *)
(* by the preparation or by a task.  (That node need not run: a task that  *)
(* looks again, PrepareNodeTask, may find it.)                             *)
NothingNeedless ==
  done = "planned" /\ Ended =>
    \A n \in Node \ Result : task[n] # None =>
      \E m \in Node : /\ n \in Deps[m]
                      /\ callback[m] = "add_run_node" \/ "run" \in joint[m]

PreparationEnds == <>(done # "loop")
=============================================================================
