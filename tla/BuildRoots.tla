----------------------------- MODULE BuildRoots -----------------------------
(***************************************************************************)
(* The life of a build root (BuildRoot of yalibrary/runner/build_root.py): *)
(* the directory with the outputs of a node, deleted by the dec that finds *)
(* its counter at zero.  The tasks of yalibrary/runner/tasks create, fill, *)
(* read and give up the roots on several workers: RestoreFromCacheTask and *)
(* RestoreFromDistCacheTask, RunNodeTask, WriteThroughCachesTask, the two  *)
(* tasks that put in a cache, and ResultNodeTask.                          *)
(*                                                                         *)
(* The run queue is reduced to what the roots can tell: a task starts when *)
(* the tasks it depends on are over (RunQueue shows it), and the tasks of  *)
(* a node that could not be restored, with those of its dependencies, are  *)
(* added in one step (PrepareNodes has the details).  A failure does not   *)
(* stop the build (-k), and operations on files succeed.                   *)
(***************************************************************************)
EXTENDS Integers, FiniteSets, Sequences

CONSTANTS
  Node,
  Deps,       \* Deps[n]: the nodes whose outputs n needs
  Cached,     \* nodes that a cache has when the preparation asks it
  Tolerant,   \* nodes with ignore_broken_dependencies
  Builds,     \* [result, eager]: the nodes with is_result_node, and
              \* opts.eager_execution, of the builds
  Worker

ASSUME RootsAssumption ==
  /\ IsFiniteSet(Node) /\ IsFiniteSet(Worker) /\ Deps \in [Node -> SUBSET Node]
  /\ Builds \subseteq [result : SUBSET Node, eager : BOOLEAN]
  /\ Cached \subseteq Node /\ Tolerant \subseteq Node /\ "result" \notin Node

(* A node has a root for the task that restores it and, if that fails,     *)
(* another one for the task that runs it.                                  *)
Root == Node \X {"restore", "run"}
Task == [op : {"restore", "run"}, root : Root]
        \cup [op : {"write", "put local", "put dist", "result"}, root : Root]

VARIABLES
  build,      \* the build at hand, one of Builds
  made,       \* tasks that were added to the run queue
  over,       \* tasks that have ended
  stack,      \* stack[w]: the calls worker w is in, the innermost first
  refcount,   \* BuildRoot._refcount
  created,    \* roots with BuildRoot._created
  ok,         \* roots with BuildRoot._ok
  deleted,    \* roots whose directory has been removed
  took        \* <<r, u>>: u, a consumer or "result", has taken the outputs of r

rootVars == <<refcount, created, ok, deleted, took>>
vars == <<build, made, over, stack, rootVars>>

Result == build.result
Eager == build.eager

T(op, r)     == [op |-> op, root |-> r]
Consumers(n) == {c \in Node : n \in Deps[c]}

(* Mutant: the result task is not counted. *)
RefcountConsumers(n) == Cardinality(Consumers(n))

(* Node.refcount: one for every consumer and one for the result.           *)
Refcount(n) == Cardinality(Consumers(n)) + (IF n \in Result THEN 1 ELSE 0)

MainTasks(n) == made \cap {T(k, <<n, k>>) : k \in {"restore", "run"}}
NodeOver(n)  == MainTasks(n) # {} /\ MainTasks(n) \subseteq over

(* The nodes the preparation reaches from S: it stops at cached ones and   *)
(* at nodes in the set Known, which have their tasks.                      *)
Closed(X, S, Known) ==
  S \ Known \subseteq X /\ \A n \in X \ Cached : Deps[n] \ Known \subseteq X

Reached(S, Known) ==
  {n \in Node : \A X \in SUBSET Node : Closed(X, S, Known) => n \in X}

(* The tasks it makes for them. *)
TasksFor(S) == {LET k == IF n \in Cached THEN "restore" ELSE "run"
                IN  T(k, <<n, k>>) : n \in S}

(* With eager execution the task that made the outputs adds the result     *)
(* task; otherwise it depends on the tasks of the node.                    *)
ResultTask(n) == T("result", <<n, "run">>)

Init ==
  /\ build \in Builds
  /\ made = TasksFor(Reached(Result, {}))
            \cup (IF Eager THEN {} ELSE {ResultTask(n) : n \in Result})
  /\ over = {} /\ stack = [w \in Worker |-> <<>>]
  /\ refcount = [r \in Root |-> Refcount(r[1])]
  /\ created = {} /\ ok = {} /\ deleted = {} /\ took = {}

-----------------------------------------------------------------------------
(* The calls of a worker: tasks, one of them inside another when it is     *)
(* executed in place, and BuildRoot.dec.                                   *)

Frame(t)     == [op |-> t.op, root |-> t.root, at |-> "begin", todo |-> {}]
DecFrame(r)  == [op |-> "dec", root |-> r, at |-> "locked", todo |-> {}]

At(w, op, at) == stack[w] # <<>> /\ Head(stack[w]).op = op /\ Head(stack[w]).at = at
Top(w)        == Head(stack[w])
RootOf(w)     == Top(w).root
NodeOf(w)     == RootOf(w)[1]

(* The innermost call goes on at step at, after the calls fs. *)
Go(w, fs, at) == stack' = [stack EXCEPT ![w] = fs \o <<[Top(w) EXCEPT !.at = at]>> \o Tail(@)]
Step(w, at)   == Go(w, <<>>, at)

Running == UNION {{T(stack[w][i].op, stack[w][i].root) : i \in DOMAIN stack[w]} : w \in Worker}

Startable(t) ==
  CASE t.op = "run"               -> \A d \in Deps[t.root[1]] : NodeOver(d)
    [] t.op = "result" /\ ~ Eager -> NodeOver(t.root[1])
    [] OTHER                      -> TRUE

Start(w) ==
  /\ stack[w] = <<>>
  /\ \E t \in made \ (over \cup Running) :
       Startable(t) /\ stack' = [stack EXCEPT ![w] = <<Frame(t)>>]
  /\ UNCHANGED <<made, over, rootVars>>

(* runq.add, then step at. *)
Add(w, t, inplace, at) ==
  /\ made' = made \cup {t}
  /\ Go(w, IF inplace THEN <<Frame(t)>> ELSE <<>>, at)

End(w) ==
  /\ stack[w] # <<>> /\ Top(w).at = "end"
  /\ over' = over \cup {T(Top(w).op, RootOf(w))}
  /\ stack' = [stack EXCEPT ![w] = Tail(@)]
  /\ UNCHANGED <<made, rootVars>>

-----------------------------------------------------------------------------
(* BuildRoot.dec: the lock covers the subtraction, neither the comparison  *)
(* with zero nor delete.                                                   *)

Subtract(w) ==
  /\ At(w, "dec", "locked")
  /\ refcount' = [refcount EXCEPT ![RootOf(w)] = @ - 1]
  /\ Step(w, "compare")
  /\ UNCHANGED <<made, over, created, ok, deleted, took>>

Compare(w) ==
  /\ At(w, "dec", "compare")
  /\ IF refcount[RootOf(w)] = 0
       THEN Step(w, "delete")
       ELSE stack' = [stack EXCEPT ![w] = Tail(@)]
  /\ UNCHANGED <<made, over, rootVars>>

Delete(w) ==
  /\ At(w, "dec", "delete")
  /\ deleted' = deleted \cup {RootOf(w)}
  /\ stack' = [stack EXCEPT ![w] = Tail(@)]
  /\ UNCHANGED <<made, over, refcount, created, ok, took>>

(* BuildRoot.inc, the whole of it under the lock; it raises where          *)
(* CountersSound does not hold.                                            *)
Inc(w) == refcount' = [refcount EXCEPT ![RootOf(w)] = @ + 1]

(* eager_result, the last thing a task does. *)
EagerResult(w) ==
  /\ At(w, "restore", "result") \/ At(w, "run", "result")
  /\ IF Eager /\ NodeOf(w) \in Result
       THEN \E inplace \in BOOLEAN : Add(w, T("result", RootOf(w)), inplace, "end")
       ELSE Step(w, "end") /\ UNCHANGED made
  /\ UNCHANGED <<over, rootVars>>

-----------------------------------------------------------------------------
(* RestoreFromCacheTask and RestoreFromDistCacheTask. *)

(* Mutant: the root is not marked as created. *)
CreateUnmarked(w) ==
  /\ At(w, "restore", "begin") \/ At(w, "run", "begin")
  /\ Step(w, "fill")
  /\ UNCHANGED <<made, over, rootVars>>

Create(w) ==
  /\ At(w, "restore", "begin") \/ At(w, "run", "begin")
  /\ created' = created \cup {RootOf(w)}
  /\ Step(w, "fill")
  /\ UNCHANGED <<made, over, refcount, ok, deleted, took>>

(* What the preparation saw is gone: the node is run. *)
RestoreMiss(w) ==
  /\ At(w, "restore", "fill")
  /\ made' = made \cup {T("run", <<NodeOf(w), "run">>)}
                  \cup TasksFor(Reached(Deps[NodeOf(w)], {n \in Node : MainTasks(n) # {}}))
  /\ Step(w, "end")
  /\ UNCHANGED <<over, rootVars>>

(* The outputs may have to go to the other cache. *)
RestoreHit(w) ==
  /\ At(w, "restore", "fill")
  /\ ok' = ok \cup {RootOf(w)}
  /\ \/ Step(w, "result") /\ UNCHANGED refcount
     \/ \E at \in {"to dist", "to local"} : Step(w, at) /\ Inc(w)
  /\ UNCHANGED <<made, over, created, deleted, took>>

(* The task that puts in the local cache is never executed in place. *)
RestoreForward(w) ==
  /\ \/ At(w, "restore", "to dist") /\ Add(w, T("put dist", RootOf(w)), Eager, "result")
     \/ At(w, "restore", "to local") /\ Add(w, T("put local", RootOf(w)), FALSE, "result")
  /\ UNCHANGED <<over, rootVars>>

-----------------------------------------------------------------------------
(* RunNodeTask. *)

(* Found by its content uid, the node needs none of its dependencies.      *)
RunCached(w) ==
  /\ At(w, "run", "fill")
  /\ ok' = ok \cup {RootOf(w)}
  /\ Step(w, "publish")
  /\ UNCHANGED <<made, over, refcount, created, deleted, took>>

OkRoots(n) == ok \cap ({n} \X {"restore", "run"})

RunLook(w) ==
  /\ At(w, "run", "fill")
  /\ LET looking == [op |-> "run", root |-> RootOf(w), at |-> "steal",
                     todo |-> UNION {OkRoots(d) : d \in Deps[NodeOf(w)]}]
     IN  stack' = [stack EXCEPT ![w] = <<looking>> \o Tail(@)]
  /\ UNCHANGED <<made, over, rootVars>>

(* steal: the outputs are linked into the root, and dec is called. *)
Steal(w) ==
  /\ At(w, "run", "steal")
  /\ \E r \in Top(w).todo :
       /\ took' = took \cup {<<r, NodeOf(w)>>}
       /\ stack' = [stack EXCEPT ![w] = <<DecFrame(r), [Top(w) EXCEPT !.todo = @ \ {r}]>> \o Tail(@)]
  /\ UNCHANGED <<made, over, refcount, created, ok, deleted>>

Broken(n) == n \notin Tolerant /\ \E d \in Deps[n] : \A k \in {"restore", "run"} : <<<<d, k>>, n>> \notin took

(* The node is broken by its dependencies, or its commands end, well or    *)
(* not; a node that fails has no outputs to cache.                         *)
Execute(w) ==
  /\ At(w, "run", "steal") /\ Top(w).todo = {}
  /\ \/ Step(w, "result") /\ UNCHANGED ok
     \/ /\ ~ Broken(NodeOf(w))
        /\ ok' = ok \cup {RootOf(w)} /\ Step(w, "publish")
  /\ UNCHANGED <<made, over, refcount, created, deleted, took>>

(* Mutant: one reference for both caches. *)
PublishOnce(w) ==
  /\ \/ At(w, "run", "publish") /\ Step(w, "result") /\ UNCHANGED refcount
     \/ At(w, "run", "publish") /\ Step(w, "for dist") /\ Inc(w)
  /\ UNCHANGED <<made, over, created, ok, deleted, took>>

(* One reference for each cache, unless the node is not cacheable. *)
Publish(w) ==
  /\ \/ At(w, "run", "publish") /\ Step(w, "result") /\ UNCHANGED refcount
     \/ At(w, "run", "publish") /\ Step(w, "for local") /\ Inc(w)
     \/ At(w, "run", "for local") /\ Step(w, "for dist") /\ Inc(w)
  /\ UNCHANGED <<made, over, created, ok, deleted, took>>

AddWrite(w) ==
  /\ At(w, "run", "for dist")
  /\ Add(w, T("write", RootOf(w)), Eager, "result")
  /\ UNCHANGED <<over, rootVars>>

-----------------------------------------------------------------------------
(* Mutant: without a cache to put in, the reference is kept. *)
WriteThroughKeeps(w) ==
  /\ \/ At(w, "write", "begin") /\ Add(w, T("put local", RootOf(w)), Eager, "second")
     \/ At(w, "write", "second") /\ Add(w, T("put dist", RootOf(w)), Eager, "end")
     \/ At(w, "write", "begin") /\ Step(w, "second") /\ UNCHANGED made
     \/ At(w, "write", "second") /\ Step(w, "end") /\ UNCHANGED made
  /\ UNCHANGED <<over, rootVars>>

(* WriteThroughCachesTask: each cache gets the outputs, or its reference   *)
(* is given up.                                                            *)
WriteThrough(w) ==
  /\ \/ At(w, "write", "begin") /\ Add(w, T("put local", RootOf(w)), Eager, "second")
     \/ At(w, "write", "second") /\ Add(w, T("put dist", RootOf(w)), Eager, "end")
     \/ At(w, "write", "begin") /\ Go(w, <<DecFrame(RootOf(w))>>, "second") /\ UNCHANGED made
     \/ At(w, "write", "second") /\ Go(w, <<DecFrame(RootOf(w))>>, "end") /\ UNCHANGED made
  /\ UNCHANGED <<over, rootVars>>

(* PutInCacheTask, PutInDistCacheTask: the outputs are read, then dec. *)
PutInCache(w) ==
  /\ At(w, "put local", "begin") \/ At(w, "put dist", "begin")
  /\ Go(w, <<DecFrame(RootOf(w))>>, "end")
  /\ UNCHANGED <<made, over, rootVars>>

(* ResultNodeTask: the first good root of its provider, or of the tasks of *)
(* its node.                                                               *)
Providers(w) == IF Eager THEN ok \cap {RootOf(w)} ELSE OkRoots(NodeOf(w))

LinkResult(w) ==
  /\ At(w, "result", "begin")
  /\ \/ /\ Providers(w) = {} /\ Step(w, "end") /\ UNCHANGED took
     \/ \E r \in Providers(w) :
          took' = took \cup {<<r, "result">>} /\ Go(w, <<DecFrame(r)>>, "end")
  /\ UNCHANGED <<made, over, refcount, created, ok, deleted>>

-----------------------------------------------------------------------------
Quiet == made = over /\ \A w \in Worker : stack[w] = <<>>
Terminated == Quiet /\ UNCHANGED vars

WorkerStep(w) ==
  \/ Start(w) \/ End(w) \/ Subtract(w) \/ Compare(w) \/ Delete(w)
  \/ Create(w) \/ RestoreMiss(w) \/ RestoreHit(w) \/ RestoreForward(w)
  \/ RunCached(w) \/ RunLook(w) \/ Steal(w) \/ Execute(w) \/ Publish(w) \/ AddWrite(w)
  \/ EagerResult(w) \/ WriteThrough(w) \/ PutInCache(w) \/ LinkResult(w)

Next == ((\E w \in Worker : WorkerStep(w)) \/ Terminated) /\ UNCHANGED build
Spec == Init /\ [][Next]_vars
-----------------------------------------------------------------------------
(* Where a call of a task may be, and a call of dec.                       *)
Points == {"begin", "fill", "steal", "publish", "for local", "for dist", "to local", "to dist",
           "result", "second", "end", "locked", "compare", "delete"}

BuildRootsTypeOK ==
  /\ made \subseteq Task /\ over \subseteq made
  /\ \A w \in Worker : stack[w] \in Seq([op : {"dec"} \cup {t.op : t \in Task}, root : Root,
                                          at : Points, todo : SUBSET Root])
  /\ refcount \in [Root -> Int]
  /\ created \subseteq Root /\ ok \subseteq created /\ deleted \subseteq created
  /\ took \subseteq Root \X (Node \cup {"result"})

(* The roots a call reads or fills at its next step. *)
Uses(f) ==
  CASE f.op \in {"put local", "put dist"} /\ f.at = "begin"        -> {f.root}
    [] f.op = "restore" /\ f.at \in {"fill", "to dist", "to local"} -> {f.root}
    [] f.op = "run" /\ f.at \in {"fill", "steal", "publish"}        -> {f.root} \cup f.todo
    [] f.op = "result" /\ f.at = "begin" ->
         IF Eager THEN ok \cap {f.root} ELSE OkRoots(f.root[1])
    [] OTHER -> {}

(* No task reads or fills a root that another one has deleted, or is about *)
(* to delete because it has seen the counter at zero.                      *)
NoUseAfterDelete ==
  \A w \in Worker : \A i \in DOMAIN stack[w] :
    /\ Uses(stack[w][i]) \cap deleted = {}
    /\ \A v \in Worker : At(v, "dec", "delete") => RootOf(v) \notin Uses(stack[w][i])

(* Neither "Negative refcount" nor "Cannot recreate build_root" is raised: *)
(* dec finds a reference to give up, and inc comes before the last dec.    *)
CountersSound ==
  \A w \in Worker :
    /\ At(w, "dec", "locked") => refcount[RootOf(w)] > 0
    /\ At(w, "restore", "fill") \/ At(w, "run", "publish") \/ At(w, "run", "for local") =>
         refcount[RootOf(w)] > 0

(* Nothing leaks: when the tasks have ended, the root of a good node is    *)
(* gone if and only if every consumer and the result have taken it.        *)
DeletedWhenTaken ==
  Quiet => deleted = {r \in ok : /\ \A c \in Consumers(r[1]) : <<r, c>> \in took
                                 /\ r[1] \in Result => <<r, "result">> \in took}
=============================================================================
