------------------------------- MODULE RunQueue -------------------------------
(***************************************************************************)
(* The run queue of the local runner (yalibrary/runner/runqueue.py) among  *)
(* its clients: the main thread (TaskContext.run and _process_queue of     *)
(* runner3.py), the worker threads (worker_threads/__init__.py) and, in a  *)
(* distributed build, the thread that dispatches the tasks whose results   *)
(* have arrived (run_db of build/ya_make.py).                              *)
(*                                                                         *)
(* A thread is a stack of frames, one for each Python call it is in.       *)
(* Topo's lock is one step of Topo; the locks that are held over several   *)
(* steps are variables.  Which worker takes which task is left open here:  *)
(* WorkerThreads has the details of the pool.                              *)
(***************************************************************************)
EXTENDS Topo

CONSTANTS
  Worker,       \* worker threads
  Main, Dist,   \* the main thread; the thread that runs the distributed build
  None,         \* nobody; nothing
  MainProg,     \* what TaskContext.run does, as instructions
  Programs      \* the builds.  body[t]: what task t does when it runs, for
                \* the tasks in its domain; raise, stop: tasks that may end
                \* with an exception, or call fast_fail; reports: the uids
                \* the distributed build reports, in this order

Thread == Worker \cup {Main, Dist}

VARIABLES
  program,        \* the build at hand, one of Programs
  notDispatched,  \* RunQueue._not_dispatched
  dispatching,    \* RunQueue._dispatching_counter
  runqLock,       \* holder of RunQueue._lock
  cacheLock,      \* holder of TaskCache._lock
  condLock,       \* holder of WorkerThreads._condition
  active,         \* WorkerThreads._active
  queued,         \* tasks in WorkerThreads._active_set
  outq,           \* WorkerThreads._out_q: "ok" or "exc" for every result
  alive,          \* worker threads that have not ended
  stack,          \* stack[th]: the calls thread th is in, the innermost first
  stopped,        \* the ActiveState is stopping
  ready,          \* local_runner_ready: "no", "yes" or "failed"
  reported,       \* how many of its reports have been reported
  failed,         \* an exception has ended TaskContext.run
  told,           \* told[t]: the dependencies t was given with its callback
  runs,           \* runs[t]: times t was called
  raised          \* tasks that an exception has ended

queueVars == <<notDispatched, dispatching>>
lockVars  == <<runqLock, cacheLock, condLock>>
poolVars  == <<active, queued, outq, alive>>
endVars   == <<stopped, ready, reported, failed>>
seenVars  == <<told, runs, raised>>
vars == <<topoVars, queueVars, lockVars, poolVars, endVars, seenVars, stack>>

-----------------------------------------------------------------------------
(* Instructions: runq.add with its arguments -- cached when it is called   *)
(* by TaskCache.__call__, which adds a task only once -- and the other     *)
(* calls that main and the tasks make.                                     *)
AddInstr == [op : {"add"}, task : Node, deps : SUBSET Node,
             joint : Node \cup {None}, dispatch : BOOLEAN,
             inplace : BOOLEAN, cached : BOOLEAN]

Instr == AddInstr \cup [op : {"process", "dispatch_all", "signal_ready"}]

ASSUME ProgramAssumption ==
  /\ MainProg \in Seq(Instr)
  /\ \A P \in Programs :
       /\ DOMAIN P.body \subseteq Node
       /\ \A t \in DOMAIN P.body : P.body[t] \in Seq(Instr)
       /\ \A c \in {MainProg} \cup {P.body[t] : t \in DOMAIN P.body} :
            \A k \in DOMAIN c : c[k].op = "add" => c[k].task \in DOMAIN P.body
       /\ P.raise \subseteq Node /\ P.stop \subseteq Node /\ P.reports \in Seq(Node)
  /\ Main # Dist /\ Main \notin Worker /\ Dist \notin Worker
  /\ None \notin Thread \cup Node

(* What the code that adds tasks keeps to.  A task is added outside of the *)
(* cache by the one call that has made it; it is joint with nobody or with *)
(* the task that adds it, and its dependencies have been added before by   *)
(* the same code, or are the task that main adds first (that removes old   *)
(* symlinks).  The build graph has no cycles: rank is the depth of the     *)
(* node of a task, the same for joint tasks.  Only main processes results. *)
Codes(P) == [t \in {None} \cup DOMAIN P.body |-> IF t = None THEN MainProg ELSE P.body[t]]
Places(P) == {pl \in UNION {{t} \X DOMAIN Codes(P)[t] : t \in DOMAIN Codes(P)} :
                Codes(P)[pl[1]][pl[2]].op = "add"}
InstrAt(P, pl) == Codes(P)[pl[1]][pl[2]]
Ranks(P) ==
  {rank \in [Node -> 0 .. Cardinality(Node)] : \A pl \in Places(P) :
     /\ \A d \in InstrAt(P, pl).deps : rank[d] < rank[InstrAt(P, pl).task]
     /\ pl[1] # None /\ InstrAt(P, pl).joint = pl[1] => rank[pl[1]] = rank[InstrAt(P, pl).task]}

ASSUME ProgramOrder ==
  \A P \in Programs :
    /\ \A pl \in Places(P) :
         /\ InstrAt(P, pl).joint \in {None, pl[1]}
         /\ \A d \in InstrAt(P, pl).deps : \E before \in Places(P) :
              /\ InstrAt(P, before).task = d
              /\ \/ before[1] = pl[1] /\ before[2] < pl[2]
                 \/ pl[1] # None /\ before = <<None, 1>>
         /\ ~ InstrAt(P, pl).cached =>
              \A other \in Places(P) : InstrAt(P, other).task = InstrAt(P, pl).task => other = pl
    /\ \A t \in DOMAIN P.body : \A k \in DOMAIN P.body[t] : P.body[t][k].op # "process"
    /\ Ranks(P) # {}

(* Frames. *)
MainFrame(at)          == [op |-> "main", at |-> at]
RunFrame(t, at)        == [op |-> "run", task |-> t, at |-> at]
DoneFrame(t, how)      == [op |-> "done", task |-> t, how |-> how]
AddFrame(i, step)      == [op |-> "add", instr |-> i, step |-> step]
DispatchFrame(t, i, s) == [op |-> "dispatch", task |-> t, inplace |-> i, step |-> s]
FireFrame(S, inplace)  == [op |-> "fire", tasks |-> S, inplace |-> inplace]
PutFrame(t, inplace)   == [op |-> "put", task |-> t, inplace |-> inplace]
TakeFrame              == [op |-> "take"]
DistFrame              == [op |-> "dist"]
SweepFrame(S)          == [op |-> "sweep", tasks |-> S]
ProcessFrame(step)     == [op |-> "process", step |-> step]
EndFrame(step)         == [op |-> "end", step |-> step]

Top(th)      == Head(stack[th])
In(th, op)   == stack[th] # <<>> /\ Top(th).op = op
At(th, op, step) == In(th, op) /\ Top(th).step = step

(* Frames fs take the place of the innermost one. *)
Goto(th, fs) == stack' = [stack EXCEPT ![th] = fs \o Tail(@)]
Return(th)   == Goto(th, <<>>)
GoStep(th, step) == Goto(th, <<[Top(th) EXCEPT !.step = step]>>)

(* The program of main or of a task: its next instruction. *)
Code(th) == IF Top(th).op = "main" THEN MainProg ELSE program.body[Top(th).task]
AtCall(th, op) == /\ In(th, "main") \/ In(th, "run")
                  /\ Top(th).at \in DOMAIN Code(th)
                  /\ Code(th)[Top(th).at].op = op
AtEnd(th) == Top(th).at = Len(Code(th)) + 1
(* Calling fs, to go on behind the instruction afterwards. *)
Call(th, fs) == Goto(th, fs \o <<[Top(th) EXCEPT !.at = @ + 1]>>)

(* An exception unwinds the calls of th: dispatch gives back its counter   *)
(* and a cache call its lock.  The wrapper of a task makes the exception   *)
(* its result; in main it ends TaskContext.run; in Dist it ends the build, *)
(* and then what the end of the build does.                                *)
Throw(th) ==
  LET catches == {k \in DOMAIN stack[th] :
                    stack[th][k].op \in {"run", "done", "main", "dist", "end"}}
      c == CHOOSE k \in catches : \A m \in catches : k <= m
      f == stack[th][c]
  IN  /\ dispatching' = dispatching -
           Cardinality({k \in 1 .. c : stack[th][k].op = "dispatch"})
      /\ cacheLock' = IF cacheLock = th THEN None ELSE cacheLock
      /\ failed' = (failed \/ f.op = "main")
      /\ raised' = IF f.op = "run" THEN raised \cup {f.task} ELSE raised
      /\ stack' = [stack EXCEPT ![th] =
           (CASE f.op = "main" -> <<EndFrame("stop")>>
              [] f.op = "dist" -> <<SweepFrame(notDispatched), EndFrame("over")>>
              [] f.op = "end"  -> <<f>>
              [] OTHER         -> <<DoneFrame(f.task, "exc")>>)
           \o SubSeq(@, c + 1, Len(@))]

Init ==
  /\ TopoInit /\ program \in Programs
  /\ notDispatched = {} /\ dispatching = 0
  /\ runqLock = None /\ cacheLock = None /\ condLock = None
  /\ active = 0 /\ queued = {} /\ outq = <<>> /\ alive = Worker
  /\ stopped = FALSE /\ ready = "no" /\ reported = 0 /\ failed = FALSE
  /\ told = [t \in Node |-> {}] /\ runs = [t \in Node |-> 0] /\ raised = {}
  /\ stack = [th \in Thread |-> IF th = Main THEN <<MainFrame(1)>>
                              ELSE IF th = Dist THEN <<DistFrame>> ELSE <<>>]

-----------------------------------------------------------------------------
(* RunQueue.add and TaskCache.__call__. *)

(* A cache call that finds its task returns. *)
CacheHit(th) ==
  /\ AtCall(th, "add") /\ Code(th)[Top(th).at].cached
  /\ Code(th)[Top(th).at].task \in added
  /\ cacheLock = None
  /\ Call(th, <<>>)
  /\ UNCHANGED <<topoVars, queueVars, lockVars, poolVars, endVars, seenVars>>

(* The lock is taken and the task enters Topo. *)
AddTask(th) ==
  /\ AtCall(th, "add")
  /\ LET i == Code(th)[Top(th).at]
     IN  /\ i.cached => cacheLock = None
         /\ cacheLock' = IF i.cached THEN th ELSE cacheLock
         /\ runqLock = None /\ runqLock' = th
         /\ AddNode(i.task)
         /\ Call(th, <<AddFrame(i, IF i.joint = None THEN "deps" ELSE "merge")>>)
  /\ UNCHANGED <<queueVars, condLock, poolVars, endVars, seenVars>>

AddMerge(th) ==
  /\ At(th, "add", "merge")
  /\ MergeNodes(Top(th).instr.task, Top(th).instr.joint)
  /\ GoStep(th, "deps")
  /\ UNCHANGED <<queueVars, lockVars, poolVars, endVars, seenVars>>

(* The task becomes visible to dispatchers and the lock is released. *)
AddDepsAndPublish(th) ==
  /\ At(th, "add", "deps")
  /\ LET i == Top(th).instr
     IN  /\ AddDeps(i.task, i.deps)
         /\ notDispatched' = notDispatched \cup {i.task}
         /\ Goto(th, (IF i.dispatch THEN <<DispatchFrame(i.task, i.inplace, "enter")>>
                                    ELSE <<>>) \o <<AddFrame(i, "leave")>>)
  /\ runqLock' = None
  /\ UNCHANGED <<dispatching, cacheLock, condLock, poolVars, endVars, seenVars>>

AddLeave(th) ==
  /\ At(th, "add", "leave")
  /\ cacheLock' = IF Top(th).instr.cached THEN None ELSE cacheLock
  /\ Return(th)
  /\ UNCHANGED <<topoVars, queueVars, runqLock, condLock, poolVars, endVars, seenVars>>

SignalReady(th) ==
  /\ AtCall(th, "signal_ready")
  /\ ready' = "yes"
  /\ Call(th, <<>>)
  /\ UNCHANGED <<topoVars, queueVars, lockVars, poolVars, stopped, reported, failed,
                 seenVars>>

-----------------------------------------------------------------------------
(* RunQueue.dispatch, inside DispatchingCounter's __enter__ and __exit__,  *)
(* and dispatch_all.                                                       *)

(* Mutant: the counter is not incremented. *)
DispatchEnterUncounted(th) ==
  /\ At(th, "dispatch", "enter")
  /\ GoStep(th, "remove")
  /\ UNCHANGED <<topoVars, queueVars, lockVars, poolVars, endVars, seenVars>>

DispatchEnter(th) ==
  /\ At(th, "dispatch", "enter")
  /\ dispatching' = dispatching + 1
  /\ GoStep(th, "remove")
  /\ UNCHANGED <<topoVars, notDispatched, lockVars, poolVars, endVars, seenVars>>

(* Mutant: the KeyError of the second attempt is swallowed. *)
DispatchRemoveTwice(th) ==
  /\ At(th, "dispatch", "remove")
  /\ notDispatched' = notDispatched \ {Top(th).task}
  /\ GoStep(th, "schedule")
  /\ UNCHANGED <<topoVars, dispatching, lockVars, poolVars, endVars, seenVars>>

(* "Second attempt to dispatch": the loser of the race returns. *)
DispatchRemove(th) ==
  /\ At(th, "dispatch", "remove")
  /\ notDispatched' = notDispatched \ {Top(th).task}
  /\ GoStep(th, IF Top(th).task \in notDispatched THEN "schedule" ELSE "exit")
  /\ UNCHANGED <<topoVars, dispatching, lockVars, poolVars, endVars, seenVars>>

NewlyFired == {t \in Node : fired'[t] > fired[t]}

DispatchSchedule(th) ==
  /\ At(th, "dispatch", "schedule")
  /\ ScheduleNode(Top(th).task)
  /\ Goto(th, <<FireFrame(NewlyFired, Top(th).inplace), [Top(th) EXCEPT !.step = "exit"]>>)
  /\ UNCHANGED <<queueVars, lockVars, poolVars, endVars, seenVars>>

DispatchExit(th) ==
  /\ At(th, "dispatch", "exit")
  /\ dispatching' = dispatching - 1
  /\ Return(th)
  /\ UNCHANGED <<topoVars, notDispatched, lockVars, poolVars, endVars, seenVars>>

(* dispatch_all goes over a frozen copy of the set. *)
DispatchAll(th) ==
  /\ \/ AtCall(th, "dispatch_all") /\ Call(th, <<SweepFrame(notDispatched)>>)
     \/ In(th, "sweep") /\ Top(th).tasks = {} /\ Return(th)
     \/ In(th, "sweep") /\ \E t \in Top(th).tasks :
          Goto(th, <<DispatchFrame(t, FALSE, "enter"), SweepFrame(Top(th).tasks \ {t})>>)
  /\ UNCHANGED <<topoVars, queueVars, lockVars, poolVars, endVars, seenVars>>

-----------------------------------------------------------------------------
(* The callbacks Topo handed out, after its lock is released: _when_ready  *)
(* with the dependencies of the task, then WorkerThreads.add.              *)

(* WorkerThreads.add looks at the state first ...                          *)
Fire(th, t) ==
  /\ In(th, "fire") /\ t \in Top(th).tasks /\ ~ stopped
  /\ told' = [told EXCEPT ![t] = IterDeps(t)]
  /\ Goto(th, <<PutFrame(t, Top(th).inplace),
               FireFrame(Top(th).tasks \ {t}, Top(th).inplace)>>)
  /\ UNCHANGED <<topoVars, queueVars, lockVars, poolVars, endVars, runs, raised>>

(* ... and takes the lock then: the state may have been stopped meanwhile. *)
Put(th) ==
  /\ In(th, "put") /\ condLock = None
  /\ active' = active + 1
  /\ \/ /\ ~ Top(th).inplace
        /\ queued' = queued \cup {Top(th).task}
        /\ Return(th)
        /\ UNCHANGED runs
     \/ /\ Top(th).inplace
        /\ runs' = [runs EXCEPT ![Top(th).task] = @ + 1]
        /\ Goto(th, <<RunFrame(Top(th).task, 1)>>)
        /\ UNCHANGED queued
  /\ UNCHANGED <<topoVars, queueVars, lockVars, outq, alive, endVars, told, raised>>

FireEnd(th) ==
  /\ In(th, "fire") /\ Top(th).tasks = {}
  /\ Return(th)
  /\ UNCHANGED <<topoVars, queueVars, lockVars, poolVars, endVars, seenVars>>

(* WorkerThreads.add raises once the state is stopped. *)
FireStopped(th) ==
  /\ In(th, "fire") /\ Top(th).tasks # {} /\ stopped
  /\ Throw(th)
  /\ UNCHANGED <<topoVars, notDispatched, runqLock, condLock, poolVars, stopped, ready,
                 reported, told, runs>>

-----------------------------------------------------------------------------
(* The end of a task: _Wrapper.__call__ inside asyncthread.wrap. *)

(* Callbacks run before the result of the task is put in the queue. *)
FinishTask(th) ==
  /\ In(th, "run") /\ AtEnd(th)
  /\ NotifyDependants(Top(th).task)
  /\ Goto(th, <<FireFrame(NewlyFired, FALSE), DoneFrame(Top(th).task, "ok")>>)
  /\ UNCHANGED <<queueVars, lockVars, poolVars, endVars, seenVars>>

(* The dependants of a task that raises are not notified. *)
RaiseTask(th) ==
  /\ In(th, "run") /\ Top(th).task \in program.raise
  /\ Throw(th)
  /\ UNCHANGED <<topoVars, notDispatched, runqLock, condLock, poolVars, stopped, ready,
                 reported, told, runs>>

(* A task may stop the build before it returns. *)
FastFail(th) ==
  /\ In(th, "run") /\ AtEnd(th) /\ Top(th).task \in program.stop
  /\ ~ stopped /\ stopped' = TRUE
  /\ UNCHANGED <<topoVars, queueVars, lockVars, poolVars, stack, ready, reported,
                 failed, seenVars>>

(* Mutant: an exception is logged and forgotten. *)
PutResultOk(th) ==
  /\ In(th, "done")
  /\ outq' = Append(outq, "ok")
  /\ Return(th)
  /\ UNCHANGED <<topoVars, queueVars, lockVars, active, queued, alive, endVars, seenVars>>

PutResult(th) ==
  /\ In(th, "done")
  /\ outq' = Append(outq, Top(th).how)
  /\ Return(th)
  /\ UNCHANGED <<topoVars, queueVars, lockVars, active, queued, alive, endVars, seenVars>>

-----------------------------------------------------------------------------
(* The worker threads. *)

(* execute and take_or_wait look at the state without the lock; what they  *)
(* saw may be old when a task is taken.                                    *)
CheckState(w) ==
  /\ w \in alive /\ stack[w] = <<>> /\ ~ stopped
  /\ stack' = [stack EXCEPT ![w] = <<TakeFrame>>]
  /\ UNCHANGED <<topoVars, queueVars, lockVars, poolVars, endVars, seenVars>>

(* Mutant: the task is not taken off the heap. *)
TakePeeks(w) ==
  /\ In(w, "take") /\ condLock = None
  /\ \E t \in queued : /\ runs' = [runs EXCEPT ![t] = @ + 1]
                        /\ Goto(w, <<RunFrame(t, 1)>>)
  /\ UNCHANGED <<topoVars, queueVars, lockVars, poolVars, endVars, told, raised>>

Take(w) ==
  /\ In(w, "take") /\ condLock = None
  /\ \E t \in queued :
       /\ queued' = queued \ {t}
       /\ runs' = [runs EXCEPT ![t] = @ + 1]
       /\ Goto(w, <<RunFrame(t, 1)>>)
  /\ UNCHANGED <<topoVars, queueVars, lockVars, active, outq, alive, endVars, told, raised>>

(* check_cancel_state raises, at once or when join has woken the thread:   *)
(* it ends, and the exception is put in the queue as a result.             *)
EndWorker(w) ==
  /\ w \in alive /\ (stack[w] = <<>> \/ In(w, "take")) /\ stopped
  /\ alive' = alive \ {w}
  /\ outq' = Append(outq, "exc")
  /\ stack' = [stack EXCEPT ![w] = <<>>]
  /\ UNCHANGED <<topoVars, queueVars, lockVars, active, queued, endVars, seenVars>>

-----------------------------------------------------------------------------
(* The main thread: _process_queue and WorkerThreads.next. *)

BeginProcess ==
  /\ AtCall(Main, "process")
  /\ Call(Main, <<ProcessFrame("look")>>)
  /\ UNCHANGED <<topoVars, queueVars, lockVars, poolVars, endVars, seenVars>>

(* next() holds _condition while it asks ready_to_stop. *)
NextLook ==
  /\ At(Main, "process", "look") /\ condLock = None
  /\ condLock' = IF active = 0 THEN Main ELSE None
  /\ GoStep(Main, IF active = 0 THEN "pending" ELSE "get")
  /\ UNCHANGED <<topoVars, queueVars, runqLock, cacheLock, poolVars, endVars, seenVars>>

(* pending, "The order below is IMPORTANT!": first _not_dispatched. *)
NextPending ==
  /\ At(Main, "process", "pending")
  /\ condLock' = IF notDispatched = {} THEN Main ELSE None
  /\ GoStep(Main, IF notDispatched = {} THEN "counter" ELSE "get")
  /\ UNCHANGED <<topoVars, queueVars, runqLock, cacheLock, poolVars, endVars, seenVars>>

(* Mutant: the counter is not looked at. *)
NextCounterIgnored ==
  /\ At(Main, "process", "counter")
  /\ condLock' = None
  /\ Return(Main)
  /\ UNCHANGED <<topoVars, queueVars, runqLock, cacheLock, poolVars, endVars, seenVars>>

(* Then the counter; StopIteration ends _process_queue. *)
NextCounter ==
  /\ At(Main, "process", "counter")
  /\ condLock' = None
  /\ IF dispatching = 0 THEN Return(Main) ELSE GoStep(Main, "get")
  /\ UNCHANGED <<topoVars, queueVars, runqLock, cacheLock, poolVars, endVars, seenVars>>

(* An empty queue times out, and _process_queue looks again. *)
NextGet ==
  /\ At(Main, "process", "get")
  /\ outq' = IF outq = <<>> THEN outq ELSE Tail(outq)
  /\ GoStep(Main, IF outq = <<>> THEN "look" ELSE Head(outq))
  /\ UNCHANGED <<topoVars, queueVars, lockVars, active, queued, alive, endVars, seenVars>>

(* A result is counted; unwrap raises the exception it may be. *)
NextResult ==
  /\ At(Main, "process", "ok") \/ At(Main, "process", "exc")
  /\ condLock = None
  /\ active' = active - 1
  /\ IF At(Main, "process", "exc")
       THEN Throw(Main)
       ELSE GoStep(Main, "look") /\ UNCHANGED <<dispatching, cacheLock, failed, raised>>
  /\ UNCHANGED <<topoVars, notDispatched, runqLock, condLock, queued, outq, alive,
                 stopped, ready, reported, told, runs>>

(* The end of TaskContext.run: the exit stack stops the state, join waits  *)
(* for the workers and drains the results.  An exception other than the    *)
(* early stop also tells the distributed build that the runner failed.     *)
EndProgram ==
  /\ In(Main, "main") /\ AtEnd(Main)
  /\ Goto(Main, <<EndFrame("stop")>>)
  /\ UNCHANGED <<topoVars, queueVars, lockVars, poolVars, endVars, seenVars>>

StopState ==
  /\ At(Main, "end", "stop")
  /\ stopped' = TRUE
  /\ GoStep(Main, "join")
  /\ UNCHANGED <<topoVars, queueVars, lockVars, poolVars, ready, reported, failed,
                 seenVars>>

(* Mutant: the workers are not waited for. *)
JoinNobody ==
  /\ At(Main, "end", "join")
  /\ outq' = <<>>
  /\ ready' = IF failed /\ ready = "no" THEN "failed" ELSE ready
  /\ GoStep(Main, "over")
  /\ UNCHANGED <<topoVars, queueVars, lockVars, active, queued, alive, stopped,
                 reported, failed, seenVars>>

JoinWorkers ==
  /\ At(Main, "end", "join") /\ alive = {}
  /\ outq' = <<>>
  /\ ready' = IF failed /\ ready = "no" THEN "failed" ELSE ready
  /\ GoStep(Main, "over")
  /\ UNCHANGED <<topoVars, queueVars, lockVars, active, queued, alive, stopped,
                 reported, failed, seenVars>>

-----------------------------------------------------------------------------
(* The thread of the distributed build. *)

(* A result has arrived: dispatch_uid looks its task up in the cache. *)
DistReport ==
  /\ In(Dist, "dist") /\ ready = "yes" /\ reported < Len(program.reports)
  /\ cacheLock = None
  /\ reported' = reported + 1
  /\ LET t == program.reports[reported + 1]
     IN  Goto(Dist, (IF t \in added THEN <<DispatchFrame(t, FALSE, "enter")>>
                                    ELSE <<>>) \o <<DistFrame>>)
  /\ UNCHANGED <<topoVars, queueVars, lockVars, poolVars, stopped, ready, failed,
                 seenVars>>

(* Mutant: there is no dispatch_all behind the build. *)
DistEndSilently ==
  /\ In(Dist, "dist") /\ ready # "no"
  /\ Goto(Dist, <<EndFrame("over")>>)
  /\ UNCHANGED <<topoVars, queueVars, lockVars, poolVars, endVars, seenVars>>

(* The build ends, maybe before it has reported everything: what has not   *)
(* been dispatched is.                                                     *)
DistEnd ==
  /\ In(Dist, "dist") /\ ready # "no"
  /\ Goto(Dist, <<SweepFrame(notDispatched), EndFrame("over")>>)
  /\ UNCHANGED <<topoVars, queueVars, lockVars, poolVars, endVars, seenVars>>

-----------------------------------------------------------------------------
Over(th) == At(th, "end", "over")

(* Everybody has ended; a local build has no thread Dist. *)
Terminated ==
  /\ Over(Main) /\ alive = {}
  /\ Over(Dist) \/ ready = "no"
  /\ UNCHANGED vars

Step(th) ==
  \/ CacheHit(th) \/ AddTask(th) \/ AddMerge(th) \/ AddDepsAndPublish(th)
  \/ AddLeave(th) \/ SignalReady(th) \/ DispatchEnter(th) \/ DispatchRemove(th)
  \/ DispatchSchedule(th) \/ DispatchExit(th) \/ DispatchAll(th)
  \/ (\E t \in Node : Fire(th, t)) \/ Put(th) \/ FireEnd(th) \/ FireStopped(th)
  \/ FinishTask(th) \/ RaiseTask(th) \/ PutResult(th)

WorkerStep(w) == Step(w) \/ CheckState(w) \/ Take(w) \/ EndWorker(w)

MainStep ==
  \/ Step(Main) \/ BeginProcess \/ NextLook \/ NextPending \/ NextCounter
  \/ NextGet \/ NextResult \/ EndProgram \/ StopState \/ JoinWorkers

DistStep == Step(Dist) \/ DistReport \/ DistEnd

Next ==
  /\ \/ MainStep \/ DistStep \/ Terminated
     \/ \E w \in Worker : WorkerStep(w) \/ FastFail(w)
  /\ UNCHANGED program

(* Every thread runs, and one that waits for a lock which is free again    *)
(* and again gets it: the one thread that takes a lock in a loop, main,    *)
(* sleeps in between.                                                      *)
Fairness ==
  /\ SF_vars(MainStep) /\ SF_vars(DistStep)
  /\ \A w \in Worker : SF_vars(WorkerStep(w))

Spec == Init /\ [][Next]_<<program, vars>> /\ Fairness
-----------------------------------------------------------------------------
Frame ==
  [op : {"main"}, at : Nat] \cup [op : {"run"}, task : Node, at : Nat]
  \cup [op : {"done"}, task : Node, how : {"ok", "exc"}]
  \cup [op : {"add"}, instr : AddInstr, step : {"merge", "deps", "leave"}]
  \cup [op : {"dispatch"}, task : Node, inplace : BOOLEAN,
         step : {"enter", "remove", "schedule", "exit"}]
  \cup [op : {"fire"}, tasks : SUBSET Node, inplace : BOOLEAN]
  \cup [op : {"put"}, task : Node, inplace : BOOLEAN]
  \cup [op : {"sweep"}, tasks : SUBSET Node] \cup [op : {"take", "dist"}]
  \cup [op : {"process"},
         step : {"look", "pending", "counter", "get", "ok", "exc"}]
  \cup [op : {"end"}, step : {"stop", "join", "over"}]

RunQueueTypeOK ==
  /\ TopoTypeOK
  /\ notDispatched \subseteq added /\ queued \subseteq scheduled
  /\ dispatching \in Nat /\ active \in Int /\ (~ stopped => active \in Nat)
  /\ {runqLock, cacheLock, condLock} \subseteq Thread \cup {None}
  /\ outq \in Seq({"ok", "exc"}) /\ alive \subseteq Worker
  /\ stopped \in BOOLEAN /\ failed \in BOOLEAN
  /\ ready \in {"no", "yes", "failed"} /\ reported \in 0 .. Len(program.reports)
  /\ told \in [Node -> SUBSET Node] /\ runs \in [Node -> Nat] /\ raised \subseteq Node
  /\ stack \in [Thread -> Seq(Frame)]

(* A task runs once however many threads dispatch it, and only when the    *)
(* tasks it was told about -- its dependencies and everything that was     *)
(* merged with them, to the last one -- have ended without an exception.   *)
RunOnce ==
  \A t \in Node : runs[t] > 0 => /\ runs[t] = 1
                                 /\ told[t] = IterDeps(t)
                                 /\ told[t] \subseteq semi \ raised

(* The assertions of Topo about the task itself: add_deps is called before *)
(* the task is scheduled, schedule_node once, however many threads         *)
(* dispatch the task, and notify_dependants once, after its callback.      *)
NeverRefused ==
  \A th \in Thread :
    /\ At(th, "add", "merge") \/ At(th, "add", "deps") =>
         Top(th).instr.task \in added \ scheduled
    /\ At(th, "dispatch", "schedule") => Top(th).task \in added \ scheduled
    /\ In(th, "run") => fired[Top(th).task] > 0 /\ Top(th).task \notin semi

(* The assertions of Topo hold, whichever thread calls it: a task enters   *)
(* once, after its dependencies, and is merged with its parent before the  *)
(* parent has completed; the other assertions are those of NeverRefused.   *)
AssertionsHold ==
  /\ NeverRefused
  /\ \A th \in Thread :
       /\ AtCall(th, "add") /\ ~ Code(th)[Top(th).at].cached =>
            Code(th)[Top(th).at].task \notin added
       /\ At(th, "add", "merge") =>
            {Top(th).instr.task, Top(th).instr.joint} \subseteq added \ completed
       /\ At(th, "add", "deps") => Top(th).instr.deps \subseteq added

(* _process_queue ends without an exception only when all work is done,    *)
(* also the tasks that other tasks added at the last moment: nothing is    *)
(* left that could still add, dispatch or run a task.  (A build that is    *)
(* being stopped may leave tasks behind: what main adds next raises.)      *)
StopMeansDone ==
  In(Main, "main") /\ Top(Main).at > 1 /\ MainProg[Top(Main).at - 1].op = "process" /\ ~ stopped
    => /\ completed = added /\ notDispatched = {} /\ queued = {} /\ active = 0
       /\ \A w \in Worker : stack[w] = <<>> \/ In(w, "take")

(* Once the workers are joined, replay() reads Topo without its lock: what *)
(* it reads does not change any more, although the thread of the           *)
(* distributed build may still dispatch tasks.                             *)
QuietWhenJoined ==
  [][Over(Main) => UNCHANGED <<added, group, deps, completed, order, semi, runs>>]_vars

(* Whatever fails, main and the workers end, and so does the thread of the *)
(* distributed build, which waits for a word from the local runner.  If no *)
(* exception has ended main, every task of the build was added and has     *)
(* completed, though the distributed build may report a task early, twice  *)
(* or never -- unless a task has stopped the build, of which main need not *)
(* hear when it has counted all the results.                               *)
Ends ==
  <>(/\ Over(Main) /\ alive = {} /\ (Over(Dist) \/ ready = "no")
     /\ (failed \/ completed = DOMAIN program.body \/ semi \cap program.stop # {}))

(* An exception of a task ends the build with that exception or another.   *)
FailureSurfaces ==
  (\E th \in Thread : In(th, "done") /\ Top(th).how = "exc") ~> failed
=============================================================================
