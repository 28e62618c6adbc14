---------------------------- MODULE WorkerThreads ----------------------------
(***************************************************************************)
(* The worker threads of devtools/ya/yalibrary/worker_threads/__init__.py: *)
(* a pool around one condition variable.  What happens under _condition is *)
(* one step.  A worker that sleeps is in wait() and stays there until it   *)
(* is notified: whether enough notifications are sent is the question.     *)
(***************************************************************************)
EXTENDS Integers, Sequences, FiniteSets

CONSTANTS
  Resource,       \* the keys of ResInfo
  Job,            \* the actions given to the pool
  Need,           \* Need[j]: Action.res(), the resources job j takes
  Prio,           \* Prio[j]: Action.prio()
  Type,           \* Type[j]: Action.worker_pool_type
  Adds,           \* Adds[j]: the jobs that j adds while it runs
  Inplace,        \* the jobs added with inplace_execution
  Worker, Pool,   \* Pool[w]: the worker_pool_type of worker w
  Main, MainJobs, \* the main thread; the jobs it adds before it waits
  Caps,           \* the values calc_cap() may return, from call to call
  None

Thread == Worker \cup {Main}
Res == [Resource -> Nat]

ASSUME PoolAssumption ==
  /\ IsFiniteSet(Job) /\ IsFiniteSet(Worker) /\ IsFiniteSet(Resource)
  /\ Need \in [Job -> Res] /\ Prio \in [Job -> Nat]
  /\ Adds \in [Job -> SUBSET Job] /\ MainJobs \subseteq Job /\ Inplace \subseteq Job
  /\ Caps \subseteq Res /\ Caps # {}
  /\ Main \notin Worker /\ None \notin Job

(* An action object is given to the pool once (RunQueue makes one for every*)
(* task it adds).                                                          *)
ASSUME AddedOnce ==
  /\ \A i, j \in Job : i # j => Adds[i] \cap Adds[j] = {}
  /\ \A j \in Job : MainJobs \cap Adds[j] = {}

VARIABLES
  queued,   \* the jobs in the heaps of _active_set
  usage,    \* _active_res_usage[0]
  active,   \* _active
  outq,     \* _out_q
  stopped,  \* the ActiveState is stopping
  pc,       \* where a thread is, outside the jobs it runs
  calls,    \* calls[th]: the jobs th is in, the innermost first
  adding    \* adding[th]: the job th is about to add, or None

vars == <<queued, usage, active, outq, stopped, pc, calls, adding>>

Heap(k)  == {j \in queued : Need[j] = k}
Call(j)  == [job |-> j, todo |-> IF j = None THEN MainJobs ELSE Adds[j]]

(* Condition.notify: one sleeper, if there is one, looks again. *)
Asleep(at) == {w \in Worker : at[w] = "wait"}
Notify(at) ==
  IF Asleep(at) = {} THEN pc' = at
  ELSE \E w \in Asleep(at) : pc' = [at EXCEPT ![w] = "check"]

Init ==
  /\ queued = {} /\ usage = [r \in Resource |-> 0] /\ active = 0 /\ outq = <<>>
  /\ stopped = FALSE
  /\ pc = [th \in Thread |-> IF th = Main THEN "run" ELSE "check"]
  /\ calls = [th \in Thread |-> IF th = Main THEN <<Call(None)>> ELSE <<>>]
  /\ adding = [th \in Thread |-> None]

-----------------------------------------------------------------------------
(* add, by main or by a job. *)

(* The state is checked without the lock. *)
AddCheck(th, j) ==
  /\ pc[th] = "run" /\ adding[th] = None /\ ~ stopped
  /\ j \in Head(calls[th]).todo
  /\ adding' = [adding EXCEPT ![th] = j]
  /\ calls' = [calls EXCEPT ![th][1].todo = @ \ {j}]
  /\ UNCHANGED <<queued, usage, active, outq, stopped, pc>>

(* Mutant: _active is not incremented. *)
AddPushUncounted(th) ==
  LET j == adding[th]
  IN  /\ j # None /\ j \notin Inplace
      /\ adding' = [adding EXCEPT ![th] = None]
      /\ queued' = queued \cup {j}
      /\ IF Heap(Need[j]) = {} THEN Notify(pc) ELSE UNCHANGED pc
      /\ UNCHANGED <<usage, active, outq, stopped, calls>>

(* Only the first job of a heap is worth a notification. *)
AddPush(th) ==
  LET j == adding[th]
  IN  /\ j # None /\ j \notin Inplace
      /\ adding' = [adding EXCEPT ![th] = None]
      /\ active' = active + 1
      /\ queued' = queued \cup {j}
      /\ IF Heap(Need[j]) = {} THEN Notify(pc) ELSE UNCHANGED pc
      /\ UNCHANGED <<usage, outq, stopped, calls>>

(* Mutant: what is executed in place is not counted. *)
AddInplaceUncounted(th) ==
  LET j == adding[th]
  IN  /\ j \in Inplace
      /\ adding' = [adding EXCEPT ![th] = None]
      /\ calls' = [calls EXCEPT ![th] = <<Call(j)>> \o @]
      /\ UNCHANGED <<queued, usage, active, outq, stopped, pc>>

AddInplace(th) ==
  LET j == adding[th]
  IN  /\ j \in Inplace
      /\ adding' = [adding EXCEPT ![th] = None]
      /\ active' = active + 1
      /\ calls' = [calls EXCEPT ![th] = <<Call(j)>> \o @]
      /\ UNCHANGED <<queued, usage, outq, stopped, pc>>

(* A call ends; asyncthread.wrap makes a result of it, or of the exception *)
(* that add raises when the state is stopped.                              *)
EndCall(th) ==
  /\ pc[th] = "run" /\ adding[th] = None /\ Head(calls[th]).job # None
  /\ Head(calls[th]).todo = {} \/ stopped
  /\ outq' = Append(outq, IF Head(calls[th]).todo = {} THEN "ok" ELSE "exc")
  /\ IF Len(calls[th]) = 1
       THEN pc' = [pc EXCEPT ![th] = "release"] /\ UNCHANGED calls
       ELSE calls' = [calls EXCEPT ![th] = Tail(@)] /\ UNCHANGED pc
  /\ UNCHANGED <<queued, usage, active, stopped, adding>>

-----------------------------------------------------------------------------
(* exec_target. *)

Check(w) ==
  /\ pc[w] = "check"
  /\ IF stopped
       THEN pc' = [pc EXCEPT ![w] = "dead"] /\ outq' = Append(outq, "exc")
       ELSE pc' = [pc EXCEPT ![w] = "look"] /\ UNCHANGED outq
  /\ UNCHANGED <<queued, usage, active, stopped, calls, adding>>

(* Mutant: what is in use is not looked at. *)
FitsAlone(k, cap) == \A r \in Resource : k[r] <= cap[r]

Fits(k, cap) == \A r \in Resource : k[r] + usage[r] <= cap[r]

Highest(S) == {j \in S : \A i \in S : Prio[i] <= Prio[j]}

(* The heads of the heaps that fit: the strategy decides between equals.   *)
Heads(cap) ==
  {H \in SUBSET queued :
     /\ \A j \in H : Fits(Need[j], cap) /\ j \in Highest(Heap(Need[j]))
     /\ \A j \in queued : Fits(Need[j], cap) => Cardinality(H \cap Heap(Need[j])) = 1}

(* take_or_wait: the best head of the worker's own type, or of any other.  *)
BestFor(w, H) ==
  LET own == {j \in H : Type[j] = Pool[w]}
  IN  IF own # {} THEN Highest(own)
      ELSE {j \in H : j \in Highest({i \in H : Type[i] = Type[j]})}

Take(w) ==
  /\ pc[w] = "look"
  /\ \E cap \in Caps : \E H \in Heads(cap) : \E j \in BestFor(w, H) :
       /\ usage' = [r \in Resource |-> usage[r] + Need[j][r]]
       /\ queued' = queued \ {j}
       /\ calls' = [calls EXCEPT ![w] = <<Call(j)>>]
       /\ Notify([pc EXCEPT ![w] = "run"])
  /\ UNCHANGED <<active, outq, stopped, adding>>

(* Mutant: the state is not checked before the worker sleeps. *)
SleepUnchecked(w) ==
  /\ pc[w] = "look"
  /\ \E cap \in Caps : \A j \in queued : ~ Fits(Need[j], cap)
  /\ pc' = [pc EXCEPT ![w] = "wait"]
  /\ UNCHANGED <<queued, usage, active, outq, stopped, calls, adding>>

(* Nothing fits.  The state is checked again before the worker sleeps.     *)
Sleep(w) ==
  /\ pc[w] = "look"
  /\ \E cap \in Caps : \A j \in queued : ~ Fits(Need[j], cap)
  /\ IF stopped
       THEN pc' = [pc EXCEPT ![w] = "dead"] /\ outq' = Append(outq, "exc")
       ELSE pc' = [pc EXCEPT ![w] = "wait"] /\ UNCHANGED outq
  /\ UNCHANGED <<queued, usage, active, stopped, calls, adding>>

(* Mutant: the worker that has released its resources notifies nobody and  *)
(* sleeps.                                                                 *)
ReleaseSilently(w) ==
  /\ pc[w] = "release"
  /\ usage' = [r \in Resource |-> usage[r] - Need[calls[w][1].job][r]]
  /\ calls' = [calls EXCEPT ![w] = <<>>]
  /\ pc' = [pc EXCEPT ![w] = "wait"]
  /\ UNCHANGED <<queued, active, outq, stopped, adding>>

Release(w) ==
  /\ pc[w] = "release"
  /\ usage' = [r \in Resource |-> usage[r] - Need[calls[w][1].job][r]]
  /\ calls' = [calls EXCEPT ![w] = <<>>]
  /\ Notify([pc EXCEPT ![w] = "check"])
  /\ UNCHANGED <<queued, active, outq, stopped, adding>>

-----------------------------------------------------------------------------
(* The main thread: next in a loop, then the state is stopped and join.    *)

MainWaits ==
  /\ pc[Main] = "run" /\ adding[Main] = None /\ Len(calls[Main]) = 1
  /\ calls[Main][1].todo = {}
  /\ pc' = [pc EXCEPT ![Main] = "next"]
  /\ UNCHANGED <<queued, usage, active, outq, stopped, calls, adding>>

(* StopIteration, when there is nothing to wait for. *)
NextEnds ==
  /\ pc[Main] = "next" /\ active = 0
  /\ pc' = [pc EXCEPT ![Main] = "stop"]
  /\ UNCHANGED <<queued, usage, active, outq, stopped, calls, adding>>

(* The result that was got may be an exception, which ends the loop too.   *)
NextGets ==
  /\ pc[Main] = "next" /\ outq # <<>>
  /\ active' = active - 1
  /\ outq' = Tail(outq)
  /\ \/ pc' = [pc EXCEPT ![Main] = "stop"]
     \/ UNCHANGED pc
  /\ UNCHANGED <<queued, usage, stopped, calls, adding>>

Stop ==
  /\ pc[Main] = "stop"
  /\ stopped' = TRUE
  /\ pc' = [pc EXCEPT ![Main] = "join"]
  /\ UNCHANGED <<queued, usage, active, outq, calls, adding>>

NotifyAll ==
  /\ pc[Main] = "join"
  /\ pc' = [th \in Thread |-> IF th = Main THEN "joining"
                              ELSE IF pc[th] = "wait" THEN "check" ELSE pc[th]]
  /\ UNCHANGED <<queued, usage, active, outq, stopped, calls, adding>>

Joined ==
  /\ pc[Main] = "joining" /\ \A w \in Worker : pc[w] = "dead"
  /\ pc' = [pc EXCEPT ![Main] = "over"]
  /\ outq' = <<>>
  /\ UNCHANGED <<queued, usage, active, stopped, calls, adding>>

Terminated == pc[Main] = "over" /\ UNCHANGED vars

-----------------------------------------------------------------------------
AddStep(th) ==
  (\E j \in Job : AddCheck(th, j)) \/ AddPush(th) \/ AddInplace(th) \/ EndCall(th)
WorkerStep(w) == AddStep(w) \/ Check(w) \/ Take(w) \/ Sleep(w) \/ Release(w)
MainStep ==
  AddStep(Main) \/ MainWaits \/ NextEnds \/ NextGets \/ Stop \/ NotifyAll \/ Joined

Next == MainStep \/ (\E w \in Worker : WorkerStep(w)) \/ Terminated

(* Every thread that can go on does.  A worker that finds a job when it    *)
(* looks takes it: calc_cap does not alternate at every look for ever.     *)
Fairness == WF_vars(MainStep) /\ \A w \in Worker : WF_vars(WorkerStep(w))

Spec == Init /\ [][Next]_vars /\ Fairness
-----------------------------------------------------------------------------
WorkerThreadsTypeOK ==
  /\ queued \subseteq Job \ Inplace /\ usage \in [Resource -> Int] /\ active \in Nat
  /\ outq \in Seq({"ok", "exc"}) /\ stopped \in BOOLEAN
  /\ \A th \in Thread :
       /\ adding[th] \in Job \cup {None}
       /\ calls[th] \in Seq([job : Job \cup {None}, todo : SUBSET Job])
  /\ pc \in [Thread -> {"run", "check", "look", "wait", "release", "dead", "next",
                       "stop", "join", "joining", "over"}]

(* The sum of a function to the naturals: the number of these pairs.       *)
Cells(f) == UNION {{x} \X (1 .. f[x]) : x \in DOMAIN f}
Total(f) == Cardinality(Cells(f))

(* What the workers take of r: a worker keeps the resources of the job it  *)
(* took, its outermost call, until it has released them.                   *)
Taken(w) == calls[w][Len(calls[w])].job
Load(r)  == [w \in Worker |-> IF calls[w] = <<>> THEN 0 ELSE Need[Taken(w)][r]]

(* "The upper bound on the resources consumed, which must not be exceeded":*)
(* usage is what the running jobs need, whichever thread ends when, and it *)
(* stays within what calc_cap allows at most.                              *)
CapRespected ==
  /\ \A r \in Resource : usage[r] = Total(Load(r))
  /\ \E cap \in Caps : \A r \in Resource : usage[r] <= cap[r]

(* The calls of jobs that have no result yet: main is in a call of its own,*)
(* and the job of a worker that releases has its result.                   *)
InProgress ==
  [th \in Thread |-> Len(calls[th]) - (IF th = Main \/ pc[th] = "release" THEN 1 ELSE 0)]

(* next stops when _active is zero: it counts the jobs that are queued, in *)
(* progress, or have a result that main has not seen.                      *)
ActiveCounts ==
  ~ stopped => active = Cardinality(queued) + Len(outq) + Total(InProgress)

(* Every job that is added is taken, unless the state is stopped.          *)
QueuedRun == \A j \in Job : j \in queued ~> j \notin queued \/ stopped

(* The loop of main ends, and then the pool: no worker sleeps through the  *)
(* notify_all of join.                                                     *)
PoolEnds == <>(pc[Main] = "over")

=============================================================================
