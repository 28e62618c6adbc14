------------------------------- MODULE ACLocks -------------------------------
(***************************************************************************)
(* Who uses what in the artifact cache (devtools/local_cache/ac): builds   *)
(* lock uids, a thread watches the processes of the builds                 *)
(* (common/dbbe-running-procs), another gives up the locks of dead ones    *)
(* and collects garbage (ac/dbbe/integrity.cpp).                           *)
(*                                                                         *)
(* Every SQL transaction is one action: BigDBMutex_ (common/db-utils/dbi.h)*)
(* serialises them.  The tables survive a crash of the server, its queues  *)
(* do not.  The order in which garbage is removed, sizes and limits are    *)
(* abstracted: the collector may remove any uid that it finds unused.      *)
(***************************************************************************)
EXTENDS Integers, Sequences, FiniteSetsExt, Functions

CONSTANTS
  Procs,       \* processes of builds, named by pid and start time
  Uids,
  Group,       \* a TaskGSID that several peers may give
  Groupings,   \* the sets of processes that may give it; others give none
  MaxRequests, \* bound: requests of all processes, for each grouping
  MaxCrashes,  \* bound: kills of the server
  NoRow        \* no request is being served

ASSUME GroupingsAssumption == Groupings \subseteq SUBSET Procs
ASSUME SomeAssumption == Procs # {} /\ Uids # {}
ASSUME GroupAssumption == Group \notin Nat
ASSUME BoundsAssumption == MaxRequests \in [Groupings -> Nat] /\ MaxCrashes \in Nat

VARIABLES
  grouped,  \* the processes that give Group as their task
  (* the processes: *)
  stage,    \* [Procs -> {"alive", "released", "dead"}]
  left,     \* requests that may still be made
  serving,  \* the rowid a handler has yet to pass to AddRunningProcess
  locked,   \* <<p, u>>: p has asked for u to be kept, and still needs it
  (* the tables: *)
  running,  \* rowid -> process
  tasks,    \* rowid -> [id, alive]
  link,     \* table running_tasks: rowid in running -> rowid in tasks
  acs,      \* the uids stored
  count,    \* their request_count
  requests, \* <<rowid in tasks, uid>>
  (* the memory of the server: *)
  queue,    \* Cache_ of the thread that watches processes, oldest first
  known,    \* MaxCtime_ # 0: the last look at the table found processes
  coop,     \* CooperativelyRemoved_
  watch,    \* what that thread does
  gcq,      \* the work items of the collector: "release", "gc"
  gc,       \* what the collector does
  crashes,
  mixed     \* history: a process was given a dead task, or lost its row

procVars == <<stage, left, serving, locked>>
tableVars == <<running, tasks, link>>
useVars == <<acs, count, requests>>
watchVars == <<queue, known, coop, watch>>
gcVars == <<gcq, gc>>
vars == <<procVars, tableVars, useVars, watchVars, gcVars, crashes, mixed>>

Item(p, r) == [proc |-> p, row |-> r]
FromDB == [proc |-> Group, row |-> -1]        \* the item AddRunningFromDB
Idle == [at |-> "idle", item |-> FromDB, skip |-> FALSE, todo |-> {}]

(* TWalker.AddItem: an item that is in the cache stays where it is; one    *)
(* that is being processed is not in the cache.                            *)
AddItem(q, i) == IF \E k \in DOMAIN q : q[k].proc = i.proc THEN q ELSE Append(q, i)
RemoveItem(q, p) == SelectSeq(q, LAMBDA i : i.proc # p)

(* GCHandler_.WakeUpGC. *)
WakeUpGC == {"release", "gc"}

Init ==
  /\ grouped \in Groupings
  /\ stage = [p \in Procs |-> "alive"] /\ left = MaxRequests[grouped]
  /\ serving = [p \in Procs |-> NoRow] /\ locked = {}
  /\ running = <<>> /\ tasks = <<>> /\ link = <<>>
  /\ acs = {} /\ count = [u \in Uids |-> 0] /\ requests = {}
  /\ crashes = 0 /\ mixed = FALSE
  /\ queue = <<FromDB>> /\ known = FALSE /\ coop = {} /\ watch = Idle
  /\ gcq = WakeUpGC /\ gc = "idle"

-----------------------------------------------------------------------------
(* Requests.                                                               *)

(* SQLite gives a new row the largest rowid in use plus one. *)
NextRow(rows) == IF rows = {} THEN 1 ELSE Max(rows) + 1

RowOf(p) ==
  LET rows == {r \in DOMAIN running : running[r] = p}
  IN IF rows = {} THEN NextRow(DOMAIN running) ELSE Max(rows)
(* A peer without a TaskGSID is a task of its own, named by its rowid. *)
TaskId(p) == IF p \in grouped THEN Group ELSE RowOf(p)
SameTask(p) == {t \in DOMAIN tasks : tasks[t].id = TaskId(p)}
TaskOf(p) == IF SameTask(p) = {} THEN NextRow(DOMAIN tasks) ELSE Max(SameTask(p))

(* InsertRunningProc: rows that exist are left as they are. *)
Insert(f, r, v) == [x \in DOMAIN f \cup {r} |-> IF x \in DOMAIN f THEN f[x] ELSE v]
InsertRunningProc(p) ==
  /\ running' = Insert(running, RowOf(p), p)
  /\ tasks' = Insert(tasks, TaskOf(p), [id |-> TaskId(p), alive |-> TRUE])
  /\ link' = Insert(link, RowOf(p), TaskOf(p))
  /\ mixed' = (mixed \/ \E t \in SameTask(p) : ~tasks[t].alive)

(* Mutants: the count goes up with every lock, down with every unlock. *)
LockTwice(p, u) ==
  /\ requests' = requests \cup {<<TaskOf(p), u>>}
  /\ count' = [count EXCEPT ![u] = @ + 1]
  /\ locked' = locked \cup {<<p, u>>}
UnlockUnchecked(p, u) ==
  /\ requests' = requests \ {<<TaskOf(p), u>>}
  /\ count' = [count EXCEPT ![u] = @ - 1]
  /\ locked' = locked \ {<<p, u>>}

(* UpdateRequestCountInDBForLock and ForUnlock, for the task of the peer. *)
Lock(p, u) ==
  /\ requests' = requests \cup {<<TaskOf(p), u>>}
  /\ count' = [count EXCEPT ![u] = IF <<TaskOf(p), u>> \in requests THEN @ ELSE @ + 1]
  /\ locked' = locked \cup {<<p, u>>}
SameOwner(p) == IF p \in grouped THEN grouped ELSE {p}
Unlock(p, u) ==
  /\ requests' = requests \ {<<TaskOf(p), u>>}
  /\ count' = [count EXCEPT ![u] = IF <<TaskOf(p), u>> \in requests THEN @ - 1 ELSE @]
  /\ locked' = locked \ (SameOwner(p) \X {u})

(* A process makes one request at a time. *)
Request(p) ==
  /\ stage[p] = "alive" /\ serving[p] = NoRow /\ left > 0
  /\ left' = left - 1

(* PutUid: a new uid, or one that is there, whose blobs are replaced or    *)
(* kept.                                                                   *)
PutUid(p, u) ==
  /\ Request(p)
  /\ acs' = acs \cup {u}
  /\ InsertRunningProc(p) /\ Lock(p, u)
  /\ serving' = [serving EXCEPT ![p] = RowOf(p)]
  /\ UNCHANGED <<stage, watchVars, gcVars, crashes>>

HasUid(p, u) ==
  /\ Request(p) /\ u \in acs
  /\ InsertRunningProc(p) /\ Lock(p, u)
  /\ serving' = [serving EXCEPT ![p] = RowOf(p)]
  /\ UNCHANGED <<stage, acs, watchVars, gcVars, crashes>>

(* PutUid and HasUid of TIntegrityHandler, after the transaction. *)
AddRunningProcess(p) ==
  /\ serving[p] # NoRow
  /\ queue' = AddItem(queue, Item(p, serving[p]))
  /\ serving' = [serving EXCEPT ![p] = NoRow]
  /\ UNCHANGED <<stage, left, locked, tableVars, useVars, known, coop, watch, gcVars,
                 crashes, mixed>>

(* GetUid with Release set: nobody is told to watch the process. *)
GetUidRelease(p, u) ==
  /\ Request(p) /\ u \in acs
  /\ InsertRunningProc(p) /\ Unlock(p, u)
  /\ UNCHANGED <<stage, serving, acs, watchVars, gcVars, crashes>>

(* With DeleteAC. *)
RemoveUidNested(u) ==
  /\ acs' = acs \ {u}
  /\ requests' = {q \in requests : q[2] # u}
  /\ count' = [count EXCEPT ![u] = 0]

RemoveUid(p, u, forced) ==
  /\ Request(p) /\ u \in acs
  /\ forced \/ count[u] = 0
  /\ RemoveUidNested(u)
  /\ locked' = IF forced THEN locked \ (Procs \X {u}) ELSE locked
  /\ UNCHANGED <<stage, serving, tableVars, watchVars, gcVars, crashes, mixed>>

(* The last request of a build. *)
ReleaseAll(p) ==
  /\ stage[p] = "alive" /\ serving[p] = NoRow
  /\ stage' = [stage EXCEPT ![p] = "released"]
  /\ coop' = coop \cup {p}
  /\ locked' = locked \ ({p} \X Uids)
  /\ UNCHANGED <<left, serving, tableVars, useVars, queue, known, watch, gcVars,
                 crashes, mixed>>

(* A process may end at any time, also while the server answers it. *)
Exit(p) ==
  /\ stage[p] # "dead"
  /\ stage' = [stage EXCEPT ![p] = "dead"]
  /\ locked' = locked \ ({p} \X Uids)
  /\ UNCHANGED <<left, serving, tableVars, useVars, watchVars, gcVars, crashes, mixed>>

-----------------------------------------------------------------------------
(* The thread that watches processes: TWalker::ProcessChunk and            *)
(* TRunningProcsHandler::ProcessWork.                                      *)

PickOut ==
  /\ watch.at = "idle" /\ queue # <<>>
  /\ queue' = Tail(queue)
  /\ watch' = [at |-> "drop", item |-> Head(queue), skip |-> Head(queue).proc \in coop,
               todo |-> coop]
  /\ coop' = {}
  /\ UNCHANGED <<procVars, tableVars, useVars, known, gcVars, crashes, mixed>>

(* Mutant: nobody looks at the table of processes. *)
HaltForgets ==
  /\ serving' = [p \in Procs |-> NoRow]
  /\ queue' = <<>> /\ known' = FALSE /\ coop' = {} /\ watch' = Idle
  /\ gcq' = WakeUpGC /\ gc' = "idle"

(* The server stops, by a kill or by Y_ABORT_UNLESS, and its clients start *)
(* it again.  Handlers, queues and what the threads were doing are lost; a *)
(* transaction that was open is undone; the tables are as they were.       *)
(* TACCacheDBBE::Initialize looks at them.                                 *)
Halt ==
  /\ serving' = [p \in Procs |-> NoRow]
  /\ queue' = <<FromDB>> /\ known' = FALSE /\ coop' = {} /\ watch' = Idle
  /\ gcq' = WakeUpGC /\ gc' = "idle"

(* Mutant: the task dies with any of its processes. *)
DropDeadProcAndTask(r) ==
  /\ running' = Restrict(running, DOMAIN running \ {r})
  /\ link' = Restrict(link, DOMAIN link \ {r})
  /\ tasks' = [t \in DOMAIN tasks |->
                 IF t = link[r] THEN [tasks[t] EXCEPT !.alive = FALSE] ELSE tasks[t]]

(* The row, its link and, with the last process of a task, the life of the *)
(* task.                                                                   *)
LinkedElsewhere(r) == \E o \in DOMAIN link \ {r} : link[o] = link[r]
DropDeadProc(r) ==
  /\ running' = Restrict(running, DOMAIN running \ {r})
  /\ link' = Restrict(link, DOMAIN link \ {r})
  /\ tasks' = IF LinkedElsewhere(r) THEN tasks
              ELSE [t \in DOMAIN tasks |->
                      IF t = link[r] THEN [tasks[t] EXCEPT !.alive = FALSE] ELSE tasks[t]]

(* DropCooperativeProcs: one process that has released all it had.  A      *)
(* process without a row is skipped.                                       *)
DropCooperative(p) ==
  LET rows == {r \in DOMAIN running : running[r] = p} IN
  /\ watch.at = "drop" /\ p \in watch.todo
  /\ watch' = [watch EXCEPT !.todo = @ \ {p}]
  /\ queue' = RemoveItem(queue, p)
  /\ IF rows = {} THEN UNCHANGED tableVars ELSE DropDeadProc(Max(rows))
  /\ gcq' = gcq \cup WakeUpGC
  /\ UNCHANGED <<procVars, useVars, known, coop, gc, crashes, mixed>>

Dropped == watch.at = "drop" /\ watch.todo = {}

(* AddFromDB: whoever has a row is watched, and the table is looked at     *)
(* again until it was empty twice.                                         *)
AddRunningFromDB ==
  /\ Dropped /\ watch.item = FromDB
  /\ LET items == [r \in DOMAIN running |-> Item(running[r], r)]
         added == FoldSet(LAMBDA r, q : AddItem(q, items[r]), queue, DOMAIN running)
     IN queue' = IF DOMAIN running = {} /\ ~known THEN added ELSE AddItem(added, FromDB)
  /\ known' = (DOMAIN running # {})
  /\ watch' = Idle
  /\ UNCHANGED <<procVars, tableVars, useVars, coop, gcVars, crashes, mixed>>

SkipItem ==
  /\ Dropped /\ watch.item # FromDB /\ watch.skip
  /\ watch' = Idle
  /\ UNCHANGED <<procVars, tableVars, useVars, queue, known, coop, gcVars, crashes, mixed>>

Check == Dropped /\ watch.item # FromDB /\ ~watch.skip

(* CheckProcessAndUpdateDB: a process that runs is looked at again later;  *)
(* one that does not is dropped by the rowid of the item.                  *)
CheckAlive ==
  /\ Check /\ stage[watch.item.proc] # "dead"
  /\ queue' = AddItem(queue, watch.item)
  /\ watch' = Idle
  /\ UNCHANGED <<procVars, tableVars, useVars, known, coop, gcVars, crashes, mixed>>

CheckDead ==
  /\ Check /\ stage[watch.item.proc] = "dead" /\ watch.item.row \in DOMAIN link
  /\ DropDeadProc(watch.item.row)
  /\ mixed' = (mixed \/ running[watch.item.row] # watch.item.proc)
  /\ gcq' = gcq \cup WakeUpGC
  /\ watch' = Idle
  /\ UNCHANGED <<procVars, useVars, queue, known, coop, gc, crashes>>

(* "There should be corresponding task": the row is gone, the server       *)
(* aborts.                                                                 *)
CheckAborts ==
  /\ Check /\ stage[watch.item.proc] = "dead" /\ watch.item.row \notin DOMAIN link
  /\ Halt
  /\ UNCHANGED <<stage, left, locked, tableVars, useVars, crashes, mixed>>

-----------------------------------------------------------------------------
(* The collector: ProcessWork of TIntegrityHandler.                        *)

NoRequests == \A p \in Procs : serving[p] = NoRow

(* WAIT_FOR_MAIN_THREAD: an item waits until no request is being served.  *)
(* It is still in the queue here, where it is already picked out there; a *)
(* WakeUpGC meanwhile would only have it done twice.                       *)
GcPick(w) ==
  /\ gc = "idle" /\ w \in gcq /\ NoRequests
  /\ gcq' = gcq \ {w}
  /\ gc' = w
  /\ UNCHANGED <<procVars, tableVars, useVars, watchVars, crashes, mixed>>

DeadTasks == {t \in DOMAIN tasks : ~tasks[t].alive}
RequestsOf(ts) == {q \in requests : q[1] \in ts}
Give(qs) ==
  /\ requests' = requests \ qs
  /\ count' = [u \in Uids |-> count[u] - Cardinality({q \in qs : q[2] = u})]

(* UpdateAcsRefCounts: all dead tasks go with their requests, and it is    *)
(* the turn of the garbage.                                                *)
ReleaseACs ==
  /\ gc = "release"
  /\ Give(RequestsOf(DeadTasks))
  /\ tasks' = Restrict(tasks, DOMAIN tasks \ DeadTasks)
  /\ gc' = "idle" /\ gcq' = gcq \cup {"gc"}
  /\ UNCHANGED <<procVars, running, link, acs, watchVars, crashes, mixed>>

(* A request arrives: some tasks are done, one of them in part, and the    *)
(* item is processed again.                                                *)
ReleaseACsInPart ==
  /\ gc = "release"
  /\ \E done \in SUBSET DeadTasks : \E t \in DeadTasks \ done :
     \E part \in (SUBSET RequestsOf({t})) \ {{}} :
       /\ Give(RequestsOf(done) \cup part)
       /\ tasks' = Restrict(tasks, DOMAIN tasks \ done)
  /\ gc' = "idle" /\ gcq' = gcq \cup {"release"}
  /\ UNCHANGED <<procVars, running, link, acs, watchVars, crashes, mixed>>

(* CleanSomething: a uid that nobody has requested is removed. *)
CleanUid(u) ==
  /\ gc = "gc" /\ u \in acs /\ count[u] = 0
  /\ RemoveUidNested(u)
  /\ UNCHANGED <<procVars, tableVars, watchVars, gcVars, crashes, mixed>>

(* The limit is reached, or a request arrives and there is more to do. *)
CleanEnd ==
  /\ gc = "gc"
  /\ gc' = "idle"
  /\ UNCHANGED gcq
  /\ UNCHANGED <<procVars, tableVars, useVars, watchVars, crashes, mixed>>

-----------------------------------------------------------------------------
Crash ==
  /\ crashes < MaxCrashes
  /\ crashes' = crashes + 1
  /\ Halt
  /\ UNCHANGED <<stage, left, locked, tableVars, useVars, mixed>>

Clients ==
  \E p \in Procs :
    \/ \E u \in Uids : \/ PutUid(p, u) \/ HasUid(p, u) \/ GetUidRelease(p, u)
                       \/ \E forced \in BOOLEAN : RemoveUid(p, u, forced)
    \/ ReleaseAll(p) \/ Exit(p)
Watch ==
  \/ PickOut \/ \E p \in Procs : DropCooperative(p)
  \/ AddRunningFromDB \/ SkipItem \/ CheckAlive \/ CheckDead \/ CheckAborts
Collect ==
  \/ \E w \in WakeUpGC : GcPick(w)
  \/ ReleaseACs \/ ReleaseACsInPart \/ \E u \in Uids : CleanUid(u) \/ CleanEnd

Next ==
  /\ \/ Clients \/ \E p \in Procs : AddRunningProcess(p)
     \/ Watch \/ Collect \/ Crash
  /\ UNCHANGED grouped

Spec == Init /\ [][Next]_<<grouped, vars>>

(* Handlers are served and the two threads run. *)
FairSpec ==
  /\ Spec
  /\ \A p \in Procs : WF_vars(AddRunningProcess(p) /\ UNCHANGED grouped)
  /\ WF_vars(Watch /\ UNCHANGED grouped)
  /\ WF_vars(Collect /\ UNCHANGED grouped)

-----------------------------------------------------------------------------
TypeRow(f) == DOMAIN f \subseteq Nat \ {0} /\ IsFiniteSet(DOMAIN f)
ACLocksTypeOK ==
  /\ grouped \in Groupings
  /\ stage \in [Procs -> {"alive", "released", "dead"}]
  /\ left \in 0 .. MaxRequests[grouped]
  /\ locked \subseteq Procs \X Uids
  /\ TypeRow(running) /\ TypeRow(tasks) /\ TypeRow(link)
  /\ \A r \in DOMAIN running : running[r] \in Procs
  /\ \A t \in DOMAIN tasks : tasks[t].alive \in BOOLEAN
  /\ acs \subseteq Uids /\ count \in [Uids -> Nat] /\ requests \subseteq (Nat \X Uids)
  /\ coop \subseteq Procs /\ gcq \subseteq WakeUpGC
  /\ known \in BOOLEAN /\ mixed \in BOOLEAN /\ crashes \in 0 .. MaxCrashes

(* request_count is kept beside the table of requests by handlers, by the  *)
(* thread that gives up dead tasks and by removals: it is always the       *)
(* number of requests, so that what is removed as unused is unused.        *)
CountsMatch ==
  /\ \A u \in Uids : count[u] = Cardinality({q \in requests : q[2] = u})
  /\ \A q \in requests : q[2] \in acs

(* A uid that a running build has locked stays, whoever ends, crashes or   *)
(* asks for room; unless the history has gone wrong (mixed).               *)
LockedStays ==
  ~mixed => \A l \in locked : l[2] \in acs /\ count[l[2]] > 0

(* "If it is set, then uid is locked for GC." *)
LockedForGC == \A l \in locked : l[2] \in acs

(* What a build that has ended had locked is given up in the end, by the   *)
(* two threads and across crashes; for builds that are tasks of their own. *)
(* In a group it may not be: a process whose first request is a GetUid     *)
(* with Release gets a row and is not watched, so that its task outlives   *)
(* it until the server is started again.                                   *)
Orphans ==
  {q[1] : q \in {q \in requests :
     \A r \in DOMAIN link : link[r] = q[1] => stage[running[r]] = "dead"}}
DeadGiveUp == (Orphans # {} /\ grouped = {}) ~> (Orphans = {} \/ mixed)
=============================================================================
