---------------------------- MODULE ACLocksProofs ----------------------------
(* The counts of the artifact cache are the numbers of requests, and what  *)
(* a running build has locked stays: proved for all processes, groups,     *)
(* uids, requests and crashes.                                             *)
EXTENDS ACLocks, FiniteSetTheorems, WellFoundedInduction, TLAPS

Bounded(S) == S \subseteq Nat \ {0} /\ \E b \in Nat : \A x \in S : x <= b

(* The rows: every row has a link, a process has one row at most, and a    *)
(* task is named once.                                                     *)
Tables ==
  /\ Bounded(DOMAIN running) /\ Bounded(DOMAIN tasks) /\ DOMAIN link = DOMAIN running
  /\ \A r \in DOMAIN running : running[r] \in Procs
  /\ \A t \in DOMAIN tasks : tasks[t] \in [id : Nat \cup {Group}, alive : BOOLEAN]
OneRow  == \A r, s \in DOMAIN running : running[r] = running[s] => r = s
OneTask == \A s, t \in DOMAIN tasks : tasks[s].id = tasks[t].id => s = t

Of(R, u) == {q \in R : q[2] = u}
Counted ==
  /\ acs \subseteq Uids /\ count \in [Uids -> Nat]
  /\ requests \subseteq Nat \X Uids /\ IsFiniteSet(requests)
  /\ CountsMatch

(* Who is forgotten is not alive, and who is not alive has nothing locked. *)
Forgotten ==
  /\ coop \cup watch.todo \subseteq Procs
  /\ \A p \in coop \cup watch.todo : stage[p] # "alive"
  /\ \A l \in locked : stage[l[1]] = "alive"

(* A row is linked to the living task of its process, and what is locked   *)
(* is requested by that task.                                              *)
IdOf(r) == IF running[r] \in grouped THEN Group ELSE r
Linked(r) == link[r] \in DOMAIN tasks /\ tasks[link[r]].alive /\ tasks[link[r]].id = IdOf(r)
Requested(l) == \E r \in DOMAIN running : running[r] = l[1] /\ <<link[r], l[2]>> \in requests
Kept == mixed \/ ((\A r \in DOMAIN link : Linked(r)) /\ \A l \in locked : Requested(l))

Simple ==
  /\ grouped \in Groupings
  /\ stage \in [Procs -> {"alive", "released", "dead"}]
  /\ left \in 0 .. MaxRequests[grouped]
  /\ locked \subseteq Procs \X Uids
  /\ gcq \subseteq WakeUpGC /\ known \in BOOLEAN /\ mixed \in BOOLEAN
  /\ crashes \in 0 .. MaxCrashes

IInv == Simple /\ Tables /\ OneRow /\ OneTask /\ Counted /\ Forgotten /\ Kept

-----------------------------------------------------------------------------
LEMMA MaxIn ==
  ASSUME NEW S, Bounded(S), S # {}
  PROVE  Max(S) \in S /\ \A x \in S : x <= Max(S)
<1>1. PICK b \in Nat : \A x \in S : x <= b
  BY DEF Bounded
<1> DEFINE R == {b - x : x \in S}
<1>2. R \subseteq Nat /\ R # {}
  <2>1. ASSUME NEW x \in S PROVE b - x \in Nat
    BY <1>1 DEF Bounded
  <2> QED BY <2>1
<1>3. PICK y \in R : \A z \in R : ~ (<<z, y>> \in OpToRel(<, Nat))
  BY <1>2, WFMin, NatLessThanWellFounded
<1>4. PICK m \in S : y = b - m
  OBVIOUS
<1>5. ASSUME NEW z \in R PROVE ~ (z < y)
  BY <1>2, <1>3 DEF OpToRel
<1>6. ASSUME NEW x \in S PROVE m >= x
  <2>1. x \in Nat /\ m \in Nat /\ b - x \in R
    BY DEF Bounded
  <2>2. ~ (b - x < b - m)
    BY <1>4, <1>5, <2>1
  <2> QED BY <2>1, <2>2
<1>7. \E m1 \in S : \A x \in S : m1 >= x
  BY <1>6
<1>8. Max(S) \in S /\ \A x \in S : Max(S) >= x
  BY <1>7 DEF Max
<1> QED BY <1>8 DEF Bounded

LEMMA NextRowFresh ==
  ASSUME NEW S, Bounded(S)
  PROVE  NextRow(S) \in Nat \ {0} /\ NextRow(S) \notin S
<1>1. CASE S = {}
  BY <1>1 DEF NextRow
<1>2. CASE S # {}
  <2>1. Max(S) \in Nat \ {0} /\ \A x \in S : x <= Max(S) /\ x \in Nat
    BY <1>2, MaxIn DEF Bounded
  <2> QED BY <1>2, <2>1 DEF NextRow
<1> QED BY <1>1, <1>2

LEMMA BoundedMore ==
  ASSUME NEW S, Bounded(S), NEW r \in Nat \ {0}
  PROVE  Bounded(S \cup {r})
<1>1. PICK b \in Nat : \A x \in S : x <= b
  BY DEF Bounded
<1>2. b + r \in Nat /\ \A x \in S \cup {r} : x <= b + r
  BY <1>1 DEF Bounded
<1> QED BY <1>2 DEF Bounded

LEMMA BoundedLess ==
  ASSUME NEW S, Bounded(S), NEW T \in SUBSET S
  PROVE  Bounded(T)
BY DEF Bounded

LEMMA BoundedFinite ==
  ASSUME NEW S, Bounded(S)
  PROVE  IsFiniteSet(S)
<1>1. PICK b \in Nat : \A x \in S : x <= b
  BY DEF Bounded
<1> QED BY <1>1, FS_BoundedSetOfNaturals DEF Bounded

(* The row and the task that a request of p finds or makes.                *)
LEMMA RowOfIs ==
  ASSUME Tables, OneRow, NEW p \in Procs
  PROVE  /\ RowOf(p) \in Nat \ {0}
         /\ \A s \in DOMAIN running : running[s] = p <=> s = RowOf(p)
<1> DEFINE rows == {r \in DOMAIN running : running[r] = p}
<1>1. CASE rows = {}
  <2>1. RowOf(p) = NextRow(DOMAIN running)
    BY <1>1 DEF RowOf
  <2> QED BY <1>1, <2>1, NextRowFresh DEF Tables
<1>2. CASE rows # {}
  <2>1. RowOf(p) = Max(rows)
    BY <1>2 DEF RowOf
  <2>2. Bounded(rows)
    BY BoundedLess DEF Tables
  <2>3. RowOf(p) \in rows
    BY <1>2, <2>1, <2>2, MaxIn
  <2> QED BY <2>3 DEF Tables, OneRow, Bounded
<1> QED BY <1>1, <1>2

LEMMA TaskOfIs ==
  ASSUME Tables, OneTask, NEW p \in Procs
  PROVE  /\ TaskOf(p) \in Nat \ {0}
         /\ \A s \in DOMAIN tasks : tasks[s].id = TaskId(p) <=> s = TaskOf(p)
<1>1. CASE SameTask(p) = {}
  <2>1. TaskOf(p) = NextRow(DOMAIN tasks)
    BY <1>1 DEF TaskOf
  <2> QED BY <1>1, <2>1, NextRowFresh DEF Tables, SameTask
<1>2. CASE SameTask(p) # {}
  <2>1. TaskOf(p) = Max(SameTask(p))
    BY <1>2 DEF TaskOf
  <2>2. Bounded(SameTask(p))
    BY BoundedLess DEF Tables, SameTask
  <2>3. TaskOf(p) \in SameTask(p)
    BY <1>2, <2>1, <2>2, MaxIn
  <2> QED BY <2>3 DEF Tables, OneTask, Bounded, SameTask
<1> QED BY <1>1, <1>2

LEMMA IdTyped ==
  ASSUME Tables, OneRow, NEW p \in Procs
  PROVE  TaskId(p) \in Nat \cup {Group}
BY RowOfIs DEF TaskId

LEMMA Inserts ==
  ASSUME NEW p, InsertRunningProc(p), DOMAIN link = DOMAIN running
  PROVE  /\ DOMAIN running' = DOMAIN running \cup {RowOf(p)}
         /\ DOMAIN link' = DOMAIN running \cup {RowOf(p)}
         /\ DOMAIN tasks' = DOMAIN tasks \cup {TaskOf(p)}
         /\ \A s \in DOMAIN running' : running'[s] = IF s \in DOMAIN running THEN running[s] ELSE p
         /\ \A s \in DOMAIN link' : link'[s] = IF s \in DOMAIN running THEN link[s] ELSE TaskOf(p)
         /\ \A s \in DOMAIN tasks' : tasks'[s] = IF s \in DOMAIN tasks THEN tasks[s]
                                                 ELSE [id |-> TaskId(p), alive |-> TRUE]
         /\ ~ mixed' => ~ mixed /\ \A t \in SameTask(p) : tasks[t].alive
<1> DEFINE r == RowOf(p)
           t == TaskOf(p)
<1>1. running' = [s \in DOMAIN running \cup {r} |-> IF s \in DOMAIN running THEN running[s] ELSE p]
  BY DEF InsertRunningProc, Insert
<1>2. link' = [s \in DOMAIN link \cup {r} |-> IF s \in DOMAIN link THEN link[s] ELSE t]
  BY DEF InsertRunningProc, Insert
<1>3. tasks' = [s \in DOMAIN tasks \cup {t} |-> IF s \in DOMAIN tasks THEN tasks[s]
                                                ELSE [id |-> TaskId(p), alive |-> TRUE]]
  BY DEF InsertRunningProc, Insert
<1>4. ~ mixed' => ~ mixed /\ \A s \in SameTask(p) : tasks[s].alive
  BY DEF InsertRunningProc
<1> HIDE DEF r, t
<1>5. /\ DOMAIN running' = DOMAIN running \cup {r} /\ DOMAIN link' = DOMAIN running \cup {r}
      /\ DOMAIN tasks' = DOMAIN tasks \cup {t}
  BY <1>1, <1>2, <1>3
<1>6. /\ \A s \in DOMAIN running' : running'[s] = IF s \in DOMAIN running THEN running[s] ELSE p
      /\ \A s \in DOMAIN link' : link'[s] = IF s \in DOMAIN running THEN link[s] ELSE t
      /\ \A s \in DOMAIN tasks' : tasks'[s] = IF s \in DOMAIN tasks THEN tasks[s]
                                              ELSE [id |-> TaskId(p), alive |-> TRUE]
  BY <1>1, <1>2, <1>3
<1> QED BY <1>4, <1>5, <1>6 DEF r, t

-----------------------------------------------------------------------------
(* The rows, by what happens to them.                                      *)
LEMMA TablesInsert ==
  ASSUME Tables, OneRow, OneTask, NEW p \in Procs, InsertRunningProc(p)
  PROVE  Tables' /\ OneRow' /\ OneTask'
<1> DEFINE r == RowOf(p)
           t == TaskOf(p)
<1>1. /\ DOMAIN running' = DOMAIN running \cup {r} /\ DOMAIN link' = DOMAIN running \cup {r}
      /\ DOMAIN tasks' = DOMAIN tasks \cup {t}
      /\ \A s \in DOMAIN running' : running'[s] = IF s \in DOMAIN running THEN running[s] ELSE p
      /\ \A s \in DOMAIN tasks' : tasks'[s] = IF s \in DOMAIN tasks THEN tasks[s]
                                              ELSE [id |-> TaskId(p), alive |-> TRUE]
  BY Inserts DEF Tables
<1>2. r \in Nat \ {0} /\ \A s \in DOMAIN running : running[s] = p <=> s = r
  BY RowOfIs
<1>3. t \in Nat \ {0} /\ \A s \in DOMAIN tasks : tasks[s].id = TaskId(p) <=> s = t
  BY TaskOfIs
<1>4. [id |-> TaskId(p), alive |-> TRUE] \in [id : Nat \cup {Group}, alive : BOOLEAN]
  BY IdTyped
<1> HIDE DEF r, t
<1>5. Bounded(DOMAIN running') /\ Bounded(DOMAIN tasks')
  BY <1>1, <1>2, <1>3, BoundedMore DEF Tables
<1>6. /\ \A s \in DOMAIN running' : running'[s] \in Procs
      /\ \A s \in DOMAIN tasks' : tasks'[s] \in [id : Nat \cup {Group}, alive : BOOLEAN]
  BY <1>1, <1>4 DEF Tables
<1>7. OneRow'
  BY <1>1, <1>2 DEF OneRow
<1>8. OneTask'
  BY <1>1, <1>3 DEF OneTask
<1> QED BY <1>1, <1>5, <1>6, <1>7, <1>8 DEF Tables

LEMMA Drops ==
  ASSUME NEW r, DropDeadProc(r), DOMAIN link = DOMAIN running,
         \A t \in DOMAIN tasks : tasks[t] \in [id : Nat \cup {Group}, alive : BOOLEAN]
  PROVE  /\ DOMAIN running' = DOMAIN running \ {r} /\ DOMAIN link' = DOMAIN running \ {r}
         /\ DOMAIN tasks' = DOMAIN tasks
         /\ \A s \in DOMAIN running' : running'[s] = running[s] /\ link'[s] = link[s]
         /\ \A t \in DOMAIN tasks : tasks'[t] \in [id : Nat \cup {Group}, alive : BOOLEAN]
         /\ \A t \in DOMAIN tasks : tasks'[t].id = tasks[t].id
         /\ \A s \in DOMAIN running' : link[s] \in DOMAIN tasks =>
              tasks'[link[s]].alive = tasks[link[s]].alive
<1>1. /\ running' = [s \in DOMAIN running \ {r} |-> running[s]]
      /\ link' = [s \in DOMAIN link \ {r} |-> link[s]]
  BY DEF DropDeadProc, Restrict
<1>2. CASE LinkedElsewhere(r)
  BY <1>1, <1>2 DEF DropDeadProc
<1>3. CASE ~ LinkedElsewhere(r)
  <2>1. tasks' = [t \in DOMAIN tasks |->
                    IF t = link[r] THEN [tasks[t] EXCEPT !.alive = FALSE] ELSE tasks[t]]
    BY <1>3 DEF DropDeadProc
  <2>2. \A s \in DOMAIN running \ {r} : link[s] # link[r]
    BY <1>3 DEF LinkedElsewhere
  <2> QED BY <1>1, <2>1, <2>2
<1> QED BY <1>2, <1>3

LEMMA TablesDrop ==
  ASSUME Tables, OneRow, OneTask, NEW r, DropDeadProc(r)
  PROVE  Tables' /\ OneRow' /\ OneTask'
<1>1. /\ DOMAIN running' = DOMAIN running \ {r} /\ DOMAIN link' = DOMAIN running \ {r}
      /\ DOMAIN tasks' = DOMAIN tasks
      /\ \A s \in DOMAIN running' : running'[s] = running[s] /\ link'[s] = link[s]
      /\ \A t \in DOMAIN tasks : tasks'[t] \in [id : Nat \cup {Group}, alive : BOOLEAN]
      /\ \A t \in DOMAIN tasks : tasks'[t].id = tasks[t].id
  BY Drops DEF Tables
<1>2. Bounded(DOMAIN running') /\ Bounded(DOMAIN tasks')
  BY <1>1, BoundedLess DEF Tables
<1>3. OneRow' /\ OneTask'
  BY <1>1 DEF OneRow, OneTask
<1> QED BY <1>1, <1>2, <1>3 DEF Tables

LEMMA TablesReap ==
  ASSUME Tables, OneRow, OneTask, NEW ts,
         tasks' = Restrict(tasks, DOMAIN tasks \ ts), UNCHANGED <<running, link>>
  PROVE  Tables' /\ OneRow' /\ OneTask'
<1>1. DOMAIN tasks' = DOMAIN tasks \ ts /\ \A t \in DOMAIN tasks' : tasks'[t] = tasks[t]
  BY DEF Restrict
<1>2. Bounded(DOMAIN tasks')
  BY <1>1, BoundedLess DEF Tables
<1> QED BY <1>1, <1>2 DEF Tables, OneRow, OneTask

LEMMA TablesSame ==
  ASSUME Tables, OneRow, OneTask, UNCHANGED tableVars
  PROVE  Tables' /\ OneRow' /\ OneTask'
BY DEF Tables, OneRow, OneTask, tableVars, Bounded

-----------------------------------------------------------------------------
(* The counts, by what happens to the requests.                            *)
LEMMA CountedLock ==
  ASSUME Counted, NEW p, TaskOf(p) \in Nat, NEW u \in Uids, Lock(p, u), acs' = acs \cup {u}
  PROVE  Counted'
<1> DEFINE x == <<TaskOf(p), u>>
<1>1. requests' = requests \cup {x} /\ x \in Nat \X Uids
  BY DEF Lock
<1>2. count' = [count EXCEPT ![u] = IF x \in requests THEN @ ELSE @ + 1]
  BY DEF Lock
<1>3. IsFiniteSet(requests')
  BY <1>1, FS_AddElement DEF Counted
<1>4. ASSUME NEW v \in Uids PROVE count'[v] = Cardinality(Of(requests', v)) /\ count'[v] \in Nat
  <2>1. IsFiniteSet(Of(requests, v)) /\ count[v] = Cardinality(Of(requests, v)) /\ count[v] \in Nat
    BY FS_Subset DEF Counted, CountsMatch, Of
  <2>2. CASE v = u
    <3>1. Of(requests', v) = Of(requests, v) \cup {x}
      BY <1>1, <2>2 DEF Of
    <3>2. x \in Of(requests, v) <=> x \in requests
      BY <2>2 DEF Of
    <3>3. Cardinality(Of(requests', v)) = IF x \in requests THEN count[v] ELSE count[v] + 1
      BY <2>1, <3>1, <3>2, FS_AddElement
    <3> QED BY <1>2, <2>1, <2>2, <3>3 DEF Counted
  <2>3. CASE v # u
    <3>1. Of(requests', v) = Of(requests, v)
      BY <1>1, <2>3 DEF Of
    <3> QED BY <1>2, <2>1, <2>3, <3>1 DEF Counted
  <2> QED BY <2>2, <2>3
<1>5. count' \in [Uids -> Nat]
  BY <1>2, <1>4 DEF Counted
<1>6. \A q \in requests' : q[2] \in acs'
  BY <1>1 DEF Counted, CountsMatch
<1> QED BY <1>1, <1>3, <1>4, <1>5, <1>6 DEF Counted, CountsMatch, Of

(* Unlock and Give take requests away and count them off.                  *)
LEMMA CountedLess ==
  ASSUME Counted, NEW qs, qs \subseteq requests, requests' = requests \ qs, UNCHANGED acs,
         count' \in [Uids -> Int],
         \A u \in Uids : count'[u] = count[u] - Cardinality(Of(qs, u))
  PROVE  Counted'
<1>1. IsFiniteSet(requests') /\ requests' \subseteq Nat \X Uids
  BY FS_Subset DEF Counted
<1>2. ASSUME NEW v \in Uids PROVE count'[v] = Cardinality(Of(requests', v)) /\ count'[v] \in Nat
  <2>1. IsFiniteSet(Of(requests, v)) /\ count[v] = Cardinality(Of(requests, v))
    BY FS_Subset DEF Counted, CountsMatch, Of
  <2>2. Of(requests', v) = Of(requests, v) \ Of(qs, v)
    BY DEF Of
  <2>3. Of(requests, v) \cap Of(qs, v) = Of(qs, v)
    BY DEF Of
  <2>4. /\ IsFiniteSet(Of(requests', v))
        /\ Cardinality(Of(requests', v)) = count[v] - Cardinality(Of(qs, v))
    <3>1. /\ IsFiniteSet(Of(requests, v) \ Of(qs, v))
          /\ Cardinality(Of(requests, v) \ Of(qs, v)) =
               Cardinality(Of(requests, v)) - Cardinality(Of(requests, v) \cap Of(qs, v))
      BY ONLY <2>1, FS_Difference
    <3> QED BY ONLY <2>1, <2>2, <2>3, <3>1
  <2> QED BY <2>4, FS_CardinalityType
<1>3. \A q \in requests' : q[2] \in acs'
  BY DEF Counted, CountsMatch
<1>4. count' \in [Uids -> Nat]
  BY <1>2
<1> QED BY <1>1, <1>2, <1>3, <1>4 DEF Counted, CountsMatch, Of

LEMMA CountedUnlock ==
  ASSUME Counted, NEW p, NEW u \in Uids, Unlock(p, u), UNCHANGED acs
  PROVE  Counted'
<1> DEFINE x == <<TaskOf(p), u>>
           qs == requests \cap {x}
<1>1. requests' = requests \ qs
  BY DEF Unlock
<1>2. count' = [count EXCEPT ![u] = IF x \in requests THEN @ - 1 ELSE @]
  BY DEF Unlock
<1>3. count' \in [Uids -> Int]
  BY <1>2 DEF Counted
<1>4. ASSUME NEW v \in Uids PROVE count'[v] = count[v] - Cardinality(Of(qs, v))
  <2>1. CASE v = u /\ x \in requests
    <3>1. Of(qs, v) = {x}
      BY <2>1 DEF Of
    <3> QED BY <1>2, <2>1, <3>1, FS_Singleton DEF Counted
  <2>2. CASE v # u \/ x \notin requests
    <3>1. Of(qs, v) = {}
      BY <2>2 DEF Of
    <3>2. count'[v] = count[v] /\ count[v] \in Nat
      BY <1>2, <2>2 DEF Counted
    <3> QED BY <3>1, <3>2, FS_EmptySet
  <2> QED BY <2>1, <2>2
<1> HIDE DEF qs
<1>5. qs \subseteq requests
  BY DEF qs
<1> QED BY <1>1, <1>3, <1>4, <1>5, CountedLess

LEMMA CountedGive ==
  ASSUME Counted, NEW qs, qs \subseteq requests, Give(qs), UNCHANGED acs
  PROVE  Counted'
<1>1. ASSUME NEW u \in Uids PROVE Cardinality(Of(qs, u)) \in Nat
  BY FS_Subset, FS_CardinalityType DEF Counted, Of
<1>2. \A u \in Uids : count'[u] = count[u] - Cardinality(Of(qs, u))
  BY DEF Give, Of
<1>3. DOMAIN count' = Uids /\ count' = [u \in Uids |-> count'[u]]
  BY DEF Give
<1>4. count' \in [Uids -> Int]
  BY <1>1, <1>2, <1>3 DEF Counted
<1> QED BY <1>2, <1>4, CountedLess DEF Give

LEMMA CountedRemove ==
  ASSUME Counted, NEW u \in Uids, RemoveUidNested(u)
  PROVE  Counted'
<1>1. acs' = acs \ {u} /\ requests' = {q \in requests : q[2] # u}
  BY DEF RemoveUidNested
<1>2. count' = [count EXCEPT ![u] = 0]
  BY DEF RemoveUidNested
<1>3. requests' \subseteq requests /\ IsFiniteSet(requests')
  BY <1>1, FS_Subset DEF Counted
<1>4. ASSUME NEW v \in Uids PROVE count'[v] = Cardinality(Of(requests', v))
  <2>1. CASE v = u
    <3>1. Of(requests', v) = {}
      BY <1>1, <2>1 DEF Of
    <3> QED BY <1>2, <2>1, <3>1, FS_EmptySet DEF Counted
  <2>2. CASE v # u
    <3>1. Of(requests', v) = Of(requests, v)
      BY <1>1, <2>2 DEF Of
    <3> QED BY <1>2, <2>2, <3>1 DEF Counted, CountsMatch, Of
  <2> QED BY <2>1, <2>2
<1>5. \A q \in requests' : q[2] \in acs'
  BY <1>1 DEF Counted, CountsMatch
<1> QED BY <1>1, <1>2, <1>3, <1>4, <1>5 DEF Counted, CountsMatch, Of

LEMMA CountedSame ==
  ASSUME Counted, UNCHANGED useVars
  PROVE  Counted'
BY DEF Counted, useVars, CountsMatch

-----------------------------------------------------------------------------
(* What is locked stays requested, by what happens.                        *)
LEMMA KeptUse ==
  ASSUME Tables, OneRow, OneTask, NEW p \in Procs, InsertRunningProc(p), UNCHANGED grouped,
         Kept, ~ mixed'
  PROVE  /\ ~ mixed
         /\ \A r \in DOMAIN link' : Linked(r)'
         /\ RowOf(p) \in DOMAIN running' /\ running'[RowOf(p)] = p
         /\ link'[RowOf(p)] = TaskOf(p)
         /\ \A s \in DOMAIN running : s \in DOMAIN running' /\ running'[s] = running[s]
                                      /\ link'[s] = link[s]
<1>0. PICK r, t : r = RowOf(p) /\ t = TaskOf(p)
  OBVIOUS
<1>1. /\ DOMAIN running' = DOMAIN running \cup {r} /\ DOMAIN link' = DOMAIN running \cup {r}
      /\ DOMAIN tasks' = DOMAIN tasks \cup {t}
      /\ \A s \in DOMAIN running' : running'[s] = IF s \in DOMAIN running THEN running[s] ELSE p
      /\ \A s \in DOMAIN link' : link'[s] = IF s \in DOMAIN running THEN link[s] ELSE t
      /\ \A s \in DOMAIN tasks' : tasks'[s] = IF s \in DOMAIN tasks THEN tasks[s]
                                              ELSE [id |-> TaskId(p), alive |-> TRUE]
      /\ ~ mixed /\ \A s \in SameTask(p) : tasks[s].alive
  BY <1>0, Inserts DEF Tables
<1>2. r \in Nat \ {0} /\ \A s \in DOMAIN running : running[s] = p <=> s = r
  BY <1>0, RowOfIs
<1>3. \A s \in DOMAIN tasks : tasks[s].id = TaskId(p) <=> s = t
  BY <1>0, TaskOfIs
<1>4. \A s \in DOMAIN running : Linked(s)
  BY <1>1 DEF Kept, Tables
<1>5. TaskId(p) = IF p \in grouped THEN Group ELSE r
  BY <1>0 DEF TaskId
<1>6. ASSUME NEW s \in DOMAIN running PROVE Linked(s)'
  <2>1. running'[s] = running[s] /\ link'[s] = link[s] /\ IdOf(s)' = IdOf(s)
    BY <1>1, <1>6 DEF IdOf
  <2> QED BY <1>1, <1>4, <2>1 DEF Linked
<1>7. link'[r] = t
  <2>1. CASE r \in DOMAIN running
    <3>1. tasks[link[r]].id = TaskId(p) /\ link[r] \in DOMAIN tasks
      BY <1>2, <1>4, <1>5, <2>1 DEF Linked, IdOf
    <3> QED BY <1>1, <1>3, <2>1, <3>1
  <2>2. CASE r \notin DOMAIN running
    BY <1>1, <2>2
  <2> QED BY <2>1, <2>2
<1>8. running'[r] = p
  BY <1>1, <1>2
<1>9. tasks'[t].alive /\ tasks'[t].id = TaskId(p)
  <2>1. CASE t \in DOMAIN tasks
    BY <1>1, <1>3, <2>1 DEF SameTask
  <2>2. CASE t \notin DOMAIN tasks
    BY <1>1, <2>2
  <2> QED BY <2>1, <2>2
<1>10. Linked(r)'
  BY <1>1, <1>5, <1>7, <1>8, <1>9 DEF Linked, IdOf
<1>11. \A s \in DOMAIN link' : Linked(s)'
  BY <1>1, <1>6, <1>10
<1> QED BY <1>0, <1>1, <1>7, <1>8, <1>11

LEMMA KeptLock ==
  ASSUME Tables, OneRow, OneTask, NEW p \in Procs, NEW u \in Uids, InsertRunningProc(p),
         Lock(p, u), UNCHANGED grouped, Kept, locked \subseteq Procs \X Uids
  PROVE  Kept'
<1> SUFFICES ASSUME ~ mixed'
             PROVE  (\A r \in DOMAIN link' : Linked(r)') /\ \A l \in locked' : Requested(l)'
  BY DEF Kept
<1>1. /\ ~ mixed /\ \A r \in DOMAIN link' : Linked(r)'
      /\ RowOf(p) \in DOMAIN running' /\ running'[RowOf(p)] = p /\ link'[RowOf(p)] = TaskOf(p)
      /\ \A s \in DOMAIN running : s \in DOMAIN running' /\ running'[s] = running[s]
                                   /\ link'[s] = link[s]
  BY KeptUse
<1>2. locked' = locked \cup {<<p, u>>} /\ requests' = requests \cup {<<TaskOf(p), u>>}
  BY DEF Lock
<1>3. ASSUME NEW l \in locked PROVE Requested(l)'
  <2>1. PICK r \in DOMAIN running : running[r] = l[1] /\ <<link[r], l[2]>> \in requests
    BY <1>1 DEF Kept, Requested
  <2>2. r \in DOMAIN running' /\ running'[r] = l[1] /\ <<link'[r], l[2]>> \in requests'
    BY <1>1, <1>2, <2>1
  <2> QED BY <2>2 DEF Requested
<1>4. Requested(<<p, u>>)'
  BY <1>1, <1>2 DEF Requested
<1> QED BY <1>1, <1>2, <1>3, <1>4

(* An unlock takes the request of a task, and the locks of all its         *)
(* processes.                                                              *)
LEMMA KeptUnlock ==
  ASSUME Tables, OneRow, OneTask, NEW p \in Procs, NEW u \in Uids, InsertRunningProc(p),
         Unlock(p, u), UNCHANGED grouped, Kept, locked \subseteq Procs \X Uids
  PROVE  Kept'
<1> SUFFICES ASSUME ~ mixed'
             PROVE  (\A r \in DOMAIN link' : Linked(r)') /\ \A l \in locked' : Requested(l)'
  BY DEF Kept
<1>0. PICK m : m = RowOf(p)
  OBVIOUS
<1>1. /\ ~ mixed /\ \A r \in DOMAIN link' : Linked(r)'
      /\ m \in DOMAIN running' /\ running'[m] = p /\ link'[m] = TaskOf(p)
      /\ \A s \in DOMAIN running : s \in DOMAIN running' /\ running'[s] = running[s]
                                   /\ link'[s] = link[s]
  BY <1>0, KeptUse
<1>2. DOMAIN link' = DOMAIN running' /\ DOMAIN running' = DOMAIN running \cup {m}
  BY <1>0, Inserts DEF Tables
<1>3. locked' = locked \ (SameOwner(p) \X {u}) /\ requests' = requests \ {<<TaskOf(p), u>>}
  BY DEF Unlock
<1>4. ASSUME NEW l \in locked' PROVE Requested(l)'
  <2>1. PICK r \in DOMAIN running : running[r] = l[1] /\ <<link[r], l[2]>> \in requests
    BY <1>1, <1>3, <1>4 DEF Kept, Requested
  <2>2. CASE link[r] # TaskOf(p) \/ l[2] # u
    <3>1. r \in DOMAIN running' /\ running'[r] = l[1] /\ <<link'[r], l[2]>> \in requests'
      BY <1>1, <1>3, <2>1, <2>2
    <3> QED BY <3>1 DEF Requested
  <2>3. CASE link[r] = TaskOf(p) /\ l[2] = u
    <3>1. IdOf(r)' = IdOf(m)'
      <4>1. Linked(r)' /\ Linked(m)'
        BY <1>1, <1>2
      <4>2. link'[r] = link'[m]
        BY <1>1, <2>3
      <4> QED BY <4>1, <4>2 DEF Linked
    <3>2. r \in Nat /\ m \in Nat
      BY <1>0, RowOfIs DEF Tables, Bounded
    <3>3. running[r] \in SameOwner(p)
      <4>1. CASE p \in grouped
        <5>1. running[r] \in grouped
          BY <1>1, <3>1, <3>2, <4>1, GroupAssumption DEF IdOf
        <5> QED BY <4>1, <5>1 DEF SameOwner
      <4>2. CASE p \notin grouped
        <5>1. r = m
          BY <1>1, <3>1, <3>2, <4>2, GroupAssumption DEF IdOf
        <5>2. running[r] = p
          BY <1>1, <5>1
        <5> QED BY <4>2, <5>2 DEF SameOwner
      <4> QED BY <4>1, <4>2
    <3>4. l = <<l[1], l[2]>>
      BY <1>3, <1>4
    <3> QED BY <1>3, <1>4, <2>1, <2>3, <3>3, <3>4
  <2> QED BY <2>2, <2>3
<1> QED BY <1>1, <1>4

LEMMA KeptRemove ==
  ASSUME NEW u, RemoveUidNested(u), UNCHANGED <<grouped, tableVars, mixed>>, Kept,
         locked' \subseteq locked, \A l \in locked' : ~ mixed => l[2] # u
  PROVE  Kept'
<1> SUFFICES ASSUME ~ mixed'
             PROVE  (\A r \in DOMAIN link' : Linked(r)') /\ \A l \in locked' : Requested(l)'
  BY DEF Kept
<1>1. ~ mixed /\ UNCHANGED <<running, tasks, link>>
  BY DEF tableVars
<1>2. \A r \in DOMAIN link' : Linked(r)'
  BY <1>1 DEF Kept, Linked, IdOf
<1>3. ASSUME NEW l \in locked' PROVE Requested(l)'
  <2>1. PICK r \in DOMAIN running : running[r] = l[1] /\ <<link[r], l[2]>> \in requests
    BY <1>1 DEF Kept, Requested
  <2>2. <<link[r], l[2]>> \in requests'
    BY <1>1, <2>1 DEF RemoveUidNested
  <2> QED BY <1>1, <2>1, <2>2 DEF Requested
<1> QED BY <1>2, <1>3

(* The row that goes is of a process that has nothing locked.              *)
LEMMA KeptDrop ==
  ASSUME Tables, NEW r \in DOMAIN running, DropDeadProc(r), UNCHANGED <<grouped, requests, locked>>,
         Kept, mixed => mixed', ~ mixed' => \A l \in locked : l[1] # running[r]
  PROVE  Kept'
<1> SUFFICES ASSUME ~ mixed'
             PROVE  (\A s \in DOMAIN link' : Linked(s)') /\ \A l \in locked' : Requested(l)'
  BY DEF Kept
<1>1. /\ DOMAIN running' = DOMAIN running \ {r} /\ DOMAIN link' = DOMAIN running \ {r}
      /\ DOMAIN tasks' = DOMAIN tasks
      /\ \A s \in DOMAIN running' : running'[s] = running[s] /\ link'[s] = link[s]
      /\ \A t \in DOMAIN tasks : tasks'[t].id = tasks[t].id
      /\ \A s \in DOMAIN running' : link[s] \in DOMAIN tasks =>
           tasks'[link[s]].alive = tasks[link[s]].alive
  BY Drops DEF Tables
<1>2. ASSUME NEW s \in DOMAIN link' PROVE Linked(s)'
  <2>1. Linked(s) /\ IdOf(s)' = IdOf(s)
    BY <1>1 DEF Kept, IdOf, Tables
  <2> QED BY <1>1, <2>1 DEF Linked
<1>3. ASSUME NEW l \in locked' PROVE Requested(l)'
  <2>1. PICK s \in DOMAIN running : running[s] = l[1] /\ <<link[s], l[2]>> \in requests
    BY DEF Kept, Requested
  <2>2. s # r
    BY <2>1
  <2> QED BY <1>1, <2>1, <2>2 DEF Requested
<1> QED BY <1>2, <1>3

(* Only the requests of dead tasks are given up.                           *)
LEMMA KeptReap ==
  ASSUME Tables, NEW ts, ts \subseteq DeadTasks, NEW qs, qs \subseteq RequestsOf(DeadTasks),
         Give(qs), tasks' = Restrict(tasks, DOMAIN tasks \ ts),
         UNCHANGED <<grouped, running, link, locked, mixed>>, Kept
  PROVE  Kept'
<1> SUFFICES ASSUME ~ mixed'
             PROVE  (\A s \in DOMAIN link' : Linked(s)') /\ \A l \in locked' : Requested(l)'
  BY DEF Kept
<1>1. ASSUME NEW s \in DOMAIN link PROVE Linked(s) /\ link[s] \notin DeadTasks
  BY DEF Kept, Linked, DeadTasks
<1>2. ASSUME NEW s \in DOMAIN link' PROVE Linked(s)'
  <2>1. link[s] \in DOMAIN tasks' /\ tasks'[link[s]] = tasks[link[s]]
    BY <1>1 DEF Linked, Restrict
  <2> QED BY <1>1, <2>1 DEF Linked, IdOf
<1>3. ASSUME NEW l \in locked' PROVE Requested(l)'
  <2>1. PICK s \in DOMAIN running : running[s] = l[1] /\ <<link[s], l[2]>> \in requests
    BY DEF Kept, Requested
  <2>2. <<link[s], l[2]>> \notin qs
    BY <1>1, <2>1 DEF RequestsOf, Tables
  <2> QED BY <2>1, <2>2 DEF Requested, Give
<1> QED BY <1>2, <1>3

LEMMA KeptFewer ==
  ASSUME Kept, locked' \subseteq locked, UNCHANGED <<grouped, tableVars, requests, mixed>>
  PROVE  Kept'
BY DEF Kept, Linked, IdOf, Requested, tableVars


-----------------------------------------------------------------------------
(* All steps.                                                              *)
Step(p, u, f, w) ==
  \/ PutUid(p, u) \/ HasUid(p, u) \/ GetUidRelease(p, u)
  \/ RemoveUid(p, u, f) \/ ReleaseAll(p) \/ Exit(p) \/ AddRunningProcess(p)
  \/ PickOut \/ DropCooperative(p) \/ AddRunningFromDB \/ SkipItem
  \/ CheckAlive \/ CheckDead \/ CheckAborts \/ GcPick(w) \/ ReleaseACs
  \/ ReleaseACsInPart \/ CleanUid(u) \/ CleanEnd \/ Crash

LEMMA SimpleKept ==
  ASSUME IInv, NEW p \in Procs, NEW u \in Uids, NEW f \in BOOLEAN, NEW w \in WakeUpGC,
         Step(p, u, f, w), UNCHANGED grouped
  PROVE  Simple'
<1> USE BoundsAssumption DEF IInv, Simple, procVars, gcVars, watchVars, WakeUpGC
<1>1. CASE PutUid(p, u)
  <2>1. Request(p) /\ locked' \subseteq Procs \X Uids /\ UNCHANGED <<stage, gcVars, watchVars, crashes>>
    BY <1>1 DEF PutUid, Lock
  <2>2. mixed' \in BOOLEAN
    BY <1>1, Zenon DEF PutUid, InsertRunningProc
  <2> QED BY <2>1, <2>2 DEF Request
<1>2. CASE HasUid(p, u)
  <2>1. Request(p) /\ locked' \subseteq Procs \X Uids /\ UNCHANGED <<stage, gcVars, watchVars, crashes>>
    BY <1>2 DEF HasUid, Lock
  <2>2. mixed' \in BOOLEAN
    BY <1>2, Zenon DEF HasUid, InsertRunningProc
  <2> QED BY <2>1, <2>2 DEF Request
<1>3. CASE GetUidRelease(p, u)
  <2>1. Request(p) /\ locked' \subseteq Procs \X Uids /\ UNCHANGED <<stage, gcVars, watchVars, crashes>>
    BY <1>3 DEF GetUidRelease, Unlock
  <2>2. mixed' \in BOOLEAN
    BY <1>3, Zenon DEF GetUidRelease, InsertRunningProc
  <2> QED BY <2>1, <2>2 DEF Request
<1>4. CASE RemoveUid(p, u, f)  BY <1>4 DEF RemoveUid, Request
<1>5. CASE ReleaseAll(p)  BY <1>5 DEF ReleaseAll
<1>6. CASE Exit(p)  BY <1>6 DEF Exit
<1>7. CASE AddRunningProcess(p)  BY <1>7 DEF AddRunningProcess
<1>8. CASE PickOut  BY <1>8 DEF PickOut
<1>9. CASE DropCooperative(p)  BY <1>9 DEF DropCooperative
<1>10. CASE AddRunningFromDB  BY <1>10 DEF AddRunningFromDB
<1>11. CASE SkipItem  BY <1>11 DEF SkipItem
<1>12. CASE CheckAlive  BY <1>12 DEF CheckAlive, Check
<1>13. CASE CheckDead  BY <1>13 DEF CheckDead, Check
<1>14. CASE CheckAborts  BY <1>14 DEF CheckAborts, Halt
<1>15. CASE GcPick(w)  BY <1>15 DEF GcPick
<1>16. CASE ReleaseACs  BY <1>16 DEF ReleaseACs
<1>17. CASE ReleaseACsInPart  BY <1>17 DEF ReleaseACsInPart
<1>18. CASE CleanUid(u)  BY <1>18 DEF CleanUid
<1>19. CASE CleanEnd  BY <1>19 DEF CleanEnd
<1>20. CASE Crash
  <2>1. crashes' \in 0 .. MaxCrashes
    BY <1>20 DEF Crash
  <2> QED BY <1>20, <2>1 DEF Crash, Halt
<1> QED BY <1>1, <1>2, <1>3, <1>4, <1>5, <1>6, <1>7, <1>8, <1>9, <1>10, <1>11, <1>12,
    <1>13, <1>14, <1>15, <1>16, <1>17, <1>18, <1>19, <1>20 DEF Step

LEMMA ForgottenKept ==
  ASSUME IInv, NEW p \in Procs, NEW u \in Uids, NEW f \in BOOLEAN, NEW w \in WakeUpGC,
         Step(p, u, f, w), UNCHANGED grouped
  PROVE  Forgotten'
<1> USE DEF IInv, Simple, Forgotten, procVars, gcVars, watchVars, Idle
<1>1. CASE PutUid(p, u)  BY <1>1 DEF PutUid, Request, Lock
<1>2. CASE HasUid(p, u)  BY <1>2 DEF HasUid, Request, Lock
<1>3. CASE GetUidRelease(p, u)  BY <1>3 DEF GetUidRelease, Request, Unlock
<1>4. CASE RemoveUid(p, u, f)  BY <1>4 DEF RemoveUid, Request
<1>5. CASE ReleaseAll(p)  BY <1>5 DEF ReleaseAll
<1>6. CASE Exit(p)  BY <1>6 DEF Exit
<1>7. CASE AddRunningProcess(p)  BY <1>7 DEF AddRunningProcess
<1>8. CASE PickOut  BY <1>8 DEF PickOut
<1>9. CASE DropCooperative(p)  BY <1>9 DEF DropCooperative
<1>10. CASE AddRunningFromDB  BY <1>10 DEF AddRunningFromDB
<1>11. CASE SkipItem  BY <1>11 DEF SkipItem
<1>12. CASE CheckAlive  BY <1>12 DEF CheckAlive, Check
<1>13. CASE CheckDead  BY <1>13 DEF CheckDead, Check
<1>14. CASE CheckAborts  BY <1>14 DEF CheckAborts, Halt
<1>15. CASE GcPick(w)  BY <1>15 DEF GcPick
<1>16. CASE ReleaseACs  BY <1>16 DEF ReleaseACs
<1>17. CASE ReleaseACsInPart  BY <1>17 DEF ReleaseACsInPart
<1>18. CASE CleanUid(u)  BY <1>18 DEF CleanUid
<1>19. CASE CleanEnd  BY <1>19 DEF CleanEnd
<1>20. CASE Crash  BY <1>20 DEF Crash, Halt
<1> QED BY <1>1, <1>2, <1>3, <1>4, <1>5, <1>6, <1>7, <1>8, <1>9, <1>10, <1>11, <1>12,
    <1>13, <1>14, <1>15, <1>16, <1>17, <1>18, <1>19, <1>20 DEF Step

LEMMA TablesKept ==
  ASSUME IInv, NEW p \in Procs, NEW u \in Uids, NEW f \in BOOLEAN, NEW w \in WakeUpGC,
         Step(p, u, f, w), UNCHANGED grouped
  PROVE  Tables' /\ OneRow' /\ OneTask'
<1>a. Tables /\ OneRow /\ OneTask
  BY DEF IInv
<1>1. CASE InsertRunningProc(p)
  BY <1>1, <1>a, TablesInsert
<1>2. CASE \E r : DropDeadProc(r)
  BY <1>2, <1>a, TablesDrop
<1>3. CASE /\ tasks' = Restrict(tasks, DOMAIN tasks \ DeadTasks)
           /\ UNCHANGED <<running, link>>
  BY <1>3, <1>a, TablesReap
<1>4. CASE \E done : /\ tasks' = Restrict(tasks, DOMAIN tasks \ done)
                     /\ UNCHANGED <<running, link>>
  BY <1>4, <1>a, TablesReap
<1>5. CASE UNCHANGED tableVars
  BY <1>5, <1>a, TablesSame
<1>6. \/ InsertRunningProc(p) \/ UNCHANGED tableVars \/ \E r : DropDeadProc(r)
      \/ /\ tasks' = Restrict(tasks, DOMAIN tasks \ DeadTasks)
         /\ UNCHANGED <<running, link>>
      \/ \E done : /\ tasks' = Restrict(tasks, DOMAIN tasks \ done)
                   /\ UNCHANGED <<running, link>>
  BY DEF Step, PutUid, HasUid, GetUidRelease, RemoveUid, ReleaseAll, Exit, AddRunningProcess, PickOut,
    DropCooperative, AddRunningFromDB, SkipItem, CheckAlive, CheckDead, CheckAborts, GcPick,
    ReleaseACs, ReleaseACsInPart, CleanUid, CleanEnd, Crash
<1> QED BY <1>1, <1>2, <1>3, <1>4, <1>5, <1>6

LEMMA CountedKept ==
  ASSUME IInv, NEW p \in Procs, NEW u \in Uids, NEW f \in BOOLEAN, NEW w \in WakeUpGC,
         Step(p, u, f, w), UNCHANGED grouped
  PROVE  Counted'
<1>a. Counted /\ TaskOf(p) \in Nat
  BY TaskOfIs DEF IInv
<1>1. CASE Lock(p, u) /\ acs' = acs \cup {u}
  BY <1>1, <1>a, CountedLock
<1>2. CASE Unlock(p, u) /\ UNCHANGED acs
  BY <1>2, <1>a, CountedUnlock
<1>3. CASE RemoveUidNested(u)
  BY <1>3, <1>a, CountedRemove
<1>4. CASE \E qs : qs \subseteq requests /\ Give(qs) /\ UNCHANGED acs
  BY <1>4, <1>a, CountedGive
<1>5. CASE UNCHANGED useVars
  BY <1>5, <1>a, CountedSame
<1>6. CASE ReleaseACs
  <2>1. RequestsOf(DeadTasks) \subseteq requests /\ Give(RequestsOf(DeadTasks)) /\ UNCHANGED acs
    BY <1>6 DEF ReleaseACs, RequestsOf
  <2> QED BY <1>4, <2>1
<1>7. CASE ReleaseACsInPart
  <2>1. PICK done \in SUBSET DeadTasks, t \in DeadTasks :
          \E part \in SUBSET RequestsOf({t}) : Give(RequestsOf(done) \cup part)
    BY <1>7 DEF ReleaseACsInPart
  <2>2. PICK part \in SUBSET RequestsOf({t}) : Give(RequestsOf(done) \cup part)
    BY <2>1
  <2>3. RequestsOf(done) \cup part \subseteq requests /\ UNCHANGED acs
    BY <1>7, <2>2 DEF ReleaseACsInPart, RequestsOf
  <2> QED BY <1>4, <2>2, <2>3
<1>8. \/ Lock(p, u) /\ acs' = acs \cup {u}
      \/ Unlock(p, u) /\ UNCHANGED acs
      \/ RemoveUidNested(u) \/ UNCHANGED useVars \/ ReleaseACs \/ ReleaseACsInPart
  BY DEF Step, useVars, PutUid, HasUid, GetUidRelease, RemoveUid, ReleaseAll, Exit, AddRunningProcess,
    PickOut, DropCooperative, AddRunningFromDB, SkipItem, CheckAlive, CheckDead, CheckAborts, GcPick,
    CleanUid, CleanEnd, Crash
<1> QED BY <1>1, <1>2, <1>3, <1>5, <1>6, <1>7, <1>8

LEMMA KeptKept ==
  ASSUME IInv, NEW p \in Procs, NEW u \in Uids, NEW f \in BOOLEAN, NEW w \in WakeUpGC,
         Step(p, u, f, w), UNCHANGED grouped
  PROVE  Kept'
<1>a. Tables /\ OneRow /\ OneTask /\ Kept /\ Counted /\ Forgotten /\ locked \subseteq Procs \X Uids
      /\ stage \in [Procs -> {"alive", "released", "dead"}]
  BY DEF IInv, Simple
<1>1. CASE PutUid(p, u) \/ HasUid(p, u)
  BY <1>1, <1>a, KeptLock DEF PutUid, HasUid
<1>2. CASE GetUidRelease(p, u)
  BY <1>2, <1>a, KeptUnlock DEF GetUidRelease
<1>3. ASSUME count[u] = 0, NEW l \in locked, ~ mixed PROVE l[2] # u
  <2>1. PICK r \in DOMAIN running : <<link[r], l[2]>> \in requests
    BY <1>3, <1>a DEF Kept, Requested
  <2>2. Of(requests, u) = {}
    BY <1>3, <1>a, FS_Subset, FS_EmptySet DEF Counted, CountsMatch, Of
  <2> QED BY <2>1, <2>2 DEF Of
<1>4. CASE RemoveUid(p, u, f)
  <2>1. /\ RemoveUidNested(u) /\ UNCHANGED <<tableVars, mixed>> /\ (f \/ count[u] = 0)
        /\ locked' = IF f THEN locked \ (Procs \X {u}) ELSE locked
    BY <1>4 DEF RemoveUid
  <2>2. \A l \in locked' : ~ mixed => l[2] # u
    <3>1. CASE f
      BY <1>a, <2>1, <3>1
    <3>2. CASE ~ f
      BY <1>3, <2>1, <3>2
    <3> QED BY <3>1, <3>2
  <2>3. locked' \subseteq locked
    BY <2>1
  <2> QED BY <1>a, <2>1, <2>2, <2>3, KeptRemove
<1>5. CASE CleanUid(u)
  <2>1. RemoveUidNested(u) /\ UNCHANGED <<tableVars, mixed, locked>> /\ count[u] = 0
    BY <1>5 DEF CleanUid, procVars
  <2> QED BY <1>3, <1>a, <2>1, KeptRemove
<1>6. CASE DropCooperative(p)
  <2> DEFINE rows == {r \in DOMAIN running : running[r] = p}
  <2>1. /\ p \in watch.todo /\ UNCHANGED <<requests, locked, mixed>>
        /\ rows = {} => UNCHANGED tableVars
        /\ rows # {} => DropDeadProc(Max(rows))
    BY <1>6 DEF DropCooperative, useVars, procVars
  <2>2. CASE rows = {}
    BY <1>a, <2>1, <2>2, KeptFewer
  <2>3. CASE rows # {}
    <3>1. Bounded(rows)
      BY <1>a, BoundedLess DEF Tables
    <3>2. Max(rows) \in rows
      BY <2>3, <3>1, MaxIn
    <3>3. \A l \in locked : l[1] # running[Max(rows)]
      BY <1>a, <2>1, <3>2 DEF Forgotten
    <3> QED BY <1>a, <2>1, <2>3, <3>2, <3>3, KeptDrop
  <2> QED BY <2>2, <2>3
<1>7. CASE CheckDead
  <2> DEFINE r == watch.item.row
  <2>1. /\ r \in DOMAIN running /\ stage[watch.item.proc] = "dead" /\ DropDeadProc(r)
        /\ UNCHANGED <<requests, locked>>
    BY <1>7, <1>a DEF CheckDead, useVars, procVars, Tables
  <2>2. (mixed => mixed') /\ (~ mixed' => running[r] = watch.item.proc)
    BY <1>7 DEF CheckDead
  <2>3. ~ mixed' => \A l \in locked : l[1] # running[r]
    BY <1>a, <2>1, <2>2 DEF Forgotten
  <2> QED BY <1>a, <2>1, <2>2, <2>3, KeptDrop
<1>8. CASE ReleaseACs
  <2>1. /\ Give(RequestsOf(DeadTasks)) /\ tasks' = Restrict(tasks, DOMAIN tasks \ DeadTasks)
        /\ UNCHANGED <<running, link, locked, mixed>>
    BY <1>8 DEF ReleaseACs, procVars
  <2> QED BY <1>a, <2>1, KeptReap
<1>9. CASE ReleaseACsInPart
  <2>1. PICK done \in SUBSET DeadTasks, t \in DeadTasks :
          \E part \in SUBSET RequestsOf({t}) :
            /\ Give(RequestsOf(done) \cup part)
            /\ tasks' = Restrict(tasks, DOMAIN tasks \ done)
    BY <1>9 DEF ReleaseACsInPart
  <2>2. PICK part \in SUBSET RequestsOf({t}) : Give(RequestsOf(done) \cup part)
    BY <2>1
  <2>3. RequestsOf(done) \cup part \subseteq RequestsOf(DeadTasks)
    BY <2>1, <2>2 DEF RequestsOf
  <2>4. UNCHANGED <<running, link, locked, mixed>>
    BY <1>9 DEF ReleaseACsInPart, procVars
  <2> QED BY <1>a, <2>1, <2>2, <2>3, <2>4, KeptReap
<1>10. CASE locked' \subseteq locked /\ UNCHANGED <<tableVars, requests, mixed>>
  BY <1>10, <1>a, KeptFewer
<1>11. CASE ReleaseAll(p) \/ Exit(p) \/ AddRunningProcess(p) \/ PickOut \/ AddRunningFromDB
            \/ SkipItem \/ CheckAlive \/ CheckAborts \/ GcPick(w) \/ CleanEnd \/ Crash
  <2>1. locked' \subseteq locked /\ UNCHANGED <<tableVars, requests, mixed>>
    BY <1>11 DEF procVars, useVars, ReleaseAll, Exit, AddRunningProcess, PickOut, AddRunningFromDB,
      SkipItem, CheckAlive, CheckAborts, GcPick, CleanEnd, Crash
  <2> QED BY <1>10, <2>1
<1> QED BY <1>1, <1>2, <1>4, <1>5, <1>6, <1>7, <1>8, <1>9, <1>11 DEF Step

LEMMA InitInv == Init => IInv
<1> SUFFICES ASSUME Init PROVE IInv
  OBVIOUS
<1>1. /\ DOMAIN running = {} /\ DOMAIN tasks = {} /\ DOMAIN link = {} /\ requests = {} /\ acs = {}
      /\ locked = {} /\ coop = {} /\ watch.todo = {} /\ count = [u \in Uids |-> 0]
  BY DEF Init, Idle
<1>2. Simple
  <2>1. grouped \in Groupings /\ MaxRequests[grouped] \in Nat /\ MaxCrashes \in Nat
    BY BoundsAssumption DEF Init
  <2>2. left \in 0 .. MaxRequests[grouped] /\ crashes \in 0 .. MaxCrashes
    BY <2>1 DEF Init
  <2>3. stage \in [Procs -> {"alive", "released", "dead"}] /\ locked \subseteq Procs \X Uids
    BY DEF Init
  <2> QED BY <2>1, <2>2, <2>3 DEF Init, Simple
<1>3. Tables /\ OneRow /\ OneTask
  BY <1>1 DEF Tables, OneRow, OneTask, Bounded
<1>4. Counted
  <2>1. ASSUME NEW u \in Uids PROVE {q \in requests : q[2] = u} = {}
    BY <1>1
  <2> QED BY <1>1, <2>1, FS_EmptySet DEF Counted, CountsMatch
<1>5. Forgotten /\ Kept
  BY <1>1 DEF Forgotten, Kept
<1> QED BY <1>2, <1>3, <1>4, <1>5 DEF IInv

LEMMA NextInv == IInv /\ [Next]_<<grouped, vars>> => IInv'
<1> SUFFICES ASSUME IInv, [Next]_<<grouped, vars>> PROVE IInv'
  OBVIOUS
<1>1. ASSUME NEW p \in Procs, NEW u \in Uids, NEW f \in BOOLEAN, NEW w \in WakeUpGC,
             Step(p, u, f, w), UNCHANGED grouped
      PROVE  IInv'
  BY <1>1, SimpleKept, ForgottenKept, TablesKept, CountedKept, KeptKept DEF IInv
<1>2. CASE UNCHANGED <<grouped, vars>>
  <2>1. Simple' /\ Forgotten'
    BY <1>2 DEF IInv, Simple, Forgotten, vars, procVars, watchVars, gcVars
  <2>2. Tables' /\ OneRow' /\ OneTask'
    BY <1>2, TablesSame DEF IInv, vars
  <2>3. Counted'
    BY <1>2, CountedSame DEF IInv, vars
  <2>4. Kept'
    BY <1>2, KeptFewer DEF IInv, vars, procVars, useVars
  <2> QED BY <2>1, <2>2, <2>3, <2>4 DEF IInv
<1>3. CASE Next
  <2>1. PICK p \in Procs, u \in Uids, f \in BOOLEAN, w \in WakeUpGC : Step(p, u, f, w)
    <3>1. Procs # {} /\ Uids # {} /\ WakeUpGC # {} /\ TRUE \in BOOLEAN
      BY SomeAssumption DEF WakeUpGC
    <3>2. CASE Clients
      BY <3>1, <3>2 DEF Clients, Step
    <3>3. CASE Watch \/ Crash \/ \E p \in Procs : AddRunningProcess(p)
      BY <3>1, <3>3 DEF Watch, Step
    <3>4. CASE Collect
      BY <3>1, <3>4 DEF Collect, Step
    <3> QED BY <1>3, <3>2, <3>3, <3>4 DEF Next
  <2> QED BY <1>1, <1>3, <2>1 DEF Next
<1> QED BY <1>2, <1>3

-----------------------------------------------------------------------------
(* The inductive invariant holds in every state.                           *)
THEOREM Invariant == Spec => []IInv
BY InitInv, NextInv, PTL DEF Spec

(* The state of the cache has its types; in particular no count goes below *)
(* zero.                                                                   *)
THEOREM TypesHold == Spec => []ACLocksTypeOK
<1>1. IInv => ACLocksTypeOK
  <2> SUFFICES ASSUME IInv PROVE ACLocksTypeOK
    OBVIOUS
  <2>1. TypeRow(running) /\ TypeRow(tasks) /\ TypeRow(link)
    BY BoundedFinite DEF IInv, Tables, TypeRow, Bounded
  <2>2. coop \subseteq Procs
    BY DEF IInv, Forgotten
  <2>3. \A t \in DOMAIN tasks : tasks[t].alive \in BOOLEAN
    BY DEF IInv, Tables
  <2> QED BY <2>1, <2>2, <2>3 DEF IInv, Simple, Tables, Counted, ACLocksTypeOK
<1> QED BY <1>1, Invariant, PTL

(* request_count is the number of requests, whatever handlers, the         *)
(* collector and crashes do in between.                                    *)
THEOREM CountsMatchHolds == Spec => []CountsMatch
<1>1. IInv => CountsMatch
  BY DEF IInv, Counted
<1> QED BY <1>1, Invariant, PTL

(* The collector, the removal of dead processes and an unlock by another   *)
(* build never take what a running build has locked.                       *)
THEOREM LockedStaysHolds == Spec => []LockedStays
<1>1. IInv => LockedStays
  <2> SUFFICES ASSUME IInv, ~ mixed, NEW l \in locked
               PROVE  l[2] \in acs /\ count[l[2]] > 0
    BY DEF LockedStays
  <2>1. PICK r \in DOMAIN running : <<link[r], l[2]>> \in requests
    BY DEF IInv, Kept, Requested
  <2>2. l[2] \in Uids /\ l[2] \in acs
    BY <2>1 DEF IInv, Counted, CountsMatch
  <2>3. IsFiniteSet(Of(requests, l[2])) /\ Of(requests, l[2]) # {}
    BY <2>1, FS_Subset DEF IInv, Counted, Of
  <2>4. Cardinality(Of(requests, l[2])) \in Nat /\ Cardinality(Of(requests, l[2])) # 0
    BY <2>3, FS_CardinalityType, FS_EmptySet
  <2>5. count[l[2]] = Cardinality(Of(requests, l[2]))
    BY <2>2 DEF IInv, Counted, CountsMatch, Of
  <2> QED BY <2>2, <2>4, <2>5
<1> QED BY <1>1, Invariant, PTL
=============================================================================
