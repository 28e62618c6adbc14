------------------------------ MODULE PoolProofs ------------------------------
(***************************************************************************)
(* The worker pool never lets more run than its cap allows and loses count *)
(* of nothing; with the caps of the runner, a test that requires all the   *)
(* processors is alone.                                                    *)
(***************************************************************************)
EXTENDS WorkerThreads, RunnerCap, FiniteSetTheorems, SequenceTheorems, TLAPS

Frame == [job : Job \cup {None}, todo : SUBSET Job]

(* Where a thread is, and what that says of the jobs it is in.             *)
WorkerAt == {"run", "check", "look", "wait", "release", "dead"}
MainAt   == {"run", "next", "stop", "join", "joining", "over"}

Typed ==
  /\ queued \subseteq Job \ Inplace /\ usage \in [Resource -> Int] /\ active \in Nat
  /\ outq \in Seq({"ok", "exc"}) /\ stopped \in BOOLEAN
  /\ adding \in [Thread -> Job \cup {None}]
  /\ calls \in [Thread -> Seq(Frame)]
  /\ pc \in [Thread -> WorkerAt \cup MainAt]

Placed ==
  /\ \A w \in Worker :
       /\ pc[w] \in WorkerAt
       /\ pc[w] \in {"run", "release"} <=> calls[w] # <<>>
       /\ pc[w] = "release" => Len(calls[w]) = 1
       /\ \A k \in DOMAIN calls[w] : calls[w][k].job # None
  /\ pc[Main] \in MainAt /\ calls[Main] # <<>>
  /\ \A k \in DOMAIN calls[Main] : calls[Main][k].job = None <=> k = Len(calls[Main])
  /\ \A th \in Thread : adding[th] # None => pc[th] = "run"
  /\ stopped <=> pc[Main] \in {"join", "joining", "over"}

(* A job is added once.  U is what has been added: it waits, or somebody   *)
(* is in it or was.  What a job will add is not in U before it runs.       *)
Waiting == {j \in Job : j \in queued \/ \E th \in Thread : adding[th] = j}

Once(U) ==
  /\ queued \subseteq U
  /\ \A th \in Thread : adding[th] # None => adding[th] \in U \ queued
  /\ \A a, b \in Thread : adding[a] = adding[b] /\ adding[a] # None => a = b
  /\ \A th \in Thread : \A k \in DOMAIN calls[th] :
       LET f == calls[th][k]
       IN  /\ f.todo \subseteq Call(f.job).todo /\ f.todo \cap U = {}
           /\ f.job # None => f.job \in U /\ f.job \notin Waiting
  /\ \A a, b \in Thread : \A i \in DOMAIN calls[a], j \in DOMAIN calls[b] :
       calls[a][i].job = calls[b][j].job => a = b /\ i = j
  /\ \A j \in Job : j \notin U \/ j \in Waiting => Adds[j] \cap U = {}

AddedJobs == \E U \in SUBSET Job : Once(U)

Counted ==
  /\ \A r \in Resource : IsFiniteSet(Cells(Load(r)))
  /\ IsFiniteSet(Cells(InProgress))
  /\ CapRespected /\ ActiveCounts

PoolInv == Typed /\ Placed /\ AddedJobs /\ Counted
-----------------------------------------------------------------------------
(* Sums. *)

LEMMA RowCount ==
  ASSUME NEW x, NEW n \in Nat
  PROVE  IsFiniteSet({x} \X (1 .. n)) /\ Cardinality({x} \X (1 .. n)) = n
<1> DEFINE row == [i \in 1 .. n |-> <<x, i>>]
<1>1. row \in Bijection(1 .. n, {x} \X (1 .. n))
  <2>1. row \in [1 .. n -> {x} \X (1 .. n)]
    OBVIOUS
  <2>2. \A i, j \in 1 .. n : row[i] = row[j] => i = j
    OBVIOUS
  <2>3. \A e \in {x} \X (1 .. n) : e[2] \in 1 .. n /\ row[e[2]] = e
    OBVIOUS
  <2> HIDE DEF row
  <2>4. row \in Injection(1 .. n, {x} \X (1 .. n))
    BY <2>1, <2>2 DEF Injection, IsInjective
  <2>5. row \in Surjection(1 .. n, {x} \X (1 .. n))
    <3>1. \A e \in {x} \X (1 .. n) : \E i \in 1 .. n : row[i] = e
      BY <2>3
    <3> QED
      BY <2>1, <3>1 DEF Surjection
  <2> QED
    BY <2>4, <2>5 DEF Bijection
<1>2. ExistsBijection(1 .. n, {x} \X (1 .. n))
  BY <1>1 DEF ExistsBijection
<1>3. IsFiniteSet(1 .. n) /\ Cardinality(1 .. n) = n
  BY FS_Interval
<1> QED
  BY <1>2, <1>3, FS_Bijection

(* The sum changes by what one summand changes.                            *)
LEMMA TotalChanges ==
  ASSUME NEW S, NEW f \in [S -> Nat], NEW g \in [S -> Nat], NEW x \in S,
         \A y \in S : y # x => g[y] = f[y], IsFiniteSet(Cells(f))
  PROVE  IsFiniteSet(Cells(g)) /\ Total(f) \in Nat /\ Total(g) = Total(f) - f[x] + g[x]
<1> DEFINE rest == UNION {{y} \X (1 .. f[y]) : y \in S \ {x}}
           row(n) == {x} \X (1 .. n)
<1>1. Cells(f) = rest \cup row(f[x]) /\ Cells(g) = rest \cup row(g[x])
  BY Zenon DEF Cells
<1>2. rest \cap row(f[x]) = {} /\ rest \cap row(g[x]) = {}
  OBVIOUS
<1>3. IsFiniteSet(rest)
  BY <1>1, FS_Subset
<1>4. /\ IsFiniteSet(row(f[x])) /\ Cardinality(row(f[x])) = f[x]
      /\ IsFiniteSet(row(g[x])) /\ Cardinality(row(g[x])) = g[x]
  BY RowCount
<1> HIDE DEF rest, row
<1>5. /\ IsFiniteSet(Cells(f)) /\ Cardinality(Cells(f)) = Cardinality(rest) + f[x]
      /\ IsFiniteSet(Cells(g)) /\ Cardinality(Cells(g)) = Cardinality(rest) + g[x]
  <2>1. ASSUME NEW n \in Nat, IsFiniteSet(row(n)), Cardinality(row(n)) = n, rest \cap row(n) = {}
        PROVE  IsFiniteSet(rest \cup row(n)) /\ Cardinality(rest \cup row(n)) = Cardinality(rest) + n
    <3>1. Cardinality(rest \cap row(n)) = 0
      BY <2>1, FS_EmptySet
    <3>2. Cardinality(rest) \in Nat
      BY <1>3, FS_CardinalityType
    <3>3. /\ IsFiniteSet(rest \cup row(n))
          /\ Cardinality(rest \cup row(n))
               = Cardinality(rest) + Cardinality(row(n)) - Cardinality(rest \cap row(n))
      BY <1>3, <2>1, FS_Union
    <3> QED
      BY <2>1, <3>1, <3>2, <3>3
  <2> QED
    BY <1>1, <1>2, <1>4, <2>1
<1>6. Cardinality(rest) \in Nat
  BY <1>3, FS_CardinalityType
<1> QED
  BY <1>5, <1>6 DEF Total

LEMMA TotalOfZero ==
  ASSUME NEW S, NEW f \in [S -> Nat], \A x \in S : f[x] = 0
  PROVE  IsFiniteSet(Cells(f)) /\ Total(f) = 0
<1>1. Cells(f) = {}
  BY DEF Cells
<1> QED
  BY <1>1, FS_EmptySet DEF Total

LEMMA TotalNat ==
  ASSUME NEW f, IsFiniteSet(Cells(f))
  PROVE  Total(f) \in Nat
BY FS_CardinalityType DEF Total

-----------------------------------------------------------------------------
(* Types. *)

LEMMA PoolTyped ==
  /\ IsFiniteSet(Job) /\ Need \in [Job -> [Resource -> Nat]] /\ Adds \in [Job -> SUBSET Job]
  /\ MainJobs \subseteq Job /\ Inplace \subseteq Job /\ Caps \subseteq [Resource -> Nat]
  /\ Caps # {} /\ Main \notin Worker /\ None \notin Job
BY PoolAssumption DEF Res

LEMMA CallTyped ==
  ASSUME NEW j \in Job \cup {None}
  PROVE  /\ Call(j) \in Frame /\ Call(j).job = j
         /\ j # None => Call(j).todo = Adds[j]
         /\ j = None => Call(j).todo = MainJobs
BY PoolTyped DEF Call, Frame

(* Two calls of different jobs add nothing in common.                      *)
LEMMA CallsAddApart ==
  ASSUME NEW i \in Job \cup {None}, NEW j \in Job \cup {None}, i # j
  PROVE  Call(i).todo \cap Call(j).todo = {}
BY AddedOnce, CallTyped

LEMMA LenOf ==
  ASSUME NEW S, NEW s \in Seq(S)
  PROVE  /\ Len(s) \in Nat /\ DOMAIN s = 1 .. Len(s)
         /\ s = <<>> => Len(s) = 0
         /\ s # <<>> => Len(s) >= 1
OBVIOUS

LEMMA Prepended ==
  ASSUME NEW S, NEW e \in S, NEW s \in Seq(S)
  PROVE  /\ <<e>> \o s \in Seq(S) /\ Len(<<e>> \o s) = Len(s) + 1
         /\ (<<e>> \o s)[1] = e
         /\ \A k \in DOMAIN s : (<<e>> \o s)[k + 1] = s[k]
         /\ \A k \in DOMAIN (<<e>> \o s) : k # 1 => k - 1 \in DOMAIN s /\ (<<e>> \o s)[k] = s[k - 1]
OBVIOUS

LEMMA TailOf ==
  ASSUME NEW S, NEW s \in Seq(S), s # <<>>
  PROVE  /\ Tail(s) \in Seq(S) /\ Len(Tail(s)) = Len(s) - 1
         /\ \A k \in DOMAIN Tail(s) : k + 1 \in DOMAIN s /\ Tail(s)[k] = s[k + 1]
OBVIOUS

(* A notification moves at most one sleeper, and no one else.              *)
LEMMA NotifyDoes ==
  ASSUME NEW at \in [Thread -> WorkerAt \cup MainAt], Notify(at)
  PROVE  /\ pc' \in [Thread -> WorkerAt \cup MainAt]
         /\ \A th \in Thread :
              \/ pc'[th] = at[th]
              \/ th \in Worker /\ at[th] = "wait" /\ pc'[th] = "check"
<1>1. CASE Asleep(at) = {}
  BY <1>1 DEF Notify
<1>2. CASE Asleep(at) # {}
  <2>1. PICK w \in Asleep(at) : pc' = [at EXCEPT ![w] = "check"]
    BY <1>2 DEF Notify
  <2>2. w \in Worker /\ w \in Thread /\ at[w] = "wait"
    BY DEF Asleep, Thread
  <2> QED
    BY <2>1, <2>2 DEF WorkerAt
<1> QED
  BY <1>1, <1>2
-----------------------------------------------------------------------------
(* What the steps do to the calls of a thread. *)

LEMMA InCall ==
  ASSUME Typed, Placed, NEW th \in Thread, pc[th] = "run"
  PROVE  /\ calls[th] \in Seq(Frame) /\ calls[th] # <<>> /\ 1 \in DOMAIN calls[th]
         /\ Head(calls[th]) = calls[th][1] /\ calls[th][1] \in Frame
<1>1. calls[th] \in Seq(Frame) /\ calls[th] # <<>>
  BY DEF Typed, Placed, Thread
<1> QED
  BY <1>1

LEMMA AddCheckDoes ==
  ASSUME Typed, Placed, NEW th \in Thread, NEW j \in Job, AddCheck(th, j)
  PROVE  /\ pc[th] = "run" /\ adding[th] = None /\ j \in calls[th][1].todo /\ 1 \in DOMAIN calls[th]
         /\ adding' \in [Thread -> Job \cup {None}] /\ adding'[th] = j
         /\ \A a \in Thread : a # th => adding'[a] = adding[a]
         /\ calls' \in [Thread -> Seq(Frame)] /\ \A a \in Thread : a # th => calls'[a] = calls[a]
         /\ Len(calls'[th]) = Len(calls[th]) /\ DOMAIN calls'[th] = DOMAIN calls[th]
         /\ calls'[th] # <<>>
         /\ \A k \in DOMAIN calls[th] :
              /\ calls'[th][k].job = calls[th][k].job
              /\ k = 1 => calls'[th][k].todo = calls[th][k].todo \ {j}
              /\ k # 1 => calls'[th][k].todo = calls[th][k].todo
<1> DEFINE s == calls[th]
           f == [s[1] EXCEPT !.todo = @ \ {j}]
<1>1. /\ pc[th] = "run" /\ adding[th] = None /\ j \in Head(s).todo
      /\ adding' = [adding EXCEPT ![th] = j]
      /\ calls' = [calls EXCEPT ![th][1].todo = @ \ {j}]
  BY DEF AddCheck
<1>2. s \in Seq(Frame) /\ s # <<>> /\ 1 \in DOMAIN s /\ Head(s) = s[1] /\ s[1] \in Frame
  BY <1>1, InCall
<1>3. f \in Frame /\ f.job = s[1].job /\ f.todo = s[1].todo \ {j}
  BY <1>2 DEF Frame
<1>4. adding \in [Thread -> Job \cup {None}] /\ calls \in [Thread -> Seq(Frame)]
  BY DEF Typed
<1>5. calls' = [calls EXCEPT ![th] = [s EXCEPT ![1] = f]]
  BY <1>1, Zenon
<1> HIDE DEF f
<1>6. /\ [s EXCEPT ![1] = f] \in Seq(Frame) /\ Len([s EXCEPT ![1] = f]) = Len(s)
      /\ DOMAIN [s EXCEPT ![1] = f] = DOMAIN s
      /\ \A k \in DOMAIN s : [s EXCEPT ![1] = f][k] = IF k = 1 THEN f ELSE s[k]
  BY <1>2, <1>3
<1>7. calls'[th] = [s EXCEPT ![1] = f] /\ calls' \in [Thread -> Seq(Frame)]
  BY <1>4, <1>5, <1>6
<1>8. /\ Len(calls'[th]) = Len(s) /\ DOMAIN calls'[th] = DOMAIN s /\ calls'[th] # <<>>
      /\ \A k \in DOMAIN s :
           /\ calls'[th][k].job = s[k].job
           /\ k = 1 => calls'[th][k].todo = s[k].todo \ {j}
           /\ k # 1 => calls'[th][k].todo = s[k].todo
  <2>1. Len(calls'[th]) = Len(s) /\ DOMAIN calls'[th] = DOMAIN s
    BY <1>6, <1>7
  <2>2. \A k \in DOMAIN s : calls'[th][k] = IF k = 1 THEN f ELSE s[k]
    BY <1>6, <1>7
  <2>3. calls'[th] # <<>>
    BY <1>2, <2>1
  <2> QED
    BY <1>3, <2>1, <2>2, <2>3
<1>9. \A a \in Thread : a # th => calls'[a] = calls[a]
  BY <1>4, <1>5
<1>10. /\ adding' \in [Thread -> Job \cup {None}] /\ adding'[th] = j
       /\ \A a \in Thread : a # th => adding'[a] = adding[a]
  BY <1>1, <1>4
<1>11. j \in s[1].todo
  BY <1>1, <1>2
<1> QED
  BY <1>1, <1>2, <1>7, <1>8, <1>9, <1>10, <1>11

LEMMA AddInplaceDoes ==
  ASSUME Typed, Placed, NEW th \in Thread, AddInplace(th)
  PROVE  /\ adding[th] \in Job /\ pc[th] = "run"
         /\ adding' \in [Thread -> Job \cup {None}] /\ adding'[th] = None
         /\ \A a \in Thread : a # th => adding'[a] = adding[a]
         /\ calls' \in [Thread -> Seq(Frame)] /\ \A a \in Thread : a # th => calls'[a] = calls[a]
         /\ Len(calls'[th]) = Len(calls[th]) + 1 /\ calls'[th] # <<>>
         /\ calls'[th][1] = Call(adding[th])
         /\ \A k \in DOMAIN calls[th] : calls'[th][k + 1] = calls[th][k]
         /\ \A k \in DOMAIN calls'[th] :
              k # 1 => k - 1 \in DOMAIN calls[th] /\ calls'[th][k] = calls[th][k - 1]
<1>1. /\ adding[th] \in Inplace /\ adding' = [adding EXCEPT ![th] = None]
      /\ calls' = [calls EXCEPT ![th] = <<Call(adding[th])>> \o @]
  BY DEF AddInplace
<1>2. adding[th] \in Job /\ adding[th] # None
  BY <1>1, PoolTyped
<1>3. pc[th] = "run" /\ calls[th] \in Seq(Frame)
  BY <1>2 DEF Placed, Typed
<1>4. Call(adding[th]) \in Frame
  BY <1>2, CallTyped
<1>5. calls'[th] = <<Call(adding[th])>> \o calls[th]
  BY <1>1 DEF Typed
<1>6. calls'[th] \in Seq(Frame)
  BY <1>3, <1>4, <1>5, Prepended
<1>7. calls' \in [Thread -> Seq(Frame)] /\ \A a \in Thread : a # th => calls'[a] = calls[a]
  BY <1>1, <1>5, <1>6 DEF Typed
<1>8. Len(calls'[th]) = Len(calls[th]) + 1 /\ calls'[th][1] = Call(adding[th])
  BY <1>3, <1>4, <1>5, Prepended
<1>9. /\ \A k \in DOMAIN calls[th] : calls'[th][k + 1] = calls[th][k]
      /\ \A k \in DOMAIN calls'[th] :
              k # 1 => k - 1 \in DOMAIN calls[th] /\ calls'[th][k] = calls[th][k - 1]
  <2>1. /\ \A k \in DOMAIN calls[th] : (<<Call(adding[th])>> \o calls[th])[k + 1] = calls[th][k]
        /\ \A k \in DOMAIN (<<Call(adding[th])>> \o calls[th]) :
             k # 1 => /\ k - 1 \in DOMAIN calls[th]
                      /\ (<<Call(adding[th])>> \o calls[th])[k] = calls[th][k - 1]
    BY <1>3, <1>4, Prepended
  <2> QED
    BY <1>5, <2>1
<1>10. calls'[th] # <<>>
  BY <1>3, <1>6, <1>8
<1>11. adding' \in [Thread -> Job \cup {None}] /\ adding'[th] = None
       /\ \A a \in Thread : a # th => adding'[a] = adding[a]
  BY <1>1 DEF Typed
<1> QED
  BY <1>2, <1>3, <1>7, <1>8, <1>9, <1>10, <1>11

(* A call ends: it goes, unless it is the one that a worker was given.     *)
LEMMA EndCallDoes ==
  ASSUME Typed, Placed, NEW th \in Thread, EndCall(th)
  PROVE  /\ pc[th] = "run" /\ adding[th] = None
         /\ outq' \in Seq({"ok", "exc"}) /\ Len(outq') = Len(outq) + 1
         /\ \/ /\ th \in Worker /\ Len(calls[th]) = 1 /\ calls' = calls
               /\ pc' = [pc EXCEPT ![th] = "release"]
            \/ /\ pc' = pc /\ Len(calls[th]) > 1
               /\ calls' \in [Thread -> Seq(Frame)]
               /\ \A a \in Thread : a # th => calls'[a] = calls[a]
               /\ Len(calls'[th]) = Len(calls[th]) - 1 /\ calls'[th] # <<>>
               /\ \A k \in DOMAIN calls'[th] :
                    k + 1 \in DOMAIN calls[th] /\ calls'[th][k] = calls[th][k + 1]
<1>1. /\ pc[th] = "run" /\ adding[th] = None /\ Head(calls[th]).job # None
      /\ \E x \in {"ok", "exc"} : outq' = Append(outq, x)
      /\ IF Len(calls[th]) = 1
           THEN pc' = [pc EXCEPT ![th] = "release"] /\ UNCHANGED calls
           ELSE calls' = [calls EXCEPT ![th] = Tail(@)] /\ UNCHANGED pc
  BY DEF EndCall
<1>2. /\ calls[th] \in Seq(Frame) /\ calls[th] # <<>> /\ 1 \in DOMAIN calls[th]
      /\ Head(calls[th]) = calls[th][1]
  BY <1>1, InCall
<1>3. outq' \in Seq({"ok", "exc"}) /\ Len(outq') = Len(outq) + 1
  BY <1>1 DEF Typed
<1>4. CASE Len(calls[th]) = 1
  <2>1. th # Main
    BY <1>1, <1>2, <1>4 DEF Placed
  <2> QED
    BY <1>1, <1>3, <1>4, <2>1 DEF Thread
<1>5. CASE Len(calls[th]) # 1
  <2>1. Len(calls[th]) > 1 /\ Len(calls[th]) \in Nat
    <3>1. Len(calls[th]) \in Nat /\ Len(calls[th]) >= 1
      BY <1>2, LenOf
    <3>2. \A n \in Nat : n >= 1 /\ n # 1 => n > 1
      OBVIOUS
    <3> QED
      BY <1>5, <3>1, <3>2, Zenon
  <2>2. calls' = [calls EXCEPT ![th] = Tail(calls[th])] /\ pc' = pc
    BY <1>1, <1>5
  <2>3. calls'[th] = Tail(calls[th]) /\ \A a \in Thread : a # th => calls'[a] = calls[a]
    BY <2>2 DEF Typed
  <2>4. /\ Tail(calls[th]) \in Seq(Frame) /\ Len(Tail(calls[th])) = Len(calls[th]) - 1
        /\ \A k \in DOMAIN Tail(calls[th]) :
             k + 1 \in DOMAIN calls[th] /\ Tail(calls[th])[k] = calls[th][k + 1]
    BY <1>2, TailOf
  <2>5. calls' \in [Thread -> Seq(Frame)]
    BY <2>2, <2>4 DEF Typed
  <2>6. calls'[th] # <<>>
    <3>1. Len(calls'[th]) # 0
      <4>1. \A n \in Nat : n > 1 => n - 1 # 0
        OBVIOUS
      <4> QED
        BY <2>1, <2>3, <2>4, <4>1, Zenon
    <3>2. Len(<<>>) = 0
      OBVIOUS
    <3> QED
      BY <3>1, <3>2, Zenon
  <2> QED
    BY <1>1, <1>3, <2>1, <2>2, <2>3, <2>4, <2>5, <2>6
<1> QED
  BY <1>4, <1>5
LEMMA TakeDoes ==
  ASSUME Typed, Placed, NEW w \in Worker, Take(w)
  PROVE  \E cap \in Caps : \E j \in queued :
           /\ pc[w] = "look" /\ calls[w] = <<>>
           /\ \A r \in Resource : Need[j][r] + usage[r] <= cap[r]
           /\ usage' = [r \in Resource |-> usage[r] + Need[j][r]]
           /\ queued' = queued \ {j}
           /\ calls' \in [Thread -> Seq(Frame)] /\ calls'[w] = <<Call(j)>>
           /\ \A a \in Thread : a # w => calls'[a] = calls[a]
           /\ pc' \in [Thread -> WorkerAt \cup MainAt] /\ pc'[w] = "run"
           /\ \A a \in Thread : a # w =>
                pc'[a] = pc[a] \/ (a \in Worker /\ pc[a] = "wait" /\ pc'[a] = "check")
<1>1. /\ pc[w] = "look"
      /\ \E cap \in Caps : \E H \in Heads(cap) : \E j \in BestFor(w, H) :
           /\ usage' = [r \in Resource |-> usage[r] + Need[j][r]]
           /\ queued' = queued \ {j}
           /\ calls' = [calls EXCEPT ![w] = <<Call(j)>>]
           /\ Notify([pc EXCEPT ![w] = "run"])
  BY DEF Take
<1>2. PICK cap \in Caps :
        \E H \in Heads(cap) : \E j \in BestFor(w, H) :
           /\ usage' = [r \in Resource |-> usage[r] + Need[j][r]]
           /\ queued' = queued \ {j}
           /\ calls' = [calls EXCEPT ![w] = <<Call(j)>>]
           /\ Notify([pc EXCEPT ![w] = "run"])
  BY <1>1
<1>3. PICK H \in Heads(cap) :
        \E j \in BestFor(w, H) :
           /\ usage' = [r \in Resource |-> usage[r] + Need[j][r]]
           /\ queued' = queued \ {j}
           /\ calls' = [calls EXCEPT ![w] = <<Call(j)>>]
           /\ Notify([pc EXCEPT ![w] = "run"])
  BY <1>2
<1>4. PICK j \in BestFor(w, H) :
           /\ usage' = [r \in Resource |-> usage[r] + Need[j][r]]
           /\ queued' = queued \ {j}
           /\ calls' = [calls EXCEPT ![w] = <<Call(j)>>]
           /\ Notify([pc EXCEPT ![w] = "run"])
  BY <1>3
<1>5. j \in H
  BY DEF BestFor, Highest
<1>6. j \in queued /\ Fits(Need[j], cap)
  BY <1>5 DEF Heads
<1>7. w \in Thread /\ calls[w] = <<>>
  BY <1>1 DEF Thread, Placed
<1>8. <<Call(j)>> \in Seq(Frame)
  <2>1. Call(j) \in Frame
    BY <1>6, CallTyped DEF Typed
  <2> QED
    BY <2>1
<1>9. /\ calls' \in [Thread -> Seq(Frame)] /\ calls'[w] = <<Call(j)>>
      /\ \A a \in Thread : a # w => calls'[a] = calls[a]
  BY <1>4, <1>7, <1>8 DEF Typed
<1> DEFINE at == [pc EXCEPT ![w] = "run"]
<1>10. /\ at \in [Thread -> WorkerAt \cup MainAt] /\ at[w] = "run"
       /\ \A a \in Thread : a # w => at[a] = pc[a]
  BY <1>7 DEF Typed, WorkerAt
<1>11. Notify(at)
  BY <1>4
<1> HIDE DEF at
<1>12. /\ pc' \in [Thread -> WorkerAt \cup MainAt]
       /\ \A th \in Thread :
              \/ pc'[th] = at[th]
              \/ th \in Worker /\ at[th] = "wait" /\ pc'[th] = "check"
  BY <1>10, <1>11, NotifyDoes
<1>13. pc'[w] = "run"
  BY <1>7, <1>10, <1>12
<1>14. \A a \in Thread : a # w =>
                pc'[a] = pc[a] \/ (a \in Worker /\ pc[a] = "wait" /\ pc'[a] = "check")
  BY <1>10, <1>12
<1> QED
  <2>1. \A r \in Resource : Need[j][r] + usage[r] <= cap[r]
    BY <1>6 DEF Fits
  <2> QED
    BY <1>1, <1>4, <1>6, <1>7, <1>9, <1>12, <1>13, <1>14, <2>1

LEMMA ReleaseDoes ==
  ASSUME Typed, Placed, NEW w \in Worker, Release(w)
  PROVE  /\ pc[w] = "release" /\ Len(calls[w]) = 1 /\ calls[w][1].job \in Job
         /\ usage' = [r \in Resource |-> usage[r] - Need[calls[w][1].job][r]]
         /\ calls' \in [Thread -> Seq(Frame)] /\ calls'[w] = <<>>
         /\ \A a \in Thread : a # w => calls'[a] = calls[a]
         /\ pc' \in [Thread -> WorkerAt \cup MainAt] /\ pc'[w] = "check"
         /\ \A a \in Thread : a # w =>
                pc'[a] = pc[a] \/ (a \in Worker /\ pc[a] = "wait" /\ pc'[a] = "check")
<1>1. /\ pc[w] = "release"
      /\ usage' = [r \in Resource |-> usage[r] - Need[calls[w][1].job][r]]
      /\ calls' = [calls EXCEPT ![w] = <<>>]
      /\ Notify([pc EXCEPT ![w] = "check"])
  BY DEF Release
<1>2. w \in Thread /\ Len(calls[w]) = 1 /\ calls[w] \in Seq(Frame)
  BY <1>1 DEF Thread, Placed, Typed
<1>3. 1 \in DOMAIN calls[w] /\ calls[w][1] \in Frame
  BY <1>2
<1>4. calls[w][1].job \in Job
  BY <1>3 DEF Placed, Frame
<1>5. /\ calls' \in [Thread -> Seq(Frame)] /\ calls'[w] = <<>>
      /\ \A a \in Thread : a # w => calls'[a] = calls[a]
  BY <1>1, <1>2 DEF Typed
<1> DEFINE at == [pc EXCEPT ![w] = "check"]
<1>6. /\ at \in [Thread -> WorkerAt \cup MainAt] /\ at[w] = "check"
       /\ \A a \in Thread : a # w => at[a] = pc[a]
  BY <1>2 DEF Typed, WorkerAt
<1>7. Notify(at)
  BY <1>1
<1> HIDE DEF at
<1>8. /\ pc' \in [Thread -> WorkerAt \cup MainAt]
      /\ \A th \in Thread :
              \/ pc'[th] = at[th]
              \/ th \in Worker /\ at[th] = "wait" /\ pc'[th] = "check"
  BY <1>6, <1>7, NotifyDoes
<1>9. pc'[w] = "check"
  BY <1>2, <1>6, <1>8
<1>10. \A a \in Thread : a # w =>
                pc'[a] = pc[a] \/ (a \in Worker /\ pc[a] = "wait" /\ pc'[a] = "check")
  BY <1>6, <1>8
<1> QED
  BY <1>1, <1>2, <1>4, <1>5, <1>8, <1>9, <1>10

(* The steps of main and of an idle worker that leave queue, calls and     *)
(* additions alone.                                                        *)
Quiet ==
  \/ \E w \in Worker : Check(w) \/ Sleep(w)
  \/ MainWaits \/ NextEnds \/ NextGets \/ Stop \/ NotifyAll \/ Joined \/ UNCHANGED vars

LEMMA NextCases ==
  ASSUME [Next]_vars
  PROVE  \/ \E th \in Thread : \E j \in Job : AddCheck(th, j)
         \/ \E th \in Thread : AddPush(th)
         \/ \E th \in Thread : AddInplace(th)
         \/ \E th \in Thread : EndCall(th)
         \/ \E w \in Worker : Take(w)
         \/ \E w \in Worker : Release(w)
         \/ Quiet
<1>1. CASE MainStep
  BY <1>1 DEF MainStep, AddStep, Thread, Quiet
<1>2. CASE \E w \in Worker : WorkerStep(w)
  <2>1. PICK w \in Worker : WorkerStep(w)
    BY <1>2
  <2>2. w \in Thread
    BY DEF Thread
  <2> QED
    BY <2>1, <2>2 DEF WorkerStep, AddStep, Quiet
<1>3. CASE Terminated \/ UNCHANGED vars
  BY <1>3 DEF Terminated, Quiet
<1> QED
  BY <1>1, <1>2, <1>3 DEF Next
-----------------------------------------------------------------------------
(* Types, and where the threads are. *)

LEMMA ShapeAddCheck ==
  ASSUME Typed, Placed, NEW th \in Thread, NEW j \in Job, AddCheck(th, j)
  PROVE  Typed' /\ Placed'
<1>1. /\ pc[th] = "run" /\ adding' \in [Thread -> Job \cup {None}] /\ adding'[th] = j
      /\ \A a \in Thread : a # th => adding'[a] = adding[a]
      /\ calls' \in [Thread -> Seq(Frame)] /\ \A a \in Thread : a # th => calls'[a] = calls[a]
      /\ Len(calls'[th]) = Len(calls[th]) /\ DOMAIN calls'[th] = DOMAIN calls[th]
      /\ calls'[th] # <<>>
      /\ \A k \in DOMAIN calls[th] : calls'[th][k].job = calls[th][k].job
  BY AddCheckDoes
<1>2. UNCHANGED <<queued, usage, active, outq, stopped, pc>>
  BY DEF AddCheck
<1>3. Typed'
  BY <1>1, <1>2 DEF Typed
<1>4. calls[th] # <<>>
  BY <1>1, InCall
<1>5. \A a \in Thread :
        /\ calls'[a] = <<>> <=> calls[a] = <<>>
        /\ Len(calls'[a]) = Len(calls[a]) /\ DOMAIN calls'[a] = DOMAIN calls[a]
        /\ \A k \in DOMAIN calls[a] : calls'[a][k].job = calls[a][k].job
  BY <1>1, <1>4
<1>6. \A a \in Thread : adding'[a] # None => pc[a] = "run"
  BY <1>1 DEF Placed
<1>7. Placed'
  BY <1>2, <1>5, <1>6 DEF Placed, Thread
<1> QED
  BY <1>3, <1>7

LEMMA ShapeAddPush ==
  ASSUME Typed, Placed, NEW th \in Thread, AddPush(th)
  PROVE  Typed' /\ Placed'
<1>1. /\ adding[th] # None /\ adding[th] \notin Inplace
      /\ adding' = [adding EXCEPT ![th] = None] /\ active' = active + 1
      /\ queued' = queued \cup {adding[th]}
      /\ UNCHANGED <<usage, outq, stopped, calls>>
  BY DEF AddPush
<1>2. Notify(pc) \/ UNCHANGED pc
  BY DEF AddPush
<1>3. /\ pc' \in [Thread -> WorkerAt \cup MainAt]
      /\ \A a \in Thread :
           pc'[a] = pc[a] \/ (a \in Worker /\ pc[a] = "wait" /\ pc'[a] = "check")
  <2>1. pc \in [Thread -> WorkerAt \cup MainAt]
    BY DEF Typed
  <2> QED
    BY <1>2, <2>1, NotifyDoes
<1>4. Typed'
  <2>1. adding[th] \in Job \ Inplace
    BY <1>1 DEF Typed
  <2>2. queued' \subseteq Job \ Inplace
    BY <1>1, <2>1 DEF Typed
  <2>3. active' \in Nat
    BY <1>1 DEF Typed
  <2>4. adding' \in [Thread -> Job \cup {None}]
    BY <1>1 DEF Typed
  <2> QED
    BY <1>1, <1>3, <2>2, <2>3, <2>4 DEF Typed
<1>5. \A a \in Thread : adding'[a] # None => adding[a] # None /\ pc[a] = "run"
  BY <1>1 DEF Typed, Placed
<1>6. \A a \in Thread : pc[a] # "wait" => pc'[a] = pc[a]
  BY <1>3
<1>7. \A a \in Worker : pc'[a] = pc[a] \/ (pc[a] = "wait" /\ pc'[a] = "check")
  BY <1>3 DEF Thread
<1>8. pc'[Main] = pc[Main]
  BY <1>3, PoolTyped DEF Thread
<1>9. \A w \in Worker :
       /\ pc'[w] \in WorkerAt
       /\ pc'[w] \in {"run", "release"} <=> calls[w] # <<>>
       /\ pc'[w] = "release" => Len(calls[w]) = 1
  BY <1>7 DEF Placed, WorkerAt
<1>10. Placed'
  BY <1>1, <1>5, <1>6, <1>8, <1>9 DEF Placed
<1> QED
  BY <1>4, <1>10

LEMMA ShapeAddInplace ==
  ASSUME Typed, Placed, NEW th \in Thread, AddInplace(th)
  PROVE  Typed' /\ Placed'
<1>1. /\ adding[th] \in Job /\ pc[th] = "run"
      /\ adding' \in [Thread -> Job \cup {None}] /\ adding'[th] = None
      /\ \A a \in Thread : a # th => adding'[a] = adding[a]
      /\ calls' \in [Thread -> Seq(Frame)] /\ \A a \in Thread : a # th => calls'[a] = calls[a]
      /\ Len(calls'[th]) = Len(calls[th]) + 1 /\ calls'[th] # <<>>
      /\ calls'[th][1] = Call(adding[th])
      /\ \A k \in DOMAIN calls'[th] :
              k # 1 => k - 1 \in DOMAIN calls[th] /\ calls'[th][k] = calls[th][k - 1]
  BY AddInplaceDoes
<1>2. UNCHANGED <<queued, usage, outq, stopped, pc>> /\ active' = active + 1
  BY DEF AddInplace
<1>3. Typed'
  BY <1>1, <1>2 DEF Typed
<1>4. calls[th] # <<>> /\ calls[th] \in Seq(Frame) /\ calls'[th] \in Seq(Frame)
  BY <1>1, InCall
<1>5. calls'[th][1].job # None
  BY <1>1, CallTyped, PoolTyped
<1>6. \A w \in Worker :
       /\ calls'[w] = <<>> <=> calls[w] = <<>>
       /\ pc[w] = "release" => Len(calls'[w]) = 1
       /\ \A k \in DOMAIN calls'[w] : calls'[w][k].job # None
  <2> TAKE w \in Worker
  <2>1. w \in Thread
    BY DEF Thread
  <2>2. CASE w = th
    <3>1. \A k \in DOMAIN calls[w] : calls[w][k].job # None
      BY DEF Placed
    <3>2. \A k \in DOMAIN calls'[w] : calls'[w][k].job # None
      BY <1>1, <1>5, <2>2, <3>1
    <3> QED
      BY <1>1, <1>4, <2>2, <3>2
  <2>3. CASE w # th
    BY <1>1, <2>1, <2>3 DEF Placed
  <2> QED
    BY <2>2, <2>3
<1>7. /\ calls'[Main] # <<>>
      /\ \A k \in DOMAIN calls'[Main] : calls'[Main][k].job = None <=> k = Len(calls'[Main])
  <2>1. CASE th = Main
    <3>1. Len(calls[th]) \in Nat /\ Len(calls[th]) >= 1 /\ DOMAIN calls'[th] = 1 .. Len(calls[th]) + 1
      BY <1>1, <1>4, LenOf
    <3>2. \A k \in DOMAIN calls[th] : calls[th][k].job = None <=> k = Len(calls[th])
      BY <2>1 DEF Placed
    <3>3. ASSUME NEW k \in DOMAIN calls'[th]
          PROVE  calls'[th][k].job = None <=> k = Len(calls'[th])
      <4>1. CASE k = 1
        BY <1>1, <1>5, <3>1, <4>1
      <4>2. CASE k # 1
        <5>1. k - 1 \in DOMAIN calls[th] /\ calls'[th][k] = calls[th][k - 1]
          BY <1>1, <4>2
        <5>2. calls[th][k - 1].job = None <=> k - 1 = Len(calls[th])
          BY <3>2, <5>1
        <5>3. k \in Int
          BY <3>1
        <5> QED
          BY <1>1, <3>1, <5>1, <5>2, <5>3
      <4> QED
        BY <4>1, <4>2
    <3> QED
      BY <1>1, <2>1, <3>3
  <2>2. CASE th # Main
    BY <1>1, <2>2 DEF Placed, Thread
  <2> QED
    BY <2>1, <2>2
<1>8. \A a \in Thread : adding'[a] # None => pc[a] = "run"
  BY <1>1 DEF Placed
<1>9. Placed'
  BY <1>2, <1>6, <1>7, <1>8 DEF Placed
<1> QED
  BY <1>3, <1>9

LEMMA ShapeEndCall ==
  ASSUME Typed, Placed, NEW th \in Thread, EndCall(th)
  PROVE  Typed' /\ Placed'
<1>1. /\ pc[th] = "run" /\ adding[th] = None
      /\ outq' \in Seq({"ok", "exc"}) /\ Len(outq') = Len(outq) + 1
  BY EndCallDoes
<1>2. UNCHANGED <<queued, usage, active, stopped, adding>>
  BY DEF EndCall
<1>3. CASE /\ th \in Worker /\ Len(calls[th]) = 1 /\ calls' = calls
           /\ pc' = [pc EXCEPT ![th] = "release"]
  <2>1. Typed'
    BY <1>1, <1>2, <1>3 DEF Typed, WorkerAt
  <2>2. th # Main /\ Main \in Thread
    BY <1>3, PoolTyped DEF Thread
  <2>3. /\ pc'[th] = "release" /\ \A a \in Thread : a # th => pc'[a] = pc[a]
        /\ pc'[Main] = pc[Main]
    BY <1>3, <2>2 DEF Typed
  <2>4. \A a \in Thread : adding[a] # None => pc'[a] = "run"
    BY <1>1, <2>3 DEF Placed
  <2>5. \A w \in Worker :
       /\ pc'[w] \in WorkerAt
       /\ pc'[w] \in {"run", "release"} <=> calls[w] # <<>>
       /\ pc'[w] = "release" => Len(calls[w]) = 1
    BY <1>1, <1>3, <2>3 DEF Placed, WorkerAt, Thread
  <2>6. Placed'
    BY <1>2, <1>3, <2>3, <2>4, <2>5 DEF Placed
  <2> QED
    BY <2>1, <2>6
<1>4. CASE /\ pc' = pc /\ Len(calls[th]) > 1
           /\ calls' \in [Thread -> Seq(Frame)]
           /\ \A a \in Thread : a # th => calls'[a] = calls[a]
           /\ Len(calls'[th]) = Len(calls[th]) - 1 /\ calls'[th] # <<>>
           /\ \A k \in DOMAIN calls'[th] :
                    k + 1 \in DOMAIN calls[th] /\ calls'[th][k] = calls[th][k + 1]
  <2>1. Typed'
    BY <1>1, <1>2, <1>4 DEF Typed
  <2>2. calls[th] # <<>> /\ calls[th] \in Seq(Frame) /\ calls'[th] \in Seq(Frame)
    BY <1>1, <1>4, InCall
  <2>3. \A w \in Worker :
         /\ calls'[w] = <<>> <=> calls[w] = <<>>
         /\ pc[w] = "release" => Len(calls'[w]) = 1
         /\ \A k \in DOMAIN calls'[w] : calls'[w][k].job # None
    <3> TAKE w \in Worker
    <3>1. w \in Thread
      BY DEF Thread
    <3>2. CASE w = th
      <4>1. \A k \in DOMAIN calls'[w] : calls'[w][k].job # None
        BY <1>4, <3>2 DEF Placed
      <4> QED
        BY <1>1, <1>4, <2>2, <3>2, <4>1
    <3>3. CASE w # th
      BY <1>4, <3>1, <3>3 DEF Placed
    <3> QED
      BY <3>2, <3>3
  <2>4. /\ calls'[Main] # <<>>
        /\ \A k \in DOMAIN calls'[Main] : calls'[Main][k].job = None <=> k = Len(calls'[Main])
    <3>1. CASE th = Main
      <4>1. \A k \in DOMAIN calls[th] : calls[th][k].job = None <=> k = Len(calls[th])
        BY <3>1 DEF Placed
      <4>2. Len(calls[th]) \in Nat /\ DOMAIN calls'[th] = 1 .. Len(calls'[th])
        BY <2>2, LenOf
      <4>3. ASSUME NEW k \in DOMAIN calls'[th]
            PROVE  calls'[th][k].job = None <=> k = Len(calls'[th])
        <5>1. k \in Int /\ k + 1 \in DOMAIN calls[th] /\ calls'[th][k] = calls[th][k + 1]
          BY <1>4, <4>2
        <5>2. calls[th][k + 1].job = None <=> k + 1 = Len(calls[th])
          BY <4>1, <5>1
        <5>3. \A n \in Nat, i \in Int : i + 1 = n <=> i = n - 1
          OBVIOUS
        <5> QED
          BY <1>4, <4>2, <5>1, <5>2, <5>3, Zenon
      <4> QED
        BY <1>4, <3>1, <4>3
    <3>2. CASE th # Main
      BY <1>4, <3>2 DEF Placed, Thread
    <3> QED
      BY <3>1, <3>2
  <2>5. Placed'
    BY <1>2, <1>4, <2>3, <2>4 DEF Placed
  <2> QED
    BY <2>1, <2>5
<1> QED
  BY <1>3, <1>4, EndCallDoes
LEMMA ShapeTake ==
  ASSUME Typed, Placed, NEW w \in Worker, Take(w)
  PROVE  Typed' /\ Placed'
<1>1. PICK cap \in Caps, j \in queued :
           /\ pc[w] = "look" /\ calls[w] = <<>>
           /\ usage' = [r \in Resource |-> usage[r] + Need[j][r]]
           /\ queued' = queued \ {j}
           /\ calls' \in [Thread -> Seq(Frame)] /\ calls'[w] = <<Call(j)>>
           /\ \A a \in Thread : a # w => calls'[a] = calls[a]
           /\ pc' \in [Thread -> WorkerAt \cup MainAt] /\ pc'[w] = "run"
           /\ \A a \in Thread : a # w =>
                pc'[a] = pc[a] \/ (a \in Worker /\ pc[a] = "wait" /\ pc'[a] = "check")
  BY TakeDoes
<1>2. UNCHANGED <<active, outq, stopped, adding>>
  BY DEF Take
<1>3. j \in Job /\ w # Main /\ Main \in Thread /\ w \in Thread /\ Main \notin Worker
  BY PoolTyped DEF Typed, Thread
<1>4. Typed'
  <2>1. usage' \in [Resource -> Int]
    <3>1. \A r \in Resource : usage[r] \in Int /\ Need[j][r] \in Nat
      BY <1>3, PoolTyped DEF Typed
    <3> QED
      BY <1>1, <3>1
  <2> QED
    BY <1>1, <1>2, <2>1 DEF Typed
<1>5. calls'[w] # <<>> /\ DOMAIN calls'[w] = {1} /\ calls'[w][1].job # None
  BY <1>1, <1>3, CallTyped, PoolTyped
<1>6. \A v \in Worker :
       /\ pc'[v] \in WorkerAt
       /\ pc'[v] \in {"run", "release"} <=> calls'[v] # <<>>
       /\ pc'[v] = "release" => Len(calls'[v]) = 1
       /\ \A k \in DOMAIN calls'[v] : calls'[v][k].job # None
  <2> TAKE v \in Worker
  <2>1. CASE v = w
    BY <1>1, <1>5, <2>1 DEF WorkerAt
  <2>2. CASE v # w
    <3>1. calls'[v] = calls[v] /\ (pc'[v] = pc[v] \/ (pc[v] = "wait" /\ pc'[v] = "check"))
      BY <1>1, <2>2 DEF Thread
    <3> QED
      BY <3>1 DEF Placed, WorkerAt
  <2> QED
    BY <2>1, <2>2
<1>7. pc'[Main] = pc[Main] /\ calls'[Main] = calls[Main]
  BY <1>1, <1>3
<1>8. \A th \in Thread : adding[th] # None => pc'[th] = "run"
  BY <1>1, <1>2 DEF Placed
<1>9. Placed'
  BY <1>2, <1>6, <1>7, <1>8 DEF Placed
<1> QED
  BY <1>4, <1>9

LEMMA ShapeRelease ==
  ASSUME Typed, Placed, NEW w \in Worker, Release(w)
  PROVE  Typed' /\ Placed'
<1>1. /\ pc[w] = "release" /\ calls[w][1].job \in Job
      /\ usage' = [r \in Resource |-> usage[r] - Need[calls[w][1].job][r]]
      /\ calls' \in [Thread -> Seq(Frame)] /\ calls'[w] = <<>>
      /\ \A a \in Thread : a # w => calls'[a] = calls[a]
      /\ pc' \in [Thread -> WorkerAt \cup MainAt] /\ pc'[w] = "check"
      /\ \A a \in Thread : a # w =>
                pc'[a] = pc[a] \/ (a \in Worker /\ pc[a] = "wait" /\ pc'[a] = "check")
  BY ReleaseDoes
<1>2. UNCHANGED <<queued, active, outq, stopped, adding>>
  BY DEF Release
<1>3. w # Main /\ Main \in Thread /\ w \in Thread /\ Main \notin Worker
  BY PoolTyped DEF Thread
<1>4. Typed'
  <2>1. usage' \in [Resource -> Int]
    <3>1. \A r \in Resource : usage[r] \in Int /\ Need[calls[w][1].job][r] \in Nat
      BY <1>1, PoolTyped DEF Typed
    <3> QED
      BY <1>1, <3>1
  <2> QED
    BY <1>1, <1>2, <2>1 DEF Typed
<1>5. \A v \in Worker :
       /\ pc'[v] \in WorkerAt
       /\ pc'[v] \in {"run", "release"} <=> calls'[v] # <<>>
       /\ pc'[v] = "release" => Len(calls'[v]) = 1
       /\ \A k \in DOMAIN calls'[v] : calls'[v][k].job # None
  <2> TAKE v \in Worker
  <2>1. CASE v = w
    <3>1. DOMAIN calls'[v] = {}
      BY <1>1, <2>1
    <3> QED
      BY <1>1, <2>1, <3>1 DEF WorkerAt
  <2>2. CASE v # w
    <3>1. calls'[v] = calls[v] /\ (pc'[v] = pc[v] \/ (pc[v] = "wait" /\ pc'[v] = "check"))
      BY <1>1, <2>2 DEF Thread
    <3> QED
      BY <3>1 DEF Placed, WorkerAt
  <2> QED
    BY <2>1, <2>2
<1>6. pc'[Main] = pc[Main] /\ calls'[Main] = calls[Main]
  BY <1>1, <1>3
<1>7. \A th \in Thread : adding[th] # None => pc'[th] = "run"
  BY <1>1, <1>2 DEF Placed
<1>8. Placed'
  BY <1>2, <1>5, <1>6, <1>7 DEF Placed
<1> QED
  BY <1>4, <1>8

(* What a quiet step leaves alone, whom it moves and what it counts: next  *)
(* takes a result only when there is one.                                  *)
Moved ==
  /\ pc' \in [Thread -> WorkerAt \cup MainAt] /\ pc'[Main] \in MainAt
  /\ \A w \in Worker :
       /\ pc'[w] \in WorkerAt
       /\ \/ pc'[w] = pc[w]
          \/ pc[w] \notin {"run", "release"} /\ pc'[w] \notin {"run", "release"}
  /\ pc'[Main] = pc[Main] \/ pc[Main] # "run" \/ adding[Main] = None
Drawn == active' = active - 1 /\ Len(outq) >= 1 /\ Len(outq') = Len(outq) - 1 /\ pc[Main] = "next"
Paid ==
  \/ active' = active /\ outq' = outq /\ stopped' = stopped
  \/ active' = active /\ stopped'
  \/ Drawn /\ stopped' = stopped

LEMMA QuietDoes ==
  ASSUME Typed, Placed, Quiet
  PROVE  /\ UNCHANGED <<queued, usage, calls, adding>>
         /\ outq' \in Seq({"ok", "exc"}) /\ Moved /\ Paid
         /\ stopped' <=> pc'[Main] \in {"join", "joining", "over"}
         /\ stopped' \in BOOLEAN /\ (stopped => stopped')
<1>0. /\ Main \in Thread /\ Main \notin Worker /\ \A w \in Worker : w \in Thread /\ w # Main
      /\ pc[Main] \in MainAt /\ \A w \in Worker : pc[w] \in WorkerAt
      /\ pc \in [Thread -> WorkerAt \cup MainAt] /\ outq \in Seq({"ok", "exc"})
  BY PoolTyped DEF Thread, Placed, Typed
<1>a. stopped \in BOOLEAN /\ (stopped <=> pc[Main] \in {"join", "joining", "over"})
  BY Zenon DEF Placed, Typed
<1>1. ASSUME NEW w \in Worker, Check(w) \/ Sleep(w)
      PROVE  /\ UNCHANGED <<queued, usage, calls, adding, active, stopped>>
             /\ pc[w] \in {"check", "look"}
             /\ \/ stopped /\ pc' = [pc EXCEPT ![w] = "dead"] /\ outq' = Append(outq, "exc")
                \/ pc' = [pc EXCEPT ![w] = "look"] /\ outq' = outq
                \/ pc' = [pc EXCEPT ![w] = "wait"] /\ outq' = outq
  BY <1>1 DEF Check, Sleep
<1>2. CASE \E w \in Worker : Check(w) \/ Sleep(w)
  <2>1. PICK w \in Worker : Check(w) \/ Sleep(w)
    BY <1>2
  <2>2. \E x \in {"dead", "look", "wait"} : pc' = [pc EXCEPT ![w] = x]
    BY <1>1, <2>1
  <2>3. /\ pc' \in [Thread -> WorkerAt \cup MainAt] /\ pc'[w] \in {"dead", "look", "wait"}
        /\ \A a \in Thread : a # w => pc'[a] = pc[a]
    BY <1>0, <2>2 DEF WorkerAt
  <2>4. outq' = outq \/ (stopped /\ outq' = Append(outq, "exc"))
    BY <1>1, <2>1
  <2>5. UNCHANGED <<queued, usage, calls, adding, active, stopped>> /\ pc[w] \in {"check", "look"}
    BY <1>1, <2>1
  <2>6. Moved
    BY <1>0, <2>3, <2>5 DEF Moved, WorkerAt
  <2>7. outq' \in Seq({"ok", "exc"})
    BY <1>0, <2>4
  <2>8. pc'[Main] = pc[Main]
    BY <1>0, <2>3
  <2> QED
    BY <1>a, <2>4, <2>5, <2>6, <2>7, <2>8 DEF Paid
<1>3. CASE MainWaits \/ NextEnds
  <2>1. /\ \E x \in {"next", "stop"} : pc' = [pc EXCEPT ![Main] = x]
        /\ pc[Main] \in {"run", "next"} /\ (pc[Main] = "run" => adding[Main] = None)
        /\ UNCHANGED <<queued, usage, active, outq, stopped, calls, adding>>
    BY <1>3 DEF MainWaits, NextEnds
  <2>2. Moved
    BY <1>0, <2>1 DEF Moved, MainAt
  <2>3. ~ stopped
    BY <1>a, <2>1
  <2> QED
    BY <1>0, <1>a, <2>1, <2>2, <2>3 DEF Paid
<1>4. CASE NextGets
  <2>1. /\ pc[Main] = "next" /\ outq # <<>> /\ active' = active - 1 /\ outq' = Tail(outq)
        /\ UNCHANGED <<queued, usage, stopped, calls, adding>>
        /\ pc' = [pc EXCEPT ![Main] = "stop"] \/ pc' = pc
    BY <1>4 DEF NextGets
  <2>2. outq' \in Seq({"ok", "exc"}) /\ Len(outq) >= 1 /\ Len(outq') = Len(outq) - 1
    BY <1>0, <2>1, LenOf, TailOf
  <2>3. ~ stopped
    BY <1>a, <2>1
  <2>4. Moved /\ pc'[Main] \in {"next", "stop"}
    BY <1>0, <2>1 DEF Moved, MainAt
  <2>5. Paid
    BY <2>1, <2>2 DEF Paid, Drawn
  <2> QED
    BY <1>a, <2>1, <2>2, <2>3, <2>4, <2>5
<1>5. CASE Stop
  <2>1. /\ pc[Main] = "stop" /\ stopped' = TRUE /\ pc' = [pc EXCEPT ![Main] = "join"]
        /\ UNCHANGED <<queued, usage, active, outq, calls, adding>>
    BY <1>5 DEF Stop
  <2>2. Moved /\ pc'[Main] = "join"
    BY <1>0, <2>1 DEF Moved, MainAt
  <2> QED
    BY <1>0, <1>a, <2>1, <2>2 DEF Paid
<1>6. CASE NotifyAll
  <2>1. /\ pc[Main] = "join" /\ UNCHANGED <<queued, usage, active, outq, stopped, calls, adding>>
        /\ pc' = [th \in Thread |-> IF th = Main THEN "joining"
                                    ELSE IF pc[th] = "wait" THEN "check" ELSE pc[th]]
    BY <1>6 DEF NotifyAll
  <2>2. /\ pc'[Main] = "joining"
        /\ \A w \in Worker : pc'[w] = IF pc[w] = "wait" THEN "check" ELSE pc[w]
    BY <1>0, <2>1
  <2>3. pc' \in [Thread -> WorkerAt \cup MainAt]
    <3>1. \A th \in Thread : pc'[th] \in WorkerAt \cup MainAt
      BY <1>0, <2>2 DEF WorkerAt, MainAt, Thread
    <3> QED
      BY <2>1, <3>1
  <2>4. \A w \in Worker :
          /\ pc'[w] \in WorkerAt
          /\ \/ pc'[w] = pc[w]
             \/ pc[w] \notin {"run", "release"} /\ pc'[w] \notin {"run", "release"}
    BY <1>0, <2>2 DEF WorkerAt
  <2>5. Moved
    BY <2>1, <2>2, <2>3, <2>4 DEF Moved, MainAt
  <2> QED
    BY <1>0, <1>a, <2>1, <2>2, <2>5 DEF Paid
<1>7. CASE Joined
  <2>1. /\ pc[Main] = "joining" /\ pc' = [pc EXCEPT ![Main] = "over"] /\ outq' = <<>>
        /\ UNCHANGED <<queued, usage, active, stopped, calls, adding>>
    BY <1>7 DEF Joined
  <2>2. Moved /\ pc'[Main] = "over"
    BY <1>0, <2>1 DEF Moved, MainAt
  <2>3. stopped
    BY <1>a, <2>1
  <2> QED
    BY <1>0, <1>a, <2>1, <2>2, <2>3 DEF Paid
<1>8. CASE UNCHANGED vars
  <2>1. Moved
    BY <1>0, <1>8 DEF vars, Moved
  <2> QED
    BY <1>0, <1>a, <1>8, <2>1 DEF vars, Paid
<1> QED
  BY <1>2, <1>3, <1>4, <1>5, <1>6, <1>7, <1>8 DEF Quiet
LEMMA CountsNat ==
  ASSUME Typed, Counted
  PROVE  /\ IsFiniteSet(queued) /\ Cardinality(queued) \in Nat
         /\ Total(InProgress) \in Nat /\ Len(outq) \in Nat
<1>1. IsFiniteSet(queued)
  BY PoolTyped, FS_Subset DEF Typed
<1>2. Cardinality(queued) \in Nat
  BY <1>1, FS_CardinalityType
<1>3. Total(InProgress) \in Nat
  BY TotalNat DEF Counted
<1>4. Len(outq) \in Nat
  BY LenOf DEF Typed
<1> QED
  BY <1>1, <1>2, <1>3, <1>4

LEMMA ShapeQuiet ==
  ASSUME Typed, Placed, Counted, Quiet
  PROVE  Typed' /\ Placed'
<1>1. /\ UNCHANGED <<queued, usage, calls, adding>>
      /\ outq' \in Seq({"ok", "exc"}) /\ Moved /\ Paid
      /\ stopped' <=> pc'[Main] \in {"join", "joining", "over"}
      /\ stopped' \in BOOLEAN /\ (stopped => stopped')
  BY QuietDoes
<1>2. active' \in Nat
  <2>1. CASE active' = active
    BY <2>1 DEF Typed
  <2>2. CASE Drawn
    <3>1. ~ stopped
      BY <2>2 DEF Drawn, Placed
    <3>2. active = Cardinality(queued) + Len(outq) + Total(InProgress)
      BY <3>1 DEF Counted, ActiveCounts
    <3>3. active' = active - 1 /\ Len(outq) >= 1
      BY <2>2 DEF Drawn
    <3> QED
      BY <3>2, <3>3, CountsNat
  <2> QED
    BY <1>1, <2>1, <2>2 DEF Paid
<1>3. Typed'
  BY <1>1, <1>2 DEF Typed, Moved
<1>4. \A w \in Worker :
       /\ pc'[w] \in WorkerAt
       /\ pc'[w] \in {"run", "release"} <=> calls[w] # <<>>
       /\ pc'[w] = "release" => Len(calls[w]) = 1
  BY <1>1 DEF Moved, Placed
<1>5. \A th \in Thread : adding[th] # None => pc'[th] = "run"
  <2> SUFFICES ASSUME NEW th \in Thread, adding[th] # None
               PROVE  pc'[th] = "run"
    OBVIOUS
  <2>1. pc[th] = "run"
    BY DEF Placed
  <2>2. th = Main \/ th \in Worker
    BY DEF Thread
  <2> QED
    BY <1>1, <2>1, <2>2 DEF Moved
<1>6. Placed'
  BY <1>1, <1>4, <1>5 DEF Placed, Moved
<1> QED
  BY <1>3, <1>6

-----------------------------------------------------------------------------
(* A job is added once. *)

LEMMA OnceAddCheck ==
  ASSUME Typed, Placed, AddedJobs, NEW th \in Thread, NEW j \in Job, AddCheck(th, j)
  PROVE  AddedJobs'
<1>1. PICK U \in SUBSET Job : Once(U)
  BY DEF AddedJobs
<1> DEFINE V == U \cup {j}
<1>2. /\ adding[th] = None /\ j \in calls[th][1].todo /\ 1 \in DOMAIN calls[th]
      /\ adding' \in [Thread -> Job \cup {None}] /\ adding'[th] = j
      /\ \A a \in Thread : a # th => adding'[a] = adding[a]
      /\ \A a \in Thread : a # th => calls'[a] = calls[a]
      /\ DOMAIN calls'[th] = DOMAIN calls[th]
      /\ \A k \in DOMAIN calls[th] :
           /\ calls'[th][k].job = calls[th][k].job
           /\ k = 1 => calls'[th][k].todo = calls[th][k].todo \ {j}
           /\ k # 1 => calls'[th][k].todo = calls[th][k].todo
  <2>1. /\ adding[th] = None /\ j \in calls[th][1].todo /\ 1 \in DOMAIN calls[th]
        /\ adding' \in [Thread -> Job \cup {None}] /\ adding'[th] = j
        /\ \A a \in Thread : a # th => adding'[a] = adding[a]
    BY AddCheckDoes
  <2>2. /\ \A a \in Thread : a # th => calls'[a] = calls[a]
        /\ DOMAIN calls'[th] = DOMAIN calls[th]
    BY AddCheckDoes
  <2>3. \A k \in DOMAIN calls[th] :
           /\ calls'[th][k].job = calls[th][k].job
           /\ k = 1 => calls'[th][k].todo = calls[th][k].todo \ {j}
           /\ k # 1 => calls'[th][k].todo = calls[th][k].todo
    BY AddCheckDoes
  <2> QED
    BY <2>1, <2>2, <2>3
<1>3. queued' = queued
  BY DEF AddCheck
<1> DEFINE me == calls[th][1].job
<1>4. /\ calls[th][1].todo \subseteq Call(me).todo /\ j \notin U
      /\ me # None => me \in U /\ me \notin Waiting
      /\ me \in Job \cup {None} /\ j # None
  <2>1. calls[th][1].todo \cap U = {} /\ calls[th][1].todo \subseteq Call(me).todo
        /\ (me # None => me \in U /\ me \notin Waiting)
    BY <1>1, <1>2, Zenon DEF Once
  <2>2. calls[th][1] \in Frame
    BY <1>2, LenOf DEF Typed
  <2> QED
    BY <1>2, <2>1, <2>2, PoolTyped DEF Frame
<1>5. j \in Call(me).todo
  BY <1>2, <1>4
<1>6. \A i \in Job : j \in Adds[i] => i = me
  <2> SUFFICES ASSUME NEW i \in Job, j \in Adds[i], i # me
               PROVE  FALSE
    OBVIOUS
  <2>1. Call(i).todo = Adds[i]
    BY CallTyped, PoolTyped
  <2> QED
    BY <1>4, <1>5, <2>1, CallsAddApart
<1>7. \A i \in Job : i \in Waiting' <=> i \in Waiting \/ i = j
  BY <1>2, <1>3, <1>4, PoolTyped DEF Waiting
<1>8. V \in SUBSET Job /\ queued' \subseteq V
  BY <1>1, <1>3 DEF Once
<1>9. \A a \in Thread : adding'[a] # None => adding'[a] \in V \ queued'
  BY <1>1, <1>2, <1>3, <1>4 DEF Once
<1>10. \A a, b \in Thread : adding'[a] = adding'[b] /\ adding'[a] # None => a = b
  BY <1>1, <1>2, <1>4 DEF Once
<1>11. \A a \in Thread : \A k \in DOMAIN calls'[a] :
         k \in DOMAIN calls[a] /\ calls'[a][k].job = calls[a][k].job
         /\ calls'[a][k].todo = calls[a][k].todo \ {j}
  <2> SUFFICES ASSUME NEW a \in Thread, NEW k \in DOMAIN calls'[a]
               PROVE  k \in DOMAIN calls[a] /\ calls'[a][k].job = calls[a][k].job
                      /\ calls'[a][k].todo = calls[a][k].todo \ {j}
    OBVIOUS
  <2>1. k \in DOMAIN calls[a] /\ calls'[a][k].job = calls[a][k].job
    BY <1>2
  <2>2. a = th /\ k = 1 => calls'[a][k].todo = calls[a][k].todo \ {j}
    BY <1>2, <2>1
  <2>3. ~ (a = th /\ k = 1) => calls'[a][k].todo = calls[a][k].todo
    BY <1>2, <2>1
  <2>4. ~ (a = th /\ k = 1) => j \notin calls[a][k].todo
    <3> SUFFICES ASSUME ~ (a = th /\ k = 1), j \in calls[a][k].todo
                 PROVE  FALSE
      OBVIOUS
    <3>1. calls[a][k].job # me /\ j \in Call(calls[a][k].job).todo
      BY <1>1, <1>2, <2>1 DEF Once
    <3>2. calls[a][k] \in Frame
      BY <2>1, LenOf DEF Typed
    <3>3. calls[a][k].job \in Job \cup {None}
      BY <3>2 DEF Frame
    <3> QED
      BY <1>4, <1>5, <3>1, <3>3, CallsAddApart
  <2> QED
    BY <2>1, <2>2, <2>3, <2>4
<1>12. \A a \in Thread : \A k \in DOMAIN calls'[a] :
          LET f == calls'[a][k]
          IN  /\ f.todo \subseteq Call(f.job).todo /\ f.todo \cap V = {}
              /\ f.job # None => f.job \in V /\ f.job \notin Waiting'
  <2> SUFFICES ASSUME NEW a \in Thread, NEW k \in DOMAIN calls'[a]
               PROVE  LET f == calls'[a][k]
                      IN  /\ f.todo \subseteq Call(f.job).todo /\ f.todo \cap V = {}
                          /\ f.job # None => f.job \in V /\ f.job \notin Waiting'
    OBVIOUS
  <2>1. /\ k \in DOMAIN calls[a] /\ calls'[a][k].job = calls[a][k].job
        /\ calls'[a][k].todo = calls[a][k].todo \ {j}
    BY <1>11
  <2>2. LET f == calls[a][k]
        IN  /\ f.todo \subseteq Call(f.job).todo /\ f.todo \cap U = {}
            /\ f.job # None => f.job \in U /\ f.job \notin Waiting
    BY <1>1, <2>1 DEF Once
  <2>3. calls[a][k].job # None => calls[a][k].job \in Job /\ calls[a][k].job # j
    BY <1>4, <2>2
  <2> QED
    BY <1>7, <2>1, <2>2, <2>3
<1>13. \A a, b \in Thread : \A i \in DOMAIN calls'[a], k \in DOMAIN calls'[b] :
          calls'[a][i].job = calls'[b][k].job => a = b /\ i = k
  BY <1>1, <1>11 DEF Once
<1>14. \A i \in Job : i \notin V \/ i \in Waiting' => Adds[i] \cap V = {}
  <2> SUFFICES ASSUME NEW i \in Job, i \notin V \/ i \in Waiting'
               PROVE  Adds[i] \cap V = {}
    OBVIOUS
  <2>1. i \notin U \/ i \in Waiting
    BY <1>4, <1>7
  <2>2. Adds[i] \cap U = {}
    BY <1>1, <2>1 DEF Once
  <2>3. i # me
    BY <1>4, <2>1, PoolTyped
  <2> QED
    BY <1>6, <2>2, <2>3
<1> HIDE DEF V
<1>15. Once(V)'
  BY <1>8, <1>9, <1>10, <1>12, <1>13, <1>14 DEF Once
<1> QED
  BY <1>8, <1>15 DEF AddedJobs
LEMMA OnceAddPush ==
  ASSUME Typed, Placed, AddedJobs, NEW th \in Thread, AddPush(th)
  PROVE  AddedJobs' /\ adding[th] \in Job \ queued
<1>1. PICK U \in SUBSET Job : Once(U)
  BY DEF AddedJobs
<1> DEFINE j == adding[th]
<1>2. /\ j # None /\ calls' = calls /\ queued' = queued \cup {j}
      /\ adding' = [adding EXCEPT ![th] = None]
  BY DEF AddPush
<1>3. j \in Job /\ adding'[th] = None /\ \A a \in Thread : a # th => adding'[a] = adding[a]
  BY <1>2 DEF Typed
<1>4. j \in U \ queued /\ \A a \in Thread : a # th => adding[a] # j
  BY <1>1, <1>2 DEF Once
<1>5. Waiting' = Waiting
  BY <1>2, <1>3, PoolTyped DEF Waiting
<1>6. queued' \subseteq U
  BY <1>1, <1>2, <1>4 DEF Once
<1>7. \A a \in Thread : adding'[a] # None => adding'[a] \in U \ queued'
  BY <1>1, <1>2, <1>3, <1>4 DEF Once
<1>8. \A a, b \in Thread : adding'[a] = adding'[b] /\ adding'[a] # None => a = b
  BY <1>1, <1>3 DEF Once
<1>9. Once(U)'
  BY <1>1, <1>2, <1>5, <1>6, <1>7, <1>8 DEF Once
<1> QED
  BY <1>3, <1>4, <1>9 DEF AddedJobs

(* A thread enters a job that waited: it is in the call of that job first  *)
(* and in those it was in.                                                 *)
LEMMA OnceEnters ==
  ASSUME Typed, Typed', NEW U \in SUBSET Job, Once(U), NEW th \in Thread, NEW j \in Job,
         j \in Waiting, j \in U,
         queued' \subseteq queued, \A a \in Thread : adding'[a] \in {adding[a], None},
         j \notin queued', \A a \in Thread : adding'[a] # j,
         \A a \in Thread : a # th => calls'[a] = calls[a],
         DOMAIN calls'[th] \subseteq Nat,
         1 \in DOMAIN calls'[th] => calls'[th][1] = Call(j),
         \A k \in DOMAIN calls'[th] :
           k # 1 => k - 1 \in DOMAIN calls[th] /\ calls'[th][k] = calls[th][k - 1]
  PROVE  AddedJobs'
<1>1. \A i \in Waiting' : i \in Waiting /\ i # j
  BY PoolTyped DEF Waiting
<1>2. \A a \in Thread : \A k \in DOMAIN calls'[a] :
        \/ a = th /\ k = 1 /\ calls'[a][k] = Call(j)
        \/ a = th /\ k # 1 /\ k - 1 \in DOMAIN calls[th] /\ calls'[a][k] = calls[th][k - 1]
        \/ a # th /\ k \in DOMAIN calls[a] /\ calls'[a][k] = calls[a][k]
  OBVIOUS
<1>3. Call(j).job = j /\ Call(j).todo = Adds[j] /\ j # None
  BY CallTyped, PoolTyped
<1>4. Adds[j] \cap U = {}
  BY DEF Once
<1>5. \A a \in Thread : \A k \in DOMAIN calls[a] : calls[a][k].job # j
  BY <1>3 DEF Once
<1>6. \A a \in Thread : \A k \in DOMAIN calls'[a] :
          LET f == calls'[a][k]
          IN  /\ f.todo \subseteq Call(f.job).todo /\ f.todo \cap U = {}
              /\ f.job # None => f.job \in U /\ f.job \notin Waiting'
  <2> SUFFICES ASSUME NEW a \in Thread, NEW k \in DOMAIN calls'[a]
               PROVE  LET f == calls'[a][k]
                      IN  /\ f.todo \subseteq Call(f.job).todo /\ f.todo \cap U = {}
                          /\ f.job # None => f.job \in U /\ f.job \notin Waiting'
    OBVIOUS
  <2>1. ASSUME NEW b \in Thread, NEW i \in DOMAIN calls[b], calls'[a][k] = calls[b][i]
        PROVE  LET f == calls'[a][k]
               IN  /\ f.todo \subseteq Call(f.job).todo /\ f.todo \cap U = {}
                   /\ f.job # None => f.job \in U /\ f.job \notin Waiting'
    BY <1>1, <2>1 DEF Once
  <2>2. CASE calls'[a][k] = Call(j)
    BY <1>1, <1>3, <1>4, <2>2
  <2> QED
    BY <1>2, <2>1, <2>2
<1>7. ASSUME NEW a \in Thread, NEW b \in Thread, NEW i \in DOMAIN calls'[a], NEW k \in DOMAIN calls'[b],
             calls'[a][i].job = calls'[b][k].job
      PROVE  a = b /\ i = k
  <2>1. CASE a = th /\ i = 1
    <3>1. calls'[a][i].job = j
      BY <1>2, <1>3, <2>1
    <3> QED
      BY <1>2, <1>5, <1>7, <2>1, <3>1
  <2>2. CASE b = th /\ k = 1
    <3>1. calls'[b][k].job = j
      BY <1>2, <1>3, <2>2
    <3> QED
      BY <1>2, <1>5, <1>7, <2>2, <3>1
  <2>3. CASE ~ (a = th /\ i = 1) /\ ~ (b = th /\ k = 1)
    <3>0. a = th => i \in Nat
      OBVIOUS
    <3>1. b = th => k \in Nat
      OBVIOUS
    <3>2. CASE a = th /\ b = th
      <4>1. /\ i - 1 \in DOMAIN calls[th] /\ calls'[a][i] = calls[th][i - 1]
            /\ k - 1 \in DOMAIN calls[th] /\ calls'[b][k] = calls[th][k - 1]
        BY <1>2, <2>3, <3>2
      <4>2. i - 1 = k - 1
        BY <1>7, <4>1 DEF Once
      <4> QED
        BY <3>0, <3>1, <3>2, <4>2
    <3>3. CASE a = th /\ b # th
      <4>1. /\ i - 1 \in DOMAIN calls[th] /\ calls'[a][i] = calls[th][i - 1]
            /\ k \in DOMAIN calls[b] /\ calls'[b][k] = calls[b][k]
        BY <1>2, <2>3, <3>3
      <4> QED
        BY <1>7, <3>3, <4>1 DEF Once
    <3>4. CASE a # th /\ b = th
      <4>1. /\ k - 1 \in DOMAIN calls[th] /\ calls'[b][k] = calls[th][k - 1]
            /\ i \in DOMAIN calls[a] /\ calls'[a][i] = calls[a][i]
        BY <1>2, <2>3, <3>4
      <4> QED
        BY <1>7, <3>4, <4>1 DEF Once
    <3>5. CASE a # th /\ b # th
      <4>1. /\ i \in DOMAIN calls[a] /\ calls'[a][i] = calls[a][i]
            /\ k \in DOMAIN calls[b] /\ calls'[b][k] = calls[b][k]
        BY <1>2, <3>5
      <4> QED
        BY <1>7, <4>1 DEF Once
    <3> QED
      BY <3>2, <3>3, <3>4, <3>5
  <2> QED
    BY <2>1, <2>2, <2>3
<1>8. \A i \in Job : i \notin U \/ i \in Waiting' => Adds[i] \cap U = {}
  BY <1>1 DEF Once
<1>9. /\ queued' \subseteq U
      /\ \A a \in Thread : adding'[a] # None => adding'[a] \in U \ queued'
      /\ \A a, b \in Thread : adding'[a] = adding'[b] /\ adding'[a] # None => a = b
  BY DEF Once
<1>10. Once(U)'
  BY <1>6, <1>7, <1>8, <1>9 DEF Once
<1> QED
  BY <1>10 DEF AddedJobs

LEMMA OnceAddInplace ==
  ASSUME Typed, Placed, Typed', AddedJobs, NEW th \in Thread, AddInplace(th)
  PROVE  AddedJobs'
<1>1. PICK U \in SUBSET Job : Once(U)
  BY DEF AddedJobs
<1>2. PICK j \in Job : j = adding[th]
  BY AddInplaceDoes
<1>3. queued' = queued
  BY DEF AddInplace
<1>4. /\ adding'[th] = None /\ \A a \in Thread : a # th => adding'[a] = adding[a]
      /\ \A a \in Thread : a # th => calls'[a] = calls[a]
      /\ calls'[th][1] = Call(j)
      /\ \A k \in DOMAIN calls'[th] :
           k # 1 => k - 1 \in DOMAIN calls[th] /\ calls'[th][k] = calls[th][k - 1]
  BY <1>2, AddInplaceDoes
<1>5. j \in U /\ j \notin queued /\ j # None /\ \A a \in Thread : a # th => adding[a] # j
  BY <1>1, <1>2, PoolTyped DEF Once
<1>6. j \in Waiting
  BY <1>2 DEF Waiting
<1>7. DOMAIN calls'[th] \subseteq Nat
  BY LenOf DEF Typed
<1>8. \A a \in Thread : adding'[a] \in {adding[a], None} /\ adding'[a] # j
  BY <1>4, <1>5
<1> QED
  BY <1>1, <1>3, <1>4, <1>5, <1>6, <1>7, <1>8, OnceEnters

LEMMA OnceTake ==
  ASSUME Typed, Placed, Typed', AddedJobs, NEW w \in Worker, Take(w)
  PROVE  AddedJobs'
<1>1. PICK U \in SUBSET Job : Once(U)
  BY DEF AddedJobs
<1>2. PICK j \in queued :
        /\ queued' = queued \ {j} /\ calls'[w] = <<Call(j)>>
        /\ \A a \in Thread : a # w => calls'[a] = calls[a]
  BY TakeDoes
<1>3. adding' = adding
  BY DEF Take
<1>4. j \in Job /\ j \in U /\ j # None /\ \A a \in Thread : adding[a] # j
  BY <1>1, PoolTyped DEF Typed, Once
<1>5. j \in Waiting
  BY <1>4 DEF Waiting
<1>6. w \in Thread /\ DOMAIN calls'[w] = {1} /\ calls'[w][1] = Call(j)
  BY <1>2 DEF Thread
<1>7. DOMAIN calls'[w] \subseteq Nat
  BY <1>6
<1>8. \A k \in DOMAIN calls'[w] : k = 1
  BY <1>6
<1> QED
  BY <1>1, <1>2, <1>3, <1>4, <1>5, <1>6, <1>7, <1>8, OnceEnters

(* A thread leaves calls, and nothing else changes.                        *)
LEMMA OnceLeaves ==
  ASSUME AddedJobs, queued' = queued, adding' = adding, NEW th \in Thread, NEW d \in {0, 1},
         \A a \in Thread : a # th => calls'[a] = calls[a], DOMAIN calls'[th] \subseteq Nat,
         \A k \in DOMAIN calls'[th] : k + d \in DOMAIN calls[th] /\ calls'[th][k] = calls[th][k + d]
  PROVE  AddedJobs'
<1>1. PICK U \in SUBSET Job : Once(U)
  BY DEF AddedJobs
<1>2. Waiting' = Waiting
  BY DEF Waiting
<1>3. \A a \in Thread : \A k \in DOMAIN calls'[a] :
        \/ a = th /\ k \in Nat /\ k + d \in DOMAIN calls[th] /\ calls'[a][k] = calls[th][k + d]
        \/ a # th /\ k \in DOMAIN calls[a] /\ calls'[a][k] = calls[a][k]
  OBVIOUS
<1>4. \A a \in Thread : \A k \in DOMAIN calls'[a] :
          LET f == calls'[a][k]
          IN  /\ f.todo \subseteq Call(f.job).todo /\ f.todo \cap U = {}
              /\ f.job # None => f.job \in U /\ f.job \notin Waiting'
  BY <1>1, <1>2, <1>3 DEF Once
<1>5. ASSUME NEW a \in Thread, NEW b \in Thread, NEW i \in DOMAIN calls'[a], NEW k \in DOMAIN calls'[b],
             calls'[a][i].job = calls'[b][k].job
      PROVE  a = b /\ i = k
  <2>1. PICK m \in DOMAIN calls[a] : calls'[a][i] = calls[a][m] /\ (a = th => i \in Nat /\ m = i + d) /\ (a # th => m = i)
    BY <1>3
  <2>2. PICK n \in DOMAIN calls[b] : calls'[b][k] = calls[b][n] /\ (b = th => k \in Nat /\ n = k + d) /\ (b # th => n = k)
    BY <1>3
  <2>3. a = b /\ m = n
    BY <1>1, <1>5, <2>1, <2>2 DEF Once
  <2> QED
    BY <2>1, <2>2, <2>3
<1>6. Once(U)'
  BY <1>1, <1>2, <1>4, <1>5 DEF Once
<1> QED
  BY <1>6 DEF AddedJobs

LEMMA OnceEndCall ==
  ASSUME Typed, Placed, Typed', AddedJobs, NEW th \in Thread, EndCall(th)
  PROVE  AddedJobs'
<1>1. queued' = queued /\ adding' = adding
  BY DEF EndCall
<1>2. DOMAIN calls'[th] \subseteq Nat
  BY LenOf DEF Typed
<1>3. CASE calls' = calls
  <2>1. \A k \in DOMAIN calls'[th] : k + 0 \in DOMAIN calls[th] /\ calls'[th][k] = calls[th][k + 0]
    BY <1>2, <1>3
  <2> QED
    BY <1>1, <1>2, <1>3, <2>1, OnceLeaves
<1>4. CASE /\ \A a \in Thread : a # th => calls'[a] = calls[a]
           /\ \A k \in DOMAIN calls'[th] :
                k + 1 \in DOMAIN calls[th] /\ calls'[th][k] = calls[th][k + 1]
  BY <1>1, <1>2, <1>4, OnceLeaves
<1> QED
  BY <1>3, <1>4, EndCallDoes

LEMMA OnceRelease ==
  ASSUME Typed, Placed, AddedJobs, NEW w \in Worker, Release(w)
  PROVE  AddedJobs'
<1>1. queued' = queued /\ adding' = adding
  BY DEF Release
<1>2. calls'[w] = <<>> /\ \A a \in Thread : a # w => calls'[a] = calls[a]
  BY ReleaseDoes
<1>3. w \in Thread /\ DOMAIN calls'[w] = {}
  BY <1>2 DEF Thread
<1> QED
  BY <1>1, <1>2, <1>3, OnceLeaves

LEMMA OnceQuiet ==
  ASSUME Typed, Placed, AddedJobs, Quiet
  PROVE  AddedJobs'
<1>1. UNCHANGED <<queued, calls, adding>>
  BY QuietDoes
<1>2. Waiting' = Waiting
  BY <1>1 DEF Waiting
<1>3. PICK U \in SUBSET Job : Once(U)
  BY DEF AddedJobs
<1>4. Once(U)'
  BY <1>1, <1>2, <1>3 DEF Once
<1> QED
  BY <1>4 DEF AddedJobs
-----------------------------------------------------------------------------
(* The counts. *)

LEMMA TakenTyped ==
  ASSUME Typed, Placed, NEW w \in Worker, calls[w] # <<>>
  PROVE  /\ Taken(w) \in Job /\ Len(calls[w]) \in Nat /\ Len(calls[w]) >= 1
         /\ DOMAIN calls[w] = 1 .. Len(calls[w])
<1>1. w \in Thread /\ calls[w] \in Seq(Frame)
  BY DEF Thread, Typed
<1>2. /\ Len(calls[w]) \in Nat /\ Len(calls[w]) >= 1 /\ DOMAIN calls[w] = 1 .. Len(calls[w])
  BY <1>1, LenOf
<1>3. Len(calls[w]) \in DOMAIN calls[w]
  BY <1>2
<1>4. calls[w][Len(calls[w])] \in Frame
  BY <1>1, <1>3
<1>5. calls[w][Len(calls[w])].job # None
  BY <1>3 DEF Placed
<1> QED
  BY <1>2, <1>4, <1>5 DEF Taken, Frame

LEMMA LoadTyped ==
  ASSUME Typed, Placed, NEW r \in Resource
  PROVE  Load(r) \in [Worker -> Nat]
<1>1. \A w \in Worker : calls[w] # <<>> => Need[Taken(w)][r] \in Nat
  BY TakenTyped, PoolTyped
<1> QED
  BY <1>1 DEF Load

LEMMA InProgressTyped ==
  ASSUME Typed, Placed
  PROVE  /\ InProgress \in [Thread -> Nat]
         /\ \A th \in Thread :
              /\ Len(calls[th]) \in Nat
              /\ InProgress[th] = Len(calls[th]) - (IF th = Main \/ pc[th] = "release" THEN 1 ELSE 0)
<1>1. ASSUME NEW th \in Thread
      PROVE  /\ Len(calls[th]) \in Nat
             /\ Len(calls[th]) - (IF th = Main \/ pc[th] = "release" THEN 1 ELSE 0) \in Nat
  <2>1. calls[th] \in Seq(Frame)
    BY DEF Typed
  <2>2. Len(calls[th]) \in Nat /\ (calls[th] # <<>> => Len(calls[th]) >= 1)
    BY <2>1, LenOf
  <2>3. th = Main \/ pc[th] = "release" => calls[th] # <<>>
    BY DEF Placed, Thread
  <2> QED
    BY <2>2, <2>3
<1> QED
  BY <1>1 DEF InProgress

LEMMA SumsTyped ==
  Typed /\ Placed => /\ \A r \in Resource : Load(r) \in [Worker -> Nat]
                     /\ InProgress \in [Thread -> Nat]
BY LoadTyped, InProgressTyped

LEMMA SumsTypedNext ==
  (Typed /\ Placed => /\ \A r \in Resource : Load(r) \in [Worker -> Nat]
                      /\ InProgress \in [Thread -> Nat])'
BY SumsTyped, PTL

LEMMA UsageChanges ==
  ASSUME Typed, Placed, Typed', Placed', Counted, NEW w \in Worker,
         \A r \in Resource :
           /\ \A v \in Worker : v # w => Load(r)'[v] = Load(r)[v]
           /\ usage'[r] = usage[r] - Load(r)[w] + Load(r)'[w]
  PROVE  \A r \in Resource : IsFiniteSet(Cells(Load(r)))' /\ usage'[r] = Total(Load(r))'
<1> SUFFICES ASSUME NEW r \in Resource
             PROVE  IsFiniteSet(Cells(Load(r)))' /\ usage'[r] = Total(Load(r))'
  OBVIOUS
<1>1. IsFiniteSet(Cells(Load(r))) /\ usage[r] = Total(Load(r))
  BY DEF Counted, CapRespected
<1>2. PICK f \in [Worker -> Nat] : f = Load(r)
  BY SumsTyped
<1>3. PICK g \in [Worker -> Nat] : g = Load(r)'
  BY SumsTypedNext
<1>4. /\ IsFiniteSet(Cells(f)) /\ usage[r] = Total(f)
      /\ \A v \in Worker : v # w => g[v] = f[v]
      /\ usage'[r] = usage[r] - f[w] + g[w]
  BY <1>1, <1>2, <1>3
<1>5. Cells(g) = Cells(Load(r))' /\ Total(g) = Total(Load(r))'
  BY <1>3 DEF Cells, Total
<1>6. IsFiniteSet(Cells(g)) /\ Total(g) = Total(f) - f[w] + g[w]
  BY <1>4, TotalChanges
<1> QED
  BY <1>4, <1>5, <1>6

LEMMA ProgressChanges ==
  ASSUME Typed, Placed, Typed', Placed', Counted, NEW th \in Thread,
         \A a \in Thread : a # th => InProgress'[a] = InProgress[a]
  PROVE  /\ IsFiniteSet(Cells(InProgress))'
         /\ Total(InProgress)' = Total(InProgress) - InProgress[th] + InProgress'[th]
<1>1. PICK f \in [Thread -> Nat] : f = InProgress
  BY SumsTyped
<1>2. PICK g \in [Thread -> Nat] : g = InProgress'
  BY SumsTypedNext
<1>3. IsFiniteSet(Cells(f)) /\ \A a \in Thread : a # th => g[a] = f[a]
  BY <1>1, <1>2 DEF Counted
<1>4. Cells(g) = Cells(InProgress)' /\ Total(g) = Total(InProgress)'
  BY <1>2 DEF Cells, Total
<1>5. IsFiniteSet(Cells(g)) /\ Total(g) = Total(f) - f[th] + g[th]
  BY <1>3, TotalChanges
<1> QED
  BY <1>1, <1>2, <1>4, <1>5
LEMMA ActiveKept ==
  ASSUME Typed, Placed, Typed', Placed', Counted, NEW th \in Thread, NEW m \in Int, NEW n \in Int,
         \A a \in Thread : a # th => InProgress'[a] = InProgress[a],
         InProgress'[th] = InProgress[th] + m,
         stopped' = stopped, active' = active + n,
         Cardinality(queued') + Len(outq') = Cardinality(queued) + Len(outq) + (n - m)
  PROVE  IsFiniteSet(Cells(InProgress))' /\ ActiveCounts'
<1>1. /\ IsFiniteSet(Cells(InProgress))'
      /\ Total(InProgress)' = Total(InProgress) - InProgress[th] + InProgress'[th]
  BY ProgressChanges
<1>2. InProgress[th] \in Int /\ Total(InProgress) \in Int
  BY SumsTyped, CountsNat
<1>3. Total(InProgress)' = Total(InProgress) + m
  BY <1>1, <1>2
<1>4. /\ Cardinality(queued) \in Int /\ Len(outq) \in Int
      /\ Cardinality(queued') \in Int /\ Len(outq') \in Int
  <2>1. IsFiniteSet(queued') /\ outq' \in Seq({"ok", "exc"})
    BY PoolTyped, FS_Subset DEF Typed
  <2>2. Cardinality(queued') \in Int
    BY <2>1, FS_CardinalityType
  <2> QED
    BY <2>1, <2>2, LenOf, CountsNat
<1>5. ASSUME ~ stopped'
      PROVE  active' = Cardinality(queued') + Len(outq') + Total(InProgress)'
  <2>1. ~ stopped
    BY <1>5
  <2>2. active = Cardinality(queued) + Len(outq) + Total(InProgress)
    BY <2>1 DEF Counted, ActiveCounts
  <2>3. \A c, l, c1, l1, t : c \in Int /\ l \in Int /\ c1 \in Int /\ l1 \in Int /\ t \in Int
           /\ c1 + l1 = c + l + (n - m) => (c + l + t) + n = c1 + l1 + (t + m)
    OBVIOUS
  <2>4. (Cardinality(queued) + Len(outq) + Total(InProgress)) + n
          = Cardinality(queued') + Len(outq') + (Total(InProgress) + m)
    BY <1>2, <1>4, <2>3
  <2> QED
    BY <1>3, <2>2, <2>4
<1> QED
  BY <1>1, <1>5 DEF ActiveCounts

LEMMA UsageKept ==
  ASSUME Counted, usage' = usage,
         \A w \in Worker : (calls'[w] = <<>> <=> calls[w] = <<>>) /\ (calls[w] # <<>> => Taken(w)' = Taken(w))
  PROVE  (\A r \in Resource : IsFiniteSet(Cells(Load(r)))') /\ CapRespected'
<1>1. \A r \in Resource : Load(r)' = Load(r)
  BY DEF Load
<1>2. \A r \in Resource : Cells(Load(r))' = Cells(Load(r)) /\ Total(Load(r))' = Total(Load(r))
  BY <1>1 DEF Cells, Total
<1>3. \A r \in Resource : IsFiniteSet(Cells(Load(r)))' /\ usage'[r] = Total(Load(r))'
  BY <1>2 DEF Counted, CapRespected
<1>4. \E cap \in Caps : \A r \in Resource : usage'[r] <= cap[r]
  BY DEF Counted, CapRespected
<1> QED
  BY <1>3, <1>4 DEF CapRespected

LEMMA CountedAddCheck ==
  ASSUME Typed, Placed, Typed', Placed', Counted, NEW th \in Thread, NEW j \in Job, AddCheck(th, j)
  PROVE  Counted'
<1>1. /\ calls' \in [Thread -> Seq(Frame)] /\ \A a \in Thread : a # th => calls'[a] = calls[a]
      /\ Len(calls'[th]) = Len(calls[th]) /\ 1 \in DOMAIN calls[th] /\ calls'[th] # <<>>
      /\ \A k \in DOMAIN calls[th] : calls'[th][k].job = calls[th][k].job
  BY AddCheckDoes
<1>2. UNCHANGED <<queued, usage, active, outq, stopped, pc>>
  BY DEF AddCheck
<1>3. calls[th] # <<>>
  BY <1>1
<1>4. \A a \in Thread : Len(calls'[a]) = Len(calls[a])
  BY <1>1
<1>5. InProgress' = InProgress
  BY <1>2, <1>4 DEF InProgress
<1>6. InProgress[th] \in Int
  BY SumsTyped
<1>7. IsFiniteSet(Cells(InProgress))' /\ ActiveCounts'
  BY <1>2, <1>5 DEF Counted, ActiveCounts
<1>8. \A w \in Worker : (calls'[w] = <<>> <=> calls[w] = <<>>) /\ (calls[w] # <<>> => Taken(w)' = Taken(w))
  <2> TAKE w \in Worker
  <2>1. CASE w = th
    <3>1. Len(calls[w]) \in DOMAIN calls[w]
      BY <1>3, <2>1, TakenTyped
    <3> QED
      BY <1>1, <1>3, <2>1, <3>1 DEF Taken
  <2>2. CASE w # th
    BY <1>1, <2>2 DEF Taken, Thread
  <2> QED
    BY <2>1, <2>2
<1>9. (\A r \in Resource : IsFiniteSet(Cells(Load(r)))') /\ CapRespected'
  BY <1>2, <1>8, UsageKept
<1> QED
  BY <1>7, <1>9 DEF Counted

LEMMA CountedAddPush ==
  ASSUME Typed, Placed, Typed', Placed', Counted, NEW th \in Thread, AddPush(th),
         adding[th] \notin queued
  PROVE  Counted'
<1>1. /\ active' = active + 1 /\ queued' = queued \cup {adding[th]}
      /\ UNCHANGED <<usage, outq, stopped, calls>>
  BY DEF AddPush
<1>2. Notify(pc) \/ UNCHANGED pc
  BY DEF AddPush
<1>3. \A a \in Thread : pc'[a] = "release" <=> pc[a] = "release"
  <2>1. pc \in [Thread -> WorkerAt \cup MainAt]
    BY DEF Typed
  <2>2. \A a \in Thread : pc'[a] = pc[a] \/ (pc[a] = "wait" /\ pc'[a] = "check")
    BY <1>2, <2>1, NotifyDoes
  <2> QED
    BY <2>2
<1>4. InProgress' = InProgress
  BY <1>1, <1>3 DEF InProgress
<1>5. InProgress'[th] = InProgress[th] + 0
  BY <1>4, SumsTyped
<1>6. Cardinality(queued') = Cardinality(queued) + 1
  BY <1>1, CountsNat, FS_AddElement
<1>7. Cardinality(queued') + Len(outq') = Cardinality(queued) + Len(outq) + (1 - 0)
  BY <1>1, <1>6, CountsNat
<1>8. IsFiniteSet(Cells(InProgress))' /\ ActiveCounts'
  <2>1. \A a \in Thread : a # th => InProgress'[a] = InProgress[a]
    BY <1>4
  <2>2. PICK m \in Int : m = 0
    OBVIOUS
  <2>3. InProgress'[th] = InProgress[th] + m
    BY <1>5, <2>2
  <2>4. Cardinality(queued') + Len(outq') = Cardinality(queued) + Len(outq) + (1 - m)
    BY <1>7, <2>2
  <2>5. stopped' = stopped /\ active' = active + 1
    BY <1>1
  <2> QED
    BY <2>1, <2>3, <2>4, <2>5, ActiveKept
<1>9. (\A r \in Resource : IsFiniteSet(Cells(Load(r)))') /\ CapRespected'
  BY <1>1, UsageKept DEF Taken
<1> QED
  BY <1>8, <1>9 DEF Counted

LEMMA CountedAddInplace ==
  ASSUME Typed, Placed, Typed', Placed', Counted, NEW th \in Thread, AddInplace(th)
  PROVE  Counted'
<1>1. /\ pc[th] = "run" /\ \A a \in Thread : a # th => calls'[a] = calls[a]
      /\ Len(calls'[th]) = Len(calls[th]) + 1 /\ calls'[th] # <<>>
      /\ \A k \in DOMAIN calls[th] : calls'[th][k + 1] = calls[th][k]
  BY AddInplaceDoes
<1>2. UNCHANGED <<queued, usage, outq, stopped, pc>> /\ active' = active + 1
  BY DEF AddInplace
<1>3. calls[th] # <<>>
  BY <1>1, InCall
<1>4. InProgress'[th] = InProgress[th] + 1
  <2>1. InProgress'[th] = Len(calls'[th]) - (IF th = Main THEN 1 ELSE 0)
    BY <1>1, <1>2 DEF InProgress
  <2>2. InProgress[th] = Len(calls[th]) - (IF th = Main THEN 1 ELSE 0) /\ Len(calls[th]) \in Nat
    BY <1>1, InProgressTyped
  <2> QED
    BY <1>1, <2>1, <2>2
<1>5. \A a \in Thread : a # th => InProgress'[a] = InProgress[a]
  BY <1>1, <1>2 DEF InProgress
<1>6. Cardinality(queued') + Len(outq') = Cardinality(queued) + Len(outq) + (1 - 1)
  BY <1>2, CountsNat
<1>7. IsFiniteSet(Cells(InProgress))' /\ ActiveCounts'
  BY <1>2, <1>4, <1>5, <1>6, ActiveKept
<1>8. \A w \in Worker : (calls'[w] = <<>> <=> calls[w] = <<>>) /\ (calls[w] # <<>> => Taken(w)' = Taken(w))
  <2> TAKE w \in Worker
  <2>1. CASE w = th
    <3>1. Len(calls[w]) \in DOMAIN calls[w]
      BY <1>3, <2>1, TakenTyped
    <3>2. calls'[w][Len(calls'[w])] = calls[w][Len(calls[w])]
      BY <1>1, <2>1, <3>1
    <3> QED
      BY <1>1, <1>3, <2>1, <3>2 DEF Taken
  <2>2. CASE w # th
    BY <1>1, <2>2 DEF Taken, Thread
  <2> QED
    BY <2>1, <2>2
<1>9. (\A r \in Resource : IsFiniteSet(Cells(Load(r)))') /\ CapRespected'
  BY <1>2, <1>8, UsageKept
<1> QED
  BY <1>7, <1>9 DEF Counted

LEMMA CountedEndCall ==
  ASSUME Typed, Placed, Typed', Placed', Counted, NEW th \in Thread, EndCall(th)
  PROVE  Counted'
<1>1. pc[th] = "run" /\ Len(outq') = Len(outq) + 1
  BY EndCallDoes
<1>2. UNCHANGED <<queued, usage, active, stopped, adding>>
  BY DEF EndCall
<1>3. Cardinality(queued') + Len(outq') = Cardinality(queued) + Len(outq) + (0 - (-1))
  BY <1>1, <1>2, CountsNat
<1>4. calls[th] # <<>> /\ active \in Int
  BY <1>1, InCall DEF Typed
<1>5. CASE /\ th \in Worker /\ Len(calls[th]) = 1 /\ calls' = calls
           /\ pc' = [pc EXCEPT ![th] = "release"]
  <2>1. pc'[th] = "release" /\ \A a \in Thread : a # th => pc'[a] = pc[a]
    BY <1>5 DEF Typed
  <2>2. th # Main
    BY <1>5, PoolTyped
  <2>3. InProgress'[th] = InProgress[th] + (-1)
    <3>1. InProgress'[th] = Len(calls[th]) - 1
      BY <1>5, <2>1 DEF InProgress
    <3>2. InProgress[th] = Len(calls[th]) - 0
      BY <1>1, <2>2 DEF InProgress
    <3> QED
      BY <1>5, <3>1, <3>2
  <2>4. \A a \in Thread : a # th => InProgress'[a] = InProgress[a]
    BY <1>5, <2>1 DEF InProgress
  <2>5. active' = active + 0
    BY <1>2, <1>4
  <2>6. IsFiniteSet(Cells(InProgress))' /\ ActiveCounts'
    BY <1>2, <1>3, <2>3, <2>4, <2>5, ActiveKept
  <2>7. (\A r \in Resource : IsFiniteSet(Cells(Load(r)))') /\ CapRespected'
    BY <1>2, <1>5, UsageKept DEF Taken
  <2> QED
    BY <2>6, <2>7 DEF Counted
<1>6. CASE /\ pc' = pc /\ Len(calls[th]) > 1
           /\ \A a \in Thread : a # th => calls'[a] = calls[a]
           /\ Len(calls'[th]) = Len(calls[th]) - 1 /\ calls'[th] # <<>>
           /\ calls' \in [Thread -> Seq(Frame)]
           /\ \A k \in DOMAIN calls'[th] :
                    k + 1 \in DOMAIN calls[th] /\ calls'[th][k] = calls[th][k + 1]
  <2>1. InProgress'[th] = InProgress[th] + (-1)
    <3>1. InProgress'[th] = Len(calls'[th]) - (IF th = Main THEN 1 ELSE 0)
      BY <1>1, <1>6 DEF InProgress
    <3>2. InProgress[th] = Len(calls[th]) - (IF th = Main THEN 1 ELSE 0) /\ Len(calls[th]) \in Nat
      BY <1>1, InProgressTyped
    <3> QED
      BY <1>6, <3>1, <3>2
  <2>2. \A a \in Thread : a # th => InProgress'[a] = InProgress[a]
    BY <1>6 DEF InProgress
  <2>3. active' = active + 0
    BY <1>2, <1>4
  <2>4. IsFiniteSet(Cells(InProgress))' /\ ActiveCounts'
    BY <1>2, <1>3, <2>1, <2>2, <2>3, ActiveKept
  <2>5. \A w \in Worker : (calls'[w] = <<>> <=> calls[w] = <<>>) /\ (calls[w] # <<>> => Taken(w)' = Taken(w))
    <3> TAKE w \in Worker
    <3>1. CASE w = th
      <4>1. calls'[th] \in Seq(Frame) /\ Len(calls[th]) \in Nat
        BY <1>6, InProgressTyped
      <4>2. Len(calls'[th]) \in DOMAIN calls'[th]
        BY <1>6, <4>1, LenOf
      <4>3. calls'[th][Len(calls'[th])] = calls[th][Len(calls[th])]
        BY <1>6, <4>1, <4>2
      <4> QED
        BY <1>4, <1>6, <3>1, <4>3 DEF Taken
    <3>2. CASE w # th
      BY <1>6, <3>2 DEF Taken, Thread
    <3> QED
      BY <3>1, <3>2
  <2>6. (\A r \in Resource : IsFiniteSet(Cells(Load(r)))') /\ CapRespected'
    BY <1>2, <2>5, UsageKept
  <2> QED
    BY <2>4, <2>6 DEF Counted
<1> QED
  BY <1>5, <1>6, EndCallDoes
LEMMA CountedTake ==
  ASSUME Typed, Placed, Typed', Placed', Counted, NEW w \in Worker, Take(w)
  PROVE  Counted'
<1>1. PICK cap \in Caps, j \in queued :
           /\ pc[w] = "look" /\ calls[w] = <<>>
           /\ \A r \in Resource : Need[j][r] + usage[r] <= cap[r]
           /\ usage' = [r \in Resource |-> usage[r] + Need[j][r]]
           /\ queued' = queued \ {j}
           /\ calls'[w] = <<Call(j)>> /\ \A a \in Thread : a # w => calls'[a] = calls[a]
           /\ pc'[w] = "run"
           /\ \A a \in Thread : a # w =>
                pc'[a] = pc[a] \/ (a \in Worker /\ pc[a] = "wait" /\ pc'[a] = "check")
  BY TakeDoes
<1>2. UNCHANGED <<active, outq, stopped, adding>>
  BY DEF Take
<1>3. /\ w \in Thread /\ w # Main /\ j \in Job /\ active \in Int
      /\ \A r \in Resource : Need[j][r] \in Nat /\ usage[r] \in Int
  BY PoolTyped DEF Thread, Typed
<1>4. Len(calls'[w]) = 1 /\ calls'[w] # <<>> /\ Taken(w)' = j
  <2>1. Len(calls'[w]) = 1 /\ calls'[w] # <<>> /\ calls'[w][1] = Call(j)
    BY <1>1
  <2>2. Call(j).job = j
    BY <1>3, CallTyped
  <2> QED
    BY <2>1, <2>2 DEF Taken
<1>5. InProgress'[w] = InProgress[w] + 1
  <2>1. InProgress'[w] = 1 - 0
    BY <1>1, <1>3, <1>4 DEF InProgress
  <2>2. InProgress[w] = Len(calls[w]) - 0
    BY <1>1, <1>3 DEF InProgress
  <2>3. Len(calls[w]) = 0
    BY <1>1
  <2> QED
    BY <2>1, <2>2, <2>3
<1>6. \A a \in Thread : a # w => InProgress'[a] = InProgress[a]
  BY <1>1 DEF InProgress
<1>7. Cardinality(queued') = Cardinality(queued) - 1
  BY <1>1, CountsNat, FS_RemoveElement
<1>8. IsFiniteSet(Cells(InProgress))' /\ ActiveCounts'
  <2>1. PICK n \in Int : n = 0
    OBVIOUS
  <2>2. active' = active + n
    BY <1>2, <1>3, <2>1
  <2>3. Cardinality(queued') + Len(outq') = Cardinality(queued) + Len(outq) + (n - 1)
    BY <1>2, <1>7, <2>1, CountsNat
  <2>4. stopped' = stopped
    BY <1>2
  <2> QED
    BY <1>3, <1>5, <1>6, <2>2, <2>3, <2>4, ActiveKept
<1>9. \A r \in Resource : \A v \in Worker : v # w => Load(r)'[v] = Load(r)[v]
  BY <1>1 DEF Load, Taken, Thread
<1>10. \A r \in Resource : usage'[r] = usage[r] - Load(r)[w] + Load(r)'[w]
  <2> TAKE r \in Resource
  <2>1. Load(r)[w] = 0
    BY <1>1 DEF Load
  <2>2. Load(r)'[w] = Need[j][r]
    BY <1>4 DEF Load
  <2> QED
    BY <1>1, <1>3, <2>1, <2>2
<1>11. \A r \in Resource : IsFiniteSet(Cells(Load(r)))' /\ usage'[r] = Total(Load(r))'
  BY <1>9, <1>10, UsageChanges
<1>12. \A r \in Resource : usage'[r] <= cap[r]
  BY <1>1, <1>3
<1> QED
  BY <1>8, <1>11, <1>12 DEF Counted, CapRespected

LEMMA CountedRelease ==
  ASSUME Typed, Placed, Typed', Placed', Counted, NEW w \in Worker, Release(w)
  PROVE  Counted'
<1>1. /\ pc[w] = "release" /\ Len(calls[w]) = 1 /\ calls[w][1].job \in Job
      /\ usage' = [r \in Resource |-> usage[r] - Need[calls[w][1].job][r]]
      /\ calls'[w] = <<>> /\ \A a \in Thread : a # w => calls'[a] = calls[a]
      /\ pc'[w] = "check"
      /\ \A a \in Thread : a # w =>
                pc'[a] = pc[a] \/ (a \in Worker /\ pc[a] = "wait" /\ pc'[a] = "check")
  BY ReleaseDoes
<1>2. UNCHANGED <<queued, active, outq, stopped, adding>>
  BY DEF Release
<1>3. w \in Thread /\ w # Main /\ active \in Int /\ \A r \in Resource : usage[r] \in Int
  BY PoolTyped DEF Thread, Typed
<1>4. InProgress'[w] = InProgress[w]
  <2>1. InProgress'[w] = Len(calls'[w]) - 0
    BY <1>1, <1>3 DEF InProgress
  <2>2. InProgress[w] = Len(calls[w]) - 1
    BY <1>1, <1>3 DEF InProgress
  <2>3. Len(calls'[w]) = 0
    BY <1>1
  <2> QED
    BY <1>1, <2>1, <2>2, <2>3
<1>5. \A a \in Thread : a # w => InProgress'[a] = InProgress[a]
  BY <1>1 DEF InProgress
<1>6. IsFiniteSet(Cells(InProgress))' /\ ActiveCounts'
  <2>1. PICK n \in Int : n = 0
    OBVIOUS
  <2>2. active' = active + n
    BY <1>2, <1>3, <2>1
  <2>3. Cardinality(queued') + Len(outq') = Cardinality(queued) + Len(outq) + (n - n)
    BY <1>2, <2>1, CountsNat
  <2>4. InProgress'[w] = InProgress[w] + n
    BY <1>3, <1>4, <2>1, SumsTyped
  <2>5. stopped' = stopped
    BY <1>2
  <2> QED
    BY <1>3, <1>5, <2>2, <2>3, <2>4, <2>5, ActiveKept
<1>7. \A r \in Resource : \A v \in Worker : v # w => Load(r)'[v] = Load(r)[v]
  BY <1>1 DEF Load, Taken, Thread
<1>8. \A r \in Resource : /\ Load(r)'[w] = 0 /\ Load(r)[w] \in Nat
                          /\ usage'[r] = usage[r] - Load(r)[w]
  <2> TAKE r \in Resource
  <2>1. Load(r)'[w] = 0
    BY <1>1 DEF Load
  <2>2. calls[w] # <<>>
    BY <1>1 DEF Placed
  <2>3. Load(r)[w] = Need[calls[w][1].job][r]
    BY <1>1, <2>2 DEF Load, Taken
  <2>4. Need[calls[w][1].job][r] \in Nat
    BY <1>1, PoolTyped
  <2> QED
    BY <1>1, <2>1, <2>3, <2>4
<1>9. \A r \in Resource : usage'[r] = usage[r] - Load(r)[w] + Load(r)'[w]
  BY <1>3, <1>8
<1>10. \A r \in Resource : IsFiniteSet(Cells(Load(r)))' /\ usage'[r] = Total(Load(r))'
  BY <1>7, <1>9, UsageChanges
<1>11. \E cap \in Caps : \A r \in Resource : usage'[r] <= cap[r]
  <2>1. PICK cap \in Caps : \A r \in Resource : usage[r] <= cap[r]
    BY DEF Counted, CapRespected
  <2>2. \A r \in Resource : cap[r] \in Nat
    BY PoolTyped
  <2>3. \A r \in Resource : usage'[r] <= cap[r]
    BY <1>3, <1>8, <2>1, <2>2
  <2> QED
    BY <2>3
<1> QED
  BY <1>6, <1>10, <1>11 DEF Counted, CapRespected

LEMMA CountedQuiet ==
  ASSUME Typed, Placed, Typed', Placed', Counted, Quiet
  PROVE  Counted'
<1>1. UNCHANGED <<queued, usage, calls, adding>> /\ Moved /\ Paid
  BY QuietDoes
<1>2. \A w \in Worker : pc'[w] = "release" <=> pc[w] = "release"
  BY <1>1 DEF Moved
<1>3. InProgress' = InProgress
  BY <1>1, <1>2 DEF InProgress, Thread
<1>4. Cells(InProgress)' = Cells(InProgress) /\ Total(InProgress)' = Total(InProgress)
  BY <1>3 DEF Cells, Total
<1>5. ActiveCounts'
  <2>1. CASE active' = active /\ outq' = outq /\ stopped' = stopped
    BY <1>1, <1>4, <2>1 DEF Counted, ActiveCounts
  <2>2. CASE stopped'
    BY <2>2 DEF ActiveCounts
  <2>3. CASE Drawn /\ stopped' = stopped
    <3>1. active' = active - 1 /\ Len(outq') = Len(outq) - 1
      BY <2>3 DEF Drawn
    <3>2. ASSUME ~ stopped'
          PROVE  active' = Cardinality(queued') + Len(outq') + Total(InProgress)'
      <4>1. ~ stopped
        BY <2>3, <3>2
      <4>2. active = Cardinality(queued) + Len(outq) + Total(InProgress)
        BY <4>1 DEF Counted, ActiveCounts
      <4> QED
        BY <1>1, <1>4, <3>1, <4>2, CountsNat
    <3> QED
      BY <3>2 DEF ActiveCounts
  <2> QED
    BY <1>1, <2>1, <2>2, <2>3 DEF Paid
<1>6. (\A r \in Resource : IsFiniteSet(Cells(Load(r)))') /\ CapRespected'
  BY <1>1, UsageKept DEF Taken
<1> QED
  BY <1>4, <1>5, <1>6 DEF Counted

-----------------------------------------------------------------------------
LEMMA PoolInit == Init => PoolInv
<1> SUFFICES ASSUME Init
             PROVE  PoolInv
  OBVIOUS
<1>1. /\ queued = {} /\ usage = [r \in Resource |-> 0] /\ active = 0 /\ outq = <<>>
      /\ stopped = FALSE
      /\ pc = [th \in Thread |-> IF th = Main THEN "run" ELSE "check"]
      /\ calls = [th \in Thread |-> IF th = Main THEN <<Call(None)>> ELSE <<>>]
      /\ adding = [th \in Thread |-> None]
  BY DEF Init
<1>2. /\ Main \in Thread /\ Main \notin Worker /\ \A w \in Worker : w \in Thread
      /\ Call(None) \in Frame /\ Call(None).job = None /\ Call(None).todo = MainJobs
  BY PoolTyped, CallTyped DEF Thread
<1>3. calls \in [Thread -> Seq(Frame)]
  <2>1. <<Call(None)>> \in Seq(Frame) /\ <<>> \in Seq(Frame)
    BY <1>2
  <2> QED
    BY <1>1, <2>1
<1>4. Typed
  <2>1. outq \in Seq({"ok", "exc"})
    BY <1>1
  <2>2. pc \in [Thread -> WorkerAt \cup MainAt]
    BY <1>1 DEF WorkerAt, MainAt
  <2>3. usage \in [Resource -> Int]
    BY <1>1
  <2>4. adding \in [Thread -> Job \cup {None}]
    BY <1>1
  <2>5. stopped \in BOOLEAN /\ active \in Nat /\ queued \subseteq Job \ Inplace
    BY <1>1
  <2> QED
    BY <1>3, <2>1, <2>2, <2>3, <2>4, <2>5 DEF Typed
<1>5. /\ calls[Main] = <<Call(None)>> /\ \A w \in Worker : calls[w] = <<>>
      /\ pc[Main] = "run" /\ \A w \in Worker : pc[w] = "check"
  BY <1>1, <1>2
<1>6. /\ Len(calls[Main]) = 1 /\ DOMAIN calls[Main] = {1} /\ calls[Main] # <<>>
      /\ calls[Main][1] = Call(None)
      /\ \A w \in Worker : DOMAIN calls[w] = {} /\ Len(calls[w]) = 0
  BY <1>5
<1>7. Placed
  BY <1>1, <1>2, <1>5, <1>6 DEF Placed, WorkerAt, MainAt
<1>8. Once({})
  <2>1. \A th \in Thread : \A k \in DOMAIN calls[th] : th = Main /\ k = 1
    BY <1>6 DEF Thread
  <2>2. Waiting = {}
    BY <1>1, PoolTyped DEF Waiting
  <2>3. \A th \in Thread : \A k \in DOMAIN calls[th] :
          calls[th][k].job = None /\ calls[th][k].todo = MainJobs
    BY <1>2, <1>6, <2>1
  <2>4. \A th \in Thread : adding[th] = None
    BY <1>1
  <2>5. queued = {}
    BY <1>1
  <2> QED
    BY <1>2, <2>1, <2>2, <2>3, <2>4, <2>5 DEF Once
<1>9. \A r \in Resource : IsFiniteSet(Cells(Load(r))) /\ Total(Load(r)) = 0
  <2> TAKE r \in Resource
  <2>1. Load(r) \in [Worker -> Nat] /\ \A w \in Worker : Load(r)[w] = 0
    BY <1>5 DEF Load
  <2> QED
    BY <2>1, TotalOfZero
<1>10. IsFiniteSet(Cells(InProgress)) /\ Total(InProgress) = 0
  <2>1. InProgress[Main] = 0
    BY <1>2, <1>6 DEF InProgress
  <2>2. \A w \in Worker : InProgress[w] = 0
    BY <1>2, <1>5, <1>6 DEF InProgress
  <2>3. \A th \in Thread : InProgress[th] = 0
    BY <2>1, <2>2 DEF Thread
  <2>4. InProgress \in [Thread -> Nat]
    BY <1>4, <1>7, InProgressTyped
  <2> QED
    BY <2>3, <2>4, TotalOfZero
<1>11. ActiveCounts
  <2>1. Cardinality(queued) = 0 /\ Len(outq) = 0
    BY <1>1, FS_EmptySet
  <2> QED
    BY <1>1, <1>10, <2>1 DEF ActiveCounts
<1>12. CapRespected
  <2>1. PICK cap \in Caps : TRUE
    BY PoolTyped
  <2>2. \A r \in Resource : usage[r] <= cap[r]
    BY <1>1, PoolTyped
  <2> QED
    BY <1>1, <1>9, <2>2 DEF CapRespected
<1> QED
  BY <1>4, <1>7, <1>8, <1>9, <1>10, <1>11, <1>12 DEF PoolInv, Counted, AddedJobs

(* One step of any thread. *)
LEMMA PoolStep == PoolInv /\ [Next]_vars => PoolInv'
<1> SUFFICES ASSUME PoolInv, [Next]_vars
             PROVE  PoolInv'
  OBVIOUS
<1>0. Typed /\ Placed /\ AddedJobs /\ Counted
  BY DEF PoolInv
<1>1. ASSUME NEW th \in Thread, NEW j \in Job, AddCheck(th, j)
      PROVE  PoolInv'
  <2>1. Typed' /\ Placed'
    BY <1>0, <1>1, ShapeAddCheck
  <2>2. AddedJobs' /\ Counted'
    BY <1>0, <1>1, <2>1, OnceAddCheck, CountedAddCheck
  <2> QED
    BY <2>1, <2>2 DEF PoolInv
<1>2. ASSUME NEW th \in Thread, AddPush(th)
      PROVE  PoolInv'
  <2>1. Typed' /\ Placed'
    BY <1>0, <1>2, ShapeAddPush
  <2>2. AddedJobs' /\ adding[th] \notin queued
    BY <1>0, <1>2, OnceAddPush
  <2>3. Counted'
    BY <1>0, <1>2, <2>1, <2>2, CountedAddPush
  <2> QED
    BY <2>1, <2>2, <2>3 DEF PoolInv
<1>3. ASSUME NEW th \in Thread, AddInplace(th)
      PROVE  PoolInv'
  <2>1. Typed' /\ Placed'
    BY <1>0, <1>3, ShapeAddInplace
  <2>2. AddedJobs' /\ Counted'
    BY <1>0, <1>3, <2>1, OnceAddInplace, CountedAddInplace
  <2> QED
    BY <2>1, <2>2 DEF PoolInv
<1>4. ASSUME NEW th \in Thread, EndCall(th)
      PROVE  PoolInv'
  <2>1. Typed' /\ Placed'
    BY <1>0, <1>4, ShapeEndCall
  <2>2. AddedJobs' /\ Counted'
    BY <1>0, <1>4, <2>1, OnceEndCall, CountedEndCall
  <2> QED
    BY <2>1, <2>2 DEF PoolInv
<1>5. ASSUME NEW w \in Worker, Take(w)
      PROVE  PoolInv'
  <2>1. Typed' /\ Placed'
    BY <1>0, <1>5, ShapeTake
  <2>2. AddedJobs' /\ Counted'
    BY <1>0, <1>5, <2>1, OnceTake, CountedTake
  <2> QED
    BY <2>1, <2>2 DEF PoolInv
<1>6. ASSUME NEW w \in Worker, Release(w)
      PROVE  PoolInv'
  <2>1. Typed' /\ Placed'
    BY <1>0, <1>6, ShapeRelease
  <2>2. AddedJobs' /\ Counted'
    BY <1>0, <1>6, <2>1, OnceRelease, CountedRelease
  <2> QED
    BY <2>1, <2>2 DEF PoolInv
<1>7. CASE Quiet
  <2>1. Typed' /\ Placed'
    BY <1>0, <1>7, ShapeQuiet
  <2>2. AddedJobs' /\ Counted'
    BY <1>0, <1>7, <2>1, OnceQuiet, CountedQuiet
  <2> QED
    BY <2>1, <2>2 DEF PoolInv
<1> QED
  BY <1>1, <1>2, <1>3, <1>4, <1>5, <1>6, <1>7, NextCases

THEOREM PoolInvariant == Spec => []PoolInv
BY PoolInit, PoolStep, PTL DEF Spec

(* The state of the pool has its types; the counter of active jobs never   *)
(* falls below zero (next in worker_threads).                              *)
THEOREM PoolTypeOK == Spec => []WorkerThreadsTypeOK
<1>1. PoolInv => WorkerThreadsTypeOK
  <2> SUFFICES ASSUME PoolInv
               PROVE  WorkerThreadsTypeOK
    OBVIOUS
  <2>1. Typed
    BY DEF PoolInv
  <2>2. \A th \in Thread :
          /\ adding[th] \in Job \cup {None}
          /\ calls[th] \in Seq([job : Job \cup {None}, todo : SUBSET Job])
    BY <2>1 DEF Typed, Frame
  <2>3. pc \in [Thread -> {"run", "check", "look", "wait", "release", "dead", "next",
                       "stop", "join", "joining", "over"}]
    BY <2>1 DEF Typed, WorkerAt, MainAt
  <2> QED
    BY <2>1, <2>2, <2>3 DEF Typed, WorkerThreadsTypeOK
<1> QED
  BY <1>1, PoolInvariant, PTL

(* Whatever runs and in whatever order it ends, the resources in use are   *)
(* what the running jobs need, within a cap that calc_cap has returned.    *)
THEOREM PoolCapRespected == Spec => []CapRespected
<1>1. PoolInv => CapRespected
  BY DEF PoolInv, Counted
<1> QED
  BY <1>1, PoolInvariant, PTL

(* _active counts what is queued, in progress or not yet seen by main, so  *)
(* next stops when there is nothing left and not earlier.                  *)
THEOREM PoolActiveCounts == Spec => []ActiveCounts
<1>1. PoolInv => ActiveCounts
  BY DEF PoolInv, Counted
<1> QED
  BY <1>1, PoolInvariant, PTL

-----------------------------------------------------------------------------
(* The resources of the runner: every node fits the machine when it is     *)
(* idle, and cpu:all leaves nothing to others.                             *)
CapTypeInv == opts \in Options /\ node \in Nodes

LEMMA OptionsTyped ==
  ASSUME NEW o \in Options
  PROVE  /\ o.threads \in Nat /\ o.threads > 0 /\ o.testThreads \in Nat
         /\ o.linkThreads \in Nat /\ o.netThreads \in Nat /\ o.ram \in Nat
         /\ o.memoryLimit \in BOOLEAN /\ o.debugger \in BOOLEAN
BY CapAssumption DEF OptionsType

LEMMA NodesTyped ==
  ASSUME NEW n \in Nodes
  PROVE  /\ n.kind \in {"link", "fetch", "test", "compile", "limited"}
         /\ n.cpu \in Nat \cup {All} /\ n.ram \in Nat
BY CapAssumption DEF NodeType

(* With sensible options the test threads are some, and not more than the  *)
(* threads.                                                                *)
LEMMA TestThreadsBounded ==
  ASSUME NEW o \in Options, o.testThreads <= o.threads
  PROVE  TestThreads(o) \in 1 .. o.threads
BY OptionsTyped DEF TestThreads

(* Whatever a test requires, it takes from one to all threads.             *)
LEMMA TestCpuBounded ==
  ASSUME NEW o \in Options, NEW n \in Nodes, o.testThreads <= o.threads
  PROVE  TestCpu(o, n) \in 1 .. o.threads
<1>1. CASE n.cpu = All
  BY <1>1, TestThreadsBounded DEF TestCpu
<1>2. CASE n.cpu # All
  <2>1. n.cpu \in Nat
    BY <1>2, NodesTyped
  <2> QED
    BY <1>2, <2>1, OptionsTyped DEF TestCpu, Least
<1> QED
  BY <1>1, <1>2

(* A node of any kind stays within the cap, also when memory is short.  *)
LEMMA NodeFits ==
  ASSUME NEW o \in Options, NEW n \in Nodes, Sensible(o, n),
         NEW cap \in PossibleCaps(o), NEW r \in RunnerResource
  PROVE  NodeRes(o, n)[r] <= cap[r]
<1>1. /\ o.threads \in Nat /\ o.threads > 0 /\ o.linkThreads \in Nat
      /\ o.linkThreads > 0 /\ o.netThreads \in Nat /\ o.ram \in Nat /\ n.ram \in Nat
      /\ n.ram <= o.ram /\ o.testThreads <= o.threads
  BY OptionsTyped, NodesTyped DEF Sensible
<1>2. Least(o.linkThreads, o.threads) >= 1 /\ Least(o.linkThreads, o.threads) \in Int
  BY <1>1 DEF Least
<1>3. TestThreads(o) >= 1 /\ TestThreads(o) \in Int
  BY <1>1, TestThreadsBounded
<1>4. TestCpu(o, n) \in Int /\ TestCpu(o, n) <= o.threads
  BY <1>1, TestCpuBounded
<1>5. /\ cap.io = Least(o.linkThreads, o.threads) /\ cap.cpu = o.threads
      /\ cap.test = TestThreads(o) /\ cap.download = o.threads + o.netThreads
      /\ cap.upload = o.netThreads /\ cap.mem \in {o.threads, 1} /\ cap.ram = o.ram
  BY DEF PossibleCaps, MaxCap
<1> DEFINE res == NodeRes(o, n)
<1>6. /\ res.io <= cap.io /\ res.cpu <= cap.cpu /\ res.test <= cap.test
      /\ res.download <= cap.download /\ res.upload <= cap.upload
      /\ res.mem <= cap.mem /\ res.ram <= cap.ram
  <2>1. CASE n.kind = "limited"
    <3>1. res = Takes(0, 1, 0, 0, 0, n.ram)
      BY <2>1 DEF NodeRes
    <3> QED
      BY <3>1, <1>1, <1>2, <1>3, <1>5 DEF Takes
  <2>2. CASE n.kind = "link"
    <3>1. res = Takes(1, 0, 0, 0, 1, 0)
      BY <2>2 DEF NodeRes
    <3> QED
      BY <3>1, <1>1, <1>2, <1>3, <1>5 DEF Takes
  <2>3. CASE n.kind = "fetch"
    <3>1. res = Takes(0, 0, 0, 1, 0, 0)
      BY <2>3 DEF NodeRes
    <3> QED
      BY <3>1, <1>1, <1>2, <1>3, <1>5 DEF Takes
  <2>4. CASE n.kind = "test"
    <3>1. res = Takes(0, TestCpu(o, n), 1, 0, 1, 0)
      BY <2>4 DEF NodeRes
    <3> QED
      BY <3>1, <1>1, <1>2, <1>3, <1>4, <1>5 DEF Takes
  <2>5. CASE n.kind = "compile"
    <3>1. res = Takes(0, 1, 0, 0, 1, 0)
      BY <2>5 DEF NodeRes
    <3> QED
      BY <3>1, <1>1, <1>2, <1>3, <1>5 DEF Takes
  <2> QED
    BY <2>1, <2>2, <2>3, <2>4, <2>5, NodesTyped
<1> QED
  BY <1>6 DEF RunnerResource

(* A node that never fits would be waited for without end (run.py res,     *)
(* runner3.py cap): with sensible options there is none.                   *)
THEOREM RunnerCapEveryNodeFits == CapSpec => []EveryNodeFits
<1>1. CapInit => CapTypeInv
  BY DEF CapInit, CapTypeInv
<1>2. CapTypeInv /\ [CapNext]_<<opts, node>> => CapTypeInv'
  BY DEF CapTypeInv, CapNext
<1>3. CapTypeInv => EveryNodeFits
  BY NodeFits DEF CapTypeInv, EveryNodeFits
<1> QED
  BY <1>1, <1>2, <1>3, PTL DEF CapSpec

(* A test that takes all the processors leaves none for a test or a        *)
(* compilation.                                                            *)
LEMMA AllLeavesNone ==
  ASSUME NEW o \in Options, NEW m \in Nodes, NEW n \in Nodes,
         m.kind \in {"test", "compile"}, o.testThreads \in {0, o.threads},
         n.kind = "test", n.cpu = All
  PROVE  NodeRes(o, m)["cpu"] + NodeRes(o, n)["cpu"] > MaxCap(o)["cpu"]
<1>1. o.threads \in Nat /\ o.threads > 0
  BY OptionsTyped
<1>2. TestThreads(o) = o.threads
  BY <1>1 DEF TestThreads
<1>3. MaxCap(o)["cpu"] = o.threads
  BY DEF MaxCap
<1>4. NodeRes(o, n)["cpu"] = o.threads
  BY <1>2 DEF NodeRes, Takes, TestCpu
<1>5. NodeRes(o, m)["cpu"] \in Int /\ NodeRes(o, m)["cpu"] >= 1
  <2>1. CASE m.kind = "compile"
    BY <2>1 DEF NodeRes, Takes
  <2>2. CASE m.kind = "test"
    <3>1. NodeRes(o, m)["cpu"] = TestCpu(o, m)
      BY <2>2 DEF NodeRes, Takes
    <3>2. m.cpu = All \/ m.cpu \in Nat
      BY NodesTyped
    <3> QED
      BY <1>1, <1>2, <3>1, <3>2 DEF TestCpu, Least
  <2> QED
    BY <2>1, <2>2
<1> QED
  BY ONLY <1>1, <1>3, <1>4, <1>5

(* cpu:all means alone as long as tests may use all the threads: no test   *)
(* and no compilation fits beside it (run.py res, runner3.py cap).         *)
THEOREM RunnerCapAllMeansAlone == CapSpec => []AllMeansAlone
<1>1. CapInit => CapTypeInv
  BY DEF CapInit, CapTypeInv
<1>2. CapTypeInv /\ [CapNext]_<<opts, node>> => CapTypeInv'
  BY DEF CapTypeInv, CapNext
<1>3. CapTypeInv => AllMeansAlone
  <2>1. "cpu" \in RunnerResource
    BY DEF RunnerResource
  <2> QED
    BY <2>1, AllLeavesNone DEF CapTypeInv, AllMeansAlone
<1> QED
  BY <1>1, <1>2, <1>3, PTL DEF CapSpec

-----------------------------------------------------------------------------
(* The pool with the resources of the runner. *)

(* Two summands of a sum. *)
LEMMA TwoSummands ==
  ASSUME NEW S, NEW f \in [S -> Nat], IsFiniteSet(Cells(f)), NEW x \in S, NEW y \in S, x # y
  PROVE  f[x] + f[y] <= Total(f)
<1> DEFINE row(z) == {z} \X (1 .. f[z])
<1>1. row(x) \cup row(y) \subseteq Cells(f) /\ row(x) \cap row(y) = {}
  BY DEF Cells
<1>2. /\ IsFiniteSet(row(x)) /\ Cardinality(row(x)) = f[x]
      /\ IsFiniteSet(row(y)) /\ Cardinality(row(y)) = f[y]
  BY RowCount
<1> HIDE DEF row
<1>3. Cardinality(row(x) \cap row(y)) = 0
  BY <1>1, FS_EmptySet
<1>4. Cardinality(row(x) \cup row(y)) = f[x] + f[y] - 0
  BY <1>2, <1>3, FS_Union
<1>5. Cardinality(row(x) \cup row(y)) <= Cardinality(Cells(f))
  BY <1>1, FS_Subset
<1> QED
  BY <1>4, <1>5 DEF Total

(* nodeOf[j] is the node that job j runs; jobs that run none are not in its *)
(* domain.                                                                 *)
NobodyBeside(nodeOf) ==
  \A v, w \in Worker :
    /\ v # w /\ calls[v] # <<>> /\ calls[w] # <<>>
    /\ Taken(v) \in DOMAIN nodeOf /\ Taken(w) \in DOMAIN nodeOf
    /\ nodeOf[Taken(v)].kind = "test" /\ nodeOf[Taken(v)].cpu = All
    => nodeOf[Taken(w)].kind \notin {"test", "compile"}

(* While a worker runs a test that requires cpu:all, no other worker runs  *)
(* a test or a compilation, if tests may use all the threads: the pool of  *)
(* worker_threads with the requirements of run.py and the cap of runner3,  *)
(* whatever else runs and however the cap for memory changes.              *)
THEOREM PoolAllMeansAlone ==
  ASSUME NEW o \in Options, NEW J \in SUBSET Job, NEW nodeOf \in [J -> Nodes],
         Resource = RunnerResource, Caps \subseteq PossibleCaps(o),
         \A j \in J : Need[j] = NodeRes(o, nodeOf[j]),
         o.testThreads \in {0, o.threads}
  PROVE  Spec => []NobodyBeside(nodeOf)
<1>1. PoolInv => NobodyBeside(nodeOf)
  <2> SUFFICES ASSUME PoolInv, NEW v \in Worker, NEW w \in Worker,
                      v # w, calls[v] # <<>>, calls[w] # <<>>, Taken(v) \in J, Taken(w) \in J,
                      nodeOf[Taken(v)].kind = "test", nodeOf[Taken(v)].cpu = All,
                      nodeOf[Taken(w)].kind \in {"test", "compile"}
               PROVE  FALSE
    BY DEF NobodyBeside
  <2>1. "cpu" \in Resource
    BY DEF RunnerResource
  <2>2. PICK f \in [Worker -> Nat] : f = Load("cpu")
    BY <2>1, SumsTyped DEF PoolInv
  <2>3. IsFiniteSet(Cells(f)) /\ usage["cpu"] = Total(f)
    BY <2>1, <2>2 DEF PoolInv, Counted, CapRespected
  <2>4. f[v] + f[w] <= usage["cpu"]
    BY <2>3, TwoSummands
  <2>5. f[v] = NodeRes(o, nodeOf[Taken(v)])["cpu"] /\ f[w] = NodeRes(o, nodeOf[Taken(w)])["cpu"]
    BY <2>2 DEF Load
  <2>6. PICK cap \in Caps : usage["cpu"] <= cap["cpu"]
    BY <2>1 DEF PoolInv, Counted, CapRespected
  <2>7. cap["cpu"] = MaxCap(o)["cpu"]
    BY DEF PossibleCaps, MaxCap
  <2>8. f[w] + f[v] > MaxCap(o)["cpu"]
    BY <2>5, AllLeavesNone
  <2>9. MaxCap(o)["cpu"] \in Int /\ usage["cpu"] \in Int /\ f[v] \in Int /\ f[w] \in Int
    BY <2>1, OptionsTyped DEF MaxCap, PoolInv, Typed
  <2> QED
    BY <2>4, <2>6, <2>7, <2>8, <2>9
<1> QED
  BY <1>1, PoolInvariant, PTL
=============================================================================
