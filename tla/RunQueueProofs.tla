---------------------------- MODULE RunQueueProofs ----------------------------
(***************************************************************************)
(* The run queue, proved for every program of main and of the tasks, every *)
(* number of workers and every order in which tasks are added, dispatched, *)
(* reported, run and fail.  The first invariant, QueueInv, follows the     *)
(* callbacks Topo hands out: a task runs once, after what it depends on.   *)
(* The second one, SecondInv, follows the calls and the counters: the      *)
(* assertions of Topo hold, next() ends only when all is done, and what    *)
(* replay() reads is final.                                                *)
(***************************************************************************)
EXTENDS RunQueue, TopoProofs, SequenceTheorems, WellFoundedInduction

-----------------------------------------------------------------------------
(* The inductive invariant.  A callback that Topo has handed out is a      *)
(* token: it is in one frame of one thread, or in the queue of the pool,   *)
(* or it has been used up by running the task.                             *)

Owns(f, t) == \/ f.op = "fire" /\ t \in f.tasks
              \/ f.op \in {"put", "run"} /\ f.task = t

Catch == {"run", "done", "main", "dist", "end"}

(* Whoever throws is caught.                                               *)
Grounded ==
  \A th \in Thread :
    /\ stack[th] # <<>> => stack[th][Len(stack[th])].op \in Catch \cup {"take"}
    /\ \A k \in DOMAIN stack[th] : stack[th][k].op = "take" => Len(stack[th]) = 1

Alone ==
  \A a, b \in Thread : \A i \in DOMAIN stack[a], j \in DOMAIN stack[b] : \A t \in Node :
    Owns(stack[a][i], t) /\ Owns(stack[b][j], t) => a = b /\ i = j

FrameOK(f) ==
  \A t \in Node : Owns(f, t) =>
    /\ fired[t] > 0 /\ t \notin queued
    /\ f.op = "run" => runs[t] = 1 /\ t \notin semi /\ t \notin raised
    /\ f.op # "run" => runs[t] = 0
    /\ f.op = "put" => told[t] = IterDeps(t)
Owned == \A th \in Thread : \A k \in DOMAIN stack[th] : FrameOK(stack[th][k])

TaskOK(t) ==
  /\ runs[t] \in {0, 1}
  /\ t \in queued => fired[t] > 0 /\ runs[t] = 0 /\ told[t] = IterDeps(t)
  /\ runs[t] > 0 => fired[t] > 0 /\ told[t] = IterDeps(t)
  /\ t \in semi \/ t \in raised => runs[t] > 0
  /\ ~ (t \in semi /\ t \in raised)

Stacks == stack \in [Thread -> Seq(Frame)]

(* Who may still schedule a task has it in a frame, or the set of tasks    *)
(* that are not dispatched has it.                                         *)
Holds(f, t) == \/ f.op = "add" /\ f.step \in {"merge", "deps"} /\ f.instr.task = t
               \/ f.op = "dispatch" /\ f.step = "schedule" /\ f.task = t

OneHolder ==
  \A a, b \in Thread : \A i \in DOMAIN stack[a], j \in DOMAIN stack[b] : \A t \in Node :
    Holds(stack[a][i], t) /\ Holds(stack[b][j], t) => a = b /\ i = j

Open == added \ (scheduled \cup notDispatched)
Held ==
  /\ notDispatched \subseteq added \ scheduled
  /\ \A th \in Thread : \A k \in DOMAIN stack[th] : \A t \in Node :
       Holds(stack[th][k], t) => t \in Open

Typed ==
  /\ program \in Programs /\ added \subseteq DOMAIN program.body
  /\ notDispatched \subseteq Node /\ queued \subseteq Node /\ raised \subseteq Node
  /\ outq \in Seq({"ok", "exc"})
  /\ told \in [Node -> SUBSET Node] /\ runs \in [Node -> Nat]

QueueInv ==
  /\ TopoInv /\ Typed /\ Stacks /\ Grounded /\ Alone /\ Owned /\ OneHolder /\ Held
  /\ \A t \in Node : TaskOK(t)

-----------------------------------------------------------------------------
(* A step of a thread takes the innermost c frames off its stack and puts  *)
(* fs in their place.                                                      *)
Moves(th, c, fs) ==
  /\ c \in 0 .. Len(stack[th]) /\ fs \in Seq(Frame) /\ Stacks'
  /\ \A a \in Thread : a # th => stack'[a] = stack[a]
  /\ Len(stack'[th]) = Len(fs) + (Len(stack[th]) - c)
  /\ \A k \in DOMAIN stack'[th] :
       stack'[th][k] = IF k <= Len(fs) THEN fs[k] ELSE stack[th][(k - Len(fs)) + c]

LEMMA ReplaceMoves ==
  ASSUME Stacks, NEW th \in Thread, NEW c \in 0 .. Len(stack[th]), NEW fs \in Seq(Frame),
         stack' = [stack EXCEPT ![th] = fs \o SubSeq(@, c + 1, Len(@))]
  PROVE  Moves(th, c, fs)
<1> DEFINE s == stack[th]
           r == SubSeq(s, c + 1, Len(s))
<1>1. s \in Seq(Frame) /\ Len(s) \in Nat /\ c \in Nat /\ c <= Len(s)
  BY DEF Stacks
<1>2. stack' = [stack EXCEPT ![th] = fs \o r]
  OBVIOUS
<1>3. /\ r \in Seq(Frame) /\ Len(r) = Len(s) - c
      /\ \A i \in 1 .. Len(s) - c : r[i] = s[i + c]
  <2>1. \A i \in c + 1 .. Len(s) : s[i] \in Frame
    BY <1>1
  <2>2. /\ r \in Seq(Frame) /\ Len(r) = IF c + 1 <= Len(s) THEN Len(s) - (c + 1) + 1 ELSE 0
        /\ \A i \in 1 .. Len(s) - (c + 1) + 1 : r[i] = s[(c + 1) + i - 1]
    BY <1>1, <2>1, SubSeqProperties
  <2> HIDE DEF r, s
  <2>3. Len(r) = Len(s) - c /\ Len(s) - (c + 1) + 1 = Len(s) - c
    <3>1. CASE c + 1 <= Len(s)
      BY <1>1, <2>2, <3>1
    <3>2. CASE c = Len(s)
      BY <1>1, <2>2, <3>2
    <3> QED BY <1>1, <3>1, <3>2
  <2>4. \A i \in 1 .. Len(s) - c : (c + 1) + i - 1 = i + c
    BY <1>1
  <2> QED BY <2>2, <2>3, <2>4
<1> HIDE DEF r
<1>4. /\ fs \o r \in Seq(Frame) /\ Len(fs \o r) = Len(fs) + (Len(s) - c)
      /\ \A k \in 1 .. Len(fs \o r) :
           (fs \o r)[k] = IF k <= Len(fs) THEN fs[k] ELSE s[(k - Len(fs)) + c]
  <2>1. /\ fs \o r \in Seq(Frame) /\ Len(fs \o r) = Len(fs) + Len(r)
        /\ \A k \in 1 .. Len(fs) + Len(r) :
             (fs \o r)[k] = IF k <= Len(fs) THEN fs[k] ELSE r[k - Len(fs)]
    BY <1>3, ConcatProperties
  <2>2. \A k \in 1 .. Len(fs) + Len(r) : k > Len(fs) => k - Len(fs) \in 1 .. Len(s) - c
    BY <1>1, <1>3
  <2> QED BY <1>1, <1>3, <2>1, <2>2
<1>5. stack'[th] = fs \o r /\ \A a \in Thread : a # th => stack'[a] = stack[a]
  BY <1>2 DEF Stacks
<1>6. Stacks'
  BY <1>2, <1>4 DEF Stacks
<1>7. DOMAIN stack'[th] = 1 .. Len(fs \o r)
  BY <1>4, <1>5
<1> QED BY <1>4, <1>5, <1>6, <1>7 DEF Moves

LEMMA GotoMoves ==
  ASSUME Stacks, NEW th \in Thread, stack[th] # <<>>, NEW fs \in Seq(Frame), Goto(th, fs)
  PROVE  Moves(th, 1, fs)
<1>1. stack[th] \in Seq(Frame)
  BY DEF Stacks
<1>2. Tail(stack[th]) = SubSeq(stack[th], 1 + 1, Len(stack[th])) /\ 1 \in 0 .. Len(stack[th])
  BY <1>1, TailIsSubSeq
<1>3. stack' = [stack EXCEPT ![th] = fs \o SubSeq(@, 1 + 1, Len(@))]
  BY <1>2 DEF Goto
<1> QED BY <1>2, <1>3, ReplaceMoves

(* A worker without a task has nothing on its stack, or has just looked.   *)
LEMMA SetMoves ==
  ASSUME Stacks, NEW th \in Thread, NEW fs \in Seq(Frame), stack' = [stack EXCEPT ![th] = fs]
  PROVE  Moves(th, Len(stack[th]), fs)
<1>1. stack[th] \in Seq(Frame)
  BY DEF Stacks
<1>2. Len(stack[th]) \in 0 .. Len(stack[th])
  BY <1>1
<1>3. SubSeq(stack[th], Len(stack[th]) + 1, Len(stack[th])) = <<>>
  BY <1>1, SubSeqEmpty
<1>4. fs \o SubSeq(stack[th], Len(stack[th]) + 1, Len(stack[th])) = fs
  BY <1>3, ConcatEmptySeq
<1>5. stack' = [stack EXCEPT ![th] = fs \o SubSeq(@, Len(@) + 1, Len(@))]
  BY <1>4
<1> QED BY <1>2, <1>5, ReplaceMoves

LEMMA MoveGrounded ==
  ASSUME Stacks, Grounded, NEW th \in Thread, NEW c, NEW fs, Moves(th, c, fs),
         c > 0 \/ stack[th] = <<>>,
         c < Len(stack[th]) \/ fs = <<>> \/ fs[Len(fs)].op \in Catch \cup {"take"},
         \A i \in DOMAIN fs : fs[i].op = "take" => Len(fs) = 1 /\ c = Len(stack[th])
  PROVE  Grounded'
<1>1. c \in 0 .. Len(stack[th]) /\ stack[th] \in Seq(Frame) /\ fs \in Seq(Frame)
      /\ stack'[th] \in Seq(Frame)
  BY DEF Moves, Stacks
<1>2. /\ Len(stack'[th]) = Len(fs) + (Len(stack[th]) - c)
      /\ \A k \in 1 .. Len(stack'[th]) :
           stack'[th][k] = IF k <= Len(fs) THEN fs[k] ELSE stack[th][(k - Len(fs)) + c]
  BY <1>1 DEF Moves
<1>3. ASSUME stack'[th] # <<>>
      PROVE  stack'[th][Len(stack'[th])].op \in Catch \cup {"take"}
  <2>1. Len(stack'[th]) \in 1 .. Len(stack'[th])
    BY <1>1, <1>3
  <2>2. CASE c < Len(stack[th])
    <3>1. stack[th] # <<>> /\ Len(stack'[th]) > Len(fs)
          /\ (Len(stack'[th]) - Len(fs)) + c = Len(stack[th])
      BY <1>1, <1>2, <2>2
    <3>2. stack'[th][Len(stack'[th])] = stack[th][Len(stack[th])]
      <4>1. PICK n : n = Len(stack'[th])
        OBVIOUS
      <4>2. n \in 1 .. Len(stack'[th]) /\ ~ (n <= Len(fs)) /\ (n - Len(fs)) + c = Len(stack[th])
        BY <1>1, <2>1, <3>1, <4>1
      <4>3. stack'[th][n] = stack[th][(n - Len(fs)) + c]
        BY <1>2, <4>2
      <4> QED BY <4>1, <4>2, <4>3
    <3> QED BY <3>1, <3>2 DEF Grounded
  <2>3. CASE c = Len(stack[th])
    <3>1. Len(stack'[th]) = Len(fs)
      BY <1>1, <1>2, <2>3
    <3>2. stack'[th][Len(stack'[th])] = fs[Len(fs)]
      <4>1. PICK n : n = Len(fs)
        OBVIOUS
      <4>2. n \in 1 .. Len(stack'[th]) /\ n <= Len(fs) /\ Len(stack'[th]) = n
        BY <1>1, <2>1, <3>1, <4>1
      <4>3. stack'[th][n] = fs[n]
        BY <1>2, <4>2
      <4> QED BY <4>1, <4>2, <4>3
    <3>3. fs # <<>>
      BY <1>1, <2>1, <3>1
    <3> QED BY <2>3, <3>2, <3>3
  <2> QED BY <1>1, <2>2, <2>3
<1>4. ASSUME NEW k \in 1 .. Len(stack'[th]), stack'[th][k].op = "take"
      PROVE  Len(stack'[th]) = 1
  <2>1. CASE k <= Len(fs)
    <3>1. fs[k].op = "take" /\ k \in DOMAIN fs
      BY <1>1, <1>2, <1>4, <2>1
    <3> QED BY <1>1, <1>2, <3>1
  <2>2. CASE k > Len(fs)
    <3> DEFINE m == (k - Len(fs)) + c
    <3>1. m \in DOMAIN stack[th] /\ stack'[th][k] = stack[th][m] /\ m > c
      BY <1>1, <1>2, <2>2
    <3>2. Len(stack[th]) = 1
      BY <1>4, <3>1 DEF Grounded
    <3> QED BY <1>1, <3>1, <3>2
  <2> QED BY <1>1, <2>1, <2>2
<1>5. ASSUME NEW a \in Thread, a # th
      PROVE  stack'[a] = stack[a]
  BY <1>5 DEF Moves
<1>6. DOMAIN stack'[th] = 1 .. Len(stack'[th])
  BY <1>1
<1> QED BY <1>3, <1>4, <1>5, <1>6 DEF Grounded

(* O[f] is what frame f owns, and nothing is owned twice.                  *)
Disjoint(O) ==
  \A a, b \in Thread : \A i \in DOMAIN stack[a], j \in DOMAIN stack[b] : \A t \in Node :
    t \in O[stack[a][i]] /\ t \in O[stack[b][j]] => a = b /\ i = j

(* A frame on the stacks is new, or was there and has nothing in common    *)
(* with those that are gone.                                               *)
LEMMA MoveDisjoint ==
  ASSUME Stacks, NEW O, Disjoint(O), NEW th \in Thread, NEW c, NEW fs, Moves(th, c, fs),
         \A t \in Node : \A i, j \in DOMAIN fs : t \in O[fs[i]] /\ t \in O[fs[j]] => i = j,
         \A t \in Node : \A i \in DOMAIN fs : t \in O[fs[i]] =>
           \/ \E j \in 1 .. c : t \in O[stack[th][j]]
           \/ \A a \in Thread : \A k \in DOMAIN stack[a] : t \notin O[stack[a][k]]
  PROVE  /\ Disjoint(O)'
         /\ \A a \in Thread : \A k \in DOMAIN stack'[a] :
              \/ \E i \in DOMAIN fs : stack'[a][k] = fs[i]
              \/ \E b \in Thread : \E m \in DOMAIN stack[b] :
                   /\ stack'[a][k] = stack[b][m]
                   /\ \A t \in Node : t \in O[stack[b][m]] =>
                        \A j \in 1 .. c : t \notin O[stack[th][j]]
<1>1. /\ c \in 0 .. Len(stack[th]) /\ fs \in Seq(Frame)
      /\ \A a \in Thread : stack[a] \in Seq(Frame) /\ stack'[a] \in Seq(Frame)
  BY DEF Moves, Stacks
<1>2. /\ Len(stack'[th]) = Len(fs) + (Len(stack[th]) - c)
      /\ \A k \in DOMAIN stack'[th] :
           stack'[th][k] = IF k <= Len(fs) THEN fs[k] ELSE stack[th][(k - Len(fs)) + c]
      /\ \A a \in Thread : a # th => stack'[a] = stack[a]
  BY DEF Moves
<1> DEFINE New(a, k) == a = th /\ k <= Len(fs)
           Pos(a, k) == IF a = th THEN (k - Len(fs)) + c ELSE k
<1>3. ASSUME NEW a \in Thread, NEW k \in DOMAIN stack'[a], New(a, k)
      PROVE  k \in DOMAIN fs /\ stack'[a][k] = fs[k]
  <2>1. k \in 1 .. Len(fs) /\ DOMAIN fs = 1 .. Len(fs)
    BY <1>1, <1>3
  <2> QED BY <1>2, <1>3, <2>1
<1>4. ASSUME NEW a \in Thread, NEW k \in DOMAIN stack'[a], ~ New(a, k)
      PROVE  /\ Pos(a, k) \in DOMAIN stack[a] /\ stack'[a][k] = stack[a][Pos(a, k)]
             /\ a = th => ~ (Pos(a, k) \in 1 .. c)
  <2>1. CASE a # th
    BY <1>2, <2>1
  <2>2. CASE a = th
    <3>1. k \in 1 .. Len(stack'[th]) /\ k > Len(fs) /\ DOMAIN stack[th] = 1 .. Len(stack[th])
      BY <1>1, <1>4, <2>2
    <3>2. (k - Len(fs)) + c \in 1 .. Len(stack[th]) /\ (k - Len(fs)) + c > c
      BY <1>1, <1>2, <3>1
    <3> QED BY <1>1, <1>2, <2>2, <3>1, <3>2
  <2> QED BY <2>1, <2>2
<1>5. ASSUME NEW a \in Thread, NEW k \in DOMAIN stack'[a], ~ New(a, k), NEW t \in Node,
             t \in O[stack[a][Pos(a, k)]]
      PROVE  \A j \in 1 .. c : t \notin O[stack[th][j]]
  <2> SUFFICES ASSUME NEW j \in 1 .. c, t \in O[stack[th][j]] PROVE FALSE
    OBVIOUS
  <2>1. j \in DOMAIN stack[th]
    BY <1>1
  <2>2. a = th /\ Pos(a, k) = j
    BY <1>4, <1>5, <2>1 DEF Disjoint
  <2> QED BY <1>4, <1>5, <2>2
<1>6. ASSUME NEW a \in Thread, NEW k \in DOMAIN stack'[a], ~ New(a, k), NEW t \in Node,
             t \in O[stack'[a][k]], NEW i \in DOMAIN fs, t \in O[fs[i]]
      PROVE  FALSE
  BY <1>4, <1>5, <1>6
<1>7. ASSUME NEW a \in Thread, NEW b \in Thread, NEW k \in DOMAIN stack'[a],
             NEW m \in DOMAIN stack'[b], NEW t \in Node,
             t \in O[stack'[a][k]], t \in O[stack'[b][m]]
      PROVE  a = b /\ k = m
  <2>1. CASE New(a, k) /\ New(b, m)
    BY <1>3, <1>7, <2>1
  <2>2. CASE New(a, k) /\ ~ New(b, m)
    BY <1>3, <1>6, <1>7, <2>2
  <2>3. CASE ~ New(a, k) /\ New(b, m)
    BY <1>3, <1>6, <1>7, <2>3
  <2>4. CASE ~ New(a, k) /\ ~ New(b, m)
    <3>1. a = b /\ Pos(a, k) = Pos(b, m)
      BY <1>4, <1>7, <2>4 DEF Disjoint
    <3>2. k \in Nat /\ m \in Nat
      BY <1>1
    <3> QED BY <1>1, <3>1, <3>2
  <2> QED BY <2>1, <2>2, <2>3, <2>4
<1>8. Disjoint(O)'
  BY <1>7 DEF Disjoint
<1>9. ASSUME NEW a \in Thread, NEW k \in DOMAIN stack'[a]
      PROVE  \/ \E i \in DOMAIN fs : stack'[a][k] = fs[i]
             \/ \E b \in Thread : \E m \in DOMAIN stack[b] :
                  /\ stack'[a][k] = stack[b][m]
                  /\ \A t \in Node : t \in O[stack[b][m]] =>
                       \A j \in 1 .. c : t \notin O[stack[th][j]]
  BY <1>3, <1>4, <1>5
<1> QED BY <1>8, <1>9

LEMMA MoveAlone ==
  ASSUME Stacks, Alone, NEW th \in Thread, NEW c, NEW fs, Moves(th, c, fs),
         \A t \in Node : \A i, j \in DOMAIN fs : Owns(fs[i], t) /\ Owns(fs[j], t) => i = j,
         \A t \in Node : \A i \in DOMAIN fs : Owns(fs[i], t) =>
           \/ \E j \in 1 .. c : Owns(stack[th][j], t)
           \/ \A a \in Thread : \A k \in DOMAIN stack[a] : ~ Owns(stack[a][k], t)
  PROVE  /\ Alone'
         /\ \A a \in Thread : \A k \in DOMAIN stack'[a] :
              \/ \E i \in DOMAIN fs : stack'[a][k] = fs[i]
              \/ \E b \in Thread : \E m \in DOMAIN stack[b] :
                   /\ stack'[a][k] = stack[b][m]
                   /\ \A t \in Node : Owns(stack[b][m], t) =>
                        \A j \in 1 .. c : ~ Owns(stack[th][j], t)
<1>1. PICK O : O = [f \in Frame |-> {t \in Node : Owns(f, t)}]
  OBVIOUS
<1>2. \A f \in Frame : \A t \in Node : t \in O[f] <=> Owns(f, t)
  BY <1>1
<1>3. /\ \A i \in DOMAIN fs : fs[i] \in Frame
      /\ \A a \in Thread : /\ \A k \in DOMAIN stack[a] : stack[a][k] \in Frame
                           /\ \A k \in DOMAIN stack'[a] : stack'[a][k] \in Frame
      /\ \A j \in 1 .. c : stack[th][j] \in Frame
  <2>1. /\ fs \in Seq(Frame) /\ c \in 0 .. Len(stack[th])
        /\ \A a \in Thread : stack[a] \in Seq(Frame) /\ stack'[a] \in Seq(Frame)
    BY DEF Moves, Stacks
  <2> QED BY <2>1
<1>4. Disjoint(O)
  BY <1>2, <1>3 DEF Disjoint, Alone
<1>5. /\ Disjoint(O)'
      /\ \A a \in Thread : \A k \in DOMAIN stack'[a] :
           \/ \E i \in DOMAIN fs : stack'[a][k] = fs[i]
           \/ \E b \in Thread : \E m \in DOMAIN stack[b] :
                /\ stack'[a][k] = stack[b][m]
                /\ \A t \in Node : t \in O[stack[b][m]] =>
                     \A j \in 1 .. c : t \notin O[stack[th][j]]
  BY <1>2, <1>3, <1>4, MoveDisjoint
<1>6. Alone'
  BY <1>2, <1>3, <1>5 DEF Disjoint, Alone
<1> QED BY <1>2, <1>3, <1>5, <1>6

(* What a step has to show of the tasks that wait to be scheduled.         *)
Passes(th, c, fs) ==
  /\ notDispatched' \subseteq added' \ scheduled'
  /\ \A t \in Node : \A i, j \in DOMAIN fs : Holds(fs[i], t) /\ Holds(fs[j], t) => i = j
  /\ \A t \in Node : \A i \in DOMAIN fs : Holds(fs[i], t) =>
       /\ t \in Open'
       /\ \/ \E j \in 1 .. c : Holds(stack[th][j], t)
          \/ \A a \in Thread : \A k \in DOMAIN stack[a] : ~ Holds(stack[a][k], t)
  /\ \A a \in Thread : \A k \in DOMAIN stack[a] : \A t \in Node :
       Holds(stack[a][k], t) /\ (\A j \in 1 .. c : ~ Holds(stack[th][j], t)) => t \in Open'

LEMMA FreePasses ==
  ASSUME QueueInv, NEW th, NEW c, NEW fs, UNCHANGED <<added, scheduled, notDispatched>>,
         \A i \in DOMAIN fs : \A t \in Node : ~ Holds(fs[i], t)
  PROVE  Passes(th, c, fs)
BY DEF QueueInv, Held, Open, Passes

LEMMA MoveHeld ==
  ASSUME Stacks, OneHolder, NEW th \in Thread, NEW c, NEW fs, Moves(th, c, fs),
         Passes(th, c, fs)
  PROVE  OneHolder' /\ Held'
<1>1. PICK O : O = [f \in Frame |-> {t \in Node : Holds(f, t)}]
  OBVIOUS
<1>2. \A f \in Frame : \A t \in Node : t \in O[f] <=> Holds(f, t)
  BY <1>1
<1>3. /\ \A i \in DOMAIN fs : fs[i] \in Frame
      /\ \A a \in Thread : /\ \A k \in DOMAIN stack[a] : stack[a][k] \in Frame
                           /\ \A k \in DOMAIN stack'[a] : stack'[a][k] \in Frame
      /\ \A j \in 1 .. c : stack[th][j] \in Frame
  <2>1. /\ fs \in Seq(Frame) /\ c \in 0 .. Len(stack[th])
        /\ \A a \in Thread : stack[a] \in Seq(Frame) /\ stack'[a] \in Seq(Frame)
    BY DEF Moves, Stacks
  <2> QED BY <2>1
<1>4. Disjoint(O)
  BY <1>2, <1>3 DEF Disjoint, OneHolder
<1>5. /\ \A t \in Node : \A i, j \in DOMAIN fs : t \in O[fs[i]] /\ t \in O[fs[j]] => i = j
      /\ \A t \in Node : \A i \in DOMAIN fs : t \in O[fs[i]] =>
           \/ \E j \in 1 .. c : t \in O[stack[th][j]]
           \/ \A a \in Thread : \A k \in DOMAIN stack[a] : t \notin O[stack[a][k]]
  BY <1>2, <1>3 DEF Passes
<1>6. /\ Disjoint(O)'
      /\ \A a \in Thread : \A k \in DOMAIN stack'[a] :
           \/ \E i \in DOMAIN fs : stack'[a][k] = fs[i]
           \/ \E b \in Thread : \E m \in DOMAIN stack[b] :
                /\ stack'[a][k] = stack[b][m]
                /\ \A t \in Node : t \in O[stack[b][m]] =>
                     \A j \in 1 .. c : t \notin O[stack[th][j]]
  BY <1>4, <1>5, MoveDisjoint
<1>7. OneHolder'
  BY <1>2, <1>3, <1>6 DEF Disjoint, OneHolder
<1>8. Held'
  BY <1>2, <1>3, <1>6 DEF Passes, Held
<1> QED BY <1>7, <1>8

-----------------------------------------------------------------------------
(* What a step has to show of the frames and tasks it touches.             *)
LEMMA StepKeeps ==
  ASSUME QueueInv, [TopoNext]_topoVars, Typed', NEW th \in Thread, NEW c, NEW fs, Moves(th, c, fs),
         Passes(th, c, fs), c > 0 \/ stack[th] = <<>>,
         c < Len(stack[th]) \/ fs = <<>> \/ fs[Len(fs)].op \in Catch \cup {"take"},
         \A i \in DOMAIN fs : fs[i].op = "take" => Len(fs) = 1 /\ c = Len(stack[th]),
         \A t \in Node : \A i, j \in DOMAIN fs : Owns(fs[i], t) /\ Owns(fs[j], t) => i = j,
         \A t \in Node : \A i \in DOMAIN fs : Owns(fs[i], t) =>
           \/ \E j \in 1 .. c : Owns(stack[th][j], t)
           \/ \A a \in Thread : \A k \in DOMAIN stack[a] : ~ Owns(stack[a][k], t),
         \A i \in DOMAIN fs : FrameOK(fs[i])',
         \A t \in Node : TaskOK(t)',
         \A a \in Thread : \A k \in DOMAIN stack[a] : \A t \in Node :
           Owns(stack[a][k], t) /\ (\A j \in 1 .. c : ~ Owns(stack[th][j], t)) =>
             /\ t \in queued' => t \in queued
             /\ t \in semi' => t \in semi
             /\ t \in raised' => t \in raised
             /\ runs'[t] = runs[t] /\ told'[t] = told[t]
  PROVE  QueueInv'
<1>1. TopoInv' /\ Stacks'
  BY TopoInvNext DEF QueueInv, Moves
<1>2. Grounded'
  BY MoveGrounded DEF QueueInv
<1>3. /\ Alone'
      /\ \A a \in Thread : \A k \in DOMAIN stack'[a] :
           \/ \E i \in DOMAIN fs : stack'[a][k] = fs[i]
           \/ \E b \in Thread : \E m \in DOMAIN stack[b] :
                /\ stack'[a][k] = stack[b][m]
                /\ \A t \in Node : Owns(stack[b][m], t) =>
                     \A j \in 1 .. c : ~ Owns(stack[th][j], t)
  BY MoveAlone DEF QueueInv
<1>4. ASSUME NEW f, NEW b \in Thread, NEW m \in DOMAIN stack[b], f = stack[b][m],
             \A t \in Node : Owns(f, t) => \A j \in 1 .. c : ~ Owns(stack[th][j], t)
      PROVE  FrameOK(f)'
  <2> SUFFICES ASSUME NEW t \in Node, Owns(f, t)
               PROVE  /\ fired'[t] > 0 /\ t \notin queued'
                      /\ f.op = "run" => runs'[t] = 1 /\ t \notin semi' /\ t \notin raised'
                      /\ f.op # "run" => runs'[t] = 0
                      /\ f.op = "put" => told'[t] = IterDeps(t)'
    BY DEF FrameOK
  <2>1. /\ fired[t] > 0 /\ t \notin queued
        /\ f.op = "run" => runs[t] = 1 /\ t \notin semi /\ t \notin raised
        /\ f.op # "run" => runs[t] = 0
        /\ f.op = "put" => told[t] = IterDeps(t)
    BY <1>4 DEF QueueInv, Owned, FrameOK
  <2>2. /\ t \in queued' => t \in queued
        /\ t \in semi' => t \in semi
        /\ t \in raised' => t \in raised
        /\ runs'[t] = runs[t] /\ told'[t] = told[t]
    BY <1>4
  <2>3. fired'[t] > 0 /\ IterDeps(t)' = IterDeps(t)
    BY <2>1, FiredStays, FrozenStep DEF QueueInv
  <2> QED BY <2>1, <2>2, <2>3
<1>5. ASSUME NEW a \in Thread, NEW k \in DOMAIN stack'[a], NEW f, f = stack'[a][k]
      PROVE  FrameOK(f)'
  <2>1. CASE \E i \in DOMAIN fs : f = fs[i]
    BY <2>1
  <2>2. CASE \E b \in Thread : \E m \in DOMAIN stack[b] :
               /\ f = stack[b][m]
               /\ \A t \in Node : Owns(stack[b][m], t) =>
                    \A j \in 1 .. c : ~ Owns(stack[th][j], t)
    BY <1>4, <2>2
  <2> QED BY <1>3, <1>5, <2>1, <2>2
<1>6. Owned'
  BY <1>5 DEF Owned, FrameOK
<1>7. OneHolder' /\ Held'
  BY MoveHeld DEF QueueInv
<1> QED BY <1>1, <1>2, <1>3, <1>6, <1>7 DEF QueueInv

-----------------------------------------------------------------------------
(* Frames.                                                                 *)
LEMMA TopFrame ==
  ASSUME Stacks, NEW th \in Thread, stack[th] # <<>>
  PROVE  /\ Top(th) \in Frame /\ 1 \in DOMAIN stack[th] /\ Top(th) = stack[th][1]
         /\ Len(stack[th]) \in Nat \ {0} /\ DOMAIN stack[th] = 1 .. Len(stack[th])
<1>1. stack[th] \in Seq(Frame)
  BY DEF Stacks
<1> QED BY <1>1 DEF Top

LEMMA CallFrame ==
  ASSUME NEW f \in Frame, f.op \in {"main", "run"}
  PROVE  /\ f.op = "run" => f.task \in Node
         /\ [f EXCEPT !.at = @ + 1] \in Frame /\ [f EXCEPT !.at = @ + 1].op = f.op
         /\ \A t \in Node : Owns([f EXCEPT !.at = @ + 1], t) => Owns(f, t)
<1>1. CASE f.op = "main"
  BY <1>1 DEF Frame, Owns
<1>2. CASE f.op = "run"
  BY <1>2 DEF Frame, Owns
<1> QED BY <1>1, <1>2

LEMMA StepFrame ==
  ASSUME NEW f \in Frame, NEW s,
         \/ f.op = "add" /\ s \in {"merge", "deps", "leave"}
         \/ f.op = "dispatch" /\ s \in {"enter", "remove", "schedule", "exit"}
         \/ f.op = "process" /\ s \in {"look", "pending", "counter", "get", "ok", "exc"}
         \/ f.op = "end" /\ s \in {"stop", "join", "over"}
  PROVE  [f EXCEPT !.step = s] \in Frame /\ [f EXCEPT !.step = s].op = f.op
<1>1. CASE f.op = "add"
  BY <1>1 DEF Frame
<1>2. CASE f.op = "dispatch"
  BY <1>2 DEF Frame
<1>3. CASE f.op = "process"
  BY <1>3 DEF Frame
<1>4. CASE f.op = "end"
  BY <1>4 DEF Frame
<1> QED BY <1>1, <1>2, <1>3, <1>4

LEMMA FieldsTyped ==
  ASSUME NEW f \in Frame
  PROVE  /\ f.op \in {"run", "done", "dispatch", "put"} => f.task \in Node
         /\ f.op = "done" => f.how \in {"ok", "exc"}
         /\ f.op = "add" => f.instr \in AddInstr
         /\ f.op \in {"dispatch", "fire", "put"} => f.inplace \in BOOLEAN
         /\ f.op \in {"fire", "sweep"} => f.tasks \subseteq Node
BY DEF Frame

LEMMA FramesTyped ==
  /\ \A s \in {"stop", "join", "over"} : EndFrame(s) \in Frame
  /\ TakeFrame \in Frame /\ DistFrame \in Frame
  /\ \A t \in Node : /\ DoneFrame(t, "ok") \in Frame /\ DoneFrame(t, "exc") \in Frame
                     /\ RunFrame(t, 1) \in Frame
  /\ \A S \in SUBSET Node : SweepFrame(S) \in Frame
  /\ \A s \in {"look", "pending"} : ProcessFrame(s) \in Frame
  /\ \A i \in AddInstr, s \in {"merge", "deps", "leave"} : AddFrame(i, s) \in Frame
  /\ \A t \in Node, b \in BOOLEAN : /\ DispatchFrame(t, b, "enter") \in Frame
                                   /\ PutFrame(t, b) \in Frame
  /\ \A S \in SUBSET Node, b \in BOOLEAN : FireFrame(S, b) \in Frame
BY DEF Frame, EndFrame, TakeFrame, DistFrame, DoneFrame, RunFrame, SweepFrame, ProcessFrame,
       AddFrame, DispatchFrame, PutFrame, FireFrame

(* The instruction that an add comes from.                                 *)
LEMMA AddTyped ==
  ASSUME QueueInv, NEW th \in Thread, AtCall(th, "add"), NEW i, i = Code(th)[Top(th).at]
  PROVE  i \in AddInstr /\ i.task \in DOMAIN program.body /\ i.task \in Node
<1>1. /\ Top(th) \in Frame /\ stack[th] # <<>> /\ Top(th).op \in {"main", "run"}
      /\ Top(th) = stack[th][1] /\ 1 \in DOMAIN stack[th]
  BY TopFrame DEF AtCall, In, QueueInv
<1>2. /\ program \in Programs /\ MainProg \in Seq(Instr)
      /\ \A t \in DOMAIN program.body : program.body[t] \in Seq(Instr)
      /\ \A c \in {MainProg} \cup {program.body[t] : t \in DOMAIN program.body} :
           \A k \in DOMAIN c : c[k].op = "add" => c[k].task \in DOMAIN program.body
  BY ProgramAssumption DEF QueueInv, Typed
<1>3. \/ Code(th) = MainProg
      \/ \E t \in DOMAIN program.body : Code(th) = program.body[t]
  <2>1. CASE Top(th).op = "main"
    BY <2>1 DEF Code
  <2>2. CASE Top(th).op = "run"
    <3>1. Top(th).task \in Node
      BY <1>1, <2>2, CallFrame
    <3>2. fired[Top(th).task] > 0
      BY <1>1, <2>2, <3>1 DEF QueueInv, Owned, FrameOK, Owns
    <3>3. Top(th).task \in added
      BY <3>1, <3>2 DEF QueueInv, TopoInv, FiredReady
    <3> QED BY <2>2, <3>3 DEF Code, QueueInv, Typed
  <2> QED BY <1>1, <2>1, <2>2
<1>4. i \in Instr /\ i.op = "add" /\ i.task \in DOMAIN program.body
  <2>1. Code(th) \in Seq(Instr) /\ Top(th).at \in DOMAIN Code(th) /\ i.op = "add"
    BY <1>2, <1>3 DEF AtCall
  <2>2. i \in Instr
    BY <2>1
  <2> QED BY <1>2, <1>3, <2>1, <2>2
<1> QED BY <1>4 DEF Instr, AddInstr

-----------------------------------------------------------------------------
(* Steps that leave the tokens where they are: at most the frame of main   *)
(* or of a task moves on.                                                  *)
Quiet ==
  /\ UNCHANGED <<program, semi, queued, told, runs, raised>>
  /\ added' \subseteq DOMAIN program.body /\ notDispatched' \subseteq Node
  /\ outq' \in Seq({"ok", "exc"})

LEMMA QuietKeeps ==
  ASSUME QueueInv, [TopoNext]_topoVars, Quiet, NEW th \in Thread, NEW f, f = Top(th),
         stack[th] # <<>>, f.op # "take", NEW a, NEW b, NEW fs, Goto(th, fs), Passes(th, 1, fs),
         \/ fs = <<>>
         \/ /\ b \in Frame /\ b.op # "take"
            /\ f.op \in Catch => b.op \in Catch
            /\ \A t \in Node : Owns(b, t) => Owns(f, t) /\ b.op = f.op
            /\ \/ fs = <<b>>
               \/ a \in Frame /\ a.op \notin {"fire", "put", "run", "take"} /\ fs = <<a, b>>
  PROVE  QueueInv'
<1>1. /\ f \in Frame /\ f = stack[th][1] /\ 1 \in DOMAIN stack[th]
      /\ Len(stack[th]) \in Nat \ {0} /\ DOMAIN stack[th] = 1 .. Len(stack[th])
  BY TopFrame DEF QueueInv
<1>2. /\ fs \in Seq(Frame) /\ Len(fs) \in Nat /\ \A i \in DOMAIN fs : fs[i].op # "take"
      /\ \A i \in DOMAIN fs : fs[i].op \in {"fire", "put", "run"} => i = Len(fs) /\ fs[i] = b
      /\ f.op \in Catch => fs = <<>> \/ fs[Len(fs)].op \in Catch
  <2>1. CASE fs = <<>>
    BY <2>1
  <2>2. CASE fs = <<b>>
    BY <2>2
  <2>3. CASE fs = <<a, b>>
    BY <2>3
  <2> QED BY <2>1, <2>2, <2>3
<1>3. Moves(th, 1, fs)
  BY <1>2, GotoMoves DEF QueueInv
<1>4. f.op \in Catch \/ 1 < Len(stack[th])
  <2>1. PICK n \in Nat \ {0} : n = Len(stack[th])
    BY <1>1
  <2>2. CASE n = 1
    BY <1>1, <2>1, <2>2 DEF QueueInv, Grounded
  <2>3. n = 1 \/ 1 < n
    OBVIOUS
  <2> QED BY <2>1, <2>2, <2>3
<1>5. 1 < Len(stack[th]) \/ fs = <<>> \/ fs[Len(fs)].op \in Catch \cup {"take"}
  BY <1>2, <1>4
<1>6. \A i \in DOMAIN fs : fs[i].op # "take"
  BY <1>2
<1>7. \A t \in Node : \A i \in DOMAIN fs : Owns(fs[i], t) => i = Len(fs) /\ fs[i] = b
  BY <1>2 DEF Owns
<1>8. \A t \in Node : \A i \in DOMAIN fs : Owns(fs[i], t) => Owns(f, t) /\ fs[i].op = f.op
  <2>1. fs # <<>> => \A t \in Node : Owns(b, t) => Owns(f, t) /\ b.op = f.op
    OBVIOUS
  <2> QED BY <1>2, <1>7, <2>1
<1>9. FrameOK(f)
  BY <1>1 DEF QueueInv, Owned
<1>10. \A i \in DOMAIN fs : FrameOK(fs[i])'
  <2>1. ASSUME NEW t \in Node, fired[t] > 0
        PROVE  fired'[t] > 0 /\ IterDeps(t)' = IterDeps(t)
    BY <2>1, FiredStays, FrozenStep DEF QueueInv
  <2> QED BY <1>8, <1>9, <2>1 DEF FrameOK, Quiet
<1>11. ASSUME NEW t \in Node PROVE TaskOK(t)'
  <2>1. fired[t] > 0 => fired'[t] > 0 /\ IterDeps(t)' = IterDeps(t)
    BY FiredStays, FrozenStep DEF QueueInv
  <2>2. TaskOK(t)
    BY DEF QueueInv
  <2> QED BY <2>1, <2>2 DEF TaskOK, Quiet
<1>12. Typed'
  BY DEF QueueInv, Typed, Quiet
<1>13. \A t \in Node : \A i, j \in DOMAIN fs : Owns(fs[i], t) /\ Owns(fs[j], t) => i = j
  BY <1>7
<1>14. \A t \in Node : \A i \in DOMAIN fs : Owns(fs[i], t) =>
         \E j \in 1 .. 1 : Owns(stack[th][j], t)
  BY <1>1, <1>8
<1> QED BY <1>3, <1>5, <1>6, <1>10, <1>11, <1>12, <1>13, <1>14, StepKeeps DEF Quiet

LEMMA Pair ==
  ASSUME NEW a \in Frame, NEW b \in Frame
  PROVE  <<a>> \o <<b>> = <<a, b>>
<1>1. /\ <<a>> \o <<b>> \in Seq(Frame) /\ <<a, b>> \in Seq(Frame)
      /\ Len(<<a>> \o <<b>>) = 2 /\ Len(<<a, b>>) = 2
  OBVIOUS
<1>2. \A i \in 1 .. 2 : (<<a>> \o <<b>>)[i] = <<a, b>>[i]
  OBVIOUS
<1> QED BY <1>1, <1>2, SeqEqual

(* A calm step neither publishes nor schedules a task.                     *)
Calm == Quiet /\ UNCHANGED <<added, scheduled, notDispatched>>

LEMMA CalmPop ==
  ASSUME QueueInv, [TopoNext]_topoVars, Calm, NEW th \in Thread,
         stack[th] # <<>>, Top(th).op # "take", Return(th)
  PROVE  QueueInv'
<1>1. PICK f : f = Top(th)
  OBVIOUS
<1>2. PICK fs : fs = <<>>
  OBVIOUS
<1>3. Goto(th, fs)
  BY <1>2 DEF Return
<1>4. Passes(th, 1, fs)
  BY <1>2, FreePasses DEF Calm
<1> QED BY <1>1, <1>2, <1>3, <1>4, QuietKeeps DEF Calm

LEMMA CalmSet ==
  ASSUME QueueInv, [TopoNext]_topoVars, Calm, NEW th \in Thread,
         stack[th] # <<>>, Top(th).op # "take", NEW b \in Frame,
         b.op \notin {"fire", "put", "run", "take"}, Top(th).op \in Catch => b.op \in Catch,
         NEW a \in Frame, a.op \notin {"fire", "put", "run", "take"},
         \A t \in Node : ~ Holds(a, t) /\ ~ Holds(b, t),
         Goto(th, <<b>>) \/ Goto(th, <<a, b>>)
  PROVE  QueueInv'
<1>1. PICK f : f = Top(th)
  OBVIOUS
<1>2. \A t \in Node : ~ Owns(b, t)
  BY DEF Owns
<1>3. CASE Goto(th, <<b>>)
  <2>1. PICK fs : fs = <<b>>
    OBVIOUS
  <2>2. Passes(th, 1, fs)
    BY <2>1, FreePasses DEF Calm
  <2> QED BY <1>1, <1>2, <1>3, <2>1, <2>2, QuietKeeps DEF Calm
<1>4. CASE Goto(th, <<a, b>>)
  <2>1. PICK fs : fs = <<a, b>>
    OBVIOUS
  <2>2. Passes(th, 1, fs)
    BY <2>1, FreePasses DEF Calm
  <2> QED BY <1>1, <1>2, <1>4, <2>1, <2>2, QuietKeeps DEF Calm
<1> QED BY <1>3, <1>4

LEMMA CalmStep ==
  ASSUME QueueInv, [TopoNext]_topoVars, Calm, NEW th \in Thread, stack[th] # <<>>,
         NEW s, GoStep(th, s),
         \/ Top(th).op = "dispatch" /\ s = "remove"
         \/ Top(th).op = "process" /\ s \in {"look", "pending", "counter", "get", "ok", "exc"}
         \/ Top(th).op = "end" /\ s \in {"stop", "join", "over"}
  PROVE  QueueInv'
<1>1. PICK f : f = Top(th)
  OBVIOUS
<1>2. f \in Frame
  BY <1>1, TopFrame DEF QueueInv
<1>3. PICK b : b = [f EXCEPT !.step = s]
  OBVIOUS
<1>4. b \in Frame /\ b.op = f.op /\ b.op \in {"dispatch", "process", "end"}
  BY <1>1, <1>2, <1>3, StepFrame
<1>5. \A t : ~ Holds(b, t)
  <2>1. CASE b.op = "dispatch"
    <3>1. f \in [op : {"dispatch"}, task : Node, inplace : BOOLEAN,
                 step : {"enter", "remove", "schedule", "exit"}]
      BY <1>2, <1>4, <2>1 DEF Frame
    <3>2. b.step = "remove"
      BY <1>1, <1>3, <1>4, <2>1, <3>1
    <3> QED BY <2>1, <3>2 DEF Holds
  <2> QED BY <1>4, <2>1 DEF Holds
<1>6. Goto(th, <<b>>)
  BY <1>1, <1>3 DEF GoStep
<1> QED BY <1>1, <1>4, <1>5, <1>6, CalmSet DEF Catch

LEMMA CalmCall ==
  ASSUME QueueInv, [TopoNext]_topoVars, Calm, NEW th \in Thread, stack[th] # <<>>,
         Top(th).op \in {"main", "run"}, NEW a \in Frame,
         a.op \notin {"fire", "put", "run", "take", "add", "dispatch"},
         Call(th, <<>>) \/ Call(th, <<a>>)
  PROVE  QueueInv'
<1>1. PICK f : f = Top(th)
  OBVIOUS
<1>2. f \in Frame
  BY <1>1, TopFrame DEF QueueInv
<1>3. PICK b : b = [f EXCEPT !.at = @ + 1]
  OBVIOUS
<1>4. b \in Frame /\ b.op = f.op /\ \A t \in Node : Owns(b, t) => Owns(f, t)
  BY <1>1, <1>2, <1>3, CallFrame
<1>5. b.op # "take" /\ f.op # "take" /\ b.op \in Catch
  BY <1>1, <1>4 DEF Catch
<1>6. \A t : ~ Holds(a, t) /\ ~ Holds(b, t)
  BY <1>1, <1>4 DEF Holds
<1>7. CASE Call(th, <<>>)
  <2>1. PICK fs : fs = <<b>>
    OBVIOUS
  <2>2. Goto(th, fs)
    BY <1>1, <1>3, <1>7, <2>1 DEF Call
  <2>3. Passes(th, 1, fs)
    BY <1>6, <2>1, FreePasses DEF Calm
  <2> QED BY <1>1, <1>4, <1>5, <2>1, <2>2, <2>3, QuietKeeps DEF Calm
<1>8. CASE Call(th, <<a>>)
  <2>1. PICK fs : fs = <<a, b>>
    OBVIOUS
  <2>2. Goto(th, fs)
    <3>1. <<a>> \o <<b>> = <<a, b>>
      BY <1>4, Pair
    <3> QED BY <1>1, <1>3, <1>8, <2>1, <3>1 DEF Call
  <2>3. Passes(th, 1, fs)
    BY <1>6, <2>1, FreePasses DEF Calm
  <2> QED BY <1>1, <1>4, <1>5, <2>1, <2>2, <2>3, QuietKeeps DEF Calm
<1> QED BY <1>7, <1>8

LEMMA QuietSame ==
  ASSUME QueueInv, UNCHANGED <<topoVars, program, queued, told, runs, raised>>,
         notDispatched' \subseteq Node, outq' \in Seq({"ok", "exc"})
  PROVE  /\ Quiet /\ [TopoNext]_topoVars
         /\ notDispatched' = notDispatched => Calm
BY DEF Quiet, Calm, topoVars, QueueInv, Typed

-----------------------------------------------------------------------------
(* The calm steps, one by one .                                            *)
LEMMA CacheHitKeeps ==
  ASSUME QueueInv, NEW th \in Thread, UNCHANGED program, CacheHit(th) \/ SignalReady(th)
  PROVE  QueueInv' /\ [TopoNext]_topoVars
<1>1. stack[th] # <<>> /\ Top(th).op \in {"main", "run"} /\ Call(th, <<>>)
  BY DEF CacheHit, SignalReady, AtCall, In
<1>2. Calm /\ [TopoNext]_topoVars
  BY QuietSame DEF CacheHit, SignalReady, queueVars, lockVars, poolVars, endVars, seenVars,
                   QueueInv, Typed
<1>3. DistFrame \in Frame /\ DistFrame.op = "dist"
  BY FramesTyped DEF DistFrame
<1> QED BY <1>1, <1>2, <1>3, CalmCall

LEMMA ReturnKeeps ==
  ASSUME QueueInv, NEW th \in Thread, UNCHANGED program,
         AddLeave(th) \/ DispatchExit(th) \/ FireEnd(th) \/ PutResult(th)
  PROVE  QueueInv' /\ [TopoNext]_topoVars
<1>1. stack[th] # <<>> /\ Top(th).op \in {"add", "dispatch", "fire", "done"} /\ Return(th)
  BY DEF AddLeave, DispatchExit, FireEnd, PutResult, At, In
<1>2. Top(th).op = "done" => Top(th).how \in {"ok", "exc"}
  BY <1>1, TopFrame, FieldsTyped DEF QueueInv
<1>3. outq' \in Seq({"ok", "exc"})
  <2>1. CASE PutResult(th)
    BY <1>2, <2>1 DEF PutResult, In, QueueInv, Typed
  <2>2. CASE UNCHANGED outq
    BY <2>2 DEF QueueInv, Typed
  <2> QED BY <2>1, <2>2 DEF AddLeave, DispatchExit, FireEnd, poolVars
<1>4. notDispatched' = notDispatched /\ UNCHANGED <<topoVars, queued, told, runs, raised>>
  BY DEF AddLeave, DispatchExit, FireEnd, PutResult, queueVars, poolVars, seenVars, QueueInv, Typed
<1>5. Calm /\ [TopoNext]_topoVars
  BY <1>3, <1>4, QuietSame DEF QueueInv, Typed
<1> QED BY <1>1, <1>5, CalmPop

LEMMA EnterKeeps ==
  ASSUME QueueInv, NEW th \in Thread, UNCHANGED program, DispatchEnter(th)
  PROVE  QueueInv' /\ [TopoNext]_topoVars
<1>1. stack[th] # <<>> /\ Top(th).op = "dispatch" /\ GoStep(th, "remove")
  BY DEF DispatchEnter, At, In
<1>2. Calm /\ [TopoNext]_topoVars
  BY QuietSame DEF DispatchEnter, poolVars, seenVars, QueueInv, Typed
<1> QED BY <1>1, <1>2, CalmStep

LEMMA DispatchAllKeeps ==
  ASSUME QueueInv, NEW th \in Thread, UNCHANGED program, DispatchAll(th)
  PROVE  QueueInv' /\ [TopoNext]_topoVars
<1>1. Calm /\ [TopoNext]_topoVars
  BY QuietSame DEF DispatchAll, queueVars, poolVars, seenVars, QueueInv, Typed
<1>2. CASE AtCall(th, "dispatch_all") /\ Call(th, <<SweepFrame(notDispatched)>>)
  <2>1. PICK a : a = SweepFrame(notDispatched)
    OBVIOUS
  <2>2. a \in Frame /\ a.op = "sweep"
    BY <2>1, FramesTyped DEF QueueInv, Typed, SweepFrame
  <2>3. stack[th] # <<>> /\ Top(th).op \in {"main", "run"} /\ Call(th, <<a>>)
    BY <1>2, <2>1 DEF AtCall, In
  <2> QED BY <1>1, <2>2, <2>3, CalmCall
<1>3. CASE In(th, "sweep") /\ Return(th)
  BY <1>1, <1>3, CalmPop DEF In
<1>4. ASSUME In(th, "sweep"), NEW t \in Top(th).tasks,
             Goto(th, <<DispatchFrame(t, FALSE, "enter"), SweepFrame(Top(th).tasks \ {t})>>)
      PROVE  QueueInv'
  <2>1. PICK a, b : a = DispatchFrame(t, FALSE, "enter") /\ b = SweepFrame(Top(th).tasks \ {t})
    OBVIOUS
  <2>2. stack[th] # <<>> /\ Top(th).op = "sweep"
    BY <1>4 DEF In
  <2>3. Top(th).tasks \subseteq Node
    BY <2>2, TopFrame, FieldsTyped DEF QueueInv
  <2>4. a \in Frame /\ b \in Frame /\ a.op = "dispatch" /\ b.op = "sweep"
    BY <2>1, <2>3, FramesTyped DEF DispatchFrame, SweepFrame
  <2>5. Goto(th, <<a, b>>)
    BY <1>4, <2>1
  <2>6. \A x : ~ Holds(a, x) /\ ~ Holds(b, x)
    BY <2>1 DEF Holds, DispatchFrame, SweepFrame
  <2> QED BY <1>1, <2>2, <2>4, <2>5, <2>6, CalmSet DEF Catch
<1> QED BY <1>1, <1>2, <1>3, <1>4 DEF DispatchAll

LEMMA MainKeeps ==
  ASSUME QueueInv, UNCHANGED program, Main \in Thread,
         \/ BeginProcess \/ NextLook \/ NextPending \/ NextCounter \/ NextGet
         \/ NextResult /\ At(Main, "process", "ok")
         \/ EndProgram \/ StopState \/ JoinWorkers
  PROVE  QueueInv' /\ [TopoNext]_topoVars
<1>1. /\ UNCHANGED <<topoVars, queued, told, runs>> /\ notDispatched' = notDispatched
      /\ raised' = raised
  BY DEF BeginProcess, NextLook, NextPending, NextCounter, NextGet, NextResult, EndProgram,
         StopState, JoinWorkers, queueVars, poolVars, seenVars, At
<1>2. outq' \in Seq({"ok", "exc"})
  <2>1. CASE outq' = outq
    BY <2>1 DEF QueueInv, Typed
  <2>3. CASE outq' = <<>>
    BY <2>3
  <2>2. CASE outq # <<>> /\ outq' = Tail(outq)
    BY <2>2 DEF QueueInv, Typed
  <2> QED BY <2>1, <2>2, <2>3
          DEF BeginProcess, NextLook, NextPending, NextCounter, NextGet, NextResult, EndProgram,
              StopState, JoinWorkers, poolVars
<1>3. Calm /\ [TopoNext]_topoVars
  BY <1>1, <1>2, QuietSame DEF QueueInv, Typed
<1>4. CASE BeginProcess
  <2>1. PICK a : a = ProcessFrame("look")
    OBVIOUS
  <2>2. a \in Frame /\ a.op = "process"
    BY <2>1, FramesTyped DEF ProcessFrame
  <2>3. stack[Main] # <<>> /\ Top(Main).op \in {"main", "run"} /\ Call(Main, <<a>>)
    BY <1>4, <2>1 DEF BeginProcess, AtCall, In
  <2> QED BY <1>3, <2>2, <2>3, CalmCall
<1>5. CASE EndProgram
  <2>1. PICK b : b = EndFrame("stop")
    OBVIOUS
  <2>2. b \in Frame /\ b.op = "end"
    BY <2>1, FramesTyped DEF EndFrame
  <2>3. stack[Main] # <<>> /\ Top(Main).op = "main" /\ Goto(Main, <<b>>)
    BY <1>5, <2>1 DEF EndProgram, In
  <2>4. \A t : ~ Holds(b, t)
    BY <2>2 DEF Holds
  <2> QED BY <1>3, <2>2, <2>3, <2>4, CalmSet DEF Catch
<1>6. CASE NextLook \/ NextPending \/ NextCounter \/ (NextResult /\ At(Main, "process", "ok"))
  <2>1. stack[Main] # <<>> /\ Top(Main).op = "process"
    BY <1>6 DEF NextLook, NextPending, NextCounter, At, In
  <2>2. Return(Main) \/ \E s \in {"look", "pending", "counter", "get"} : GoStep(Main, s)
    BY <1>6 DEF NextLook, NextPending, NextCounter, NextResult, At
  <2> QED BY <1>3, <2>1, <2>2, CalmPop, CalmStep
<1>7. CASE NextGet
  <2>1. stack[Main] # <<>> /\ Top(Main).op = "process"
    BY <1>7 DEF NextGet, At, In
  <2>2. PICK s : s = IF outq = <<>> THEN "look" ELSE Head(outq)
    OBVIOUS
  <2>3. s \in {"look", "ok", "exc"}
    BY <2>2 DEF QueueInv, Typed
  <2>4. GoStep(Main, s)
    BY <1>7, <2>2 DEF NextGet
  <2> QED BY <1>3, <2>1, <2>3, <2>4, CalmStep
<1>8. CASE StopState \/ JoinWorkers
  <2>1. stack[Main] # <<>> /\ Top(Main).op = "end"
    BY <1>8 DEF StopState, JoinWorkers, At, In
  <2>2. \E s \in {"join", "over"} : GoStep(Main, s)
    BY <1>8 DEF StopState, JoinWorkers
  <2> QED BY <1>3, <2>1, <2>2, CalmStep
<1> QED BY <1>3, <1>4, <1>5, <1>6, <1>7, <1>8

LEMMA DistKeeps ==
  ASSUME QueueInv, UNCHANGED program, Dist \in Thread, DistReport \/ DistEnd
  PROVE  QueueInv' /\ [TopoNext]_topoVars
<1>1. Calm /\ [TopoNext]_topoVars
  BY QuietSame DEF DistReport, DistEnd, queueVars, poolVars, seenVars, QueueInv, Typed
<1>2. stack[Dist] # <<>> /\ Top(Dist).op = "dist"
  BY DEF DistReport, DistEnd, In
<1>3. CASE DistReport
  <2>1. PICK t : t = program.reports[reported + 1]
    OBVIOUS
  <2>2. PICK a, b : a = DispatchFrame(t, FALSE, "enter") /\ b = DistFrame
    OBVIOUS
  <2>3. Goto(Dist, (IF t \in added THEN <<a>> ELSE <<>>) \o <<b>>)
    BY <1>3, <2>1, <2>2 DEF DistReport
  <2>4. b \in Frame /\ b.op = "dist"
    BY <2>2, FramesTyped DEF DistFrame
  <2>5. CASE t \in added
    <3>1. t \in Node
      BY <2>5 DEF QueueInv, TopoInv, TopoTypeOK
    <3>2. a \in Frame /\ a.op = "dispatch" /\ a.step = "enter"
      BY <2>2, <3>1, FramesTyped DEF DispatchFrame
    <3>3. Goto(Dist, <<a, b>>)
      BY <2>3, <2>4, <2>5, <3>2, Pair
    <3>4. \A x : ~ Holds(a, x) /\ ~ Holds(b, x)
      BY <2>4, <3>2 DEF Holds
    <3> QED BY <1>1, <1>2, <2>4, <3>2, <3>3, <3>4, CalmSet DEF Catch
  <2>6. CASE t \notin added
    <3>1. Goto(Dist, <<b>>)
      BY <2>3, <2>6
    <3>2. \A x : ~ Holds(b, x)
      BY <2>4 DEF Holds
    <3> QED BY <1>1, <1>2, <2>4, <3>1, <3>2, CalmSet DEF Catch
  <2> QED BY <2>5, <2>6
<1>4. CASE DistEnd
  <2>1. PICK a, b : a = SweepFrame(notDispatched) /\ b = EndFrame("over")
    OBVIOUS
  <2>2. a \in Frame /\ b \in Frame /\ a.op = "sweep" /\ b.op = "end"
    BY <2>1, FramesTyped DEF SweepFrame, EndFrame, QueueInv, Typed
  <2>3. Goto(Dist, <<a, b>>)
    BY <1>4, <2>1 DEF DistEnd
  <2>4. \A x : ~ Holds(a, x) /\ ~ Holds(b, x)
    BY <2>2 DEF Holds
  <2> QED BY <1>1, <1>2, <2>2, <2>3, <2>4, CalmSet DEF Catch
<1> QED BY <1>1, <1>3, <1>4

-----------------------------------------------------------------------------
(* The steps that hand over who may schedule a task.                       *)
LEMMA AddTaskKeeps ==
  ASSUME QueueInv, NEW th \in Thread, UNCHANGED program, AddTask(th)
  PROVE  QueueInv' /\ [TopoNext]_topoVars
<1>1. PICK i, f : i = Code(th)[Top(th).at] /\ f = Top(th)
  OBVIOUS
<1>2. i \in AddInstr /\ i.task \in DOMAIN program.body /\ i.task \in Node
  BY <1>1, AddTyped DEF AddTask
<1>3. AddNode(i.task) /\ Call(th, <<AddFrame(i, IF i.joint = None THEN "deps" ELSE "merge")>>)
  BY <1>1 DEF AddTask
<1>4. [TopoNext]_topoVars
  BY <1>2, <1>3 DEF TopoNext
<1>5. Quiet /\ i.task \notin added /\ added' = added \cup {i.task}
      /\ UNCHANGED <<scheduled, notDispatched>>
  BY <1>2, <1>3 DEF AddTask, AddNode, Quiet, queueVars, poolVars, seenVars, QueueInv, Typed
<1>6. f \in Frame /\ f.op \in {"main", "run"} /\ stack[th] # <<>>
  BY <1>1, TopFrame DEF AddTask, AtCall, In, QueueInv
<1>7. PICK a, b : /\ a = AddFrame(i, IF i.joint = None THEN "deps" ELSE "merge")
                  /\ b = [f EXCEPT !.at = @ + 1]
  OBVIOUS
<1>8. /\ a \in Frame /\ a.op = "add" /\ a.instr = i
      /\ b \in Frame /\ b.op = f.op /\ \A t \in Node : Owns(b, t) => Owns(f, t)
  BY <1>2, <1>6, <1>7, FramesTyped, CallFrame DEF AddFrame
<1>9. PICK fs : fs = <<a, b>>
  OBVIOUS
<1>10. Goto(th, fs)
  <2>1. <<a>> \o <<b>> = <<a, b>>
    BY <1>8, Pair
  <2> QED BY <1>1, <1>3, <1>7, <1>9, <2>1 DEF Call
<1>11. Passes(th, 1, fs)
  <2>1. \A t : (Holds(a, t) => t = i.task) /\ ~ Holds(b, t)
    BY <1>6, <1>8 DEF Holds
  <2>2. scheduled \subseteq added /\ notDispatched \subseteq added
    BY DEF QueueInv, TopoInv, FiredReady, Held
  <2>3. Open \subseteq Open' /\ i.task \in Open' /\ i.task \notin Open
    BY <1>5, <2>2 DEF Open
  <2>4. fs[1] = a /\ fs[2] = b /\ DOMAIN fs = 1 .. 2
    BY <1>9
  <2> QED BY <1>5, <2>1, <2>2, <2>3, <2>4 DEF QueueInv, Held, Passes
<1>12. b.op \in Catch /\ f.op # "take"
  BY <1>6, <1>8 DEF Catch
<1> QED BY <1>1, <1>4, <1>5, <1>6, <1>8, <1>9, <1>10, <1>11, <1>12, QuietKeeps

LEMMA AddMergeKeeps ==
  ASSUME QueueInv, NEW th \in Thread, UNCHANGED program, AddMerge(th)
  PROVE  QueueInv' /\ [TopoNext]_topoVars
<1>1. PICK n, j, f : n = Top(th).instr.task /\ j = Top(th).instr.joint /\ f = Top(th)
  OBVIOUS
<1>2. MergeNodes(n, j)
  BY <1>1 DEF AddMerge
<1>3. n \in Node /\ j \in Node
  BY <1>2 DEF MergeNodes, Mergeable, QueueInv, TopoInv, TopoTypeOK
<1>4. [TopoNext]_topoVars
  BY <1>2, <1>3 DEF TopoNext
<1>5. Quiet /\ UNCHANGED <<added, scheduled, notDispatched>>
  BY <1>2 DEF AddMerge, MergeNodes, Quiet, queueVars, poolVars, seenVars, QueueInv, Typed
<1>6. /\ stack[th] # <<>> /\ f.op = "add" /\ f.step = "merge" /\ f \in Frame
      /\ f = stack[th][1] /\ 1 \in DOMAIN stack[th]
  BY <1>1, TopFrame DEF AddMerge, At, In, QueueInv
<1>7. PICK b : b = [f EXCEPT !.step = "deps"]
  OBVIOUS
<1>8. /\ b \in Frame /\ b.op = "add" /\ b.instr = f.instr
  <2>1. f \in [op : {"add"}, instr : AddInstr, step : {"merge", "deps", "leave"}]
    BY <1>6 DEF Frame
  <2> QED BY <1>6, <1>7, <2>1 DEF Frame
<1>9. PICK fs : fs = <<b>>
  OBVIOUS
<1>10. Goto(th, fs)
  BY <1>1, <1>7, <1>9 DEF AddMerge, GoStep
<1>11. Passes(th, 1, fs)
  <2>1. \A t : Holds(b, t) => Holds(f, t)
    BY <1>6, <1>8 DEF Holds
  <2>2. fs[1] = b /\ DOMAIN fs = {1}
    BY <1>9
  <2>3. 1 \in 1 .. 1 /\ Open' = Open
    BY <1>5 DEF Open
  <2> QED BY <1>5, <1>6, <2>1, <2>2, <2>3 DEF QueueInv, Held, Open, Passes
<1>12. f.op \notin Catch /\ \A t : ~ Owns(b, t)
  BY <1>6, <1>8 DEF Catch, Owns
<1> QED BY <1>1, <1>4, <1>5, <1>6, <1>8, <1>9, <1>10, <1>11, <1>12, QuietKeeps

LEMMA AddDepsKeeps ==
  ASSUME QueueInv, NEW th \in Thread, UNCHANGED program, AddDepsAndPublish(th)
  PROVE  QueueInv' /\ [TopoNext]_topoVars
<1>1. PICK i, f : i = Top(th).instr /\ f = Top(th)
  OBVIOUS
<1>2. /\ stack[th] # <<>> /\ f.op = "add" /\ f.step = "deps" /\ i = f.instr /\ i \in AddInstr
      /\ f = stack[th][1] /\ 1 \in DOMAIN stack[th]
  BY <1>1, TopFrame, FieldsTyped DEF AddDepsAndPublish, At, In, QueueInv
<1>3. i.task \in Node /\ i.inplace \in BOOLEAN /\ i.deps \in SUBSET Node
  BY <1>2 DEF AddInstr
<1>4. /\ AddDeps(i.task, i.deps) /\ notDispatched' = notDispatched \cup {i.task}
      /\ Goto(th, (IF i.dispatch THEN <<DispatchFrame(i.task, i.inplace, "enter")>> ELSE <<>>)
                  \o <<AddFrame(i, "leave")>>)
  BY <1>1 DEF AddDepsAndPublish
<1>5. [TopoNext]_topoVars
  BY <1>3, <1>4 DEF TopoNext
<1>6. Quiet /\ UNCHANGED <<added, scheduled>> /\ i.task \in added \ scheduled
  BY <1>3, <1>4 DEF AddDepsAndPublish, AddDeps, Quiet, poolVars, seenVars, QueueInv, Typed
<1>7. PICK a, b : a = DispatchFrame(i.task, i.inplace, "enter") /\ b = AddFrame(i, "leave")
  OBVIOUS
<1>8. /\ a \in Frame /\ a.op = "dispatch" /\ a.step = "enter"
      /\ b \in Frame /\ b.op = "add" /\ b.step = "leave"
  BY <1>2, <1>3, <1>7, FramesTyped DEF DispatchFrame, AddFrame
<1>9. PICK fs : (fs = <<a, b>> \/ fs = <<b>>) /\ Goto(th, fs)
  <2>1. <<a>> \o <<b>> = <<a, b>> /\ <<>> \o <<b>> = <<b>>
    BY <1>8, Pair
  <2>2. Goto(th, (IF i.dispatch THEN <<a>> ELSE <<>>) \o <<b>>)
    BY <1>4, <1>7
  <2>3. CASE i.dispatch
    BY <2>1, <2>2, <2>3
  <2>4. CASE ~ i.dispatch
    BY <2>1, <2>2, <2>4
  <2> QED BY <2>3, <2>4
<1>10. Passes(th, 1, fs)
  <2>1. \A t : ~ Holds(a, t) /\ ~ Holds(b, t)
    BY <1>8 DEF Holds
  <2>2. \A k \in DOMAIN fs : fs[k] \in {a, b}
    BY <1>9
  <2>3. \A k \in DOMAIN fs : \A t \in Node : ~ Holds(fs[k], t)
    BY <2>1, <2>2
  <2>4. notDispatched' \subseteq added' \ scheduled'
    BY <1>4, <1>6 DEF QueueInv, Held
  <2>5. Holds(f, i.task) /\ 1 \in 1 .. 1
    BY <1>2 DEF Holds
  <2>6. ASSUME NEW y \in Thread, NEW k \in DOMAIN stack[y], NEW t \in Node,
               Holds(stack[y][k], t), \A j \in 1 .. 1 : ~ Holds(stack[th][j], t)
        PROVE  t \in Open'
    <3>1. t # i.task /\ t \in Open
      BY <1>2, <2>5, <2>6 DEF QueueInv, Held
    <3> QED BY <1>4, <1>6, <3>1 DEF Open
  <2> QED BY <2>3, <2>4, <2>6 DEF Passes
<1>11. /\ f.op # "take" /\ f.op \notin Catch /\ \A t : ~ Owns(b, t)
  BY <1>2, <1>8 DEF Catch, Owns
<1> QED BY <1>1, <1>2, <1>5, <1>6, <1>8, <1>9, <1>10, <1>11, QuietKeeps

(* Of the threads that dispatch a task one takes it out of the set.        *)
LEMMA RemoveKeeps ==
  ASSUME QueueInv, NEW th \in Thread, UNCHANGED program, DispatchRemove(th)
  PROVE  QueueInv' /\ [TopoNext]_topoVars
<1>1. PICK f, t : f = Top(th) /\ t = Top(th).task
  OBVIOUS
<1>2. /\ stack[th] # <<>> /\ f.op = "dispatch" /\ f \in Frame
      /\ f = stack[th][1] /\ 1 \in DOMAIN stack[th]
  BY <1>1, TopFrame DEF DispatchRemove, At, In, QueueInv
<1>3. PICK b : b = [f EXCEPT !.step = IF t \in notDispatched THEN "schedule" ELSE "exit"]
  OBVIOUS
<1>4. /\ b \in Frame /\ b.op = "dispatch" /\ b.task = t
      /\ b.step = IF t \in notDispatched THEN "schedule" ELSE "exit"
  <2>1. f \in [op : {"dispatch"}, task : Node, inplace : BOOLEAN,
               step : {"enter", "remove", "schedule", "exit"}]
    BY <1>2 DEF Frame
  <2> QED BY <1>1, <1>3, <2>1 DEF Frame
<1>5. PICK fs : fs = <<b>>
  OBVIOUS
<1>6. Goto(th, fs)
  BY <1>1, <1>3, <1>5 DEF DispatchRemove, GoStep
<1>7. /\ Quiet /\ [TopoNext]_topoVars /\ UNCHANGED <<added, scheduled>>
      /\ notDispatched' = notDispatched \ {t}
  <2>1. notDispatched' = notDispatched \ {t} /\ UNCHANGED <<topoVars, added, scheduled>>
    BY <1>1 DEF DispatchRemove, topoVars
  <2> QED BY <2>1, QuietSame DEF DispatchRemove, poolVars, seenVars, QueueInv, Typed
<1>8. Passes(th, 1, fs)
  <2>1. \A x : Holds(b, x) => x = t /\ t \in notDispatched
    BY <1>4 DEF Holds
  <2>2. Open \subseteq Open' /\ (t \in notDispatched => t \in Open' /\ t \notin Open)
    BY <1>7 DEF QueueInv, Held, Open
  <2>3. fs[1] = b /\ DOMAIN fs = {1}
    BY <1>5
  <2> QED BY <1>7, <2>1, <2>2, <2>3 DEF QueueInv, Held, Passes
<1>9. f.op \notin Catch /\ \A x : ~ Owns(b, x)
  BY <1>2, <1>4 DEF Catch, Owns
<1> QED BY <1>1, <1>2, <1>4, <1>5, <1>6, <1>7, <1>8, <1>9, QuietKeeps

-----------------------------------------------------------------------------
(* The steps that move tokens.                                             *)
LEMMA TaskSame ==
  ASSUME QueueInv, [TopoNext]_topoVars, NEW t \in Node,
         t \in queued' => t \in queued,
         t \in semi' <=> t \in semi, t \in raised' <=> t \in raised,
         runs'[t] = runs[t], t \in queued \/ runs[t] > 0 => told'[t] = told[t]
  PROVE  TaskOK(t)'
<1>1. fired[t] > 0 => fired'[t] > 0 /\ IterDeps(t)' = IterDeps(t)
  BY FiredStays, FrozenStep DEF QueueInv
<1>2. TaskOK(t)
  BY DEF QueueInv
<1> QED BY <1>1, <1>2 DEF TaskOK

LEMMA NewTokens ==
  ASSUME QueueInv, [TopoNext]_topoVars, NEW t \in NewlyFired
  PROVE  /\ t \in Node /\ fired[t] = 0 /\ fired'[t] > 0 /\ t \notin queued /\ runs[t] = 0
         /\ \A a \in Thread : \A k \in DOMAIN stack[a] : ~ Owns(stack[a][k], t)
<1>1. t \in Node /\ fired'[t] > fired[t]
  BY DEF NewlyFired
<1>2. fired[t] \in {0, 1} /\ fired'[t] \in {0, 1}
  BY <1>1, TopoInvNext DEF QueueInv, TopoInv, FiredReady
<1>3. fired[t] = 0 /\ fired'[t] > 0
  BY <1>1, <1>2
<1>4. TaskOK(t)
  BY <1>1 DEF QueueInv
<1>5. t \notin queued /\ runs[t] = 0
  BY <1>3, <1>4 DEF TaskOK
<1>6. \A a \in Thread : \A k \in DOMAIN stack[a] : ~ Owns(stack[a][k], t)
  BY <1>1, <1>3 DEF QueueInv, Owned, FrameOK
<1> QED BY <1>1, <1>3, <1>5, <1>6

LEMMA ScheduleKeeps ==
  ASSUME QueueInv, NEW th \in Thread, UNCHANGED program, DispatchSchedule(th)
  PROVE  QueueInv' /\ [TopoNext]_topoVars
<1>1. PICK f : f = Top(th)
  OBVIOUS
<1>2. /\ f \in Frame /\ f.op = "dispatch" /\ stack[th] # <<>> /\ f = stack[th][1]
      /\ Len(stack[th]) \in Nat \ {0} /\ DOMAIN stack[th] = 1 .. Len(stack[th])
  BY <1>1, TopFrame DEF DispatchSchedule, At, In, QueueInv
<1>3. f.task \in Node /\ f.inplace \in BOOLEAN
  BY <1>2, FieldsTyped
<1>4. [TopoNext]_topoVars
  BY <1>1, <1>3 DEF DispatchSchedule, TopoNext
<1>5. PICK a, b : a = FireFrame(NewlyFired, f.inplace) /\ b = [f EXCEPT !.step = "exit"]
  OBVIOUS
<1>6. NewlyFired \subseteq Node
  BY DEF NewlyFired
<1>7. /\ a \in Frame /\ a.op = "fire" /\ a.tasks = NewlyFired
      /\ b \in Frame /\ b.op = "dispatch"
  BY <1>2, <1>3, <1>5, <1>6, FramesTyped, StepFrame DEF FireFrame
<1>8. PICK fs : fs = <<a, b>>
  OBVIOUS
<1>9. fs \in Seq(Frame) /\ Len(fs) = 2 /\ DOMAIN fs = 1 .. 2 /\ fs[1] = a /\ fs[2] = b
  BY <1>7, <1>8
<1>10. Goto(th, fs)
  BY <1>1, <1>5, <1>8 DEF DispatchSchedule
<1>11. Moves(th, 1, fs)
  BY <1>2, <1>9, <1>10, GotoMoves DEF QueueInv
<1>12. \A t : (Owns(a, t) => t \in NewlyFired) /\ ~ Owns(b, t)
  BY <1>7 DEF Owns
<1>13. UNCHANGED <<semi, queued, told, runs, raised, notDispatched, outq, added>>
  BY DEF DispatchSchedule, ScheduleNode, queueVars, poolVars, seenVars
<1>14. FrameOK(a)' /\ FrameOK(b)'
  BY <1>4, <1>7, <1>12, <1>13, NewTokens DEF FrameOK
<1>15. \A t \in Node : TaskOK(t)'
  BY <1>4, <1>13, TaskSame
<1>16. Typed'
  BY <1>13 DEF QueueInv, Typed
<1>17. 1 < Len(stack[th])
  <2>1. PICK n \in Nat \ {0} : n = Len(stack[th])
    BY <1>2
  <2>2. n # 1
    BY <1>2, <2>1 DEF QueueInv, Grounded, Catch
  <2>3. n = 1 \/ 1 < n
    OBVIOUS
  <2> QED BY <2>1, <2>2, <2>3
<1>18. \A i \in DOMAIN fs : FrameOK(fs[i])' /\ fs[i].op # "take"
  BY <1>7, <1>9, <1>14
<1>19. \A t \in Node : \A i, j \in DOMAIN fs : Owns(fs[i], t) /\ Owns(fs[j], t) => i = j
  BY <1>9, <1>12
<1>20. \A t \in Node : \A i \in DOMAIN fs : Owns(fs[i], t) =>
         \A x \in Thread : \A k \in DOMAIN stack[x] : ~ Owns(stack[x][k], t)
  BY <1>4, <1>9, <1>12, NewTokens
<1>21. Passes(th, 1, fs)
  <2>1. /\ ScheduleNode(f.task) /\ f.step = "schedule" /\ 1 \in DOMAIN stack[th]
        /\ UNCHANGED <<added, notDispatched>> /\ scheduled' = scheduled \cup {f.task}
    BY <1>1, <1>2 DEF DispatchSchedule, ScheduleNode, queueVars, At
  <2>2. Holds(f, f.task) /\ 1 \in 1 .. 1
    BY <1>2, <2>1 DEF Holds
  <2>3. f.task \in Open
    BY <1>2, <1>3, <2>1, <2>2 DEF QueueInv, Held
  <2>4. \A i \in DOMAIN fs : \A t \in Node : ~ Holds(fs[i], t)
    <3>1. b.step = "exit"
      <4>1. f \in [op : {"dispatch"}, task : Node, inplace : BOOLEAN,
                   step : {"enter", "remove", "schedule", "exit"}]
        BY <1>2 DEF Frame
      <4> QED BY <1>5, <4>1
    <3>2. \A t : ~ Holds(a, t) /\ ~ Holds(b, t)
      BY <1>7, <3>1 DEF Holds
    <3> QED BY <1>9, <3>2
  <2>5. ASSUME NEW y \in Thread, NEW k \in DOMAIN stack[y], NEW t \in Node,
               Holds(stack[y][k], t), \A j \in 1 .. 1 : ~ Holds(stack[th][j], t)
        PROVE  t \in Open'
    <3>1. t # f.task /\ t \in Open
      BY <1>2, <2>2, <2>5 DEF QueueInv, Held
    <3> QED BY <2>1, <3>1 DEF Open
  <2>6. notDispatched' \subseteq added' \ scheduled'
    BY <2>1, <2>3 DEF QueueInv, Held, Open
  <2> QED BY <2>4, <2>5, <2>6 DEF Passes
<1> QED BY <1>4, <1>11, <1>13, <1>15, <1>16, <1>17, <1>18, <1>19, <1>20, <1>21, StepKeeps

LEMMA FireKeeps ==
  ASSUME QueueInv, NEW th \in Thread, NEW t \in Node, UNCHANGED program, Fire(th, t)
  PROVE  QueueInv' /\ [TopoNext]_topoVars
<1>1. PICK f : f = Top(th)
  OBVIOUS
<1>2. /\ f \in Frame /\ f.op = "fire" /\ t \in f.tasks /\ stack[th] # <<>> /\ f = stack[th][1]
      /\ Len(stack[th]) \in Nat \ {0} /\ DOMAIN stack[th] = 1 .. Len(stack[th])
  BY <1>1, TopFrame DEF Fire, In, QueueInv
<1>3. f.tasks \subseteq Node /\ f.inplace \in BOOLEAN
  BY <1>2, FieldsTyped
<1>4. [TopoNext]_topoVars /\ fired' = fired /\ IterDeps(t)' = IterDeps(t)
  BY DEF Fire, topoVars, IterDeps
<1>5. PICK a, b : a = PutFrame(t, f.inplace) /\ b = FireFrame(f.tasks \ {t}, f.inplace)
  OBVIOUS
<1>6. /\ a \in Frame /\ a.op = "put" /\ a.task = t
      /\ b \in Frame /\ b.op = "fire" /\ b.tasks = f.tasks \ {t}
  BY <1>3, <1>5, FramesTyped DEF FireFrame, PutFrame
<1>7. PICK fs : fs = <<a, b>>
  OBVIOUS
<1>8. fs \in Seq(Frame) /\ Len(fs) = 2 /\ DOMAIN fs = 1 .. 2 /\ fs[1] = a /\ fs[2] = b
  BY <1>6, <1>7
<1>9. Goto(th, fs)
  BY <1>1, <1>5, <1>7 DEF Fire
<1>10. Moves(th, 1, fs)
  BY <1>2, <1>8, <1>9, GotoMoves DEF QueueInv
<1>11. \A x : (Owns(a, x) => x = t) /\ (Owns(b, x) => x # t /\ Owns(f, x)) /\ Owns(f, t)
  BY <1>2, <1>6 DEF Owns
<1>12. UNCHANGED <<semi, queued, runs, raised, notDispatched, outq, added>>
  BY DEF Fire, topoVars, queueVars, poolVars
<1>13. told' = [told EXCEPT ![t] = IterDeps(t)] /\ IterDeps(t) \subseteq Node
  BY DEF Fire, IterDeps, QueueInv, TopoInv, TopoTypeOK
<1>14. told'[t] = IterDeps(t) /\ \A x \in Node : x # t => told'[x] = told[x]
  BY <1>13 DEF QueueInv, Typed
<1>15. FrameOK(f)
  BY <1>2 DEF QueueInv, Owned
<1>16. FrameOK(a)' /\ FrameOK(b)'
  BY <1>2, <1>4, <1>6, <1>11, <1>12, <1>14, <1>15 DEF FrameOK
<1>17. t \notin queued /\ runs[t] = 0
  BY <1>2, <1>11, <1>15 DEF FrameOK
<1>18. \A x \in Node : TaskOK(x)'
  <2>1. ASSUME NEW x \in Node PROVE x \in queued \/ runs[x] > 0 => told'[x] = told[x]
    BY <1>14, <1>17
  <2> QED BY <1>4, <1>12, <2>1, TaskSame
<1>19. Typed'
  BY <1>12, <1>13 DEF QueueInv, Typed
<1>20. 1 < Len(stack[th])
  <2>1. PICK n \in Nat \ {0} : n = Len(stack[th])
    BY <1>2
  <2>2. n # 1
    BY <1>2, <2>1 DEF QueueInv, Grounded, Catch
  <2>3. n = 1 \/ 1 < n
    OBVIOUS
  <2> QED BY <2>1, <2>2, <2>3
<1>21. \A i \in DOMAIN fs : FrameOK(fs[i])' /\ fs[i].op # "take"
  BY <1>6, <1>8, <1>16
<1>22. \A x \in Node : \A i, j \in DOMAIN fs : Owns(fs[i], x) /\ Owns(fs[j], x) => i = j
  BY <1>8, <1>11
<1>23. \A x \in Node : \A i \in DOMAIN fs : Owns(fs[i], x) =>
         \E j \in 1 .. 1 : Owns(stack[th][j], x)
  BY <1>2, <1>8, <1>11
<1>24. \A y \in Thread : \A k \in DOMAIN stack[y] : \A x \in Node :
         Owns(stack[y][k], x) /\ (\A j \in 1 .. 1 : ~ Owns(stack[th][j], x)) => told'[x] = told[x]
  BY <1>2, <1>11, <1>14
<1>25. Passes(th, 1, fs)
  <2>1. UNCHANGED <<added, scheduled, notDispatched>>
    BY DEF Fire, topoVars, queueVars
  <2>2. \A i \in DOMAIN fs : \A x \in Node : ~ Holds(fs[i], x)
    BY <1>6, <1>8 DEF Holds
  <2> QED BY <2>1, <2>2, FreePasses
<1> QED BY <1>4, <1>10, <1>12, <1>18, <1>19, <1>20, <1>21, <1>22, <1>23, <1>24, <1>25, StepKeeps

(* The pool takes a callback: the task waits in its queue, or runs.        *)
LEMMA PutKeeps ==
  ASSUME QueueInv, NEW th \in Thread, UNCHANGED program, Put(th)
  PROVE  QueueInv' /\ [TopoNext]_topoVars
<1>1. PICK f : f = Top(th)
  OBVIOUS
<1>2. /\ f \in Frame /\ f.op = "put" /\ stack[th] # <<>> /\ f = stack[th][1]
      /\ Len(stack[th]) \in Nat \ {0} /\ DOMAIN stack[th] = 1 .. Len(stack[th])
  BY <1>1, TopFrame DEF Put, In, QueueInv
<1>3. PICK t \in Node : t = f.task
  BY <1>2, FieldsTyped
<1>4. FrameOK(f) /\ \A x \in Node : Owns(f, x) <=> x = t
  BY <1>2, <1>3 DEF QueueInv, Owned, Owns
<1>5. fired[t] > 0 /\ t \notin queued /\ runs[t] = 0 /\ told[t] = IterDeps(t)
  BY <1>2, <1>4 DEF FrameOK
<1>6. /\ UNCHANGED topoVars /\ [TopoNext]_topoVars
      /\ UNCHANGED <<added, scheduled, semi, fired, notDispatched, outq, raised, told>>
      /\ IterDeps(t)' = IterDeps(t)
  BY DEF Put, topoVars, IterDeps, queueVars
<1>7. t \notin semi /\ t \notin raised
  <2>1. TaskOK(t)
    BY DEF QueueInv
  <2> QED BY <1>5, <2>1 DEF TaskOK
<1>8. 1 < Len(stack[th])
  <2>1. PICK n \in Nat \ {0} : n = Len(stack[th])
    BY <1>2
  <2>2. n # 1
    BY <1>2, <2>1 DEF QueueInv, Grounded, Catch
  <2>3. n = 1 \/ 1 < n
    OBVIOUS
  <2> QED BY <2>1, <2>2, <2>3
<1>9. \A y \in Thread : \A k \in DOMAIN stack[y] : \A x \in Node :
        Owns(stack[y][k], x) /\ (\A j \in 1 .. 1 : ~ Owns(stack[th][j], x)) => x # t
  BY <1>2, <1>4
<1>10. CASE queued' = queued \cup {t} /\ Return(th) /\ runs' = runs
  <2>1. PICK fs : fs = <<>>
    OBVIOUS
  <2>2. Goto(th, fs) /\ fs \in Seq(Frame) /\ DOMAIN fs = {}
    BY <1>10, <2>1 DEF Return
  <2>3. Moves(th, 1, fs)
    BY <1>2, <2>2, GotoMoves DEF QueueInv
  <2>4. Typed'
    BY <1>6, <1>10 DEF QueueInv, Typed
  <2>5. ASSUME NEW x \in Node PROVE TaskOK(x)'
    <3>1. CASE x = t
      <4>1. TaskOK(t)
        BY DEF QueueInv
      <4> QED BY <1>5, <1>6, <1>10, <3>1, <4>1 DEF TaskOK
    <3>2. CASE x # t
      BY <1>6, <1>10, <3>2, TaskSame
    <3> QED BY <3>1, <3>2
  <2>6. Passes(th, 1, fs)
    BY <1>6, <2>2, FreePasses
  <2> QED BY <1>6, <1>8, <1>9, <1>10, <2>2, <2>3, <2>4, <2>5, <2>6, StepKeeps
<1>11. CASE runs' = [runs EXCEPT ![t] = @ + 1] /\ Goto(th, <<RunFrame(t, 1)>>) /\ queued' = queued
  <2>1. PICK a : a = RunFrame(t, 1)
    OBVIOUS
  <2>2. a \in Frame /\ a.op = "run" /\ a.task = t
    BY <2>1, FramesTyped DEF RunFrame
  <2>3. PICK fs : fs = <<a>>
    OBVIOUS
  <2>4. Goto(th, fs) /\ fs \in Seq(Frame) /\ DOMAIN fs = {1} /\ fs[1] = a
    BY <1>11, <2>1, <2>2, <2>3
  <2>5. Moves(th, 1, fs)
    BY <1>2, <2>4, GotoMoves DEF QueueInv
  <2>6. runs'[t] = 1 /\ \A x \in Node : x # t => runs'[x] = runs[x]
    BY <1>5, <1>11 DEF QueueInv, Typed
  <2>7. Typed'
    BY <1>6, <1>11 DEF QueueInv, Typed
  <2>8. ASSUME NEW x \in Node PROVE TaskOK(x)'
    <3>1. CASE x = t
      BY <1>5, <1>6, <1>7, <1>11, <2>6, <3>1 DEF TaskOK
    <3>2. CASE x # t
      BY <1>6, <1>11, <2>6, <3>2, TaskSame
    <3> QED BY <3>1, <3>2
  <2>9. \A x : Owns(a, x) => x = t
    BY <2>2 DEF Owns
  <2>10. FrameOK(a)'
    BY <1>5, <1>6, <1>7, <1>11, <2>2, <2>6, <2>9 DEF FrameOK
  <2>11. \A i \in DOMAIN fs : FrameOK(fs[i])' /\ fs[i].op # "take"
    BY <2>2, <2>4, <2>10
  <2>12. \A x \in Node : \A i, j \in DOMAIN fs : Owns(fs[i], x) /\ Owns(fs[j], x) => i = j
    BY <2>4
  <2>13. \A x \in Node : \A i \in DOMAIN fs : Owns(fs[i], x) =>
         \E j \in 1 .. 1 : Owns(stack[th][j], x)
    BY <1>2, <1>4, <2>4, <2>9
  <2>14. Passes(th, 1, fs)
    <3>1. \A x : ~ Holds(a, x)
      BY <2>2 DEF Holds
    <3> QED BY <1>6, <2>4, <3>1, FreePasses
  <2> QED BY <1>6, <1>8, <1>9, <1>11, <2>5, <2>6, <2>7, <2>8, <2>11, <2>12, <2>13, <2>14, StepKeeps
<1> QED BY <1>1, <1>3, <1>10, <1>11 DEF Put

(* A worker takes a task off the queue.                                    *)
LEMMA TakeKeeps ==
  ASSUME QueueInv, NEW w \in Thread, UNCHANGED program, Take(w)
  PROVE  QueueInv' /\ [TopoNext]_topoVars
<1>1. /\ stack[w] # <<>> /\ Top(w) = stack[w][1] /\ Top(w).op = "take"
      /\ Len(stack[w]) = 1 /\ DOMAIN stack[w] = 1 .. Len(stack[w])
  BY TopFrame DEF Take, In, QueueInv, Grounded
<1>2. PICK t \in queued : /\ queued' = queued \ {t}
                          /\ runs' = [runs EXCEPT ![t] = @ + 1]
                          /\ Goto(w, <<RunFrame(t, 1)>>)
  BY DEF Take
<1>3. /\ t \in Node /\ fired[t] > 0 /\ runs[t] = 0 /\ told[t] = IterDeps(t)
      /\ t \notin semi /\ t \notin raised
  <2>1. t \in Node
    BY DEF QueueInv, Typed
  <2>2. TaskOK(t)
    BY <2>1 DEF QueueInv
  <2> QED BY <2>1, <2>2 DEF TaskOK
<1>4. /\ UNCHANGED topoVars /\ [TopoNext]_topoVars
      /\ UNCHANGED <<added, scheduled, semi, fired, notDispatched, outq, raised, told>>
      /\ IterDeps(t)' = IterDeps(t)
  BY DEF Take, topoVars, IterDeps, queueVars
<1>5. \A y \in Thread : \A k \in DOMAIN stack[y] : ~ Owns(stack[y][k], t)
  BY <1>3 DEF QueueInv, Owned, FrameOK
<1>6. PICK a : a = RunFrame(t, 1)
  OBVIOUS
<1>7. a \in Frame /\ a.op = "run" /\ a.task = t
  BY <1>3, <1>6, FramesTyped DEF RunFrame
<1>8. PICK fs : fs = <<a>>
  OBVIOUS
<1>9. Goto(w, fs) /\ fs \in Seq(Frame) /\ Len(fs) = 1 /\ DOMAIN fs = {1} /\ fs[1] = a
  BY <1>2, <1>6, <1>7, <1>8
<1>10. Moves(w, 1, fs)
  BY <1>1, <1>9, GotoMoves DEF QueueInv
<1>11. runs'[t] = 1 /\ \A x \in Node : x # t => runs'[x] = runs[x]
  BY <1>2, <1>3 DEF QueueInv, Typed
<1>12. Typed'
  BY <1>2, <1>3, <1>4 DEF QueueInv, Typed
<1>13. ASSUME NEW x \in Node PROVE TaskOK(x)'
  <2>1. CASE x = t
    BY <1>2, <1>3, <1>4, <1>11, <2>1 DEF TaskOK
  <2>2. CASE x # t
    BY <1>2, <1>4, <1>11, <2>2, TaskSame
  <2> QED BY <2>1, <2>2
<1>14. \A x : Owns(a, x) => x = t
  BY <1>7 DEF Owns
<1>15. FrameOK(a)'
  BY <1>2, <1>3, <1>4, <1>7, <1>11, <1>14 DEF FrameOK
<1>16. \A i \in DOMAIN fs : FrameOK(fs[i])' /\ fs[i].op # "take"
  BY <1>7, <1>9, <1>15
<1>17. \A x \in Node : \A i, j \in DOMAIN fs : Owns(fs[i], x) /\ Owns(fs[j], x) => i = j
  BY <1>9
<1>18. \A x \in Node : \A i \in DOMAIN fs : Owns(fs[i], x) =>
         \A y \in Thread : \A k \in DOMAIN stack[y] : ~ Owns(stack[y][k], x)
  BY <1>5, <1>9, <1>14
<1>19. fs[Len(fs)].op \in Catch
  BY <1>7, <1>9 DEF Catch
<1>20. \A y \in Thread : \A k \in DOMAIN stack[y] : \A x \in Node :
         Owns(stack[y][k], x) => (x \in queued' => x \in queued) /\ runs'[x] = runs[x]
  BY <1>2, <1>5, <1>11
<1>21. Passes(w, 1, fs)
  <2>1. \A x : ~ Holds(a, x)
    BY <1>7 DEF Holds
  <2> QED BY <1>4, <1>9, <2>1, FreePasses
<1> QED BY <1>4, <1>10, <1>12, <1>13, <1>16, <1>17, <1>18, <1>19, <1>20, <1>21, StepKeeps

(* A task has run: its dependants are told, and their callbacks are new    *)
(* tokens.                                                                 *)
LEMMA FinishKeeps ==
  ASSUME QueueInv, NEW th \in Thread, UNCHANGED program, FinishTask(th)
  PROVE  QueueInv' /\ [TopoNext]_topoVars
<1>1. PICK f : f = Top(th)
  OBVIOUS
<1>2. /\ f \in Frame /\ f.op = "run" /\ stack[th] # <<>> /\ f = stack[th][1]
      /\ Len(stack[th]) \in Nat \ {0} /\ DOMAIN stack[th] = 1 .. Len(stack[th])
  BY <1>1, TopFrame DEF FinishTask, In, QueueInv
<1>3. PICK t \in Node : t = f.task
  BY <1>2, FieldsTyped
<1>4. FrameOK(f) /\ \A x \in Node : Owns(f, x) <=> x = t
  BY <1>2, <1>3 DEF QueueInv, Owned, Owns
<1>5. fired[t] > 0 /\ t \notin queued /\ runs[t] = 1 /\ t \notin raised
  BY <1>2, <1>4 DEF FrameOK
<1>6. /\ NotifyDependants(t) /\ [TopoNext]_topoVars
      /\ UNCHANGED <<added, notDispatched, queued, outq, raised, told, runs>>
      /\ semi' = semi \cup {t}
  BY <1>1, <1>3 DEF FinishTask, NotifyDependants, TopoNext, queueVars, poolVars, seenVars
<1>7. PICK a, b : a = FireFrame(NewlyFired, FALSE) /\ b = DoneFrame(t, "ok")
  OBVIOUS
<1>8. NewlyFired \subseteq Node
  BY DEF NewlyFired
<1>9. /\ a \in Frame /\ a.op = "fire" /\ a.tasks = NewlyFired
      /\ b \in Frame /\ b.op = "done"
  BY <1>7, <1>8, FramesTyped DEF FireFrame, DoneFrame
<1>10. PICK fs : fs = <<a, b>>
  OBVIOUS
<1>11. fs \in Seq(Frame) /\ Len(fs) = 2 /\ DOMAIN fs = 1 .. 2 /\ fs[1] = a /\ fs[2] = b
  BY <1>9, <1>10
<1>12. Goto(th, fs)
  BY <1>1, <1>3, <1>7, <1>10 DEF FinishTask
<1>13. Moves(th, 1, fs)
  BY <1>2, <1>11, <1>12, GotoMoves DEF QueueInv
<1>14. \A x : (Owns(a, x) => x \in NewlyFired) /\ ~ Owns(b, x)
  BY <1>9 DEF Owns
<1>15. FrameOK(a)' /\ FrameOK(b)'
  <2>1. ASSUME NEW x \in NewlyFired PROVE fired'[x] > 0 /\ x \notin queued' /\ runs'[x] = 0
    BY <1>6, NewTokens
  <2> QED BY <1>9, <1>14, <2>1 DEF FrameOK
<1>16. ASSUME NEW x \in Node PROVE TaskOK(x)'
  <2>1. CASE x = t
    <3>1. fired'[t] > 0 /\ IterDeps(t)' = IterDeps(t)
      BY <1>5, <1>6, FiredStays, FrozenStep DEF QueueInv
    <3>2. TaskOK(t)
      BY DEF QueueInv
    <3> QED BY <1>5, <1>6, <2>1, <3>1, <3>2 DEF TaskOK
  <2>2. CASE x # t
    BY <1>6, <2>2, TaskSame
  <2> QED BY <2>1, <2>2
<1>17. Typed'
  BY <1>6 DEF QueueInv, Typed
<1>18. \A i \in DOMAIN fs : FrameOK(fs[i])' /\ fs[i].op # "take"
  BY <1>9, <1>11, <1>15
<1>19. \A x \in Node : \A i, j \in DOMAIN fs : Owns(fs[i], x) /\ Owns(fs[j], x) => i = j
  BY <1>11, <1>14
<1>20. \A x \in Node : \A i \in DOMAIN fs : Owns(fs[i], x) =>
         \A y \in Thread : \A k \in DOMAIN stack[y] : ~ Owns(stack[y][k], x)
  BY <1>6, <1>11, <1>14, NewTokens
<1>21. fs[Len(fs)].op \in Catch
  BY <1>9, <1>11 DEF Catch
<1>22. \A y \in Thread : \A k \in DOMAIN stack[y] : \A x \in Node :
         Owns(stack[y][k], x) /\ (\A j \in 1 .. 1 : ~ Owns(stack[th][j], x)) =>
           (x \in semi' => x \in semi)
  BY <1>2, <1>4, <1>6
<1>23. Passes(th, 1, fs)
  <2>1. UNCHANGED <<added, scheduled, notDispatched>>
    BY <1>6 DEF NotifyDependants
  <2>2. \A i \in DOMAIN fs : \A x \in Node : ~ Holds(fs[i], x)
    BY <1>9, <1>11 DEF Holds
  <2> QED BY <2>1, <2>2, FreePasses
<1> QED BY <1>6, <1>13, <1>16, <1>17, <1>18, <1>19, <1>20, <1>21, <1>22, <1>23, StepKeeps

-----------------------------------------------------------------------------
(* Exceptions, and workers that come and go.                               *)

LEMMA SmallestIn ==
  ASSUME NEW S, S \subseteq Nat, S # {}
  PROVE  \E k \in S : \A m \in S : k <= m
<1>1. PICK k \in S : \A m \in S : ~ (<<m, k>> \in OpToRel(<, Nat))
  BY WFMin, NatLessThanWellFounded
<1>2. ASSUME NEW m \in S PROVE ~ (m < k)
  BY <1>1 DEF OpToRel
<1>3. \A m \in S : k <= m
  BY <1>2
<1> QED BY <1>3

(* The innermost call that catches: there is one.                          *)
LEMMA Catcher ==
  ASSUME QueueInv, NEW th \in Thread, stack[th] # <<>>, Top(th).op # "take",
         NEW S, S = {k \in DOMAIN stack[th] : stack[th][k].op \in Catch},
         NEW c, c = CHOOSE k \in S : \A m \in S : k <= m
  PROVE  c \in S
<1>1. /\ Top(th) = stack[th][1] /\ 1 \in DOMAIN stack[th]
      /\ Len(stack[th]) \in Nat \ {0} /\ DOMAIN stack[th] = 1 .. Len(stack[th])
  BY TopFrame DEF QueueInv
<1>2. PICK n \in Nat \ {0} : n = Len(stack[th])
  BY <1>1
<1>3. n \in 1 .. n
  BY <1>2
<1>4. stack[th][n].op \in Catch \cup {"take"}
  BY <1>2 DEF QueueInv, Grounded
<1>5. stack[th][n].op # "take"
  <2>1. CASE n = 1
    BY <1>1, <2>1
  <2>2. CASE n # 1
    BY <1>1, <1>2, <1>3, <2>2 DEF QueueInv, Grounded
  <2> QED BY <2>1, <2>2
<1>6. S # {} /\ S \subseteq Nat
  BY <1>1, <1>2, <1>3, <1>4, <1>5
<1> QED BY <1>6, SmallestIn

LEMMA ThrowKeeps ==
  ASSUME QueueInv, NEW th \in Thread, stack[th] # <<>>, Top(th).op # "take", Throw(th),
         UNCHANGED <<topoVars, program, notDispatched, queued, told, runs>>,
         outq' \in Seq({"ok", "exc"})
  PROVE  QueueInv'
<1>1. PICK S : S = {k \in DOMAIN stack[th] : stack[th][k].op \in Catch}
  OBVIOUS
<1>2. PICK c : c = CHOOSE k \in S : \A m \in S : k <= m
  OBVIOUS
<1>3. PICK f : f = stack[th][c]
  OBVIOUS
<1>4. c \in DOMAIN stack[th] /\ f.op \in Catch
  BY <1>1, <1>2, <1>3, Catcher
<1>5. stack[th] \in Seq(Frame) /\ c \in 1 .. Len(stack[th]) /\ f \in Frame
  BY <1>3, <1>4 DEF QueueInv, Stacks
<1>6. PICK fs : fs = CASE f.op = "main" -> <<EndFrame("stop")>>
                       [] f.op = "dist" -> <<SweepFrame(notDispatched), EndFrame("over")>>
                       [] f.op = "end"  -> <<f>>
                       [] OTHER         -> <<DoneFrame(f.task, "exc")>>
  OBVIOUS
<1>7. /\ raised' = IF f.op = "run" THEN raised \cup {f.task} ELSE raised
      /\ stack' = [stack EXCEPT ![th] = fs \o SubSeq(@, c + 1, Len(@))]
  BY <1>1, <1>2, <1>3, <1>6, Zenon DEF Throw, Catch
<1>8. /\ fs \in Seq(Frame) /\ fs # <<>> /\ fs[Len(fs)].op \in Catch
      /\ \A i \in DOMAIN fs : fs[i].op \in {"sweep", "end", "done"}
  <2>1. CASE f.op = "main"
    <3>1. PICK a : a = EndFrame("stop")
      OBVIOUS
    <3>2. a \in Frame /\ a.op = "end" /\ fs = <<a>>
      BY <1>6, <2>1, <3>1, FramesTyped DEF EndFrame
    <3> QED BY <3>2 DEF Catch
  <2>2. CASE f.op = "dist"
    <3>1. PICK a, b : a = SweepFrame(notDispatched) /\ b = EndFrame("over")
      OBVIOUS
    <3>2. /\ a \in Frame /\ a.op = "sweep" /\ b \in Frame /\ b.op = "end"
          /\ fs = <<a, b>>
      BY <1>6, <2>2, <3>1, FramesTyped DEF SweepFrame, EndFrame, QueueInv, Typed
    <3> QED BY <3>2 DEF Catch
  <2>3. CASE f.op = "end"
    <3>1. fs = <<f>>
      BY <1>6, <2>3
    <3> QED BY <1>5, <2>3, <3>1 DEF Catch
  <2>4. CASE f.op \in {"run", "done"}
    <3>1. PICK a : a = DoneFrame(f.task, "exc")
      OBVIOUS
    <3>2. a \in Frame /\ a.op = "done" /\ fs = <<a>>
      BY <1>5, <1>6, <2>4, <3>1, FieldsTyped, FramesTyped DEF DoneFrame
    <3> QED BY <3>2 DEF Catch
  <2> QED BY <1>4, <2>1, <2>2, <2>3, <2>4 DEF Catch
<1>9. Moves(th, c, fs)
  <2>1. c \in 0 .. Len(stack[th])
    BY <1>5
  <2>2. stack' = [stack EXCEPT ![th] = fs \o SubSeq(@, c + 1, Len(@))]
    BY <1>7
  <2> QED BY <1>8, <2>1, <2>2, ReplaceMoves DEF QueueInv
<1>10. \A t \in Node : \A i \in DOMAIN fs : ~ Owns(fs[i], t)
  BY <1>8 DEF Owns
<1>11. \A i \in DOMAIN fs : FrameOK(fs[i])'
  BY <1>10 DEF FrameOK
<1>12. [TopoNext]_topoVars /\ UNCHANGED <<added, semi>>
  BY DEF topoVars
<1>13. f.op = "run" => /\ f.task \in Node /\ Owns(f, f.task)
                       /\ runs[f.task] = 1 /\ f.task \notin semi
  <2>1. f.op = "run" => f.task \in Node /\ Owns(f, f.task)
    BY <1>5, FieldsTyped DEF Owns
  <2>2. FrameOK(f)
    BY <1>3, <1>4 DEF QueueInv, Owned
  <2> QED BY <2>1, <2>2 DEF FrameOK
<1>14. Typed'
  BY <1>7, <1>12, <1>13 DEF QueueInv, Typed
<1>15. ASSUME NEW t \in Node PROVE TaskOK(t)'
  <2>1. CASE f.op = "run" /\ t = f.task
    <3>1. TaskOK(t)
      BY DEF QueueInv
    <3>2. fired[t] > 0 => fired'[t] > 0 /\ IterDeps(t)' = IterDeps(t)
      BY <1>12, FiredStays, FrozenStep DEF QueueInv
    <3> QED BY <1>12, <1>13, <2>1, <3>1, <3>2 DEF TaskOK
  <2>2. CASE ~ (f.op = "run" /\ t = f.task)
    <3>1. t \in raised' <=> t \in raised
      BY <1>7, <2>2
    <3> QED BY <1>12, <3>1, TaskSame
  <2> QED BY <2>1, <2>2
<1>16. \A a \in Thread : \A k \in DOMAIN stack[a] : \A t \in Node :
         Owns(stack[a][k], t) /\ (\A j \in 1 .. c : ~ Owns(stack[th][j], t)) =>
           (t \in raised' => t \in raised)
  <2>1. c \in 1 .. c
    BY <1>5
  <2> QED BY <1>3, <1>7, <1>13, <2>1
<1>17. c > 0
  BY <1>5
<1>18. Passes(th, c, fs)
  <2>1. UNCHANGED <<added, scheduled, notDispatched>>
    BY DEF topoVars
  <2>2. \A i \in DOMAIN fs : \A t \in Node : ~ Holds(fs[i], t)
    BY <1>8 DEF Holds
  <2> QED BY <2>1, <2>2, FreePasses
<1>19. \A i \in DOMAIN fs : fs[i].op # "take"
  BY <1>8
<1> QED BY <1>8, <1>9, <1>10, <1>11, <1>12, <1>14, <1>15, <1>16, <1>17, <1>18, <1>19, StepKeeps

LEMMA RaiseKeeps ==
  ASSUME QueueInv, NEW th \in Thread, UNCHANGED program,
         \/ FireStopped(th) \/ RaiseTask(th)
         \/ NextResult /\ At(Main, "process", "exc") /\ th = Main
  PROVE  QueueInv' /\ [TopoNext]_topoVars
<1>1. /\ stack[th] # <<>> /\ Top(th).op # "take" /\ Throw(th)
      /\ UNCHANGED <<topoVars, notDispatched, queued, told, runs, outq>>
  BY DEF FireStopped, RaiseTask, NextResult, At, In, poolVars
<1>2. outq' \in Seq({"ok", "exc"})
  BY <1>1 DEF QueueInv, Typed
<1> QED BY <1>1, <1>2, ThrowKeeps

LEMMA WorkerKeeps ==
  ASSUME QueueInv, NEW w \in Thread, UNCHANGED program, CheckState(w) \/ EndWorker(w)
  PROVE  QueueInv' /\ [TopoNext]_topoVars
<1>1. /\ UNCHANGED <<topoVars, added, scheduled, semi, notDispatched, queued, told, runs, raised>>
      /\ [TopoNext]_topoVars /\ outq' \in Seq({"ok", "exc"})
  BY DEF CheckState, EndWorker, topoVars, queueVars, poolVars, seenVars, QueueInv, Typed
<1>2. PICK c : c = Len(stack[w])
  OBVIOUS
<1>3. stack[w] \in Seq(Frame) /\ c \in Nat /\ (c > 0 \/ stack[w] = <<>>)
  BY <1>2 DEF QueueInv, Stacks
<1>4. PICK fs : fs = IF CheckState(w) THEN <<TakeFrame>> ELSE <<>>
  OBVIOUS
<1>5. PICK a : a = TakeFrame
  OBVIOUS
<1>6. a \in Frame /\ a.op = "take"
  BY <1>5, FramesTyped DEF TakeFrame
<1>7. fs = <<a>> \/ fs = <<>>
  BY <1>4, <1>5
<1>8. /\ fs \in Seq(Frame)
      /\ fs = <<>> \/ fs[Len(fs)].op \in Catch \cup {"take"}
      /\ \A i \in DOMAIN fs : fs[i].op = "take" /\ Len(fs) = 1
  <2>1. CASE fs = <<a>>
    BY <1>6, <2>1
  <2>2. CASE fs = <<>>
    BY <2>2
  <2> QED BY <1>7, <2>1, <2>2
<1>9. stack' = [stack EXCEPT ![w] = fs]
  BY <1>4 DEF CheckState, EndWorker
<1>10. Moves(w, c, fs)
  BY <1>2, <1>8, <1>9, SetMoves DEF QueueInv
<1>11. \A t \in Node : \A i \in DOMAIN fs : ~ Owns(fs[i], t)
  BY <1>8 DEF Owns
<1>12. \A i \in DOMAIN fs : FrameOK(fs[i])'
  BY <1>11 DEF FrameOK
<1>13. Typed' /\ \A t \in Node : TaskOK(t)'
  BY <1>1, TaskSame DEF QueueInv, Typed
<1>14. Passes(w, c, fs)
  <2>1. \A i \in DOMAIN fs : \A t \in Node : ~ Holds(fs[i], t)
    BY <1>8 DEF Holds
  <2> QED BY <1>1, <2>1, FreePasses
<1> QED BY <1>1, <1>2, <1>3, <1>8, <1>10, <1>11, <1>12, <1>13, <1>14, StepKeeps

(* A step that touches no stack, no task and not Topo.                     *)
LEMMA SameKeeps ==
  ASSUME QueueInv, UNCHANGED <<topoVars, program, notDispatched, queued, outq, stack, seenVars>>
  PROVE  QueueInv' /\ [TopoNext]_topoVars
<1>1. [TopoNext]_topoVars
  BY DEF topoVars
<1>2. TopoInv'
  BY <1>1, TopoInvNext DEF QueueInv
<1>3. UNCHANGED <<added, scheduled, fired, semi, told, runs, raised, queued, stack>>
  BY DEF topoVars, seenVars
<1>4. \A t : IterDeps(t)' = IterDeps(t)
  BY DEF topoVars, IterDeps
<1>5. Typed' /\ Stacks' /\ Grounded' /\ Alone'
  BY <1>3 DEF QueueInv, Typed, Stacks, Grounded, Alone
<1>6. Owned' /\ \A t \in Node : TaskOK(t)'
  BY <1>3, <1>4 DEF QueueInv, Owned, FrameOK, TaskOK
<1>7. OneHolder' /\ Held'
  BY <1>3 DEF QueueInv, OneHolder, Held, Open
<1> QED BY <1>1, <1>2, <1>5, <1>6, <1>7 DEF QueueInv

-----------------------------------------------------------------------------
LEMMA InitKeeps == Init => QueueInv
<1> SUFFICES ASSUME Init PROVE QueueInv
  OBVIOUS
<1>1. TopoInit /\ TopoInv
  BY TopoInvInit DEF Init
<1>2. PICK m, d : m = MainFrame(1) /\ d = DistFrame
  OBVIOUS
<1>3. m \in Frame /\ m.op = "main" /\ d \in Frame /\ d.op = "dist"
  BY <1>2 DEF MainFrame, DistFrame, Frame
<1>4. stack = [th \in Thread |-> IF th = Main THEN <<m>> ELSE IF th = Dist THEN <<d>> ELSE <<>>]
  BY <1>2 DEF Init
<1>5. ASSUME NEW th \in Thread
      PROVE  /\ stack[th] \in Seq(Frame)
             /\ stack[th] # <<>> => stack[th][Len(stack[th])].op \in Catch
             /\ \A k \in DOMAIN stack[th] : stack[th][k].op \in {"main", "dist"}
  <2>1. CASE th = Main
    BY <1>3, <1>4, <2>1 DEF Catch
  <2>2. CASE th # Main /\ th = Dist
    BY <1>3, <1>4, <2>2 DEF Catch
  <2>3. CASE th # Main /\ th # Dist
    BY <1>4, <2>3
  <2> QED BY <2>1, <2>2, <2>3
<1>6. \A th \in Thread : \A k \in DOMAIN stack[th] : \A t : ~ Owns(stack[th][k], t)
  BY <1>5 DEF Owns
<1>7. Stacks /\ Grounded
  BY <1>4, <1>5 DEF Stacks, Grounded
<1>8. Alone /\ Owned
  BY <1>6 DEF Alone, Owned, FrameOK
<1>9. Typed
  BY <1>1 DEF Init, TopoInit, Typed
<1>10. \A t \in Node : TaskOK(t)
  BY <1>1 DEF Init, TopoInit, TaskOK
<1>11. OneHolder /\ Held
  <2>1. \A th \in Thread : \A k \in DOMAIN stack[th] : \A t : ~ Holds(stack[th][k], t)
    BY <1>5 DEF Holds
  <2>2. OneHolder
    BY <2>1 DEF OneHolder
  <2>3. notDispatched = {}
    BY DEF Init
  <2> QED BY <2>1, <2>2, <2>3 DEF Held
<1> QED BY <1>1, <1>7, <1>8, <1>9, <1>10, <1>11 DEF QueueInv

LEMMA ThreadKeeps ==
  ASSUME QueueInv, NEW th \in Thread, UNCHANGED program, Step(th)
  PROVE  QueueInv' /\ [TopoNext]_topoVars
<1>1. CASE CacheHit(th) \/ SignalReady(th)
  BY <1>1, CacheHitKeeps
<1>2. CASE AddTask(th)
  BY <1>2, AddTaskKeeps
<1>3. CASE AddMerge(th)
  BY <1>3, AddMergeKeeps
<1>4. CASE AddDepsAndPublish(th)
  BY <1>4, AddDepsKeeps
<1>5. CASE AddLeave(th) \/ DispatchExit(th) \/ FireEnd(th) \/ PutResult(th)
  BY <1>5, ReturnKeeps
<1>6. CASE DispatchEnter(th) \/ DispatchRemove(th)
  BY <1>6, EnterKeeps, RemoveKeeps
<1>7. CASE DispatchSchedule(th)
  BY <1>7, ScheduleKeeps
<1>8. CASE DispatchAll(th)
  BY <1>8, DispatchAllKeeps
<1>9. CASE \E t \in Node : Fire(th, t)
  BY <1>9, FireKeeps
<1>10. CASE Put(th)
  BY <1>10, PutKeeps
<1>11. CASE FireStopped(th) \/ RaiseTask(th)
  BY <1>11, RaiseKeeps
<1>12. CASE FinishTask(th)
  BY <1>12, FinishKeeps
<1> QED BY <1>1, <1>2, <1>3, <1>4, <1>5, <1>6, <1>7, <1>8, <1>9, <1>10, <1>11, <1>12 DEF Step

LEMMA NextKeeps ==
  ASSUME QueueInv, [Next]_<<program, vars>>
  PROVE  QueueInv' /\ [TopoNext]_topoVars
<1>1. Main \in Thread /\ Dist \in Thread /\ Worker \subseteq Thread
  BY DEF Thread
<1>2. CASE MainStep /\ UNCHANGED program
  <2>1. CASE Step(Main)
    BY <1>1, <1>2, <2>1, ThreadKeeps
  <2>2. CASE NextResult /\ At(Main, "process", "exc")
    BY <1>1, <1>2, <2>2, RaiseKeeps
  <2>3. CASE \/ BeginProcess \/ NextLook \/ NextPending \/ NextCounter \/ NextGet
             \/ NextResult /\ At(Main, "process", "ok")
             \/ EndProgram \/ StopState \/ JoinWorkers
    BY <1>1, <1>2, <2>3, MainKeeps
  <2>4. NextResult => At(Main, "process", "ok") \/ At(Main, "process", "exc")
    BY DEF NextResult
  <2> QED BY <1>2, <2>1, <2>2, <2>3, <2>4 DEF MainStep
<1>3. CASE DistStep /\ UNCHANGED program
  <2>1. CASE Step(Dist)
    BY <1>1, <1>3, <2>1, ThreadKeeps
  <2>2. CASE DistReport \/ DistEnd
    BY <1>1, <1>3, <2>2, DistKeeps
  <2> QED BY <1>3, <2>1, <2>2 DEF DistStep
<1>4. ASSUME NEW w \in Worker, WorkerStep(w), UNCHANGED program
      PROVE  QueueInv' /\ [TopoNext]_topoVars
  <2>1. CASE Step(w)
    BY <1>1, <1>4, <2>1, ThreadKeeps
  <2>2. CASE CheckState(w) \/ EndWorker(w)
    BY <1>1, <1>4, <2>2, WorkerKeeps
  <2>3. CASE Take(w)
    BY <1>1, <1>4, <2>3, TakeKeeps
  <2> QED BY <1>4, <2>1, <2>2, <2>3 DEF WorkerStep
<1>5. ASSUME NEW w \in Worker, FastFail(w), UNCHANGED program
      PROVE  QueueInv' /\ [TopoNext]_topoVars
  <2>1. UNCHANGED <<topoVars, program, notDispatched, queued, outq, stack, seenVars>>
    BY <1>5 DEF FastFail, queueVars, poolVars
  <2> QED BY <2>1, SameKeeps
<1>6. ASSUME UNCHANGED <<program, vars>>
      PROVE  QueueInv' /\ [TopoNext]_topoVars
  <2>1. UNCHANGED <<topoVars, program, notDispatched, queued, outq, stack, seenVars>>
    BY <1>6 DEF vars, queueVars, poolVars
  <2> QED BY <2>1, SameKeeps
<1> QED BY <1>2, <1>3, <1>4, <1>5, <1>6 DEF Next, Terminated

(* Every callback that Topo hands out is in one place until it is used up, *)
(* whatever the threads do: the run queue loses none and doubles none.     *)
THEOREM QueueInvariant == Spec => []QueueInv
<1>1. QueueInv /\ [Next]_<<program, vars>> => QueueInv'
  BY NextKeeps
<1> QED BY <1>1, InitKeeps, PTL DEF Spec

(* A task runs once, and after everything it was told about, however many  *)
(* threads dispatch it and whichever tasks fail.                           *)
THEOREM RunOnceHolds == Spec => []RunOnce
<1>1. QueueInv => RunOnce
  <2> SUFFICES ASSUME QueueInv, NEW t \in Node, runs[t] > 0
               PROVE  runs[t] = 1 /\ told[t] = IterDeps(t) /\ told[t] \subseteq semi \ raised
    BY DEF RunOnce
  <2>1. TaskOK(t) /\ \A d \in Node : TaskOK(d)
    BY DEF QueueInv
  <2>2. runs[t] = 1 /\ fired[t] > 0 /\ told[t] = IterDeps(t)
    BY <2>1 DEF TaskOK
  <2>3. deps[t] \subseteq completed
    BY <2>2 DEF QueueInv, TopoInv, FiredReady
  <2>4. \A d \in deps[t] : group[d] \subseteq semi
    BY <2>3 DEF QueueInv, TopoInv, CompletedGroups, GroupDone
  <2>5. semi \subseteq Node
    BY DEF QueueInv, TopoInv, TopoTypeOK
  <2>6. \A d \in semi : d \notin raised
    BY <2>1, <2>5 DEF TaskOK
  <2> QED BY <2>2, <2>4, <2>6 DEF IterDeps
<1> QED BY <1>1, QueueInvariant, PTL

(* No call of Topo about a task comes too late or twice.                   *)
THEOREM NeverRefusedHolds == Spec => []NeverRefused
<1>1. QueueInv => NeverRefused
  <2> SUFFICES ASSUME QueueInv, NEW th \in Thread, NEW f, f = Top(th), stack[th] # <<>>
               PROVE  /\ f.op = "add" /\ f.step \in {"merge", "deps"} =>
                           f.instr.task \in added \ scheduled
                      /\ f.op = "dispatch" /\ f.step = "schedule" =>
                           f.task \in added \ scheduled
                      /\ f.op = "run" => fired[f.task] > 0 /\ f.task \notin semi
    BY DEF NeverRefused, At, In
  <2>1. f \in Frame /\ f = stack[th][1] /\ 1 \in DOMAIN stack[th]
    BY TopFrame DEF QueueInv
  <2>2. CASE f.op = "add" /\ f.step \in {"merge", "deps"}
    <3>1. f.instr.task \in Node /\ Holds(f, f.instr.task)
      BY <2>1, <2>2, FieldsTyped DEF AddInstr, Holds
    <3> QED BY <2>1, <2>2, <3>1 DEF QueueInv, Held, Open
  <2>3. CASE f.op = "dispatch" /\ f.step = "schedule"
    <3>1. f.task \in Node /\ Holds(f, f.task)
      BY <2>1, <2>3, FieldsTyped DEF Holds
    <3> QED BY <2>1, <2>3, <3>1 DEF QueueInv, Held, Open
  <2>4. CASE f.op = "run"
    <3>1. f.task \in Node /\ Owns(f, f.task)
      BY <2>1, <2>4, FieldsTyped DEF Owns
    <3> QED BY <2>1, <2>4, <3>1 DEF QueueInv, Owned, FrameOK
  <2> QED BY <2>2, <2>3, <2>4
<1> QED BY <1>1, QueueInvariant, PTL

(* Whatever the threads do to Topo, in whatever order, is a behaviour of   *)
(* Topo: so what is proved of Topo holds in the run queue.                 *)
THEOREM RunQueueImplementsTopo == Spec => TopoSpec
<1>1. Init => TopoInit
  BY DEF Init
<1>2. QueueInv /\ [Next]_<<program, vars>> => [TopoNext]_topoVars
  BY NextKeeps
<1> QED BY <1>1, <1>2, QueueInvariant, PTL DEF Spec, TopoSpec

(* The threads together keep the promise of TaskGraph: a callback is       *)
(* handed out in the very step that makes its task ready.                  *)
THEOREM RunQueueImplementsTaskGraph == Spec => AbstractSpec
BY RunQueueImplementsTopo, TopoImplementsTaskGraph, PTL

-----------------------------------------------------------------------------
(* The second inductive invariant: what is on the stacks, what the two     *)
(* counters count, and that nothing is lost.                               *)

CodeOf(f) == IF f.op = "main" THEN MainProg ELSE program.body[f.task]

(* Frame f may be called from frame g.                                     *)
CalledFrom(f, g) ==
  \/ /\ f.op = "add" /\ g.op \in {"main", "run"}
     /\ g.at - 1 \in DOMAIN CodeOf(g) /\ f.instr = CodeOf(g)[g.at - 1]
  \/ f.op = "dispatch" /\ (g.op \in {"sweep", "dist"} \/ (g.op = "add" /\ g.step = "leave"))
  \/ f.op = "fire" /\ (g.op = "done" \/ (g.op = "dispatch" /\ g.step = "exit"))
  \/ f.op \in {"put", "run", "done"} /\ g.op = "fire"
  \/ /\ f.op = "sweep"
     /\ \/ g.op = "end"
        \/ /\ g.op \in {"main", "run"} /\ g.at - 1 \in DOMAIN CodeOf(g)
           /\ CodeOf(g)[g.at - 1].op = "dispatch_all"
  \/ f.op = "process" /\ g.op = "main"

Bottom(th) == IF th = Main THEN {"main", "end"}
              ELSE IF th = Dist THEN {"dist", "end"} ELSE {"run", "done", "take"}

Nested ==
  \A th \in Thread :
    /\ IF stack[th] = <<>> THEN th \in Worker
                           ELSE stack[th][Len(stack[th])].op \in Bottom(th)
    /\ \A k \in 1 .. Len(stack[th]) - 1 : CalledFrom(stack[th][k], stack[th][k + 1])

(* The frames of set K, by their place from the bottom of a stack.         *)
Spots(K) ==
  {spot \in Thread \X Nat :
     /\ spot[2] \in DOMAIN stack[spot[1]]
     /\ stack[spot[1]][Len(stack[spot[1]]) + 1 - spot[2]] \in K}

Entered == {f \in Frame : f.op = "dispatch" /\ f.step # "enter"}
Uncounted == {f \in Frame : \/ f.op \in {"run", "done"}
                            \/ f.op = "process" /\ f.step \in {"ok", "exc"}}

Counted ==
  /\ IsFiniteSet(Spots(Entered)) /\ dispatching = Cardinality(Spots(Entered))
  /\ IsFiniteSet(Spots(Uncounted)) /\ IsFiniteSet(queued)
  /\ ~ stopped => active = Cardinality(queued) + Cardinality(Spots(Uncounted)) + Len(outq)

(* Until the build is stopped no token, no open task and no exception is   *)
(* lost.                                                                   *)
OnStack(F) == \E th \in Thread : \E k \in DOMAIN stack[th] : stack[th][k] \in F
Owners(t) == {f \in Frame : Owns(f, t)}
Holders(t) == {f \in Frame : Holds(f, t)}
Fatal == {f \in Frame : \/ f.op = "done" /\ f.how = "exc"
                        \/ f.op = "process" /\ f.step = "exc"}

Kept ==
  ~ stopped =>
    /\ \A t \in Node : fired[t] > 0 => t \in semi \cup raised \cup queued \/ OnStack(Owners(t))
    /\ \A t \in Open : OnStack(Holders(t))
    /\ raised # {} /\ ~ failed => OnStack(Fatal) \/ \E i \in DOMAIN outq : outq[i] = "exc"

(* Main between the looks of next() and at its end.                        *)
PhaseOf(th, f) ==
  /\ f.op = "main" => ~ failed
  /\ f.op = "process" /\ f.step \in {"pending", "counter"} => condLock = Main /\ active = 0
  /\ f.op = "process" /\ f.step = "counter" /\ ~ stopped => notDispatched = {}
  /\ f.op = "add" /\ f.step = "merge" => f.instr.joint # None
  /\ th = Main /\ f.op = "end" /\ f.step # "stop" => stopped
Phases == \A th \in Thread : \A k \in DOMAIN stack[th] : PhaseOf(th, stack[th][k])

(* What code has been executed, and what has not.                          *)
AddsOf(f) == {k \in DOMAIN CodeOf(f) : CodeOf(f)[k].op = "add"}
Executed(f) ==
  f.op \in {"main", "run"} =>
    \A k \in AddsOf(f) :
      /\ k < f.at => CodeOf(f)[k].task \in added
      /\ k >= f.at /\ ~ CodeOf(f)[k].cached => CodeOf(f)[k].task \notin added
FirstAdded == added # {} /\ <<None, 1>> \in Places(program) =>
                InstrAt(program, <<None, 1>>).task \in added
Scripted ==
  /\ FirstAdded
  /\ \A th \in Thread : \A k \in DOMAIN stack[th] : Executed(stack[th][k])
  /\ \A t \in DOMAIN program.body : runs[t] = 0 => Executed(RunFrame(t, 1))
Ranked ==
  \A rank \in Ranks(program) : \A t \in Node :
    /\ \A d \in deps[t] : rank[d] < rank[t]
    /\ \A m \in group[t] : rank[m] = rank[t]
Orderly == Scripted /\ Ranked

Resting(f) == f.op \in {"take", "dist", "sweep", "end", "main"}
              \/ (f.op = "dispatch" /\ f.step # "schedule")
Through == /\ In(Main, "main") /\ Top(Main).at > 1
           /\ MainProg[Top(Main).at - 1].op = "process" /\ ~ stopped
AllDone == /\ completed = added /\ notDispatched = {} /\ queued = {} /\ active = 0
           /\ \A th \in Thread : \A k \in DOMAIN stack[th] : Resting(stack[th][k])
Finished == Through => AllDone

Plain ==
  /\ {runqLock, cacheLock, condLock} \subseteq Thread \cup {None}
  /\ alive \subseteq Worker /\ stopped \in BOOLEAN /\ failed \in BOOLEAN
  /\ ready \in {"no", "yes", "failed"} /\ reported \in 0 .. Len(program.reports)
  /\ active \in Int

(* Who has ended, and what the thread of the distributed build never does. *)
Outside(f) == /\ f.op \in {"dist", "sweep", "end", "dispatch", "fire", "put"}
              /\ f.op \in {"dispatch", "fire", "put"} => ~ f.inplace
Ended ==
  /\ \A w \in Worker : w \notin alive => stack[w] = <<>>
  /\ \A k \in DOMAIN stack[Dist] : Outside(stack[Dist][k])
  /\ \A k \in DOMAIN stack[Main] :
       stack[Main][k].op = "end" /\ stack[Main][k].step = "over" => alive = {}
-----------------------------------------------------------------------------
(* What the steps of a thread put in the place of its innermost frame.     *)
Turn(th, f, fs) ==
  stack[th] # <<>> /\ f = Top(th) /\ f \in Frame /\ fs \in Seq(Frame) /\ Moves(th, 1, fs)

(* The frame of main or of a task behind the instruction it has executed.  *)
Advanced(f, b) ==
  /\ b \in Frame /\ f.op \in {"main", "run"} /\ b.op = f.op
  /\ f.at \in Nat /\ b.at = f.at + 1 /\ CodeOf(b) = CodeOf(f)
  /\ f.op = "run" => f.task \in DOMAIN program.body /\ b.task = f.task

Stepped(f, b, s) ==
  /\ b \in Frame /\ b.op = f.op /\ b.step = s
  /\ f.op = "add" => b.instr = f.instr
  /\ f.op = "dispatch" => b.task = f.task /\ b.inplace = f.inplace

LEMMA CodeTyped ==
  ASSUME QueueInv, NEW th \in Thread, NEW k \in DOMAIN stack[th], NEW f, f = stack[th][k],
         f.op \in {"main", "run"}
  PROVE  /\ f \in Frame /\ f.at \in Nat /\ CodeOf(f) \in Seq(Instr)
         /\ f.op = "run" => f.task \in DOMAIN program.body /\ f.task \in Node
<1>1. f \in Frame
  BY DEF QueueInv, Stacks
<1>2. f.at \in Nat /\ (f.op = "run" => f.task \in Node)
  BY <1>1 DEF Frame
<1>3. f.op = "run" => f.task \in DOMAIN program.body
  <2> SUFFICES ASSUME f.op = "run" PROVE f.task \in DOMAIN program.body
    OBVIOUS
  <2>1. f.task \in Node /\ Owns(f, f.task)
    BY <1>2 DEF Owns
  <2>2. fired[f.task] > 0
    BY <2>1 DEF QueueInv, Owned, FrameOK
  <2> QED BY <2>1, <2>2 DEF QueueInv, TopoInv, FiredReady, Typed
<1>4. CodeOf(f) \in Seq(Instr)
  BY <1>3, ProgramAssumption DEF CodeOf, QueueInv, Typed
<1> QED BY <1>1, <1>2, <1>3, <1>4

LEMMA AdvanceFrame ==
  ASSUME NEW f \in Frame, f.op \in {"main", "run"}
  PROVE  /\ [f EXCEPT !.at = @ + 1] \in Frame /\ [f EXCEPT !.at = @ + 1].op = f.op
         /\ [f EXCEPT !.at = @ + 1].at = f.at + 1 /\ f.at \in Nat
         /\ f.op = "run" => [f EXCEPT !.at = @ + 1].task = f.task
<1>1. CASE f.op = "main"
  BY <1>1 DEF Frame
<1>2. CASE f.op = "run"
  BY <1>2 DEF Frame
<1> QED BY <1>1, <1>2

LEMMA StepFields ==
  ASSUME NEW f \in Frame, NEW s, f.op \in {"add", "dispatch", "process", "end"}
  PROVE  /\ [f EXCEPT !.step = s].op = f.op /\ [f EXCEPT !.step = s].step = s
         /\ f.op = "add" => [f EXCEPT !.step = s].instr = f.instr
         /\ f.op = "dispatch" => /\ [f EXCEPT !.step = s].task = f.task
                                 /\ [f EXCEPT !.step = s].inplace = f.inplace
<1>1. CASE f.op = "add"
  BY <1>1 DEF Frame
<1>2. CASE f.op = "dispatch"
  BY <1>2 DEF Frame
<1>3. CASE f.op = "process"
  BY <1>3 DEF Frame
<1>4. CASE f.op = "end"
  BY <1>4 DEF Frame
<1> QED BY <1>1, <1>2, <1>3, <1>4

(* The ways to replace the innermost frame.                                *)
LEMMA TurnGoto ==
  ASSUME QueueInv, NEW th \in Thread, stack[th] # <<>>, NEW fs \in Seq(Frame), Goto(th, fs),
         NEW f, f = Top(th)
  PROVE  Turn(th, f, fs)
BY GotoMoves, TopFrame DEF QueueInv, Turn

LEMMA TurnPop ==
  ASSUME QueueInv, NEW th \in Thread, stack[th] # <<>>, Return(th), NEW f, f = Top(th)
  PROVE  Turn(th, f, <<>>)
<1>1. PICK fs : fs = <<>>
  OBVIOUS
<1>2. fs \in Seq(Frame) /\ Goto(th, fs)
  BY <1>1 DEF Return
<1>3. Turn(th, f, fs)
  BY <1>2, TurnGoto
<1> QED BY <1>1, <1>3

LEMMA TurnStep ==
  ASSUME QueueInv, NEW th \in Thread, stack[th] # <<>>, NEW f, f = Top(th), NEW s, GoStep(th, s),
         \/ f.op = "add" /\ s \in {"merge", "deps", "leave"}
         \/ f.op = "dispatch" /\ s \in {"enter", "remove", "schedule", "exit"}
         \/ f.op = "process" /\ s \in {"look", "pending", "counter", "get", "ok", "exc"}
         \/ f.op = "end" /\ s \in {"stop", "join", "over"}
  PROVE  \E b : Stepped(f, b, s) /\ Turn(th, f, <<b>>)
<1>1. f \in Frame
  BY TopFrame DEF QueueInv
<1>2. PICK b : b = [f EXCEPT !.step = s]
  OBVIOUS
<1>3. b \in Frame
  BY <1>1, <1>2, StepFrame
<1>4. Stepped(f, b, s)
  BY <1>1, <1>2, <1>3, StepFields DEF Stepped
<1>5. <<b>> \in Seq(Frame)
  BY <1>3
<1>6. Goto(th, <<b>>)
  BY <1>2 DEF GoStep
<1>7. Turn(th, f, <<b>>)
  BY <1>5, <1>6, TurnGoto
<1> QED BY <1>4, <1>7

LEMMA TurnAdvance ==
  ASSUME QueueInv, NEW th \in Thread, stack[th] # <<>>, NEW f, f = Top(th),
         f.op \in {"main", "run"}, Call(th, <<>>)
  PROVE  \E b : Advanced(f, b) /\ Turn(th, f, <<b>>)
<1>1. f \in Frame /\ f.at \in Nat /\ (f.op = "run" => f.task \in DOMAIN program.body)
  BY TopFrame, CodeTyped DEF QueueInv
<1>2. PICK b : b = [f EXCEPT !.at = @ + 1]
  OBVIOUS
<1>3. b \in Frame /\ b.op = f.op /\ b.at = f.at + 1 /\ (f.op = "run" => b.task = f.task)
  BY <1>1, <1>2, AdvanceFrame
<1>4. Advanced(f, b)
  BY <1>1, <1>3 DEF Advanced, CodeOf
<1>5. <<>> \o <<b>> = <<b>> /\ <<b>> \in Seq(Frame)
  BY <1>3
<1>6. Goto(th, <<b>>)
  BY <1>2, <1>5 DEF Call
<1>7. Turn(th, f, <<b>>)
  BY <1>5, <1>6, TurnGoto
<1> QED BY <1>4, <1>7

LEMMA TurnCall ==
  ASSUME QueueInv, NEW th \in Thread, stack[th] # <<>>, NEW f, f = Top(th),
         f.op \in {"main", "run"}, NEW a \in Frame, Call(th, <<a>>)
  PROVE  \E b : Advanced(f, b) /\ Turn(th, f, <<a, b>>)
<1>1. f \in Frame /\ f.at \in Nat /\ (f.op = "run" => f.task \in DOMAIN program.body)
  BY TopFrame, CodeTyped DEF QueueInv
<1>2. PICK b : b = [f EXCEPT !.at = @ + 1]
  OBVIOUS
<1>3. b \in Frame /\ b.op = f.op /\ b.at = f.at + 1 /\ (f.op = "run" => b.task = f.task)
  BY <1>1, <1>2, AdvanceFrame
<1>4. Advanced(f, b)
  BY <1>1, <1>3 DEF Advanced, CodeOf
<1>5. <<a>> \o <<b>> = <<a, b>>
  BY <1>3, Pair
<1>6. Goto(th, <<a, b>>)
  BY <1>2, <1>5 DEF Call
<1>7. <<a, b>> \in Seq(Frame)
  BY <1>3
<1>8. Turn(th, f, <<a, b>>)
  BY <1>6, <1>7, TurnGoto
<1> QED BY <1>4, <1>8

(* The steps, by the frames they replace.                                  *)
LEMMA AtCallTurn ==
  ASSUME QueueInv, NEW th \in Thread, NEW op, AtCall(th, op), NEW f, f = Top(th)
  PROVE  /\ stack[th] # <<>> /\ f \in Frame /\ f.op \in {"main", "run"} /\ Code(th) = CodeOf(f)
         /\ f.at \in DOMAIN CodeOf(f) /\ CodeOf(f)[f.at].op = op
BY TopFrame DEF AtCall, In, Code, CodeOf, QueueInv

LEMMA HitTurn ==
  ASSUME QueueInv, NEW th \in Thread, CacheHit(th) \/ SignalReady(th)
  PROVE  \E f, b : /\ Advanced(f, b) /\ Turn(th, f, <<b>>)
                   /\ f.at \in DOMAIN CodeOf(f) /\ CodeOf(f)[f.at].op \in {"add", "signal_ready"}
                   /\ CodeOf(f)[f.at].op = "add" => CodeOf(f)[f.at].task \in added
<1>1. PICK f : f = Top(th)
  OBVIOUS
<1>2. /\ stack[th] # <<>> /\ f.op \in {"main", "run"} /\ Code(th) = CodeOf(f)
      /\ f.at \in DOMAIN CodeOf(f)
      /\ \/ CodeOf(f)[f.at].op = "add" /\ CacheHit(th)
         \/ CodeOf(f)[f.at].op = "signal_ready"
  BY <1>1, AtCallTurn DEF CacheHit, SignalReady
<1>3. Call(th, <<>>)
  BY DEF CacheHit, SignalReady
<1>4. \E b : Advanced(f, b) /\ Turn(th, f, <<b>>)
  BY <1>1, <1>2, <1>3, TurnAdvance
<1>5. CodeOf(f)[f.at].op = "add" => CodeOf(f)[f.at].task \in added
  BY <1>1, <1>2 DEF CacheHit
<1> QED BY <1>2, <1>4, <1>5

LEMMA AddTaskTurn ==
  ASSUME QueueInv, NEW th \in Thread, AddTask(th)
  PROVE  \E f, a, b, i :
           /\ Advanced(f, b) /\ Turn(th, f, <<a, b>>) /\ f.at \in DOMAIN CodeOf(f)
           /\ i = CodeOf(f)[f.at] /\ i.op = "add" /\ i \in AddInstr
           /\ a \in Frame /\ a.op = "add" /\ a.instr = i /\ a.step \in {"merge", "deps"}
           /\ a.step = "merge" => i.joint # None
           /\ AddNode(i.task)
<1>1. PICK f, i : f = Top(th) /\ i = Code(th)[Top(th).at]
  OBVIOUS
<1>2. /\ stack[th] # <<>> /\ f.op \in {"main", "run"} /\ Code(th) = CodeOf(f)
      /\ f.at \in DOMAIN CodeOf(f) /\ CodeOf(f)[f.at].op = "add"
  BY <1>1, AtCallTurn DEF AddTask
<1>3. i \in AddInstr
  BY <1>1, AddTyped DEF AddTask
<1>4. PICK a : a = AddFrame(i, IF i.joint = None THEN "deps" ELSE "merge")
  OBVIOUS
<1>5. /\ a \in Frame /\ a.op = "add" /\ a.instr = i /\ a.step \in {"merge", "deps"}
      /\ a.step = "merge" => i.joint # None
  BY <1>3, <1>4, FramesTyped DEF AddFrame
<1>6. Call(th, <<a>>) /\ AddNode(i.task)
  BY <1>1, <1>4 DEF AddTask
<1>7. \E b : Advanced(f, b) /\ Turn(th, f, <<a, b>>)
  BY <1>1, <1>2, <1>5, <1>6, TurnCall
<1> QED BY <1>1, <1>2, <1>3, <1>5, <1>6, <1>7

LEMMA AddMergeTurn ==
  ASSUME QueueInv, NEW th \in Thread, AddMerge(th)
  PROVE  \E f, b : /\ f.op = "add" /\ f.step = "merge" /\ Stepped(f, b, "deps")
                   /\ Turn(th, f, <<b>>) /\ MergeNodes(f.instr.task, f.instr.joint)
<1>1. PICK f : f = Top(th)
  OBVIOUS
<1>2. /\ stack[th] # <<>> /\ f.op = "add" /\ f.step = "merge" /\ GoStep(th, "deps")
      /\ MergeNodes(f.instr.task, f.instr.joint)
  BY <1>1 DEF AddMerge, At, In
<1>3. \E b : Stepped(f, b, "deps") /\ Turn(th, f, <<b>>)
  BY <1>1, <1>2, TurnStep
<1> QED BY <1>2, <1>3

LEMMA AddDepsTurn ==
  ASSUME QueueInv, NEW th \in Thread, AddDepsAndPublish(th)
  PROVE  \E f, b, i :
           /\ f.op = "add" /\ f.step = "deps" /\ f.instr = i /\ i \in AddInstr
           /\ Stepped(f, b, "leave")
           /\ AddDeps(i.task, i.deps) /\ notDispatched' = notDispatched \cup {i.task}
           /\ \/ Turn(th, f, <<b>>)
              \/ \E a \in Frame : /\ a.op = "dispatch" /\ a.step = "enter"
                                  /\ a.inplace \in BOOLEAN /\ Turn(th, f, <<a, b>>)
<1>1. PICK f, i : f = Top(th) /\ i = Top(th).instr
  OBVIOUS
<1>2. /\ stack[th] # <<>> /\ f \in Frame /\ f.op = "add" /\ f.step = "deps"
      /\ AddDeps(i.task, i.deps) /\ notDispatched' = notDispatched \cup {i.task}
  BY <1>1, TopFrame DEF AddDepsAndPublish, At, In, QueueInv
<1>3. i \in AddInstr
  BY <1>1, <1>2, FieldsTyped
<1>4. i.task \in Node /\ i.inplace \in BOOLEAN
  BY <1>3 DEF AddInstr
<1>5. PICK a, b : a = DispatchFrame(i.task, i.inplace, "enter") /\ b = AddFrame(i, "leave")
  OBVIOUS
<1>6. /\ a \in Frame /\ b \in Frame /\ a.op = "dispatch" /\ a.step = "enter"
      /\ a.inplace = i.inplace /\ Stepped(f, b, "leave")
  BY <1>1, <1>2, <1>3, <1>4, <1>5, FramesTyped DEF DispatchFrame, AddFrame, Stepped
<1>7. CASE i.dispatch
  <2>1. Goto(th, <<a>> \o <<b>>)
    BY <1>1, <1>5, <1>7 DEF AddDepsAndPublish
  <2>2. <<a>> \o <<b>> = <<a, b>> /\ <<a, b>> \in Seq(Frame)
    BY <1>6, Pair
  <2>3. Turn(th, f, <<a, b>>)
    BY <1>1, <1>2, <2>1, <2>2, TurnGoto
  <2> QED BY <1>1, <1>2, <1>3, <1>4, <1>6, <2>3
<1>8. CASE ~ i.dispatch
  <2>1. Goto(th, <<>> \o <<b>>)
    BY <1>1, <1>5, <1>8 DEF AddDepsAndPublish
  <2>2. <<>> \o <<b>> = <<b>> /\ <<b>> \in Seq(Frame)
    BY <1>6
  <2>3. Turn(th, f, <<b>>)
    BY <1>1, <1>2, <2>1, <2>2, TurnGoto
  <2> QED BY <1>1, <1>2, <1>3, <1>6, <2>3
<1> QED BY <1>7, <1>8

(* The ends of calls.                                                      *)
LEMMA PopTurn ==
  ASSUME QueueInv, NEW th \in Thread,
         \/ AddLeave(th) \/ DispatchExit(th) \/ FireEnd(th) \/ PutResult(th)
         \/ In(th, "sweep") /\ Return(th)
  PROVE  \E f : /\ Turn(th, f, <<>>)
                /\ AddLeave(th) => f.op = "add" /\ f.step = "leave"
                /\ DispatchExit(th) => f.op = "dispatch" /\ f.step = "exit"
                /\ FireEnd(th) => f.op = "fire" /\ f.tasks = {}
                /\ PutResult(th) => f.op = "done" /\ outq' = Append(outq, f.how)
                /\ In(th, "sweep") /\ Return(th) => f.op = "sweep"
<1>1. PICK f : f = Top(th)
  OBVIOUS
<1>2. stack[th] # <<>> /\ Return(th)
  BY DEF AddLeave, DispatchExit, FireEnd, PutResult, At, In
<1>3. Turn(th, f, <<>>)
  BY <1>1, <1>2, TurnPop
<1> QED BY <1>1, <1>3 DEF AddLeave, DispatchExit, FireEnd, PutResult, At, In

LEMMA EnterTurn ==
  ASSUME QueueInv, NEW th \in Thread, DispatchEnter(th)
  PROVE  \E f, b : /\ f.op = "dispatch" /\ f.step = "enter" /\ Stepped(f, b, "remove")
                   /\ Turn(th, f, <<b>>)
<1>1. PICK f : f = Top(th)
  OBVIOUS
<1>2. stack[th] # <<>> /\ f.op = "dispatch" /\ f.step = "enter" /\ GoStep(th, "remove")
  BY <1>1 DEF DispatchEnter, At, In
<1>3. \E b : Stepped(f, b, "remove") /\ Turn(th, f, <<b>>)
  BY <1>1, <1>2, TurnStep
<1> QED BY <1>2, <1>3

LEMMA RemoveTurn ==
  ASSUME QueueInv, NEW th \in Thread, DispatchRemove(th)
  PROVE  \E f, b, s : /\ f.op = "dispatch" /\ f.step = "remove" /\ Stepped(f, b, s)
                      /\ s \in {"schedule", "exit"} /\ Turn(th, f, <<b>>)
                      /\ s = "schedule" <=> f.task \in notDispatched
                      /\ notDispatched' = notDispatched \ {f.task}
<1>1. PICK f, s : f = Top(th) /\ s = IF f.task \in notDispatched THEN "schedule" ELSE "exit"
  OBVIOUS
<1>2. /\ stack[th] # <<>> /\ f.op = "dispatch" /\ f.step = "remove" /\ GoStep(th, s)
      /\ notDispatched' = notDispatched \ {f.task}
  BY <1>1 DEF DispatchRemove, At, In
<1>3. s \in {"schedule", "exit"}
  BY <1>1
<1>4. \E b : Stepped(f, b, s) /\ Turn(th, f, <<b>>)
  BY <1>1, <1>2, <1>3, TurnStep
<1>5. s = "schedule" <=> f.task \in notDispatched
  BY <1>1
<1> QED BY <1>2, <1>3, <1>4, <1>5

LEMMA ScheduleTurn ==
  ASSUME QueueInv, NEW th \in Thread, DispatchSchedule(th)
  PROVE  \E f, a, b : /\ f.op = "dispatch" /\ f.step = "schedule" /\ Stepped(f, b, "exit")
                      /\ a \in Frame /\ a.op = "fire" /\ a.tasks = NewlyFired
                      /\ a.inplace = f.inplace /\ Turn(th, f, <<a, b>>)
                      /\ ScheduleNode(f.task)
<1>1. PICK f : f = Top(th)
  OBVIOUS
<1>2. stack[th] # <<>> /\ f \in Frame /\ f.op = "dispatch" /\ f.step = "schedule"
      /\ ScheduleNode(f.task)
  BY <1>1, TopFrame DEF DispatchSchedule, At, In, QueueInv
<1>3. PICK a, b : a = FireFrame(NewlyFired, f.inplace) /\ b = [f EXCEPT !.step = "exit"]
  OBVIOUS
<1>4. f.inplace \in BOOLEAN /\ NewlyFired \subseteq Node
  BY <1>2, FieldsTyped DEF NewlyFired
<1>5. a \in Frame /\ a.op = "fire" /\ a.tasks = NewlyFired /\ a.inplace = f.inplace
  BY <1>3, <1>4, FramesTyped DEF FireFrame
<1>6. Stepped(f, b, "exit")
  BY <1>2, <1>3, StepFrame, StepFields DEF Stepped
<1>7. Goto(th, <<a, b>>)
  BY <1>1, <1>3 DEF DispatchSchedule
<1>8. b \in Frame
  BY <1>6 DEF Stepped
<1>9. <<a, b>> \in Seq(Frame)
  BY <1>5, <1>8
<1>10. Turn(th, f, <<a, b>>)
  BY <1>1, <1>2, <1>7, <1>9, TurnGoto
<1> QED BY <1>2, <1>5, <1>6, <1>10

LEMMA SweepTurn ==
  ASSUME QueueInv, NEW th \in Thread, DispatchAll(th)
  PROVE  \/ \E f, a, b : /\ Advanced(f, b) /\ Turn(th, f, <<a, b>>) /\ f.at \in DOMAIN CodeOf(f)
                         /\ CodeOf(f)[f.at].op = "dispatch_all" /\ a \in Frame /\ a.op = "sweep"
         \/ In(th, "sweep") /\ Return(th)
         \/ \E f, a, b : /\ f.op = "sweep" /\ b.op = "sweep" /\ a \in Frame /\ b \in Frame
                         /\ a.op = "dispatch" /\ a.step = "enter" /\ ~ a.inplace
                         /\ Turn(th, f, <<a, b>>)
<1>1. PICK f : f = Top(th)
  OBVIOUS
<1>2. CASE AtCall(th, "dispatch_all") /\ Call(th, <<SweepFrame(notDispatched)>>)
  <2>1. /\ stack[th] # <<>> /\ f.op \in {"main", "run"} /\ f.at \in DOMAIN CodeOf(f)
        /\ CodeOf(f)[f.at].op = "dispatch_all"
    BY <1>1, <1>2, AtCallTurn
  <2>2. PICK a : a = SweepFrame(notDispatched)
    OBVIOUS
  <2>3. a \in Frame /\ a.op = "sweep"
    BY <2>2, FramesTyped DEF QueueInv, Typed, SweepFrame
  <2>4. \E b : Advanced(f, b) /\ Turn(th, f, <<a, b>>)
    BY <1>1, <1>2, <2>1, <2>2, <2>3, TurnCall
  <2> QED BY <2>1, <2>3, <2>4
<1>3. ASSUME In(th, "sweep"), NEW t \in Top(th).tasks,
             Goto(th, <<DispatchFrame(t, FALSE, "enter"), SweepFrame(Top(th).tasks \ {t})>>)
      PROVE  \E a, b : /\ f.op = "sweep" /\ b.op = "sweep" /\ a \in Frame /\ b \in Frame
                       /\ a.op = "dispatch" /\ a.step = "enter" /\ ~ a.inplace
                       /\ Turn(th, f, <<a, b>>)
  <2>1. PICK a, b : a = DispatchFrame(t, FALSE, "enter") /\ b = SweepFrame(Top(th).tasks \ {t})
    OBVIOUS
  <2>2. stack[th] # <<>> /\ f.op = "sweep"
    BY <1>1, <1>3 DEF In
  <2>3. Top(th).tasks \subseteq Node
    BY <1>1, <2>2, TopFrame, FieldsTyped DEF QueueInv
  <2>4. /\ a \in Frame /\ b \in Frame /\ b.op = "sweep"
        /\ a.op = "dispatch" /\ a.step = "enter" /\ ~ a.inplace
    BY <2>1, <2>3, FramesTyped DEF DispatchFrame, SweepFrame
  <2>5. Goto(th, <<a, b>>)
    BY <1>3, <2>1
  <2>6. <<a, b>> \in Seq(Frame)
    BY <2>4
  <2>7. Turn(th, f, <<a, b>>)
    BY <1>1, <2>2, <2>5, <2>6, TurnGoto
  <2> QED BY <2>2, <2>4, <2>7
<1> QED BY <1>2, <1>3 DEF DispatchAll

LEMMA FireTurn ==
  ASSUME QueueInv, NEW th \in Thread, NEW t \in Node, Fire(th, t)
  PROVE  \E f, a, b : /\ f.op = "fire" /\ t \in f.tasks /\ b.op = "fire" /\ b.tasks = f.tasks \ {t}
                      /\ a \in Frame /\ b \in Frame /\ a.op = "put" /\ a.task = t
                      /\ a.inplace = f.inplace /\ b.inplace = f.inplace
                      /\ Turn(th, f, <<a, b>>)
<1>1. PICK f : f = Top(th)
  OBVIOUS
<1>2. stack[th] # <<>> /\ f \in Frame /\ f.op = "fire" /\ t \in f.tasks
  BY <1>1, TopFrame DEF Fire, In, QueueInv
<1>3. PICK a, b : a = PutFrame(t, f.inplace) /\ b = FireFrame(f.tasks \ {t}, f.inplace)
  OBVIOUS
<1>4. f.tasks \subseteq Node /\ f.inplace \in BOOLEAN
  BY <1>2, FieldsTyped
<1>5. /\ a \in Frame /\ b \in Frame /\ a.op = "put" /\ a.task = t /\ b.op = "fire"
      /\ b.tasks = f.tasks \ {t} /\ a.inplace = f.inplace /\ b.inplace = f.inplace
  BY <1>3, <1>4, FramesTyped DEF PutFrame, FireFrame
<1>6. Goto(th, <<a, b>>) /\ <<a, b>> \in Seq(Frame)
  BY <1>1, <1>3, <1>5 DEF Fire
<1>7. Turn(th, f, <<a, b>>)
  BY <1>1, <1>2, <1>6, TurnGoto
<1> QED BY <1>2, <1>5, <1>7

LEMMA PutTurn ==
  ASSUME QueueInv, NEW th \in Thread, Put(th)
  PROVE  \E f : /\ f \in Frame /\ f.op = "put" /\ f.task \in Node
                /\ \/ /\ ~ f.inplace /\ Turn(th, f, <<>>)
                      /\ queued' = queued \cup {f.task} /\ runs' = runs
                   \/ /\ f.inplace /\ queued' = queued
                      /\ runs' = [runs EXCEPT ![f.task] = @ + 1]
                      /\ \E b \in Frame : /\ b = RunFrame(f.task, 1) /\ Turn(th, f, <<b>>)
                                          /\ b.op = "run" /\ b.task = f.task /\ b.at = 1
<1>1. PICK f : f = Top(th)
  OBVIOUS
<1>2. stack[th] # <<>> /\ f \in Frame /\ f.op = "put"
  BY <1>1, TopFrame DEF Put, In, QueueInv
<1>3. f.task \in Node
  BY <1>2, FieldsTyped
<1>4. CASE ~ f.inplace
  <2>1. Return(th) /\ queued' = queued \cup {f.task} /\ runs' = runs
    BY <1>1, <1>4 DEF Put
  <2>2. Turn(th, f, <<>>)
    BY <1>1, <1>2, <2>1, TurnPop
  <2> QED BY <1>2, <1>3, <1>4, <2>1, <2>2
<1>5. CASE f.inplace
  <2>1. PICK b : b = RunFrame(f.task, 1)
    OBVIOUS
  <2>2. b \in Frame /\ b.op = "run" /\ b.task = f.task /\ b.at = 1
    BY <1>3, <2>1, FramesTyped DEF RunFrame
  <2>3. /\ Goto(th, <<b>>) /\ queued' = queued
        /\ runs' = [runs EXCEPT ![f.task] = @ + 1]
    BY <1>1, <1>5, <2>1 DEF Put
  <2>4. <<b>> \in Seq(Frame)
    BY <2>2
  <2>5. Turn(th, f, <<b>>)
    BY <1>1, <1>2, <2>3, <2>4, TurnGoto
  <2> QED BY <1>2, <1>3, <1>5, <2>1, <2>2, <2>3, <2>5
<1> QED BY <1>4, <1>5

LEMMA FinishTurn ==
  ASSUME QueueInv, NEW th \in Thread, FinishTask(th)
  PROVE  \E f, a, b : /\ f.op = "run" /\ f.task \in Node /\ NotifyDependants(f.task)
                      /\ a \in Frame /\ a.op = "fire" /\ a.tasks = NewlyFired
                      /\ b \in Frame /\ b.op = "done" /\ b.task = f.task /\ b.how = "ok"
                      /\ Turn(th, f, <<a, b>>)
<1>1. PICK f : f = Top(th)
  OBVIOUS
<1>2. stack[th] # <<>> /\ f \in Frame /\ f.op = "run" /\ NotifyDependants(f.task)
  BY <1>1, TopFrame DEF FinishTask, In, QueueInv
<1>3. f.task \in Node /\ NewlyFired \subseteq Node
  BY <1>2, FieldsTyped DEF NewlyFired
<1>4. PICK a, b : a = FireFrame(NewlyFired, FALSE) /\ b = DoneFrame(f.task, "ok")
  OBVIOUS
<1>5. /\ a \in Frame /\ a.op = "fire" /\ a.tasks = NewlyFired
      /\ b \in Frame /\ b.op = "done" /\ b.task = f.task /\ b.how = "ok"
  BY <1>3, <1>4, FramesTyped DEF FireFrame, DoneFrame
<1>6. Goto(th, <<a, b>>)
  BY <1>1, <1>4 DEF FinishTask
<1>7. <<a, b>> \in Seq(Frame)
  BY <1>5
<1>8. Turn(th, f, <<a, b>>)
  BY <1>1, <1>2, <1>6, <1>7, TurnGoto
<1> QED BY <1>2, <1>3, <1>5, <1>8

(* The steps that only one thread takes.                                   *)
LEMMA MainTurn ==
  ASSUME QueueInv, Main \in Thread,
         \/ BeginProcess \/ NextLook \/ NextPending \/ NextCounter \/ NextGet
         \/ NextResult /\ At(Main, "process", "ok")
         \/ EndProgram \/ StopState \/ JoinWorkers
  PROVE  \E f :
    /\ BeginProcess =>
         \E a, b : /\ Advanced(f, b) /\ Turn(Main, f, <<a, b>>)
                   /\ f.at \in DOMAIN CodeOf(f) /\ CodeOf(f)[f.at].op = "process"
                   /\ a \in Frame /\ a.op = "process" /\ a.step = "look"
    /\ NextLook => /\ f.op = "process" /\ f.step = "look"
                   /\ \E b : /\ Stepped(f, b, IF active = 0 THEN "pending" ELSE "get")
                             /\ Turn(Main, f, <<b>>)
    /\ NextPending =>
         /\ f.op = "process" /\ f.step = "pending"
         /\ \E b : /\ Stepped(f, b, IF notDispatched = {} THEN "counter" ELSE "get")
                   /\ Turn(Main, f, <<b>>)
    /\ NextCounter => /\ f.op = "process" /\ f.step = "counter"
                      /\ \/ dispatching = 0 /\ Turn(Main, f, <<>>)
                         \/ \E b : Stepped(f, b, "get") /\ Turn(Main, f, <<b>>)
    /\ NextGet => /\ f.op = "process" /\ f.step = "get"
                  /\ \E b, s : /\ s = (IF outq = <<>> THEN "look" ELSE Head(outq))
                               /\ s \in {"look", "ok", "exc"}
                               /\ Stepped(f, b, s) /\ Turn(Main, f, <<b>>)
    /\ NextResult => /\ f.op = "process" /\ f.step = "ok"
                     /\ \E b : Stepped(f, b, "look") /\ Turn(Main, f, <<b>>)
    /\ EndProgram => /\ f.op = "main"
                     /\ \E b \in Frame : /\ b.op = "end" /\ b.step = "stop"
                                         /\ Turn(Main, f, <<b>>)
    /\ StopState => /\ f.op = "end" /\ f.step = "stop"
                    /\ \E b : Stepped(f, b, "join") /\ Turn(Main, f, <<b>>)
    /\ JoinWorkers => /\ f.op = "end" /\ f.step = "join"
                      /\ \E b : Stepped(f, b, "over") /\ Turn(Main, f, <<b>>)
<1>1. PICK f : f = Top(Main)
  OBVIOUS
<1>2. ASSUME BeginProcess
      PROVE  \E a, b : /\ Advanced(f, b) /\ Turn(Main, f, <<a, b>>)
                       /\ f.at \in DOMAIN CodeOf(f) /\ CodeOf(f)[f.at].op = "process"
                       /\ a \in Frame /\ a.op = "process" /\ a.step = "look"
  <2>1. /\ stack[Main] # <<>> /\ f.op \in {"main", "run"} /\ f.at \in DOMAIN CodeOf(f)
        /\ CodeOf(f)[f.at].op = "process"
    BY <1>1, <1>2, AtCallTurn DEF BeginProcess
  <2>2. PICK a : a = ProcessFrame("look")
    OBVIOUS
  <2>3. a \in Frame /\ a.op = "process" /\ a.step = "look" /\ Call(Main, <<a>>)
    BY <1>2, <2>2, FramesTyped DEF BeginProcess, ProcessFrame
  <2> QED BY <1>1, <2>1, <2>3, TurnCall
<1>3. ASSUME NEW op, NEW s, At(Main, op, s)
      PROVE  stack[Main] # <<>> /\ f.op = op /\ f.step = s
  BY <1>1, <1>3 DEF At, In
<1>4. ASSUME NEW s \in {"look", "pending", "counter", "get", "ok", "exc"}, GoStep(Main, s),
             stack[Main] # <<>>, f.op = "process"
      PROVE  \E b : Stepped(f, b, s) /\ Turn(Main, f, <<b>>)
  BY <1>1, <1>4, TurnStep
<1>5. ASSUME NEW s \in {"join", "over"}, GoStep(Main, s), stack[Main] # <<>>, f.op = "end"
      PROVE  \E b : Stepped(f, b, s) /\ Turn(Main, f, <<b>>)
  BY <1>1, <1>5, TurnStep
<1>6. ASSUME NextLook
      PROVE  /\ f.op = "process" /\ f.step = "look"
             /\ \E b : /\ Stepped(f, b, IF active = 0 THEN "pending" ELSE "get")
                       /\ Turn(Main, f, <<b>>)
  <2>1. PICK s : s = IF active = 0 THEN "pending" ELSE "get"
    OBVIOUS
  <2>2. s \in {"look", "pending", "counter", "get", "ok", "exc"} /\ GoStep(Main, s)
    BY <1>6, <2>1 DEF NextLook
  <2> QED BY <1>3, <1>4, <1>6, <2>1, <2>2 DEF NextLook
<1>7. ASSUME NextPending
      PROVE  /\ f.op = "process" /\ f.step = "pending"
             /\ \E b : /\ Stepped(f, b, IF notDispatched = {} THEN "counter" ELSE "get")
                       /\ Turn(Main, f, <<b>>)
  <2>1. PICK s : s = IF notDispatched = {} THEN "counter" ELSE "get"
    OBVIOUS
  <2>2. s \in {"look", "pending", "counter", "get", "ok", "exc"} /\ GoStep(Main, s)
    BY <1>7, <2>1 DEF NextPending
  <2> QED BY <1>3, <1>4, <1>7, <2>1, <2>2 DEF NextPending
<1>8. ASSUME NextCounter
      PROVE  /\ f.op = "process" /\ f.step = "counter"
             /\ \/ dispatching = 0 /\ Turn(Main, f, <<>>)
                \/ \E b : Stepped(f, b, "get") /\ Turn(Main, f, <<b>>)
  <2>1. stack[Main] # <<>> /\ f.op = "process" /\ f.step = "counter"
    BY <1>3, <1>8 DEF NextCounter
  <2>2. CASE dispatching = 0
    BY <1>1, <1>8, <2>1, <2>2, TurnPop DEF NextCounter
  <2>3. CASE dispatching # 0
    BY <1>4, <1>8, <2>1, <2>3 DEF NextCounter
  <2> QED BY <2>1, <2>2, <2>3
<1>9. ASSUME NextGet
      PROVE  /\ f.op = "process" /\ f.step = "get"
             /\ \E b, s : /\ s = (IF outq = <<>> THEN "look" ELSE Head(outq))
                          /\ s \in {"look", "ok", "exc"}
                          /\ Stepped(f, b, s) /\ Turn(Main, f, <<b>>)
  <2>1. PICK s : s = IF outq = <<>> THEN "look" ELSE Head(outq)
    OBVIOUS
  <2>2. s \in {"look", "ok", "exc"}
    BY <2>1 DEF QueueInv, Typed
  <2>3. GoStep(Main, s)
    BY <1>9, <2>1 DEF NextGet
  <2>4. stack[Main] # <<>> /\ f.op = "process" /\ f.step = "get"
    BY <1>3, <1>9 DEF NextGet
  <2>5. \E b : Stepped(f, b, s) /\ Turn(Main, f, <<b>>)
    BY <1>4, <2>2, <2>3, <2>4
  <2> QED BY <2>1, <2>2, <2>4, <2>5
<1>10. ASSUME NextResult
       PROVE  /\ f.op = "process" /\ f.step = "ok"
              /\ \E b : Stepped(f, b, "look") /\ Turn(Main, f, <<b>>)
  <2>1. At(Main, "process", "ok")
    BY <1>10 DEF BeginProcess, NextLook, NextPending, NextCounter, NextGet, NextResult,
                 EndProgram, StopState, JoinWorkers, At, In, AtCall
  <2>2. stack[Main] # <<>> /\ f.op = "process" /\ f.step = "ok"
    BY <1>3, <2>1
  <2>3. GoStep(Main, "look")
    BY <1>1, <1>10, <2>2 DEF NextResult, At
  <2> QED BY <1>4, <2>2, <2>3
<1>11. ASSUME EndProgram
       PROVE  /\ f.op = "main"
              /\ \E b \in Frame : b.op = "end" /\ b.step = "stop" /\ Turn(Main, f, <<b>>)
  <2>1. PICK b : b = EndFrame("stop")
    OBVIOUS
  <2>2. b \in Frame /\ b.op = "end" /\ b.step = "stop"
    BY <2>1, FramesTyped DEF EndFrame
  <2>3. stack[Main] # <<>> /\ f.op = "main" /\ Goto(Main, <<b>>)
    BY <1>1, <1>11, <2>1 DEF EndProgram, In
  <2>4. <<b>> \in Seq(Frame)
    BY <2>2
  <2>5. Turn(Main, f, <<b>>)
    BY <1>1, <2>3, <2>4, TurnGoto
  <2> QED BY <2>2, <2>3, <2>5
<1>12. ASSUME StopState
       PROVE  /\ f.op = "end" /\ f.step = "stop"
              /\ \E b : Stepped(f, b, "join") /\ Turn(Main, f, <<b>>)
  BY <1>3, <1>5, <1>12 DEF StopState
<1>13. ASSUME JoinWorkers
       PROVE  /\ f.op = "end" /\ f.step = "join"
              /\ \E b : Stepped(f, b, "over") /\ Turn(Main, f, <<b>>)
  BY <1>3, <1>5, <1>13 DEF JoinWorkers
<1> QED BY <1>2, <1>6, <1>7, <1>8, <1>9, <1>10, <1>11, <1>12, <1>13

LEMMA DistTurn ==
  ASSUME QueueInv, Dist \in Thread, DistReport \/ DistEnd
  PROVE  \E f :
    /\ f.op = "dist"
    /\ DistReport =>
         \E b : /\ b \in Frame /\ b.op = "dist"
                /\ \/ Turn(Dist, f, <<b>>)
                   \/ \E a \in Frame : /\ a.op = "dispatch" /\ a.step = "enter" /\ ~ a.inplace
                                       /\ Turn(Dist, f, <<a, b>>)
    /\ DistEnd =>
         \E a, b : /\ a \in Frame /\ a.op = "sweep" /\ b \in Frame /\ b.op = "end"
                   /\ Turn(Dist, f, <<a, b>>)
<1>1. PICK f : f = Top(Dist)
  OBVIOUS
<1>2. stack[Dist] # <<>> /\ f.op = "dist"
  BY <1>1 DEF DistReport, DistEnd, In
<1>3. ASSUME DistReport
      PROVE  \E b : /\ b \in Frame /\ b.op = "dist"
                    /\ \/ Turn(Dist, f, <<b>>)
                       \/ \E a \in Frame : /\ a.op = "dispatch" /\ a.step = "enter"
                                           /\ ~ a.inplace /\ Turn(Dist, f, <<a, b>>)
  <2>1. PICK t : t = program.reports[reported + 1]
    OBVIOUS
  <2>2. PICK a, b : a = DispatchFrame(t, FALSE, "enter") /\ b = DistFrame
    OBVIOUS
  <2>3. Goto(Dist, (IF t \in added THEN <<a>> ELSE <<>>) \o <<b>>)
    BY <1>3, <2>1, <2>2 DEF DistReport
  <2>4. b \in Frame /\ b.op = "dist"
    BY <2>2, FramesTyped DEF DistFrame
  <2>5. CASE t \in added
    <3>1. t \in Node
      BY <2>5 DEF QueueInv, TopoInv, TopoTypeOK
    <3>2. a \in Frame /\ a.op = "dispatch" /\ a.step = "enter" /\ ~ a.inplace
      BY <2>2, <3>1, FramesTyped DEF DispatchFrame
    <3>3. Goto(Dist, <<a, b>>)
      BY <2>3, <2>4, <2>5, <3>2, Pair
    <3>4. <<a, b>> \in Seq(Frame)
      BY <2>4, <3>2
    <3>5. Turn(Dist, f, <<a, b>>)
      BY <1>1, <1>2, <3>3, <3>4, TurnGoto
    <3> QED BY <2>4, <3>2, <3>5
  <2>6. CASE t \notin added
    <3>1. <<>> \o <<b>> = <<b>> /\ <<b>> \in Seq(Frame)
      BY <2>4
    <3>2. Goto(Dist, <<b>>)
      BY <2>3, <2>6, <3>1
    <3>3. Turn(Dist, f, <<b>>)
      BY <1>1, <1>2, <3>1, <3>2, TurnGoto
    <3> QED BY <2>4, <3>3
  <2> QED BY <2>5, <2>6
<1>4. ASSUME DistEnd
      PROVE  \E a, b : /\ a \in Frame /\ a.op = "sweep" /\ b \in Frame /\ b.op = "end"
                       /\ Turn(Dist, f, <<a, b>>)
  <2>1. PICK a, b : a = SweepFrame(notDispatched) /\ b = EndFrame("over")
    OBVIOUS
  <2>2. a \in Frame /\ b \in Frame /\ a.op = "sweep" /\ b.op = "end"
    BY <2>1, FramesTyped DEF SweepFrame, EndFrame, QueueInv, Typed
  <2>3. Goto(Dist, <<a, b>>)
    BY <1>4, <2>1 DEF DistEnd
  <2>4. <<a, b>> \in Seq(Frame)
    BY <2>2
  <2>5. Turn(Dist, f, <<a, b>>)
    BY <1>1, <1>2, <2>3, <2>4, TurnGoto
  <2> QED BY <2>2, <2>5
<1> QED BY <1>2, <1>3, <1>4

LEMMA TakeTurn ==
  ASSUME QueueInv, NEW w \in Thread, Take(w)
  PROVE  \E f, t, b : /\ f.op = "take" /\ t \in queued /\ queued' = queued \ {t}
                      /\ runs' = [runs EXCEPT ![t] = @ + 1]
                      /\ b \in Frame /\ b = RunFrame(t, 1) /\ b.op = "run" /\ b.task = t
                      /\ b.at = 1 /\ Turn(w, f, <<b>>)
<1>1. PICK f : f = Top(w)
  OBVIOUS
<1>2. PICK t \in queued : /\ queued' = queued \ {t} /\ Goto(w, <<RunFrame(t, 1)>>)
                          /\ runs' = [runs EXCEPT ![t] = @ + 1]
  BY DEF Take
<1>3. stack[w] # <<>> /\ f.op = "take" /\ t \in Node
  BY <1>1 DEF Take, In, QueueInv, Typed
<1>4. PICK b : b = RunFrame(t, 1)
  OBVIOUS
<1>5. b \in Frame /\ b.op = "run" /\ b.task = t /\ b.at = 1
  BY <1>3, <1>4, FramesTyped DEF RunFrame
<1>6. Goto(w, <<b>>) /\ <<b>> \in Seq(Frame)
  BY <1>2, <1>4, <1>5
<1>7. Turn(w, f, <<b>>)
  BY <1>1, <1>3, <1>6, TurnGoto
<1> QED BY <1>2, <1>3, <1>4, <1>5, <1>7

-----------------------------------------------------------------------------
(* What a step leaves of the frames and what it adds.                      *)
LEMMA MoveFrames ==
  ASSUME Stacks, NEW th \in Thread, NEW c, NEW fs, Moves(th, c, fs)
  PROVE  /\ \A a \in Thread : \A k \in DOMAIN stack'[a] :
              \/ a = th /\ k \in DOMAIN fs /\ stack'[a][k] = fs[k]
              \/ \E m \in DOMAIN stack[a] : stack'[a][k] = stack[a][m] /\ (a = th => m > c)
         /\ \A a \in Thread : \A m \in DOMAIN stack[a] :
              (a = th => m > c) => \E k \in DOMAIN stack'[a] : stack'[a][k] = stack[a][m]
         /\ \A i \in DOMAIN fs : i \in DOMAIN stack'[th] /\ stack'[th][i] = fs[i]
<1>1. /\ c \in 0 .. Len(stack[th]) /\ fs \in Seq(Frame)
      /\ stack[th] \in Seq(Frame) /\ stack'[th] \in Seq(Frame)
  BY DEF Moves, Stacks
<1>2. /\ Len(stack'[th]) = Len(fs) + (Len(stack[th]) - c)
      /\ \A k \in 1 .. Len(stack'[th]) :
           stack'[th][k] = IF k <= Len(fs) THEN fs[k] ELSE stack[th][(k - Len(fs)) + c]
      /\ \A a \in Thread : a # th => stack'[a] = stack[a]
  BY <1>1 DEF Moves
<1>3. ASSUME NEW k \in 1 .. Len(stack'[th])
      PROVE  \/ k \in DOMAIN fs /\ stack'[th][k] = fs[k]
             \/ \E m \in DOMAIN stack[th] : stack'[th][k] = stack[th][m] /\ m > c
  <2>1. CASE k <= Len(fs)
    BY <1>1, <1>2, <2>1
  <2>2. CASE k > Len(fs)
    <3>1. PICK m : m = (k - Len(fs)) + c
      OBVIOUS
    <3>2. m \in DOMAIN stack[th] /\ m > c
      BY <1>1, <1>2, <2>2, <3>1
    <3>3. stack'[th][k] = stack[th][m]
      BY <1>1, <1>2, <2>2, <3>1
    <3> QED BY <3>2, <3>3
  <2> QED BY <1>1, <2>1, <2>2
<1>4. ASSUME NEW m \in 1 .. Len(stack[th]), m > c
      PROVE  \E k \in DOMAIN stack'[th] : stack'[th][k] = stack[th][m]
  <2>1. PICK k : k = (m - c) + Len(fs)
    OBVIOUS
  <2>2. k \in 1 .. Len(stack'[th]) /\ ~ (k <= Len(fs)) /\ (k - Len(fs)) + c = m
    BY <1>1, <1>2, <1>4, <2>1
  <2>3. stack'[th][k] = stack[th][m]
    BY <1>2, <2>2
  <2> QED BY <1>1, <2>2, <2>3
<1>5. ASSUME NEW i \in DOMAIN fs
      PROVE  i \in DOMAIN stack'[th] /\ stack'[th][i] = fs[i]
  <2>1. i \in 1 .. Len(stack'[th]) /\ i <= Len(fs)
    BY <1>1, <1>2
  <2> QED BY <1>1, <1>2, <2>1
<1>6. DOMAIN stack'[th] = 1 .. Len(stack'[th]) /\ DOMAIN stack[th] = 1 .. Len(stack[th])
  BY <1>1
<1> QED BY <1>2, <1>3, <1>4, <1>5, <1>6

LEMMA TurnFrames ==
  ASSUME Stacks, NEW th \in Thread, NEW f, NEW fs, Turn(th, f, fs)
  PROVE  /\ f = stack[th][1] /\ 1 \in DOMAIN stack[th] /\ Moves(th, 1, fs) /\ fs \in Seq(Frame)
         /\ \A a \in Thread : \A k \in DOMAIN stack'[a] :
              \/ \E i \in DOMAIN fs : a = th /\ k = i /\ stack'[a][k] = fs[i]
              \/ \E m \in DOMAIN stack[a] : stack'[a][k] = stack[a][m] /\ (a = th => m # 1)
         /\ \A a \in Thread : \A m \in DOMAIN stack[a] :
              \/ a = th /\ m = 1
              \/ \E k \in DOMAIN stack'[a] : stack'[a][k] = stack[a][m]
         /\ \A i \in DOMAIN fs : i \in DOMAIN stack'[th] /\ stack'[th][i] = fs[i]
<1>1. /\ f = stack[th][1] /\ 1 \in DOMAIN stack[th] /\ Moves(th, 1, fs) /\ fs \in Seq(Frame)
      /\ DOMAIN stack[th] = 1 .. Len(stack[th])
  BY TopFrame DEF Turn
<1>2. \A m \in DOMAIN stack[th] : m # 1 <=> m > 1
  BY <1>1
<1> QED BY <1>1, <1>2, MoveFrames

LEMMA CalledSame ==
  ASSUME UNCHANGED program, NEW f, NEW g
  PROVE  CalledFrom(f, g)' <=> CalledFrom(f, g)
BY DEF CalledFrom, CodeOf

LEMMA MoveNested ==
  ASSUME Stacks, Nested, UNCHANGED program, NEW th \in Thread, NEW c, NEW fs, Moves(th, c, fs),
         \A k \in 1 .. Len(fs) - 1 : CalledFrom(fs[k], fs[k + 1]),
         fs # <<>> /\ c < Len(stack[th]) => CalledFrom(fs[Len(fs)], stack[th][c + 1]),
         c = Len(stack[th]) => IF fs = <<>> THEN th \in Worker
                                            ELSE fs[Len(fs)].op \in Bottom(th)
  PROVE  Nested'
<1>1. /\ c \in 0 .. Len(stack[th]) /\ fs \in Seq(Frame)
      /\ stack[th] \in Seq(Frame) /\ stack'[th] \in Seq(Frame)
      /\ DOMAIN stack'[th] = 1 .. Len(stack'[th])
  BY DEF Moves, Stacks
<1>2. /\ Len(stack'[th]) = Len(fs) + (Len(stack[th]) - c)
      /\ \A k \in 1 .. Len(stack'[th]) :
           stack'[th][k] = IF k <= Len(fs) THEN fs[k] ELSE stack[th][(k - Len(fs)) + c]
      /\ \A a \in Thread : a # th => stack'[a] = stack[a]
  BY <1>1 DEF Moves
<1>3. ASSUME NEW k \in 1 .. Len(stack'[th]) - 1
      PROVE  CalledFrom(stack'[th][k], stack'[th][k + 1])
  <2>1. k \in 1 .. Len(stack'[th]) /\ k + 1 \in 1 .. Len(stack'[th]) /\ k \in Nat
    BY <1>1
  <2>2. CASE k + 1 <= Len(fs)
    <3>1. stack'[th][k] = fs[k] /\ stack'[th][k + 1] = fs[k + 1]
      BY <1>1, <1>2, <2>1, <2>2
    <3>2. k \in 1 .. Len(fs) - 1
      BY <1>1, <2>2
    <3> QED BY <3>1, <3>2
  <2>3. CASE k = Len(fs)
    <3>1. stack'[th][k] = fs[Len(fs)] /\ c < Len(stack[th]) /\ fs # <<>>
      BY <1>1, <1>2, <2>1, <2>3
    <3>2. (k + 1 - Len(fs)) + c = c + 1 /\ ~ (k + 1 <= Len(fs))
      BY <1>1, <2>3
    <3>3. stack'[th][k + 1] = stack[th][c + 1]
      BY <1>2, <2>1, <3>2
    <3> QED BY <3>1, <3>3
  <2>4. CASE k > Len(fs)
    <3>1. PICK m : m = (k - Len(fs)) + c
      OBVIOUS
    <3>2. m \in 1 .. Len(stack[th]) - 1 /\ (k + 1 - Len(fs)) + c = m + 1
      BY <1>1, <1>2, <2>4, <3>1
    <3>3. ~ (k <= Len(fs)) /\ ~ (k + 1 <= Len(fs))
      BY <1>1, <2>4
    <3>4. stack'[th][k] = stack[th][m] /\ stack'[th][k + 1] = stack[th][m + 1]
      BY <1>2, <2>1, <3>1, <3>2, <3>3
    <3> QED BY <3>2, <3>4 DEF Nested
  <2> QED BY <1>1, <2>1, <2>2, <2>3, <2>4
<1>4. IF stack'[th] = <<>> THEN th \in Worker
                           ELSE stack'[th][Len(stack'[th])].op \in Bottom(th)
  <2>1. CASE c = Len(stack[th]) /\ fs = <<>>
    <3>1. Len(stack'[th]) = 0
      BY <1>1, <1>2, <2>1
    <3> QED BY <1>1, <2>1, <3>1
  <2>2. CASE c = Len(stack[th]) /\ fs # <<>>
    <3>1. PICK n \in Nat \ {0} : n = Len(fs)
      BY <1>1, <2>2
    <3>2. Len(stack'[th]) = n /\ n \in 1 .. n
      BY <1>1, <1>2, <2>2, <3>1
    <3>3. stack'[th][n] = fs[n] /\ stack'[th] # <<>>
      BY <1>1, <1>2, <3>1, <3>2
    <3> QED BY <2>2, <3>1, <3>2, <3>3
  <2>3. CASE c < Len(stack[th])
    <3>1. PICK n : n = Len(stack'[th])
      OBVIOUS
    <3>2. n \in 1 .. n /\ ~ (n <= Len(fs)) /\ (n - Len(fs)) + c = Len(stack[th])
      BY <1>1, <1>2, <2>3, <3>1
    <3>3. stack'[th][n] = stack[th][Len(stack[th])]
      BY <1>2, <3>1, <3>2
    <3>4. stack[th] # <<>> /\ stack'[th] # <<>>
      BY <1>1, <2>3, <3>1, <3>2
    <3> QED BY <3>1, <3>3, <3>4 DEF Nested
  <2> QED BY <1>1, <2>1, <2>2, <2>3
<1>5. ASSUME NEW a \in Thread, NEW k \in 1 .. Len(stack'[a]) - 1
      PROVE  CalledFrom(stack'[a][k], stack'[a][k + 1])
  <2>1. CASE a = th
    BY <1>3, <1>5, <2>1
  <2>2. CASE a # th
    BY <1>2, <1>5, <2>2 DEF Nested
  <2> QED BY <2>1, <2>2
<1>6. ASSUME NEW a \in Thread
      PROVE  IF stack'[a] = <<>> THEN a \in Worker
                                 ELSE stack'[a][Len(stack'[a])].op \in Bottom(a)
  <2>1. CASE a = th
    BY <1>4, <2>1
  <2>2. CASE a # th
    BY <1>2, <2>2 DEF Nested
  <2> QED BY <2>1, <2>2
<1>7. ASSUME NEW a \in Thread, NEW k \in 1 .. Len(stack'[a]) - 1
      PROVE  CalledFrom(stack[a][k], stack[a][k + 1])'
  <2>1. PICK f, g : f = stack'[a][k] /\ g = stack'[a][k + 1]
    OBVIOUS
  <2>2. CalledFrom(f, g)'
    BY <1>5, <2>1, CalledSame
  <2> QED BY <2>1, <2>2 DEF CalledFrom, CodeOf
<1> QED BY <1>6, <1>7 DEF Nested, Bottom

(* Frame b can stand where frame f has stood.                              *)
Follows(f, b) ==
  \/ b.op = f.op /\ (f.op = "add" => b.instr = f.instr)
  \/ f.op \in {"main", "dist"} /\ b.op = "end"
  \/ f.op \in {"put", "run"} /\ b.op \in {"run", "done"}

LEMMA FollowsCalled ==
  ASSUME NEW f, NEW b, Follows(f, b)
  PROVE  /\ \A g : CalledFrom(f, g) => CalledFrom(b, g)
         /\ \A th : f.op \in Bottom(th) => b.op \in Bottom(th)
<1>1. \A g : CalledFrom(f, g) => CalledFrom(b, g)
  BY DEF Follows, CalledFrom
<1>2. ASSUME NEW th, f.op \in Bottom(th) PROVE b.op \in Bottom(th)
  BY <1>2 DEF Follows, Bottom
<1> QED BY <1>1, <1>2

LEMMA TurnNested ==
  ASSUME QueueInv, Nested, UNCHANGED program, NEW th \in Thread, NEW f, NEW fs,
         Turn(th, f, fs),
         \/ fs = <<>> /\ f.op \in {"add", "dispatch", "sweep", "put", "fire", "done", "process"}
         \/ \E b \in Frame : Follows(f, b) /\ fs = <<b>>
         \/ \E a, b \in Frame : Follows(f, b) /\ CalledFrom(a, b) /\ fs = <<a, b>>
  PROVE  Nested'
<1>1. /\ f = stack[th][1] /\ Moves(th, 1, fs) /\ Stacks /\ Len(stack[th]) \in Nat \ {0}
      /\ fs \in Seq(Frame)
  BY TopFrame DEF Turn, QueueInv
<1>2. 1 < Len(stack[th]) => CalledFrom(f, stack[th][1 + 1])
  <2> SUFFICES ASSUME 1 < Len(stack[th]) PROVE CalledFrom(f, stack[th][1 + 1])
    OBVIOUS
  <2>1. 1 \in 1 .. Len(stack[th]) - 1
    BY <1>1
  <2> QED BY <1>1, <2>1 DEF Nested
<1>3. 1 = Len(stack[th]) => f.op \in Bottom(th)
  BY <1>1 DEF Nested
<1>4. CASE fs = <<>> /\ f.op \in {"add", "dispatch", "sweep", "put", "fire", "done", "process"}
  <2>1. 1 = Len(stack[th]) => th \in Worker
    BY <1>3, <1>4 DEF Bottom, Thread
  <2>2. \A k \in 1 .. Len(fs) - 1 : CalledFrom(fs[k], fs[k + 1])
    BY <1>4
  <2> QED BY <1>1, <1>4, <2>1, <2>2, MoveNested
<1>5. ASSUME NEW b \in Frame, Follows(f, b), fs = <<b>>
      PROVE  Nested'
  <2>1. fs # <<>> /\ fs[Len(fs)] = b /\ \A k \in 1 .. Len(fs) - 1 : CalledFrom(fs[k], fs[k + 1])
    BY <1>5
  <2>2. /\ fs # <<>> /\ 1 < Len(stack[th]) => CalledFrom(fs[Len(fs)], stack[th][1 + 1])
        /\ 1 = Len(stack[th]) => IF fs = <<>> THEN th \in Worker
                                              ELSE fs[Len(fs)].op \in Bottom(th)
    BY <1>2, <1>3, <1>5, <2>1, FollowsCalled
  <2> QED BY <1>1, <2>1, <2>2, MoveNested
<1>6. ASSUME NEW a \in Frame, NEW b \in Frame, Follows(f, b), CalledFrom(a, b), fs = <<a, b>>
      PROVE  Nested'
  <2>1. fs # <<>> /\ fs[Len(fs)] = b
    BY <1>6
  <2>2. \A k \in 1 .. Len(fs) - 1 : k = 1
    BY <1>6
  <2>3. fs[1] = a /\ fs[1 + 1] = b
    BY <1>6
  <2>4. \A k \in 1 .. Len(fs) - 1 : CalledFrom(fs[k], fs[k + 1])
    BY <1>6, <2>2, <2>3
  <2>5. /\ fs # <<>> /\ 1 < Len(stack[th]) => CalledFrom(fs[Len(fs)], stack[th][1 + 1])
        /\ 1 = Len(stack[th]) => IF fs = <<>> THEN th \in Worker
                                              ELSE fs[Len(fs)].op \in Bottom(th)
    BY <1>2, <1>3, <1>6, <2>1, FollowsCalled
  <2> QED BY <1>1, <2>4, <2>5, MoveNested
<1> QED BY <1>4, <1>5, <1>6

LEMMA ReplaceNested ==
  ASSUME QueueInv, Nested, UNCHANGED program, NEW th \in Thread, NEW f, NEW b \in Frame,
         Turn(th, f, <<b>>), Follows(f, b)
  PROVE  Nested'
<1>1. PICK fs : fs = <<b>>
  OBVIOUS
<1> QED BY <1>1, TurnNested

(* An exception takes the frames down to the first that catches.           *)
Thrown(th, c, g, fs) ==
  /\ c \in 1 .. Len(stack[th]) /\ g = stack[th][c] /\ g \in Frame /\ g.op \in Catch
  /\ \A k \in 1 .. c - 1 : stack[th][k].op \notin Catch
  /\ fs \in Seq(Frame) /\ Moves(th, c, fs)
  /\ \/ \E b \in Frame : g.op = "main" /\ b.op = "end" /\ b.step = "stop" /\ fs = <<b>>
     \/ \E a, b \in Frame : g.op = "dist" /\ a.op = "sweep" /\ b.op = "end" /\ fs = <<a, b>>
     \/ g.op = "end" /\ fs = <<g>>
     \/ \E b \in Frame : /\ g.op \in {"run", "done"} /\ b.op = "done" /\ b.how = "exc"
                         /\ fs = <<b>>
  /\ dispatching' = dispatching - Cardinality({k \in 1 .. c : stack[th][k].op = "dispatch"})
  /\ cacheLock' = (IF cacheLock = th THEN None ELSE cacheLock)
  /\ failed' = (failed \/ g.op = "main")
  /\ raised' = IF g.op = "run" THEN raised \cup {g.task} ELSE raised

LEMMA ThrowTurn ==
  ASSUME QueueInv, NEW th \in Thread, stack[th] # <<>>, Top(th).op # "take", Throw(th)
  PROVE  \E c, g, fs : Thrown(th, c, g, fs)
<1>1. PICK S : S = {k \in DOMAIN stack[th] : stack[th][k].op \in Catch}
  OBVIOUS
<1>2. PICK c : c = CHOOSE k \in S : \A m \in S : k <= m
  OBVIOUS
<1>3. PICK f : f = stack[th][c]
  OBVIOUS
<1>4. c \in S /\ c \in DOMAIN stack[th] /\ f.op \in Catch
  BY <1>1, <1>2, <1>3, Catcher
<1>5. /\ stack[th] \in Seq(Frame) /\ c \in 1 .. Len(stack[th]) /\ f \in Frame
      /\ DOMAIN stack[th] = 1 .. Len(stack[th])
  BY <1>3, <1>4 DEF QueueInv, Stacks
<1>6. PICK fs : fs = CASE f.op = "main" -> <<EndFrame("stop")>>
                       [] f.op = "dist" -> <<SweepFrame(notDispatched), EndFrame("over")>>
                       [] f.op = "end"  -> <<f>>
                       [] OTHER         -> <<DoneFrame(f.task, "exc")>>
  OBVIOUS
<1>7. /\ raised' = IF f.op = "run" THEN raised \cup {f.task} ELSE raised
      /\ stack' = [stack EXCEPT ![th] = fs \o SubSeq(@, c + 1, Len(@))]
      /\ dispatching' = dispatching - Cardinality({k \in 1 .. c : stack[th][k].op = "dispatch"})
      /\ cacheLock' = IF cacheLock = th THEN None ELSE cacheLock
      /\ failed' = (failed \/ f.op = "main")
  BY <1>1, <1>2, <1>3, <1>6, Zenon DEF Throw, Catch
<1>8. /\ fs \in Seq(Frame)
      /\ \/ \E b \in Frame : f.op = "main" /\ b.op = "end" /\ b.step = "stop" /\ fs = <<b>>
         \/ \E a, b \in Frame : f.op = "dist" /\ a.op = "sweep" /\ b.op = "end" /\ fs = <<a, b>>
         \/ f.op = "end" /\ fs = <<f>>
         \/ \E b \in Frame : /\ f.op \in {"run", "done"} /\ b.op = "done" /\ b.how = "exc"
                             /\ fs = <<b>>
  <2>1. CASE f.op = "main"
    <3>1. PICK a : a = EndFrame("stop")
      OBVIOUS
    <3>2. a \in Frame /\ a.op = "end" /\ a.step = "stop" /\ fs = <<a>>
      BY <1>6, <2>1, <3>1, FramesTyped DEF EndFrame
    <3> QED BY <2>1, <3>2
  <2>2. CASE f.op = "dist"
    <3>1. PICK a, b : a = SweepFrame(notDispatched) /\ b = EndFrame("over")
      OBVIOUS
    <3>2. /\ a \in Frame /\ a.op = "sweep" /\ b \in Frame /\ b.op = "end"
          /\ fs = <<a, b>>
      BY <1>6, <2>2, <3>1, FramesTyped DEF SweepFrame, EndFrame, QueueInv, Typed
    <3> QED BY <2>2, <3>2
  <2>3. CASE f.op = "end"
    <3>1. fs = <<f>>
      BY <1>6, <2>3
    <3> QED BY <1>5, <2>3, <3>1
  <2>4. CASE f.op \in {"run", "done"}
    <3>1. PICK a : a = DoneFrame(f.task, "exc")
      OBVIOUS
    <3>2. a \in Frame /\ a.op = "done" /\ a.how = "exc" /\ fs = <<a>>
      BY <1>5, <1>6, <2>4, <3>1, FieldsTyped, FramesTyped DEF DoneFrame
    <3> QED BY <2>4, <3>2
  <2> QED BY <1>4, <2>1, <2>2, <2>3, <2>4 DEF Catch
<1>9. Moves(th, c, fs)
  <2>1. c \in 0 .. Len(stack[th])
    BY <1>5
  <2>2. stack' = [stack EXCEPT ![th] = fs \o SubSeq(@, c + 1, Len(@))]
    BY <1>7
  <2> QED BY <1>8, <2>1, <2>2, ReplaceMoves DEF QueueInv
<1>10. \A k \in 1 .. c - 1 : stack[th][k].op \notin Catch
  <2> SUFFICES ASSUME NEW k \in 1 .. c - 1, stack[th][k].op \in Catch PROVE FALSE
    OBVIOUS
  <2>1. k \in S /\ k < c /\ c \in Nat
    BY <1>1, <1>5
  <2>2. \E m \in S : \A n \in S : m <= n
    <3>1. S \subseteq Nat /\ S # {}
      BY <1>1, <1>5, <2>1
    <3> QED BY <3>1, SmallestIn
  <2>3. c <= k
    BY <1>2, <2>1, <2>2
  <2> QED BY <2>1, <2>3
<1> QED BY <1>3, <1>4, <1>5, <1>7, <1>8, <1>9, <1>10 DEF Thrown

LEMMA ThrowNested ==
  ASSUME QueueInv, Nested, UNCHANGED program, NEW th \in Thread, stack[th] # <<>>,
         Top(th).op # "take", Throw(th)
  PROVE  Nested'
<1>0. PICK c, g, fs : Thrown(th, c, g, fs)
  BY ThrowTurn
<1>1. /\ c \in 1 .. Len(stack[th]) /\ g = stack[th][c] /\ g \in Frame /\ g.op \in Catch
      /\ Moves(th, c, fs)
      /\ \/ \E b \in Frame : g.op = "main" /\ b.op = "end" /\ fs = <<b>>
         \/ \E a, b \in Frame : g.op = "dist" /\ a.op = "sweep" /\ b.op = "end" /\ fs = <<a, b>>
         \/ g.op = "end" /\ fs = <<g>>
         \/ \E b \in Frame : g.op \in {"run", "done"} /\ b.op = "done" /\ fs = <<b>>
  BY <1>0 DEF Thrown
<1>2. stack[th] \in Seq(Frame) /\ Stacks
  BY DEF QueueInv, Stacks
<1>3. c < Len(stack[th]) => CalledFrom(g, stack[th][c + 1])
  <2> SUFFICES ASSUME c < Len(stack[th]) PROVE CalledFrom(g, stack[th][c + 1])
    OBVIOUS
  <2>1. c \in 1 .. Len(stack[th]) - 1
    BY <1>1, <1>2
  <2> QED BY <1>1, <2>1 DEF Nested
<1>4. c = Len(stack[th]) => g.op \in Bottom(th)
  BY <1>1, <1>2 DEF Nested
<1>5. PICK b : /\ fs # <<>> /\ fs[Len(fs)] = b /\ Follows(g, b)
               /\ \A k \in 1 .. Len(fs) - 1 : CalledFrom(fs[k], fs[k + 1])
  <2>1. CASE \E e \in Frame : /\ fs = <<e>>
                              /\ \/ g.op = "main" /\ e.op = "end"
                                 \/ g.op = "end" /\ e = g
                                 \/ g.op \in {"run", "done"} /\ e.op = "done"
    <3>1. PICK e \in Frame : /\ fs = <<e>>
                             /\ \/ g.op = "main" /\ e.op = "end"
                                \/ g.op = "end" /\ e = g
                                \/ g.op \in {"run", "done"} /\ e.op = "done"
      BY <2>1
    <3>2. /\ fs # <<>> /\ fs[Len(fs)] = e
          /\ \A k \in 1 .. Len(fs) - 1 : CalledFrom(fs[k], fs[k + 1])
      BY <3>1
    <3>3. Follows(g, e)
      BY <3>1 DEF Follows
    <3> QED BY <3>2, <3>3
  <2>2. ASSUME NEW a \in Frame, NEW e \in Frame, g.op = "dist", a.op = "sweep", e.op = "end",
               fs = <<a, e>>
        PROVE  /\ fs # <<>> /\ fs[Len(fs)] = e /\ Follows(g, e)
               /\ \A k \in 1 .. Len(fs) - 1 : CalledFrom(fs[k], fs[k + 1])
    <3>1. fs # <<>> /\ fs[Len(fs)] = e /\ Follows(g, e) /\ CalledFrom(a, e)
      BY <2>2 DEF Follows, CalledFrom
    <3>2. \A k \in 1 .. Len(fs) - 1 : k = 1
      BY <2>2
    <3>3. fs[1] = a /\ fs[1 + 1] = e
      BY <2>2
    <3>4. \A k \in 1 .. Len(fs) - 1 : CalledFrom(fs[k], fs[k + 1])
      BY <3>1, <3>2, <3>3
    <3> QED BY <3>1, <3>4
  <2> QED BY <1>1, <2>1, <2>2
<1>6. /\ fs # <<>> /\ c < Len(stack[th]) => CalledFrom(fs[Len(fs)], stack[th][c + 1])
      /\ c = Len(stack[th]) => IF fs = <<>> THEN th \in Worker
                                            ELSE fs[Len(fs)].op \in Bottom(th)
  BY <1>3, <1>4, <1>5, FollowsCalled
<1> QED BY <1>1, <1>2, <1>5, <1>6, MoveNested

LEMMA StepFollows ==
  ASSUME NEW f, NEW b, NEW s, f.op \in {"add", "dispatch", "process", "end"}, Stepped(f, b, s)
  PROVE  b \in Frame /\ Follows(f, b) /\ b.op = f.op /\ b.step = s
BY DEF Stepped, Follows

LEMMA AdvanceFollows ==
  ASSUME NEW f, NEW b, Advanced(f, b)
  PROVE  /\ b \in Frame /\ Follows(f, b) /\ b.op = f.op /\ b.op \in {"main", "run"}
         /\ b.at - 1 = f.at /\ CodeOf(b) = CodeOf(f)
BY DEF Advanced, Follows

LEMMA StepNested ==
  ASSUME QueueInv, Nested, UNCHANGED program, NEW th \in Thread, Step(th)
  PROVE  Nested'
<1>1. CASE CacheHit(th) \/ SignalReady(th)
  <2>1. PICK f, b : Advanced(f, b) /\ Turn(th, f, <<b>>)
    BY <1>1, HitTurn
  <2> QED BY <2>1, AdvanceFollows, ReplaceNested
<1>2. CASE AddTask(th)
  <2>1. PICK f, a, b, i : /\ Advanced(f, b) /\ Turn(th, f, <<a, b>>) /\ f.at \in DOMAIN CodeOf(f)
                          /\ i = CodeOf(f)[f.at] /\ a \in Frame /\ a.op = "add" /\ a.instr = i
    BY <1>2, AddTaskTurn
  <2>2. CalledFrom(a, b)
    BY <2>1, AdvanceFollows DEF CalledFrom
  <2> QED BY <2>1, <2>2, AdvanceFollows, TurnNested
<1>3. CASE AddMerge(th)
  <2>1. PICK f, b : f.op = "add" /\ Stepped(f, b, "deps") /\ Turn(th, f, <<b>>)
    BY <1>3, AddMergeTurn
  <2> QED BY <2>1, StepFollows, ReplaceNested
<1>4. CASE AddDepsAndPublish(th)
  <2>1. PICK f, b : /\ f.op = "add" /\ Stepped(f, b, "leave")
                    /\ \/ Turn(th, f, <<b>>)
                       \/ \E a \in Frame : a.op = "dispatch" /\ Turn(th, f, <<a, b>>)
    BY <1>4, AddDepsTurn
  <2>2. b \in Frame /\ Follows(f, b) /\ b.op = "add" /\ b.step = "leave"
    BY <2>1, StepFollows
  <2>3. \A a \in Frame : a.op = "dispatch" => CalledFrom(a, b)
    BY <2>2 DEF CalledFrom
  <2> QED BY <2>1, <2>2, <2>3, TurnNested, ReplaceNested
<1>5. CASE \/ AddLeave(th) \/ DispatchExit(th) \/ FireEnd(th) \/ PutResult(th)
           \/ In(th, "sweep") /\ Return(th)
  <2>1. PICK f : /\ Turn(th, f, <<>>) /\ f.op \in {"add", "dispatch", "sweep", "fire", "done"}
    BY <1>5, PopTurn
  <2> QED BY <2>1, TurnNested
<1>6. CASE DispatchEnter(th)
  <2>1. PICK f, b : f.op = "dispatch" /\ Stepped(f, b, "remove") /\ Turn(th, f, <<b>>)
    BY <1>6, EnterTurn
  <2> QED BY <2>1, StepFollows, ReplaceNested
<1>7. CASE DispatchRemove(th)
  <2>1. PICK f, b, s : f.op = "dispatch" /\ Stepped(f, b, s) /\ Turn(th, f, <<b>>)
    BY <1>7, RemoveTurn
  <2> QED BY <2>1, StepFollows, ReplaceNested
<1>8. CASE DispatchSchedule(th)
  <2>1. PICK f, a, b : /\ f.op = "dispatch" /\ Stepped(f, b, "exit") /\ a \in Frame
                       /\ a.op = "fire" /\ Turn(th, f, <<a, b>>)
    BY <1>8, ScheduleTurn
  <2>2. CalledFrom(a, b)
    BY <2>1, StepFollows DEF CalledFrom
  <2> QED BY <2>1, <2>2, StepFollows, TurnNested
<1>9. CASE DispatchAll(th)
  <2>1. ASSUME NEW f, NEW a, NEW b, Advanced(f, b), Turn(th, f, <<a, b>>),
               f.at \in DOMAIN CodeOf(f), CodeOf(f)[f.at].op = "dispatch_all",
               a \in Frame, a.op = "sweep"
        PROVE  Nested'
    <3>1. CalledFrom(a, b)
      BY <2>1, AdvanceFollows DEF CalledFrom
    <3> QED BY <2>1, <3>1, AdvanceFollows, TurnNested
  <2>2. ASSUME NEW f, NEW a, NEW b, f.op = "sweep", b.op = "sweep", a \in Frame, b \in Frame,
               a.op = "dispatch", Turn(th, f, <<a, b>>)
        PROVE  Nested'
    <3>1. CalledFrom(a, b) /\ Follows(f, b)
      BY <2>2 DEF CalledFrom, Follows
    <3> QED BY <2>2, <3>1, TurnNested
  <2> QED BY <1>5, <1>9, <2>1, <2>2, SweepTurn
<1>10. ASSUME NEW t \in Node, Fire(th, t)
       PROVE  Nested'
  <2>1. PICK f, a, b : /\ f.op = "fire" /\ b.op = "fire" /\ a \in Frame /\ b \in Frame
                       /\ a.op = "put" /\ Turn(th, f, <<a, b>>)
    BY <1>10, FireTurn
  <2>2. CalledFrom(a, b) /\ Follows(f, b)
    BY <2>1 DEF CalledFrom, Follows
  <2> QED BY <2>1, <2>2, TurnNested
<1>11. CASE Put(th)
  <2>1. PICK f : /\ f.op = "put"
                 /\ \/ Turn(th, f, <<>>)
                    \/ \E b \in Frame : b.op = "run" /\ Turn(th, f, <<b>>)
    BY <1>11, PutTurn
  <2>2. \A b : b.op = "run" => Follows(f, b)
    BY <2>1 DEF Follows
  <2> QED BY <2>1, <2>2, TurnNested, ReplaceNested
<1>12. CASE FireStopped(th)
  BY <1>12, ThrowNested DEF FireStopped, In
<1>13. CASE FinishTask(th)
  <2>1. PICK f, a, b : /\ f.op = "run" /\ b.op = "done" /\ a \in Frame /\ b \in Frame
                       /\ a.op = "fire" /\ Turn(th, f, <<a, b>>)
    BY <1>13, FinishTurn
  <2>2. CalledFrom(a, b) /\ Follows(f, b)
    BY <2>1 DEF CalledFrom, Follows
  <2> QED BY <2>1, <2>2, TurnNested
<1>14. CASE RaiseTask(th)
  BY <1>14, ThrowNested DEF RaiseTask, In
<1> QED BY <1>1, <1>2, <1>3, <1>4, <1>5, <1>6, <1>7, <1>8, <1>9, <1>10, <1>11, <1>12, <1>13,
           <1>14 DEF Step

LEMMA MainNested ==
  ASSUME QueueInv, Nested, UNCHANGED program, Main \in Thread,
         \/ BeginProcess \/ NextLook \/ NextPending \/ NextCounter \/ NextGet
         \/ NextResult /\ At(Main, "process", "ok")
         \/ EndProgram \/ StopState \/ JoinWorkers
  PROVE  Nested'
<1>1. CASE BeginProcess
  <2>1. PICK f, a, b : /\ Advanced(f, b) /\ Turn(Main, f, <<a, b>>) /\ f.at \in DOMAIN CodeOf(f)
                       /\ CodeOf(f)[f.at].op = "process" /\ a \in Frame /\ a.op = "process"
    BY <1>1, MainTurn
  <2>2. f.op = "main"
    <3>1. f = stack[Main][1] /\ 1 \in DOMAIN stack[Main] /\ f.op \in {"main", "run"}
      BY <2>1, TopFrame DEF Turn, Advanced, QueueInv
    <3>2. f.op = "run" => f.task \in DOMAIN program.body
      BY <3>1, CodeTyped
    <3>3. f.op = "run" => CodeOf(f)[f.at].op # "process"
      BY <2>1, <3>2, ProgramOrder DEF CodeOf, QueueInv, Typed
    <3> QED BY <2>1, <3>1, <3>3
  <2>3. CalledFrom(a, b)
    BY <2>1, <2>2, AdvanceFollows DEF CalledFrom
  <2> QED BY <2>1, <2>3, AdvanceFollows, TurnNested
<1>2. CASE NextLook
  <2>1. PICK f, b, s : f.op = "process" /\ Stepped(f, b, s) /\ Turn(Main, f, <<b>>)
    BY <1>2, MainTurn
  <2> QED BY <2>1, StepFollows, ReplaceNested
<1>3. CASE NextPending
  <2>1. PICK f, b, s : f.op = "process" /\ Stepped(f, b, s) /\ Turn(Main, f, <<b>>)
    BY <1>3, MainTurn
  <2> QED BY <2>1, StepFollows, ReplaceNested
<1>4. CASE NextCounter
  <2>1. PICK f : /\ f.op = "process"
                 /\ \/ Turn(Main, f, <<>>)
                    \/ \E b : Stepped(f, b, "get") /\ Turn(Main, f, <<b>>)
    BY <1>4, MainTurn
  <2>2. CASE Turn(Main, f, <<>>)
    BY <2>1, <2>2, TurnNested
  <2>3. CASE \E b : Stepped(f, b, "get") /\ Turn(Main, f, <<b>>)
    BY <2>1, <2>3, StepFollows, ReplaceNested
  <2> QED BY <2>1, <2>2, <2>3
<1>5. CASE NextGet
  <2>1. PICK f, b, s : f.op = "process" /\ Stepped(f, b, s) /\ Turn(Main, f, <<b>>)
    BY <1>5, MainTurn
  <2> QED BY <2>1, StepFollows, ReplaceNested
<1>6. CASE NextResult /\ At(Main, "process", "ok")
  <2>1. PICK f, b : f.op = "process" /\ Stepped(f, b, "look") /\ Turn(Main, f, <<b>>)
    BY <1>6, MainTurn
  <2> QED BY <2>1, StepFollows, ReplaceNested
<1>7. CASE EndProgram
  <2>1. PICK f, b : f.op = "main" /\ b \in Frame /\ b.op = "end" /\ Turn(Main, f, <<b>>)
    BY <1>7, MainTurn
  <2>2. Follows(f, b)
    BY <2>1 DEF Follows
  <2> QED BY <2>1, <2>2, ReplaceNested
<1>8. CASE StopState
  <2>1. PICK f, b : f.op = "end" /\ Stepped(f, b, "join") /\ Turn(Main, f, <<b>>)
    BY <1>8, MainTurn
  <2> QED BY <2>1, StepFollows, ReplaceNested
<1>9. CASE JoinWorkers
  <2>1. PICK f, b : f.op = "end" /\ Stepped(f, b, "over") /\ Turn(Main, f, <<b>>)
    BY <1>9, MainTurn
  <2> QED BY <2>1, StepFollows, ReplaceNested
<1> QED BY <1>1, <1>2, <1>3, <1>4, <1>5, <1>6, <1>7, <1>8, <1>9

LEMMA DistNested ==
  ASSUME QueueInv, Nested, UNCHANGED program, Dist \in Thread, DistReport \/ DistEnd
  PROVE  Nested'
<1>1. CASE DistReport
  <2>1. PICK f, b : /\ f.op = "dist" /\ b \in Frame /\ b.op = "dist"
                    /\ \/ Turn(Dist, f, <<b>>)
                       \/ \E a \in Frame : a.op = "dispatch" /\ Turn(Dist, f, <<a, b>>)
    BY <1>1, DistTurn
  <2>2. Follows(f, b) /\ \A a \in Frame : a.op = "dispatch" => CalledFrom(a, b)
    BY <2>1 DEF Follows, CalledFrom
  <2> QED BY <2>1, <2>2, TurnNested, ReplaceNested
<1>2. CASE DistEnd
  <2>1. PICK f, a, b : /\ f.op = "dist" /\ a \in Frame /\ a.op = "sweep"
                       /\ b \in Frame /\ b.op = "end" /\ Turn(Dist, f, <<a, b>>)
    BY <1>2, DistTurn
  <2>2. Follows(f, b) /\ CalledFrom(a, b)
    BY <2>1 DEF Follows, CalledFrom
  <2> QED BY <2>1, <2>2, TurnNested
<1> QED BY <1>1, <1>2

(* A worker that looks at the state, or ends.                              *)
LEMMA IdleTurn ==
  ASSUME QueueInv, Nested, NEW w \in Worker, w \in Thread,
         (CheckState(w) /\ stack[w] = <<>>) \/ EndWorker(w)
  PROVE  \E fs : /\ Moves(w, Len(stack[w]), fs) /\ fs \in Seq(Frame)
                 /\ stack'[w] = fs
                 /\ \/ CheckState(w) /\ \E b \in Frame : b = TakeFrame /\ b.op = "take" /\ fs = <<b>>
                    \/ EndWorker(w) /\ fs = <<>>
                 /\ \A k \in DOMAIN stack[w] : stack[w][k].op = "take"
<1>1. Stacks
  BY DEF QueueInv
<1>2. \A k \in DOMAIN stack[w] : stack[w][k].op = "take"
  <2>1. CASE stack[w] = <<>>
    BY <2>1
  <2>2. CASE In(w, "take")
    <3>1. stack[w] # <<>> /\ stack[w][1].op = "take" /\ 1 \in DOMAIN stack[w]
          /\ DOMAIN stack[w] = 1 .. Len(stack[w])
      BY <1>1, <2>2, TopFrame DEF In
    <3>2. Len(stack[w]) = 1
      BY <3>1 DEF QueueInv, Grounded
    <3> QED BY <3>1, <3>2
  <2> QED BY <2>1, <2>2 DEF EndWorker
<1>3. CASE CheckState(w)
  <2>1. PICK b : b = TakeFrame
    OBVIOUS
  <2>2. b \in Frame /\ b.op = "take"
    BY <2>1, FramesTyped DEF TakeFrame
  <2>3. <<b>> \in Seq(Frame)
    BY <2>2
  <2>4. stack' = [stack EXCEPT ![w] = <<b>>]
    BY <1>3, <2>1 DEF CheckState
  <2>5. Moves(w, Len(stack[w]), <<b>>)
    BY <1>1, <2>3, <2>4, SetMoves
  <2>6. stack'[w] = <<b>>
    BY <1>1, <2>4 DEF Stacks
  <2> QED BY <1>2, <1>3, <2>1, <2>2, <2>3, <2>5, <2>6
<1>4. CASE EndWorker(w)
  <2>1. PICK fs : fs = <<>>
    OBVIOUS
  <2>2. fs \in Seq(Frame) /\ stack' = [stack EXCEPT ![w] = fs]
    BY <1>4, <2>1 DEF EndWorker
  <2>3. Moves(w, Len(stack[w]), fs) /\ stack'[w] = fs
    BY <1>1, <2>2, SetMoves DEF Stacks
  <2> QED BY <1>2, <1>4, <2>1, <2>2, <2>3
<1> QED BY <1>3, <1>4

LEMMA WorkerNested ==
  ASSUME QueueInv, Nested, UNCHANGED program, NEW w \in Worker, w \in Thread,
         CheckState(w) \/ EndWorker(w) \/ Take(w)
  PROVE  Nested'
<1>1. w # Main /\ w # Dist
  BY ProgramAssumption
<1>2. CASE CheckState(w) \/ EndWorker(w)
  <2>1. PICK fs : /\ Moves(w, Len(stack[w]), fs) /\ fs \in Seq(Frame)
                  /\ (\E b \in Frame : b.op = "take" /\ fs = <<b>>) \/ fs = <<>>
    BY <1>2, IdleTurn DEF CheckState
  <2>2. /\ \A k \in 1 .. Len(fs) - 1 : CalledFrom(fs[k], fs[k + 1])
        /\ fs # <<>> => fs[Len(fs)].op = "take"
    <3>1. CASE fs = <<>>
      BY <3>1
    <3>2. ASSUME NEW b \in Frame, b.op = "take", fs = <<b>>
          PROVE  Len(fs) = 1 /\ fs[Len(fs)].op = "take"
      BY <3>2
    <3> QED BY <2>1, <3>1, <3>2
  <2>3. fs # <<>> => fs[Len(fs)].op \in Bottom(w)
    BY <1>1, <2>2 DEF Bottom
  <2>4. PICK c : c = Len(stack[w])
    OBVIOUS
  <2>5. stack[w] \in Seq(Frame) /\ ~ (c < Len(stack[w])) /\ Moves(w, c, fs) /\ Stacks
    BY <2>1, <2>4 DEF QueueInv, Stacks
  <2> QED BY <2>2, <2>3, <2>5, MoveNested
<1>3. CASE Take(w)
  <2>1. PICK f, b : f.op = "take" /\ b \in Frame /\ b.op = "run" /\ Turn(w, f, <<b>>)
    BY <1>3, TakeTurn
  <2>2. /\ f = stack[w][1] /\ Moves(w, 1, <<b>>) /\ Stacks /\ Len(stack[w]) \in Nat \ {0}
        /\ DOMAIN stack[w] = 1 .. Len(stack[w])
    BY <2>1, TopFrame DEF Turn, QueueInv
  <2>3. Len(stack[w]) = 1
    BY <2>1, <2>2 DEF QueueInv, Grounded
  <2>4. PICK fs : fs = <<b>>
    OBVIOUS
  <2>5. fs # <<>> /\ fs[Len(fs)] = b /\ \A k \in 1 .. Len(fs) - 1 : CalledFrom(fs[k], fs[k + 1])
    BY <2>4
  <2>6. b.op \in Bottom(w)
    BY <1>1, <2>1 DEF Bottom
  <2>7. Moves(w, 1, fs)
    BY <2>2, <2>4
  <2> QED BY <2>2, <2>3, <2>5, <2>6, <2>7, MoveNested
<1> QED BY <1>2, <1>3

-----------------------------------------------------------------------------
(* Frames are counted by their place from the bottom of a stack, which     *)
(* does not change while they are there.                                   *)
LEMMA MirrorCount ==
  ASSUME NEW th, NEW n \in Nat, NEW J \in SUBSET (1 .. n), NEW S,
         \A s : s \in S <=> \E j \in J : s = <<th, n + 1 - j>>
  PROVE  IsFiniteSet(S) /\ Cardinality(S) = Cardinality(J) /\ Cardinality(J) \in Nat
<1>1. IsFiniteSet(1 .. n)
  BY FS_Interval
<1>2. IsFiniteSet(J) /\ Cardinality(J) \in Nat
  BY <1>1, FS_Subset, FS_CardinalityType
<1>3. PICK g : g = [j \in J |-> <<th, n + 1 - j>>]
  OBVIOUS
<1>4. ASSUME NEW i \in J, NEW j \in J, g[i] = g[j] PROVE i = j
  <2>1. n + 1 - i = n + 1 - j /\ i \in Nat /\ j \in Nat
    BY <1>3, <1>4
  <2> QED BY <2>1
<1>5. g \in [J -> S] /\ \A s \in S : \E j \in J : g[j] = s
  BY <1>3
<1>6. g \in Bijection(J, S)
  BY <1>4, <1>5 DEF Bijection, Injection, Surjection, IsInjective
<1>7. ExistsBijection(J, S)
  BY <1>6 DEF ExistsBijection
<1> QED BY ONLY <1>2, <1>7, FS_Bijection

LEMMA SpotsMove ==
  ASSUME Stacks, NEW th \in Thread, NEW c, NEW fs, Moves(th, c, fs), NEW K,
         IsFiniteSet(Spots(K))
  PROVE  /\ IsFiniteSet(Spots(K))'
         /\ Cardinality(Spots(K))' =
              (Cardinality(Spots(K)) - Cardinality({j \in 1 .. c : stack[th][j] \in K}))
                + Cardinality({i \in DOMAIN fs : fs[i] \in K})
         /\ Cardinality(Spots(K)) \in Nat
         /\ Cardinality({j \in 1 .. c : stack[th][j] \in K}) \in Nat
         /\ Cardinality({i \in DOMAIN fs : fs[i] \in K}) \in Nat
<1>1. /\ c \in 0 .. Len(stack[th]) /\ fs \in Seq(Frame)
      /\ stack[th] \in Seq(Frame) /\ stack'[th] \in Seq(Frame)
  BY DEF Moves, Stacks
<1>2. /\ Len(stack'[th]) = Len(fs) + (Len(stack[th]) - c)
      /\ \A k \in 1 .. Len(stack'[th]) :
           stack'[th][k] = IF k <= Len(fs) THEN fs[k] ELSE stack[th][(k - Len(fs)) + c]
      /\ \A a \in Thread : a # th => stack'[a] = stack[a]
  BY <1>1 DEF Moves
<1>3. PICK n, l, m : n = Len(stack[th]) /\ l = Len(fs) /\ m = n - c
  OBVIOUS
<1>4. /\ n \in Nat /\ l \in Nat /\ m \in Nat /\ c \in Nat /\ c <= n /\ n = m + c
      /\ Len(stack'[th]) = l + m
      /\ DOMAIN stack[th] = 1 .. n /\ DOMAIN fs = 1 .. l /\ DOMAIN stack'[th] = 1 .. l + m
  BY <1>1, <1>2, <1>3
<1>5. PICK A, B : A = Spots(K) /\ B = Spots(K)'
  OBVIOUS
<1>6. PICK R : R = {spot \in A : spot[1] = th => spot[2] <= m}
  OBVIOUS
<1>7. PICK G, N : G = {j \in 1 .. c : stack[th][j] \in K} /\ N = {i \in DOMAIN fs : fs[i] \in K}
  OBVIOUS
<1>8. PICK GS, NS : /\ GS = {<<th, n + 1 - j>> : j \in G}
                    /\ NS = {<<th, l + m + 1 - i>> : i \in N}
  OBVIOUS
<1>9. ASSUME NEW a \in Thread, NEW x \in Nat
      PROVE  /\ <<a, x>> \in A <=>
                  x \in DOMAIN stack[a] /\ stack[a][Len(stack[a]) + 1 - x] \in K
             /\ <<a, x>> \in B <=>
                  x \in DOMAIN stack'[a] /\ stack'[a][Len(stack'[a]) + 1 - x] \in K
  BY <1>5 DEF Spots
<1>10. A \subseteq Thread \X Nat /\ B \subseteq Thread \X Nat
  BY <1>5 DEF Spots
<1>11. ASSUME NEW x \in Nat
       PROVE  /\ <<th, x>> \in A <=> (<<th, x>> \in R \/ <<th, x>> \in GS)
              /\ <<th, x>> \in B <=> (<<th, x>> \in R \/ <<th, x>> \in NS)
              /\ ~ (<<th, x>> \in R /\ (<<th, x>> \in GS \/ <<th, x>> \in NS))
  <2>1. /\ <<th, x>> \in A <=> x \in 1 .. n /\ stack[th][n + 1 - x] \in K
        /\ <<th, x>> \in B <=> x \in 1 .. l + m /\ stack'[th][l + m + 1 - x] \in K
    BY <1>3, <1>4, <1>9
  <2>2. <<th, x>> \in R <=> <<th, x>> \in A /\ x <= m
    BY <1>6
  <2>3. <<th, x>> \in GS <=> \E j \in G : x = n + 1 - j
    BY <1>8
  <2>4. <<th, x>> \in NS <=> \E i \in N : x = l + m + 1 - i
    BY <1>8
  <2>5. <<th, x>> \in GS <=> x > m /\ <<th, x>> \in A
    <3>1. ASSUME NEW j \in G, x = n + 1 - j
          PROVE  x > m /\ <<th, x>> \in A
      <4>1. j \in 1 .. c /\ stack[th][j] \in K
        BY <1>7
      <4>2. n + 1 - x = j /\ x \in 1 .. n /\ x > m
        BY <1>4, <3>1, <4>1
      <4> QED BY <2>1, <4>1, <4>2
    <3>2. ASSUME x > m, <<th, x>> \in A
          PROVE  \E j \in G : x = n + 1 - j
      <4>1. PICK j : j = n + 1 - x
        OBVIOUS
      <4>2. j \in 1 .. c /\ x = n + 1 - j
        BY <1>4, <2>1, <3>2, <4>1
      <4>3. j \in G
        BY <1>7, <2>1, <3>2, <4>1, <4>2
      <4> QED BY <4>2, <4>3
    <3> QED BY <2>3, <3>1, <3>2
  <2>6. <<th, x>> \in NS <=> x > m /\ <<th, x>> \in B
    <3>1. ASSUME NEW i \in N, x = l + m + 1 - i
          PROVE  x > m /\ <<th, x>> \in B
      <4>1. i \in 1 .. l /\ fs[i] \in K
        BY <1>4, <1>7
      <4>2. l + m + 1 - x = i /\ x \in 1 .. l + m /\ x > m /\ i \in 1 .. l + m
        BY <1>4, <3>1, <4>1
      <4>3. stack'[th][i] = fs[i]
        BY <1>2, <1>3, <1>4, <4>1, <4>2
      <4> QED BY <2>1, <4>1, <4>2, <4>3
    <3>2. ASSUME x > m, <<th, x>> \in B
          PROVE  \E i \in N : x = l + m + 1 - i
      <4>1. PICK i : i = l + m + 1 - x
        OBVIOUS
      <4>2. i \in 1 .. l /\ i \in 1 .. l + m /\ x = l + m + 1 - i
        BY <1>4, <2>1, <3>2, <4>1
      <4>3. stack'[th][i] = fs[i]
        BY <1>2, <1>3, <1>4, <4>2
      <4>4. i \in N
        BY <1>4, <1>7, <2>1, <3>2, <4>1, <4>2, <4>3
      <4> QED BY <4>2, <4>4
    <3> QED BY <2>4, <3>1, <3>2
  <2>7. x <= m => (<<th, x>> \in A <=> <<th, x>> \in B)
    <3> SUFFICES ASSUME x <= m PROVE <<th, x>> \in A <=> <<th, x>> \in B
      OBVIOUS
    <3>1. CASE x = 0
      BY <1>4, <2>1, <3>1
    <3>2. CASE x # 0
      <4>1. PICK k : k = l + m + 1 - x
        OBVIOUS
      <4>2. /\ k \in 1 .. l + m /\ ~ (k <= l) /\ (k - l) + c = n + 1 - x
            /\ x \in 1 .. n /\ x \in 1 .. l + m
        BY <1>4, <3>2, <4>1
      <4>3. stack'[th][k] = stack[th][n + 1 - x]
        BY <1>2, <1>3, <1>4, <4>2
      <4> QED BY <2>1, <4>1, <4>2, <4>3
    <3> QED BY <3>1, <3>2
  <2>8. x <= m \/ x > m
    BY <1>4
  <2> QED BY <1>4, <2>2, <2>5, <2>6, <2>7, <2>8
<1>12. ASSUME NEW a \in Thread, NEW x \in Nat, a # th
       PROVE  /\ <<a, x>> \in A <=> <<a, x>> \in R
              /\ <<a, x>> \in B <=> <<a, x>> \in R
              /\ <<a, x>> \notin GS /\ <<a, x>> \notin NS
  BY <1>2, <1>6, <1>8, <1>9, <1>12
<1>13. R \subseteq Thread \X Nat /\ GS \subseteq Thread \X Nat /\ NS \subseteq Thread \X Nat
  <2>1. \A j \in G : n + 1 - j \in Nat
    BY <1>4, <1>7
  <2>2. \A i \in N : l + m + 1 - i \in Nat
    BY <1>4, <1>7
  <2> QED BY <1>6, <1>8, <1>10, <2>1, <2>2
<1>14. A = R \cup GS /\ B = R \cup NS /\ R \cap GS = {} /\ R \cap NS = {}
  <2>1. ASSUME NEW a \in Thread, NEW x \in Nat
        PROVE  /\ <<a, x>> \in A <=> (<<a, x>> \in R \/ <<a, x>> \in GS)
               /\ <<a, x>> \in B <=> (<<a, x>> \in R \/ <<a, x>> \in NS)
               /\ ~ (<<a, x>> \in R /\ (<<a, x>> \in GS \/ <<a, x>> \in NS))
    BY <1>11, <1>12
  <2>2. \A s \in Thread \X Nat : /\ s \in A <=> (s \in R \/ s \in GS)
                                 /\ s \in B <=> (s \in R \/ s \in NS)
                                 /\ ~ (s \in R /\ (s \in GS \/ s \in NS))
    BY <2>1
  <2> QED BY <1>10, <1>13, <2>2
<1>15. /\ IsFiniteSet(GS) /\ Cardinality(GS) = Cardinality(G) /\ Cardinality(G) \in Nat
       /\ IsFiniteSet(NS) /\ Cardinality(NS) = Cardinality(N) /\ Cardinality(N) \in Nat
  <2>1. n \in Nat /\ G \in SUBSET (1 .. n)
    BY <1>4, <1>7
  <2>2. l + m \in Nat /\ N \in SUBSET (1 .. l + m)
    BY <1>4, <1>7
  <2>3. PICK p : p = l + m
    OBVIOUS
  <2>4. p \in Nat /\ N \in SUBSET (1 .. p) 
    BY <2>2, <2>3
  <2>5. IsFiniteSet(GS) /\ Cardinality(GS) = Cardinality(G) /\ Cardinality(G) \in Nat
    <3>1. \A s : s \in GS <=> \E j \in G : s = <<th, n + 1 - j>>
      BY <1>8
    <3> QED BY <2>1, <3>1, MirrorCount
  <2>6. IsFiniteSet(NS) /\ Cardinality(NS) = Cardinality(N) /\ Cardinality(N) \in Nat
    <3>1. \A s : s \in NS <=> \E j \in N : s = <<th, p + 1 - j>>
      BY <1>8, <2>3
    <3> QED BY <2>4, <3>1, MirrorCount
  <2> QED BY <2>5, <2>6
<1>16. IsFiniteSet(A) /\ Cardinality(A) \in Nat /\ IsFiniteSet(R) /\ Cardinality(R) \in Nat
  BY <1>5, <1>6, FS_Subset, FS_CardinalityType
<1>17. /\ Cardinality(A) = Cardinality(R) + Cardinality(GS)
       /\ IsFiniteSet(B) /\ Cardinality(B) = Cardinality(R) + Cardinality(NS)
  <2>1. Cardinality(R \cap GS) = 0 /\ Cardinality(R \cap NS) = 0
    BY <1>14, FS_EmptySet
  <2>2. Cardinality(R \cup GS) = Cardinality(R) + Cardinality(GS) - Cardinality(R \cap GS)
    BY ONLY <1>15, <1>16, FS_Union
  <2>3. /\ IsFiniteSet(R \cup NS)
        /\ Cardinality(R \cup NS) = Cardinality(R) + Cardinality(NS) - Cardinality(R \cap NS)
    BY ONLY <1>15, <1>16, FS_Union
  <2> QED BY <1>14, <1>15, <1>16, <2>1, <2>2, <2>3
<1>18. Cardinality(B) = (Cardinality(A) - Cardinality(G)) + Cardinality(N)
  BY <1>15, <1>16, <1>17
<1> QED BY <1>5, <1>7, <1>15, <1>16, <1>17, <1>18

(* The weight of a step that replaces the innermost frame.                 *)
Weight(K, f) == IF f \in K THEN 1 ELSE 0
Weights(K, fs) == Cardinality({i \in DOMAIN fs : fs[i] \in K})

LEMMA WeightsOf ==
  /\ \A K : Weights(K, <<>>) = 0
  /\ \A K : \A b \in Frame : Weights(K, <<b>>) = Weight(K, b)
  /\ \A K : \A a, b \in Frame : Weights(K, <<a, b>>) = Weight(K, a) + Weight(K, b)
<1>1. ASSUME NEW K PROVE Weights(K, <<>>) = 0
  <2>1. PICK fs : fs = <<>>
    OBVIOUS
  <2>2. {i \in DOMAIN fs : fs[i] \in K} = {}
    BY <2>1
  <2> QED BY <2>1, <2>2, FS_EmptySet DEF Weights
<1>2. ASSUME NEW K, NEW b \in Frame PROVE Weights(K, <<b>>) = Weight(K, b)
  <2>1. PICK fs : fs = <<b>>
    OBVIOUS
  <2>2. DOMAIN fs = {1} /\ fs[1] = b
    BY <2>1
  <2>3. CASE b \in K
    <3>1. {i \in DOMAIN fs : fs[i] \in K} = {1}
      BY <2>2, <2>3
    <3> QED BY <2>1, <2>3, <3>1, FS_Singleton DEF Weights, Weight
  <2>4. CASE b \notin K
    <3>1. {i \in DOMAIN fs : fs[i] \in K} = {}
      BY <2>2, <2>4
    <3> QED BY <2>1, <2>4, <3>1, FS_EmptySet DEF Weights, Weight
  <2> QED BY <2>3, <2>4
<1>3. ASSUME NEW K, NEW a \in Frame, NEW b \in Frame
      PROVE  Weights(K, <<a, b>>) = Weight(K, a) + Weight(K, b)
  <2>1. PICK fs : fs = <<a, b>>
    OBVIOUS
  <2>2. DOMAIN fs = {1, 2} /\ fs[1] = a /\ fs[2] = b
    BY <2>1
  <2>3. PICK S : S = {i \in DOMAIN fs : fs[i] \in K}
    OBVIOUS
  <2>4. Weights(K, <<a, b>>) = Cardinality(S)
    BY <2>1, <2>3 DEF Weights
  <2>5. CASE a \in K /\ b \in K
    <3>1. S = {1} \cup {2} /\ ~ (2 \in {1})
      BY <2>2, <2>3, <2>5
    <3>2. IsFiniteSet({1}) /\ Cardinality({1}) = 1
      BY FS_Singleton
    <3>3. Cardinality({1} \cup {2}) = Cardinality({1}) + 1
      BY <3>1, <3>2, FS_AddElement
    <3> QED BY <2>4, <2>5, <3>1, <3>2, <3>3 DEF Weight
  <2>6. CASE a \in K /\ b \notin K
    <3>1. S = {1}
      BY <2>2, <2>3, <2>6
    <3>2. Cardinality(S) = 1
      BY <3>1, FS_Singleton
    <3> QED BY <2>4, <2>6, <3>2 DEF Weight
  <2>7. CASE a \notin K /\ b \in K
    <3>1. S = {2}
      BY <2>2, <2>3, <2>7
    <3>2. Cardinality(S) = 1
      BY <3>1, FS_Singleton
    <3> QED BY <2>4, <2>7, <3>2 DEF Weight
  <2>8. CASE a \notin K /\ b \notin K
    <3>1. S = {}
      BY <2>2, <2>3, <2>8
    <3>2. Cardinality(S) = 0
      BY <3>1, FS_EmptySet
    <3> QED BY <2>4, <2>8, <3>2 DEF Weight
  <2> QED BY <2>5, <2>6, <2>7, <2>8
<1> QED BY <1>1, <1>2, <1>3

LEMMA TurnSpots ==
  ASSUME QueueInv, NEW th \in Thread, NEW f, NEW fs, Turn(th, f, fs), NEW K,
         IsFiniteSet(Spots(K))
  PROVE  /\ IsFiniteSet(Spots(K))'
         /\ Cardinality(Spots(K))' = (Cardinality(Spots(K)) - Weight(K, f)) + Weights(K, fs)
         /\ Cardinality(Spots(K)) \in Nat /\ Weights(K, fs) \in Nat
<1>1. Moves(th, 1, fs) /\ f = stack[th][1] /\ Stacks
  BY TopFrame DEF Turn, QueueInv
<1>2. Cardinality({j \in 1 .. 1 : stack[th][j] \in K}) = Weight(K, f)
  <2>1. CASE f \in K
    <3>1. {j \in 1 .. 1 : stack[th][j] \in K} = {1}
      BY <1>1, <2>1
    <3> QED BY <2>1, <3>1, FS_Singleton DEF Weight
  <2>2. CASE f \notin K
    <3>1. {j \in 1 .. 1 : stack[th][j] \in K} = {}
      BY <1>1, <2>2
    <3> QED BY <2>2, <3>1, FS_EmptySet DEF Weight
  <2> QED BY <2>1, <2>2
<1> QED BY <1>1, <1>2, SpotsMove DEF Weights

(* By how much a step moves the two counters.                              *)
Moved(e, u) ==
  /\ IsFiniteSet(queued') /\ dispatching' = dispatching + e
  /\ ~ stopped' => /\ ~ stopped
                   /\ active' - (Cardinality(queued') + Len(outq'))
                        = (active - (Cardinality(queued) + Len(outq))) + u

LEMMA MovedCounted ==
  ASSUME QueueInv, QueueInv', Plain, Plain', Counted, NEW e \in Int, NEW u \in Int, Moved(e, u),
         IsFiniteSet(Spots(Entered))', IsFiniteSet(Spots(Uncounted))',
         Cardinality(Spots(Entered))' = Cardinality(Spots(Entered)) + e,
         Cardinality(Spots(Uncounted))' = Cardinality(Spots(Uncounted)) + u
  PROVE  Counted'
<1>1. /\ IsFiniteSet(queued) /\ Cardinality(queued) \in Nat
      /\ IsFiniteSet(queued') /\ Cardinality(queued') \in Nat
  BY FS_CardinalityType DEF Counted, Moved
<1>2. Cardinality(Spots(Entered)) \in Nat /\ Cardinality(Spots(Uncounted)) \in Nat
  BY FS_CardinalityType DEF Counted
<1>3. Len(outq) \in Nat /\ Len(outq') \in Nat /\ active \in Int /\ active' \in Int
  BY DEF QueueInv, Typed, Plain
<1>4. dispatching' = Cardinality(Spots(Entered))'
  BY <1>2 DEF Counted, Moved
<1>5. ASSUME ~ stopped'
      PROVE  active' = Cardinality(queued') + Cardinality(Spots(Uncounted))' + Len(outq')
  <2>1. active = Cardinality(queued) + Cardinality(Spots(Uncounted)) + Len(outq)
    BY <1>5 DEF Counted, Moved
  <2>2. active' - (Cardinality(queued') + Len(outq'))
          = (active - (Cardinality(queued) + Len(outq))) + u
    BY <1>5 DEF Moved
  <2>3. PICK x, y, q, r, m, n :
          /\ x = Cardinality(Spots(Uncounted)) /\ y = Cardinality(Spots(Uncounted))'
          /\ q = Cardinality(queued) /\ r = Cardinality(queued')
          /\ m = Len(outq) /\ n = Len(outq')
    OBVIOUS
  <2>4. y = x + u
    BY <2>3
  <2>5. /\ x \in Int /\ q \in Int /\ r \in Int /\ m \in Int /\ n \in Int
    BY <1>1, <1>2, <1>3, <2>3
  <2>6. active = q + x + m /\ active' - (r + n) = (active - (q + m)) + u
    BY <2>1, <2>2, <2>3
  <2>7. PICK v, w : v = active /\ w = active' /\ v \in Int /\ w \in Int
    BY <1>3
  <2>8. v = q + x + m /\ w - (r + n) = (v - (q + m)) + u
    BY <2>6, <2>7
  <2>9. y \in Int /\ u \in Int /\ v \in Int /\ w \in Int
    BY <2>4, <2>5, <2>7
  <2>10. w = r + y + n
    BY ONLY <2>4, <2>5, <2>8, <2>9
  <2> QED BY <2>3, <2>7, <2>10
<1> QED BY <1>1, <1>4, <1>5 DEF Counted

LEMMA FrameWeights ==
  ASSUME NEW f \in Frame
  PROVE  /\ f.op = "dispatch" => Weight(Entered, f) = IF f.step = "enter" THEN 0 ELSE 1
         /\ f.op # "dispatch" => Weight(Entered, f) = 0
         /\ f.op \in {"run", "done"} => Weight(Uncounted, f) = 1
         /\ f.op = "process" => Weight(Uncounted, f) = IF f.step \in {"ok", "exc"} THEN 1 ELSE 0
         /\ f.op \notin {"run", "done", "process"} => Weight(Uncounted, f) = 0
BY DEF Weight, Entered, Uncounted

LEMMA CountTurn ==
  ASSUME QueueInv, QueueInv', Plain, Plain', Counted, NEW th \in Thread, NEW f, NEW fs,
         Turn(th, f, fs), NEW e \in Int, NEW u \in Int, Moved(e, u),
         e = Weights(Entered, fs) - Weight(Entered, f),
         u = Weights(Uncounted, fs) - Weight(Uncounted, f)
  PROVE  Counted'
<1>1. IsFiniteSet(Spots(Entered)) /\ IsFiniteSet(Spots(Uncounted))
  BY DEF Counted
<1>2. Weight(Entered, f) \in Int /\ Weight(Uncounted, f) \in Int
  BY DEF Weight
<1>3. /\ IsFiniteSet(Spots(Entered))' /\ Cardinality(Spots(Entered)) \in Nat
      /\ Cardinality(Spots(Entered))'
           = (Cardinality(Spots(Entered)) - Weight(Entered, f)) + Weights(Entered, fs)
      /\ Weights(Entered, fs) \in Nat
  BY <1>1, TurnSpots
<1>4. /\ IsFiniteSet(Spots(Uncounted))' /\ Cardinality(Spots(Uncounted)) \in Nat
      /\ Cardinality(Spots(Uncounted))'
           = (Cardinality(Spots(Uncounted)) - Weight(Uncounted, f)) + Weights(Uncounted, fs)
      /\ Weights(Uncounted, fs) \in Nat
  BY <1>1, TurnSpots
<1>5. Cardinality(Spots(Entered))' = Cardinality(Spots(Entered)) + e
  BY <1>2, <1>3
<1>6. Cardinality(Spots(Uncounted))' = Cardinality(Spots(Uncounted)) + u
  BY <1>2, <1>4
<1> QED BY <1>3, <1>4, <1>5, <1>6, MovedCounted

LEMMA CountPop ==
  ASSUME QueueInv, QueueInv', Plain, Plain', Counted, NEW th \in Thread, NEW f,
         Turn(th, f, <<>>), Moved(0 - Weight(Entered, f), 0 - Weight(Uncounted, f))
  PROVE  Counted'
<1>1. PICK e, u : e = 0 - Weight(Entered, f) /\ u = 0 - Weight(Uncounted, f)
  OBVIOUS
<1>2. e \in Int /\ u \in Int /\ Moved(e, u)
  BY <1>1 DEF Weight
<1>3. Weights(Entered, <<>>) = 0 /\ Weights(Uncounted, <<>>) = 0
  BY WeightsOf
<1>4. PICK fs : fs = <<>>
  OBVIOUS
<1>5. /\ Turn(th, f, fs) /\ e = Weights(Entered, fs) - Weight(Entered, f)
      /\ u = Weights(Uncounted, fs) - Weight(Uncounted, f)
  BY <1>1, <1>3, <1>4
<1> QED BY <1>2, <1>5, CountTurn

LEMMA CountReplace ==
  ASSUME QueueInv, QueueInv', Plain, Plain', Counted, NEW th \in Thread, NEW f, NEW b \in Frame,
         Turn(th, f, <<b>>),
         Moved(Weight(Entered, b) - Weight(Entered, f), Weight(Uncounted, b) - Weight(Uncounted, f))
  PROVE  Counted'
<1>1. PICK e, u : /\ e = Weight(Entered, b) - Weight(Entered, f)
                  /\ u = Weight(Uncounted, b) - Weight(Uncounted, f)
  OBVIOUS
<1>2. e \in Int /\ u \in Int /\ Moved(e, u)
  BY <1>1 DEF Weight
<1>3. Weights(Entered, <<b>>) = Weight(Entered, b) /\ Weights(Uncounted, <<b>>) = Weight(Uncounted, b)
  BY WeightsOf
<1>4. PICK fs : fs = <<b>>
  OBVIOUS
<1>5. /\ Turn(th, f, fs) /\ e = Weights(Entered, fs) - Weight(Entered, f)
      /\ u = Weights(Uncounted, fs) - Weight(Uncounted, f)
  BY <1>1, <1>3, <1>4
<1> QED BY <1>2, <1>5, CountTurn

LEMMA CountPush ==
  ASSUME QueueInv, QueueInv', Plain, Plain', Counted, NEW th \in Thread, NEW f,
         NEW a \in Frame, NEW b \in Frame, Turn(th, f, <<a, b>>),
         Moved((Weight(Entered, a) + Weight(Entered, b)) - Weight(Entered, f),
               (Weight(Uncounted, a) + Weight(Uncounted, b)) - Weight(Uncounted, f))
  PROVE  Counted'
<1>1. PICK e, u : /\ e = (Weight(Entered, a) + Weight(Entered, b)) - Weight(Entered, f)
                  /\ u = (Weight(Uncounted, a) + Weight(Uncounted, b)) - Weight(Uncounted, f)
  OBVIOUS
<1>2. e \in Int /\ u \in Int /\ Moved(e, u)
  BY <1>1 DEF Weight
<1>3. /\ Weights(Entered, <<a, b>>) = Weight(Entered, a) + Weight(Entered, b)
      /\ Weights(Uncounted, <<a, b>>) = Weight(Uncounted, a) + Weight(Uncounted, b)
  BY WeightsOf
<1>4. PICK fs : fs = <<a, b>>
  OBVIOUS
<1>5. /\ Turn(th, f, fs) /\ e = Weights(Entered, fs) - Weight(Entered, f)
      /\ u = Weights(Uncounted, fs) - Weight(Uncounted, f)
  BY <1>1, <1>3, <1>4
<1> QED BY <1>2, <1>5, CountTurn

(* Most steps leave the pool alone.                                        *)
LEMMA QuietMoved ==
  ASSUME QueueInv, Plain, Counted, UNCHANGED <<queued, outq, stopped, active>>,
         NEW e, dispatching' = dispatching + e
  PROVE  Moved(e, 0)
<1>1. Cardinality(queued) \in Nat /\ Len(outq) \in Nat /\ active \in Int
  BY FS_CardinalityType DEF Counted, QueueInv, Typed, Plain
<1>2. dispatching \in Nat
  BY FS_CardinalityType DEF Counted
<1> QED BY <1>1 DEF Counted, Moved

LEMMA StillMoved ==
  ASSUME QueueInv, Plain, Counted, UNCHANGED <<queued, outq, stopped, active, dispatching>>
  PROVE  Moved(0, 0)
<1>1. dispatching \in Nat
  BY FS_CardinalityType DEF Counted
<1>2. dispatching' = dispatching + 0
  BY <1>1
<1> QED BY <1>2, QuietMoved

-----------------------------------------------------------------------------
(* The values that do not depend on the order of the steps.                *)
LEMMA StepPlain ==
  ASSUME Plain, UNCHANGED program, NEW th \in Thread, Step(th),
         th = Main \/ th = Dist \/ th \in Worker
  PROVE  Plain'
<1>1. /\ UNCHANGED <<condLock, alive, stopped, reported>>
      /\ runqLock' \in {runqLock, th, None} /\ cacheLock' \in {cacheLock, th, None}
      /\ ready' \in {ready, "yes"} /\ active' \in {active, active + 1} /\ failed' \in BOOLEAN
  <2>1. CASE CacheHit(th) \/ SignalReady(th) \/ AddLeave(th)
    BY <2>1 DEF CacheHit, SignalReady, AddLeave, lockVars, poolVars, endVars, Plain
  <2>2. CASE AddTask(th) \/ AddMerge(th) \/ AddDepsAndPublish(th)
    BY <2>2 DEF AddTask, AddMerge, AddDepsAndPublish, lockVars, poolVars, endVars, Plain
  <2>3. CASE \/ DispatchEnter(th) \/ DispatchRemove(th) \/ DispatchSchedule(th)
             \/ DispatchExit(th) \/ DispatchAll(th)
    BY <2>3 DEF DispatchEnter, DispatchRemove, DispatchSchedule, DispatchExit, DispatchAll,
                lockVars, poolVars, endVars, Plain
  <2>4. CASE (\E t \in Node : Fire(th, t)) \/ FireEnd(th) \/ FinishTask(th)
    BY <2>4 DEF Fire, FireEnd, FinishTask, lockVars, poolVars, endVars, Plain
  <2>5. CASE Put(th) \/ PutResult(th)
    BY <2>5 DEF Put, PutResult, lockVars, poolVars, endVars, Plain
  <2>6. CASE FireStopped(th) \/ RaiseTask(th)
    <3>1. Throw(th) => failed' \in BOOLEAN /\ cacheLock' \in {cacheLock, None}
      BY DEF Throw, Plain
    <3> QED BY <2>6, <3>1 DEF FireStopped, RaiseTask, poolVars
  <2> QED BY <2>1, <2>2, <2>3, <2>4, <2>5, <2>6 DEF Step
<1> QED BY <1>1 DEF Plain

LEMMA NextPlain ==
  ASSUME QueueInv, Plain, [Next]_<<program, vars>>
  PROVE  Plain'
<1>1. Main \in Thread /\ Dist \in Thread /\ Worker \subseteq Thread
  BY DEF Thread
<1>2. CASE MainStep /\ UNCHANGED program
  <2>1. CASE Step(Main)
    BY <1>1, <1>2, <2>1, StepPlain
  <2>2. CASE BeginProcess \/ NextGet \/ EndProgram \/ StopState \/ JoinWorkers
    BY <1>2, <2>2 DEF BeginProcess, NextGet, EndProgram, StopState, JoinWorkers, lockVars,
                      poolVars, endVars, Plain
  <2>3. CASE NextLook \/ NextPending \/ NextCounter
    BY <1>1, <1>2, <2>3 DEF NextLook, NextPending, NextCounter, poolVars, endVars, Plain
  <2>4. CASE NextResult
    <3>1. /\ UNCHANGED <<runqLock, condLock, alive, stopped, ready, reported>>
          /\ active' = active - 1
          /\ failed' \in BOOLEAN /\ cacheLock' \in {cacheLock, None}
      BY <2>4 DEF NextResult, Throw, Plain
    <3> QED BY <1>2, <3>1 DEF Plain
  <2> QED BY <1>2, <2>1, <2>2, <2>3, <2>4 DEF MainStep
<1>3. CASE DistStep /\ UNCHANGED program
  <2>1. CASE Step(Dist)
    BY <1>1, <1>3, <2>1, StepPlain
  <2>2. CASE DistReport
    <3>1. reported' \in 0 .. Len(program.reports)
      <4>1. Len(program.reports) \in Nat
        BY ProgramAssumption DEF QueueInv, Typed
      <4> QED BY <2>2, <4>1 DEF DistReport, Plain
    <3> QED BY <1>3, <2>2, <3>1 DEF DistReport, lockVars, poolVars, Plain
  <2>3. CASE DistEnd
    BY <1>3, <2>3 DEF DistEnd, lockVars, poolVars, endVars, Plain
  <2> QED BY <1>3, <2>1, <2>2, <2>3 DEF DistStep
<1>4. ASSUME NEW w \in Worker, WorkerStep(w), UNCHANGED program
      PROVE  Plain'
  <2>1. CASE Step(w)
    BY <1>1, <1>4, <2>1, StepPlain
  <2>2. CASE CheckState(w) \/ Take(w) \/ EndWorker(w)
    BY <1>4, <2>2 DEF CheckState, Take, EndWorker, lockVars, poolVars, endVars, Plain
  <2> QED BY <1>4, <2>1, <2>2 DEF WorkerStep
<1>5. ASSUME NEW w \in Worker, FastFail(w), UNCHANGED program
      PROVE  Plain'
  BY <1>5 DEF FastFail, lockVars, poolVars, Plain
<1>6. ASSUME UNCHANGED <<program, vars>>
      PROVE  Plain'
  BY <1>6 DEF vars, lockVars, poolVars, endVars, Plain
<1> QED BY <1>2, <1>3, <1>4, <1>5, <1>6 DEF Next, Terminated

-----------------------------------------------------------------------------
(* Both counters count what they are there for, whatever the threads do.   *)
LEMMA DispatchInside ==
  ASSUME QueueInv, Nested, NEW th \in Thread, NEW k \in DOMAIN stack[th], k # 1,
         stack[th][k].op = "dispatch"
  PROVE  stack[th][k].step = "exit" /\ stack[th][k] \in Entered
<1>1. stack[th] \in Seq(Frame) /\ stack[th][k] \in Frame
  BY DEF QueueInv, Stacks
<1>2. PICK j : j = k - 1
  OBVIOUS
<1>3. j \in 1 .. Len(stack[th]) - 1 /\ j + 1 = k
  BY <1>1, <1>2
<1>4. CalledFrom(stack[th][j], stack[th][k])
  BY <1>3 DEF Nested
<1>5. stack[th][k].step = "exit"
  BY <1>4 DEF CalledFrom
<1> QED BY <1>1, <1>5 DEF Entered

LEMMA ThrowCounted ==
  ASSUME QueueInv, QueueInv', Plain, Plain', Nested, Counted, NEW th \in Thread,
         NEW c, NEW g, NEW fs, Thrown(th, c, g, fs), stack[th][1].op # "dispatch",
         UNCHANGED <<queued, outq, stopped>>,
         ~ stopped => active' = (active - Cardinality({j \in 1 .. c : stack[th][j] \in Uncounted}))
                                   + Weights(Uncounted, fs)
  PROVE  Counted'
<1>1. /\ c \in 1 .. Len(stack[th]) /\ Moves(th, c, fs) /\ Stacks /\ stack[th] \in Seq(Frame)
      /\ DOMAIN stack[th] = 1 .. Len(stack[th])
  BY DEF Thrown, QueueInv, Stacks
<1>2. {j \in 1 .. c : stack[th][j] \in Entered} = {k \in 1 .. c : stack[th][k].op = "dispatch"}
  <2>1. ASSUME NEW k \in 1 .. c, stack[th][k].op = "dispatch" PROVE stack[th][k] \in Entered
    <3>1. k \in DOMAIN stack[th] /\ k # 1
      BY <1>1, <2>1
    <3> QED BY <2>1, <3>1, DispatchInside
  <2>2. \A f \in Entered : f.op = "dispatch"
    BY DEF Entered
  <2> QED BY <2>1, <2>2
<1>3. Weights(Entered, fs) = 0
  <2>1. \A i \in DOMAIN fs : fs[i].op \in {"end", "sweep", "done"}
    BY DEF Thrown
  <2>2. {i \in DOMAIN fs : fs[i] \in Entered} = {}
    BY <2>1 DEF Entered
  <2> QED BY <2>2, FS_EmptySet DEF Weights
<1>4. PICK x, y, w : /\ x = Cardinality({j \in 1 .. c : stack[th][j] \in Entered})
                     /\ y = Cardinality({j \in 1 .. c : stack[th][j] \in Uncounted})
                     /\ w = Weights(Uncounted, fs)
  OBVIOUS
<1>5. /\ IsFiniteSet(Spots(Entered))' /\ x \in Nat /\ Cardinality(Spots(Entered)) \in Nat
      /\ Cardinality(Spots(Entered))' = (Cardinality(Spots(Entered)) - x) + 0
  BY <1>1, <1>3, <1>4, SpotsMove DEF Weights, Counted
<1>6. /\ IsFiniteSet(Spots(Uncounted))' /\ y \in Nat /\ Cardinality(Spots(Uncounted)) \in Nat
      /\ Cardinality(Spots(Uncounted))' = (Cardinality(Spots(Uncounted)) - y) + w
      /\ w \in Nat
  BY <1>1, <1>4, SpotsMove DEF Weights, Counted
<1>7. PICK e, u : e = 0 - x /\ u = w - y
  OBVIOUS
<1>8. /\ e \in Int /\ u \in Int
      /\ Cardinality(Spots(Entered))' = Cardinality(Spots(Entered)) + e
      /\ Cardinality(Spots(Uncounted))' = Cardinality(Spots(Uncounted)) + u
  BY <1>5, <1>6, <1>7
<1>9. Cardinality(queued) \in Nat /\ Len(outq) \in Nat /\ active \in Int
  BY FS_CardinalityType DEF Counted, QueueInv, Typed, Plain
<1>10. Moved(e, u)
  <2>1. dispatching' = dispatching + e
    <3>1. dispatching' = dispatching - x /\ dispatching \in Nat
      BY <1>2, <1>4, <1>5 DEF Thrown, Counted
    <3> QED BY <1>5, <1>7, <3>1
  <2>2. ~ stopped => active' = (active - y) + w
    BY <1>4
  <2>3. ~ stopped => active' - (Cardinality(queued) + Len(outq))
                       = (active - (Cardinality(queued) + Len(outq))) + u
    BY <1>6, <1>7, <1>9, <2>2
  <2> QED BY <2>1, <2>3 DEF Moved, Counted
<1> QED BY <1>5, <1>6, <1>8, <1>10, MovedCounted

LEMMA RaiseCounted ==
  ASSUME QueueInv, QueueInv', Plain, Plain', Nested, Counted, NEW th \in Thread,
         FireStopped(th) \/ RaiseTask(th)
  PROVE  Counted'
<1>1. /\ stack[th] # <<>> /\ Top(th).op \in {"fire", "run"} /\ Throw(th)
      /\ UNCHANGED <<queued, outq, stopped, active>>
  BY DEF FireStopped, RaiseTask, In, poolVars
<1>2. PICK c, g, fs : Thrown(th, c, g, fs)
  BY <1>1, ThrowTurn
<1>3. stack[th][1] = Top(th) /\ Top(th) \in Frame
  BY <1>1, TopFrame DEF QueueInv
<1>4. CASE FireStopped(th)
  <2>1. stopped
    BY <1>4 DEF FireStopped
  <2> QED BY <1>1, <1>2, <1>3, <2>1, ThrowCounted
<1>5. CASE RaiseTask(th)
  <2>1. Top(th).op = "run"
    BY <1>5 DEF RaiseTask, In
  <2>2. c = 1 /\ g = Top(th) /\ \E b \in Frame : b.op = "done" /\ fs = <<b>>
    <3>1. c \in 1 .. Len(stack[th]) /\ ~ (1 \in 1 .. c - 1)
      BY <1>2, <1>3, <2>1 DEF Thrown, Catch
    <3>2. Len(stack[th]) \in Nat
      BY DEF QueueInv, Stacks
    <3>3. c = 1
      BY <3>1, <3>2
    <3> QED BY <1>2, <1>3, <2>1, <3>3 DEF Thrown
  <2>3. Weight(Uncounted, Top(th)) = 1
    BY <1>3, <2>1, FrameWeights
  <2>4. {j \in 1 .. 1 : stack[th][j] \in Uncounted} = {1}
    BY <1>3, <2>3 DEF Weight
  <2>5. Cardinality({j \in 1 .. c : stack[th][j] \in Uncounted}) = 1
    BY <2>2, <2>4, FS_Singleton
  <2>6. Weights(Uncounted, fs) = 1
    BY <2>2, WeightsOf, FrameWeights
  <2>7. active' = (active - Cardinality({j \in 1 .. c : stack[th][j] \in Uncounted}))
                     + Weights(Uncounted, fs)
    <3>1. active' = (active - 1) + 1
      BY <1>1 DEF Plain
    <3> QED BY <2>5, <2>6, <3>1
  <2> QED BY <1>1, <1>2, <1>3, <2>7, ThrowCounted
<1> QED BY <1>4, <1>5

LEMMA ResultCounted ==
  ASSUME QueueInv, QueueInv', Plain, Plain', Nested, Counted, Main \in Thread, NextResult,
         At(Main, "process", "exc")
  PROVE  Counted'
<1>1. /\ stack[Main] # <<>> /\ Top(Main).op = "process" /\ Top(Main).step = "exc"
      /\ Throw(Main) /\ UNCHANGED <<queued, outq, stopped>> /\ active' = active - 1
  BY DEF NextResult, At, In
<1>2. PICK c, g, fs : Thrown(Main, c, g, fs)
  BY <1>1, ThrowTurn
<1>3. /\ stack[Main][1] = Top(Main) /\ Top(Main) \in Frame /\ stack[Main] \in Seq(Frame)
  BY <1>1, TopFrame DEF QueueInv, Stacks
<1>4. c \in 1 .. Len(stack[Main]) /\ g = stack[Main][c] /\ g.op \in Catch
  BY <1>2 DEF Thrown
<1>5. c # 1
  BY <1>1, <1>3, <1>4 DEF Catch
<1>6. 1 \in 1 .. Len(stack[Main]) - 1 /\ 1 + 1 = 2
  BY <1>3, <1>4, <1>5
<1>7. stack[Main][2].op = "main"
  BY <1>1, <1>3, <1>6 DEF Nested, CalledFrom
<1>8. c = 2 /\ g.op = "main"
  <2>1. ~ (2 \in 1 .. c - 1)
    BY <1>2, <1>7 DEF Thrown, Catch
  <2>2. c = 2
    BY <1>3, <1>4, <1>5, <2>1
  <2> QED BY <1>4, <1>7, <2>2
<1>9. \E b \in Frame : b.op = "end" /\ fs = <<b>>
  BY <1>2, <1>8 DEF Thrown
<1>10. Weights(Uncounted, fs) = 0
  BY <1>9, WeightsOf, FrameWeights
<1>11. stack[Main][1] \in Uncounted /\ stack[Main][2] \notin Uncounted
  BY <1>1, <1>3, <1>7 DEF Uncounted
<1>12. {j \in 1 .. 2 : stack[Main][j] \in Uncounted} = {1}
  BY <1>11
<1>13. Cardinality({j \in 1 .. c : stack[Main][j] \in Uncounted}) = 1
  BY <1>8, <1>12, FS_Singleton
<1>14. active' = (active - 1) + 0
  BY <1>1 DEF Plain
<1> QED BY <1>1, <1>2, <1>3, <1>10, <1>13, <1>14, ThrowCounted

LEMMA StillCounted ==
  ASSUME QueueInv, QueueInv', Plain, Plain', Counted, NEW th \in Thread, NEW f \in Frame,
         UNCHANGED <<queued, outq, stopped, active, dispatching>>,
         \/ Turn(th, f, <<>>) /\ Weight(Entered, f) = 0 /\ Weight(Uncounted, f) = 0
         \/ \E b \in Frame : /\ Turn(th, f, <<b>>) /\ Weight(Entered, f) = Weight(Entered, b)
                             /\ Weight(Uncounted, f) = Weight(Uncounted, b)
         \/ \E a, b \in Frame :
              /\ Turn(th, f, <<a, b>>)
              /\ Weight(Entered, f) = Weight(Entered, a) + Weight(Entered, b)
              /\ Weight(Uncounted, f) = Weight(Uncounted, a) + Weight(Uncounted, b)
  PROVE  Counted'
<1>1. Moved(0, 0)
  BY StillMoved
<1>2. \A x \in Frame : Weight(Entered, x) \in Int /\ Weight(Uncounted, x) \in Int
  BY DEF Weight
<1>3. ASSUME Turn(th, f, <<>>), Weight(Entered, f) = 0, Weight(Uncounted, f) = 0
      PROVE  Counted'
  <2>1. 0 - Weight(Entered, f) = 0 /\ 0 - Weight(Uncounted, f) = 0
    BY <1>3
  <2>2. Moved(0 - Weight(Entered, f), 0 - Weight(Uncounted, f))
    BY <1>1, <2>1
  <2> QED BY <1>3, <2>2, CountPop
<1>4. ASSUME NEW b \in Frame, Turn(th, f, <<b>>), Weight(Entered, f) = Weight(Entered, b),
             Weight(Uncounted, f) = Weight(Uncounted, b)
      PROVE  Counted'
  <2>1. /\ Weight(Entered, b) - Weight(Entered, f) = 0
        /\ Weight(Uncounted, b) - Weight(Uncounted, f) = 0
    BY <1>2, <1>4
  <2>2. Moved(Weight(Entered, b) - Weight(Entered, f), Weight(Uncounted, b) - Weight(Uncounted, f))
    BY <1>1, <2>1
  <2> QED BY <1>4, <2>2, CountReplace
<1>5. ASSUME NEW a \in Frame, NEW b \in Frame, Turn(th, f, <<a, b>>),
             Weight(Entered, f) = Weight(Entered, a) + Weight(Entered, b),
             Weight(Uncounted, f) = Weight(Uncounted, a) + Weight(Uncounted, b)
      PROVE  Counted'
  <2>1. /\ (Weight(Entered, a) + Weight(Entered, b)) - Weight(Entered, f) = 0
        /\ (Weight(Uncounted, a) + Weight(Uncounted, b)) - Weight(Uncounted, f) = 0
    BY <1>2, <1>5
  <2>2. Moved((Weight(Entered, a) + Weight(Entered, b)) - Weight(Entered, f),
              (Weight(Uncounted, a) + Weight(Uncounted, b)) - Weight(Uncounted, f))
    BY <1>1, <2>1
  <2> QED BY <1>5, <2>2, CountPush
<1> QED BY <1>3, <1>4, <1>5

LEMMA TurnTyped ==
  ASSUME NEW th, NEW f, NEW fs, Turn(th, f, fs)
  PROVE  f \in Frame
BY DEF Turn

LEMMA StepCounted ==
  ASSUME QueueInv, QueueInv', Plain, Plain', Nested, Counted, UNCHANGED program,
         NEW th \in Thread, Step(th)
  PROVE  Counted'
<1> DEFINE Still == UNCHANGED <<queued, outq, stopped, active, dispatching>>
<1>1. CASE CacheHit(th) \/ SignalReady(th)
  <2>1. PICK f, b : Advanced(f, b) /\ Turn(th, f, <<b>>)
    BY <1>1, HitTurn
  <2>2. f \in Frame /\ b \in Frame /\ b.op = f.op /\ f.op \in {"main", "run"}
    BY <2>1, TurnTyped DEF Advanced
  <2>3. Still
    BY <1>1 DEF CacheHit, SignalReady, poolVars, endVars, queueVars
  <2> QED BY <2>1, <2>2, <2>3, FrameWeights, StillCounted
<1>2. CASE AddTask(th)
  <2>1. PICK f, a, b, i : /\ Advanced(f, b) /\ Turn(th, f, <<a, b>>) /\ a \in Frame /\ a.op = "add"
    BY <1>2, AddTaskTurn
  <2>2. f \in Frame /\ b \in Frame /\ b.op = f.op /\ f.op \in {"main", "run"}
    BY <2>1, TurnTyped DEF Advanced
  <2>3. Still
    BY <1>2 DEF AddTask, poolVars, endVars, queueVars
  <2>4. /\ Weight(Entered, f) = Weight(Entered, a) + Weight(Entered, b)
        /\ Weight(Uncounted, f) = Weight(Uncounted, a) + Weight(Uncounted, b)
    BY <2>1, <2>2, FrameWeights
  <2> QED BY <2>1, <2>2, <2>3, <2>4, StillCounted
<1>3. CASE AddMerge(th)
  <2>1. PICK f, b : f.op = "add" /\ Stepped(f, b, "deps") /\ Turn(th, f, <<b>>)
    BY <1>3, AddMergeTurn
  <2>2. f \in Frame /\ b \in Frame /\ b.op = "add"
    BY <2>1, TurnTyped DEF Stepped
  <2>3. Still
    BY <1>3 DEF AddMerge, poolVars, endVars, queueVars
  <2> QED BY <2>1, <2>2, <2>3, FrameWeights, StillCounted
<1>4. CASE AddDepsAndPublish(th)
  <2>1. PICK f, b : /\ f.op = "add" /\ Stepped(f, b, "leave")
                    /\ \/ Turn(th, f, <<b>>)
                       \/ \E a \in Frame : /\ a.op = "dispatch" /\ a.step = "enter"
                                           /\ Turn(th, f, <<a, b>>)
    BY <1>4, AddDepsTurn
  <2>2. f \in Frame /\ b \in Frame /\ b.op = "add"
    BY <2>1, TurnTyped DEF Stepped
  <2>3. Still
    BY <1>4 DEF AddDepsAndPublish, poolVars, endVars
  <2>4. CASE Turn(th, f, <<b>>)
    BY <2>1, <2>2, <2>3, <2>4, FrameWeights, StillCounted
  <2>5. ASSUME NEW a \in Frame, a.op = "dispatch", a.step = "enter", Turn(th, f, <<a, b>>)
        PROVE  Counted'
    <3>1. /\ Weight(Entered, f) = Weight(Entered, a) + Weight(Entered, b)
          /\ Weight(Uncounted, f) = Weight(Uncounted, a) + Weight(Uncounted, b)
      BY <2>1, <2>2, <2>5, FrameWeights
    <3> QED BY <2>2, <2>3, <2>5, <3>1, StillCounted
  <2> QED BY <2>1, <2>4, <2>5
<1>5. CASE AddLeave(th) \/ FireEnd(th) \/ (In(th, "sweep") /\ Return(th) /\ DispatchAll(th))
  <2>1. PICK f : Turn(th, f, <<>>) /\ f.op \in {"add", "sweep", "fire"}
    BY <1>5, PopTurn
  <2>2. f \in Frame
    BY <2>1, TurnTyped
  <2>3. Still
    BY <1>5 DEF AddLeave, FireEnd, DispatchAll, poolVars, endVars, queueVars
  <2> QED BY <2>1, <2>2, <2>3, FrameWeights, StillCounted
<1>6. CASE DispatchExit(th)
  <2>1. PICK f : Turn(th, f, <<>>) /\ f.op = "dispatch" /\ f.step = "exit"
    BY <1>6, PopTurn
  <2>2. f \in Frame
    BY <2>1, TurnTyped
  <2>3. Weight(Entered, f) = 1 /\ Weight(Uncounted, f) = 0
    BY <2>1, <2>2, FrameWeights
  <2>4. dispatching' = dispatching + (0 - 1)
    <3>1. dispatching \in Nat
      BY FS_CardinalityType DEF Counted
    <3> QED BY <1>6, <3>1 DEF DispatchExit
  <2>5. UNCHANGED <<queued, outq, stopped, active>>
    BY <1>6 DEF DispatchExit, poolVars, endVars
  <2>6. Moved(0 - 1, 0) /\ 0 - 0 = 0
    BY <2>4, <2>5, QuietMoved
  <2> QED BY <2>1, <2>3, <2>6, CountPop
<1>7. CASE PutResult(th)
  <2>1. PICK f : Turn(th, f, <<>>) /\ f.op = "done" /\ outq' = Append(outq, f.how)
    BY <1>7, PopTurn
  <2>2. f \in Frame
    BY <2>1, TurnTyped
  <2>3. Weight(Entered, f) = 0 /\ Weight(Uncounted, f) = 1
    BY <2>1, <2>2, FrameWeights
  <2>4. UNCHANGED <<queued, stopped, active, dispatching>>
    BY <1>7 DEF PutResult, endVars, queueVars
  <2>5. Len(outq') = Len(outq) + 1 /\ Len(outq) \in Nat
    BY <2>1 DEF QueueInv, Typed
  <2>6. active' - (Cardinality(queued') + Len(outq'))
          = (active - (Cardinality(queued) + Len(outq))) + (0 - 1)
    <3>1. Cardinality(queued) \in Nat /\ active \in Int
      BY FS_CardinalityType DEF Counted, Plain
    <3> QED BY <2>4, <2>5, <3>1
  <2>7. dispatching' = dispatching + 0
    <3>1. dispatching \in Nat
      BY FS_CardinalityType DEF Counted
    <3> QED BY <2>4, <3>1
  <2>8. Moved(0 - 0, 0 - 1)
    BY <2>4, <2>6, <2>7 DEF Moved, Counted
  <2> QED BY <2>1, <2>3, <2>8, CountPop
<1>8. CASE DispatchEnter(th)
  <2>1. PICK f, b : /\ f.op = "dispatch" /\ f.step = "enter" /\ Stepped(f, b, "remove")
                    /\ Turn(th, f, <<b>>)
    BY <1>8, EnterTurn
  <2>2. f \in Frame /\ b \in Frame /\ b.op = "dispatch" /\ b.step = "remove"
    BY <2>1, TurnTyped DEF Stepped
  <2>3. /\ Weight(Entered, f) = 0 /\ Weight(Uncounted, f) = 0
        /\ Weight(Entered, b) = 1 /\ Weight(Uncounted, b) = 0
    BY <2>1, <2>2, FrameWeights
  <2>4. dispatching' = dispatching + 1 /\ UNCHANGED <<queued, outq, stopped, active>>
    BY <1>8 DEF DispatchEnter, poolVars, endVars
  <2>5. Moved(1, 0) /\ 1 - 0 = 1 /\ 0 - 0 = 0
    BY <2>4, QuietMoved
  <2> QED BY <2>1, <2>2, <2>3, <2>5, CountReplace
<1>9. CASE DispatchRemove(th)
  <2>1. PICK f, b, s : /\ f.op = "dispatch" /\ f.step = "remove" /\ Stepped(f, b, s)
                       /\ s \in {"schedule", "exit"} /\ Turn(th, f, <<b>>)
    BY <1>9, RemoveTurn
  <2>2. f \in Frame /\ b \in Frame /\ b.op = "dispatch" /\ b.step \in {"schedule", "exit"}
    BY <2>1, TurnTyped DEF Stepped
  <2>3. Still
    BY <1>9 DEF DispatchRemove, poolVars, endVars
  <2> QED BY <2>1, <2>2, <2>3, FrameWeights, StillCounted
<1>10. CASE DispatchSchedule(th)
  <2>1. PICK f, a, b : /\ f.op = "dispatch" /\ f.step = "schedule" /\ Stepped(f, b, "exit")
                       /\ a \in Frame /\ a.op = "fire" /\ Turn(th, f, <<a, b>>)
    BY <1>10, ScheduleTurn
  <2>2. f \in Frame /\ b \in Frame /\ b.op = "dispatch" /\ b.step = "exit"
    BY <2>1, TurnTyped DEF Stepped
  <2>3. Still
    BY <1>10 DEF DispatchSchedule, poolVars, endVars, queueVars
  <2>4. /\ Weight(Entered, f) = Weight(Entered, a) + Weight(Entered, b)
        /\ Weight(Uncounted, f) = Weight(Uncounted, a) + Weight(Uncounted, b)
    BY <2>1, <2>2, FrameWeights
  <2> QED BY <2>1, <2>2, <2>3, <2>4, StillCounted
<1>11. CASE DispatchAll(th)
  <2>1. Still
    BY <1>11 DEF DispatchAll, poolVars, endVars, queueVars
  <2>2. ASSUME NEW f, NEW a, NEW b, Advanced(f, b), Turn(th, f, <<a, b>>), a \in Frame, a.op = "sweep"
        PROVE  Counted'
    <3>1. f \in Frame /\ b \in Frame /\ b.op = f.op /\ f.op \in {"main", "run"}
      BY <2>2, TurnTyped DEF Advanced
    <3>2. /\ Weight(Entered, f) = Weight(Entered, a) + Weight(Entered, b)
          /\ Weight(Uncounted, f) = Weight(Uncounted, a) + Weight(Uncounted, b)
      BY <2>2, <3>1, FrameWeights
    <3> QED BY <2>1, <2>2, <3>1, <3>2, StillCounted
  <2>3. ASSUME NEW f, NEW a, NEW b, f.op = "sweep", b.op = "sweep", a \in Frame, b \in Frame,
               a.op = "dispatch", a.step = "enter", Turn(th, f, <<a, b>>)
        PROVE  Counted'
    <3>1. f \in Frame
      BY <2>3, TurnTyped
    <3>2. /\ Weight(Entered, f) = Weight(Entered, a) + Weight(Entered, b)
          /\ Weight(Uncounted, f) = Weight(Uncounted, a) + Weight(Uncounted, b)
      BY <2>3, <3>1, FrameWeights
    <3> QED BY <2>1, <2>3, <3>1, <3>2, StillCounted
  <2> QED BY <1>5, <1>11, <2>2, <2>3, SweepTurn
<1>12. ASSUME NEW t \in Node, Fire(th, t)
       PROVE  Counted'
  <2>1. PICK f, a, b : /\ f.op = "fire" /\ b.op = "fire" /\ a \in Frame /\ b \in Frame
                       /\ a.op = "put" /\ Turn(th, f, <<a, b>>)
    BY <1>12, FireTurn
  <2>2. f \in Frame
    BY <2>1, TurnTyped
  <2>3. Still
    BY <1>12 DEF Fire, poolVars, endVars, queueVars
  <2>4. /\ Weight(Entered, f) = Weight(Entered, a) + Weight(Entered, b)
        /\ Weight(Uncounted, f) = Weight(Uncounted, a) + Weight(Uncounted, b)
    BY <2>1, <2>2, FrameWeights
  <2> QED BY <2>1, <2>2, <2>3, <2>4, StillCounted
<1>13. CASE Put(th)
  <2>1. PICK f : /\ f \in Frame /\ f.op = "put" /\ f.task \in Node
                 /\ \/ ~ f.inplace /\ Turn(th, f, <<>>) /\ queued' = queued \cup {f.task}
                    \/ /\ queued' = queued
                       /\ \E b \in Frame : b.op = "run" /\ Turn(th, f, <<b>>)
    BY <1>13, PutTurn
  <2>2. active' = active + 1 /\ UNCHANGED <<outq, stopped, dispatching>>
    BY <1>13 DEF Put, endVars, queueVars
  <2>3. /\ Cardinality(queued) \in Nat /\ Len(outq) \in Nat /\ active \in Int
        /\ dispatching' = dispatching + 0 /\ IsFiniteSet(queued)
    <3>1. dispatching \in Nat
      BY FS_CardinalityType DEF Counted
    <3> QED BY <2>2, <3>1, FS_CardinalityType DEF Counted, QueueInv, Typed, Plain
  <2>4. Weight(Entered, f) = 0 /\ Weight(Uncounted, f) = 0
    BY <2>1, FrameWeights
  <2>5. CASE Turn(th, f, <<>>) /\ queued' = queued \cup {f.task}
    <3>1. f.task \notin queued
      <4>1. f = stack[th][1] /\ 1 \in DOMAIN stack[th]
        BY <2>1, TopFrame DEF Turn, QueueInv
      <4>2. Owns(f, f.task)
        BY <2>1 DEF Owns
      <4> QED BY <2>1, <4>1, <4>2 DEF QueueInv, Owned, FrameOK
    <3>2. IsFiniteSet(queued') /\ Cardinality(queued') = Cardinality(queued) + 1
      BY <2>3, <2>5, <3>1, FS_AddElement
    <3>3. active' - (Cardinality(queued') + Len(outq'))
            = (active - (Cardinality(queued) + Len(outq))) + 0
      BY <2>2, <2>3, <3>2
    <3>4. Moved(0, 0) /\ 0 - 0 = 0
      BY <2>2, <2>3, <3>2, <3>3 DEF Moved
    <3> QED BY <2>4, <2>5, <3>4, CountPop
  <2>6. ASSUME queued' = queued, NEW b \in Frame, b.op = "run", Turn(th, f, <<b>>)
        PROVE  Counted'
    <3>1. Weight(Entered, b) = 0 /\ Weight(Uncounted, b) = 1
      BY <2>6, FrameWeights
    <3>2. active' - (Cardinality(queued') + Len(outq'))
            = (active - (Cardinality(queued) + Len(outq))) + 1
      BY <2>2, <2>3, <2>6
    <3>3. Moved(0, 1) /\ 0 - 0 = 0 /\ 1 - 0 = 1
      BY <2>2, <2>3, <2>6, <3>2 DEF Moved
    <3> QED BY <2>4, <2>6, <3>1, <3>3, CountReplace
  <2> QED BY <2>1, <2>5, <2>6
<1>14. CASE FireStopped(th) \/ RaiseTask(th)
  BY <1>14, RaiseCounted
<1>15. CASE FinishTask(th)
  <2>1. PICK f, a, b : /\ f.op = "run" /\ b.op = "done" /\ a \in Frame /\ b \in Frame
                       /\ a.op = "fire" /\ Turn(th, f, <<a, b>>)
    BY <1>15, FinishTurn
  <2>2. f \in Frame
    BY <2>1, TurnTyped
  <2>3. Still
    BY <1>15 DEF FinishTask, poolVars, endVars, queueVars
  <2>4. /\ Weight(Entered, f) = Weight(Entered, a) + Weight(Entered, b)
        /\ Weight(Uncounted, f) = Weight(Uncounted, a) + Weight(Uncounted, b)
    BY <2>1, <2>2, FrameWeights
  <2> QED BY <2>1, <2>2, <2>3, <2>4, StillCounted
<1> QED BY <1>1, <1>2, <1>3, <1>4, <1>5, <1>6, <1>7, <1>8, <1>9, <1>10, <1>11, <1>12, <1>13,
           <1>14, <1>15 DEF Step

LEMMA MainCounted ==
  ASSUME QueueInv, QueueInv', Plain, Plain', Counted, Phases, Main \in Thread,
         \/ BeginProcess \/ NextLook \/ NextPending \/ NextCounter \/ NextGet
         \/ NextResult /\ At(Main, "process", "ok")
         \/ EndProgram \/ StopState \/ JoinWorkers
  PROVE  Counted'
<1> DEFINE Still == UNCHANGED <<queued, outq, stopped, active, dispatching>>
<1>1. /\ Cardinality(queued) \in Nat /\ Len(outq) \in Nat /\ active \in Int
      /\ dispatching \in Nat /\ IsFiniteSet(queued)
  BY FS_CardinalityType DEF Counted, QueueInv, Typed, Plain
<1>2. CASE BeginProcess
  <2>1. PICK f, a, b : /\ Advanced(f, b) /\ Turn(Main, f, <<a, b>>) /\ a \in Frame
                       /\ a.op = "process" /\ a.step = "look"
    BY <1>2, MainTurn
  <2>2. f \in Frame /\ b \in Frame /\ b.op = f.op /\ f.op \in {"main", "run"}
    BY <2>1, TurnTyped DEF Advanced
  <2>3. Still
    BY <1>2 DEF BeginProcess, poolVars, endVars, queueVars
  <2>4. /\ Weight(Entered, f) = Weight(Entered, a) + Weight(Entered, b)
        /\ Weight(Uncounted, f) = Weight(Uncounted, a) + Weight(Uncounted, b)
    BY <2>1, <2>2, FrameWeights
  <2> QED BY <2>1, <2>2, <2>3, <2>4, StillCounted
<1>3. ASSUME NEW f, NEW b, NEW s, Stepped(f, b, s), Turn(Main, f, <<b>>), Still,
             \/ f.op = "process" /\ f.step \notin {"ok", "exc"} /\ s \notin {"ok", "exc"}
             \/ f.op = "end"
      PROVE  Counted'
  <2>1. f \in Frame /\ b \in Frame /\ b.op = f.op /\ b.step = s
    BY <1>3, TurnTyped DEF Stepped
  <2>2. /\ Weight(Entered, f) = Weight(Entered, b)
        /\ Weight(Uncounted, f) = Weight(Uncounted, b)
    BY <1>3, <2>1, FrameWeights
  <2> QED BY <1>3, <2>1, <2>2, StillCounted
<1>4. CASE NextLook
  <2>1. PICK f, b, s : /\ s \in {"pending", "get"} /\ f.op = "process" /\ f.step = "look"
                       /\ Stepped(f, b, s) /\ Turn(Main, f, <<b>>)
    BY <1>4, MainTurn
  <2>2. Still
    BY <1>4 DEF NextLook, poolVars, endVars, queueVars
  <2> QED BY <1>3, <2>1, <2>2
<1>5. CASE NextPending
  <2>1. PICK f, b, s : /\ s \in {"counter", "get"} /\ f.op = "process" /\ f.step = "pending"
                       /\ Stepped(f, b, s) /\ Turn(Main, f, <<b>>)
    BY <1>5, MainTurn
  <2>2. Still
    BY <1>5 DEF NextPending, poolVars, endVars, queueVars
  <2> QED BY <1>3, <2>1, <2>2
<1>6. CASE NextCounter
  <2>1. PICK f : /\ f.op = "process" /\ f.step = "counter"
                 /\ \/ Turn(Main, f, <<>>)
                    \/ \E b : Stepped(f, b, "get") /\ Turn(Main, f, <<b>>)
    BY <1>6, MainTurn
  <2>2. Still
    BY <1>6 DEF NextCounter, poolVars, endVars, queueVars
  <2>3. CASE Turn(Main, f, <<>>)
    <3>1. f \in Frame
      BY <2>3, TurnTyped
    <3>2. Weight(Entered, f) = 0 /\ Weight(Uncounted, f) = 0
      BY <2>1, <3>1, FrameWeights
    <3> QED BY <2>2, <2>3, <3>1, <3>2, StillCounted
  <2>4. ASSUME NEW b, Stepped(f, b, "get"), Turn(Main, f, <<b>>)
        PROVE  Counted'
    BY <1>3, <2>1, <2>2, <2>4
  <2> QED BY <2>1, <2>3, <2>4
<1>7. CASE NextGet
  <2>1. PICK f, b, s : /\ s = (IF outq = <<>> THEN "look" ELSE Head(outq))
                       /\ s \in {"look", "ok", "exc"} /\ f.op = "process" /\ f.step = "get"
                       /\ Stepped(f, b, s) /\ Turn(Main, f, <<b>>)
    BY <1>7, MainTurn
  <2>2. /\ UNCHANGED <<queued, stopped, active, dispatching>>
        /\ outq' = IF outq = <<>> THEN outq ELSE Tail(outq)
    BY <1>7 DEF NextGet, endVars, queueVars
  <2>3. CASE outq = <<>>
    <3>1. s = "look" /\ Still
      BY <2>1, <2>2, <2>3
    <3> QED BY <1>3, <2>1, <3>1
  <2>4. CASE outq # <<>>
    <3>1. s \in {"ok", "exc"} /\ Len(outq') = Len(outq) - 1
      BY <2>1, <2>2, <2>4 DEF QueueInv, Typed
    <3>2. f \in Frame /\ b \in Frame /\ b.op = "process" /\ b.step \in {"ok", "exc"}
      BY <2>1, <3>1, TurnTyped DEF Stepped
    <3>3. /\ Weight(Entered, f) = 0 /\ Weight(Uncounted, f) = 0
          /\ Weight(Entered, b) = 0 /\ Weight(Uncounted, b) = 1
      BY <2>1, <3>2, FrameWeights
    <3>4. active' - (Cardinality(queued') + Len(outq'))
            = (active - (Cardinality(queued) + Len(outq))) + 1
      BY <1>1, <2>2, <3>1
    <3>5. Moved(0, 1) /\ 0 - 0 = 0 /\ 1 - 0 = 1
      BY <1>1, <2>2, <3>4 DEF Moved
    <3> QED BY <2>1, <3>2, <3>3, <3>5, CountReplace
  <2> QED BY <2>3, <2>4
<1>8. CASE NextResult /\ At(Main, "process", "ok")
  <2>1. PICK f, b : /\ f.op = "process" /\ f.step = "ok" /\ Stepped(f, b, "look")
                    /\ Turn(Main, f, <<b>>)
    BY <1>8, MainTurn
  <2>2. f \in Frame /\ b \in Frame /\ b.op = "process" /\ b.step = "look"
    BY <2>1, TurnTyped DEF Stepped
  <2>3. /\ Weight(Entered, f) = 0 /\ Weight(Uncounted, f) = 1
        /\ Weight(Entered, b) = 0 /\ Weight(Uncounted, b) = 0
    BY <2>1, <2>2, FrameWeights
  <2>4. ~ At(Main, "process", "exc")
    BY <1>8 DEF At
  <2>5. UNCHANGED <<queued, outq, stopped, dispatching>> /\ active' = active - 1
    BY <1>8, <2>4 DEF NextResult
  <2>6. active' - (Cardinality(queued') + Len(outq'))
          = (active - (Cardinality(queued) + Len(outq))) + (0 - 1)
    BY <1>1, <2>5
  <2>7. Moved(0, 0 - 1) /\ 0 - 0 = 0
    BY <1>1, <2>5, <2>6 DEF Moved
  <2> QED BY <2>1, <2>2, <2>3, <2>7, CountReplace
<1>9. CASE EndProgram
  <2>1. PICK f, b : /\ f.op = "main" /\ b \in Frame /\ b.op = "end"
                    /\ Turn(Main, f, <<b>>)
    BY <1>9, MainTurn
  <2>2. f \in Frame
    BY <2>1, TurnTyped
  <2>3. Still
    BY <1>9 DEF EndProgram, poolVars, endVars, queueVars
  <2> QED BY <2>1, <2>2, <2>3, FrameWeights, StillCounted
<1>10. ASSUME NEW f, NEW b, NEW s, f.op = "end", Stepped(f, b, s), Turn(Main, f, <<b>>),
              stopped', queued' = queued, dispatching' = dispatching
       PROVE  Counted'
  <2>1. f \in Frame /\ b \in Frame /\ b.op = "end"
    BY <1>10, TurnTyped DEF Stepped
  <2>2. /\ Weight(Entered, f) = 0 /\ Weight(Uncounted, f) = 0
        /\ Weight(Entered, b) = 0 /\ Weight(Uncounted, b) = 0
    BY <1>10, <2>1, FrameWeights
  <2>3. Moved(0, 0) /\ 0 - 0 = 0
    BY <1>1, <1>10 DEF Moved
  <2> QED BY <1>10, <2>1, <2>2, <2>3, CountReplace
<1>11. CASE StopState
  <2>1. PICK f, b : f.op = "end" /\ Stepped(f, b, "join") /\ Turn(Main, f, <<b>>)
    BY <1>11, MainTurn
  <2>2. stopped' /\ queued' = queued /\ dispatching' = dispatching
    BY <1>11 DEF StopState, poolVars, queueVars
  <2> QED BY <1>10, <2>1, <2>2
<1>12. CASE JoinWorkers
  <2>1. PICK f, b : /\ f.op = "end" /\ f.step = "join" /\ Stepped(f, b, "over")
                    /\ Turn(Main, f, <<b>>)
    BY <1>12, MainTurn
  <2>2. f = stack[Main][1] /\ 1 \in DOMAIN stack[Main]
    BY <2>1, TurnFrames DEF QueueInv
  <2>3. stopped
    BY <2>1, <2>2 DEF Phases, PhaseOf
  <2>4. stopped' /\ queued' = queued /\ dispatching' = dispatching
    BY <1>12, <2>3 DEF JoinWorkers, queueVars
  <2> QED BY <1>10, <2>1, <2>4
<1> QED BY <1>2, <1>4, <1>5, <1>6, <1>7, <1>8, <1>9, <1>11, <1>12

LEMMA DistCounted ==
  ASSUME QueueInv, QueueInv', Plain, Plain', Counted, Dist \in Thread, DistReport \/ DistEnd
  PROVE  Counted'
<1>1. UNCHANGED <<queued, outq, stopped, active, dispatching>>
  BY DEF DistReport, DistEnd, poolVars, queueVars, endVars
<1>2. PICK f :
    /\ f.op = "dist"
    /\ \/ \E b : /\ b \in Frame /\ b.op = "dist"
                 /\ \/ Turn(Dist, f, <<b>>)
                    \/ \E a \in Frame : /\ a.op = "dispatch" /\ a.step = "enter"
                                        /\ Turn(Dist, f, <<a, b>>)
       \/ \E a, b : /\ a \in Frame /\ a.op = "sweep" /\ b \in Frame /\ b.op = "end"
                    /\ Turn(Dist, f, <<a, b>>)
  BY DistTurn
<1>3. ASSUME NEW b \in Frame, b.op \in {"dist", "end"}, NEW a \in Frame,
             a.op = "sweep" \/ (a.op = "dispatch" /\ a.step = "enter"),
             Turn(Dist, f, <<a, b>>)
      PROVE  Counted'
  <2>1. f \in Frame
    BY <1>3, TurnTyped
  <2>2. /\ Weight(Entered, f) = Weight(Entered, a) + Weight(Entered, b)
        /\ Weight(Uncounted, f) = Weight(Uncounted, a) + Weight(Uncounted, b)
    BY <1>2, <1>3, <2>1, FrameWeights
  <2> QED BY <1>1, <1>3, <2>1, <2>2, StillCounted
<1>4. ASSUME NEW b \in Frame, b.op = "dist", Turn(Dist, f, <<b>>)
      PROVE  Counted'
  <2>1. f \in Frame
    BY <1>4, TurnTyped
  <2>2. Weight(Entered, f) = Weight(Entered, b) /\ Weight(Uncounted, f) = Weight(Uncounted, b)
    BY <1>2, <1>4, <2>1, FrameWeights
  <2> QED BY <1>1, <1>4, <2>1, <2>2, StillCounted
<1> QED BY <1>2, <1>3, <1>4

LEMMA WorkerCounted ==
  ASSUME QueueInv, QueueInv', Plain, Plain', Nested, Counted, NEW w \in Worker, w \in Thread,
         CheckState(w) \/ EndWorker(w) \/ Take(w)
  PROVE  Counted'
<1>1. /\ Cardinality(queued) \in Nat /\ Len(outq) \in Nat /\ active \in Int
      /\ dispatching \in Nat /\ IsFiniteSet(queued)
  BY FS_CardinalityType DEF Counted, QueueInv, Typed, Plain
<1>2. CASE Take(w)
  <2>1. PICK f, t, b : /\ f.op = "take" /\ t \in queued /\ queued' = queued \ {t}
                       /\ b \in Frame /\ b.op = "run" /\ Turn(w, f, <<b>>)
    BY <1>2, TakeTurn
  <2>2. f \in Frame
    BY <2>1, TurnTyped
  <2>3. /\ Weight(Entered, f) = 0 /\ Weight(Uncounted, f) = 0
        /\ Weight(Entered, b) = 0 /\ Weight(Uncounted, b) = 1
    BY <2>1, <2>2, FrameWeights
  <2>4. UNCHANGED <<active, outq, dispatching, stopped>>
    BY <1>2 DEF Take, queueVars, endVars
  <2>5. IsFiniteSet(queued') /\ Cardinality(queued') = Cardinality(queued) - 1
    BY <1>1, <2>1, FS_RemoveElement
  <2>6. active' - (Cardinality(queued') + Len(outq'))
          = (active - (Cardinality(queued) + Len(outq))) + 1
    BY <1>1, <2>4, <2>5
  <2>7. Moved(0, 1) /\ 0 - 0 = 0 /\ 1 - 0 = 1
    BY <1>1, <2>4, <2>5, <2>6 DEF Moved
  <2> QED BY <2>1, <2>2, <2>3, <2>7, CountReplace
<1>3. CASE CheckState(w) \/ EndWorker(w)
  <2>1. PICK fs : /\ Moves(w, Len(stack[w]), fs) /\ fs \in Seq(Frame)
                  /\ fs = <<>> \/ \E b \in Frame : b.op = "take" /\ fs = <<b>>
                  /\ \A k \in DOMAIN stack[w] : stack[w][k].op = "take"
    <3>1. CheckState(w) => stack[w] = <<>>
      BY DEF CheckState
    <3> QED BY <1>3, <3>1, IdleTurn
  <2>2. PICK c : c = Len(stack[w])
    OBVIOUS
  <2>3. Stacks /\ DOMAIN stack[w] = 1 .. c /\ Moves(w, c, fs)
    BY <2>1, <2>2 DEF QueueInv, Stacks
  <2>4. /\ {j \in 1 .. c : stack[w][j] \in Entered} = {}
        /\ {j \in 1 .. c : stack[w][j] \in Uncounted} = {}
    BY <2>1, <2>3 DEF Entered, Uncounted
  <2>5. \A i \in DOMAIN fs : fs[i].op = "take"
    BY <2>1
  <2>6. {i \in DOMAIN fs : fs[i] \in Entered} = {} /\ {i \in DOMAIN fs : fs[i] \in Uncounted} = {}
    BY <2>5 DEF Entered, Uncounted
  <2>7. Cardinality({}) = 0
    BY FS_EmptySet
  <2>8. /\ IsFiniteSet(Spots(Entered))' /\ Cardinality(Spots(Entered)) \in Nat
        /\ Cardinality(Spots(Entered))' = (Cardinality(Spots(Entered)) - 0) + 0
    BY <2>3, <2>4, <2>6, <2>7, SpotsMove DEF Counted
  <2>9. /\ IsFiniteSet(Spots(Uncounted))' /\ Cardinality(Spots(Uncounted)) \in Nat
        /\ Cardinality(Spots(Uncounted))' = (Cardinality(Spots(Uncounted)) - 0) + 0
    BY <2>3, <2>4, <2>6, <2>7, SpotsMove DEF Counted
  <2>10. Moved(0, 0)
    <3>1. CASE CheckState(w)
      BY <3>1, StillMoved DEF CheckState, queueVars, poolVars, endVars
    <3>2. CASE EndWorker(w)
      BY <1>1, <3>2 DEF EndWorker, Moved, queueVars, endVars
    <3> QED BY <1>3, <3>1, <3>2
  <2>11. /\ Cardinality(Spots(Entered))' = Cardinality(Spots(Entered)) + 0
         /\ Cardinality(Spots(Uncounted))' = Cardinality(Spots(Uncounted)) + 0
    BY <2>8, <2>9
  <2> QED BY <2>8, <2>9, <2>10, <2>11, MovedCounted
<1> QED BY <1>2, <1>3

LEMMA SameCounted ==
  ASSUME QueueInv, QueueInv', Plain, Plain', Counted,
         UNCHANGED <<stack, queued, outq, active, dispatching>>, stopped' \/ stopped' = stopped
  PROVE  Counted'
BY DEF Counted, Spots

-----------------------------------------------------------------------------
(* Until the build is stopped no step loses a token, an open task or an    *)
(* exception.                                                              *)
LEMMA MoveKept ==
  ASSUME QueueInv, Kept, ~ stopped, NEW th \in Thread, NEW c, NEW fs, Moves(th, c, fs),
         \A t \in Node : fired'[t] > 0 =>
           \/ t \in semi' \cup raised' \cup queued'
           \/ \E i \in DOMAIN fs : Owns(fs[i], t)
           \/ /\ fired[t] > 0 /\ t \notin semi \cup raised \cup queued
              /\ \A j \in 1 .. c : ~ Owns(stack[th][j], t),
         \A t \in Open' : \/ \E i \in DOMAIN fs : Holds(fs[i], t)
                          \/ t \in Open /\ \A j \in 1 .. c : ~ Holds(stack[th][j], t),
         \/ raised' = {} \/ failed'
         \/ \E i \in DOMAIN fs : fs[i] \in Fatal
         \/ \E i \in DOMAIN outq' : outq'[i] = "exc"
         \/ /\ raised # {} /\ ~ failed /\ \A i \in DOMAIN outq : outq[i] # "exc"
            /\ \A j \in 1 .. c : stack[th][j] \notin Fatal
  PROVE  Kept'
<1>1. /\ c \in 0 .. Len(stack[th]) /\ fs \in Seq(Frame) /\ Stacks
      /\ stack[th] \in Seq(Frame) /\ DOMAIN stack[th] = 1 .. Len(stack[th])
  BY DEF Moves, QueueInv, Stacks
<1>2. \A i \in DOMAIN fs : i \in DOMAIN stack'[th] /\ stack'[th][i] = fs[i]
  BY <1>1, MoveFrames
<1>3. ASSUME NEW F \in SUBSET Frame, OnStack(F), \A j \in 1 .. c : stack[th][j] \notin F
      PROVE  OnStack(F)'
  <2>1. PICK a \in Thread : \E m \in DOMAIN stack[a] : stack[a][m] \in F
    BY <1>3 DEF OnStack
  <2>2. PICK m \in DOMAIN stack[a] : stack[a][m] \in F
    BY <2>1
  <2>3. a = th => m > c
    BY <1>1, <1>3, <2>2
  <2>4. \E k \in DOMAIN stack'[a] : stack'[a][k] = stack[a][m]
    BY <1>1, <2>3, MoveFrames
  <2> QED BY <2>2, <2>4 DEF OnStack
<1>4. ASSUME NEW F \in SUBSET Frame, \E i \in DOMAIN fs : fs[i] \in F
      PROVE  OnStack(F)'
  BY <1>2, <1>4 DEF OnStack
<1>5. \A i \in DOMAIN fs : fs[i] \in Frame
  BY <1>1
<1>6. \A j \in 1 .. c : stack[th][j] \in Frame
  BY <1>1
<1>7. ASSUME NEW t \in Node, fired'[t] > 0
      PROVE  t \in semi' \cup raised' \cup queued' \/ OnStack(Owners(t))'
  <2>1. Owners(t) \in SUBSET Frame
    BY DEF Owners
  <2>2. CASE \E i \in DOMAIN fs : Owns(fs[i], t)
    <3>1. \E i \in DOMAIN fs : fs[i] \in Owners(t)
      BY <1>5, <2>2 DEF Owners
    <3> QED BY <1>4, <2>1, <3>1 DEF Owners
  <2>3. CASE /\ fired[t] > 0 /\ t \notin semi \cup raised \cup queued
             /\ \A j \in 1 .. c : ~ Owns(stack[th][j], t)
    <3>1. OnStack(Owners(t))
      BY <2>3 DEF Kept
    <3>2. \A j \in 1 .. c : stack[th][j] \notin Owners(t)
      BY <2>3 DEF Owners
    <3> QED BY <1>3, <2>1, <3>1, <3>2 DEF Owners
  <2> QED BY <1>7, <2>2, <2>3
<1>8. ASSUME NEW t \in Open'
      PROVE  OnStack(Holders(t))'
  <2>1. Holders(t) \in SUBSET Frame
    BY DEF Holders
  <2>2. CASE \E i \in DOMAIN fs : Holds(fs[i], t)
    <3>1. \E i \in DOMAIN fs : fs[i] \in Holders(t)
      BY <1>5, <2>2 DEF Holders
    <3> QED BY <1>4, <2>1, <3>1 DEF Holders
  <2>3. CASE t \in Open /\ \A j \in 1 .. c : ~ Holds(stack[th][j], t)
    <3>1. OnStack(Holders(t))
      BY <2>3 DEF Kept
    <3>2. \A j \in 1 .. c : stack[th][j] \notin Holders(t)
      BY <2>3 DEF Holders
    <3> QED BY <1>3, <2>1, <3>1, <3>2 DEF Holders
  <2> QED BY <1>8, <2>2, <2>3
<1>9. ASSUME raised' # {}, ~ failed'
      PROVE  OnStack(Fatal)' \/ \E i \in DOMAIN outq' : outq'[i] = "exc"
  <2>1. Fatal \in SUBSET Frame
    BY DEF Fatal
  <2>2. CASE \E i \in DOMAIN fs : fs[i] \in Fatal
    BY <1>4, <2>1, <2>2 DEF Fatal
  <2>3. CASE /\ raised # {} /\ ~ failed /\ \A i \in DOMAIN outq : outq[i] # "exc"
             /\ \A j \in 1 .. c : stack[th][j] \notin Fatal
    <3>1. OnStack(Fatal)
      BY <2>3 DEF Kept
    <3> QED BY <1>3, <2>1, <2>3, <3>1 DEF Fatal
  <2> QED BY <1>9, <2>2, <2>3
<1> QED BY <1>7, <1>8, <1>9 DEF Kept

LEMMA TurnKept ==
  ASSUME QueueInv, Kept, ~ stopped, NEW th \in Thread, NEW f, NEW fs, Turn(th, f, fs),
         \A t \in Node : fired'[t] > 0 =>
           \/ t \in semi' \cup raised' \cup queued'
           \/ \E i \in DOMAIN fs : Owns(fs[i], t)
           \/ fired[t] > 0 /\ t \notin semi \cup raised \cup queued /\ ~ Owns(f, t),
         \A t \in Open' : \/ \E i \in DOMAIN fs : Holds(fs[i], t)
                          \/ t \in Open /\ ~ Holds(f, t),
         \/ raised' = {} \/ failed'
         \/ \E i \in DOMAIN fs : fs[i] \in Fatal
         \/ \E i \in DOMAIN outq' : outq'[i] = "exc"
         \/ /\ raised # {} /\ ~ failed /\ \A i \in DOMAIN outq : outq[i] # "exc"
            /\ f \notin Fatal
  PROVE  Kept'
<1>1. f = stack[th][1] /\ Moves(th, 1, fs)
  BY TurnFrames DEF QueueInv
<1>2. PICK c : c = 1
  OBVIOUS
<1>3. Moves(th, c, fs) /\ \A j \in 1 .. c : stack[th][j] = f
  BY <1>1, <1>2
<1>4. /\ \A t \in Node : ~ Owns(f, t) => \A j \in 1 .. c : ~ Owns(stack[th][j], t)
      /\ \A t : ~ Holds(f, t) => \A j \in 1 .. c : ~ Holds(stack[th][j], t)
      /\ f \notin Fatal => \A j \in 1 .. c : stack[th][j] \notin Fatal
  BY <1>3
<1> QED BY <1>3, <1>4, MoveKept

(* The same for a step that changes no more than the stack.                *)
Steady == UNCHANGED <<fired, semi, raised, queued, outq, failed, added, scheduled, notDispatched>>

LEMMA SteadyKept ==
  ASSUME QueueInv, Kept, ~ stopped, NEW th \in Thread, NEW f, NEW fs, Turn(th, f, fs), Steady,
         \A t \in Node : Owns(f, t) => \E i \in DOMAIN fs : Owns(fs[i], t),
         \A t \in Node : Holds(f, t) => \E i \in DOMAIN fs : Holds(fs[i], t),
         f \notin Fatal
  PROVE  Kept'
<1>1. ASSUME NEW t \in Node, fired'[t] > 0
      PROVE  \/ t \in semi' \cup raised' \cup queued'
             \/ \E i \in DOMAIN fs : Owns(fs[i], t)
             \/ fired[t] > 0 /\ t \notin semi \cup raised \cup queued /\ ~ Owns(f, t)
  BY <1>1 DEF Steady
<1>2. ASSUME NEW t \in Open'
      PROVE  \/ \E i \in DOMAIN fs : Holds(fs[i], t)
             \/ t \in Open /\ ~ Holds(f, t)
  <2>1. t \in Open /\ t \in Node
    BY DEF Steady, Open, QueueInv, TopoInv, TopoTypeOK
  <2> QED BY <2>1
<1>3. \/ raised' = {} \/ failed'
      \/ \E i \in DOMAIN outq' : outq'[i] = "exc"
      \/ /\ raised # {} /\ ~ failed /\ \A i \in DOMAIN outq : outq[i] # "exc"
         /\ f \notin Fatal
  BY DEF Steady
<1> QED BY <1>1, <1>2, <1>3, TurnKept

LEMMA SteadyPush ==
  ASSUME QueueInv, Kept, ~ stopped, NEW th \in Thread, NEW f, Steady, f \notin Fatal,
         NEW a, NEW b, Turn(th, f, <<a, b>>),
         \A t \in Node : /\ Owns(f, t) => Owns(a, t) \/ Owns(b, t)
                         /\ Holds(f, t) => Holds(b, t)
  PROVE  Kept'
<1>1. PICK fs : fs = <<a, b>>
  OBVIOUS
<1>2. Turn(th, f, fs) /\ 1 \in DOMAIN fs /\ fs[1] = a /\ 2 \in DOMAIN fs /\ fs[2] = b
  BY <1>1
<1>3. \A t \in Node : Owns(f, t) => \E i \in DOMAIN fs : Owns(fs[i], t)
  BY <1>2
<1>4. \A t \in Node : Holds(f, t) => \E i \in DOMAIN fs : Holds(fs[i], t)
  BY <1>2
<1> QED BY <1>2, <1>3, <1>4, SteadyKept

LEMMA SteadyTurn ==
  ASSUME QueueInv, Kept, ~ stopped, NEW th \in Thread, NEW f, Steady, f \notin Fatal,
         \/ Turn(th, f, <<>>) /\ \A t \in Node : ~ Owns(f, t) /\ ~ Holds(f, t)
         \/ \E b : /\ Turn(th, f, <<b>>)
                   /\ \A t \in Node : (Owns(f, t) => Owns(b, t)) /\ (Holds(f, t) => Holds(b, t))
         \/ \E a, b : /\ Turn(th, f, <<a, b>>)
                      /\ \A t \in Node : /\ Owns(f, t) => Owns(a, t) \/ Owns(b, t)
                                         /\ Holds(f, t) => Holds(b, t)
  PROVE  Kept'
<1>1. ASSUME Turn(th, f, <<>>), \A t \in Node : ~ Owns(f, t) /\ ~ Holds(f, t)
      PROVE  Kept'
  BY <1>1, SteadyKept
<1>2. ASSUME NEW b, Turn(th, f, <<b>>),
             \A t \in Node : (Owns(f, t) => Owns(b, t)) /\ (Holds(f, t) => Holds(b, t))
      PROVE  Kept'
  <2>1. PICK fs : fs = <<b>>
    OBVIOUS
  <2>2. Turn(th, f, fs) /\ 1 \in DOMAIN fs /\ fs[1] = b
    BY <1>2, <2>1
  <2>3. \A t \in Node : Owns(f, t) => \E i \in DOMAIN fs : Owns(fs[i], t)
    BY <1>2, <2>2
  <2>4. \A t \in Node : Holds(f, t) => \E i \in DOMAIN fs : Holds(fs[i], t)
    BY <1>2, <2>2
  <2> QED BY <2>2, <2>3, <2>4, SteadyKept
<1>3. ASSUME NEW a, NEW b, Turn(th, f, <<a, b>>),
             \A t \in Node : /\ Owns(f, t) => Owns(a, t) \/ Owns(b, t)
                             /\ Holds(f, t) => Holds(b, t)
      PROVE  Kept'
  BY <1>3, SteadyPush
<1> QED BY <1>1, <1>2, <1>3

(* A frame of a call passes its duties on when it is advanced.             *)
LEMMA AdvancedKeeps ==
  ASSUME NEW f, NEW b, Advanced(f, b)
  PROVE  /\ \A t \in Node : (Owns(f, t) => Owns(b, t)) /\ ~ Holds(f, t)
         /\ f \notin Fatal /\ b.op \in {"main", "run"}
BY DEF Advanced, Owns, Holds, Fatal

(* Steps that look, wait, call or return.                                  *)
LEMMA SteadyStep ==
  ASSUME QueueInv, Kept, ~ stopped, NEW th \in Thread,
         \/ CacheHit(th) \/ SignalReady(th) \/ AddMerge(th) \/ AddLeave(th)
         \/ DispatchEnter(th) \/ DispatchExit(th) \/ DispatchAll(th)
         \/ (\E t \in Node : Fire(th, t)) \/ FireEnd(th)
  PROVE  Kept'
<1>0. Steady
  BY DEF CacheHit, SignalReady, AddMerge, MergeNodes, AddLeave, DispatchEnter, DispatchExit, DispatchAll,
         Fire, FireEnd, Steady, topoVars, queueVars, poolVars, endVars, seenVars
<1>1. CASE CacheHit(th) \/ SignalReady(th)
  <2>1. PICK f, b : Advanced(f, b) /\ Turn(th, f, <<b>>)
    BY <1>1, HitTurn
  <2> QED BY <1>0, <2>1, AdvancedKeeps, SteadyTurn
<1>2. CASE AddMerge(th)
  <2>1. PICK f, b : /\ f.op = "add" /\ f.step = "merge" /\ Stepped(f, b, "deps")
                    /\ Turn(th, f, <<b>>)
    BY <1>2, AddMergeTurn
  <2>2. \A t \in Node : (Owns(f, t) => Owns(b, t)) /\ (Holds(f, t) => Holds(b, t))
    BY <2>1 DEF Stepped, Owns, Holds
  <2>3. f \notin Fatal
    BY <2>1 DEF Fatal
  <2> QED BY <1>0, <2>1, <2>2, <2>3, SteadyTurn
<1>3. CASE AddLeave(th) \/ DispatchExit(th) \/ FireEnd(th) \/ (In(th, "sweep") /\ Return(th))
  <2>1. PICK f : /\ Turn(th, f, <<>>)
                 /\ \/ f.op = "add" /\ f.step = "leave"
                    \/ f.op = "dispatch" /\ f.step = "exit"
                    \/ f.op = "fire" /\ f.tasks = {}
                    \/ f.op = "sweep"
    BY <1>3, PopTurn
  <2>2. /\ \A t \in Node : ~ Owns(f, t) /\ ~ Holds(f, t)
        /\ f \notin Fatal
    BY <2>1 DEF Owns, Holds, Fatal
  <2> QED BY <1>0, <2>1, <2>2, SteadyTurn
<1>4. CASE DispatchEnter(th)
  <2>1. PICK f, b : /\ f.op = "dispatch" /\ f.step = "enter" /\ Stepped(f, b, "remove")
                    /\ Turn(th, f, <<b>>)
    BY <1>4, EnterTurn
  <2>2. /\ \A t \in Node : ~ Owns(f, t) /\ ~ Holds(f, t)
        /\ f \notin Fatal
    BY <2>1 DEF Owns, Holds, Fatal
  <2> QED BY <1>0, <2>1, <2>2, SteadyTurn
<1>5. CASE DispatchAll(th)
  <2>1. ASSUME NEW f, NEW a, NEW b, Advanced(f, b), Turn(th, f, <<a, b>>)
        PROVE  Kept'
    <3>1. /\ \A t \in Node : /\ Owns(f, t) => Owns(a, t) \/ Owns(b, t)
                             /\ Holds(f, t) => Holds(b, t)
          /\ f \notin Fatal
      BY <2>1, AdvancedKeeps
    <3> QED BY <1>0, <2>1, <3>1, SteadyPush
  <2>2. ASSUME NEW f, NEW a, NEW b, f.op = "sweep", Turn(th, f, <<a, b>>)
        PROVE  Kept'
    <3>1. /\ \A t \in Node : ~ Owns(f, t) /\ ~ Holds(f, t)
          /\ f \notin Fatal
      BY <2>2 DEF Owns, Holds, Fatal
    <3> QED BY <1>0, <2>2, <3>1, SteadyTurn
  <2> QED BY <1>3, <1>5, <2>1, <2>2, SweepTurn
<1>6. ASSUME NEW t \in Node, Fire(th, t)
      PROVE  Kept'
  <2>1. PICK f, a, b : /\ f.op = "fire" /\ t \in f.tasks /\ b.op = "fire" /\ b.tasks = f.tasks \ {t}
                       /\ a \in Frame /\ b \in Frame /\ a.op = "put" /\ a.task = t
                       /\ a.inplace = f.inplace /\ b.inplace = f.inplace
                       /\ Turn(th, f, <<a, b>>)
    BY <1>6, FireTurn
  <2>2. \A u \in Node : /\ Owns(f, u) => Owns(a, u) \/ Owns(b, u)
                        /\ Holds(f, u) => Holds(b, u)
    BY <2>1 DEF Owns, Holds
  <2>3. f \notin Fatal
    BY <2>1 DEF Fatal
  <2> QED BY <1>0, <2>1, <2>2, <2>3, SteadyTurn
<1> QED BY <1>1, <1>2, <1>3, <1>4, <1>5, <1>6

LEMMA SteadyMain ==
  ASSUME QueueInv, Kept, ~ stopped, Main \in Thread,
         \/ BeginProcess \/ NextLook \/ NextPending \/ NextCounter
         \/ NextResult /\ At(Main, "process", "ok")
         \/ EndProgram \/ (JoinWorkers /\ outq' = outq)
  PROVE  Kept'
<1>0. Steady
  <2>1. At(Main, "process", "ok") => ~ At(Main, "process", "exc")
    BY DEF At
  <2> QED BY <2>1 DEF BeginProcess, NextLook, NextPending, NextCounter, NextResult,
         EndProgram, JoinWorkers, Steady, topoVars, queueVars, poolVars, endVars, seenVars
<1>1. CASE BeginProcess
  <2>1. PICK f, a, b : Advanced(f, b) /\ Turn(Main, f, <<a, b>>)
    BY <1>1, MainTurn
  <2>2. /\ \A t \in Node : /\ Owns(f, t) => Owns(a, t) \/ Owns(b, t)
                           /\ Holds(f, t) => Holds(b, t)
        /\ f \notin Fatal
    BY <2>1, AdvancedKeeps
  <2> QED BY <1>0, <2>1, <2>2, SteadyPush
<1>2. ASSUME NEW f, (f.op = "process" /\ f.step # "exc") \/ f.op \in {"main", "end"},
             \/ Turn(Main, f, <<>>) \/ \E b : Turn(Main, f, <<b>>)
      PROVE  Kept'
  <2>1. /\ \A t \in Node : ~ Owns(f, t) /\ ~ Holds(f, t)
        /\ f \notin Fatal
    BY <1>2 DEF Owns, Holds, Fatal
  <2> QED BY <1>0, <1>2, <2>1, SteadyTurn
<1>3. CASE NextLook
  BY <1>2, <1>3, MainTurn
<1>4. CASE NextPending
  BY <1>2, <1>4, MainTurn
<1>5. CASE NextCounter
  BY <1>2, <1>5, MainTurn
<1>6. CASE NextResult /\ At(Main, "process", "ok")
  BY <1>2, <1>6, MainTurn
<1>7. CASE EndProgram
  BY <1>2, <1>7, MainTurn
<1>8. CASE JoinWorkers
  BY <1>2, <1>8, MainTurn
<1> QED BY <1>1, <1>3, <1>4, <1>5, <1>6, <1>7, <1>8

LEMMA SteadyDist ==
  ASSUME QueueInv, Kept, ~ stopped, Dist \in Thread, DistReport \/ DistEnd
  PROVE  Kept'
<1>1. Steady
  BY DEF DistReport, DistEnd, Steady, topoVars, queueVars, poolVars, endVars, seenVars
<1>2. PICK f : f.op = "dist" /\ ((\E b : Turn(Dist, f, <<b>>)) \/ \E a, b : Turn(Dist, f, <<a, b>>))
  BY DistTurn
<1>3. /\ \A t \in Node : ~ Owns(f, t) /\ ~ Holds(f, t)
      /\ f \notin Fatal
  BY <1>2 DEF Owns, Holds, Fatal
<1> QED BY <1>1, <1>2, <1>3, SteadyTurn

(* Steps that pass a token, an open task or an exception on.               *)
LEMMA AddTaskKept ==
  ASSUME QueueInv, Kept, ~ stopped, NEW th \in Thread, AddTask(th) \/ AddDepsAndPublish(th)
  PROVE  Kept'
<1>1. CASE AddTask(th)
  <2>1. PICK f, a, b, i : /\ Advanced(f, b) /\ Turn(th, f, <<a, b>>) /\ a.op = "add"
                          /\ a.instr = i /\ a.step \in {"merge", "deps"} /\ AddNode(i.task)
    BY <1>1, AddTaskTurn
  <2>2. PICK fs : fs = <<a, b>>
    OBVIOUS
  <2>3. Turn(th, f, fs) /\ 1 \in DOMAIN fs /\ fs[1] = a /\ 2 \in DOMAIN fs /\ fs[2] = b
    BY <2>1, <2>2
  <2>4. /\ UNCHANGED <<fired, semi, raised, queued, outq, failed, scheduled, notDispatched>>
        /\ added' = added \cup {i.task}
    BY <1>1, <2>1 DEF AddTask, AddNode, queueVars, poolVars, endVars, seenVars
  <2>5. /\ \A t \in Node : (Owns(f, t) => Owns(b, t)) /\ ~ Holds(f, t)
        /\ f \notin Fatal
    BY <2>1, AdvancedKeeps
  <2>6. \A t \in Node : fired'[t] > 0 =>
          \/ t \in semi' \cup raised' \cup queued'
          \/ \E j \in DOMAIN fs : Owns(fs[j], t)
          \/ fired[t] > 0 /\ t \notin semi \cup raised \cup queued /\ ~ Owns(f, t)
    BY <2>3, <2>4, <2>5
  <2>7. Holds(a, i.task) /\ added \subseteq Node
    BY <2>1 DEF Holds, QueueInv, TopoInv, TopoTypeOK
  <2>8. \A t \in Open' : (\E j \in DOMAIN fs : Holds(fs[j], t)) \/ (t \in Open /\ ~ Holds(f, t))
    BY <2>3, <2>4, <2>5, <2>7 DEF Open
  <2>9. \/ raised' = {} \/ failed'
        \/ \E j \in DOMAIN outq' : outq'[j] = "exc"
        \/ /\ raised # {} /\ ~ failed /\ \A j \in DOMAIN outq : outq[j] # "exc"
           /\ f \notin Fatal
    BY <2>4, <2>5
  <2> QED BY <2>3, <2>6, <2>8, <2>9, TurnKept
<1>2. CASE AddDepsAndPublish(th)
  <2>1. PICK f, b, i : /\ f.op = "add" /\ f.step = "deps" /\ f.instr = i
                       /\ AddDeps(i.task, i.deps) /\ notDispatched' = notDispatched \cup {i.task}
                       /\ \/ Turn(th, f, <<b>>)
                          \/ \E a \in Frame : Turn(th, f, <<a, b>>)
    BY <1>2, AddDepsTurn
  <2>2. PICK fs : Turn(th, f, fs)
    BY <2>1
  <2>3. /\ UNCHANGED <<fired, semi, raised, queued, outq, failed, scheduled, added>>
    BY <1>2, <2>1 DEF AddDepsAndPublish, AddDeps, poolVars, endVars, seenVars
  <2>4. /\ \A t \in Node : ~ Owns(f, t)
        /\ \A t : Holds(f, t) => t = i.task
        /\ f \notin Fatal
    BY <2>1 DEF Owns, Holds, Fatal
  <2>5. \A t \in Node : fired'[t] > 0 =>
          \/ t \in semi' \cup raised' \cup queued'
          \/ fired[t] > 0 /\ t \notin semi \cup raised \cup queued /\ ~ Owns(f, t)
    BY <2>3, <2>4
  <2>6. \A t \in Open' : t \in Open /\ ~ Holds(f, t)
    BY <2>1, <2>3, <2>4 DEF Open
  <2>7. \/ raised' = {} \/ failed'
        \/ \E j \in DOMAIN outq' : outq'[j] = "exc"
        \/ /\ raised # {} /\ ~ failed /\ \A j \in DOMAIN outq : outq[j] # "exc"
           /\ f \notin Fatal
    BY <2>3, <2>4
  <2> QED BY <2>2, <2>5, <2>6, <2>7, TurnKept
<1> QED BY <1>1, <1>2

LEMMA DispatchKept ==
  ASSUME QueueInv, QueueInv', Kept, ~ stopped, NEW th \in Thread,
         DispatchRemove(th) \/ DispatchSchedule(th)
  PROVE  Kept'
<1>1. CASE DispatchRemove(th)
  <2>1. PICK f, b, s : /\ f.op = "dispatch" /\ f.step = "remove" /\ Stepped(f, b, s)
                       /\ Turn(th, f, <<b>>) /\ (s = "schedule" <=> f.task \in notDispatched)
                       /\ notDispatched' = notDispatched \ {f.task}
    BY <1>1, RemoveTurn
  <2>2. PICK fs : fs = <<b>>
    OBVIOUS
  <2>3. Turn(th, f, fs) /\ 1 \in DOMAIN fs /\ fs[1] = b
    BY <2>1, <2>2
  <2>4. UNCHANGED <<fired, semi, raised, queued, outq, failed, scheduled, added>>
    BY <1>1 DEF DispatchRemove, topoVars, poolVars, endVars, seenVars
  <2>5. /\ \A t \in Node : ~ Owns(f, t)
        /\ \A t : ~ Holds(f, t)
        /\ f \notin Fatal
        /\ f.task \in notDispatched => Holds(b, f.task)
    BY <2>1 DEF Owns, Holds, Fatal, Stepped
  <2>6. \A t \in Node : fired'[t] > 0 =>
          \/ t \in semi' \cup raised' \cup queued'
          \/ fired[t] > 0 /\ t \notin semi \cup raised \cup queued /\ ~ Owns(f, t)
    BY <2>4, <2>5
  <2>7. \A t \in Open' : (\E j \in DOMAIN fs : Holds(fs[j], t)) \/ (t \in Open /\ ~ Holds(f, t))
    BY <2>1, <2>3, <2>4, <2>5 DEF Open
  <2>8. \/ raised' = {} \/ failed'
        \/ \E j \in DOMAIN outq' : outq'[j] = "exc"
        \/ /\ raised # {} /\ ~ failed /\ \A j \in DOMAIN outq : outq[j] # "exc"
           /\ f \notin Fatal
    BY <2>4, <2>5
  <2> QED BY <2>3, <2>6, <2>7, <2>8, TurnKept
<1>2. CASE DispatchSchedule(th)
  <2>1. PICK f, a, b : /\ f.op = "dispatch" /\ f.step = "schedule"
                       /\ a.op = "fire" /\ a.tasks = NewlyFired
                       /\ Turn(th, f, <<a, b>>) /\ ScheduleNode(f.task)
    BY <1>2, ScheduleTurn
  <2>2. PICK fs : fs = <<a, b>>
    OBVIOUS
  <2>3. Turn(th, f, fs) /\ 1 \in DOMAIN fs /\ fs[1] = a
    BY <2>1, <2>2
  <2>4. /\ UNCHANGED <<semi, raised, queued, outq, failed, added, notDispatched>>
        /\ scheduled' = scheduled \cup {f.task}
    BY <1>2, <2>1 DEF DispatchSchedule, ScheduleNode, queueVars, poolVars, endVars, seenVars
  <2>5. /\ \A t \in Node : ~ Owns(f, t)
        /\ \A t : Holds(f, t) => t = f.task
        /\ f \notin Fatal
        /\ \A t \in NewlyFired : Owns(a, t)
    BY <2>1 DEF Owns, Holds, Fatal
  <2>6. \A t \in Node : fired'[t] > 0 =>
          \/ t \in semi' \cup raised' \cup queued'
          \/ \E j \in DOMAIN fs : Owns(fs[j], t)
          \/ fired[t] > 0 /\ t \notin semi \cup raised \cup queued /\ ~ Owns(f, t)
    <3> SUFFICES ASSUME NEW t \in Node, fired'[t] > 0
                 PROVE  fired[t] > 0 \/ t \in NewlyFired
      BY <2>3, <2>4, <2>5
    <3> QED BY DEF NewlyFired, QueueInv, TopoInv, TopoTypeOK
  <2>7. \A t \in Open' : (\E j \in DOMAIN fs : Holds(fs[j], t)) \/ (t \in Open /\ ~ Holds(f, t))
    BY <2>4, <2>5 DEF Open
  <2>8. \/ raised' = {} \/ failed'
        \/ \E j \in DOMAIN outq' : outq'[j] = "exc"
        \/ /\ raised # {} /\ ~ failed /\ \A j \in DOMAIN outq : outq[j] # "exc"
           /\ f \notin Fatal
    BY <2>4, <2>5
  <2> QED BY <2>3, <2>6, <2>7, <2>8, TurnKept
<1> QED BY <1>1, <1>2

LEMMA RunKept ==
  ASSUME QueueInv, QueueInv', Kept, ~ stopped, NEW th \in Thread,
         Put(th) \/ Take(th) \/ FinishTask(th) \/ PutResult(th)
  PROVE  Kept'
<1>1. ASSUME NEW f, NEW fs, NEW t \in Node, Turn(th, f, fs), f \notin Fatal,
             UNCHANGED <<fired, semi, raised, outq, failed, scheduled, added, notDispatched>>,
             \A u \in Node : u # t => (u \in queued => u \in queued') /\ ~ Owns(f, u),
             t \in queued' \/ \E i \in DOMAIN fs : Owns(fs[i], t),
             \A u : ~ Holds(f, u)
      PROVE  Kept'
  <2>1. \A u \in Node : fired'[u] > 0 =>
          \/ u \in semi' \cup raised' \cup queued'
          \/ \E i \in DOMAIN fs : Owns(fs[i], u)
          \/ fired[u] > 0 /\ u \notin semi \cup raised \cup queued /\ ~ Owns(f, u)
    BY <1>1
  <2>2. \A u \in Open' : (\E j \in DOMAIN fs : Holds(fs[j], u)) \/ (u \in Open /\ ~ Holds(f, u))
    BY <1>1 DEF Open
  <2>3. \/ raised' = {} \/ failed'
        \/ \E j \in DOMAIN outq' : outq'[j] = "exc"
        \/ /\ raised # {} /\ ~ failed /\ \A j \in DOMAIN outq : outq[j] # "exc"
           /\ f \notin Fatal
    BY <1>1
  <2> QED BY <1>1, <2>1, <2>2, <2>3, TurnKept
<1>2. CASE Put(th)
  <2>1. PICK f : /\ f \in Frame /\ f.op = "put" /\ f.task \in Node
                 /\ \/ Turn(th, f, <<>>) /\ queued' = queued \cup {f.task}
                    \/ /\ queued' = queued
                       /\ \E b \in Frame : b.op = "run" /\ b.task = f.task /\ Turn(th, f, <<b>>)
    BY <1>2, PutTurn
  <2>2. /\ \A u \in Node : u # f.task => ~ Owns(f, u)
        /\ \A u : ~ Holds(f, u)
        /\ f \notin Fatal
    BY <2>1 DEF Owns, Holds, Fatal
  <2>3. UNCHANGED <<fired, semi, raised, outq, failed, scheduled, added, notDispatched>>
    BY <1>2 DEF Put, topoVars, queueVars, endVars
  <2>4. CASE Turn(th, f, <<>>) /\ queued' = queued \cup {f.task}
    BY <1>1, <2>1, <2>2, <2>3, <2>4
  <2>5. ASSUME queued' = queued, NEW b \in Frame, b.op = "run", b.task = f.task, Turn(th, f, <<b>>)
        PROVE  Kept'
    <3>1. PICK fs : fs = <<b>>
      OBVIOUS
    <3>2. Turn(th, f, fs) /\ \E i \in DOMAIN fs : Owns(fs[i], f.task)
      <4>1. 1 \in DOMAIN fs /\ fs[1] = b /\ Owns(b, f.task)
        BY <2>5, <3>1 DEF Owns
      <4> QED BY <2>5, <3>1, <4>1
    <3> QED BY <1>1, <2>1, <2>2, <2>3, <2>5, <3>2
  <2> QED BY <2>1, <2>4, <2>5
<1>3. CASE Take(th)
  <2>1. PICK f, t, b : /\ f.op = "take" /\ t \in queued /\ queued' = queued \ {t}
                       /\ b.op = "run" /\ b.task = t /\ Turn(th, f, <<b>>)
    BY <1>3, TakeTurn
  <2>2. /\ \A u \in Node : ~ Owns(f, u)
        /\ \A u : ~ Holds(f, u)
        /\ f \notin Fatal /\ t \in Node
    BY <2>1 DEF Owns, Holds, Fatal, QueueInv, Typed
  <2>3. UNCHANGED <<fired, semi, raised, outq, failed, scheduled, added, notDispatched>>
    BY <1>3 DEF Take, topoVars, queueVars, endVars
  <2>4. PICK fs : fs = <<b>>
    OBVIOUS
  <2>5. Turn(th, f, fs) /\ \E i \in DOMAIN fs : Owns(fs[i], t)
    <3>1. 1 \in DOMAIN fs /\ fs[1] = b /\ Owns(b, t)
      BY <2>1, <2>4 DEF Owns
    <3> QED BY <2>1, <2>4, <3>1
  <2> QED BY <1>1, <2>1, <2>2, <2>3, <2>5
<1>4. CASE FinishTask(th)
  <2>1. PICK f, a, b : /\ f.op = "run" /\ f.task \in Node /\ NotifyDependants(f.task)
                       /\ a.op = "fire" /\ a.tasks = NewlyFired /\ Turn(th, f, <<a, b>>)
    BY <1>4, FinishTurn
  <2>2. PICK fs : fs = <<a, b>>
    OBVIOUS
  <2>3. Turn(th, f, fs) /\ 1 \in DOMAIN fs /\ fs[1] = a
    BY <2>1, <2>2
  <2>4. /\ UNCHANGED <<raised, queued, outq, failed, added, scheduled, notDispatched>>
        /\ semi' = semi \cup {f.task}
    BY <1>4, <2>1 DEF FinishTask, NotifyDependants, queueVars, poolVars, endVars, seenVars
  <2>5. /\ \A t \in Node : Owns(f, t) => t = f.task
        /\ \A t : ~ Holds(f, t)
        /\ f \notin Fatal
        /\ \A t \in NewlyFired : Owns(a, t)
    BY <2>1 DEF Owns, Holds, Fatal
  <2>6. \A t \in Node : fired'[t] > 0 =>
          \/ t \in semi' \cup raised' \cup queued'
          \/ \E j \in DOMAIN fs : Owns(fs[j], t)
          \/ fired[t] > 0 /\ t \notin semi \cup raised \cup queued /\ ~ Owns(f, t)
    <3> SUFFICES ASSUME NEW t \in Node, fired'[t] > 0
                 PROVE  fired[t] > 0 \/ t \in NewlyFired
      BY <2>3, <2>4, <2>5
    <3> QED BY DEF NewlyFired, QueueInv, TopoInv, TopoTypeOK
  <2>7. \A t \in Open' : (\E j \in DOMAIN fs : Holds(fs[j], t)) \/ (t \in Open /\ ~ Holds(f, t))
    BY <2>4, <2>5 DEF Open
  <2>8. \/ raised' = {} \/ failed'
        \/ \E j \in DOMAIN outq' : outq'[j] = "exc"
        \/ /\ raised # {} /\ ~ failed /\ \A j \in DOMAIN outq : outq[j] # "exc"
           /\ f \notin Fatal
    BY <2>4, <2>5
  <2> QED BY <2>3, <2>6, <2>7, <2>8, TurnKept
<1>5. CASE PutResult(th)
  <2>1. PICK f : Turn(th, f, <<>>) /\ f.op = "done" /\ outq' = Append(outq, f.how)
    BY <1>5, PopTurn
  <2>2. f \in Frame /\ f.how \in {"ok", "exc"} /\ outq \in Seq({"ok", "exc"})
    BY <2>1, TurnTyped, FieldsTyped DEF QueueInv, Typed
  <2>3. UNCHANGED <<fired, semi, raised, queued, failed, added, scheduled, notDispatched>>
    BY <1>5 DEF PutResult, topoVars, queueVars, endVars, seenVars
  <2>4. /\ \A t \in Node : ~ Owns(f, t)
        /\ \A t : ~ Holds(f, t)
        /\ f \in Fatal => f.how = "exc"
    BY <2>1 DEF Owns, Holds, Fatal
  <2>5. \A t \in Node : fired'[t] > 0 =>
          \/ t \in semi' \cup raised' \cup queued'
          \/ fired[t] > 0 /\ t \notin semi \cup raised \cup queued /\ ~ Owns(f, t)
    BY <2>3, <2>4
  <2>6. \A t \in Open' : t \in Open /\ ~ Holds(f, t)
    BY <2>3, <2>4 DEF Open
  <2>7. /\ \A j \in DOMAIN outq : j \in DOMAIN outq' /\ outq'[j] = outq[j]
        /\ Len(outq) + 1 \in DOMAIN outq' /\ outq'[Len(outq) + 1] = f.how
    BY <2>1, <2>2
  <2>8. \/ raised' = {} \/ failed'
        \/ \E j \in DOMAIN outq' : outq'[j] = "exc"
        \/ /\ raised # {} /\ ~ failed /\ \A j \in DOMAIN outq : outq[j] # "exc"
           /\ f \notin Fatal
    BY <2>3, <2>4, <2>7
  <2> QED BY <2>1, <2>5, <2>6, <2>8, TurnKept
<1> QED BY <1>2, <1>3, <1>4, <1>5

LEMMA RaiseKept ==
  ASSUME QueueInv, Kept, ~ stopped, NEW th \in Thread, RaiseTask(th)
  PROVE  Kept'
<1>1. /\ stack[th] # <<>> /\ Top(th).op = "run" /\ Throw(th)
      /\ UNCHANGED <<fired, semi, queued, outq, added, scheduled, notDispatched>>
  BY DEF RaiseTask, In, poolVars, topoVars
<1>2. PICK c, g, fs : Thrown(th, c, g, fs)
  BY <1>1, ThrowTurn
<1>3. /\ stack[th][1] = Top(th) /\ Top(th) \in Frame /\ stack[th] \in Seq(Frame)
      /\ 1 \in DOMAIN stack[th]
  BY <1>1, TopFrame DEF QueueInv, Stacks
<1>4. c = 1 /\ g = Top(th) /\ g.op = "run"
  <2>1. ~ (1 \in 1 .. c - 1)
    BY <1>1, <1>2, <1>3 DEF Thrown, Catch
  <2>2. c \in 1 .. Len(stack[th]) /\ g = stack[th][c]
    BY <1>2 DEF Thrown
  <2>3. c = 1
    BY <1>3, <2>1, <2>2
  <2> QED BY <1>1, <1>3, <2>2, <2>3
<1>5. PICK b \in Frame : b.op = "done" /\ b.how = "exc" /\ fs = <<b>>
  BY <1>2, <1>4 DEF Thrown
<1>6. 1 \in DOMAIN fs /\ fs[1] \in Fatal
  BY <1>5 DEF Fatal
<1>7. Moves(th, c, fs) /\ raised' = raised \cup {g.task}
  BY <1>2, <1>4 DEF Thrown
<1>8. \A j \in 1 .. c : stack[th][j] = g
  BY <1>3, <1>4
<1>9. /\ \A t \in Node : Owns(g, t) => t = g.task
      /\ \A t : ~ Holds(g, t)
  BY <1>4 DEF Owns, Holds
<1>10. \A t \in Node : fired'[t] > 0 =>
         \/ t \in semi' \cup raised' \cup queued'
         \/ /\ fired[t] > 0 /\ t \notin semi \cup raised \cup queued
            /\ \A j \in 1 .. c : ~ Owns(stack[th][j], t)
  BY <1>1, <1>7, <1>8, <1>9
<1>11. \A t \in Open' : t \in Open /\ \A j \in 1 .. c : ~ Holds(stack[th][j], t)
  BY <1>1, <1>8, <1>9 DEF Open
<1> QED BY <1>6, <1>7, <1>10, <1>11, MoveKept

LEMMA GetKept ==
  ASSUME QueueInv, Kept, ~ stopped, Main \in Thread, NextGet
  PROVE  Kept'
<1>1. PICK f, b, s : /\ s = (IF outq = <<>> THEN "look" ELSE Head(outq))
                     /\ f.op = "process" /\ f.step = "get"
                     /\ Stepped(f, b, s) /\ Turn(Main, f, <<b>>)
  BY MainTurn
<1>2. PICK fs : fs = <<b>>
  OBVIOUS
<1>3. Turn(Main, f, fs) /\ 1 \in DOMAIN fs /\ fs[1] = b
  BY <1>1, <1>2
<1>4. /\ UNCHANGED <<fired, semi, raised, queued, failed, added, scheduled, notDispatched>>
      /\ outq' = IF outq = <<>> THEN outq ELSE Tail(outq)
  BY DEF NextGet, topoVars, queueVars, endVars, seenVars
<1>5. /\ \A t \in Node : ~ Owns(f, t)
      /\ \A t : ~ Holds(f, t)
      /\ f \notin Fatal
  BY <1>1 DEF Owns, Holds, Fatal
<1>6. \A t \in Node : fired'[t] > 0 =>
        \/ t \in semi' \cup raised' \cup queued'
        \/ fired[t] > 0 /\ t \notin semi \cup raised \cup queued /\ ~ Owns(f, t)
  BY <1>4, <1>5
<1>7. \A t \in Open' : t \in Open /\ ~ Holds(f, t)
  BY <1>4, <1>5 DEF Open
<1>8. ASSUME NEW i \in DOMAIN outq, outq[i] = "exc"
      PROVE  fs[1] \in Fatal \/ \E j \in DOMAIN outq' : outq'[j] = "exc"
  <2>1. outq \in Seq({"ok", "exc"}) /\ outq # <<>> /\ outq' = Tail(outq)
    BY <1>4, <1>8 DEF QueueInv, Typed
  <2>2. CASE i = 1
    <3>1. s = "exc"
      BY <1>1, <1>8, <2>1, <2>2
    <3> QED BY <1>1, <1>3, <3>1 DEF Stepped, Fatal
  <2>3. CASE i # 1
    <3>1. i - 1 \in DOMAIN outq' /\ outq'[i - 1] = outq[i]
      BY <1>8, <2>1, <2>3
    <3> QED BY <1>8, <3>1
  <2> QED BY <2>2, <2>3
<1>9. \/ raised' = {} \/ failed'
      \/ \E i \in DOMAIN fs : fs[i] \in Fatal
      \/ \E j \in DOMAIN outq' : outq'[j] = "exc"
      \/ /\ raised # {} /\ ~ failed /\ \A j \in DOMAIN outq : outq[j] # "exc"
         /\ f \notin Fatal
  BY <1>3, <1>4, <1>5, <1>8
<1> QED BY <1>3, <1>6, <1>7, <1>9, TurnKept

LEMMA ResultKept ==
  ASSUME QueueInv, Nested, Kept, ~ stopped, Main \in Thread, NextResult,
         At(Main, "process", "exc")
  PROVE  Kept'
<1>1. /\ stack[Main] # <<>> /\ Top(Main).op = "process" /\ Throw(Main)
      /\ UNCHANGED <<fired, semi, queued, outq, added, scheduled, notDispatched>>
  BY DEF NextResult, At, In, topoVars
<1>2. PICK c, g, fs : Thrown(Main, c, g, fs)
  BY <1>1, ThrowTurn
<1>3. /\ stack[Main][1] = Top(Main) /\ Top(Main) \in Frame /\ stack[Main] \in Seq(Frame)
  BY <1>1, TopFrame DEF QueueInv, Stacks
<1>4. c \in 1 .. Len(stack[Main]) /\ g = stack[Main][c] /\ g.op \in Catch
  BY <1>2 DEF Thrown
<1>5. c # 1
  BY <1>1, <1>3, <1>4 DEF Catch
<1>6. 1 \in 1 .. Len(stack[Main]) - 1 /\ 1 + 1 = 2
  BY <1>3, <1>4, <1>5
<1>7. stack[Main][2].op = "main"
  BY <1>1, <1>3, <1>6 DEF Nested, CalledFrom
<1>8. c = 2 /\ g.op = "main"
  <2>1. ~ (2 \in 1 .. c - 1)
    BY <1>2, <1>7 DEF Thrown, Catch
  <2>2. c = 2
    BY <1>3, <1>4, <1>5, <2>1
  <2> QED BY <1>4, <1>7, <2>2
<1>9. Moves(Main, c, fs) /\ failed' /\ raised' = raised
  BY <1>2, <1>8 DEF Thrown
<1>10. \A j \in 1 .. c : stack[Main][j].op \in {"process", "main"}
  BY <1>1, <1>3, <1>7, <1>8
<1>11. \A j \in 1 .. c : \A t : ~ Owns(stack[Main][j], t) /\ ~ Holds(stack[Main][j], t)
  BY <1>10 DEF Owns, Holds
<1>12. \A t \in Node : fired'[t] > 0 =>
         \/ t \in semi' \cup raised' \cup queued'
         \/ /\ fired[t] > 0 /\ t \notin semi \cup raised \cup queued
            /\ \A j \in 1 .. c : ~ Owns(stack[Main][j], t)
  BY <1>1, <1>9, <1>11
<1>13. \A t \in Open' : t \in Open /\ \A j \in 1 .. c : ~ Holds(stack[Main][j], t)
  BY <1>1, <1>11 DEF Open
<1> QED BY <1>9, <1>12, <1>13, MoveKept

LEMMA CheckKept ==
  ASSUME QueueInv, Nested, Kept, ~ stopped, NEW w \in Worker, w \in Thread, CheckState(w)
  PROVE  Kept'
<1>1. stack[w] = <<>> /\ Steady
  BY DEF CheckState, Steady, topoVars, queueVars, poolVars, endVars, seenVars
<1>2. PICK fs : Moves(w, Len(stack[w]), fs)
  BY <1>1, IdleTurn
<1>3. PICK c : c = 0
  OBVIOUS
<1>4. Moves(w, c, fs) /\ \A j \in 1 .. c : FALSE
  BY <1>1, <1>2, <1>3
<1>5. \A t \in Node : fired'[t] > 0 =>
        \/ t \in semi' \cup raised' \cup queued'
        \/ /\ fired[t] > 0 /\ t \notin semi \cup raised \cup queued
           /\ \A j \in 1 .. c : ~ Owns(stack[w][j], t)
  BY <1>1, <1>4 DEF Steady
<1>6. \A t \in Open' : t \in Open /\ \A j \in 1 .. c : ~ Holds(stack[w][j], t)
  BY <1>1, <1>4 DEF Steady, Open
<1>7. \/ raised' = {} \/ failed'
      \/ \E i \in DOMAIN outq' : outq'[i] = "exc"
      \/ /\ raised # {} /\ ~ failed /\ \A i \in DOMAIN outq : outq[i] # "exc"
         /\ \A j \in 1 .. c : stack[w][j] \notin Fatal
  BY <1>1, <1>4 DEF Steady
<1> QED BY <1>4, <1>5, <1>6, <1>7, MoveKept

LEMMA StepKept ==
  ASSUME QueueInv, QueueInv', Kept, NEW th \in Thread, Step(th)
  PROVE  Kept'
<1>1. stopped' = stopped
  BY DEF Step, CacheHit, SignalReady, AddTask, AddMerge, AddDepsAndPublish, AddLeave, DispatchEnter,
         DispatchRemove, DispatchSchedule, DispatchExit, DispatchAll, Fire, Put, FireEnd, FireStopped,
         FinishTask, RaiseTask, PutResult, endVars
<1>2. CASE stopped
  BY <1>1, <1>2 DEF Kept
<1>3. CASE ~ stopped
  BY <1>3, SteadyStep, AddTaskKept, DispatchKept, RunKept, RaiseKept DEF Step, FireStopped
<1> QED BY <1>2, <1>3

-----------------------------------------------------------------------------
(* Main between the looks of next() and at its end, and who has ended.     *)
LEMMA MainAtBottom ==
  ASSUME QueueInv, Nested, NEW th \in Thread, NEW k \in DOMAIN stack[th],
         stack[th][k].op \in {"main", "end"}
  PROVE  k = Len(stack[th]) /\ (stack[th][k].op = "main" => th = Main)
<1>1. stack[th] \in Seq(Frame) /\ k \in 1 .. Len(stack[th])
  BY DEF QueueInv, Stacks
<1>2. k = Len(stack[th])
  <2> SUFFICES ASSUME k # Len(stack[th]) PROVE FALSE
    OBVIOUS
  <2>1. k \in 1 .. Len(stack[th]) - 1
    BY <1>1
  <2> QED BY <2>1 DEF Nested, CalledFrom
<1>3. stack[th] # <<>>
  BY <1>1
<1> QED BY <1>2, <1>3 DEF Nested, Bottom

LEMMA ProcessOnMain ==
  ASSUME QueueInv, Nested, NEW th \in Thread, NEW k \in DOMAIN stack[th],
         stack[th][k].op = "process"
  PROVE  th = Main /\ k = 1 /\ Len(stack[Main]) = 2 /\ stack[Main][2].op = "main"
<1>1. stack[th] \in Seq(Frame) /\ k \in 1 .. Len(stack[th])
  BY DEF QueueInv, Stacks
<1>2. stack[th] # <<>>
  BY <1>1
<1>3. k # Len(stack[th])
  BY <1>2 DEF Nested, Bottom
<1>4. k \in 1 .. Len(stack[th]) - 1
  BY <1>1, <1>3
<1>5. stack[th][k + 1].op = "main"
  BY <1>4 DEF Nested, CalledFrom
<1>6. k + 1 \in DOMAIN stack[th]
  BY <1>1, <1>4
<1>7. k + 1 = Len(stack[th]) /\ th = Main
  BY <1>5, <1>6, MainAtBottom
<1>8. k = 1
  <2> SUFFICES ASSUME k # 1 PROVE FALSE
    OBVIOUS
  <2>1. PICK j : j = k - 1
    OBVIOUS
  <2>2. j \in 1 .. Len(stack[th]) - 1 /\ j + 1 = k
    BY <1>1, <1>4, <2>1
  <2>3. CalledFrom(stack[th][j], stack[th][k])
    BY <2>2 DEF Nested
  <2> QED BY <2>3 DEF CalledFrom
<1> QED BY <1>5, <1>7, <1>8

LEMMA MovePhases ==
  ASSUME QueueInv, Phases, NEW th \in Thread, NEW c, NEW fs, Moves(th, c, fs),
         \A i \in DOMAIN fs : PhaseOf(th, fs[i])',
         \A a \in Thread : \A g \in Frame :
           PhaseOf(a, g) /\ (\E k \in DOMAIN stack[a] : g = stack[a][k] /\ (a = th => k > c))
             => PhaseOf(a, g)'
  PROVE  Phases'
<1> SUFFICES ASSUME NEW a \in Thread, NEW k \in DOMAIN stack'[a]
             PROVE  PhaseOf(a, stack[a][k])'
  BY DEF Phases
<1>1. PICK g : g = stack'[a][k]
  OBVIOUS
<1>2. Stacks
  BY DEF QueueInv
<1>3. \/ a = th /\ k \in DOMAIN fs /\ stack'[a][k] = fs[k]
      \/ \E m \in DOMAIN stack[a] : stack'[a][k] = stack[a][m] /\ (a = th => m > c)
  BY <1>2, MoveFrames
<1>4. PhaseOf(a, g)'
  <2>1. CASE a = th /\ k \in DOMAIN fs /\ stack'[a][k] = fs[k]
    BY <1>1, <2>1 DEF PhaseOf
  <2>2. ASSUME NEW m \in DOMAIN stack[a], stack'[a][k] = stack[a][m], a = th => m > c
        PROVE  PhaseOf(a, g)'
    <3>1. g \in Frame /\ g = stack[a][m]
      BY <1>1, <1>2, <2>2 DEF Stacks
    <3>2. PhaseOf(a, g)
      BY <3>1 DEF Phases
    <3> QED BY <2>2, <3>1, <3>2
  <2> QED BY <1>3, <2>1, <2>2
<1> QED BY <1>1, <1>4 DEF PhaseOf

LEMMA PhaseSame ==
  ASSUME NEW a, NEW g, PhaseOf(a, g), stopped => stopped',
         g.op = "main" => (failed' => failed),
         g.op = "process" => /\ condLock' = condLock /\ active' = active
                             /\ stopped' \/ notDispatched' \subseteq notDispatched
  PROVE  PhaseOf(a, g)'
BY DEF PhaseOf

(* A frame that no phase speaks about.                                     *)
LEMMA PhaseFree ==
  ASSUME NEW a, NEW g, \/ g.op \notin {"main", "process", "add", "end"}
                       \/ g.op = "process" /\ g.step \notin {"pending", "counter"}
                       \/ g.op = "add" /\ g.step # "merge"
                       \/ g.op = "end" /\ (a # Main \/ g.step = "stop")
  PROVE  PhaseOf(a, g)'
BY DEF PhaseOf

LEMMA TurnPhases ==
  ASSUME QueueInv, Phases, NEW th \in Thread, NEW f, stopped => stopped',
         \A a \in Thread : \A g \in Frame :
           PhaseOf(a, g) /\ (\E k \in DOMAIN stack[a] : g = stack[a][k] /\ (a = th => k > 1))
             => PhaseOf(a, g)',
         \/ Turn(th, f, <<>>)
         \/ \E b : Turn(th, f, <<b>>) /\ PhaseOf(th, b)'
         \/ \E a, b : Turn(th, f, <<a, b>>) /\ PhaseOf(th, a)' /\ PhaseOf(th, b)'
  PROVE  Phases'
<1>1. ASSUME NEW fs, Turn(th, f, fs), \A i \in DOMAIN fs : PhaseOf(th, fs[i])'
      PROVE  Phases'
  <2>1. Moves(th, 1, fs)
    BY <1>1 DEF Turn
  <2> QED BY <1>1, <2>1, MovePhases
<1>2. CASE Turn(th, f, <<>>)
  <2>1. PICK fs : fs = <<>>
    OBVIOUS
  <2>2. Turn(th, f, fs) /\ \A i \in DOMAIN fs : FALSE
    BY <1>2, <2>1
  <2> QED BY <1>1, <2>2
<1>3. ASSUME NEW b, Turn(th, f, <<b>>), PhaseOf(th, b)'
      PROVE  Phases'
  <2>1. PICK fs : fs = <<b>>
    OBVIOUS
  <2>2. Turn(th, f, fs) /\ \A i \in DOMAIN fs : fs[i] = b
    BY <1>3, <2>1
  <2>3. \A i \in DOMAIN fs : PhaseOf(th, fs[i])'
    BY <1>3, <2>2 DEF PhaseOf
  <2> QED BY <1>1, <2>2, <2>3
<1>4. ASSUME NEW a, NEW b, Turn(th, f, <<a, b>>), PhaseOf(th, a)', PhaseOf(th, b)'
      PROVE  Phases'
  <2>1. PICK fs : fs = <<a, b>>
    OBVIOUS
  <2>2. Turn(th, f, fs) /\ \A i \in DOMAIN fs : fs[i] \in {a, b}
    BY <1>4, <2>1
  <2>3. \A i \in DOMAIN fs : PhaseOf(th, fs[i])'
    BY <1>4, <2>2 DEF PhaseOf
  <2> QED BY <1>1, <2>2, <2>3
<1> QED BY <1>2, <1>3, <1>4

LEMMA SettledTurn ==
  ASSUME QueueInv, Phases, NEW th \in Thread, NEW f,
         stopped => stopped', UNCHANGED <<failed, condLock, active>>,
         notDispatched' \subseteq notDispatched,
         \/ Turn(th, f, <<>>)
         \/ \E b : Turn(th, f, <<b>>) /\ PhaseOf(th, b)'
         \/ \E a, b : Turn(th, f, <<a, b>>) /\ PhaseOf(th, a)' /\ PhaseOf(th, b)'
  PROVE  Phases'
<1>1. \A a \in Thread : \A g \in Frame : PhaseOf(a, g) => PhaseOf(a, g)'
  BY PhaseSame
<1> QED BY <1>1, TurnPhases

LEMMA AdvancedPhase ==
  ASSUME QueueInv, Phases, NEW th \in Thread, NEW f, NEW b, NEW fs, Advanced(f, b),
         Turn(th, f, fs), failed' = failed
  PROVE  PhaseOf(th, b)'
<1>1. f = stack[th][1] /\ 1 \in DOMAIN stack[th]
  BY TurnFrames DEF QueueInv
<1>2. PhaseOf(th, f)
  BY <1>1 DEF Phases
<1> QED BY <1>2 DEF Advanced, PhaseOf

LEMMA UncountedActive ==
  ASSUME QueueInv, Counted, ~ stopped, active \in Int, NEW th \in Thread,
         NEW k \in DOMAIN stack[th], stack[th][k] \in Uncounted
  PROVE  active > 0
<1>1. stack[th] \in Seq(Frame)
  BY DEF QueueInv, Stacks
<1>2. PICK n : n = Len(stack[th]) + 1 - k
  OBVIOUS
<1>3. n \in 1 .. Len(stack[th]) /\ Len(stack[th]) + 1 - n = k
  BY <1>1, <1>2
<1>4. <<th, n>> \in Spots(Uncounted)
  BY <1>1, <1>3 DEF Spots
<1>5. Cardinality(Spots(Uncounted)) \in Nat /\ Cardinality(Spots(Uncounted)) # 0
  BY <1>4, FS_CardinalityType, FS_EmptySet DEF Counted
<1>6. Cardinality(queued) \in Nat /\ Len(outq) \in Nat
  BY FS_CardinalityType DEF Counted, QueueInv, Typed
<1> QED BY <1>5, <1>6 DEF Counted

(* Whoever adds a task besides main is counted as active.                  *)
LEMMA AdderActive ==
  ASSUME QueueInv, Nested, Counted, ~ stopped, active \in Int, NEW th \in Thread, th # Main,
         NEW k \in DOMAIN stack[th], stack[th][k].op = "add"
  PROVE  active > 0
<1>1. stack[th] \in Seq(Frame) /\ k \in 1 .. Len(stack[th]) /\ stack[th] # <<>>
  BY DEF QueueInv, Stacks
<1>2. k # Len(stack[th])
  BY <1>1 DEF Nested, Bottom
<1>3. k \in 1 .. Len(stack[th]) - 1 /\ k + 1 \in DOMAIN stack[th]
  BY <1>1, <1>2
<1>4. stack[th][k + 1].op \in {"main", "run"} /\ stack[th][k + 1] \in Frame
  BY <1>1, <1>3 DEF Nested, CalledFrom
<1>5. stack[th][k + 1].op = "run"
  BY <1>3, <1>4, MainAtBottom
<1>6. stack[th][k + 1] \in Uncounted
  BY <1>4, <1>5 DEF Uncounted
<1> QED BY <1>3, <1>6, UncountedActive

LEMMA ThrowPhases ==
  ASSUME QueueInv, Nested, Phases, Main # Dist, NEW th \in Thread, stack[th] # <<>>,
         Top(th).op # "take", Throw(th), UNCHANGED <<condLock, stopped, notDispatched>>,
         \/ active' = active
         \/ th = Main /\ Top(Main).op = "process"
  PROVE  Phases'
<1>1. PICK c, g, fs : Thrown(th, c, g, fs)
  BY ThrowTurn
<1>2. /\ c \in 1 .. Len(stack[th]) /\ g = stack[th][c] /\ Moves(th, c, fs)
      /\ failed' = (failed \/ g.op = "main")
      /\ stack[th] \in Seq(Frame) /\ DOMAIN stack[th] = 1 .. Len(stack[th])
      /\ Top(th) = stack[th][1]
  BY <1>1, TopFrame DEF Thrown, QueueInv, Stacks
<1>3. \A i \in DOMAIN fs : PhaseOf(th, fs[i])'
  <2>1. CASE \E b \in Frame : g.op = "main" /\ b.op = "end" /\ b.step = "stop" /\ fs = <<b>>
    BY <2>1 DEF PhaseOf
  <2>2. CASE \E a, b \in Frame : g.op = "dist" /\ a.op = "sweep" /\ b.op = "end" /\ fs = <<a, b>>
    <3>1. PICK a, b \in Frame : g.op = "dist" /\ a.op = "sweep" /\ b.op = "end" /\ fs = <<a, b>>
      BY <2>2
    <3>2. th # Main
      <4>1. c = Len(stack[th])
        <5> SUFFICES ASSUME c # Len(stack[th]) PROVE FALSE
          OBVIOUS
        <5>1. c \in 1 .. Len(stack[th]) - 1
          BY <1>2
        <5> QED BY <1>2, <3>1, <5>1 DEF Nested, CalledFrom
      <4> QED BY <1>2, <3>1, <4>1 DEF Nested, Bottom
    <3>3. PhaseOf(th, a)' /\ PhaseOf(th, b)'
      BY <3>1, <3>2 DEF PhaseOf
    <3>4. \A i \in DOMAIN fs : fs[i] \in {a, b}
      BY <3>1
    <3> QED BY <3>3, <3>4 DEF PhaseOf
  <2>3. CASE g.op = "end" /\ fs = <<g>>
    <3>1. PhaseOf(th, g)
      BY <1>2 DEF Phases
    <3>2. PhaseOf(th, g)'
      BY <2>3, <3>1, PhaseSame
    <3>3. \A i \in DOMAIN fs : fs[i] = g
      BY <2>3
    <3> QED BY <3>2, <3>3 DEF PhaseOf
  <2>4. CASE \E b \in Frame : b.op = "done" /\ fs = <<b>>
    BY <2>4 DEF PhaseOf
  <2> QED BY <1>1, <2>1, <2>2, <2>3, <2>4 DEF Thrown
<1>4. ASSUME NEW a \in Thread, NEW h \in Frame, PhaseOf(a, h), NEW k \in DOMAIN stack[a],
             h = stack[a][k], a = th => k > c
      PROVE  PhaseOf(a, h)'
  <2>1. ASSUME h.op = "main" PROVE failed' => failed
    <3>1. a = Main /\ k = Len(stack[a])
      BY <1>4, <2>1, MainAtBottom
    <3>2. g.op = "main" => th = Main /\ c = Len(stack[th])
      BY <1>2, MainAtBottom
    <3>3. k \in DOMAIN stack[a] /\ stack[a] \in Seq(Frame)
      BY <1>4 DEF QueueInv, Stacks
    <3>4. g.op # "main"
      BY <1>2, <1>4, <3>1, <3>2, <3>3
    <3> QED BY <1>2, <3>4
  <2>2. ASSUME h.op = "process" PROVE active' = active
    <3>1. a = Main /\ k = 1
      BY <1>4, <2>2, ProcessOnMain
    <3>2. c > 0
      BY <1>2
    <3>3. th # Main
      BY <1>2, <1>4, <3>1, <3>2
    <3> QED BY <3>3
  <2> QED BY <1>4, <2>1, <2>2, PhaseSame
<1> QED BY <1>2, <1>3, <1>4, MovePhases

LEMMA StepPhases ==
  ASSUME QueueInv, Nested, Counted, Plain, Phases, NEW th \in Thread, Main \in Thread, Step(th)
  PROVE  Phases'
<1> DEFINE Settled == /\ UNCHANGED <<failed, condLock, active, stopped>>
                      /\ notDispatched' \subseteq notDispatched
<1>0. active \in Int /\ Main # Dist /\ None \notin Thread
  BY ProgramAssumption DEF Plain
<1>1. CASE CacheHit(th) \/ SignalReady(th)
  <2>1. PICK f, b : Advanced(f, b) /\ Turn(th, f, <<b>>)
    BY <1>1, HitTurn
  <2>2. Settled
    BY <1>1 DEF CacheHit, SignalReady, lockVars, poolVars, endVars, queueVars
  <2>3. PICK fs : fs = <<b>>
    OBVIOUS
  <2>4. PhaseOf(th, b)'
    BY <2>1, <2>2, <2>3, AdvancedPhase
  <2> QED BY <2>1, <2>2, <2>4, SettledTurn
<1>2. CASE AddTask(th)
  <2>1. PICK f, a, b, i :
           /\ Advanced(f, b) /\ Turn(th, f, <<a, b>>) /\ f.at \in DOMAIN CodeOf(f)
           /\ i = CodeOf(f)[f.at] /\ i.op = "add" /\ i \in AddInstr
           /\ a \in Frame /\ a.op = "add" /\ a.instr = i /\ a.step \in {"merge", "deps"}
           /\ a.step = "merge" => i.joint # None
           /\ AddNode(i.task)
    BY <1>2, AddTaskTurn
  <2>2. Settled
    BY <1>2 DEF AddTask, poolVars, endVars, queueVars
  <2>3. PICK fs : fs = <<a, b>>
    OBVIOUS
  <2>4. PhaseOf(th, b)'
    BY <2>1, <2>2, <2>3, AdvancedPhase
  <2>5. PhaseOf(th, a)'
    BY <2>1 DEF PhaseOf
  <2> QED BY <2>1, <2>2, <2>4, <2>5, SettledTurn
<1>3. CASE AddMerge(th)
  <2>1. PICK f, b : /\ f.op = "add" /\ Stepped(f, b, "deps") /\ Turn(th, f, <<b>>)
    BY <1>3, AddMergeTurn
  <2>2. Settled
    BY <1>3 DEF AddMerge, lockVars, poolVars, endVars, queueVars
  <2>3. PhaseOf(th, b)'
    BY <2>1, PhaseFree DEF Stepped
  <2> QED BY <2>1, <2>2, <2>3, SettledTurn
<1>4. CASE AddDepsAndPublish(th)
  <2>1. PICK f, b : /\ f.op = "add" /\ Stepped(f, b, "leave")
                    /\ \/ Turn(th, f, <<b>>)
                       \/ \E a \in Frame : a.op = "dispatch" /\ Turn(th, f, <<a, b>>)
    BY <1>4, AddDepsTurn
  <2>2. UNCHANGED <<failed, condLock, active, stopped>>
    BY <1>4 DEF AddDepsAndPublish, poolVars, endVars
  <2>3. PhaseOf(th, b)'
    BY <2>1, PhaseFree DEF Stepped
  <2>4. \A a \in Frame : a.op = "dispatch" => PhaseOf(th, a)'
    BY PhaseFree
  <2>5. f = stack[th][1] /\ 1 \in DOMAIN stack[th]
    BY <2>1, TurnFrames DEF QueueInv
  <2>6. ASSUME NEW a \in Thread, NEW g \in Frame, PhaseOf(a, g), NEW k \in DOMAIN stack[a],
               g = stack[a][k]
        PROVE  PhaseOf(a, g)'
    <3>1. ASSUME g.op = "process", g.step = "counter", ~ stopped PROVE FALSE
      <4>1. a = Main /\ k = 1 /\ active = 0
        BY <2>6, <3>1, ProcessOnMain DEF PhaseOf
      <4>2. th # Main
        BY <2>1, <2>5, <2>6, <3>1, <4>1
      <4>3. active > 0
        BY <1>0, <2>1, <2>5, <3>1, <4>2, AdderActive
      <4> QED BY <4>1, <4>3
    <3> QED BY <2>2, <2>6, <3>1 DEF PhaseOf
  <2> QED BY <2>1, <2>2, <2>3, <2>4, <2>6, TurnPhases
<1>5. CASE AddLeave(th) \/ DispatchExit(th) \/ FireEnd(th) \/ PutResult(th)
  <2>1. PICK f : Turn(th, f, <<>>)
    BY <1>5, PopTurn
  <2>2. Settled
    BY <1>5 DEF AddLeave, DispatchExit, FireEnd, PutResult, lockVars, poolVars, endVars, queueVars
  <2> QED BY <2>1, <2>2, SettledTurn
<1>6. CASE DispatchEnter(th) \/ DispatchRemove(th)
  <2>1. PICK f, b, s : f.op = "dispatch" /\ Stepped(f, b, s) /\ Turn(th, f, <<b>>)
    <3>1. CASE DispatchEnter(th)
      BY <3>1, EnterTurn
    <3>2. CASE DispatchRemove(th)
      BY <3>2, RemoveTurn
    <3> QED BY <1>6, <3>1, <3>2
  <2>2. Settled
    BY <1>6 DEF DispatchEnter, DispatchRemove, lockVars, poolVars, endVars
  <2>3. PhaseOf(th, b)'
    BY <2>1, PhaseFree DEF Stepped
  <2> QED BY <2>1, <2>2, <2>3, SettledTurn
<1>7. CASE DispatchSchedule(th)
  <2>1. PICK f, a, b : /\ f.op = "dispatch" /\ Stepped(f, b, "exit") /\ a.op = "fire"
                       /\ Turn(th, f, <<a, b>>)
    BY <1>7, ScheduleTurn
  <2>2. Settled
    BY <1>7 DEF DispatchSchedule, lockVars, poolVars, endVars, queueVars
  <2>3. PhaseOf(th, a)' /\ PhaseOf(th, b)'
    BY <2>1, PhaseFree DEF Stepped
  <2> QED BY <2>1, <2>2, <2>3, SettledTurn
<1>8. CASE DispatchAll(th)
  <2>1. Settled
    BY <1>8 DEF DispatchAll, lockVars, poolVars, endVars, queueVars
  <2>2. ASSUME NEW f, NEW a, NEW b, Advanced(f, b), Turn(th, f, <<a, b>>), a.op = "sweep"
        PROVE  Phases'
    <3>1. PICK fs : fs = <<a, b>>
      OBVIOUS
    <3>2. PhaseOf(th, b)' /\ PhaseOf(th, a)'
      BY <2>1, <2>2, <3>1, AdvancedPhase, PhaseFree
    <3> QED BY <2>1, <2>2, <3>2, SettledTurn
  <2>3. ASSUME In(th, "sweep"), Return(th)
        PROVE  Phases'
    <3>1. PICK f : Turn(th, f, <<>>)
      BY <2>3, PopTurn
    <3> QED BY <2>1, <3>1, SettledTurn
  <2>4. ASSUME NEW f, NEW a, NEW b, b.op = "sweep", a.op = "dispatch", Turn(th, f, <<a, b>>)
        PROVE  Phases'
    <3>1. PhaseOf(th, b)' /\ PhaseOf(th, a)'
      BY <2>4, PhaseFree
    <3> QED BY <2>1, <2>4, <3>1, SettledTurn
  <2> QED BY <1>8, <2>2, <2>3, <2>4, SweepTurn
<1>9. ASSUME NEW t \in Node, Fire(th, t)
      PROVE  Phases'
  <2>1. PICK f, a, b : /\ f.op = "fire" /\ t \in f.tasks /\ b.op = "fire" /\ b.tasks = f.tasks \ {t}
                       /\ a \in Frame /\ b \in Frame /\ a.op = "put" /\ a.task = t
                       /\ a.inplace = f.inplace /\ b.inplace = f.inplace
                       /\ Turn(th, f, <<a, b>>)
    BY <1>9, FireTurn
  <2>2. Settled
    BY <1>9 DEF Fire, lockVars, poolVars, endVars, queueVars
  <2>3. PhaseOf(th, b)' /\ PhaseOf(th, a)'
    BY <2>1, PhaseFree
  <2> QED BY <2>1, <2>2, <2>3, SettledTurn
<1>10. CASE Put(th)
  <2>1. PICK f : \/ Turn(th, f, <<>>)
                 \/ \E b \in Frame : b.op = "run" /\ Turn(th, f, <<b>>)
    BY <1>10, PutTurn
  <2>2. /\ UNCHANGED <<failed, condLock, stopped, notDispatched>> /\ condLock = None
    BY <1>10 DEF Put, lockVars, queueVars, endVars
  <2>3. \A b \in Frame : b.op = "run" => PhaseOf(th, b)'
    BY PhaseFree
  <2>4. ASSUME NEW a \in Thread, NEW g \in Frame, PhaseOf(a, g)
        PROVE  PhaseOf(a, g)'
    <3>1. ~ (g.op = "process" /\ g.step \in {"pending", "counter"})
      BY <1>0, <2>2, <2>4 DEF PhaseOf
    <3> QED BY <2>2, <2>4, <3>1 DEF PhaseOf
  <2> QED BY <2>1, <2>2, <2>3, <2>4, TurnPhases
<1>11. CASE FireStopped(th) \/ RaiseTask(th)
  <2>1. /\ stack[th] # <<>> /\ Top(th).op # "take" /\ Throw(th)
        /\ UNCHANGED <<condLock, stopped, notDispatched, active>>
    BY <1>11 DEF FireStopped, RaiseTask, In, poolVars
  <2> QED BY <1>0, <2>1, ThrowPhases
<1>12. CASE FinishTask(th)
  <2>1. PICK f, a, b : /\ f.op = "run" /\ b.op = "done" /\ a.op = "fire" /\ Turn(th, f, <<a, b>>)
    BY <1>12, FinishTurn
  <2>2. Settled
    BY <1>12 DEF FinishTask, lockVars, poolVars, endVars, queueVars
  <2>3. PhaseOf(th, b)' /\ PhaseOf(th, a)'
    BY <2>1, PhaseFree
  <2> QED BY <2>1, <2>2, <2>3, SettledTurn
<1> QED BY <1>1, <1>2, <1>3, <1>4, <1>5, <1>6, <1>7, <1>8, <1>9, <1>10, <1>11, <1>12 DEF Step

LEMMA MainPhases ==
  ASSUME QueueInv, Nested, Plain, Phases, Main \in Thread,
         \/ BeginProcess \/ NextLook \/ NextPending \/ NextCounter \/ NextGet
         \/ NextResult /\ At(Main, "process", "ok")
         \/ EndProgram \/ StopState \/ JoinWorkers
  PROVE  Phases'
<1>1. CASE BeginProcess
  <2>1. PICK f, a, b : /\ Advanced(f, b) /\ Turn(Main, f, <<a, b>>)
                       /\ a.op = "process" /\ a.step = "look"
    BY <1>1, MainTurn
  <2>2. UNCHANGED <<failed, condLock, active, stopped, notDispatched>>
    BY <1>1 DEF BeginProcess, lockVars, poolVars, endVars, queueVars
  <2>3. PICK fs : fs = <<a, b>>
    OBVIOUS
  <2>4. PhaseOf(Main, b)' /\ PhaseOf(Main, a)'
    BY <2>1, <2>2, <2>3, AdvancedPhase, PhaseFree
  <2> QED BY <2>1, <2>2, <2>4, SettledTurn
<1>2. ASSUME NEW f, NEW b, Turn(Main, f, <<b>>), f.op = "process", PhaseOf(Main, b)',
             UNCHANGED <<failed, stopped>>
      PROVE  Phases'
  <2>1. f = stack[Main][1] /\ 1 \in DOMAIN stack[Main]
    <3>1. PICK fs : fs = <<b>>
      OBVIOUS
    <3> QED BY <1>2, <3>1, TurnFrames DEF QueueInv
  <2>2. ASSUME NEW a \in Thread, NEW g \in Frame, PhaseOf(a, g), NEW k \in DOMAIN stack[a],
               g = stack[a][k], a = Main => k > 1
        PROVE  PhaseOf(a, g)'
    <3>1. g.op # "process"
      <4> SUFFICES ASSUME g.op = "process" PROVE FALSE
        OBVIOUS
      <4>1. a = Main /\ k = 1
        BY <2>2, ProcessOnMain
      <4> QED BY <2>2, <4>1
    <3> QED BY <1>2, <2>2, <3>1, PhaseSame
  <2> QED BY <1>2, <2>2, TurnPhases
<1>3. CASE NextLook
  <2>1. PICK f, b, s : /\ s = (IF active = 0 THEN "pending" ELSE "get") /\ f.op = "process"
                       /\ Stepped(f, b, s) /\ Turn(Main, f, <<b>>)
    BY <1>3, MainTurn
  <2>2. UNCHANGED <<failed, stopped, active>> /\ condLock' = IF active = 0 THEN Main ELSE None
    BY <1>3 DEF NextLook, poolVars, endVars
  <2>3. PhaseOf(Main, b)'
    BY <2>1, <2>2 DEF PhaseOf, Stepped
  <2> QED BY <1>2, <2>1, <2>2, <2>3
<1>4. CASE NextPending
  <2>1. PICK f, b, s : /\ s = (IF notDispatched = {} THEN "counter" ELSE "get")
                       /\ f.op = "process" /\ f.step = "pending"
                       /\ Stepped(f, b, s) /\ Turn(Main, f, <<b>>)
    BY <1>4, MainTurn
  <2>2. /\ UNCHANGED <<failed, stopped, active, notDispatched>>
        /\ condLock' = IF notDispatched = {} THEN Main ELSE None
    BY <1>4 DEF NextPending, poolVars, endVars, queueVars
  <2>3. PICK fs : fs = <<b>>
    OBVIOUS
  <2>4. f = stack[Main][1] /\ 1 \in DOMAIN stack[Main]
    BY <2>1, <2>3, TurnFrames DEF QueueInv
  <2>5. PhaseOf(Main, f)
    BY <2>4 DEF Phases
  <2>6. PhaseOf(Main, b)'
    BY <2>1, <2>2, <2>5 DEF PhaseOf, Stepped
  <2> QED BY <1>2, <2>1, <2>2, <2>6
<1>5. CASE NextCounter
  <2>1. PICK f : /\ f.op = "process"
                 /\ \/ Turn(Main, f, <<>>)
                    \/ \E b : Stepped(f, b, "get") /\ Turn(Main, f, <<b>>)
    BY <1>5, MainTurn
  <2>2. UNCHANGED <<failed, stopped, active>>
    BY <1>5 DEF NextCounter, poolVars, endVars
  <2>3. ASSUME NEW b, Stepped(f, b, "get"), Turn(Main, f, <<b>>)
        PROVE  Phases'
    <3>1. PhaseOf(Main, b)'
      BY <2>1, <2>3, PhaseFree DEF Stepped
    <3> QED BY <1>2, <2>1, <2>2, <2>3, <3>1
  <2>4. CASE Turn(Main, f, <<>>)
    <3>1. ASSUME NEW a \in Thread, NEW g \in Frame, PhaseOf(a, g), NEW k \in DOMAIN stack[a],
                 g = stack[a][k], a = Main => k > 1
          PROVE  PhaseOf(a, g)'
      <4>1. g.op # "process"
        <5> SUFFICES ASSUME g.op = "process" PROVE FALSE
          OBVIOUS
        <5>1. a = Main /\ k = 1
          BY <3>1, ProcessOnMain
        <5> QED BY <3>1, <5>1
      <4> QED BY <2>2, <3>1, <4>1, PhaseSame
    <3> QED BY <2>2, <2>4, <3>1, TurnPhases
  <2> QED BY <2>1, <2>3, <2>4
<1>6. CASE NextGet
  <2>1. PICK f, b, s : /\ s \in {"look", "ok", "exc"} /\ f.op = "process"
                       /\ Stepped(f, b, s) /\ Turn(Main, f, <<b>>)
    BY <1>6, MainTurn
  <2>2. UNCHANGED <<failed, stopped>>
    BY <1>6 DEF NextGet, endVars
  <2>3. PhaseOf(Main, b)'
    BY <2>1, PhaseFree DEF Stepped
  <2> QED BY <1>2, <2>1, <2>2, <2>3
<1>7. CASE NextResult /\ At(Main, "process", "ok")
  <2>1. PICK f, b : /\ f.op = "process" /\ Stepped(f, b, "look") /\ Turn(Main, f, <<b>>)
    BY <1>7, MainTurn
  <2>2. ~ At(Main, "process", "exc")
    BY <1>7 DEF At
  <2>3. UNCHANGED <<failed, stopped>>
    BY <1>7, <2>2 DEF NextResult
  <2>4. PhaseOf(Main, b)'
    BY <2>1, PhaseFree DEF Stepped
  <2> QED BY <1>2, <2>1, <2>3, <2>4
<1>8. CASE EndProgram
  <2>1. PICK f, b : /\ b \in Frame /\ b.op = "end" /\ b.step = "stop" /\ Turn(Main, f, <<b>>)
    BY <1>8, MainTurn
  <2>2. UNCHANGED <<failed, condLock, active, stopped, notDispatched>>
    BY <1>8 DEF EndProgram, lockVars, poolVars, endVars, queueVars
  <2>3. PhaseOf(Main, b)'
    BY <2>1, PhaseFree
  <2> QED BY <2>1, <2>2, <2>3, SettledTurn
<1>9. CASE StopState
  <2>1. PICK f, b : f.op = "end" /\ Stepped(f, b, "join") /\ Turn(Main, f, <<b>>)
    BY <1>9, MainTurn
  <2>2. UNCHANGED <<failed, condLock, active, notDispatched>> /\ stopped'
    BY <1>9 DEF StopState, lockVars, poolVars, queueVars
  <2>3. PhaseOf(Main, b)'
    BY <2>1, <2>2 DEF PhaseOf, Stepped
  <2> QED BY <2>1, <2>2, <2>3, SettledTurn
<1>10. CASE JoinWorkers
  <2>1. PICK f, b : /\ f.op = "end" /\ f.step = "join" /\ Stepped(f, b, "over")
                    /\ Turn(Main, f, <<b>>)
    BY <1>10, MainTurn
  <2>2. UNCHANGED <<failed, condLock, active, notDispatched, stopped>>
    BY <1>10 DEF JoinWorkers, lockVars, queueVars
  <2>3. f = stack[Main][1] /\ 1 \in DOMAIN stack[Main]
    BY <2>1, TurnFrames DEF QueueInv
  <2>4. PhaseOf(Main, f)
    BY <2>3 DEF Phases
  <2>5. PhaseOf(Main, b)'
    BY <2>1, <2>2, <2>4 DEF PhaseOf, Stepped
  <2> QED BY <2>1, <2>2, <2>5, SettledTurn
<1> QED BY <1>1, <1>3, <1>4, <1>5, <1>6, <1>7, <1>8, <1>9, <1>10

LEMMA ResultPhases ==
  ASSUME QueueInv, Nested, Phases, Main \in Thread, NextResult, At(Main, "process", "exc")
  PROVE  Phases'
<1>1. /\ stack[Main] # <<>> /\ Top(Main).op = "process" /\ Throw(Main)
      /\ UNCHANGED <<condLock, stopped, notDispatched>>
  BY DEF NextResult, At, In
<1>2. Main # Dist
  BY ProgramAssumption
<1> QED BY <1>1, <1>2, ThrowPhases

LEMMA DistPhases ==
  ASSUME QueueInv, Phases, Dist \in Thread, DistReport \/ DistEnd
  PROVE  Phases'
<1>1. UNCHANGED <<failed, condLock, active, stopped, notDispatched>>
  BY DEF DistReport, DistEnd, lockVars, poolVars, queueVars, endVars
<1>2. PICK f :
    \/ \E b : /\ b \in Frame /\ b.op = "dist"
              /\ \/ Turn(Dist, f, <<b>>)
                 \/ \E a \in Frame : a.op = "dispatch" /\ Turn(Dist, f, <<a, b>>)
    \/ \E a, b : /\ a \in Frame /\ a.op = "sweep" /\ b \in Frame /\ b.op = "end"
                 /\ Turn(Dist, f, <<a, b>>)
  BY DistTurn
<1>3. ASSUME NEW b, b.op \in {"dist", "end", "dispatch", "sweep"}
      PROVE  PhaseOf(Dist, b)'
  <2>1. Main # Dist
    BY ProgramAssumption
  <2> QED BY <1>3, <2>1, PhaseFree
<1>4. ASSUME NEW b, b.op = "dist", Turn(Dist, f, <<b>>)
      PROVE  Phases'
  BY <1>1, <1>3, <1>4, SettledTurn
<1>5. ASSUME NEW a, NEW b, b.op \in {"dist", "end"}, a.op \in {"dispatch", "sweep"},
             Turn(Dist, f, <<a, b>>)
      PROVE  Phases'
  <2>1. PhaseOf(Dist, a)' /\ PhaseOf(Dist, b)'
    BY <1>3, <1>5
  <2> QED BY <1>1, <1>5, <2>1, SettledTurn
<1>6. ASSUME NEW a, NEW b, a.op = "dispatch" \/ a.op = "sweep", b.op = "dist" \/ b.op = "end",
             Turn(Dist, f, <<a, b>>)
      PROVE  Phases'
  BY <1>5, <1>6
<1>7. CASE \E b : /\ b \in Frame /\ b.op = "dist"
                  /\ \/ Turn(Dist, f, <<b>>)
                     \/ \E a \in Frame : a.op = "dispatch" /\ Turn(Dist, f, <<a, b>>)
  BY <1>4, <1>6, <1>7
<1>8. CASE \E a, b : /\ a \in Frame /\ a.op = "sweep" /\ b \in Frame /\ b.op = "end"
                     /\ Turn(Dist, f, <<a, b>>)
  BY <1>6, <1>8
<1> QED BY <1>2, <1>7, <1>8

LEMMA WorkerPhases ==
  ASSUME QueueInv, Nested, Phases, NEW w \in Worker, w \in Thread,
         CheckState(w) \/ EndWorker(w) \/ Take(w)
  PROVE  Phases'
<1>1. UNCHANGED <<failed, condLock, active, stopped, notDispatched>>
  BY DEF CheckState, EndWorker, Take, lockVars, poolVars, queueVars, endVars
<1>2. CASE Take(w)
  <2>1. PICK f, b : b.op = "run" /\ Turn(w, f, <<b>>)
    BY <1>2, TakeTurn
  <2>2. PhaseOf(w, b)'
    BY <2>1, PhaseFree
  <2> QED BY <1>1, <2>1, <2>2, SettledTurn
<1>3. CASE CheckState(w) \/ EndWorker(w)
  <2>1. PICK fs : /\ Moves(w, Len(stack[w]), fs)
                  /\ fs = <<>> \/ \E b \in Frame : b.op = "take" /\ fs = <<b>>
    <3>1. CheckState(w) => stack[w] = <<>>
      BY DEF CheckState
    <3> QED BY <1>3, <3>1, IdleTurn
  <2>2. PICK c : c = Len(stack[w])
    OBVIOUS
  <2>3. Moves(w, c, fs)
    BY <2>1, <2>2
  <2>4. \A i \in DOMAIN fs : fs[i].op = "take"
    BY <2>1
  <2>5. \A i \in DOMAIN fs : PhaseOf(w, fs[i])'
    BY <2>4, PhaseFree
  <2>6. \A a \in Thread : \A g \in Frame : PhaseOf(a, g) => PhaseOf(a, g)'
    BY <1>1, PhaseSame
  <2> QED BY <2>3, <2>5, <2>6, MovePhases
<1> QED BY <1>2, <1>3

LEMMA SamePhases ==
  ASSUME QueueInv, Phases, UNCHANGED <<stack, failed, condLock, active, notDispatched>>,
         stopped' \/ stopped' = stopped
  PROVE  Phases'
BY DEF Phases, PhaseOf

-----------------------------------------------------------------------------
(* Who has ended, and what the thread of the distributed build never does. *)
OverFrame(f) == f.op = "end" /\ f.step = "over"

LEMMA MoveEnded ==
  ASSUME QueueInv, Ended, NEW th \in Thread, NEW c, NEW fs, Moves(th, c, fs),
         alive' \subseteq alive,
         \A w \in Worker : w \notin alive' /\ w \in alive => stack'[w] = <<>>,
         th \in Worker => th \in alive,
         th = Dist => \A i \in DOMAIN fs : Outside(fs[i]),
         th = Main => \A i \in DOMAIN fs : OverFrame(fs[i]) => alive' = {}
  PROVE  Ended'
<1>1. Stacks /\ Worker \subseteq Thread
  BY DEF QueueInv, Thread
<1>2. ASSUME NEW a \in Thread, NEW k \in DOMAIN stack'[a]
      PROVE  \/ a = th /\ k \in DOMAIN fs /\ stack'[a][k] = fs[k]
             \/ \E m \in DOMAIN stack[a] : stack'[a][k] = stack[a][m]
  BY <1>1, <1>2, MoveFrames
<1>3. \A w \in Worker : w \notin alive' => stack'[w] = <<>>
  <2> SUFFICES ASSUME NEW w \in Worker, w \notin alive' PROVE stack'[w] = <<>>
    OBVIOUS
  <2>1. CASE w \in alive
    BY <2>1
  <2>2. CASE w \notin alive
    <3>1. stack[w] = <<>> /\ w # th
      BY <2>2 DEF Ended
    <3> QED BY <1>1, <3>1 DEF Moves
  <2> QED BY <2>1, <2>2
<1>4. ASSUME NEW k \in DOMAIN stack'[Dist], Dist \in Thread
      PROVE  Outside(stack'[Dist][k])
  <2>1. \/ Dist = th /\ k \in DOMAIN fs /\ stack'[Dist][k] = fs[k]
        \/ \E m \in DOMAIN stack[Dist] : stack'[Dist][k] = stack[Dist][m]
    BY <1>2, <1>4
  <2> QED BY <2>1 DEF Ended
<1>5. ASSUME NEW k \in DOMAIN stack'[Main], Main \in Thread, OverFrame(stack'[Main][k])
      PROVE  alive' = {}
  <2>1. \/ Main = th /\ k \in DOMAIN fs /\ stack'[Main][k] = fs[k]
        \/ \E m \in DOMAIN stack[Main] : stack'[Main][k] = stack[Main][m]
    BY <1>2, <1>5
  <2>2. ASSUME NEW m \in DOMAIN stack[Main], stack'[Main][k] = stack[Main][m]
        PROVE  alive' = {}
    BY <1>5, <2>2 DEF Ended, OverFrame
  <2> QED BY <1>5, <2>1, <2>2
<1> QED BY <1>3, <1>4, <1>5 DEF Ended, Outside, OverFrame, Thread

LEMMA TurnEnded ==
  ASSUME QueueInv, Ended, NEW th \in Thread, NEW f, alive' = alive,
         \/ Turn(th, f, <<>>)
         \/ \E b : Turn(th, f, <<b>>) /\ (th = Dist => Outside(b)) /\ ~ OverFrame(b)
         \/ \E a, b : /\ Turn(th, f, <<a, b>>) /\ (th = Dist => Outside(a) /\ Outside(b))
                      /\ ~ OverFrame(a) /\ (OverFrame(b) => th # Main)
  PROVE  Ended'
<1>1. ASSUME NEW fs, Turn(th, f, fs), th = Dist => \A i \in DOMAIN fs : Outside(fs[i]),
             th = Main => \A i \in DOMAIN fs : ~ OverFrame(fs[i])
      PROVE  Ended'
  <2>1. stack[th] # <<>> /\ Moves(th, 1, fs)
    BY <1>1 DEF Turn
  <2>2. th \in Worker => th \in alive
    BY <2>1 DEF Ended
  <2> QED BY <1>1, <2>1, <2>2, MoveEnded
<1>2. CASE Turn(th, f, <<>>)
  <2>1. PICK fs : fs = <<>>
    OBVIOUS
  <2> QED BY <1>1, <1>2, <2>1
<1>3. ASSUME NEW b, Turn(th, f, <<b>>), th = Dist => Outside(b), ~ OverFrame(b)
      PROVE  Ended'
  <2>1. PICK fs : fs = <<b>>
    OBVIOUS
  <2>2. \A i \in DOMAIN fs : fs[i] = b
    BY <2>1
  <2> QED BY <1>1, <1>3, <2>1, <2>2
<1>4. ASSUME NEW a, NEW b, Turn(th, f, <<a, b>>), th = Dist => Outside(a) /\ Outside(b),
             ~ OverFrame(a), OverFrame(b) => th # Main
      PROVE  Ended'
  <2>1. PICK fs : fs = <<a, b>>
    OBVIOUS
  <2>2. \A i \in DOMAIN fs : fs[i] \in {a, b}
    BY <2>1
  <2> QED BY <1>1, <1>4, <2>1, <2>2
<1> QED BY <1>2, <1>3, <1>4

LEMMA DistOffMain ==
  ASSUME QueueInv, Nested, NEW th \in Thread, NEW k \in DOMAIN stack[th], stack[th][k].op = "dist"
  PROVE  th # Main
<1>1. stack[th] \in Seq(Frame) /\ k \in 1 .. Len(stack[th])
  BY DEF QueueInv, Stacks
<1>2. k = Len(stack[th])
  <2> SUFFICES ASSUME k # Len(stack[th]) PROVE FALSE
    OBVIOUS
  <2>1. k \in 1 .. Len(stack[th]) - 1
    BY <1>1
  <2> QED BY <2>1 DEF Nested, CalledFrom
<1>3. stack[th] # <<>>
  BY <1>1
<1> QED BY <1>2, <1>3 DEF Nested, Bottom

LEMMA ThrowEnded ==
  ASSUME QueueInv, Nested, Ended, NEW th \in Thread, stack[th] # <<>>, Top(th).op # "take", Throw(th),
         alive' = alive
  PROVE  Ended'
<1>1. PICK c, g, fs : Thrown(th, c, g, fs)
  BY ThrowTurn
<1>2. /\ c \in 1 .. Len(stack[th]) /\ g = stack[th][c] /\ Moves(th, c, fs)
      /\ stack[th] \in Seq(Frame) /\ DOMAIN stack[th] = 1 .. Len(stack[th])
  BY <1>1 DEF Thrown, QueueInv, Stacks
<1>3. th \in Worker => th \in alive
  BY DEF Ended
<1>4. Main # Dist
  BY ProgramAssumption
<1>5. th = Dist => Outside(g)
  BY <1>2 DEF Ended
<1>6. th = Main => (OverFrame(g) => alive' = {})
  BY <1>2 DEF Ended, OverFrame
<1>7. ASSUME NEW i \in DOMAIN fs
      PROVE  /\ th = Dist => Outside(fs[i])
             /\ th = Main => (OverFrame(fs[i]) => alive' = {})
  <2>1. CASE \E b \in Frame : g.op = "main" /\ b.op = "end" /\ b.step = "stop" /\ fs = <<b>>
    BY <1>5, <2>1 DEF Outside, OverFrame
  <2>2. CASE \E a, b \in Frame : g.op = "dist" /\ a.op = "sweep" /\ b.op = "end" /\ fs = <<a, b>>
    <3>1. th # Main
      BY <1>2, <2>2, DistOffMain
    <3>2. fs[i].op \in {"sweep", "end"}
      BY <2>2
    <3> QED BY <3>1, <3>2 DEF Outside
  <2>3. CASE g.op = "end" /\ fs = <<g>>
    BY <1>5, <1>6, <2>3
  <2>4. CASE \E b \in Frame : /\ g.op \in {"run", "done"} /\ b.op = "done" /\ b.how = "exc"
                              /\ fs = <<b>>
    BY <1>5, <2>4 DEF Outside, OverFrame
  <2> QED BY <1>1, <2>1, <2>2, <2>3, <2>4 DEF Thrown
<1>8. \A w \in Worker : ~ (w \notin alive' /\ w \in alive)
  OBVIOUS
<1> QED BY <1>2, <1>3, <1>7, <1>8, MoveEnded

LEMMA StepEnded ==
  ASSUME QueueInv, Nested, Ended, NEW th \in Thread, Step(th)
  PROVE  Ended'
<1>1. alive' = alive
  BY DEF Step, CacheHit, AddTask, AddMerge, AddDepsAndPublish, AddLeave, SignalReady,
         DispatchEnter, DispatchRemove, DispatchSchedule, DispatchExit, DispatchAll, Fire, Put,
         FireEnd, FireStopped, FinishTask, RaiseTask, PutResult, poolVars
<1>2. ASSUME NEW f, NEW fs, Turn(th, f, fs)
      PROVE  th = Dist => Outside(f)
  BY <1>2, TurnFrames DEF QueueInv, Ended
<1>3. ASSUME NEW f, NEW fs, Turn(th, f, fs), ~ Outside(f)
      PROVE  th # Dist
  BY <1>2, <1>3
<1>4. CASE CacheHit(th) \/ SignalReady(th)
  <2>1. PICK f, b : Advanced(f, b) /\ Turn(th, f, <<b>>)
    BY <1>4, HitTurn
  <2>2. th # Dist /\ ~ OverFrame(b)
    BY <1>3, <2>1 DEF Advanced, Outside, OverFrame
  <2> QED BY <1>1, <2>1, <2>2, TurnEnded
<1>5. CASE AddTask(th)
  <2>1. PICK f, a, b, i :
           /\ Advanced(f, b) /\ Turn(th, f, <<a, b>>) /\ f.at \in DOMAIN CodeOf(f)
           /\ i = CodeOf(f)[f.at] /\ i.op = "add" /\ i \in AddInstr
           /\ a \in Frame /\ a.op = "add" /\ a.instr = i /\ a.step \in {"merge", "deps"}
           /\ a.step = "merge" => i.joint # None
           /\ AddNode(i.task)
    BY <1>5, AddTaskTurn
  <2>2. th # Dist /\ ~ OverFrame(a) /\ ~ OverFrame(b)
    BY <1>3, <2>1 DEF Advanced, Outside, OverFrame
  <2> QED BY <1>1, <2>1, <2>2, TurnEnded
<1>6. CASE AddMerge(th)
  <2>1. PICK f, b : /\ f.op = "add" /\ f.step = "merge" /\ Stepped(f, b, "deps")
                    /\ Turn(th, f, <<b>>) /\ MergeNodes(f.instr.task, f.instr.joint)
    BY <1>6, AddMergeTurn
  <2>2. th # Dist /\ ~ OverFrame(b)
    BY <1>3, <2>1 DEF Stepped, Outside, OverFrame
  <2> QED BY <1>1, <2>1, <2>2, TurnEnded
<1>7. CASE AddDepsAndPublish(th)
  <2>1. PICK f, b, i :
           /\ f.op = "add" /\ f.step = "deps" /\ f.instr = i /\ i \in AddInstr
           /\ Stepped(f, b, "leave")
           /\ AddDeps(i.task, i.deps) /\ notDispatched' = notDispatched \cup {i.task}
           /\ \/ Turn(th, f, <<b>>)
              \/ \E a \in Frame : /\ a.op = "dispatch" /\ a.step = "enter"
                                  /\ a.inplace \in BOOLEAN /\ Turn(th, f, <<a, b>>)
    BY <1>7, AddDepsTurn
  <2>2. th # Dist /\ ~ OverFrame(b)
    BY <1>3, <2>1 DEF Stepped, Outside, OverFrame
  <2>3. \A a : a.op = "dispatch" => ~ OverFrame(a)
    BY DEF OverFrame
  <2> QED BY <1>1, <2>1, <2>2, <2>3, TurnEnded
<1>8. CASE AddLeave(th) \/ DispatchExit(th) \/ FireEnd(th) \/ PutResult(th)
  <2>1. PICK f : Turn(th, f, <<>>)
    BY <1>8, PopTurn
  <2> QED BY <1>1, <2>1, TurnEnded
<1>9. CASE DispatchEnter(th) \/ DispatchRemove(th)
  <2>1. PICK f, b, s : f.op = "dispatch" /\ Stepped(f, b, s) /\ Turn(th, f, <<b>>)
    <3>1. CASE DispatchEnter(th)
      BY <3>1, EnterTurn
    <3>2. CASE DispatchRemove(th)
      BY <3>2, RemoveTurn
    <3> QED BY <1>9, <3>1, <3>2
  <2>2. (th = Dist => Outside(b)) /\ ~ OverFrame(b)
    BY <1>2, <2>1 DEF Stepped, Outside, OverFrame
  <2> QED BY <1>1, <2>1, <2>2, TurnEnded
<1>10. CASE DispatchSchedule(th)
  <2>1. PICK f, a, b : /\ f.op = "dispatch" /\ f.step = "schedule" /\ Stepped(f, b, "exit")
                       /\ a \in Frame /\ a.op = "fire" /\ a.tasks = NewlyFired
                       /\ a.inplace = f.inplace /\ Turn(th, f, <<a, b>>)
                       /\ ScheduleNode(f.task)
    BY <1>10, ScheduleTurn
  <2>2. (th = Dist => Outside(a) /\ Outside(b)) /\ ~ OverFrame(a) /\ ~ OverFrame(b)
    BY <1>2, <2>1 DEF Stepped, Outside, OverFrame
  <2> QED BY <1>1, <2>1, <2>2, TurnEnded
<1>11. CASE DispatchAll(th)
  <2>1. ASSUME NEW f, NEW a, NEW b, Advanced(f, b), Turn(th, f, <<a, b>>), a.op = "sweep"
        PROVE  Ended'
    <3>1. th # Dist /\ ~ OverFrame(a) /\ ~ OverFrame(b)
      BY <1>3, <2>1 DEF Advanced, Outside, OverFrame
    <3> QED BY <1>1, <2>1, <3>1, TurnEnded
  <2>2. ASSUME In(th, "sweep"), Return(th)
        PROVE  Ended'
    <3>1. PICK f : Turn(th, f, <<>>)
      BY <2>2, PopTurn
    <3> QED BY <1>1, <3>1, TurnEnded
  <2>3. ASSUME NEW f, NEW a, NEW b, b.op = "sweep", a.op = "dispatch", ~ a.inplace,
               Turn(th, f, <<a, b>>)
        PROVE  Ended'
    <3>1. Outside(a) /\ Outside(b) /\ ~ OverFrame(a) /\ ~ OverFrame(b)
      BY <2>3 DEF Outside, OverFrame
    <3> QED BY <1>1, <2>3, <3>1, TurnEnded
  <2> QED BY <1>11, <2>1, <2>2, <2>3, SweepTurn
<1>12. ASSUME NEW t \in Node, Fire(th, t)
       PROVE  Ended'
  <2>1. PICK f, a, b : /\ f.op = "fire" /\ t \in f.tasks /\ b.op = "fire" /\ b.tasks = f.tasks \ {t}
                       /\ a \in Frame /\ b \in Frame /\ a.op = "put" /\ a.task = t
                       /\ a.inplace = f.inplace /\ b.inplace = f.inplace
                       /\ Turn(th, f, <<a, b>>)
    BY <1>12, FireTurn
  <2>2. (th = Dist => Outside(a) /\ Outside(b)) /\ ~ OverFrame(a) /\ ~ OverFrame(b)
    BY <1>2, <2>1 DEF Outside, OverFrame
  <2> QED BY <1>1, <2>1, <2>2, TurnEnded
<1>13. CASE Put(th)
  <2>1. PICK f : /\ f.op = "put"
                 /\ \/ Turn(th, f, <<>>)
                    \/ f.inplace /\ \E b \in Frame : b.op = "run" /\ Turn(th, f, <<b>>)
    BY <1>13, PutTurn
  <2>2. CASE Turn(th, f, <<>>)
    BY <1>1, <2>2, TurnEnded
  <2>3. ASSUME f.inplace, NEW b \in Frame, b.op = "run", Turn(th, f, <<b>>)
        PROVE  Ended'
    <3>1. th # Dist /\ ~ OverFrame(b)
      BY <1>3, <2>1, <2>3 DEF Outside, OverFrame
    <3> QED BY <1>1, <2>3, <3>1, TurnEnded
  <2> QED BY <2>1, <2>2, <2>3
<1>14. CASE FireStopped(th) \/ RaiseTask(th)
  <2>1. stack[th] # <<>> /\ Top(th).op # "take" /\ Throw(th)
    BY <1>14 DEF FireStopped, RaiseTask, In
  <2> QED BY <1>1, <2>1, ThrowEnded
<1>15. CASE FinishTask(th)
  <2>1. PICK f, a, b : /\ f.op = "run" /\ f.task \in Node /\ NotifyDependants(f.task)
                       /\ a \in Frame /\ a.op = "fire" /\ a.tasks = NewlyFired
                       /\ b \in Frame /\ b.op = "done" /\ b.task = f.task /\ b.how = "ok"
                       /\ Turn(th, f, <<a, b>>)
    BY <1>15, FinishTurn
  <2>2. th # Dist /\ ~ OverFrame(a) /\ ~ OverFrame(b)
    BY <1>3, <2>1 DEF Outside, OverFrame
  <2> QED BY <1>1, <2>1, <2>2, TurnEnded
<1> QED BY <1>4, <1>5, <1>6, <1>7, <1>8, <1>9, <1>10, <1>11, <1>12, <1>13, <1>14, <1>15 DEF Step

LEMMA MainEnded ==
  ASSUME QueueInv, Ended, Main \in Thread,
         \/ BeginProcess \/ NextLook \/ NextPending \/ NextCounter \/ NextGet
         \/ NextResult /\ At(Main, "process", "ok")
         \/ EndProgram \/ StopState \/ JoinWorkers
  PROVE  Ended'
<1>1. alive' = alive /\ Main # Dist
  BY ProgramAssumption DEF BeginProcess, NextLook, NextPending, NextCounter, NextGet, NextResult,
     EndProgram, StopState, JoinWorkers, poolVars
<1>2. CASE BeginProcess
  <2>1. PICK f, a, b : Advanced(f, b) /\ Turn(Main, f, <<a, b>>) /\ a.op = "process"
    BY <1>2, MainTurn
  <2>2. ~ OverFrame(a) /\ ~ OverFrame(b)
    BY <2>1 DEF Advanced, OverFrame
  <2> QED BY <1>1, <2>1, <2>2, TurnEnded
<1>3. CASE \/ NextLook \/ NextPending \/ NextGet
           \/ NextResult /\ At(Main, "process", "ok")
  <2>1. \E f, b : Turn(Main, f, <<b>>) /\ b.op = "process"
    <3>1. ASSUME NEW f, NEW s, f.op = "process", \E b : Stepped(f, b, s) /\ Turn(Main, f, <<b>>)
          PROVE  \E b : Turn(Main, f, <<b>>) /\ b.op = "process"
      BY <3>1 DEF Stepped
    <3>2. CASE NextLook
      BY <3>1, <3>2, MainTurn
    <3>3. CASE NextPending
      BY <3>1, <3>3, MainTurn
    <3>4. CASE NextGet
      BY <3>1, <3>4, MainTurn
    <3>5. CASE NextResult /\ At(Main, "process", "ok")
      BY <3>1, <3>5, MainTurn
    <3> QED BY <1>3, <3>2, <3>3, <3>4, <3>5
  <2>2. \A b : b.op = "process" => ~ OverFrame(b)
    BY DEF OverFrame
  <2> QED BY <1>1, <2>1, <2>2, TurnEnded
<1>4. CASE NextCounter
  <2>1. PICK f : /\ f.op = "process"
                 /\ \/ Turn(Main, f, <<>>)
                    \/ \E b : Stepped(f, b, "get") /\ Turn(Main, f, <<b>>)
    BY <1>4, MainTurn
  <2>2. \A b : Stepped(f, b, "get") => ~ OverFrame(b)
    BY <2>1 DEF OverFrame, Stepped
  <2> QED BY <1>1, <2>1, <2>2, TurnEnded
<1>5. CASE EndProgram
  <2>1. PICK f, b : b.op = "end" /\ b.step = "stop" /\ Turn(Main, f, <<b>>)
    BY <1>5, MainTurn
  <2>2. ~ OverFrame(b)
    BY <2>1 DEF OverFrame
  <2> QED BY <1>1, <2>1, <2>2, TurnEnded
<1>6. CASE StopState
  <2>1. PICK f, b : Stepped(f, b, "join") /\ Turn(Main, f, <<b>>)
    BY <1>6, MainTurn
  <2>2. ~ OverFrame(b)
    BY <2>1 DEF OverFrame, Stepped
  <2> QED BY <1>1, <2>1, <2>2, TurnEnded
<1>7. CASE JoinWorkers
  <2>1. PICK f, b : Turn(Main, f, <<b>>)
    BY <1>7, MainTurn
  <2>2. alive' = {}
    BY <1>1, <1>7 DEF JoinWorkers
  <2>3. PICK fs : fs = <<b>>
    OBVIOUS
  <2>4. Moves(Main, 1, fs)
    BY <2>1, <2>3 DEF Turn
  <2>5. Main \notin Worker
    BY ProgramAssumption
  <2> QED BY <1>1, <2>2, <2>4, <2>5, MoveEnded
<1> QED BY <1>2, <1>3, <1>4, <1>5, <1>6, <1>7

LEMMA ResultEnded ==
  ASSUME QueueInv, Nested, Ended, Main \in Thread, NextResult, At(Main, "process", "exc")
  PROVE  Ended'
<1>1. stack[Main] # <<>> /\ Top(Main).op # "take" /\ Throw(Main) /\ alive' = alive
  BY DEF NextResult, At, In
<1> QED BY <1>1, ThrowEnded

LEMMA DistEnded ==
  ASSUME QueueInv, Ended, Dist \in Thread, DistReport \/ DistEnd
  PROVE  Ended'
<1>1. alive' = alive /\ Main # Dist
  BY ProgramAssumption DEF DistReport, DistEnd, poolVars
<1>2. CASE DistReport
  <2>1. PICK f, b : /\ b.op = "dist"
                    /\ \/ Turn(Dist, f, <<b>>)
                       \/ \E a \in Frame : /\ a.op = "dispatch" /\ a.step = "enter" /\ ~ a.inplace
                                           /\ Turn(Dist, f, <<a, b>>)
    BY <1>2, DistTurn
  <2>2. Outside(b) /\ ~ OverFrame(b)
    BY <2>1 DEF Outside, OverFrame
  <2>3. \A a : a.op = "dispatch" /\ ~ a.inplace => Outside(a) /\ ~ OverFrame(a)
    BY DEF Outside, OverFrame
  <2> QED BY <1>1, <2>1, <2>2, <2>3, TurnEnded
<1>3. CASE DistEnd
  <2>1. PICK f, a, b : a.op = "sweep" /\ b.op = "end" /\ Turn(Dist, f, <<a, b>>)
    BY <1>3, DistTurn
  <2>2. Outside(a) /\ Outside(b) /\ ~ OverFrame(a)
    BY <2>1 DEF Outside, OverFrame
  <2> QED BY <1>1, <2>1, <2>2, TurnEnded
<1> QED BY <1>2, <1>3

LEMMA WorkerEnded ==
  ASSUME QueueInv, Nested, Ended, NEW w \in Worker, w \in Thread,
         CheckState(w) \/ EndWorker(w) \/ Take(w)
  PROVE  Ended'
<1>1. w # Dist /\ w # Main
  BY ProgramAssumption
<1>2. CASE Take(w)
  <2>1. PICK f, b : b.op = "run" /\ Turn(w, f, <<b>>)
    BY <1>2, TakeTurn
  <2>2. alive' = alive /\ ~ OverFrame(b)
    BY <1>2, <2>1 DEF Take, OverFrame
  <2> QED BY <1>1, <2>1, <2>2, TurnEnded
<1>3. CASE CheckState(w) \/ EndWorker(w)
  <2>1. PICK fs : /\ Moves(w, Len(stack[w]), fs) /\ stack'[w] = fs
                  /\ CheckState(w) \/ (EndWorker(w) /\ fs = <<>>)
    <3>1. CheckState(w) => stack[w] = <<>>
      BY DEF CheckState
    <3> QED BY <1>3, <3>1, IdleTurn
  <2>2. PICK c : c = Len(stack[w])
    OBVIOUS
  <2>3. Moves(w, c, fs)
    BY <2>1, <2>2
  <2>4. w \in alive /\ alive' \subseteq alive
    BY <2>1 DEF CheckState, EndWorker, poolVars
  <2>5. \A v \in Worker : v \notin alive' /\ v \in alive => stack'[v] = <<>>
    BY <2>1 DEF CheckState, EndWorker, poolVars
  <2> QED BY <1>1, <2>3, <2>4, <2>5, MoveEnded
<1> QED BY <1>2, <1>3

LEMMA SameEnded ==
  ASSUME Ended, UNCHANGED <<stack, alive>>
  PROVE  Ended'
BY DEF Ended, Outside

-----------------------------------------------------------------------------
(* The places of the code: what has been executed, and the ranks of tasks. *)
HomeOf(f) == IF f.op = "main" THEN None ELSE f.task

LEMMA PlaceOf ==
  ASSUME program \in Programs, NEW f, f.op = "main" \/ (f.op = "run" /\ f.task \in DOMAIN program.body),
         NEW k \in DOMAIN CodeOf(f), CodeOf(f)[k].op = "add"
  PROVE  /\ <<HomeOf(f), k>> \in Places(program)
         /\ InstrAt(program, <<HomeOf(f), k>>) = CodeOf(f)[k]
         /\ HomeOf(f) = None <=> f.op = "main"
<1>1. None \notin DOMAIN program.body
  BY ProgramAssumption
<1>2. PICK h, C : h = HomeOf(f) /\ C = Codes(program)
  OBVIOUS
<1>3. h \in DOMAIN C /\ C[h] = CodeOf(f) /\ (h = None <=> f.op = "main")
  BY <1>1, <1>2 DEF HomeOf, Codes, CodeOf
<1>4. <<h, k>> \in UNION {{t} \X DOMAIN C[t] : t \in DOMAIN C}
  BY <1>3
<1>5. PICK pl : pl = <<h, k>>
  OBVIOUS
<1>6. C[pl[1]][pl[2]] = CodeOf(f)[k] /\ pl \in UNION {{t} \X DOMAIN C[t] : t \in DOMAIN C}
  BY <1>3, <1>4, <1>5
<1>7. pl \in Places(program) /\ InstrAt(program, pl) = CodeOf(f)[k]
  BY <1>2, <1>6 DEF Places, InstrAt
<1> QED BY <1>2, <1>3, <1>5, <1>7

(* A place of the code of a caller is an instruction of the caller.        *)
LEMMA AtPlace ==
  ASSUME NEW f, f.op = "main" \/ (f.op = "run" /\ f.task \in DOMAIN program.body),
         program \in Programs, NEW k, <<HomeOf(f), k>> \in Places(program)
  PROVE  k \in AddsOf(f) /\ InstrAt(program, <<HomeOf(f), k>>) = CodeOf(f)[k]
<1>1. PICK h, C, pl : h = HomeOf(f) /\ C = Codes(program) /\ pl = <<HomeOf(f), k>>
  OBVIOUS
<1>2. None \notin DOMAIN program.body
  BY ProgramAssumption
<1>3. h \in DOMAIN C /\ C[h] = CodeOf(f)
  BY <1>1, <1>2 DEF HomeOf, Codes, CodeOf
<1>4. pl \in UNION {{t} \X DOMAIN C[t] : t \in DOMAIN C} /\ C[pl[1]][pl[2]].op = "add"
  BY <1>1 DEF Places
<1>5. pl[1] = h /\ pl[2] = k
  BY <1>1
<1>6. k \in DOMAIN C[h]
  <2>1. PICK t \in DOMAIN C : pl \in {t} \X DOMAIN C[t]
    BY <1>4
  <2> QED BY <1>5, <2>1
<1>7. k \in DOMAIN CodeOf(f) /\ CodeOf(f)[k].op = "add"
  BY <1>3, <1>4, <1>5, <1>6
<1>8. InstrAt(program, pl) = CodeOf(f)[k]
  BY <1>1, <1>3, <1>5 DEF InstrAt
<1> QED BY <1>1, <1>7, <1>8 DEF AddsOf

(* The place that a frame of a call of add has come from.                  *)
ComesFrom(f, g, m) ==
  /\ g.op \in {"main", "run"} /\ g \in Frame /\ g.at \in Nat
  /\ m = g.at - 1 /\ m \in DOMAIN CodeOf(g)
  /\ f.instr = CodeOf(g)[m] /\ f.instr.op = "add"
  /\ g.op = "run" => g.task \in DOMAIN program.body
  /\ <<HomeOf(g), m>> \in Places(program)
  /\ InstrAt(program, <<HomeOf(g), m>>) = f.instr
  /\ HomeOf(g) = None <=> g.op = "main"

LEMMA AddPlace ==
  ASSUME QueueInv, Nested, NEW th \in Thread, NEW k \in DOMAIN stack[th], NEW f, f = stack[th][k],
         f.op = "add"
  PROVE  \E g, m : k + 1 \in DOMAIN stack[th] /\ g = stack[th][k + 1] /\ ComesFrom(f, g, m)
<1>1. /\ stack[th] \in Seq(Frame) /\ k \in 1 .. Len(stack[th]) /\ stack[th] # <<>>
      /\ program \in Programs
  BY DEF QueueInv, Stacks, Typed
<1>2. k # Len(stack[th])
  BY <1>1 DEF Nested, Bottom
<1>3. k \in 1 .. Len(stack[th]) - 1 /\ k + 1 \in DOMAIN stack[th]
  BY <1>1, <1>2
<1>4. PICK g, m : g = stack[th][k + 1] /\ m = g.at - 1
  OBVIOUS
<1>5. g.op \in {"main", "run"} /\ m \in DOMAIN CodeOf(g) /\ f.instr = CodeOf(g)[m]
  BY <1>3, <1>4 DEF Nested, CalledFrom
<1>6. g \in Frame /\ g.at \in Nat /\ (g.op = "run" => g.task \in DOMAIN program.body)
  BY <1>3, <1>4, <1>5, CodeTyped
<1>7. f.instr.op = "add"
  BY <1>1, FieldsTyped DEF AddInstr
<1>8. /\ <<HomeOf(g), m>> \in Places(program)
      /\ InstrAt(program, <<HomeOf(g), m>>) = f.instr
      /\ HomeOf(g) = None <=> g.op = "main"
  BY <1>1, <1>5, <1>6, <1>7, PlaceOf
<1>9. ComesFrom(f, g, m)
  BY <1>4, <1>5, <1>6, <1>7, <1>8 DEF ComesFrom
<1> QED BY <1>3, <1>4, <1>9

LEMMA FirstSame ==
  ASSUME FirstAdded, UNCHANGED <<program, added>>
  PROVE  FirstAdded'
<1>1. Places(program)' = Places(program) /\ \A pl : InstrAt(program, pl)' = InstrAt(program, pl)
  BY DEF Places, InstrAt, Codes
<1> QED BY <1>1 DEF FirstAdded

LEMMA ScriptedMove ==
  ASSUME QueueInv, Scripted, UNCHANGED <<program, added>>, NEW th \in Thread, NEW c, NEW fs,
         Moves(th, c, fs), \A i \in DOMAIN fs : Executed(fs[i]),
         \A t \in DOMAIN program.body : runs'[t] = 0 => runs[t] = 0
  PROVE  Scripted'
<1>1. Stacks
  BY DEF QueueInv
<1>2. \A f : Executed(f)' <=> Executed(f)
  BY DEF Executed, AddsOf, CodeOf
<1>3. ASSUME NEW a \in Thread, NEW k \in DOMAIN stack'[a]
      PROVE  Executed(stack'[a][k])
  <2>1. \/ a = th /\ k \in DOMAIN fs /\ stack'[a][k] = fs[k]
        \/ \E m \in DOMAIN stack[a] : stack'[a][k] = stack[a][m]
    BY <1>1, <1>3, MoveFrames
  <2> QED BY <1>3, <2>1 DEF Scripted
<1>4. \A a \in Thread : \A k \in DOMAIN stack'[a] : Executed(stack[a][k])'
  BY <1>3 DEF Executed, AddsOf, CodeOf
<1>5. \A t \in DOMAIN program.body : runs'[t] = 0 => Executed(RunFrame(t, 1))'
  BY DEF Scripted, Executed, AddsOf, CodeOf, RunFrame
<1>6. FirstAdded'
  BY FirstSame DEF Scripted
<1> QED BY <1>4, <1>5, <1>6 DEF Scripted

LEMMA ScriptedTurn ==
  ASSUME QueueInv, Scripted, UNCHANGED <<program, added>>, NEW th \in Thread, NEW f,
         \A t \in DOMAIN program.body : runs'[t] = 0 => runs[t] = 0,
         \/ Turn(th, f, <<>>)
         \/ \E b : Turn(th, f, <<b>>) /\ Executed(b)
         \/ \E a, b : Turn(th, f, <<a, b>>) /\ Executed(a) /\ Executed(b)
  PROVE  Scripted'
<1>1. ASSUME NEW fs, Turn(th, f, fs), \A i \in DOMAIN fs : Executed(fs[i])
      PROVE  Scripted'
  BY <1>1, ScriptedMove DEF Turn
<1>2. CASE Turn(th, f, <<>>)
  <2>1. PICK fs : fs = <<>>
    OBVIOUS
  <2> QED BY <1>1, <1>2, <2>1
<1>3. ASSUME NEW b, Turn(th, f, <<b>>), Executed(b)
      PROVE  Scripted'
  <2>1. PICK fs : fs = <<b>>
    OBVIOUS
  <2>2. \A i \in DOMAIN fs : fs[i] = b
    BY <2>1
  <2> QED BY <1>1, <1>3, <2>1, <2>2
<1>4. ASSUME NEW a, NEW b, Turn(th, f, <<a, b>>), Executed(a), Executed(b)
      PROVE  Scripted'
  <2>1. PICK fs : fs = <<a, b>>
    OBVIOUS
  <2>2. \A i \in DOMAIN fs : fs[i] = a \/ fs[i] = b
    BY <2>1
  <2> QED BY <1>1, <1>4, <2>1, <2>2
<1> QED BY <1>2, <1>3, <1>4

LEMMA ExecutedFree ==
  ASSUME NEW f, f.op \notin {"main", "run"}
  PROVE  Executed(f)
BY DEF Executed

(* Main or a task has executed one more instruction.                       *)
LEMMA ExecutedOne ==
  ASSUME QueueInv, Scripted, NEW th \in Thread, NEW f, NEW b, NEW fs, Turn(th, f, fs),
         Advanced(f, b), f.at \in DOMAIN CodeOf(f),
         CodeOf(f)[f.at].op = "add" => CodeOf(f)[f.at].task \in added
  PROVE  Executed(b)
<1>1. Executed(f)
  BY TurnFrames DEF QueueInv, Scripted
<1>2. f.at \in Nat /\ CodeOf(f) \in Seq(Instr)
  BY TurnFrames, CodeTyped DEF QueueInv, Advanced
<1>3. \A k \in AddsOf(b) : k \in AddsOf(f) /\ k \in Nat
  BY <1>2 DEF Advanced, AddsOf
<1>4. \A k \in Nat : /\ k < f.at + 1 => k < f.at \/ k = f.at
                     /\ k >= f.at + 1 => k >= f.at
  BY <1>2
<1> QED BY <1>1, <1>3, <1>4 DEF Advanced, Executed, AddsOf

(* A task is called: nothing of what it does has been done.                *)
LEMMA ExecutedNone ==
  ASSUME QueueInv, Scripted, NEW t \in Node, fired[t] > 0, runs[t] = 0
  PROVE  Executed(RunFrame(t, 1))
<1>1. t \in DOMAIN program.body
  BY DEF QueueInv, TopoInv, FiredReady, Typed
<1> QED BY <1>1 DEF Scripted

LEMMA RankedSame ==
  ASSUME Ranked, UNCHANGED <<program, deps, group>>
  PROVE  Ranked'
<1>1. Ranks(program)' = Ranks(program)
  BY DEF Ranks, Places, InstrAt, Codes
<1> QED BY <1>1 DEF Ranked

LEMMA AddTaskScripted ==
  ASSUME QueueInv, Nested, Scripted, UNCHANGED <<program, runs>>, NEW th \in Thread, AddTask(th)
  PROVE  Scripted'
<1>0. program \in Programs /\ Stacks
  BY DEF QueueInv, Typed
<1>1. PICK f, a, b, i :
         /\ Advanced(f, b) /\ Turn(th, f, <<a, b>>) /\ f.at \in DOMAIN CodeOf(f)
         /\ i = CodeOf(f)[f.at] /\ i.op = "add" /\ i \in AddInstr
         /\ a \in Frame /\ a.op = "add" /\ a.instr = i /\ a.step \in {"merge", "deps"}
         /\ a.step = "merge" => i.joint # None
         /\ AddNode(i.task)
  BY AddTaskTurn
<1>2. PICK fs : fs = <<a, b>>
  OBVIOUS
<1>3. /\ Turn(th, f, fs) /\ f = stack[th][1] /\ 1 \in DOMAIN stack[th] /\ Moves(th, 1, fs)
      /\ f.op \in {"main", "run"} /\ b.at = f.at + 1 /\ f \in Frame
  <2>1. Turn(th, f, fs)
    BY <1>1, <1>2
  <2>2. f = stack[th][1] /\ 1 \in DOMAIN stack[th] /\ Moves(th, 1, fs) /\ f \in Frame
    BY <1>0, <2>1, TurnFrames DEF Turn
  <2> QED BY <1>1, <2>1, <2>2 DEF Advanced
<1>4. f.op = "run" => f.task \in DOMAIN program.body /\ f.task \in Node
  BY <1>3, CodeTyped
<1>5. PICK home : home = <<HomeOf(f), f.at>>
  OBVIOUS
<1>6. home \in Places(program) /\ InstrAt(program, home) = i /\ (HomeOf(f) = None <=> f.op = "main")
  BY <1>0, <1>1, <1>3, <1>4, <1>5, PlaceOf
<1>7. added' = added \cup {i.task}
  BY <1>1 DEF AddNode
(* No other place adds the same task outside of the cache. *)
<1>8. ASSUME NEW g, g.op = "main" \/ (g.op = "run" /\ g.task \in DOMAIN program.body),
             NEW k \in AddsOf(g), ~ CodeOf(g)[k].cached, CodeOf(g)[k].task = i.task
      PROVE  k = f.at /\ HomeOf(g) = HomeOf(f) /\ (g.op = "main" <=> f.op = "main")
  <2>1. PICK pl : pl = <<HomeOf(g), k>>
    OBVIOUS
  <2>2. /\ pl \in Places(program) /\ InstrAt(program, pl) = CodeOf(g)[k]
        /\ HomeOf(g) = None <=> g.op = "main"
    BY <1>0, <1>8, <2>1, PlaceOf DEF AddsOf
  <2>3. home = pl
    BY <1>0, <1>6, <1>8, <2>2, ProgramOrder
  <2> QED BY <1>5, <1>6, <2>1, <2>2, <2>3
<1>9. ASSUME NEW g, Executed(g), g.op = "main" \/ (g.op = "run" /\ g.task \in DOMAIN program.body),
             HomeOf(g) # HomeOf(f) \/ g.at = f.at + 1, g.at \in Nat
      PROVE  \A k \in AddsOf(g) :
               /\ k < g.at => CodeOf(g)[k].task \in added'
               /\ k >= g.at /\ ~ CodeOf(g)[k].cached => CodeOf(g)[k].task \notin added'
  <2> SUFFICES ASSUME NEW k \in AddsOf(g)
               PROVE  /\ k < g.at => CodeOf(g)[k].task \in added'
                      /\ k >= g.at /\ ~ CodeOf(g)[k].cached => CodeOf(g)[k].task \notin added'
    OBVIOUS
  <2>1. k < g.at => CodeOf(g)[k].task \in added'
    BY <1>7, <1>9 DEF Executed
  <2>2. ASSUME k >= g.at, ~ CodeOf(g)[k].cached
        PROVE  CodeOf(g)[k].task \notin added'
    <3>1. CodeOf(g)[k].task \notin added
      BY <1>9, <2>2 DEF Executed
    <3>2. ASSUME CodeOf(g)[k].task = i.task
          PROVE  FALSE
      <4>1. k = f.at /\ HomeOf(g) = HomeOf(f)
        BY <1>8, <1>9, <2>2, <3>2
      <4>2. f.at \in Nat
        BY <1>1 DEF Advanced
      <4> QED BY <1>9, <2>2, <4>1, <4>2
    <3> QED BY <1>7, <3>1, <3>2
  <2> QED BY <2>1, <2>2
<1>10. ASSUME NEW x \in Thread, NEW m \in DOMAIN stack'[x]
       PROVE  Executed(stack[x][m])'
  <2>1. PICK g : g = stack'[x][m]
    OBVIOUS
  <2>2. CASE g.op \notin {"main", "run"}
    BY <2>1, <2>2 DEF Executed
  <2>3. CASE g.op \in {"main", "run"}
    <3>1. \/ x = th /\ g = b
          \/ \E n \in DOMAIN stack[x] : g = stack[x][n] /\ (x = th => n > 1)
      <4>1. \/ x = th /\ m \in DOMAIN fs /\ g = fs[m]
            \/ \E n \in DOMAIN stack[x] : g = stack[x][n] /\ (x = th => n > 1)
        BY <1>0, <1>3, <2>1, MoveFrames
      <4>2. ASSUME m \in DOMAIN fs, g = fs[m]
            PROVE  g = b
        <5>1. fs[m] = a \/ fs[m] = b
          BY <1>2, <4>2
        <5> QED BY <1>1, <2>3, <4>2, <5>1
      <4> QED BY <4>1, <4>2
    <3>2. CASE g = b
      <4>1. \A k \in AddsOf(b) :
               /\ k < b.at => CodeOf(b)[k].task \in added'
               /\ k >= b.at /\ ~ CodeOf(b)[k].cached => CodeOf(b)[k].task \notin added'
        <5>1. Executed(f)
          BY <1>3 DEF Scripted
        <5>2. f.at \in Nat /\ b.op = f.op /\ CodeOf(b) = CodeOf(f) /\ (f.op = "run" => b.task = f.task)
          BY <1>1 DEF Advanced
        <5>3. CodeOf(f) \in Seq(Instr)
          BY <1>3, CodeTyped
        <5> SUFFICES ASSUME NEW k \in AddsOf(b)
                     PROVE  /\ k < b.at => CodeOf(b)[k].task \in added'
                            /\ k >= b.at /\ ~ CodeOf(b)[k].cached => CodeOf(b)[k].task \notin added'
          OBVIOUS
        <5>4. k \in Nat /\ k \in AddsOf(f)
          BY <5>2, <5>3 DEF AddsOf
        <5>5. ASSUME k < b.at
              PROVE  CodeOf(b)[k].task \in added'
          <6>1. k < f.at \/ k = f.at
            BY <1>3, <5>2, <5>4, <5>5
          <6>2. k < f.at => CodeOf(b)[k].task \in added
            BY <1>3, <5>1, <5>2, <5>4 DEF Executed
          <6> QED BY <1>1, <1>7, <5>2, <6>1, <6>2
        <5>6. ASSUME k >= b.at, ~ CodeOf(b)[k].cached
              PROVE  CodeOf(b)[k].task \notin added'
          <6>1. k >= f.at /\ k # f.at
            BY <1>3, <5>2, <5>4, <5>6
          <6>2. CodeOf(b)[k].task \notin added
            BY <1>3, <5>1, <5>2, <5>4, <5>6, <6>1 DEF Executed
          <6>3. CodeOf(b)[k].task # i.task
            BY <1>3, <1>4, <1>8, <5>2, <5>4, <5>6, <6>1
          <6> QED BY <1>7, <6>2, <6>3
        <5> QED BY <5>5, <5>6
      <4> QED BY <2>1, <3>2, <4>1 DEF Executed, AddsOf, CodeOf
    <3>3. ASSUME NEW n \in DOMAIN stack[x], g = stack[x][n], x = th => n > 1
          PROVE  Executed(stack[x][m])'
      <4>1. /\ g.at \in Nat /\ Executed(g)
            /\ g.op = "run" => g.task \in DOMAIN program.body /\ g.task \in Node
        BY <2>3, <3>3, CodeTyped DEF Scripted
      <4>2. HomeOf(g) # HomeOf(f)
        <5> SUFFICES ASSUME HomeOf(g) = HomeOf(f) PROVE FALSE
          OBVIOUS
        <5>1. None \notin Node
          BY ProgramAssumption
        <5>2. CASE g.op = "main"
          <6>1. f.op = "main"
            BY <1>3, <1>4, <5>1, <5>2 DEF HomeOf
          <6>2. /\ n = Len(stack[x]) /\ x = Main
                /\ 1 = Len(stack[th]) /\ th = Main
            BY <1>3, <3>3, <5>2, <6>1, MainAtBottom
          <6> QED BY <3>3, <6>2
        <5>3. CASE g.op = "run"
          <6>1. f.op = "run" /\ f.task = g.task
            BY <1>3, <1>4, <4>1, <5>1, <5>3 DEF HomeOf
          <6>2. Owns(f, g.task) /\ Owns(g, g.task) /\ g.task \in Node
            BY <4>1, <5>3, <6>1 DEF Owns
          <6>3. x = th /\ n = 1
            BY <1>3, <3>3, <6>2 DEF QueueInv, Alone
          <6> QED BY <3>3, <6>3
        <5> QED BY <2>3, <5>2, <5>3
      <4>3. \A k \in AddsOf(g) :
               /\ k < g.at => CodeOf(g)[k].task \in added'
               /\ k >= g.at /\ ~ CodeOf(g)[k].cached => CodeOf(g)[k].task \notin added'
        BY <1>9, <2>3, <4>1, <4>2
      <4> QED BY <2>1, <4>3 DEF Executed, AddsOf, CodeOf
    <3> QED BY <3>1, <3>2, <3>3
  <2> QED BY <2>2, <2>3
<1>11. ASSUME NEW t \in DOMAIN program.body, runs[t] = 0
       PROVE  Executed(RunFrame(t, 1))'
  <2>1. PICK g : g = RunFrame(t, 1)
    OBVIOUS
  <2>2. g.op = "run" /\ g.task = t /\ g.at = 1 /\ Executed(g)
    BY <1>11, <2>1 DEF RunFrame, Scripted
  <2>3. HomeOf(g) # HomeOf(f)
    <3> SUFFICES ASSUME HomeOf(g) = HomeOf(f) PROVE FALSE
      OBVIOUS
    <3>1. t \in Node /\ None \notin Node
      BY <1>0, ProgramAssumption
    <3>2. f.op = "run" /\ f.task = t
      BY <1>3, <2>2, <3>1 DEF HomeOf
    <3>3. Owns(f, t)
      BY <3>2 DEF Owns
    <3>4. runs[t] = 1
      BY <1>3, <3>1, <3>2, <3>3 DEF QueueInv, Owned, FrameOK
    <3> QED BY <1>11, <3>4
  <2>4. \A k \in AddsOf(g) :
           /\ k < g.at => CodeOf(g)[k].task \in added'
           /\ k >= g.at /\ ~ CodeOf(g)[k].cached => CodeOf(g)[k].task \notin added'
    BY <1>9, <2>2, <2>3
  <2>5. Executed(g)'
    BY <2>4 DEF Executed, AddsOf, CodeOf
  <2> QED BY <2>1, <2>5 DEF Executed, AddsOf, CodeOf, RunFrame
<1>12. FirstAdded'
  <2> SUFFICES ASSUME <<None, 1>> \in Places(program)
               PROVE  InstrAt(program, <<None, 1>>).task \in added'
    <3>1. Places(program)' = Places(program) /\ \A pl : InstrAt(program, pl)' = InstrAt(program, pl)
      BY DEF Places, InstrAt, Codes
    <3> QED BY <3>1 DEF FirstAdded
  <2>1. CASE f.op = "main"
    <3>1. 1 \in AddsOf(f) /\ InstrAt(program, <<None, 1>>) = CodeOf(f)[1]
      BY <1>0, <2>1, AtPlace DEF HomeOf
    <3>2. Executed(f)
      BY <1>3 DEF Scripted
    <3>3. f.at = 1 \/ 1 < f.at
      <4>1. CodeOf(f) \in Seq(Instr)
        BY <1>3, CodeTyped
      <4> QED BY <1>1, <4>1
    <3>4. 1 < f.at => CodeOf(f)[1].task \in added
      BY <2>1, <3>1, <3>2 DEF Executed
    <3> QED BY <1>1, <1>7, <3>1, <3>3, <3>4
  <2>2. CASE f.op = "run"
    <3>1. Owns(f, f.task) /\ f.task \in Node
      BY <1>4, <2>2 DEF Owns
    <3>2. fired[f.task] > 0
      BY <1>3, <3>1 DEF QueueInv, Owned, FrameOK
    <3>3. f.task \in added
      BY <3>1, <3>2 DEF QueueInv, TopoInv, FiredReady
    <3>4. FirstAdded
      BY DEF Scripted
    <3> QED BY <1>7, <3>3, <3>4 DEF FirstAdded
  <2> QED BY <1>3, <2>1, <2>2
<1> QED BY <1>10, <1>11, <1>12 DEF Scripted

(* A task is joint with the task that adds it, which has the same rank.    *)
LEMMA MergeRanked ==
  ASSUME QueueInv, Nested, Phases, Ranked, UNCHANGED program, NEW th \in Thread, AddMerge(th)
  PROVE  Ranked'
<1>1. PICK f, b : /\ f.op = "add" /\ f.step = "merge" /\ Stepped(f, b, "deps")
                  /\ Turn(th, f, <<b>>) /\ MergeNodes(f.instr.task, f.instr.joint)
  BY AddMergeTurn
<1>2. f = stack[th][1] /\ 1 \in DOMAIN stack[th] /\ program \in Programs
  BY <1>1, TurnFrames DEF QueueInv, Typed
<1>3. PICK g, m : /\ <<HomeOf(g), m>> \in Places(program)
                  /\ InstrAt(program, <<HomeOf(g), m>>) = f.instr
  <2>1. PICK k \in DOMAIN stack[th] : k = 1 /\ f = stack[th][k]
    BY <1>2
  <2>2. f.op = "add"
    BY <1>1
  <2>3. \E g, m : ComesFrom(f, g, m)
    BY <2>1, <2>2, AddPlace
  <2> QED BY <2>3 DEF ComesFrom
<1>4. PICK pl, n1, n2 : pl = <<HomeOf(g), m>> /\ n1 = f.instr.task /\ n2 = f.instr.joint
  OBVIOUS
<1>5. n2 # None
  BY <1>1, <1>2, <1>4 DEF Phases, PhaseOf
<1>6. pl[1] # None /\ InstrAt(program, pl).joint = pl[1] /\ pl[1] = n2
  BY <1>2, <1>3, <1>4, <1>5, ProgramOrder
<1>7. \A rank \in Ranks(program) : rank[n2] = rank[n1]
  BY <1>3, <1>4, <1>6 DEF Ranks
<1>8. PICK G : G = group[n1] \cup group[n2]
  OBVIOUS
<1>9. /\ group' = [n \in Node |-> IF n \in G THEN G ELSE group[n]] /\ deps' = deps
      /\ n1 \in added /\ n2 \in added
  BY <1>1, <1>4, <1>8 DEF MergeNodes, Mergeable
<1>10. n1 \in Node /\ n2 \in Node
  BY <1>9 DEF QueueInv, TopoInv, TopoTypeOK
<1>11. Ranks(program)' = Ranks(program)
  BY DEF Ranks, Places, InstrAt, Codes
<1>12. ASSUME NEW rank \in Ranks(program), NEW t \in Node
       PROVE  /\ \A d \in deps'[t] : rank[d] < rank[t]
              /\ \A x \in group'[t] : rank[x] = rank[t]
  <2>1. \A x \in G : rank[x] = rank[n1]
    BY <1>7, <1>8, <1>10 DEF Ranked
  <2>2. ASSUME NEW x \in group'[t]
        PROVE  rank[x] = rank[t]
    <3>1. CASE t \in G
      BY <1>9, <2>1, <2>2, <3>1
    <3>2. CASE t \notin G
      BY <1>9, <2>2, <3>2 DEF Ranked
    <3> QED BY <3>1, <3>2
  <2> QED BY <1>9, <2>2 DEF Ranked
<1> QED BY <1>11, <1>12 DEF Ranked

LEMMA AddDepsRanked ==
  ASSUME QueueInv, Nested, Ranked, UNCHANGED program, NEW th \in Thread, AddDepsAndPublish(th)
  PROVE  Ranked'
<1>1. PICK f, b, i :
         /\ f.op = "add" /\ f.step = "deps" /\ f.instr = i /\ i \in AddInstr
         /\ Stepped(f, b, "leave")
         /\ AddDeps(i.task, i.deps) /\ notDispatched' = notDispatched \cup {i.task}
         /\ \/ Turn(th, f, <<b>>)
            \/ \E a \in Frame : /\ a.op = "dispatch" /\ a.step = "enter"
                                /\ a.inplace \in BOOLEAN /\ Turn(th, f, <<a, b>>)
  BY AddDepsTurn
<1>2. f = stack[th][1] /\ 1 \in DOMAIN stack[th] /\ program \in Programs
  BY <1>1, TurnFrames DEF QueueInv, Typed
<1>3. PICK g, m : /\ <<HomeOf(g), m>> \in Places(program)
                  /\ InstrAt(program, <<HomeOf(g), m>>) = f.instr
  <2>1. PICK k \in DOMAIN stack[th] : k = 1 /\ f = stack[th][k]
    BY <1>2
  <2>2. f.op = "add"
    BY <1>1
  <2>3. \E g, m : ComesFrom(f, g, m)
    BY <2>1, <2>2, AddPlace
  <2> QED BY <2>3 DEF ComesFrom
<1>4. PICK pl : pl = <<HomeOf(g), m>>
  OBVIOUS
<1>5. pl \in Places(program) /\ InstrAt(program, pl) = i
  BY <1>1, <1>3, <1>4
<1>6. \A rank \in Ranks(program) : \A d \in i.deps : rank[d] < rank[i.task]
  <2> SUFFICES ASSUME NEW rank \in Ranks(program), NEW d \in i.deps
               PROVE  rank[d] < rank[i.task]
    OBVIOUS
  <2>1. \A p \in Places(program) : \A e \in InstrAt(program, p).deps :
          rank[e] < rank[InstrAt(program, p).task]
    BY DEF Ranks
  <2> QED BY <1>5, <2>1
<1>7. deps' = [deps EXCEPT ![i.task] = @ \cup i.deps] /\ group' = group
  BY <1>1 DEF AddDeps
<1>8. Ranks(program)' = Ranks(program)
  BY DEF Ranks, Places, InstrAt, Codes
<1>9. deps \in [Node -> SUBSET Node]
  BY DEF QueueInv, TopoInv, TopoTypeOK
<1>10. ASSUME NEW rank \in Ranks(program), NEW t \in Node
       PROVE  /\ \A d \in deps'[t] : rank[d] < rank[t]
              /\ \A x \in group'[t] : rank[x] = rank[t]
  <2>1. \A x \in group'[t] : rank[x] = rank[t]
    BY <1>7 DEF Ranked
  <2>2. ASSUME NEW d \in deps'[t]
        PROVE  rank[d] < rank[t]
    <3>1. d \in deps[t] \/ (t = i.task /\ d \in i.deps)
      BY <1>7, <1>9, <2>2
    <3> QED BY <1>6, <3>1 DEF Ranked
  <2> QED BY <2>1, <2>2
<1> QED BY <1>8, <1>10 DEF Ranked

LEMMA ThrowScripted ==
  ASSUME QueueInv, Scripted, UNCHANGED <<program, added, runs>>, NEW th \in Thread,
         stack[th] # <<>>, Top(th).op # "take", Throw(th)
  PROVE  Scripted'
<1>1. PICK c, g, fs : Thrown(th, c, g, fs)
  BY ThrowTurn
<1>2. Moves(th, c, fs) /\ \A i \in DOMAIN fs : fs[i].op \in {"end", "sweep", "done"}
  BY <1>1 DEF Thrown
<1>3. \A i \in DOMAIN fs : Executed(fs[i])
  BY <1>2, ExecutedFree
<1> QED BY <1>2, <1>3, ScriptedMove

LEMMA StepOrderly ==
  ASSUME QueueInv, Nested, Phases, Orderly, UNCHANGED program, NEW th \in Thread, Step(th)
  PROVE  Orderly'
<1>0. Scripted /\ Ranked
  BY DEF Orderly
<1>1. ASSUME UNCHANGED <<deps, group>>, Scripted'
      PROVE  Orderly'
  BY <1>0, <1>1, RankedSame DEF Orderly
<1>2. CASE CacheHit(th) \/ SignalReady(th)
  <2>1. PICK f, b : /\ Advanced(f, b) /\ Turn(th, f, <<b>>)
                    /\ f.at \in DOMAIN CodeOf(f) /\ CodeOf(f)[f.at].op \in {"add", "signal_ready"}
                    /\ CodeOf(f)[f.at].op = "add" => CodeOf(f)[f.at].task \in added
    BY <1>2, HitTurn
  <2>2. UNCHANGED <<added, deps, group, runs>>
    BY <1>2 DEF CacheHit, SignalReady, topoVars, seenVars
  <2>3. PICK fs : fs = <<b>>
    OBVIOUS
  <2>4. Executed(b)
    BY <1>0, <2>1, <2>3, ExecutedOne
  <2> QED BY <1>0, <1>1, <2>1, <2>2, <2>4, ScriptedTurn
<1>3. CASE AddTask(th)
  <2>1. runs' = runs
    BY <1>3 DEF AddTask, seenVars
  <2>2. Scripted'
    BY <1>0, <1>3, <2>1, AddTaskScripted
  <2>3. PICK n : AddNode(n)
    BY <1>3, AddTaskTurn
  <2>4. group' = [group EXCEPT ![n] = {n}] /\ deps' = deps
    BY <2>3 DEF AddNode
  <2>5. group \in [Node -> SUBSET Node]
    BY DEF QueueInv, TopoInv, TopoTypeOK
  <2>6. Ranks(program)' = Ranks(program)
    BY DEF Ranks, Places, InstrAt, Codes
  <2>7. \A t \in Node : \A m \in group'[t] : m \in group[t] \/ m = t
    BY <2>4, <2>5
  <2>8. Ranked'
    BY <1>0, <2>4, <2>6, <2>7 DEF Ranked
  <2> QED BY <2>2, <2>8 DEF Orderly
<1>4. CASE AddMerge(th)
  <2>1. PICK f, b : /\ f.op = "add" /\ f.step = "merge" /\ Stepped(f, b, "deps")
                    /\ Turn(th, f, <<b>>) /\ MergeNodes(f.instr.task, f.instr.joint)
    BY <1>4, AddMergeTurn
  <2>2. added' = added /\ runs' = runs
    BY <1>4, <2>1 DEF AddMerge, MergeNodes, seenVars
  <2>3. Executed(b)
    BY <2>1, ExecutedFree DEF Stepped
  <2>4. Scripted'
    BY <1>0, <2>1, <2>2, <2>3, ScriptedTurn
  <2>5. Ranked'
    BY <1>0, <1>4, MergeRanked
  <2> QED BY <2>4, <2>5 DEF Orderly
<1>5. CASE AddDepsAndPublish(th)
  <2>1. PICK f, b, i :
           /\ f.op = "add" /\ f.step = "deps" /\ f.instr = i /\ i \in AddInstr
           /\ Stepped(f, b, "leave")
           /\ AddDeps(i.task, i.deps) /\ notDispatched' = notDispatched \cup {i.task}
           /\ \/ Turn(th, f, <<b>>)
              \/ \E a \in Frame : /\ a.op = "dispatch" /\ a.step = "enter"
                                  /\ a.inplace \in BOOLEAN /\ Turn(th, f, <<a, b>>)
    BY <1>5, AddDepsTurn
  <2>2. added' = added /\ runs' = runs
    BY <1>5, <2>1 DEF AddDepsAndPublish, AddDeps, seenVars
  <2>3. Executed(b) /\ \A a : a.op = "dispatch" => Executed(a)
    BY <2>1, ExecutedFree DEF Stepped
  <2>4. Scripted'
    BY <1>0, <2>1, <2>2, <2>3, ScriptedTurn
  <2>5. Ranked'
    BY <1>0, <1>5, AddDepsRanked
  <2> QED BY <2>4, <2>5 DEF Orderly
<1>6. CASE AddLeave(th) \/ DispatchExit(th) \/ FireEnd(th) \/ PutResult(th)
  <2>1. PICK f : Turn(th, f, <<>>)
    BY <1>6, PopTurn
  <2>2. UNCHANGED <<added, deps, group, runs>>
    BY <1>6 DEF AddLeave, DispatchExit, FireEnd, PutResult, topoVars, seenVars
  <2> QED BY <1>0, <1>1, <2>1, <2>2, ScriptedTurn
<1>7. CASE DispatchEnter(th) \/ DispatchRemove(th)
  <2>1. PICK f, b, s : f.op = "dispatch" /\ Stepped(f, b, s) /\ Turn(th, f, <<b>>)
    <3>1. CASE DispatchEnter(th)
      BY <3>1, EnterTurn
    <3>2. CASE DispatchRemove(th)
      BY <3>2, RemoveTurn
    <3> QED BY <1>7, <3>1, <3>2
  <2>2. UNCHANGED <<added, deps, group, runs>>
    BY <1>7 DEF DispatchEnter, DispatchRemove, topoVars, seenVars
  <2>3. Executed(b)
    BY <2>1, ExecutedFree DEF Stepped
  <2> QED BY <1>0, <1>1, <2>1, <2>2, <2>3, ScriptedTurn
<1>8. CASE DispatchSchedule(th)
  <2>1. PICK f, a, b : /\ f.op = "dispatch" /\ f.step = "schedule" /\ Stepped(f, b, "exit")
                       /\ a \in Frame /\ a.op = "fire" /\ a.tasks = NewlyFired
                       /\ a.inplace = f.inplace /\ Turn(th, f, <<a, b>>)
                       /\ ScheduleNode(f.task)
    BY <1>8, ScheduleTurn
  <2>2. UNCHANGED <<added, deps, group, runs>>
    BY <1>8, <2>1 DEF DispatchSchedule, ScheduleNode, seenVars
  <2>3. Executed(a) /\ Executed(b)
    BY <2>1, ExecutedFree DEF Stepped
  <2> QED BY <1>0, <1>1, <2>1, <2>2, <2>3, ScriptedTurn
<1>9. CASE DispatchAll(th)
  <2>0. UNCHANGED <<added, deps, group, runs>>
    BY <1>9 DEF DispatchAll, topoVars, seenVars
  <2>1. ASSUME NEW f, NEW a, NEW b, Advanced(f, b), Turn(th, f, <<a, b>>), f.at \in DOMAIN CodeOf(f),
               CodeOf(f)[f.at].op = "dispatch_all", a.op = "sweep"
        PROVE  Orderly'
    <3>1. PICK fs : fs = <<a, b>>
      OBVIOUS
    <3>2. Executed(a) /\ Executed(b)
      BY <1>0, <2>1, <3>1, ExecutedOne, ExecutedFree
    <3> QED BY <1>0, <1>1, <2>0, <2>1, <3>2, ScriptedTurn
  <2>2. ASSUME In(th, "sweep"), Return(th)
        PROVE  Orderly'
    <3>1. PICK f : Turn(th, f, <<>>)
      BY <2>2, PopTurn
    <3> QED BY <1>0, <1>1, <2>0, <3>1, ScriptedTurn
  <2>3. ASSUME NEW f, NEW a, NEW b, b.op = "sweep", a.op = "dispatch", Turn(th, f, <<a, b>>)
        PROVE  Orderly'
    <3>1. Executed(a) /\ Executed(b)
      BY <2>3, ExecutedFree
    <3> QED BY <1>0, <1>1, <2>0, <2>3, <3>1, ScriptedTurn
  <2> QED BY <1>9, <2>1, <2>2, <2>3, SweepTurn
<1>10. ASSUME NEW t \in Node, Fire(th, t)
       PROVE  Orderly'
  <2>1. PICK f, a, b : /\ f.op = "fire" /\ t \in f.tasks /\ b.op = "fire" /\ b.tasks = f.tasks \ {t}
                       /\ a \in Frame /\ b \in Frame /\ a.op = "put" /\ a.task = t
                       /\ a.inplace = f.inplace /\ b.inplace = f.inplace
                       /\ Turn(th, f, <<a, b>>)
    BY <1>10, FireTurn
  <2>2. UNCHANGED <<added, deps, group, runs>>
    BY <1>10 DEF Fire, topoVars
  <2>3. Executed(a) /\ Executed(b)
    BY <2>1, ExecutedFree
  <2> QED BY <1>0, <1>1, <2>1, <2>2, <2>3, ScriptedTurn
<1>11. CASE Put(th)
  <2>1. UNCHANGED <<added, deps, group>>
    BY <1>11 DEF Put, topoVars
  <2>2. PICK f : /\ f \in Frame /\ f.op = "put" /\ f.task \in Node
                 /\ \/ /\ ~ f.inplace /\ Turn(th, f, <<>>)
                       /\ queued' = queued \cup {f.task} /\ runs' = runs
                    \/ /\ f.inplace /\ queued' = queued
                       /\ runs' = [runs EXCEPT ![f.task] = @ + 1]
                       /\ \E b \in Frame : /\ b = RunFrame(f.task, 1) /\ Turn(th, f, <<b>>)
                                           /\ b.op = "run" /\ b.task = f.task /\ b.at = 1
    BY <1>11, PutTurn
  <2>3. CASE Turn(th, f, <<>>) /\ runs' = runs
    BY <1>0, <1>1, <2>1, <2>3, ScriptedTurn
  <2>4. ASSUME NEW b \in Frame, b = RunFrame(f.task, 1), Turn(th, f, <<b>>),
               runs' = [runs EXCEPT ![f.task] = @ + 1]
        PROVE  Orderly'
    <3>1. f = stack[th][1] /\ 1 \in DOMAIN stack[th]
      BY <2>4, TurnFrames DEF QueueInv
    <3>2. fired[f.task] > 0 /\ runs[f.task] = 0
      BY <2>2, <3>1 DEF QueueInv, Owned, FrameOK, Owns
    <3>3. Executed(b)
      BY <1>0, <2>2, <2>4, <3>2, ExecutedNone
    <3>4. \A t \in DOMAIN program.body : runs'[t] = 0 => runs[t] = 0
      BY <2>2, <2>4, <3>2, ProgramAssumption DEF QueueInv, Typed
    <3> QED BY <1>0, <1>1, <2>1, <2>4, <3>3, <3>4, ScriptedTurn
  <2> QED BY <2>2, <2>3, <2>4
<1>12. CASE FireStopped(th) \/ RaiseTask(th)
  <2>1. /\ stack[th] # <<>> /\ Top(th).op # "take" /\ Throw(th)
        /\ UNCHANGED <<added, deps, group, runs>>
    BY <1>12 DEF FireStopped, RaiseTask, In, topoVars
  <2> QED BY <1>0, <1>1, <2>1, ThrowScripted
<1>13. CASE FinishTask(th)
  <2>1. PICK f, a, b : /\ f.op = "run" /\ f.task \in Node /\ NotifyDependants(f.task)
                       /\ a \in Frame /\ a.op = "fire" /\ a.tasks = NewlyFired
                       /\ b \in Frame /\ b.op = "done" /\ b.task = f.task /\ b.how = "ok"
                       /\ Turn(th, f, <<a, b>>)
    BY <1>13, FinishTurn
  <2>2. UNCHANGED <<added, deps, group, runs>>
    BY <1>13, <2>1 DEF FinishTask, NotifyDependants, seenVars
  <2>3. Executed(a) /\ Executed(b)
    BY <2>1, ExecutedFree
  <2> QED BY <1>0, <1>1, <2>1, <2>2, <2>3, ScriptedTurn
<1> QED BY <1>2, <1>3, <1>4, <1>5, <1>6, <1>7, <1>8, <1>9, <1>10, <1>11, <1>12, <1>13 DEF Step

LEMMA MainOrderly ==
  ASSUME QueueInv, Orderly, UNCHANGED program, Main \in Thread,
         \/ BeginProcess \/ NextLook \/ NextPending \/ NextCounter \/ NextGet
         \/ NextResult /\ At(Main, "process", "ok")
         \/ EndProgram \/ StopState \/ JoinWorkers
  PROVE  Orderly'
<1>0. Scripted /\ Ranked
  BY DEF Orderly
<1>1. UNCHANGED <<added, deps, group, runs>>
  BY DEF BeginProcess, NextLook, NextPending, NextCounter, NextGet, NextResult,
     EndProgram, StopState, JoinWorkers, topoVars, seenVars
<1>2. Scripted' => Orderly'
  BY <1>0, <1>1, RankedSame DEF Orderly
<1>3. CASE BeginProcess
  <2>1. PICK f, a, b : /\ Advanced(f, b) /\ Turn(Main, f, <<a, b>>)
                       /\ f.at \in DOMAIN CodeOf(f) /\ CodeOf(f)[f.at].op = "process"
                       /\ a \in Frame /\ a.op = "process" /\ a.step = "look"
    BY <1>3, MainTurn
  <2>2. PICK fs : fs = <<a, b>>
    OBVIOUS
  <2>3. Executed(a) /\ Executed(b)
    BY <1>0, <2>1, <2>2, ExecutedOne, ExecutedFree
  <2> QED BY <1>0, <1>1, <1>2, <2>1, <2>3, ScriptedTurn
<1>4. CASE \/ NextLook \/ NextPending \/ NextCounter \/ NextGet
           \/ NextResult /\ At(Main, "process", "ok")
           \/ EndProgram \/ StopState \/ JoinWorkers
  <2>1. ASSUME NEW f, NEW s, f.op \in {"process", "end"}, \E b : Stepped(f, b, s) /\ Turn(Main, f, <<b>>)
        PROVE  Scripted'
    <3>1. PICK b : Stepped(f, b, s) /\ Turn(Main, f, <<b>>)
      BY <2>1
    <3>2. Executed(b)
      BY <2>1, <3>1, ExecutedFree DEF Stepped
    <3> QED BY <1>0, <1>1, <3>1, <3>2, ScriptedTurn
  <2>2. ASSUME NEW f, Turn(Main, f, <<>>)
        PROVE  Scripted'
    BY <1>0, <1>1, <2>2, ScriptedTurn
  <2>3. CASE NextLook
    BY <1>2, <2>1, <2>3, MainTurn
  <2>4. CASE NextPending
    <3>1. PICK f, s : /\ f.op = "process" /\ s = (IF notDispatched = {} THEN "counter" ELSE "get")
                      /\ \E b : Stepped(f, b, s) /\ Turn(Main, f, <<b>>)
      BY <2>4, MainTurn
    <3> QED BY <1>2, <2>1, <3>1
  <2>5. CASE NextCounter
    BY <1>2, <2>1, <2>2, <2>5, MainTurn
  <2>6. CASE NextGet
    <3>1. PICK f, b, s : f.op = "process" /\ Stepped(f, b, s) /\ Turn(Main, f, <<b>>)
      BY <2>6, MainTurn
    <3> QED BY <1>2, <2>1, <3>1
  <2>7. CASE NextResult /\ At(Main, "process", "ok")
    BY <1>2, <2>1, <2>7, MainTurn
  <2>8. CASE EndProgram
    <3>1. PICK f, b : b.op = "end" /\ b.step = "stop" /\ Turn(Main, f, <<b>>)
      BY <2>8, MainTurn
    <3>2. Executed(b)
      BY <3>1, ExecutedFree
    <3> QED BY <1>0, <1>1, <1>2, <3>1, <3>2, ScriptedTurn
  <2>9. CASE StopState
    BY <1>2, <2>1, <2>9, MainTurn
  <2>10. CASE JoinWorkers
    BY <1>2, <2>1, <2>10, MainTurn
  <2> QED BY <1>4, <2>3, <2>4, <2>5, <2>6, <2>7, <2>8, <2>9, <2>10
<1> QED BY <1>3, <1>4

LEMMA ResultOrderly ==
  ASSUME QueueInv, Orderly, UNCHANGED program, Main \in Thread, NextResult,
         At(Main, "process", "exc")
  PROVE  Orderly'
<1>1. /\ stack[Main] # <<>> /\ Top(Main).op # "take" /\ Throw(Main)
      /\ UNCHANGED <<added, deps, group, runs>>
  BY DEF NextResult, At, In, topoVars
<1>2. Scripted'
  BY <1>1, ThrowScripted DEF Orderly
<1> QED BY <1>1, <1>2, RankedSame DEF Orderly

LEMMA DistOrderly ==
  ASSUME QueueInv, Orderly, UNCHANGED program, Dist \in Thread, DistReport \/ DistEnd
  PROVE  Orderly'
<1>0. Scripted /\ Ranked
  BY DEF Orderly
<1>1. UNCHANGED <<added, deps, group, runs>>
  BY DEF DistReport, DistEnd, topoVars, seenVars
<1>2. Scripted' => Orderly'
  BY <1>0, <1>1, RankedSame DEF Orderly
<1>3. CASE DistReport
  <2>1. PICK f, b : /\ b.op = "dist"
                    /\ \/ Turn(Dist, f, <<b>>)
                       \/ \E a \in Frame : /\ a.op = "dispatch" /\ a.step = "enter" /\ ~ a.inplace
                                           /\ Turn(Dist, f, <<a, b>>)
    BY <1>3, DistTurn
  <2>2. Executed(b) /\ \A a : a.op = "dispatch" => Executed(a)
    BY <2>1, ExecutedFree
  <2> QED BY <1>0, <1>1, <1>2, <2>1, <2>2, ScriptedTurn
<1>4. CASE DistEnd
  <2>1. PICK f, a, b : a.op = "sweep" /\ b.op = "end" /\ Turn(Dist, f, <<a, b>>)
    BY <1>4, DistTurn
  <2>2. Executed(a) /\ Executed(b)
    BY <2>1, ExecutedFree
  <2> QED BY <1>0, <1>1, <1>2, <2>1, <2>2, ScriptedTurn
<1> QED BY <1>3, <1>4

LEMMA WorkerOrderly ==
  ASSUME QueueInv, Nested, Orderly, UNCHANGED program, NEW w \in Worker, w \in Thread,
         CheckState(w) \/ EndWorker(w) \/ Take(w)
  PROVE  Orderly'
<1>0. Scripted /\ Ranked
  BY DEF Orderly
<1>1. UNCHANGED <<added, deps, group>>
  BY DEF CheckState, EndWorker, Take, topoVars
<1>2. Scripted' => Orderly'
  BY <1>0, <1>1, RankedSame DEF Orderly
<1>3. CASE Take(w)
  <2>1. PICK f, t, b : /\ f.op = "take" /\ t \in queued /\ queued' = queued \ {t}
                       /\ runs' = [runs EXCEPT ![t] = @ + 1]
                       /\ b \in Frame /\ b = RunFrame(t, 1) /\ b.op = "run" /\ b.task = t
                       /\ b.at = 1 /\ Turn(w, f, <<b>>)
    BY <1>3, TakeTurn
  <2>2. t \in Node /\ fired[t] > 0 /\ runs[t] = 0
    BY <2>1 DEF QueueInv, TaskOK, Typed
  <2>3. Executed(b)
    BY <1>0, <2>1, <2>2, ExecutedNone
  <2>4. \A x \in DOMAIN program.body : runs'[x] = 0 => runs[x] = 0
    BY <2>1, <2>2, ProgramAssumption DEF QueueInv, Typed
  <2> QED BY <1>0, <1>1, <1>2, <2>1, <2>3, <2>4, ScriptedTurn
<1>4. CASE CheckState(w) \/ EndWorker(w)
  <2>1. PICK fs : /\ Moves(w, Len(stack[w]), fs)
                  /\ fs = <<>> \/ \E b \in Frame : b.op = "take" /\ fs = <<b>>
    <3>1. CheckState(w) => stack[w] = <<>>
      BY DEF CheckState
    <3> QED BY <1>4, <3>1, IdleTurn
  <2>2. PICK c : c = Len(stack[w])
    OBVIOUS
  <2>3. Moves(w, c, fs)
    BY <2>1, <2>2
  <2>4. \A i \in DOMAIN fs : fs[i].op = "take"
    BY <2>1
  <2>5. \A i \in DOMAIN fs : Executed(fs[i])
    BY <2>4, ExecutedFree
  <2>6. runs' = runs
    BY <1>4 DEF CheckState, EndWorker, seenVars
  <2> QED BY <1>0, <1>1, <1>2, <2>3, <2>5, <2>6, ScriptedMove
<1> QED BY <1>3, <1>4

LEMMA SameOrderly ==
  ASSUME Orderly, UNCHANGED <<program, stack, added, deps, group, runs>>
  PROVE  Orderly'
<1>1. Ranks(program)' = Ranks(program)
  BY DEF Ranks, Places, InstrAt, Codes
<1>2. Ranked'
  BY <1>1 DEF Orderly, Ranked
<1>3. Scripted'
  <2>1. FirstAdded'
    BY FirstSame DEF Orderly, Scripted
  <2> QED BY <2>1 DEF Orderly, Scripted, Executed, AddsOf, CodeOf, RunFrame
<1> QED BY <1>2, <1>3 DEF Orderly

-----------------------------------------------------------------------------
(* When the loop of main ends there is no work.                            *)

(* The counters are zero: the frames they count are on no stack.           *)
LEMMA NoSpots ==
  ASSUME QueueInv, NEW K, Spots(K) = {}, NEW th \in Thread, NEW k \in DOMAIN stack[th]
  PROVE  stack[th][k] \notin K
<1>1. stack[th] \in Seq(Frame)
  BY DEF QueueInv, Stacks
<1>2. PICK n : n = Len(stack[th]) + 1 - k
  OBVIOUS
<1>3. n \in 1 .. Len(stack[th]) /\ Len(stack[th]) + 1 - n = k
  BY <1>1, <1>2
<1>4. stack[th][k] \in K => <<th, n>> \in Spots(K)
  BY <1>1, <1>3 DEF Spots
<1> QED BY <1>4

LEMMA CountsZero ==
  ASSUME QueueInv, Plain, Counted, ~ stopped, active = 0, dispatching = 0
  PROVE  Spots(Entered) = {} /\ Spots(Uncounted) = {} /\ queued = {} /\ outq = <<>>
<1>1. /\ Cardinality(queued) \in Nat /\ Cardinality(Spots(Uncounted)) \in Nat
      /\ Len(outq) \in Nat /\ outq \in Seq({"ok", "exc"})
  BY FS_CardinalityType DEF Counted, QueueInv, Typed
<1>2. PICK x, y, z : x = Cardinality(queued) /\ y = Cardinality(Spots(Uncounted)) /\ z = Len(outq)
  OBVIOUS
<1>3. x \in Nat /\ y \in Nat /\ z \in Nat
  BY <1>1, <1>2
<1>4. x + y + z = 0
  BY <1>2 DEF Counted
<1>5. x = 0 /\ y = 0 /\ z = 0
  BY ONLY <1>3, <1>4
<1>6. queued = {}
  BY <1>2, <1>5, FS_EmptySet DEF Counted
<1>7. Spots(Uncounted) = {}
  BY <1>2, <1>5, FS_EmptySet DEF Counted
<1>8. outq = <<>>
  BY <1>1, <1>2, <1>5, EmptySeq
<1>9. Spots(Entered) = {}
  BY FS_EmptySet DEF Counted
<1> QED BY <1>6, <1>7, <1>8, <1>9

(* Who called a frame, and who never calls.                                *)
LEMMA CallerOf ==
  ASSUME QueueInv, Nested, NEW th \in Thread, NEW k \in DOMAIN stack[th],
         stack[th][k].op \in {"add", "dispatch", "fire", "put", "sweep", "process"}
  PROVE  k + 1 \in DOMAIN stack[th] /\ CalledFrom(stack[th][k], stack[th][k + 1])
         /\ k + 1 \in 1 .. Len(stack[th]) /\ stack[th][k + 1] \in Frame
<1>1. stack[th] \in Seq(Frame) /\ k \in 1 .. Len(stack[th]) /\ stack[th] # <<>>
  BY DEF QueueInv, Stacks
<1>2. k # Len(stack[th])
  BY <1>1 DEF Nested, Bottom
<1>3. k \in 1 .. Len(stack[th]) - 1 /\ k + 1 \in DOMAIN stack[th]
  BY <1>1, <1>2
<1> QED BY <1>1, <1>3 DEF Nested

LEMMA NothingPending ==
  ASSUME QueueInv, Nested, Plain, Counted, ~ stopped, active = 0, dispatching = 0,
         Main \in Thread, stack[Main] # <<>>, Top(Main).op = "process",
         NEW th \in Thread, NEW k \in DOMAIN stack[th], th = Main => k # 1
  PROVE  Resting(stack[th][k]) /\ stack[th][k] \notin Uncounted
<1>1. Spots(Entered) = {} /\ Spots(Uncounted) = {}
  BY CountsZero
<1>2. \A a \in Thread : \A m \in DOMAIN stack[a] :
        /\ stack[a][m] \notin Entered /\ stack[a][m] \notin Uncounted /\ stack[a][m] \in Frame
  <2> SUFFICES ASSUME NEW a \in Thread, NEW m \in DOMAIN stack[a]
               PROVE  /\ stack[a][m] \notin Entered /\ stack[a][m] \notin Uncounted
                      /\ stack[a][m] \in Frame
    OBVIOUS
  <2>1. stack[a][m] \in Frame
    BY DEF QueueInv, Stacks
  <2>2. PICK E, U : E = Entered /\ U = Uncounted
    OBVIOUS
  <2>3. stack[a][m] \notin E
    BY <1>1, <2>2, NoSpots
  <2>4. stack[a][m] \notin U
    BY <1>1, <2>2, NoSpots
  <2> QED BY <2>1, <2>2, <2>3, <2>4
<1>3. Top(Main) = stack[Main][1] /\ 1 \in DOMAIN stack[Main]
  BY TopFrame DEF QueueInv
<1>4. Len(stack[Main]) = 2 /\ stack[Main][2].op = "main"
  BY <1>3, ProcessOnMain
<1>5. PICK g : g = stack[th][k]
  OBVIOUS
<1>6. g \in Frame /\ g.op \notin {"run", "done"} /\ (g.op = "dispatch" => g.step = "enter")
  BY <1>2, <1>5 DEF Entered, Uncounted
<1>7. g.op # "process"
  BY <1>5, ProcessOnMain
<1>8. g.op # "add"
  <2> SUFFICES ASSUME g.op = "add" PROVE FALSE
    OBVIOUS
  <2>1. /\ k + 1 \in 1 .. Len(stack[th]) /\ k + 1 \in DOMAIN stack[th]
        /\ stack[th][k + 1].op \in {"main", "run"} /\ stack[th][k + 1] \in Frame
    BY <1>5, CallerOf DEF CalledFrom
  <2>2. stack[th][k + 1].op = "main"
    BY <1>2, <2>1 DEF Uncounted
  <2>3. th = Main
    BY <2>1, <2>2, MainAtBottom
  <2>4. k \in Nat /\ k + 1 <= 2 /\ k >= 1
    <3>1. stack[th] \in Seq(Frame) /\ k \in 1 .. Len(stack[th])
      BY DEF QueueInv, Stacks
    <3> QED BY <1>4, <2>1, <2>3, <3>1
  <2> QED BY <2>3, <2>4
<1>9. \A a \in Thread : \A m \in DOMAIN stack[a] : stack[a][m].op # "fire"
  <2> SUFFICES ASSUME NEW a \in Thread, NEW m \in DOMAIN stack[a], stack[a][m].op = "fire"
               PROVE  FALSE
    OBVIOUS
  <2>1. /\ m + 1 \in DOMAIN stack[a] /\ stack[a][m + 1] \in Frame
        /\ \/ stack[a][m + 1].op = "done"
           \/ stack[a][m + 1].op = "dispatch" /\ stack[a][m + 1].step = "exit"
    BY CallerOf DEF CalledFrom
  <2> QED BY <1>2, <2>1 DEF Entered, Uncounted
<1>10. g.op # "put"
  <2> SUFFICES ASSUME g.op = "put" PROVE FALSE
    OBVIOUS
  <2>1. k + 1 \in DOMAIN stack[th] /\ stack[th][k + 1].op = "fire"
    BY <1>5, CallerOf DEF CalledFrom
  <2> QED BY <1>9, <2>1
<1>11. g.op # "fire"
  BY <1>5, <1>9
<1>12. g.op \in {"main", "run", "done", "add", "dispatch", "fire", "put", "sweep", "take", "dist",
                 "process", "end"}
  BY <1>6 DEF Frame
<1>13. Resting(g)
  BY <1>6, <1>7, <1>8, <1>10, <1>11, <1>12 DEF Resting
<1> QED BY <1>2, <1>5, <1>13

(* Every task that was added has been scheduled, and every task that was   *)
(* ready has ended: by the order of the ranks all have completed.          *)
LEMMA AllCompleted ==
  ASSUME QueueInv, Ranked, Ranks(program) # {}, added \subseteq scheduled,
         \A t \in Node : fired[t] > 0 => t \in semi
  PROVE  completed = added
<1>0. TopoInv
  BY DEF QueueInv
<1>1. PICK rank \in Ranks(program) : TRUE
  OBVIOUS
<1>2. rank \in [Node -> 0 .. Cardinality(Node)]
  BY DEF Ranks
<1>3. \A t \in Node : rank[t] \in Nat
  <2>1. Cardinality(Node) \in Nat
    BY NodeAssumption, FS_CardinalityType
  <2> QED BY <1>2, <2>1
<1>4. completed \subseteq added /\ added \subseteq Node
  BY <1>0 DEF TopoInv, CompletedGroups, TopoTypeOK
<1>5. SUFFICES ASSUME added \ completed # {} PROVE FALSE
  BY <1>4
<1>6. PICK S : \A n : n \in S <=> \E t \in added \ completed : n = rank[t]
  <2>1. \A n : n \in {rank[t] : t \in added \ completed} <=> \E t \in added \ completed : n = rank[t]
    OBVIOUS
  <2> QED BY <2>1
<1>7. S \subseteq Nat /\ S # {}
  BY <1>3, <1>4, <1>5, <1>6
<1>8. PICK n \in S : \A m \in S : n <= m
  BY <1>7, SmallestIn
<1>9. PICK t \in added \ completed : n = rank[t]
  BY <1>6
<1>10. PICK m \in group[t] : m \notin semi
  BY <1>0, <1>9 DEF TopoInv, CompletedGroups, GroupDone
<1>11. m \in added /\ m \in Node /\ rank[m] = n
  BY <1>0, <1>4, <1>9, <1>10 DEF TopoInv, GroupsPartition, Ranked
<1>12. deps[m] \subseteq completed
  <2> SUFFICES ASSUME NEW d \in deps[m], d \notin completed PROVE FALSE
    OBVIOUS
  <2>1. d \in added /\ d \in Node /\ rank[d] < n
    BY <1>0, <1>4, <1>11 DEF TopoInv, DepsKnown, Ranked
  <2>2. rank[d] \in S
    BY <1>6, <2>1
  <2>3. n <= rank[d] /\ rank[d] \in Nat /\ n \in Nat
    BY <1>3, <1>7, <1>8, <2>1, <2>2
  <2> QED BY <2>1, <2>3
<1>13. fired[m] = 1
  BY <1>0, <1>11, <1>12 DEF TopoInv, FiredReady
<1>14. fired[m] > 0
  BY <1>13
<1> QED BY <1>10, <1>11, <1>14

(* The loop ends: all is done.                                             *)
LEMMA DoneAtEnd ==
  ASSUME QueueInv, Nested, Plain, Counted, Kept, Phases, Orderly, Main \in Thread,
         ~ stopped, NextCounter, dispatching = 0
  PROVE  AllDone'
<1>1. PICK f : f = Top(Main)
  OBVIOUS
<1>2. /\ stack[Main] # <<>> /\ f.op = "process" /\ f.step = "counter" /\ Return(Main)
      /\ UNCHANGED <<topoVars, added, completed, notDispatched, queued, active>>
  BY <1>1 DEF NextCounter, At, In, topoVars, queueVars, poolVars
<1>3. f = stack[Main][1] /\ 1 \in DOMAIN stack[Main] /\ f \in Frame
  BY <1>1, <1>2, TopFrame DEF QueueInv
<1>4. active = 0 /\ notDispatched = {}
  BY <1>2, <1>3 DEF Phases, PhaseOf
<1>5. queued = {} /\ outq = <<>>
  BY <1>4, CountsZero
<1>6. ASSUME NEW th \in Thread, NEW k \in DOMAIN stack[th], th = Main => k # 1
      PROVE  Resting(stack[th][k]) /\ stack[th][k] \notin Uncounted
  BY <1>1, <1>2, <1>4, <1>6, NothingPending
<1>7. ASSUME NEW th \in Thread, NEW k \in DOMAIN stack[th]
      PROVE  \A t \in Node : ~ Owns(stack[th][k], t) /\ ~ Holds(stack[th][k], t)
  <2>1. CASE th = Main /\ k = 1
    BY <1>2, <1>3, <2>1 DEF Owns, Holds
  <2>2. CASE ~ (th = Main /\ k = 1)
    BY <1>6, <2>2 DEF Owns, Holds, Resting
  <2> QED BY <2>1, <2>2
<1>8. ~ failed
  <2>1. 2 \in DOMAIN stack[Main] /\ stack[Main][2].op = "main"
    <3>1. Len(stack[Main]) = 2 /\ stack[Main][2].op = "main"
      BY <1>2, <1>3, ProcessOnMain
    <3>2. stack[Main] \in Seq(Frame)
      BY DEF QueueInv, Stacks
    <3> QED BY <3>1, <3>2
  <2> QED BY <2>1 DEF Phases, PhaseOf
<1>9. raised = {}
  <2>1. ~ OnStack(Fatal)
    <3> SUFFICES ASSUME NEW th \in Thread, NEW k \in DOMAIN stack[th], stack[th][k] \in Fatal
                 PROVE  FALSE
      BY DEF OnStack
    <3>1. CASE th = Main /\ k = 1
      BY <1>2, <1>3, <3>1 DEF Fatal
    <3>2. CASE ~ (th = Main /\ k = 1)
      BY <1>6, <3>2 DEF Fatal, Uncounted
    <3> QED BY <3>1, <3>2
  <2>2. ~ \E i \in DOMAIN outq : outq[i] = "exc"
    BY <1>5
  <2> QED BY <1>8, <2>1, <2>2 DEF Kept
<1>10. \A t \in Node : fired[t] > 0 => t \in semi
  <2> SUFFICES ASSUME NEW t \in Node, fired[t] > 0 PROVE t \in semi
    OBVIOUS
  <2>1. ~ OnStack(Owners(t))
    BY <1>7 DEF OnStack, Owners
  <2> QED BY <1>5, <1>9, <2>1 DEF Kept
<1>11. added \subseteq scheduled
  <2>0. Open \subseteq Node
    BY DEF Open, QueueInv, TopoInv, TopoTypeOK
  <2>1. \A t \in Node : ~ OnStack(Holders(t))
    BY <1>7 DEF OnStack, Holders
  <2>2. Open = {}
    BY <2>0, <2>1 DEF Kept
  <2> QED BY <1>4, <2>2 DEF Open
<1>12. Ranks(program) # {}
  BY ProgramOrder DEF QueueInv, Typed
<1>13. completed = added
  BY <1>10, <1>11, <1>12, AllCompleted DEF Orderly
<1>14. PICK fs : fs = <<>>
  OBVIOUS
<1>15. Moves(Main, 1, fs)
  <2>1. Turn(Main, f, <<>>)
    BY <1>1, <1>2, TurnPop
  <2> QED BY <1>14, <2>1 DEF Turn
<1>16. \A th \in Thread : \A k \in DOMAIN stack'[th] : Resting(stack'[th][k])
  <2> SUFFICES ASSUME NEW th \in Thread, NEW k \in DOMAIN stack'[th]
               PROVE  Resting(stack'[th][k])
    OBVIOUS
  <2>1. \E m \in DOMAIN stack[th] : stack'[th][k] = stack[th][m] /\ (th = Main => m > 1)
    <3>1. DOMAIN fs = {}
      BY <1>14
    <3> QED BY <1>15, <3>1, MoveFrames DEF QueueInv
  <2>2. PICK m \in DOMAIN stack[th] : stack'[th][k] = stack[th][m] /\ (th = Main => m > 1)
    BY <2>1
  <2>3. th = Main => m # 1
    BY <2>2
  <2> QED BY <1>6, <2>2, <2>3
<1> QED BY <1>2, <1>4, <1>5, <1>13, <1>16 DEF AllDone, Resting

-----------------------------------------------------------------------------
(* Nothing begins again when the loop of main has ended.                   *)
LEMMA TopAfter ==
  ASSUME QueueInv, NEW th \in Thread, NEW f, NEW fs, Turn(th, f, fs)
  PROVE  /\ fs # <<>> => stack'[th][1] = fs[1]
         /\ fs = <<>> /\ stack'[th] # <<>> => 2 \in DOMAIN stack[th] /\ stack'[th][1] = stack[th][2]
<1>1. /\ Moves(th, 1, fs) /\ fs \in Seq(Frame) /\ stack[th] \in Seq(Frame)
      /\ stack'[th] \in Seq(Frame)
  BY DEF Turn, Moves, QueueInv, Stacks
<1>2. ASSUME fs # <<>>
      PROVE  stack'[th][1] = fs[1]
  <2>1. 1 \in DOMAIN fs
    BY <1>1, <1>2
  <2> QED BY <1>1, <2>1, MoveFrames DEF QueueInv
<1>3. ASSUME fs = <<>>, stack'[th] # <<>>
      PROVE  2 \in DOMAIN stack[th] /\ stack'[th][1] = stack[th][2]
  <2>1. Len(fs) = 0
    BY <1>3
  <2>2. Len(stack'[th]) \in Nat \ {0} /\ 1 \in DOMAIN stack'[th]
    BY <1>1, <1>3
  <2>3. stack'[th][1] = (IF 1 <= Len(fs) THEN fs[1] ELSE stack[th][(1 - Len(fs)) + 1])
    BY <1>1, <2>2 DEF Moves
  <2>4. Len(stack'[th]) = Len(fs) + (Len(stack[th]) - 1)
    BY <1>1 DEF Moves
  <2>5. Len(stack[th]) \in Nat
    BY <1>1
  <2>6. 2 \in 1 .. Len(stack[th])
    BY <2>1, <2>2, <2>4, <2>5
  <2> QED BY <1>1, <2>1, <2>3, <2>6
<1> QED BY <1>2, <1>3

LEMMA ThroughTop ==
  ASSUME QueueInv', Main \in Thread, Through'
  PROVE  /\ stack'[Main] # <<>> /\ stack'[Main][1].op = "main"
         /\ MainProg[stack'[Main][1].at - 1].op = "process" /\ ~ stopped'
<1>1. stack'[Main] \in Seq(Frame)
  BY DEF QueueInv, Stacks
<1> QED BY <1>1 DEF Through, In, Top

(* Main calls something, or goes on with a call.                           *)
LEMMA NotThroughPush ==
  ASSUME QueueInv, QueueInv', Main \in Thread, NEW f,
         \/ \E b : Turn(Main, f, <<b>>) /\ b.op # "main"
         \/ \E a, b : Turn(Main, f, <<a, b>>) /\ a.op # "main"
  PROVE  ~ Through'
<1>1. ASSUME NEW fs, Turn(Main, f, fs), fs # <<>>, fs[1].op # "main"
      PROVE  ~ Through'
  BY <1>1, TopAfter, ThroughTop
<1>2. ASSUME NEW b, Turn(Main, f, <<b>>), b.op # "main"
      PROVE  ~ Through'
  <2>1. PICK fs : fs = <<b>>
    OBVIOUS
  <2>2. fs # <<>> /\ fs[1] = b
    BY <2>1
  <2> QED BY <1>1, <1>2, <2>1, <2>2
<1>3. ASSUME NEW a, NEW b, Turn(Main, f, <<a, b>>), a.op # "main"
      PROVE  ~ Through'
  <2>1. PICK fs : fs = <<a, b>>
    OBVIOUS
  <2>2. fs # <<>> /\ fs[1] = a
    BY <2>1
  <2> QED BY <1>1, <1>3, <2>1, <2>2
<1> QED BY <1>2, <1>3

(* Main has come back from a call other than process.                      *)
LEMMA NotThroughPop ==
  ASSUME QueueInv, QueueInv', Nested, Main \in Thread, NEW f, Turn(Main, f, <<>>),
         f.op # "process"
  PROVE  ~ Through'
<1> SUFFICES ASSUME Through' PROVE FALSE
  OBVIOUS
<1>1. PICK fs : fs = <<>>
  OBVIOUS
<1>2. Turn(Main, f, fs) /\ stack[Main] \in Seq(Frame)
  BY <1>1 DEF QueueInv, Stacks
<1>3. PICK g : g = stack'[Main][1]
  OBVIOUS
<1>4. /\ stack'[Main] # <<>> /\ g.op = "main" /\ MainProg[g.at - 1].op = "process"
  BY <1>3, ThroughTop
<1>5. 2 \in DOMAIN stack[Main] /\ g = stack[Main][2]
  BY <1>1, <1>2, <1>3, <1>4, TopAfter
<1>6. f = stack[Main][1] /\ f \in Frame
  BY <1>2, TurnFrames DEF QueueInv, Turn
<1>7. 1 \in 1 .. Len(stack[Main]) - 1
  BY <1>2, <1>5
<1>8. CalledFrom(f, g)
  <2>1. PICK k \in 1 .. Len(stack[Main]) - 1 : k = 1
    BY <1>7
  <2>2. CalledFrom(stack[Main][k], stack[Main][k + 1])
    BY DEF Nested
  <2> QED BY <1>5, <1>6, <2>1, <2>2
<1>9. CASE f.op = "add"
  <2>1. f.instr = MainProg[g.at - 1] /\ f.instr \in AddInstr
    BY <1>4, <1>6, <1>8, <1>9, FieldsTyped DEF CalledFrom, CodeOf
  <2> QED BY <1>4, <2>1 DEF AddInstr
<1>10. CASE f.op = "sweep"
  BY <1>4, <1>8, <1>10 DEF CalledFrom, CodeOf
<1> QED BY <1>4, <1>8, <1>9, <1>10 DEF CalledFrom

(* Main has gone on to an instruction behind one other than process.       *)
LEMMA NotThroughAdvance ==
  ASSUME QueueInv, QueueInv', Main \in Thread, NEW f, NEW b, Advanced(f, b), Turn(Main, f, <<b>>),
         CodeOf(f)[f.at].op # "process"
  PROVE  ~ Through'
<1> SUFFICES ASSUME Through' PROVE FALSE
  OBVIOUS
<1>1. PICK fs : fs = <<b>>
  OBVIOUS
<1>2. fs # <<>> /\ fs[1] = b /\ Turn(Main, f, fs)
  BY <1>1
<1>3. stack'[Main][1] = b
  BY <1>2, TopAfter
<1>4. b.op = "main" /\ MainProg[b.at - 1].op = "process"
  BY <1>3, ThroughTop
<1>5. b.at - 1 = f.at /\ CodeOf(f) = MainProg
  BY <1>4 DEF Advanced, CodeOf
<1> QED BY <1>4, <1>5

(* An exception never brings main back behind its loop.                    *)
LEMMA ThrowThrough ==
  ASSUME QueueInv, QueueInv', Main \in Thread, stack[Main] # <<>>, Top(Main).op # "take",
         Throw(Main)
  PROVE  ~ Through'
<1>1. PICK c, g, fs : Thrown(Main, c, g, fs)
  BY ThrowTurn
<1>2. Moves(Main, c, fs) /\ 1 \in DOMAIN fs /\ fs[1].op \in {"end", "sweep", "done"}
  BY <1>1 DEF Thrown
<1>3. stack'[Main][1] = fs[1]
  BY <1>2, MoveFrames DEF QueueInv
<1> QED BY <1>2, <1>3, ThroughTop

(* The steps of main besides the one that ends the loop.                   *)
LEMMA MainStepThrough ==
  ASSUME QueueInv, QueueInv', Nested, Main \in Thread, Step(Main)
  PROVE  ~ Through'
<1>1. CASE CacheHit(Main) \/ SignalReady(Main)
  <2>1. PICK f, b : /\ Advanced(f, b) /\ Turn(Main, f, <<b>>)
                    /\ f.at \in DOMAIN CodeOf(f) /\ CodeOf(f)[f.at].op \in {"add", "signal_ready"}
                    /\ CodeOf(f)[f.at].op = "add" => CodeOf(f)[f.at].task \in added
    BY <1>1, HitTurn
  <2> QED BY <2>1, NotThroughAdvance
<1>2. CASE AddTask(Main)
  <2>1. PICK f, a, b, i :
           /\ Advanced(f, b) /\ Turn(Main, f, <<a, b>>) /\ f.at \in DOMAIN CodeOf(f)
           /\ i = CodeOf(f)[f.at] /\ i.op = "add" /\ i \in AddInstr
           /\ a \in Frame /\ a.op = "add" /\ a.instr = i /\ a.step \in {"merge", "deps"}
           /\ a.step = "merge" => i.joint # None
           /\ AddNode(i.task)
    BY <1>2, AddTaskTurn
  <2> QED BY <2>1, NotThroughPush
<1>3. CASE AddMerge(Main)
  <2>1. PICK f, b : /\ f.op = "add" /\ Stepped(f, b, "deps") /\ Turn(Main, f, <<b>>)
    BY <1>3, AddMergeTurn
  <2>2. b.op # "main"
    BY <2>1 DEF Stepped
  <2> QED BY <2>1, <2>2, NotThroughPush
<1>4. CASE AddDepsAndPublish(Main)
  <2>1. PICK f, b, i :
           /\ f.op = "add" /\ f.step = "deps" /\ f.instr = i /\ i \in AddInstr
           /\ Stepped(f, b, "leave")
           /\ AddDeps(i.task, i.deps) /\ notDispatched' = notDispatched \cup {i.task}
           /\ \/ Turn(Main, f, <<b>>)
              \/ \E a \in Frame : /\ a.op = "dispatch" /\ a.step = "enter"
                                  /\ a.inplace \in BOOLEAN /\ Turn(Main, f, <<a, b>>)
    BY <1>4, AddDepsTurn
  <2>2. b.op # "main"
    BY <2>1 DEF Stepped
  <2> QED BY <2>1, <2>2, NotThroughPush
<1>5. CASE AddLeave(Main) \/ DispatchExit(Main) \/ FireEnd(Main) \/ PutResult(Main)
  <2>1. PICK f : /\ Turn(Main, f, <<>>)
                 /\ AddLeave(Main) => f.op = "add" /\ f.step = "leave"
                 /\ DispatchExit(Main) => f.op = "dispatch" /\ f.step = "exit"
                 /\ FireEnd(Main) => f.op = "fire" /\ f.tasks = {}
                 /\ PutResult(Main) => f.op = "done" /\ outq' = Append(outq, f.how)
    BY <1>5, PopTurn
  <2>2. f.op # "process"
    BY <1>5, <2>1
  <2> QED BY <2>1, <2>2, NotThroughPop
<1>6. CASE DispatchEnter(Main) \/ DispatchRemove(Main)
  <2>1. PICK f, b, s : f.op = "dispatch" /\ Stepped(f, b, s) /\ Turn(Main, f, <<b>>)
    <3>1. CASE DispatchEnter(Main)
      BY <3>1, EnterTurn
    <3>2. CASE DispatchRemove(Main)
      BY <3>2, RemoveTurn
    <3> QED BY <1>6, <3>1, <3>2
  <2>2. b.op # "main"
    BY <2>1 DEF Stepped
  <2> QED BY <2>1, <2>2, NotThroughPush
<1>7. CASE DispatchSchedule(Main)
  <2>1. PICK f, a, b : a.op = "fire" /\ Turn(Main, f, <<a, b>>)
    BY <1>7, ScheduleTurn
  <2> QED BY <2>1, NotThroughPush
<1>8. CASE DispatchAll(Main)
  <2>1. ASSUME NEW f, NEW a, NEW b, Turn(Main, f, <<a, b>>), a.op \in {"sweep", "dispatch"}
        PROVE  ~ Through'
    <3>1. a.op # "main"
      BY <2>1
    <3> QED BY <2>1, <3>1, NotThroughPush
  <2>2. ASSUME In(Main, "sweep"), Return(Main)
        PROVE  ~ Through'
    <3>1. PICK f : Turn(Main, f, <<>>) /\ f.op = "sweep"
      BY <2>2, PopTurn
    <3> QED BY <3>1, NotThroughPop
  <2> QED BY <1>8, <2>1, <2>2, SweepTurn
<1>9. ASSUME NEW t \in Node, Fire(Main, t)
      PROVE  ~ Through'
  <2>1. PICK f, a, b : a.op = "put" /\ Turn(Main, f, <<a, b>>)
    BY <1>9, FireTurn
  <2> QED BY <2>1, NotThroughPush
<1>10. CASE Put(Main)
  <2>1. PICK f : /\ f.op = "put"
                 /\ \/ Turn(Main, f, <<>>)
                    \/ \E b \in Frame : b.op = "run" /\ Turn(Main, f, <<b>>)
    BY <1>10, PutTurn
  <2>2. f.op # "process"
    BY <2>1
  <2>3. \A b : b.op = "run" => b.op # "main"
    OBVIOUS
  <2> QED BY <2>1, <2>2, <2>3, NotThroughPop, NotThroughPush
<1>11. CASE FireStopped(Main) \/ RaiseTask(Main)
  <2>1. stack[Main] # <<>> /\ Top(Main).op # "take" /\ Throw(Main)
    BY <1>11 DEF FireStopped, RaiseTask, In
  <2> QED BY <2>1, ThrowThrough
<1>12. CASE FinishTask(Main)
  <2>1. PICK f, a, b : a.op = "fire" /\ Turn(Main, f, <<a, b>>)
    BY <1>12, FinishTurn
  <2> QED BY <2>1, NotThroughPush
<1> QED BY <1>1, <1>2, <1>3, <1>4, <1>5, <1>6, <1>7, <1>8, <1>9, <1>10, <1>11, <1>12 DEF Step

(* What the other threads can still do then.                               *)
LEMMA RestMove ==
  ASSUME QueueInv, AllDone, UNCHANGED <<completed, added, queued, active>>, notDispatched' = {},
         NEW th \in Thread, NEW c, NEW fs, Moves(th, c, fs), \A i \in DOMAIN fs : Resting(fs[i])
  PROVE  AllDone'
<1>1. ASSUME NEW a \in Thread, NEW k \in DOMAIN stack'[a]
      PROVE  Resting(stack'[a][k])
  <2>1. \/ a = th /\ k \in DOMAIN fs /\ stack'[a][k] = fs[k]
        \/ \E m \in DOMAIN stack[a] : stack'[a][k] = stack[a][m]
    BY <1>1, MoveFrames DEF QueueInv
  <2> QED BY <2>1 DEF AllDone
<1> QED BY <1>1 DEF AllDone, Resting

LEMMA RestTurn ==
  ASSUME QueueInv, AllDone, UNCHANGED <<completed, added, queued, active>>, notDispatched' = {},
         NEW th \in Thread, NEW f,
         \/ Turn(th, f, <<>>)
         \/ \E b : Turn(th, f, <<b>>) /\ Resting(b)
         \/ \E a, b : Turn(th, f, <<a, b>>) /\ Resting(a) /\ Resting(b)
  PROVE  AllDone'
<1>1. ASSUME NEW fs, Turn(th, f, fs), \A i \in DOMAIN fs : Resting(fs[i])
      PROVE  AllDone'
  BY <1>1, RestMove DEF Turn
<1>2. CASE Turn(th, f, <<>>)
  <2>1. PICK fs : fs = <<>>
    OBVIOUS
  <2> QED BY <1>1, <1>2, <2>1
<1>3. ASSUME NEW b, Turn(th, f, <<b>>), Resting(b)
      PROVE  AllDone'
  <2>1. PICK fs : fs = <<b>>
    OBVIOUS
  <2>2. \A i \in DOMAIN fs : fs[i] = b
    BY <2>1
  <2> QED BY <1>1, <1>3, <2>1, <2>2
<1>4. ASSUME NEW a, NEW b, Turn(th, f, <<a, b>>), Resting(a), Resting(b)
      PROVE  AllDone'
  <2>1. PICK fs : fs = <<a, b>>
    OBVIOUS
  <2>2. \A i \in DOMAIN fs : fs[i] = a \/ fs[i] = b
    BY <2>1
  <2> QED BY <1>1, <1>4, <2>1, <2>2
<1> QED BY <1>2, <1>3, <1>4

LEMMA StepRest ==
  ASSUME QueueInv, Nested, AllDone, NEW th \in Thread, th # Main, Step(th)
  PROVE  AllDone'
<1>1. PICK f : f = Top(th)
  OBVIOUS
<1>2. stack[th] # <<>>
  BY DEF Step, CacheHit, AddTask, AddMerge, AddDepsAndPublish, AddLeave, SignalReady,
         DispatchEnter, DispatchRemove, DispatchSchedule, DispatchExit, DispatchAll, Fire, Put,
         FireEnd, FireStopped, FinishTask, RaiseTask, PutResult, AtCall, At, In
<1>3. f = stack[th][1] /\ 1 \in DOMAIN stack[th]
  BY <1>1, <1>2, TopFrame DEF QueueInv
<1>4. Resting(f) /\ f.op # "main"
  BY <1>3, MainAtBottom DEF AllDone
<1>5. f.op \in {"take", "dist", "sweep", "end"} \/ (f.op = "dispatch" /\ f.step # "schedule")
  BY <1>4 DEF Resting
<1>6. DispatchEnter(th) \/ DispatchRemove(th) \/ DispatchExit(th) \/ DispatchAll(th)
  BY <1>1, <1>5 DEF Step, CacheHit, AddTask, AddMerge, AddDepsAndPublish, AddLeave, SignalReady,
         DispatchSchedule, Fire, Put,
         FireEnd, FireStopped, FinishTask, RaiseTask, PutResult, AtCall, At, In
<1>7. UNCHANGED <<completed, added, queued, active>>
  BY <1>6 DEF DispatchEnter, DispatchRemove, DispatchExit, DispatchAll, topoVars, poolVars
<1>8. notDispatched = {}
  BY DEF AllDone
<1>9. CASE DispatchEnter(th)
  <2>1. PICK g, b : g.op = "dispatch" /\ Stepped(g, b, "remove") /\ Turn(th, g, <<b>>)
    BY <1>9, EnterTurn
  <2>2. Resting(b)
    BY <2>1 DEF Stepped, Resting
  <2>3. notDispatched' = {}
    BY <1>8, <1>9 DEF DispatchEnter
  <2> QED BY <1>7, <2>1, <2>2, <2>3, RestTurn
<1>10. CASE DispatchRemove(th)
  <2>1. PICK g, b, s : /\ g.op = "dispatch" /\ g.step = "remove" /\ Stepped(g, b, s)
                       /\ s \in {"schedule", "exit"} /\ Turn(th, g, <<b>>)
                       /\ s = "schedule" <=> g.task \in notDispatched
                       /\ notDispatched' = notDispatched \ {g.task}
    BY <1>10, RemoveTurn
  <2>2. s # "schedule" /\ notDispatched' = {}
    BY <1>8, <2>1
  <2>3. Resting(b)
    BY <2>1, <2>2 DEF Stepped, Resting
  <2> QED BY <1>7, <2>1, <2>2, <2>3, RestTurn
<1>11. CASE DispatchExit(th)
  <2>1. PICK g : Turn(th, g, <<>>)
    BY <1>11, PopTurn
  <2>2. notDispatched' = {}
    BY <1>8, <1>11 DEF DispatchExit
  <2> QED BY <1>7, <2>1, <2>2, RestTurn
<1>12. CASE DispatchAll(th)
  <2>1. notDispatched' = {}
    BY <1>8, <1>12 DEF DispatchAll, queueVars
  <2>2. ASSUME NEW g, NEW a, NEW b, Advanced(g, b), Turn(th, g, <<a, b>>)
        PROVE  FALSE
    BY <1>1, <1>5, <2>2 DEF Turn, Advanced
  <2>3. ASSUME In(th, "sweep"), Return(th)
        PROVE  AllDone'
    <3>1. PICK g : Turn(th, g, <<>>)
      BY <2>3, PopTurn
    <3> QED BY <1>7, <2>1, <3>1, RestTurn
  <2>4. ASSUME NEW g, NEW a, NEW b, b.op = "sweep", a.op = "dispatch", a.step = "enter",
               Turn(th, g, <<a, b>>)
        PROVE  AllDone'
    <3>1. Resting(a) /\ Resting(b)
      BY <2>4 DEF Resting
    <3> QED BY <1>7, <2>1, <2>4, <3>1, RestTurn
  <2> QED BY <1>12, <2>2, <2>3, <2>4, SweepTurn
<1> QED BY <1>6, <1>9, <1>10, <1>11, <1>12

LEMMA ThroughSame ==
  ASSUME stack'[Main] = stack[Main], stopped' = stopped, Through'
  PROVE  Through
BY DEF Through, In, Top

(* A call of one thread leaves the frames of the others alone.             *)
LEMMA StepOthers ==
  ASSUME NEW th, NEW a, a # th, Step(th)
  PROVE  stack'[a] = stack[a]
<1>1. \E fs : stack' = [stack EXCEPT ![th] = fs]
  <2>1. \A fs : Goto(th, fs) => stack' = [stack EXCEPT ![th] = fs \o Tail(@)]
    BY DEF Goto
  <2>2. Throw(th) => \E fs : stack' = [stack EXCEPT ![th] = fs]
    BY DEF Throw
  <2> QED BY <2>1, <2>2 DEF Step, CacheHit, AddTask, AddMerge, AddDepsAndPublish, AddLeave,
         SignalReady, DispatchEnter, DispatchRemove, DispatchSchedule, DispatchExit, DispatchAll,
         Fire, Put, FireEnd, FireStopped, FinishTask, RaiseTask, PutResult, Return, GoStep, Call
<1> QED BY <1>1

LEMMA StepFinished ==
  ASSUME QueueInv, QueueInv', Nested, Finished, Main \in Thread, NEW th \in Thread, Step(th)
  PROVE  Finished'
<1>1. CASE th = Main
  BY <1>1, MainStepThrough DEF Finished
<1>2. CASE th # Main
  <2> SUFFICES ASSUME Through' PROVE AllDone'
    BY DEF Finished
  <2>1. stopped' = stopped
    BY DEF Step, CacheHit, AddTask, AddMerge, AddDepsAndPublish, AddLeave, SignalReady,
           DispatchEnter, DispatchRemove, DispatchSchedule, DispatchExit, DispatchAll, Fire, Put,
           FireEnd, FireStopped, FinishTask, RaiseTask, PutResult, endVars
  <2>2. stack'[Main] = stack[Main]
    BY <1>2, StepOthers
  <2> QED BY <1>2, <2>1, <2>2, ThroughSame, StepRest DEF Finished
<1> QED BY <1>1, <1>2

LEMMA MainFinished ==
  ASSUME QueueInv, QueueInv', Nested, Plain, Counted, Kept, Phases, Orderly, Main \in Thread,
         \/ BeginProcess \/ NextLook \/ NextPending \/ NextCounter \/ NextGet
         \/ NextResult /\ At(Main, "process", "ok")
         \/ EndProgram \/ StopState \/ JoinWorkers
  PROVE  Finished'
<1>1. ASSUME NEW f, NEW s, f.op \in {"process", "end"}, \E b : Stepped(f, b, s) /\ Turn(Main, f, <<b>>)
      PROVE  Finished'
  <2>1. PICK b : Stepped(f, b, s) /\ Turn(Main, f, <<b>>)
    BY <1>1
  <2>2. b.op # "main"
    BY <1>1, <2>1 DEF Stepped
  <2> QED BY <2>1, <2>2, NotThroughPush DEF Finished
<1>2. CASE BeginProcess
  <2>1. PICK f, a, b : a.op = "process" /\ Turn(Main, f, <<a, b>>)
    BY <1>2, MainTurn
  <2> QED BY <2>1, NotThroughPush DEF Finished
<1>3. CASE NextLook
  BY <1>1, <1>3, MainTurn
<1>4. CASE NextPending
  <2>1. PICK f, s : /\ f.op = "process" /\ s = (IF notDispatched = {} THEN "counter" ELSE "get")
                    /\ \E b : Stepped(f, b, s) /\ Turn(Main, f, <<b>>)
    BY <1>4, MainTurn
  <2> QED BY <1>1, <2>1
<1>5. CASE NextCounter
  <2>1. PICK f : /\ f.op = "process"
                 /\ \/ dispatching = 0 /\ Turn(Main, f, <<>>)
                    \/ \E b : Stepped(f, b, "get") /\ Turn(Main, f, <<b>>)
    BY <1>5, MainTurn
  <2>2. CASE dispatching = 0 /\ Turn(Main, f, <<>>)
    <3>1. stopped' = stopped
      BY <1>5 DEF NextCounter, endVars
    <3>2. CASE stopped
      BY <3>1, <3>2 DEF Finished, Through
    <3>3. CASE ~ stopped
      BY <1>5, <2>2, <3>3, DoneAtEnd DEF Finished
    <3> QED BY <3>2, <3>3
  <2> QED BY <1>1, <2>1, <2>2
<1>6. CASE NextGet
  <2>1. PICK f, b, s : f.op = "process" /\ Stepped(f, b, s) /\ Turn(Main, f, <<b>>)
    BY <1>6, MainTurn
  <2> QED BY <1>1, <2>1
<1>7. CASE NextResult /\ At(Main, "process", "ok")
  <2>1. PICK f, b : f.op = "process" /\ Stepped(f, b, "look") /\ Turn(Main, f, <<b>>)
    BY <1>7, MainTurn
  <2> QED BY <1>1, <2>1
<1>8. CASE EndProgram
  <2>1. PICK f, b : b.op = "end" /\ Turn(Main, f, <<b>>)
    BY <1>8, MainTurn
  <2> QED BY <2>1, NotThroughPush DEF Finished
<1>9. CASE StopState
  BY <1>1, <1>9, MainTurn
<1>10. CASE JoinWorkers
  BY <1>1, <1>10, MainTurn
<1> QED BY <1>2, <1>3, <1>4, <1>5, <1>6, <1>7, <1>8, <1>9, <1>10

LEMMA ResultFinished ==
  ASSUME QueueInv, QueueInv', Main \in Thread, NextResult, At(Main, "process", "exc")
  PROVE  Finished'
<1>1. stack[Main] # <<>> /\ Top(Main).op # "take" /\ Throw(Main)
  BY DEF NextResult, At, In
<1> QED BY <1>1, ThrowThrough DEF Finished

LEMMA DistFinished ==
  ASSUME QueueInv, Finished, Dist \in Thread, DistReport \/ DistEnd
  PROVE  Finished'
<1> SUFFICES ASSUME Through' PROVE AllDone'
  BY DEF Finished
<1>0. Main # Dist
  BY ProgramAssumption
<1>1. stack'[Main] = stack[Main] /\ stopped' = stopped
  <2>1. \A fs : Goto(Dist, fs) => stack'[Main] = stack[Main]
    BY <1>0 DEF Goto
  <2>2. stack'[Main] = stack[Main]
    BY <2>1 DEF DistReport, DistEnd
  <2>3. stopped' = stopped
    BY DEF DistReport, DistEnd, endVars
  <2> QED BY <2>2, <2>3
<1>2. AllDone
  BY <1>1, ThroughSame DEF Finished
<1>3. UNCHANGED <<completed, added, queued, active>> /\ notDispatched' = {}
  BY <1>2 DEF DistReport, DistEnd, topoVars, poolVars, queueVars, AllDone
<1>4. CASE DistReport
  <2>1. PICK f, b : /\ b.op = "dist"
                    /\ \/ Turn(Dist, f, <<b>>)
                       \/ \E a \in Frame : /\ a.op = "dispatch" /\ a.step = "enter" /\ ~ a.inplace
                                           /\ Turn(Dist, f, <<a, b>>)
    BY <1>4, DistTurn
  <2>2. Resting(b) /\ \A a : a.op = "dispatch" /\ a.step = "enter" => Resting(a)
    BY <2>1 DEF Resting
  <2> QED BY <1>2, <1>3, <2>1, <2>2, RestTurn
<1>5. CASE DistEnd
  <2>1. PICK f, a, b : a.op = "sweep" /\ b.op = "end" /\ Turn(Dist, f, <<a, b>>)
    BY <1>5, DistTurn
  <2>2. Resting(a) /\ Resting(b)
    BY <2>1 DEF Resting
  <2> QED BY <1>2, <1>3, <2>1, <2>2, RestTurn
<1> QED BY <1>4, <1>5

LEMMA WorkerFinished ==
  ASSUME QueueInv, Nested, Finished, NEW w \in Worker, w \in Thread,
         CheckState(w) \/ EndWorker(w) \/ Take(w)
  PROVE  Finished'
<1> SUFFICES ASSUME Through' PROVE AllDone'
  BY DEF Finished
<1>0. Main # w
  BY ProgramAssumption
<1>1. stack'[Main] = stack[Main] /\ stopped' = stopped
  <2>1. \E fs : stack' = [stack EXCEPT ![w] = fs]
    BY DEF CheckState, EndWorker, Take, Goto
  <2>2. stack'[Main] = stack[Main]
    BY <1>0, <2>1
  <2>3. stopped' = stopped
    BY DEF CheckState, EndWorker, Take, endVars
  <2> QED BY <2>2, <2>3
<1>2. AllDone /\ ~ stopped
  BY <1>1, ThroughSame DEF Finished, Through
<1>3. CheckState(w)
  BY <1>2 DEF EndWorker, Take, AllDone
<1>4. UNCHANGED <<completed, added, queued, active>> /\ notDispatched' = {}
  BY <1>2, <1>3 DEF CheckState, topoVars, poolVars, queueVars, AllDone
<1>5. PICK fs : /\ Moves(w, Len(stack[w]), fs)
                /\ fs = <<>> \/ \E b \in Frame : b.op = "take" /\ fs = <<b>>
  <2>1. stack[w] = <<>>
    BY <1>3 DEF CheckState
  <2> QED BY <1>3, <2>1, IdleTurn
<1>6. PICK c : c = Len(stack[w])
  OBVIOUS
<1>7. Moves(w, c, fs)
  BY <1>5, <1>6
<1>8. \A i \in DOMAIN fs : Resting(fs[i])
  BY <1>5 DEF Resting
<1> QED BY <1>2, <1>4, <1>7, <1>8, RestMove

LEMMA SameFinished ==
  ASSUME Finished, UNCHANGED <<stack, completed, added, queued, active, notDispatched>>,
         stopped' \/ stopped' = stopped
  PROVE  Finished'
<1> SUFFICES ASSUME Through' PROVE AllDone'
  BY DEF Finished
<1>1. stopped' = stopped
  BY DEF Through
<1>2. AllDone
  BY <1>1, ThroughSame DEF Finished
<1> QED BY <1>2 DEF AllDone, Resting

-----------------------------------------------------------------------------
(* All parts together: the invariant, and what keeps it.                   *)
SecondInv ==
  Nested /\ Counted /\ Kept /\ Phases /\ Orderly /\ Finished /\ Plain /\ Ended

LEMMA StepSecond ==
  ASSUME QueueInv, QueueInv', SecondInv, Plain', UNCHANGED program, Main \in Thread,
         NEW th \in Thread, Step(th)
  PROVE  SecondInv'
<1>1. Nested /\ Counted /\ Kept /\ Phases /\ Orderly /\ Finished /\ Plain /\ Ended
  BY DEF SecondInv
<1>2. Nested' /\ Ended'
  BY <1>1, StepNested, StepEnded
<1>3. Counted'
  BY <1>1, StepCounted
<1>4. Kept'
  BY <1>1, StepKept
<1>5. Phases'
  BY <1>1, StepPhases
<1>6. Orderly'
  BY <1>1, StepOrderly
<1>7. Finished'
  BY <1>1, StepFinished
<1> QED BY <1>2, <1>3, <1>4, <1>5, <1>6, <1>7 DEF SecondInv

(* Nothing is kept of a build that is stopped.                             *)
LEMMA KeptVoid == stopped' => Kept'
BY DEF Kept

LEMMA MainKept ==
  ASSUME QueueInv, Nested, Plain, Phases, Kept, Main \in Thread,
         \/ BeginProcess \/ NextLook \/ NextPending \/ NextCounter \/ NextGet
         \/ NextResult \/ EndProgram \/ StopState \/ JoinWorkers
  PROVE  Kept'
<1>1. CASE stopped
  <2>1. stopped'
    BY <1>1 DEF BeginProcess, NextLook, NextPending, NextCounter, NextGet, NextResult,
                EndProgram, StopState, JoinWorkers, endVars
  <2> QED BY <2>1, KeptVoid
<1>2. CASE ~ stopped
  <2>1. CASE StopState
    BY <2>1, KeptVoid DEF StopState
  <2>2. CASE JoinWorkers
    <3>1. PICK f : f = Top(Main)
      OBVIOUS
    <3>2. stack[Main] # <<>> /\ f.op = "end" /\ f.step = "join"
      BY <2>2, <3>1 DEF JoinWorkers, At, In
    <3>3. f = stack[Main][1] /\ 1 \in DOMAIN stack[Main]
      BY <3>1, <3>2, TopFrame DEF QueueInv
    <3>4. PhaseOf(Main, f)
      BY <3>3 DEF Phases
    <3> QED BY <1>2, <3>2, <3>4 DEF PhaseOf
  <2>3. CASE NextGet
    BY <1>2, <2>3, GetKept
  <2>4. CASE NextResult /\ At(Main, "process", "exc")
    BY <1>2, <2>4, ResultKept
  <2>5. CASE \/ BeginProcess \/ NextLook \/ NextPending \/ NextCounter \/ EndProgram
             \/ NextResult /\ At(Main, "process", "ok")
    BY <1>2, <2>5, SteadyMain
  <2>6. NextResult => At(Main, "process", "ok") \/ At(Main, "process", "exc")
    BY DEF NextResult
  <2> QED BY <2>1, <2>2, <2>3, <2>4, <2>5, <2>6
<1> QED BY <1>1, <1>2

LEMMA MainSecond ==
  ASSUME QueueInv, QueueInv', SecondInv, Plain', UNCHANGED program, Main \in Thread,
         \/ BeginProcess \/ NextLook \/ NextPending \/ NextCounter \/ NextGet
         \/ NextResult /\ At(Main, "process", "ok")
         \/ EndProgram \/ StopState \/ JoinWorkers
  PROVE  SecondInv'
<1>1. Nested /\ Counted /\ Kept /\ Phases /\ Orderly /\ Finished /\ Plain /\ Ended
  BY DEF SecondInv
<1>2. Nested'
  BY <1>1, MainNested
<1>3. Counted'
  BY <1>1, MainCounted
<1>4. Kept'
  BY <1>1, MainKept
<1>5. Phases'
  BY <1>1, MainPhases
<1>6. Orderly'
  BY <1>1, MainOrderly
<1>7. Finished'
  BY <1>1, MainFinished
<1>8. Ended'
  BY <1>1, MainEnded
<1> QED BY <1>2, <1>3, <1>4, <1>5, <1>6, <1>7, <1>8 DEF SecondInv

LEMMA ResultSecond ==
  ASSUME QueueInv, QueueInv', SecondInv, Plain', UNCHANGED program, Main \in Thread,
         NextResult, At(Main, "process", "exc")
  PROVE  SecondInv'
<1>1. Nested /\ Counted /\ Kept /\ Phases /\ Orderly /\ Finished /\ Plain /\ Ended
  BY DEF SecondInv
<1>2. Nested'
  <2>1. stack[Main] # <<>> /\ Top(Main).op # "take" /\ Throw(Main)
    BY DEF NextResult, At, In
  <2> QED BY <1>1, <2>1, ThrowNested
<1>3. Counted'
  BY <1>1, ResultCounted
<1>4. Kept'
  BY <1>1, MainKept
<1>5. Phases'
  BY <1>1, ResultPhases
<1>6. Orderly'
  BY <1>1, ResultOrderly
<1>7. Finished'
  BY <1>1, ResultFinished
<1>8. Ended'
  BY <1>1, ResultEnded
<1> QED BY <1>2, <1>3, <1>4, <1>5, <1>6, <1>7, <1>8 DEF SecondInv

LEMMA DistSecond ==
  ASSUME QueueInv, QueueInv', SecondInv, Plain', UNCHANGED program, Dist \in Thread,
         DistReport \/ DistEnd
  PROVE  SecondInv'
<1>1. Nested /\ Counted /\ Kept /\ Phases /\ Orderly /\ Finished /\ Plain /\ Ended
  BY DEF SecondInv
<1>2. Nested'
  BY <1>1, DistNested
<1>3. Counted'
  BY <1>1, DistCounted
<1>4. Kept'
  <2>1. stopped => stopped'
    BY DEF DistReport, DistEnd, endVars
  <2> QED BY <1>1, <2>1, KeptVoid, SteadyDist
<1>5. Phases'
  BY <1>1, DistPhases
<1>6. Orderly'
  BY <1>1, DistOrderly
<1>7. Finished'
  BY <1>1, DistFinished
<1>8. Ended'
  BY <1>1, DistEnded
<1> QED BY <1>2, <1>3, <1>4, <1>5, <1>6, <1>7, <1>8 DEF SecondInv

LEMMA WorkerSecond ==
  ASSUME QueueInv, QueueInv', SecondInv, Plain', UNCHANGED program, NEW w \in Worker, w \in Thread,
         CheckState(w) \/ EndWorker(w) \/ Take(w)
  PROVE  SecondInv'
<1>1. Nested /\ Counted /\ Kept /\ Phases /\ Orderly /\ Finished /\ Plain /\ Ended
  BY DEF SecondInv
<1>2. Nested'
  BY <1>1, WorkerNested
<1>3. Counted'
  BY <1>1, WorkerCounted
<1>4. Kept'
  <2>1. (stopped => stopped') /\ (EndWorker(w) => stopped)
    BY DEF CheckState, EndWorker, Take, endVars
  <2>2. ~ stopped /\ Take(w) => Kept'
    BY <1>1, RunKept
  <2>3. ~ stopped /\ CheckState(w) => Kept'
    BY <1>1, CheckKept
  <2> QED BY <2>1, <2>2, <2>3, KeptVoid
<1>5. Phases'
  BY <1>1, WorkerPhases
<1>6. Orderly'
  BY <1>1, WorkerOrderly
<1>7. Finished'
  BY <1>1, WorkerFinished
<1>8. Ended'
  BY <1>1, WorkerEnded
<1> QED BY <1>2, <1>3, <1>4, <1>5, <1>6, <1>7, <1>8 DEF SecondInv

LEMMA SameNested ==
  ASSUME Nested, UNCHANGED <<program, stack>>
  PROVE  Nested'
<1>1. \A f, g : CalledFrom(f, g) => CalledFrom(f, g)'
  BY CalledSame
<1> QED BY <1>1 DEF Nested, Bottom

LEMMA SameKept ==
  ASSUME Kept, UNCHANGED <<topoVars, notDispatched, queued, outq, stack, raised, failed>>,
         stopped' \/ stopped' = stopped
  PROVE  Kept'
<1>1. \A F : OnStack(F)' <=> OnStack(F)
  BY DEF OnStack
<1>2. Open' = Open
  BY DEF Open, topoVars
<1>3. CASE stopped' = stopped /\ ~ stopped
  BY <1>1, <1>2, <1>3 DEF Kept, topoVars
<1> QED BY <1>3, KeptVoid DEF Kept

LEMMA SameSecond ==
  ASSUME QueueInv, QueueInv', SecondInv, Plain', UNCHANGED <<program, topoVars, queueVars>>,
         UNCHANGED <<lockVars, poolVars, stack, failed, seenVars>>,
         stopped' \/ stopped' = stopped
  PROVE  SecondInv'
<1>1. Nested /\ Counted /\ Kept /\ Phases /\ Orderly /\ Finished /\ Plain /\ Ended
  BY DEF SecondInv
<1>2. /\ UNCHANGED <<program, added, deps, group, completed, notDispatched, dispatching, condLock>>
      /\ UNCHANGED <<active, queued, outq, alive, stack, failed, raised, runs>>
  BY DEF topoVars, queueVars, lockVars, poolVars, seenVars
<1>3. Nested' /\ Ended'
  BY <1>1, <1>2, SameNested, SameEnded
<1>4. Counted'
  BY <1>1, <1>2, SameCounted
<1>5. Kept'
  BY <1>1, <1>2, SameKept
<1>6. Phases'
  BY <1>1, <1>2, SamePhases
<1>7. Orderly'
  BY <1>1, <1>2, SameOrderly
<1>8. Finished'
  BY <1>1, <1>2, SameFinished
<1> QED BY <1>3, <1>4, <1>5, <1>6, <1>7, <1>8 DEF SecondInv

LEMMA NextSecond ==
  ASSUME QueueInv, SecondInv, [Next]_<<program, vars>>
  PROVE  SecondInv'
<1>1. Main \in Thread /\ Dist \in Thread /\ Worker \subseteq Thread
  BY DEF Thread
<1>2. QueueInv' /\ Plain'
  BY NextKeeps, NextPlain DEF SecondInv
<1>3. CASE MainStep /\ UNCHANGED program
  <2>1. CASE Step(Main)
    BY <1>1, <1>2, <1>3, <2>1, StepSecond
  <2>2. CASE NextResult /\ At(Main, "process", "exc")
    BY <1>1, <1>2, <1>3, <2>2, ResultSecond
  <2>3. CASE \/ BeginProcess \/ NextLook \/ NextPending \/ NextCounter \/ NextGet
             \/ NextResult /\ At(Main, "process", "ok")
             \/ EndProgram \/ StopState \/ JoinWorkers
    BY <1>1, <1>2, <1>3, <2>3, MainSecond
  <2>4. NextResult => At(Main, "process", "ok") \/ At(Main, "process", "exc")
    BY DEF NextResult
  <2> QED BY <1>3, <2>1, <2>2, <2>3, <2>4 DEF MainStep
<1>4. CASE DistStep /\ UNCHANGED program
  <2>1. CASE Step(Dist)
    BY <1>1, <1>2, <1>4, <2>1, StepSecond
  <2>2. CASE DistReport \/ DistEnd
    BY <1>1, <1>2, <1>4, <2>2, DistSecond
  <2> QED BY <1>4, <2>1, <2>2 DEF DistStep
<1>5. ASSUME NEW w \in Worker, WorkerStep(w), UNCHANGED program
      PROVE  SecondInv'
  <2>1. CASE Step(w)
    BY <1>1, <1>2, <1>5, <2>1, StepSecond
  <2>2. CASE CheckState(w) \/ EndWorker(w) \/ Take(w)
    BY <1>1, <1>2, <1>5, <2>2, WorkerSecond
  <2> QED BY <1>5, <2>1, <2>2 DEF WorkerStep
<1>6. ASSUME NEW w \in Worker, FastFail(w), UNCHANGED program
      PROVE  SecondInv'
  <2>1. /\ UNCHANGED <<program, topoVars, queueVars>>
        /\ UNCHANGED <<lockVars, poolVars, stack, failed, seenVars>> /\ stopped'
    BY <1>6 DEF FastFail
  <2> QED BY <1>2, <2>1, SameSecond
<1>7. ASSUME UNCHANGED <<program, vars>>
      PROVE  SecondInv'
  <2>1. /\ UNCHANGED <<program, topoVars, queueVars>>
        /\ UNCHANGED <<lockVars, poolVars, stack, failed, seenVars>> /\ stopped' = stopped
    BY <1>7 DEF vars, endVars
  <2> QED BY <1>2, <2>1, SameSecond
<1> QED BY <1>3, <1>4, <1>5, <1>6, <1>7 DEF Next, Terminated

LEMMA InitStacks ==
  ASSUME Init
  PROVE  /\ Stacks /\ Main \in Thread /\ Dist \in Thread /\ Main # Dist
         /\ \A th \in Thread :
              \/ /\ th = Main /\ Len(stack[th]) = 1 /\ stack[th][1] = MainFrame(1)
              \/ /\ th = Dist /\ Len(stack[th]) = 1 /\ stack[th][1] = DistFrame
              \/ th \in Worker /\ stack[th] = <<>>
<1>1. PICK m, d : m = MainFrame(1) /\ d = DistFrame
  OBVIOUS
<1>2. stack = [th \in Thread |-> IF th = Main THEN <<m>> ELSE IF th = Dist THEN <<d>> ELSE <<>>]
  BY <1>1 DEF Init
<1>3. Stacks
  BY InitKeeps DEF QueueInv
<1>4. Main \in Thread /\ Dist \in Thread /\ Main # Dist
  BY ProgramAssumption DEF Thread
<1>5. ASSUME NEW th \in Thread
      PROVE  \/ /\ th = Main /\ Len(stack[th]) = 1 /\ stack[th][1] = m
             \/ /\ th = Dist /\ Len(stack[th]) = 1 /\ stack[th][1] = d
             \/ th \in Worker /\ stack[th] = <<>>
  <2>1. CASE th = Main
    BY <1>2, <2>1
  <2>2. CASE th # Main /\ th = Dist
    BY <1>2, <2>2
  <2>3. CASE th # Main /\ th # Dist
    BY <1>2, <2>3 DEF Thread
  <2> QED BY <2>1, <2>2, <2>3
<1> QED BY <1>1, <1>3, <1>4, <1>5

LEMMA InitSecond == Init => SecondInv
<1> SUFFICES ASSUME Init PROVE SecondInv
  OBVIOUS
<1>0. QueueInv
  BY InitKeeps
<1>1. PICK m, d : m = MainFrame(1) /\ d = DistFrame
  OBVIOUS
<1>2. m \in Frame /\ m.op = "main" /\ m.at = 1 /\ d \in Frame /\ d.op = "dist"
  BY <1>1 DEF MainFrame, DistFrame, Frame
<1>3. \A th \in Thread :
        \/ /\ th = Main /\ Len(stack[th]) = 1 /\ stack[th][1] = m
        \/ /\ th = Dist /\ Len(stack[th]) = 1 /\ stack[th][1] = d
        \/ th \in Worker /\ stack[th] = <<>>
  BY <1>1, InitStacks
<1>4. Stacks /\ Main # Dist /\ Main \in Thread /\ Dist \in Thread /\ Main \notin Worker /\ Dist \notin Worker
  BY InitStacks, ProgramAssumption
<1>5. \A th \in Thread : \A k \in DOMAIN stack[th] :
        \/ th = Main /\ k = 1 /\ stack[th][k] = m
        \/ th = Dist /\ k = 1 /\ stack[th][k] = d
  <2> SUFFICES ASSUME NEW th \in Thread, NEW k \in DOMAIN stack[th]
               PROVE  \/ th = Main /\ k = 1 /\ stack[th][k] = m
                      \/ th = Dist /\ k = 1 /\ stack[th][k] = d
    OBVIOUS
  <2>1. DOMAIN stack[th] = 1 .. Len(stack[th])
    BY <1>4 DEF Stacks
  <2>2. stack[th] # <<>>
    <3>1. PICK e : e = <<>>
      OBVIOUS
    <3>2. Len(e) = 0
      BY <3>1
    <3>3. 1 <= Len(stack[th])
      BY <1>4, <2>1 DEF Stacks
    <3>4. stack[th] # e
      BY <3>2, <3>3
    <3> QED BY ONLY <3>1, <3>4, Zenon
  <2>3. k = 1
    <3>1. Len(stack[th]) = 1
      BY <1>3, <2>2, Zenon
    <3> QED BY <2>1, <3>1
  <2> QED BY <1>3, <2>2, <2>3
<1>6. Nested
  <2> SUFFICES ASSUME NEW th \in Thread
               PROVE  /\ IF stack[th] = <<>> THEN th \in Worker
                                             ELSE stack[th][Len(stack[th])].op \in Bottom(th)
                      /\ \A k \in 1 .. Len(stack[th]) - 1 : CalledFrom(stack[th][k], stack[th][k + 1])
    BY DEF Nested
  <2>1. CASE th = Main /\ Len(stack[th]) = 1 /\ stack[th][1] = m
    BY <1>2, <2>1 DEF Bottom
  <2>2. CASE th = Dist /\ Len(stack[th]) = 1 /\ stack[th][1] = d
    BY <1>2, <1>4, <2>2 DEF Bottom
  <2>3. CASE th \in Worker /\ stack[th] = <<>>
    BY <2>3
  <2> QED BY <1>3, <2>1, <2>2, <2>3
<1>7. Counted
  <2>1. ASSUME NEW K, m \notin K, d \notin K
        PROVE  Spots(K) = {}
    <3> SUFFICES ASSUME NEW spot \in Spots(K) PROVE FALSE
      OBVIOUS
    <3>1. PICK th \in Thread, n \in Nat :
            n \in DOMAIN stack[th] /\ stack[th][Len(stack[th]) + 1 - n] \in K
      BY DEF Spots
    <3>2. PICK k : k = Len(stack[th]) + 1 - n
      OBVIOUS
    <3>3. k \in DOMAIN stack[th]
      BY <1>4, <3>1, <3>2 DEF Stacks
    <3> QED BY <1>5, <2>1, <3>1, <3>2, <3>3
  <2>2. Spots(Entered) = {} /\ Spots(Uncounted) = {}
    BY <1>2, <2>1 DEF Entered, Uncounted
  <2>3. queued = {} /\ outq = <<>> /\ dispatching = 0 /\ active = 0
    BY DEF Init
  <2>4. IsFiniteSet({}) /\ Cardinality({}) = 0
    BY FS_EmptySet
  <2>5. Len(outq) = 0
    BY <2>3
  <2> QED BY <2>2, <2>3, <2>4, <2>5 DEF Counted
<1>8. Kept
  <2>1. added = {} /\ raised = {} /\ \A t \in Node : fired[t] = 0
    BY DEF Init, TopoInit
  <2> QED BY <2>1 DEF Kept, Open
<1>9. Phases
  <2>1. ~ failed
    BY DEF Init
  <2> QED BY <1>2, <1>5, <2>1 DEF Phases, PhaseOf
<1>10. Orderly
  <2>1. /\ added = {} /\ \A t \in Node : deps[t] = {} /\ group[t] = {}
    BY DEF Init, TopoInit
  <2>2. ASSUME NEW f, f.at = 1, CodeOf(f) \in Seq(Instr)
        PROVE  Executed(f)
    <3> SUFFICES ASSUME NEW k \in AddsOf(f)
                 PROVE  /\ k < f.at => CodeOf(f)[k].task \in added
                        /\ k >= f.at /\ ~ CodeOf(f)[k].cached => CodeOf(f)[k].task \notin added
      BY DEF Executed
    <3>1. k \in Nat \ {0}
      BY <2>2 DEF AddsOf
    <3>2. ~ (k < f.at)
      BY <2>2, <3>1
    <3> QED BY <2>1, <3>2
  <2>3. Executed(m) /\ Executed(d)
    <3>1. CodeOf(m) \in Seq(Instr)
      BY <1>2, ProgramAssumption DEF CodeOf
    <3> QED BY <1>2, <2>2, <3>1 DEF Executed
  <2>5. ASSUME NEW t \in DOMAIN program.body
        PROVE  Executed(RunFrame(t, 1))
    <3>1. PICK f : f = RunFrame(t, 1)
      OBVIOUS
    <3>2. f.at = 1 /\ f.task = t /\ f.op = "run"
      BY <3>1 DEF RunFrame
    <3>3. CodeOf(f) \in Seq(Instr)
      BY <1>0, <3>2, ProgramAssumption DEF CodeOf, QueueInv, Typed
    <3> QED BY <2>2, <3>1, <3>2, <3>3
  <2>6. Scripted
    BY <1>5, <2>1, <2>3, <2>5 DEF Scripted, FirstAdded
  <2>4. Ranked
    BY <2>1 DEF Ranked
  <2> QED BY <2>4, <2>6 DEF Orderly
<1>11. Finished
  <2>1. stack[Main][1] = m /\ Top(Main) = stack[Main][1]
    BY <1>3, <1>4, TopFrame DEF QueueInv
  <2>2. Top(Main).at = 1 /\ ~ (1 > 1)
    BY <1>2, <2>1
  <2>3. ~ Through
    BY <2>2 DEF Through
  <2> QED BY <2>3 DEF Finished
<1>12. Plain
  <2>1. program.reports \in Seq(Node)
    BY <1>0, ProgramAssumption DEF QueueInv, Typed
  <2>2. 0 \in 0 .. Len(program.reports)
    BY <2>1
  <2>3. /\ reported \in 0 .. Len(program.reports) /\ active \in Int
        /\ alive \subseteq Worker /\ ready \in {"no", "yes", "failed"}
    BY <2>2 DEF Init
  <2>4. {runqLock, cacheLock, condLock} \subseteq Thread \cup {None}
    BY DEF Init
  <2>5. stopped \in BOOLEAN /\ failed \in BOOLEAN
    BY Zenon DEF Init
  <2> QED BY <2>3, <2>4, <2>5 DEF Plain
<1>13. Ended
  <2>1. Outside(d)
    BY <1>2 DEF Outside
  <2>2. \A w \in Worker : w \in alive
    BY DEF Init
  <2> QED BY <1>2, <1>4, <1>5, <2>1, <2>2 DEF Ended
<1> QED BY <1>6, <1>7, <1>8, <1>9, <1>10, <1>11, <1>12, <1>13 DEF SecondInv

(* What every state of the run queue keeps to besides the tokens: who      *)
(* calls whom, that the two counters count, that nothing is lost, that     *)
(* code runs in its order, and what has been done when next() ends.        *)
THEOREM RunQueueInvariant == Spec => [](QueueInv /\ SecondInv)
<1>1. Init => QueueInv /\ SecondInv
  BY InitKeeps, InitSecond
<1>2. QueueInv /\ SecondInv /\ [Next]_<<program, vars>> => (QueueInv /\ SecondInv)'
  BY NextKeeps, NextSecond
<1> QED BY <1>1, <1>2, PTL DEF Spec

-----------------------------------------------------------------------------
(* What the invariants mean for the callers of Topo.                       *)

(* A task that has been handed out and not been used up is not completed.  *)
LEMMA NotCompleted ==
  ASSUME QueueInv, NEW t \in added, t \notin semi
  PROVE  t \notin completed
<1>1. t \in group[t] /\ (t \in completed => group[t] \subseteq semi)
  BY DEF QueueInv, TopoInv, GroupsPartition, CompletedGroups, GroupDone
<1> QED BY <1>1

LEMMA AddAsserted ==
  ASSUME QueueInv, Scripted, NEW th \in Thread, AtCall(th, "add"), ~ Code(th)[Top(th).at].cached
  PROVE  Code(th)[Top(th).at].task \notin added
<1>1. PICK f : f = Top(th)
  OBVIOUS
<1>2. /\ stack[th] # <<>> /\ f.op \in {"main", "run"} /\ Code(th) = CodeOf(f)
      /\ f.at \in DOMAIN CodeOf(f) /\ CodeOf(f)[f.at].op = "add"
  BY <1>1, AtCallTurn
<1>3. f = stack[th][1] /\ 1 \in DOMAIN stack[th]
  BY <1>1, <1>2, TopFrame DEF QueueInv
<1>4. Executed(f)
  BY <1>3 DEF Scripted
<1>5. f.at \in AddsOf(f) /\ f.at >= f.at
  <2>1. f.at \in Nat
    BY <1>2, <1>3, CodeTyped
  <2> QED BY <1>2, <2>1 DEF AddsOf
<1> QED BY <1>1, <1>2, <1>4, <1>5 DEF Executed

LEMMA MergeAsserted ==
  ASSUME QueueInv, Nested, Phases, NEW th \in Thread, At(th, "add", "merge")
  PROVE  {Top(th).instr.task, Top(th).instr.joint} \subseteq added \ completed
<1>1. PICK f : f = Top(th)
  OBVIOUS
<1>2. /\ f = stack[th][1] /\ 1 \in DOMAIN stack[th] /\ f \in Frame
      /\ f.op = "add" /\ f.step = "merge"
  BY <1>1, TopFrame DEF QueueInv, At, In
<1>3. PICK i : i = f.instr
  OBVIOUS
<1>4. i \in AddInstr /\ i.task \in Node /\ i.joint # None
  <2>1. i \in AddInstr
    BY <1>2, <1>3, FieldsTyped
  <2>2. PhaseOf(th, f)
    BY <1>2 DEF Phases
  <2> QED BY <1>2, <1>3, <2>1, <2>2 DEF AddInstr, PhaseOf
<1>5. i.task \in added /\ i.task \notin scheduled
  BY <1>2, <1>3, <1>4 DEF Holds, QueueInv, Held, Open
<1>6. i.task \notin semi
  BY <1>4, <1>5 DEF QueueInv, TaskOK, TopoInv, FiredReady
<1>7. PICK g, m : 2 \in DOMAIN stack[th] /\ g = stack[th][2] /\ ComesFrom(f, g, m)
  BY <1>2, AddPlace
<1>8. g.op = "run" /\ i.joint = g.task /\ g.task \in Node
  <2>1. PICK pl : pl = <<HomeOf(g), m>>
    OBVIOUS
  <2>2. pl \in Places(program) /\ InstrAt(program, pl) = i /\ program \in Programs
    BY <1>3, <1>7, <2>1 DEF ComesFrom, QueueInv, Typed
  <2>3. i.joint \in {None, pl[1]}
    BY <2>2, ProgramOrder
  <2>4. i.joint = HomeOf(g) /\ HomeOf(g) # None
    BY <1>4, <2>1, <2>3
  <2>5. g.op = "run" /\ i.joint = g.task
    BY <1>7, <2>4 DEF ComesFrom, HomeOf
  <2> QED BY <1>7, <2>5, FieldsTyped DEF ComesFrom
<1>9. fired[g.task] > 0 /\ g.task \notin semi
  BY <1>7, <1>8 DEF QueueInv, Owned, FrameOK, Owns
<1>10. g.task \in added
  BY <1>8, <1>9 DEF QueueInv, TopoInv, FiredReady
<1> QED BY <1>1, <1>3, <1>5, <1>6, <1>8, <1>9, <1>10, NotCompleted

LEMMA PlacePair ==
  ASSUME NEW P, NEW pl \in Places(P)
  PROVE  pl = <<pl[1], pl[2]>>
<1>1. pl \in UNION {{t} \X DOMAIN Codes(P)[t] : t \in DOMAIN Codes(P)}
  BY DEF Places
<1> QED BY <1>1

LEMMA DepsAsserted ==
  ASSUME QueueInv, Nested, Scripted, NEW th \in Thread, At(th, "add", "deps")
  PROVE  Top(th).instr.deps \subseteq added
<1>1. PICK f : f = Top(th)
  OBVIOUS
<1>2. f = stack[th][1] /\ 1 \in DOMAIN stack[th] /\ f.op = "add"
  BY <1>1, TopFrame DEF QueueInv, At, In
<1>3. PICK g, m : 2 \in DOMAIN stack[th] /\ g = stack[th][2] /\ ComesFrom(f, g, m)
  BY <1>2, AddPlace
<1>4. PICK pl : pl = <<HomeOf(g), m>>
  OBVIOUS
<1>5. /\ pl \in Places(program) /\ InstrAt(program, pl) = f.instr /\ program \in Programs
      /\ pl[1] = HomeOf(g) /\ pl[2] = m /\ m = g.at - 1 /\ g.at \in Nat
      /\ g.op \in {"main", "run"} /\ (g.op = "run" => g.task \in DOMAIN program.body)
  BY <1>3, <1>4 DEF ComesFrom, QueueInv, Typed
<1>6. ASSUME NEW d \in f.instr.deps
      PROVE  d \in added
  <2>1. PICK before \in Places(program) :
          /\ InstrAt(program, before).task = d
          /\ \/ before[1] = pl[1] /\ before[2] < pl[2]
             \/ pl[1] # None /\ before = <<None, 1>>
    BY <1>5, <1>6, ProgramOrder
  <2>2. CASE before[1] = pl[1] /\ before[2] < pl[2]
    <3>1. PICK k : k = before[2]
      OBVIOUS
    <3>2. before = <<HomeOf(g), k>>
      BY <1>5, <2>2, <3>1, PlacePair
    <3>3. k \in AddsOf(g) /\ CodeOf(g)[k].task = d
      BY <1>5, <2>1, <3>2, AtPlace
    <3>4. k < g.at
      <4>1. CodeOf(g) \in Seq(Instr)
        BY <1>3, <1>5, CodeTyped
      <4>2. k \in Nat
        BY <3>3, <4>1 DEF AddsOf
      <4> QED BY <1>5, <2>2, <3>1, <4>2
    <3>5. Executed(g)
      BY <1>3 DEF Scripted
    <3> QED BY <1>5, <3>3, <3>4, <3>5 DEF Executed
  <2>3. CASE before = <<None, 1>>
    <3>1. f.instr.task \in added
      <4>1. f.instr.task \in Node /\ f.step = "deps"
        BY <1>1, <1>2, FieldsTyped, TopFrame DEF QueueInv, AddInstr, At, In
      <4> QED BY <1>2, <4>1 DEF Holds, QueueInv, Held, Open
    <3> QED BY <2>1, <2>3, <3>1 DEF Scripted, FirstAdded
  <2> QED BY <2>1, <2>2, <2>3
<1> QED BY <1>1, <1>6

(* Every assertion of Topo holds when it is called, for every build and    *)
(* number of threads: a task enters once, after its dependencies, and it   *)
(* is merged with a parent that has not completed.                         *)
THEOREM AssertionsHoldAlways == Spec => []AssertionsHold
<1>1. QueueInv /\ SecondInv => \A th \in Thread :
        /\ AtCall(th, "add") /\ ~ Code(th)[Top(th).at].cached =>
             Code(th)[Top(th).at].task \notin added
        /\ At(th, "add", "merge") =>
             {Top(th).instr.task, Top(th).instr.joint} \subseteq added \ completed
        /\ At(th, "add", "deps") => Top(th).instr.deps \subseteq added
  BY AddAsserted, MergeAsserted, DepsAsserted DEF SecondInv, Orderly
<1>2. QueueInv /\ SecondInv /\ NeverRefused => AssertionsHold
  BY <1>1 DEF AssertionsHold
<1> QED BY <1>2, RunQueueInvariant, NeverRefusedHolds, PTL

-----------------------------------------------------------------------------
(* The end of the main loop: no result is outstanding, nothing waits to be *)
(* dispatched, and no worker is doing anything that could make work.       *)
THEOREM StopMeansDoneHolds == Spec => []StopMeansDone
<1>1. QueueInv /\ SecondInv => StopMeansDone
  <2> SUFFICES ASSUME QueueInv, SecondInv, Through
               PROVE  /\ completed = added /\ notDispatched = {} /\ queued = {} /\ active = 0
                      /\ \A w \in Worker : stack[w] = <<>> \/ In(w, "take")
    BY DEF StopMeansDone, Through
  <2>1. AllDone
    BY DEF SecondInv, Finished
  <2>2. ASSUME NEW w \in Worker, stack[w] # <<>>
        PROVE  In(w, "take")
    <3>1. w \in Thread /\ w # Main /\ w # Dist
      BY ProgramAssumption DEF Thread
    <3>2. PICK n : n = Len(stack[w])
      OBVIOUS
    <3>3. n \in DOMAIN stack[w]
      BY <2>2, <3>1, <3>2, TopFrame DEF QueueInv
    <3>4. stack[w][n].op \in {"run", "done", "take"}
      BY <2>2, <3>1, <3>2 DEF SecondInv, Nested, Bottom
    <3>5. stack[w][n].op = "take"
      BY <2>1, <3>1, <3>3, <3>4 DEF AllDone, Resting
    <3>6. n = 1
      BY <3>1, <3>2, <3>3, <3>5 DEF QueueInv, Grounded
    <3> QED BY <2>2, <3>1, <3>5, <3>6, TopFrame DEF QueueInv, In
  <2> QED BY <2>1, <2>2 DEF AllDone
<1> QED BY <1>1, RunQueueInvariant, PTL

-----------------------------------------------------------------------------
(* The types, and that the counters are not negative: the counter of       *)
(* dispatchers never, that of active tasks until the build is stopped.     *)
THEOREM RunQueueTypeCorrect == Spec => []RunQueueTypeOK
<1>1. QueueInv /\ SecondInv => RunQueueTypeOK
  <2> SUFFICES ASSUME QueueInv, SecondInv PROVE RunQueueTypeOK
    OBVIOUS
  <2>1. TopoTypeOK /\ Plain /\ Typed /\ Held /\ Stacks
    BY DEF QueueInv, TopoInv, SecondInv
  <2>2. notDispatched \subseteq added
    BY <2>1 DEF Held
  <2>3. queued \subseteq scheduled
    BY DEF QueueInv, Typed, TaskOK, TopoInv, FiredReady
  <2>4. dispatching \in Nat
    BY FS_CardinalityType DEF SecondInv, Counted
  <2>5. ~ stopped => active \in Nat
    <3>1. Cardinality(queued) \in Nat /\ Cardinality(Spots(Uncounted)) \in Nat
      BY FS_CardinalityType DEF SecondInv, Counted
    <3>2. Len(outq) \in Nat
      BY <2>1 DEF Typed
    <3> QED BY <3>1, <3>2 DEF SecondInv, Counted
  <2>6. /\ {runqLock, cacheLock, condLock} \subseteq Thread \cup {None}
        /\ alive \subseteq Worker /\ stopped \in BOOLEAN /\ failed \in BOOLEAN
        /\ ready \in {"no", "yes", "failed"} /\ reported \in 0 .. Len(program.reports)
        /\ active \in Int
    BY <2>1 DEF Plain
  <2>7. /\ outq \in Seq({"ok", "exc"}) /\ raised \subseteq Node
        /\ told \in [Node -> SUBSET Node] /\ runs \in [Node -> Nat]
        /\ stack \in [Thread -> Seq(Frame)]
    BY <2>1 DEF Typed, Stacks
  <2> QED BY <2>1, <2>2, <2>3, <2>4, <2>5, <2>6, <2>7 DEF RunQueueTypeOK
<1> QED BY <1>1, RunQueueInvariant, PTL

-----------------------------------------------------------------------------
(* When main has joined the workers, no worker has a call to go on with.   *)
LEMMA OverMeansEnded ==
  ASSUME QueueInv, Ended, Main \in Thread, Over(Main)
  PROVE  /\ stack[Main] # <<>> /\ Top(Main).op = "end" /\ Top(Main).step = "over"
         /\ alive = {} /\ \A w \in Worker : stack[w] = <<>>
<1>1. stack[Main] # <<>> /\ Top(Main).op = "end" /\ Top(Main).step = "over"
  BY DEF Over, At, In
<1>2. Top(Main) = stack[Main][1] /\ 1 \in DOMAIN stack[Main]
  BY <1>1, TopFrame DEF QueueInv
<1>3. alive = {}
  BY <1>1, <1>2 DEF Ended
<1> QED BY <1>1, <1>3 DEF Ended

(* A thread takes a step of a call only when it is in one.                 *)
LEMMA StepIn ==
  ASSUME NEW th, Step(th)
  PROVE  stack[th] # <<>> /\ Top(th).op # "end"
BY DEF Step, CacheHit, AddTask, AddMerge, AddDepsAndPublish, AddLeave, SignalReady,
       DispatchEnter, DispatchRemove, DispatchSchedule, DispatchExit, DispatchAll, Fire, Put,
       FireEnd, FireStopped, FinishTask, RaiseTask, PutResult, AtCall, At, In

(* What the thread of the distributed build still does changes nothing     *)
(* that replay() reads.                                                    *)
LEMMA DistQuiet ==
  ASSUME QueueInv, Ended, Dist \in Thread, DistStep
  PROVE  UNCHANGED <<added, group, deps, completed, order, semi, runs>>
<1>1. CASE DistReport \/ DistEnd
  BY <1>1 DEF DistReport, DistEnd, topoVars, seenVars
<1>2. CASE Step(Dist)
  <2>1. PICK f : f = Top(Dist)
    OBVIOUS
  <2>2. f = stack[Dist][1] /\ 1 \in DOMAIN stack[Dist]
    BY <1>2, <2>1, StepIn, TopFrame DEF QueueInv
  <2>3. /\ f.op \in {"dist", "sweep", "end", "dispatch", "fire", "put"}
        /\ f.op = "put" => ~ f.inplace
    BY <2>2 DEF Ended, Outside
  <2>4. \/ DispatchEnter(Dist) \/ DispatchRemove(Dist) \/ DispatchSchedule(Dist)
        \/ DispatchExit(Dist) \/ DispatchAll(Dist) \/ (\E t \in Node : Fire(Dist, t))
        \/ Put(Dist) \/ FireEnd(Dist) \/ FireStopped(Dist)
    BY <1>2, <2>1, <2>3 DEF Step, CacheHit, AddTask, AddMerge, AddDepsAndPublish, AddLeave,
       SignalReady, FinishTask, RaiseTask, PutResult, AtCall, At, In
  <2>5. CASE \/ DispatchEnter(Dist) \/ DispatchRemove(Dist) \/ DispatchExit(Dist)
             \/ DispatchAll(Dist) \/ (\E t \in Node : Fire(Dist, t)) \/ FireEnd(Dist)
             \/ FireStopped(Dist)
    BY <2>5 DEF DispatchEnter, DispatchRemove, DispatchExit, DispatchAll, Fire, FireEnd,
       FireStopped, topoVars, seenVars
  <2>6. CASE DispatchSchedule(Dist)
    BY <2>6 DEF DispatchSchedule, ScheduleNode, seenVars
  <2>7. CASE Put(Dist)
    <3>1. ~ Top(Dist).inplace
      BY <2>1, <2>3, <2>7 DEF Put, In
    <3>2. runs' = runs
      BY <2>7, <3>1 DEF Put
    <3>3. UNCHANGED <<added, group, deps, completed, order, semi>>
      BY <2>7 DEF Put, topoVars
    <3> QED BY <3>2, <3>3
  <2> QED BY <2>4, <2>5, <2>6, <2>7
<1> QED BY <1>1, <1>2 DEF DistStep

(* replay() reads Topo without its lock, and may: once the workers are     *)
(* joined what it reads is final, though the thread of the distributed     *)
(* build may go on dispatching tasks.                                      *)
THEOREM QuietWhenJoinedHolds == Spec => QuietWhenJoined
<1> DEFINE Still == UNCHANGED <<added, group, deps, completed, order, semi, runs>>
<1>1. ASSUME QueueInv, SecondInv, [Next]_<<program, vars>>, Over(Main)
      PROVE  Still
  <2>1. Main \in Thread /\ Dist \in Thread /\ Worker \subseteq Thread
    BY DEF Thread
  <2>2. Ended
    BY <1>1 DEF SecondInv
  <2>3. /\ stack[Main] # <<>> /\ Top(Main).op = "end" /\ Top(Main).step = "over"
        /\ alive = {} /\ \A w \in Worker : stack[w] = <<>>
    BY <1>1, <2>1, <2>2, OverMeansEnded
  <2>4. ~ MainStep
    <3>1. ~ Step(Main)
      BY <2>3, StepIn
    <3> QED BY <2>3, <3>1 DEF MainStep, BeginProcess, NextLook, NextPending, NextCounter,
                NextGet, NextResult, EndProgram, StopState, JoinWorkers, AtCall, At, In
  <2>5. \A w \in Worker : ~ WorkerStep(w) /\ ~ FastFail(w)
    <3>1. \A w \in Worker : ~ Step(w)
      BY <2>3, StepIn
    <3> QED BY <2>3, <3>1 DEF WorkerStep, CheckState, Take, EndWorker, FastFail, In
  <2>6. CASE DistStep
    BY <1>1, <2>1, <2>2, <2>6, DistQuiet
  <2>7. CASE UNCHANGED vars
    BY <2>7 DEF vars, topoVars, seenVars
  <2> QED BY <1>1, <2>4, <2>5, <2>6, <2>7 DEF Next, Terminated
<1>2. QueueInv /\ SecondInv /\ [Next]_<<program, vars>> =>
        [Over(Main) => UNCHANGED <<added, group, deps, completed, order, semi, runs>>]_vars
  BY <1>1
<1> QED BY <1>2, RunQueueInvariant, PTL DEF Spec, QuietWhenJoined
=============================================================================
