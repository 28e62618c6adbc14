-------------------------- MODULE BuildRootsProofs --------------------------
(***************************************************************************)
(* The counters of the build roots are right and no root is used after it  *)
(* was deleted: proved for every graph, every cache, every build and every *)
(* number of workers.                                                      *)
(***************************************************************************)
EXTENDS BuildRoots, FiniteSetTheorems, SequenceTheorems, TLAPS

-----------------------------------------------------------------------------
(* The calls of tasks.  A call of dec is the innermost one of its worker.  *)

Legal ==
  [op : {"restore"}, root : Node \X {"restore"},
   at : {"begin", "fill", "to dist", "to local", "result", "end"}, todo : {{}}]
  \cup [op : {"run"}, root : Node \X {"run"},
        at : {"begin", "fill", "publish", "for local", "for dist", "result", "end"}, todo : {{}}]
  \cup [op : {"run"}, root : Node \X {"run"}, at : {"steal"}, todo : SUBSET Root]
  \cup [op : {"write"}, root : Node \X {"run"}, at : {"begin", "second", "end"}, todo : {{}}]
  \cup [op : {"put local", "put dist", "result"}, root : Root, at : {"begin", "end"}, todo : {{}}]
LegalDec == [op : {"dec"}, root : Root, at : {"locked", "compare", "delete"}, todo : {{}}]

Same(f, g) == f.op = g.op /\ f.root = g.root

Live == {f \in UNION {{stack[w][i] : i \in DOMAIN stack[w]} : w \in Worker} : f.op # "dec"}

Stacks ==
  /\ stack \in [Worker -> Seq(Legal \cup LegalDec)]
  /\ \A w \in Worker : \A i \in DOMAIN stack[w] : stack[w][i].op = "dec" => i = 1

Alone ==
  \A v, w \in Worker : \A i \in DOMAIN stack[v], j \in DOMAIN stack[w] :
    stack[v][i].op # "dec" /\ Same(stack[v][i], stack[w][j]) => v = w /\ i = j

LiveMade == \A f \in Live : T(f.op, f.root) \in made \ over

-----------------------------------------------------------------------------
(* How far a task has come.                                                *)

Holds(op, r, S)  == \E f \in Live : f.op = op /\ f.root = r /\ f.at \in S
Within(op, r, S) == \A f \in Live : f.op = op /\ f.root = r => f.at \in S
Past(op, r, S)   == T(op, r) \in over \/ Holds(op, r, S)
Begun(op, r)     == T(op, r) \in over \/ \E f \in Live : f.op = op /\ f.root = r

Takers(r) == Consumers(r[1]) \cup (IF r[1] \in Result THEN {"result"} ELSE {})

Filled   == {"publish", "for local", "for dist", "to local", "to dist", "result", "end"}
Stealing == Filled \cup {"steal"}
Counted  == {"result", "end"}

MadeOK(t) ==
  /\ t.op \in {"restore", "run"} => t.root[2] = t.op /\ Takers(t.root) # {}
  /\ t.op = "write" => t.root[2] = "run" /\ t.root \in ok /\ Past("run", t.root, Counted)
  /\ t.op \in {"put local", "put dist"} =>
       /\ t.root \in ok
       /\ t.root[2] = "restore" => Past("restore", t.root, Counted)
       /\ t.root[2] = "run" =>
            Past("write", t.root, IF t.op = "put local" THEN {"second", "end"} ELSE {"end"})
  /\ t.op = "result" =>
       /\ t.root[1] \in Result
       /\ Eager => Past(t.root[2], t.root, {"end"})
       /\ ~ Eager => t.root[2] = "run"
MadeGood == made \subseteq Task /\ over \subseteq made /\ \A t \in made : MadeOK(t)

OkGood ==
  /\ ok \subseteq created /\ created \subseteq Root
  /\ \A r \in ok : Past(r[2], r, Filled)
  /\ \A f \in Live :
       /\ f.op \in {"restore", "run"} /\ f.at # "begin" => f.root \in created
       /\ f.at \in Filled \ Counted => f.root \in ok
  /\ \A w \in Worker : stack[w] # <<>> /\ Top(w).op = "dec" => RootOf(w) \in ok

(* A consumer starts when the tasks of its dependencies are over.          *)
Ready ==
  /\ \A n \in Node : Begun("run", <<n, "run">>) => \A d \in Deps[n] : NodeOver(d)
  /\ \A n \in Node : ~ Eager /\ Begun("result", <<n, "run">>) => NodeOver(n)

TookOK(r, u) ==
  /\ r \in ok /\ Past(r[2], r, {"end"}) /\ u \in Takers(r)
  /\ u \in Node => /\ Past("run", <<u, "run">>, Stealing)
                   /\ \A f \in Live : f.op = "run" /\ f.root = <<u, "run">> => r \notin f.todo
  /\ u = "result" => Past("result", IF Eager THEN r ELSE <<r[1], "run">>, {"end"})
TookGood ==
  /\ took \subseteq Root \X (Node \cup {"result"})
  /\ \A p \in took : TookOK(p[1], p[2])
  /\ \A f \in Live : \A r \in f.todo : r \in ok /\ r[1] \in Deps[f.root[1]]

-----------------------------------------------------------------------------
(* Who holds a reference of a root: the consumers and the result that have *)
(* not taken it, the calls of dec that have not subtracted, and for each   *)
(* cache the task that holds its reference.                                *)

TakeRefs(r) == {u \in Takers(r) : <<r, u>> \notin took}
DecRefs(r)  == {w \in Worker : At(w, "dec", "locked") /\ RootOf(w) = r}

Waits(op, r, S) == T(op, r) \in made \ over /\ Within(op, r, S)

LocalHeld(op, r) ==
  \/ op = "restore"   /\ Holds(op, r, {"to local"})
  \/ op = "run"       /\ Holds(op, r, {"for local", "for dist"})
  \/ op = "write"     /\ Waits(op, r, {"begin"})
  \/ op = "put local" /\ Waits(op, r, {"begin"})
DistHeld(op, r) ==
  \/ op = "restore"   /\ Holds(op, r, {"to dist"})
  \/ op = "run"       /\ Holds(op, r, {"for dist"})
  \/ op = "write"     /\ Waits(op, r, {"begin", "second"})
  \/ op = "put dist"  /\ Waits(op, r, {"begin"})

Ops == {"restore", "run", "write", "put local", "put dist", "result"}
LocalRefs(r) == {op \in Ops : LocalHeld(op, r)}
DistRefs(r)  == {op \in Ops : DistHeld(op, r)}

Held(r) == Cardinality(TakeRefs(r)) + Cardinality(DecRefs(r))
             + Cardinality(LocalRefs(r)) + Cardinality(DistRefs(r))
Counting == \A r \in Root : refcount[r] = Held(r)

(* A root that is deleted, or is about to be, has no reference left.       *)
Dead ==
  /\ deleted \subseteq ok
  /\ \A r \in deleted : refcount[r] = 0
  /\ \A w \in Worker : At(w, "dec", "delete") => refcount[RootOf(w)] = 0

Inv ==
  /\ build \in Builds /\ refcount \in [Root -> Int]
  /\ Stacks /\ Alone /\ LiveMade /\ MadeGood /\ OkGood /\ Ready /\ TookGood
  /\ Counting /\ Dead
-----------------------------------------------------------------------------
(* What the operations on a stack do to the calls.                         *)

Frames == Legal \cup LegalDec

(* A call of a task is somewhere in a stack. *)
LEMMA LiveIn ==
  /\ \A f \in Live : f.op # "dec" /\ \E w \in Worker : \E i \in DOMAIN stack[w] : f = stack[w][i]
  /\ \A w \in Worker : \A i \in DOMAIN stack[w] : stack[w][i].op # "dec" => stack[w][i] \in Live
BY DEF Live

(* The same of the calls after a step. *)
LEMMA LiveInNext ==
  /\ \A f \in Live' : f.op # "dec" /\ \E w \in Worker : \E i \in DOMAIN stack'[w] : f = stack'[w][i]
  /\ \A w \in Worker : \A i \in DOMAIN stack'[w] : stack'[w][i].op # "dec" => stack'[w][i] \in Live'
BY DEF Live

Shape == [op : Ops \cup {"dec"}, root : Root, at : Points, todo : SUBSET Root]
StepsOf(op) ==
  CASE op = "restore" -> {"begin", "fill", "to dist", "to local", "result", "end"}
    [] op = "run"     -> {"begin", "fill", "steal", "publish", "for local", "for dist", "result", "end"}
    [] op = "write"   -> {"begin", "second", "end"}
    [] OTHER          -> {"begin", "end"}

(* The calls are records, and what their steps and roots are.              *)
LEMMA LegalShape ==
  /\ Legal \subseteq Shape /\ LegalDec \subseteq Shape
  /\ \A f \in Legal : f.op \in Ops /\ f.at \in StepsOf(f.op)
  /\ \A f \in Legal : f.op = "restore" => f.root[2] = "restore"
  /\ \A f \in Legal : f.op \in {"run", "write"} => f.root[2] = "run"
  /\ \A f \in Legal : ~ (f.op = "run" /\ f.at = "steal") => f.todo = {}
  /\ \A f \in LegalDec : f.at \in {"locked", "compare", "delete"}
<1>1. /\ Node \X {"restore"} \subseteq Root /\ Node \X {"run"} \subseteq Root
      /\ \A p \in Node \X {"restore"} : p[2] = "restore"
      /\ \A p \in Node \X {"run"} : p[2] = "run"
  BY DEF Root
<1>2. ASSUME NEW f \in Legal
      PROVE  /\ f \in Shape /\ f.op \in Ops /\ f.at \in StepsOf(f.op)
             /\ f.op = "restore" => f.root[2] = "restore"
             /\ f.op \in {"run", "write"} => f.root[2] = "run"
             /\ ~ (f.op = "run" /\ f.at = "steal") => f.todo = {}
  <2>1. CASE f \in [op : {"restore"}, root : Node \X {"restore"},
                    at : {"begin", "fill", "to dist", "to local", "result", "end"}, todo : {{}}]
    BY <2>1, <1>1 DEF Shape, Ops, StepsOf, Points
  <2>2. CASE f \in [op : {"run"}, root : Node \X {"run"},
                    at : {"begin", "fill", "publish", "for local", "for dist", "result", "end"}, todo : {{}}]
    BY <2>2, <1>1 DEF Shape, Ops, StepsOf, Points
  <2>3. CASE f \in [op : {"run"}, root : Node \X {"run"}, at : {"steal"}, todo : SUBSET Root]
    BY <2>3, <1>1 DEF Shape, Ops, StepsOf, Points
  <2>4. CASE f \in [op : {"write"}, root : Node \X {"run"}, at : {"begin", "second", "end"}, todo : {{}}]
    BY <2>4, <1>1 DEF Shape, Ops, StepsOf, Points
  <2>5. CASE f \in [op : {"put local", "put dist", "result"}, root : Root, at : {"begin", "end"}, todo : {{}}]
    BY <2>5 DEF Shape, Ops, StepsOf, Points
  <2> QED BY <2>1, <2>2, <2>3, <2>4, <2>5 DEF Legal
<1>3. ASSUME NEW f \in LegalDec PROVE f \in Shape /\ f.at \in {"locked", "compare", "delete"}
  BY DEF LegalDec, Shape, Ops, Points
<1> QED BY <1>2, <1>3

(* The other way round: what is needed to be a legal call.                 *)
LEMMA LegalMade ==
  ASSUME NEW op \in Ops, NEW r \in Root, NEW at \in StepsOf(op), NEW S \in SUBSET Root,
         op = "restore" => r[2] = "restore", op \in {"run", "write"} => r[2] = "run",
         ~ (op = "run" /\ at = "steal") => S = {}
  PROVE  [op |-> op, root |-> r, at |-> at, todo |-> S] \in Legal
<1>1. /\ r[2] = "restore" => r \in Node \X {"restore"}
      /\ r[2] = "run" => r \in Node \X {"run"}
  BY DEF Root
<1>2. CASE op = "restore"
  BY <1>1, <1>2 DEF Legal, StepsOf
<1>3. CASE op = "run" /\ at = "steal"
  BY <1>1, <1>3 DEF Legal, StepsOf
<1>4. CASE op = "run" /\ at # "steal"
  BY <1>1, <1>4 DEF Legal, StepsOf
<1>5. CASE op = "write"
  BY <1>1, <1>5 DEF Legal, StepsOf
<1>6. CASE op \in {"put local", "put dist", "result"}
  BY <1>6 DEF Legal, StepsOf
<1> QED BY <1>2, <1>3, <1>4, <1>5, <1>6 DEF Ops

(* A call is of a task or of dec, never both. *)
LEMMA KindsApart ==
  /\ \A f \in Legal : f.op # "dec" /\ f.op \in Ops
  /\ \A f \in LegalDec : f.op = "dec"
BY DEF Legal, LegalDec, Ops

(* There is one call of a task. *)
LEMMA LiveOne ==
  ASSUME Stacks, Alone
  PROVE  /\ \A f, g \in Live : Same(f, g) => f = g
         /\ Live \subseteq Legal
BY LiveIn, KindsApart DEF Stacks, Alone, Frames

(* The innermost call takes a step. *)
LEMMA Replaced ==
  ASSUME Stacks, Alone, NEW w \in Worker, stack[w] # <<>>, NEW g \in Frames, Same(g, Top(w)),
         stack' = [stack EXCEPT ![w] = <<g>> \o Tail(stack[w])]
  PROVE  /\ Stacks' /\ Alone'
         /\ stack'[w] # <<>> /\ Head(stack'[w]) = g
         /\ \A v \in Worker \ {w} : stack'[v] = stack[v]
         /\ Top(w) \in Frames
         /\ Top(w).op = "dec" => Live' = Live
         /\ Top(w).op # "dec" => Top(w) \in Live /\ Live' = (Live \ {Top(w)}) \cup {g}
<1> DEFINE s == stack[w]
           q == <<g>> \o Tail(s)
<1>1. s \in Seq(Frames) /\ Len(s) > 0 /\ s # <<>>
  BY DEF Stacks, Frames
<1>2. /\ q \in Seq(Frames) /\ Len(q) = Len(s) /\ q # <<>> /\ Head(q) = g /\ DOMAIN q = DOMAIN s
      /\ q[1] = g /\ s[1] = Top(w) /\ \A i \in DOMAIN s : i # 1 => q[i] = s[i]
      /\ 1 \in DOMAIN s
  BY <1>1 DEF Top
<1>3. stack'[w] = q /\ \A v \in Worker \ {w} : stack'[v] = stack[v]
  BY DEF Stacks
<1> HIDE DEF q
<1>4. Stacks'
  <2>1. stack' \in [Worker -> Seq(Frames)]
    BY <1>2 DEF Stacks, Frames
  <2>2. ASSUME NEW v \in Worker, NEW i \in DOMAIN stack'[v], stack'[v][i].op = "dec"
        PROVE  i = 1
    BY <2>2, <1>2, <1>3 DEF Stacks
  <2> QED BY <2>1, <2>2 DEF Stacks, Frames
<1>5. \A v \in Worker : /\ DOMAIN stack'[v] = DOMAIN stack[v]
                        /\ \A i \in DOMAIN stack[v] : Same(stack'[v][i], stack[v][i])
  BY <1>2, <1>3 DEF Same
<1>6. Alone'
  BY <1>5 DEF Alone, Same
<1>7. Top(w).op = "dec" => Live' = Live
  <2> SUFFICES ASSUME Top(w).op = "dec" PROVE Live' = Live
    OBVIOUS
  <2>1. g.op = "dec"
    BY DEF Same
  <2>2. \A v \in Worker : \A i \in DOMAIN stack[v] :
          stack[v][i].op # "dec" \/ stack'[v][i].op # "dec" => stack'[v][i] = stack[v][i]
    BY <2>1, <1>2, <1>3
  <2>3. Live' \subseteq Live
    BY <2>2, <1>5, LiveIn, LiveInNext
  <2>4. Live \subseteq Live'
    BY <2>2, <1>5, LiveIn, LiveInNext
  <2> QED BY <2>3, <2>4
<1>8. Top(w).op # "dec" => Top(w) \in Live /\ Live' = (Live \ {Top(w)}) \cup {g}
  <2> SUFFICES ASSUME Top(w).op # "dec" PROVE Top(w) \in Live /\ Live' = (Live \ {Top(w)}) \cup {g}
    OBVIOUS
  <2>1. g.op # "dec"
    BY DEF Same
  <2>2. Top(w) \in Live
    BY <1>2, LiveIn
  <2>3. \A v \in Worker : \A i \in DOMAIN stack[v] : ~ (v = w /\ i = 1) =>
          stack'[v][i] = stack[v][i]
    BY <1>2, <1>3
  <2>4. \A v \in Worker : \A i \in DOMAIN stack[v] : ~ (v = w /\ i = 1) =>
          stack[v][i] # Top(w)
    BY <1>2 DEF Alone, Same
  <2>5. Live' \subseteq (Live \ {Top(w)}) \cup {g}
    BY <2>3, <2>4, <1>2, <1>3, <1>5, LiveIn, LiveInNext
  <2>6. Live \ {Top(w)} \subseteq Live'
    BY <2>3, <2>4, <1>2, <1>3, <1>5, LiveIn, LiveInNext
  <2>7. g \in Live'
    BY <2>1, <1>2, <1>3, LiveInNext
  <2> QED BY <2>2, <2>5, <2>6, <2>7
<1> QED BY <1>1, <1>2, <1>3, <1>4, <1>6, <1>7, <1>8

(* The innermost call returns. *)
LEMMA Popped ==
  ASSUME Stacks, Alone, NEW w \in Worker, stack[w] # <<>>,
         stack' = [stack EXCEPT ![w] = Tail(stack[w])]
  PROVE  /\ Stacks' /\ Alone'
         /\ stack'[w] # <<>> => Head(stack'[w]).op # "dec"
         /\ \A v \in Worker \ {w} : stack'[v] = stack[v]
         /\ Top(w) \in Frames
         /\ Top(w).op = "dec" => Live' = Live
         /\ Top(w).op # "dec" => Top(w) \in Live /\ Live' = Live \ {Top(w)}
<1> DEFINE s == stack[w]
           q == Tail(s)
<1>1. s \in Seq(Frames) /\ Len(s) > 0 /\ s # <<>>
  BY DEF Stacks, Frames
<1>2. /\ q \in Seq(Frames) /\ Len(q) = Len(s) - 1 /\ s[1] = Top(w) /\ 1 \in DOMAIN s
      /\ \A i \in DOMAIN q : i \in Nat /\ i + 1 \in DOMAIN s /\ q[i] = s[i + 1]
      /\ \A i \in DOMAIN s : i # 1 => i - 1 \in DOMAIN q /\ q[i - 1] = s[i]
      /\ q # <<>> => 1 \in DOMAIN q /\ Head(q) = q[1]
  BY <1>1 DEF Top
<1>3. stack'[w] = q /\ \A v \in Worker \ {w} : stack'[v] = stack[v]
  BY DEF Stacks
<1> HIDE DEF q
<1>4. \A i \in DOMAIN q : q[i].op # "dec"
  <2> TAKE i \in DOMAIN q
  <2>1. i + 1 # 1
    BY <1>2
  <2> QED BY <2>1, <1>2 DEF Stacks
<1>5. Stacks'
  <2>1. stack' \in [Worker -> Seq(Frames)]
    BY <1>2 DEF Stacks, Frames
  <2>2. ASSUME NEW v \in Worker, NEW i \in DOMAIN stack'[v], stack'[v][i].op = "dec"
        PROVE  i = 1
    BY <2>2, <1>3, <1>4 DEF Stacks
  <2> QED BY <2>1, <2>2 DEF Stacks, Frames
<1>6. Alone'
  <2> SUFFICES ASSUME NEW v \in Worker, NEW u \in Worker,
                      NEW i \in DOMAIN stack'[v], NEW j \in DOMAIN stack'[u],
                      stack'[v][i].op # "dec", Same(stack'[v][i], stack'[u][j])
               PROVE  v = u /\ i = j
    BY DEF Alone
  <2> DEFINE a == IF v = w THEN i + 1 ELSE i
             b == IF u = w THEN j + 1 ELSE j
  <2>0. \A x \in Worker : \A k \in DOMAIN stack'[x] :
          LET c == IF x = w THEN k + 1 ELSE k
          IN  c \in DOMAIN stack[x] /\ stack'[x][k] = stack[x][c]
    <3> TAKE x \in Worker
    <3>1. CASE x = w
      BY <3>1, <1>2, <1>3
    <3>2. CASE x # w
      BY <3>2, <1>3
    <3> QED BY <3>1, <3>2
  <2>1. a \in DOMAIN stack[v] /\ stack'[v][i] = stack[v][a]
    BY <2>0
  <2>2. b \in DOMAIN stack[u] /\ stack'[u][j] = stack[u][b]
    BY <2>0
  <2>3. v = u /\ a = b
    BY <2>1, <2>2 DEF Alone
  <2>4. v = w => i \in Nat /\ j \in Nat
    BY <2>3, <1>2, <1>3
  <2> QED BY <2>3, <2>4
<1>7. Live' \subseteq Live
  BY <1>2, <1>3, LiveIn, LiveInNext
<1>8. \A f \in Live : f # Top(w) => f \in Live'
  <2> TAKE f \in Live
  <2> HAVE f # Top(w)
  <2>0. PICK v \in Worker : \E i \in DOMAIN stack[v] : f = stack[v][i]
    BY LiveIn
  <2>1. PICK i \in DOMAIN stack[v] : f = stack[v][i]
    BY <2>0
  <2>2. f.op # "dec"
    BY LiveIn
  <2>3. CASE v = w
    <3>1. i # 1
      BY <2>1, <2>3, <1>2
    <3>2. i - 1 \in DOMAIN stack'[w] /\ stack'[w][i - 1] = f
      BY <3>1, <2>1, <2>3, <1>2, <1>3
    <3> QED BY <3>2, <2>2, LiveInNext
  <2>4. CASE v # w
    BY <2>1, <2>2, <2>4, <1>3, LiveInNext
  <2> QED BY <2>3, <2>4
<1>9. ASSUME Top(w).op # "dec" PROVE Top(w) \in Live /\ Top(w) \notin Live'
  <2>1. Top(w) \in Live
    BY <1>9, <1>2, LiveIn
  <2>2. SUFFICES ASSUME NEW v \in Worker, NEW i \in DOMAIN stack'[v], stack'[v][i] = Top(w)
                 PROVE  FALSE
    BY <2>1, LiveInNext
  <2>3. v # w
    <3> SUFFICES ASSUME v = w PROVE FALSE
      OBVIOUS
    <3>1. i \in DOMAIN q /\ i \in Nat /\ i + 1 \in DOMAIN s /\ s[i + 1] = s[1]
      BY <2>2, <1>2, <1>3
    <3>2. i + 1 = 1
      <4>1. \A k \in DOMAIN stack[w] : stack[w][k].op # "dec" /\ Same(stack[w][k], stack[w][1]) => k = 1
        BY <1>2 DEF Alone
      <4>2. stack[w][i + 1].op # "dec" /\ Same(stack[w][i + 1], stack[w][1])
        BY <3>1, <1>2, <1>9 DEF Same
      <4> QED BY <4>1, <4>2, <3>1
    <3>3. i # 0
      BY <3>1, <1>2
    <3> QED BY <3>1, <3>2, <3>3
  <2> QED BY <2>2, <2>3, <1>2, <1>3, <1>9 DEF Alone, Same
<1>10. Top(w).op = "dec" => Top(w) \notin Live
  BY LiveIn
<1>11. Top(w) \in Frames
  BY <1>1, <1>2
<1>12. stack'[w] # <<>> => Head(stack'[w]).op # "dec"
  BY <1>2, <1>3, <1>4
<1> QED BY <1>3, <1>5, <1>6, <1>7, <1>8, <1>9, <1>10, <1>11, <1>12

(* The innermost call of a task takes a step and makes a call. *)
LEMMA Pushed ==
  ASSUME Stacks, Alone, NEW w \in Worker, stack[w] # <<>>, NEW f \in Frames, NEW g \in Legal,
         Same(g, Top(w)), \A h \in Live : ~ Same(h, f),
         stack' = [stack EXCEPT ![w] = <<f, g>> \o Tail(stack[w])]
  PROVE  /\ Stacks' /\ Alone'
         /\ stack'[w] # <<>> /\ Head(stack'[w]) = f
         /\ \A v \in Worker \ {w} : stack'[v] = stack[v]
         /\ Top(w) \in Live
         /\ f.op = "dec" => Live' = (Live \ {Top(w)}) \cup {g}
         /\ f.op # "dec" => Live' = (Live \ {Top(w)}) \cup {f, g}
<1> DEFINE s == stack[w]
           q == <<f, g>> \o Tail(s)
<1>1. s \in Seq(Frames) /\ Len(s) > 0 /\ s # <<>> /\ g \in Frames
  BY DEF Stacks, Frames
<1> DEFINE t == Tail(s)
<1>a. /\ t \in Seq(Frames) /\ Len(t) = Len(s) - 1 /\ s[1] = Top(w) /\ Len(s) \in Nat
      /\ \A i \in 1 .. Len(t) : t[i] = s[i + 1]
  BY <1>1 DEF Top
<1>0. q = <<f, g>> \o t
  OBVIOUS
<1> HIDE DEF q, t
<1>b. /\ q \in Seq(Frames) /\ Len(q) = Len(s) + 1 /\ q[1] = f /\ q[2] = g /\ Head(q) = f
      /\ \A i \in 1 .. Len(t) : q[i + 2] = t[i]
  BY <1>0, <1>1, <1>a
<1>c. \A i \in 2 .. Len(s) : q[i + 1] = s[i]
  <2> TAKE i \in 2 .. Len(s)
  <2>1. i - 1 \in 1 .. Len(t) /\ (i - 1) + 1 = i /\ (i - 1) + 2 = i + 1
    BY <1>a
  <2> QED BY <2>1, <1>a, <1>b
<1> HIDE DEF s
<1>d. DOMAIN q = 1 .. Len(s) + 1 /\ DOMAIN s = 1 .. Len(s)
  BY <1>1, <1>b
<1> USE DEF s
<1>2. /\ q \in Seq(Frames) /\ Len(q) = Len(s) + 1 /\ s[1] = Top(w) /\ 1 \in DOMAIN s
      /\ q[1] = f /\ q[2] = g /\ 1 \in DOMAIN q /\ 2 \in DOMAIN q /\ Head(q) = f /\ q # <<>>
      /\ \A i \in DOMAIN q : i # 1 /\ i # 2 => i - 1 \in DOMAIN s /\ q[i] = s[i - 1] /\ i - 1 # 1
      /\ \A i \in DOMAIN s : i # 1 => i + 1 \in DOMAIN q /\ q[i + 1] = s[i]
      /\ \A i \in DOMAIN q : i \in Nat
  <2> HIDE DEF s, q
  <2>1. \A i \in DOMAIN q : i # 1 /\ i # 2 => i - 1 \in DOMAIN s /\ q[i] = s[i - 1] /\ i - 1 # 1
    <3> TAKE i \in DOMAIN q
    <3> HAVE i # 1 /\ i # 2
    <3>1. i - 1 \in 2 .. Len(s) /\ (i - 1) + 1 = i
      BY <1>a, <1>d
    <3> QED BY <3>1, <1>c, <1>d, <1>a
  <2> QED BY <2>1, <1>1, <1>a, <1>b, <1>c, <1>d
<1>3. stack'[w] = q /\ \A v \in Worker \ {w} : stack'[v] = stack[v]
  BY DEF Stacks, q
<1>4. g.op # "dec" /\ Top(w).op # "dec" /\ Top(w) \in Live
  <2>1. g.op # "dec" /\ Top(w).op # "dec"
    BY KindsApart DEF Same
  <2> QED BY <2>1, <1>2, LiveIn
<1>5. Stacks'
  <2>1. stack' \in [Worker -> Seq(Frames)]
    BY <1>2 DEF Stacks, Frames
  <2>2. ASSUME NEW v \in Worker, NEW i \in DOMAIN stack'[v], stack'[v][i].op = "dec"
        PROVE  i = 1
    BY <2>2, <1>2, <1>3, <1>4 DEF Stacks
  <2> QED BY <2>1, <2>2 DEF Stacks, Frames
(* A call that is not the new one was there before, if with another step.  *)
<1> DEFINE old(v, i) == IF v = w THEN i - 1 ELSE i
<1>6. \A v \in Worker : \A i \in DOMAIN stack'[v] : ~ (v = w /\ i = 1) =>
        old(v, i) \in DOMAIN stack[v] /\ Same(stack'[v][i], stack[v][old(v, i)])
  BY <1>2, <1>3 DEF Same
<1>7. Alone'
  <2> SUFFICES ASSUME NEW v \in Worker, NEW u \in Worker,
                      NEW i \in DOMAIN stack'[v], NEW j \in DOMAIN stack'[u],
                      stack'[v][i].op # "dec", Same(stack'[v][i], stack'[u][j])
               PROVE  v = u /\ i = j
    BY DEF Alone
  <2>1. CASE ~ (v = w /\ i = 1) /\ ~ (u = w /\ j = 1)
    <3> HIDE DEF old
    <3>a. /\ old(v, i) \in DOMAIN stack[v] /\ Same(stack'[v][i], stack[v][old(v, i)])
          /\ old(u, j) \in DOMAIN stack[u] /\ Same(stack'[u][j], stack[u][old(u, j)])
      BY <2>1, <1>6
    <3>b. stack[v][old(v, i)].op # "dec" /\ Same(stack[v][old(v, i)], stack[u][old(u, j)])
      BY <3>a DEF Same
    <3>1. v = u /\ old(v, i) = old(u, j)
      BY <3>a, <3>b DEF Alone
    <3> USE DEF old
    <3>2. v = w => i \in Nat /\ j \in Nat
      BY <3>1, <1>2, <1>3
    <3> QED BY <3>1, <3>2
  <2>2. CASE v = w /\ i = 1 /\ ~ (u = w /\ j = 1)
    <3>1. old(u, j) \in DOMAIN stack[u] /\ Same(stack[u][old(u, j)], f) /\ f.op # "dec"
      BY <2>2, <1>2, <1>3, <1>6 DEF Same
    <3>2. stack[u][old(u, j)] \in Live
      BY <3>1, LiveIn DEF Same
    <3> QED BY <3>1, <3>2
  <2>3. CASE u = w /\ j = 1 /\ ~ (v = w /\ i = 1)
    <3>1. old(v, i) \in DOMAIN stack[v] /\ Same(stack[v][old(v, i)], f) /\ f.op # "dec"
      BY <2>3, <1>2, <1>3, <1>6 DEF Same
    <3>2. stack[v][old(v, i)] \in Live
      BY <3>1, LiveIn DEF Same
    <3> QED BY <3>1, <3>2
  <2> QED BY <2>1, <2>2, <2>3
<1>8. \A h \in Live' : h = f \/ h = g \/ (h \in Live /\ h # Top(w))
  <2> TAKE h \in Live'
  <2>0. PICK v \in Worker : \E i \in DOMAIN stack'[v] : h = stack'[v][i]
    BY LiveInNext
  <2>1. PICK i \in DOMAIN stack'[v] : h = stack'[v][i]
    BY <2>0
  <2>2. h.op # "dec"
    BY LiveInNext
  <2>3. CASE v = w /\ i \in {1, 2}
    BY <2>1, <2>3, <1>2, <1>3
  <2>4. CASE ~ (v = w /\ i \in {1, 2})
    <3>1. old(v, i) \in DOMAIN stack[v] /\ h = stack[v][old(v, i)] /\ ~ (v = w /\ old(v, i) = 1)
      BY <2>1, <2>4, <1>2, <1>3
    <3>2. h # Top(w)
      <4> HIDE DEF old
      <4>1. \A k \in DOMAIN stack[v] : stack[v][k].op # "dec" /\ Same(stack[v][k], stack[w][1]) =>
              v = w /\ k = 1
        BY <1>2 DEF Alone
      <4> QED BY <4>1, <3>1, <2>2, <1>2 DEF Same
    <3> QED BY <3>1, <3>2, <2>2, LiveIn
  <2> QED BY <2>3, <2>4
<1>9. \A h \in Live : h # Top(w) => h \in Live'
  <2> TAKE h \in Live
  <2> HAVE h # Top(w)
  <2>0. PICK v \in Worker : \E i \in DOMAIN stack[v] : h = stack[v][i]
    BY LiveIn
  <2>1. PICK i \in DOMAIN stack[v] : h = stack[v][i]
    BY <2>0
  <2>2. h.op # "dec"
    BY LiveIn
  <2>3. CASE v = w
    <3>1. i # 1
      BY <2>1, <2>3, <1>2
    <3>2. i + 1 \in DOMAIN stack'[w] /\ stack'[w][i + 1] = h
      BY <3>1, <2>1, <2>3, <1>2, <1>3
    <3> QED BY <3>2, <2>2, LiveInNext
  <2>4. CASE v # w
    BY <2>1, <2>2, <2>4, <1>3, LiveInNext
  <2> QED BY <2>3, <2>4
<1>10. g \in Live' /\ (f.op # "dec" => f \in Live') /\ (f.op = "dec" => f \notin Live')
  BY <1>2, <1>3, <1>4, LiveInNext
<1>11. f.op = "dec" => Live' = (Live \ {Top(w)}) \cup {g}
  BY <1>8, <1>9, <1>10
<1>12. f.op # "dec" => Live' = (Live \ {Top(w)}) \cup {f, g}
  BY <1>8, <1>9, <1>10
<1> QED BY <1>2, <1>3, <1>4, <1>5, <1>7, <1>11, <1>12

(* A worker starts a task. *)
LEMMA Started ==
  ASSUME Stacks, Alone, NEW w \in Worker, stack[w] = <<>>, NEW f \in Legal,
         \A h \in Live : ~ Same(h, f), stack' = [stack EXCEPT ![w] = <<f>>]
  PROVE  /\ Stacks' /\ Alone'
         /\ stack'[w] # <<>> /\ Head(stack'[w]) = f
         /\ \A v \in Worker \ {w} : stack'[v] = stack[v]
         /\ Live' = Live \cup {f}
<1>1. stack'[w] = <<f>> /\ \A v \in Worker \ {w} : stack'[v] = stack[v]
  BY DEF Stacks
<1>2. f.op # "dec" /\ f \in Frames
  BY KindsApart DEF Frames
<1>3. Stacks'
  <2>1. stack' \in [Worker -> Seq(Frames)]
    BY <1>2 DEF Stacks, Frames
  <2>2. ASSUME NEW v \in Worker, NEW i \in DOMAIN stack'[v], stack'[v][i].op = "dec"
        PROVE  i = 1
    BY <2>2, <1>1 DEF Stacks
  <2> QED BY <2>1, <2>2 DEF Stacks, Frames
<1>4. Alone'
  <2> SUFFICES ASSUME NEW v \in Worker, NEW u \in Worker,
                      NEW i \in DOMAIN stack'[v], NEW j \in DOMAIN stack'[u],
                      stack'[v][i].op # "dec", Same(stack'[v][i], stack'[u][j])
               PROVE  v = u /\ i = j
    BY DEF Alone
  <2>1. CASE v # w /\ u # w
    BY <2>1, <1>1 DEF Alone
  <2>2. CASE v = w /\ u # w
    BY <2>2, <1>1, LiveIn DEF Same
  <2>3. CASE v # w /\ u = w
    BY <2>3, <1>1, LiveIn DEF Same
  <2>4. CASE v = w /\ u = w
    BY <2>4, <1>1
  <2> QED BY <2>1, <2>2, <2>3, <2>4
<1>5. Live' \subseteq Live \cup {f}
  BY <1>1, LiveIn, LiveInNext
<1>6. Live \subseteq Live'
  BY <1>1, LiveIn, LiveInNext
<1>7. f \in Live'
  BY <1>1, <1>2, LiveInNext
<1> QED BY <1>1, <1>3, <1>4, <1>5, <1>6, <1>7

(* The innermost call of a worker is a legal one.                          *)
LEMMA TopIs ==
  ASSUME Stacks, NEW w \in Worker, stack[w] # <<>>
  PROVE  /\ Top(w) \in Frames
         /\ Top(w).op # "dec" => Top(w) \in Legal /\ Top(w) \in Live
         /\ Top(w).op = "dec" => Top(w) \in LegalDec
         /\ Top(w) = [op |-> Top(w).op, root |-> RootOf(w), at |-> Top(w).at, todo |-> Top(w).todo]
         /\ RootOf(w) \in Root
<1>1. stack[w] \in Seq(Frames) /\ 1 \in DOMAIN stack[w] /\ stack[w][1] = Top(w)
  BY DEF Stacks, Frames, Top
<1>2. Top(w) \in Frames
  BY <1>1
<1>3. Top(w).op # "dec" => Top(w) \in Live
  BY <1>1, LiveIn
<1>4. Top(w) \in Shape
  BY <1>2, LegalShape DEF Frames
<1>5. Top(w) = [op |-> Top(w).op, root |-> RootOf(w), at |-> Top(w).at, todo |-> Top(w).todo]
  BY <1>4 DEF RootOf, Shape
<1> QED BY <1>2, <1>3, <1>4, <1>5, KindsApart DEF Frames, RootOf, Shape

(* The call x at another step. *)
Moved(x, at) == [op |-> x.op, root |-> x.root, at |-> at, todo |-> x.todo]

(* Go replaces the innermost call and puts calls on it.                    *)
LEMMA GoIs ==
  ASSUME Stacks, NEW w \in Worker, stack[w] # <<>>, NEW at
  PROVE  /\ Step(w, at) => stack' = [stack EXCEPT ![w] = <<Moved(Top(w), at)>> \o Tail(stack[w])]
         /\ \A f : Go(w, <<f>>, at) =>
              stack' = [stack EXCEPT ![w] = <<f, Moved(Top(w), at)>> \o Tail(stack[w])]
<1> DEFINE g == [Top(w) EXCEPT !.at = at]
<1>1. g = Moved(Top(w), at)
  BY TopIs DEF Moved, RootOf
<1>2. Tail(stack[w]) \in Seq(Frames)
  BY DEF Stacks, Frames
<1>3. <<>> \o <<g>> = <<g>> /\ \A f : <<f>> \o <<g>> = <<f, g>>
  <2> HIDE DEF g
  <2>1. <<g>> \in Seq({g})
    OBVIOUS
  <2>2. <<>> \o <<g>> = <<g>>
    BY <2>1, ConcatEmptySeq
  <2>3. ASSUME NEW f PROVE <<f>> \o <<g>> = <<f, g>>
    <3>1. <<f>> \in Seq({f, g}) /\ <<g>> \in Seq({f, g}) /\ <<f, g>> \in Seq({f, g})
      OBVIOUS
    <3>2. Len(<<f>>) = 1 /\ Len(<<g>>) = 1 /\ Len(<<f, g>>) = 2
      OBVIOUS
    <3> DEFINE c == <<f>> \o <<g>>
    <3>3. c \in Seq({f, g}) /\ Len(c) = 2 /\ c[1] = f /\ c[2] = g
      BY <3>1, <3>2, ConcatProperties
    <3>4. \A i \in 1 .. 2 : c[i] = <<f, g>>[i]
      BY <3>3
    <3> HIDE DEF c
    <3>5. c = <<f, g>>
      BY <3>1, <3>2, <3>3, <3>4, SeqEqual
    <3> QED BY <3>5 DEF c
  <2> QED BY <2>2, <2>3
<1>4. Step(w, at) => stack' = [stack EXCEPT ![w] = (<<>> \o <<g>>) \o Tail(stack[w])]
  BY DEF Step, Go
<1>5. ASSUME NEW f, Go(w, <<f>>, at)
      PROVE  stack' = [stack EXCEPT ![w] = (<<f>> \o <<g>>) \o Tail(stack[w])]
  BY <1>5 DEF Go
<1> HIDE DEF g
<1>6. ASSUME NEW f, Go(w, <<f>>, at)
      PROVE  stack' = [stack EXCEPT ![w] = <<f, Moved(Top(w), at)>> \o Tail(stack[w])]
  BY <1>1, <1>3, <1>5, <1>6
<1>7. Step(w, at) => stack' = [stack EXCEPT ![w] = <<Moved(Top(w), at)>> \o Tail(stack[w])]
  BY <1>1, <1>3, <1>4
<1> QED BY <1>6, <1>7

-----------------------------------------------------------------------------
(* What a step of the task of x does: x becomes g, and F, calls of tasks   *)
(* that had none, are made.                                                *)

Moves(x, g, F) ==
  /\ Stacks' /\ Alone' /\ x \in Live /\ Same(g, x) /\ F \subseteq Legal
  /\ Live' = (Live \ {x}) \cup ({g} \cup F)
  /\ \A f \in F : \A h \in Live : ~ Same(h, f)

(* There is one call of a task after a step, too. *)
LEMMA LiveOneNext ==
  ASSUME Alone'
  PROVE  \A f, h \in Live' : Same(f, h) => f = h
BY LiveInNext DEF Alone

(* Where the other tasks are does not change. *)
LEMMA MovesView ==
  ASSUME Stacks, Alone, NEW x, NEW g, NEW F, Moves(x, g, F)
  PROVE  /\ \A op, r, S : ~ (op = x.op /\ r = x.root) /\ (\A f \in F : ~ (f.op = op /\ f.root = r)) =>
              (Holds(op, r, S)' <=> Holds(op, r, S)) /\ (Within(op, r, S)' <=> Within(op, r, S))
         /\ \A S : /\ Holds(x.op, x.root, S) <=> x.at \in S
                   /\ Within(x.op, x.root, S) <=> x.at \in S
                   /\ Holds(x.op, x.root, S)' <=> g.at \in S
                   /\ Within(x.op, x.root, S)' <=> g.at \in S
         /\ \A op, r, S : (\E f \in F : f.op = op /\ f.root = r /\ f.at = "begin") /\ "begin" \in S =>
              Within(op, r, S)' /\ Within(op, r, S)
<1>1. /\ \A f, h \in Live : Same(f, h) => f = h
      /\ \A f, h \in Live' : Same(f, h) => f = h
  <2>1. \A f, h \in Live' : Same(f, h) => f = h
    BY LiveOneNext DEF Moves
  <2> QED BY <2>1, LiveOne
<1>2. g \in Live' /\ x \in Live /\ g.op = x.op /\ g.root = x.root
  BY DEF Moves, Same
<1>3. ASSUME NEW op, NEW r, NEW S,
             ~ (op = x.op /\ r = x.root), \A f \in F : ~ (f.op = op /\ f.root = r)
      PROVE  (Holds(op, r, S)' <=> Holds(op, r, S)) /\ (Within(op, r, S)' <=> Within(op, r, S))
  <2>1. \A f : f.op = op /\ f.root = r => (f \in Live' <=> f \in Live)
    BY <1>2, <1>3 DEF Moves
  <2> QED BY <2>1 DEF Holds, Within
<1>4. ASSUME NEW S
      PROVE  /\ Holds(x.op, x.root, S) <=> x.at \in S
             /\ Within(x.op, x.root, S) <=> x.at \in S
             /\ Holds(x.op, x.root, S)' <=> g.at \in S
             /\ Within(x.op, x.root, S)' <=> g.at \in S
  <2>1. \A f \in Live : f.op = x.op /\ f.root = x.root => f = x
    BY <1>1, <1>2 DEF Same
  <2>2. \A f \in Live' : f.op = x.op /\ f.root = x.root => f = g
    BY <1>1, <1>2 DEF Same
  <2> QED BY <2>1, <2>2, <1>2 DEF Holds, Within
<1>5. ASSUME NEW op, NEW r, NEW S, NEW e \in F, e.op = op, e.root = r, e.at = "begin", "begin" \in S
      PROVE  Within(op, r, S)' /\ Within(op, r, S)
  <2>1. \A f \in Live : ~ (f.op = op /\ f.root = r)
    BY <1>5 DEF Moves, Same
  <2>2. e \in Live' /\ \A f \in Live' : f.op = op /\ f.root = r => f = e
    BY <1>1, <1>5 DEF Moves, Same
  <2> QED BY <2>1, <2>2, <1>5 DEF Within
<1> QED BY <1>3, <1>4, <1>5

(* A task is further than it was, and it is not undone.                    *)
Marks == {Filled, Stealing, Counted, {"end"}, {"second", "end"}}
Onward ==
  /\ over \subseteq over'
  /\ \A f \in Live : \/ T(f.op, f.root) \in over'
                     \/ \E g \in Live' : Same(g, f) /\ \A S \in Marks : f.at \in S => g.at \in S

(* What a task has come past stays behind it.                              *)
LEMMA PastStays ==
  ASSUME Onward
  PROVE  /\ \A op, r : \A S \in Marks : Past(op, r, S) => Past(op, r, S)'
         /\ \A op, r : Begun(op, r) => Begun(op, r)'
<1>1. ASSUME NEW op, NEW r, NEW f \in Live, f.op = op, f.root = r
      PROVE  \/ T(op, r) \in over'
             \/ \E g \in Live' : g.op = op /\ g.root = r /\ \A S \in Marks : f.at \in S => g.at \in S
  BY <1>1 DEF Onward, Same
<1>2. ASSUME NEW op, NEW r, NEW S \in Marks, Past(op, r, S) PROVE Past(op, r, S)'
  <2>1. CASE T(op, r) \in over
    BY <2>1 DEF Onward, Past, T
  <2>2. CASE Holds(op, r, S)
    <3>1. PICK f \in Live : f.op = op /\ f.root = r /\ f.at \in S
      BY <2>2 DEF Holds
    <3> QED BY <3>1, <1>1 DEF Past, Holds, T
  <2> QED BY <1>2, <2>1, <2>2 DEF Past
<1>3. ASSUME NEW op, NEW r, Begun(op, r) PROVE Begun(op, r)'
  <2>1. CASE T(op, r) \in over
    BY <2>1 DEF Onward, Begun, T
  <2>2. CASE \E f \in Live : f.op = op /\ f.root = r
    BY <2>2, <1>1 DEF Begun, T
  <2> QED BY <1>3, <2>1, <2>2 DEF Begun
<1> QED BY <1>2, <1>3

(* Most steps change neither what is over nor its marks.                   *)
LEMMA MovesOnward ==
  ASSUME NEW x, NEW g, NEW F, Moves(x, g, F), over' = over,
         \A S \in Marks : x.at \in S => g.at \in S
  PROVE  Onward
<1>1. ASSUME NEW f \in Live PROVE \E h \in Live' : Same(h, f) /\ \A S \in Marks : f.at \in S => h.at \in S
  <2>1. CASE f = x
    BY <2>1 DEF Moves
  <2>2. CASE f # x
    BY <2>2 DEF Moves, Same
  <2> QED BY <2>1, <2>2
<1> QED BY <1>1 DEF Onward

-----------------------------------------------------------------------------
(* How the references of a root move.                                      *)

LocalAt(op, at) == \/ op = "restore" /\ at = "to local"
                   \/ op = "run" /\ at \in {"for local", "for dist"}
                   \/ op \in {"write", "put local"} /\ at = "begin"
DistAt(op, at)  == \/ op = "restore" /\ at = "to dist"
                   \/ op = "run" /\ at = "for dist"
                   \/ op = "write" /\ at \in {"begin", "second"}
                   \/ op = "put dist" /\ at = "begin"

(* The sets of references are finite. *)
LEMMA RefsFinite ==
  ASSUME NEW r
  PROVE  /\ IsFiniteSet(TakeRefs(r)) /\ IsFiniteSet(DecRefs(r))
         /\ IsFiniteSet(LocalRefs(r)) /\ IsFiniteSet(DistRefs(r))
<1>1. IsFiniteSet(Ops)
  <2> DEFINE A == {} \cup {"restore"}
             B == A \cup {"run"}
             C == B \cup {"write"}
             D == C \cup {"put local"}
             E == D \cup {"put dist"}
             G == E \cup {"result"}
  <2>1. G = Ops
    BY DEF Ops
  <2>2. IsFiniteSet(A)
    BY FS_EmptySet, FS_AddElement
  <2> HIDE DEF A
  <2>3. IsFiniteSet(B)
    BY <2>2, FS_AddElement
  <2> HIDE DEF B
  <2>4. IsFiniteSet(C)
    BY <2>3, FS_AddElement
  <2> HIDE DEF C
  <2>5. IsFiniteSet(D)
    BY <2>4, FS_AddElement
  <2> HIDE DEF D
  <2>6. IsFiniteSet(E)
    BY <2>5, FS_AddElement
  <2> HIDE DEF E
  <2>7. IsFiniteSet(G)
    BY <2>6, FS_AddElement
  <2> QED BY <2>1, <2>7
<1>2. IsFiniteSet(Node \cup {"result"})
  BY RootsAssumption, FS_AddElement
<1>3. TakeRefs(r) \subseteq Node \cup {"result"}
  BY DEF TakeRefs, Takers, Consumers
<1>4. DecRefs(r) \subseteq Worker /\ LocalRefs(r) \subseteq Ops /\ DistRefs(r) \subseteq Ops
  BY DEF DecRefs, LocalRefs, DistRefs
<1> QED BY <1>1, <1>2, <1>3, <1>4, RootsAssumption, FS_Subset

(* The references are also finite after a step. *)
LEMMA RefsFiniteNext ==
  ASSUME NEW r
  PROVE  /\ IsFiniteSet(TakeRefs(r)') /\ IsFiniteSet(DecRefs(r)')
         /\ IsFiniteSet(LocalRefs(r)') /\ IsFiniteSet(DistRefs(r)')
<1>1. \A z : /\ IsFiniteSet(TakeRefs(z)) /\ IsFiniteSet(DecRefs(z))
             /\ IsFiniteSet(LocalRefs(z)) /\ IsFiniteSet(DistRefs(z))
  BY RefsFinite
<1>2. (\A z : /\ IsFiniteSet(TakeRefs(z)) /\ IsFiniteSet(DecRefs(z))
              /\ IsFiniteSet(LocalRefs(z)) /\ IsFiniteSet(DistRefs(z)))'
  BY <1>1, PTL
<1> QED BY <1>2
(* The tasks N are added, x goes on as g, and F are calls of tasks of N:   *)
(* what x holds and what the new tasks hold is all that changes.           *)
Grows(x, g, F, N) ==
  /\ Moves(x, g, F)
  /\ made' = made \cup N /\ N \cap made = {} /\ over' = over
  /\ \A f \in F : T(f.op, f.root) \in N /\ f.at = "begin" /\ f.op \notin {"restore", "run"}
  /\ \A t \in N : t.op \in {"restore", "run", "result"} \/ t.root = x.root

(* Whether a task holds a reference, before such a step and after it.      *)
LEMMA HeldView ==
  ASSUME Stacks, Alone, LiveMade, over \subseteq made, NEW x, NEW g, NEW F, NEW N, Grows(x, g, F, N)
  PROVE  /\ LocalHeld(x.op, x.root) <=> LocalAt(x.op, x.at)
         /\ LocalHeld(x.op, x.root)' <=> LocalAt(x.op, g.at)
         /\ DistHeld(x.op, x.root) <=> DistAt(x.op, x.at)
         /\ DistHeld(x.op, x.root)' <=> DistAt(x.op, g.at)
         /\ \A op, r : T(op, r) \in N =>
              /\ ~ LocalHeld(op, r) /\ ~ DistHeld(op, r) /\ ~ (op = x.op /\ r = x.root)
              /\ LocalHeld(op, r)' <=> LocalAt(op, "begin")
              /\ DistHeld(op, r)' <=> DistAt(op, "begin")
         /\ \A op, r : T(op, r) \notin N /\ ~ (op = x.op /\ r = x.root) =>
              (LocalHeld(op, r)' <=> LocalHeld(op, r)) /\ (DistHeld(op, r)' <=> DistHeld(op, r))
<1>0. Moves(x, g, F)
  BY DEF Grows
<1>1. T(x.op, x.root) \in made \ over /\ T(x.op, x.root) \in made' \ over' /\ T(x.op, x.root) \notin N
  BY DEF LiveMade, Grows, Moves
<1>2. /\ LocalHeld(x.op, x.root) <=> LocalAt(x.op, x.at)
      /\ DistHeld(x.op, x.root) <=> DistAt(x.op, x.at)
  <2>1. \A S : (Waits(x.op, x.root, S) <=> x.at \in S) /\ (Holds(x.op, x.root, S) <=> x.at \in S)
    BY <1>0, <1>1, MovesView DEF Waits
  <2>2. /\ Holds(x.op, x.root, {"to local"}) <=> x.at \in {"to local"}
        /\ Holds(x.op, x.root, {"to dist"}) <=> x.at \in {"to dist"}
        /\ Holds(x.op, x.root, {"for dist"}) <=> x.at \in {"for dist"}
        /\ Holds(x.op, x.root, {"for local", "for dist"}) <=> x.at \in {"for local", "for dist"}
        /\ Waits(x.op, x.root, {"begin"}) <=> x.at \in {"begin"}
        /\ Waits(x.op, x.root, {"begin", "second"}) <=> x.at \in {"begin", "second"}
    BY <2>1, Zenon
  <2> QED BY <2>2 DEF LocalHeld, LocalAt, DistHeld, DistAt
<1>3. /\ LocalHeld(x.op, x.root)' <=> LocalAt(x.op, g.at)
      /\ DistHeld(x.op, x.root)' <=> DistAt(x.op, g.at)
  <2>1. \A S : (Waits(x.op, x.root, S)' <=> g.at \in S) /\ (Holds(x.op, x.root, S)' <=> g.at \in S)
    BY <1>0, <1>1, MovesView DEF Waits, T
  <2>2. /\ Holds(x.op, x.root, {"to local"})' <=> g.at \in {"to local"}
        /\ Holds(x.op, x.root, {"to dist"})' <=> g.at \in {"to dist"}
        /\ Holds(x.op, x.root, {"for dist"})' <=> g.at \in {"for dist"}
        /\ Holds(x.op, x.root, {"for local", "for dist"})' <=> g.at \in {"for local", "for dist"}
        /\ Waits(x.op, x.root, {"begin"})' <=> g.at \in {"begin"}
        /\ Waits(x.op, x.root, {"begin", "second"})' <=> g.at \in {"begin", "second"}
    BY <2>1, Zenon
  <2> QED BY <2>2 DEF LocalHeld, LocalAt, DistHeld, DistAt
<1>4. ASSUME NEW op, NEW r, T(op, r) \in N
      PROVE  /\ ~ LocalHeld(op, r) /\ ~ DistHeld(op, r) /\ ~ (op = x.op /\ r = x.root)
             /\ LocalHeld(op, r)' <=> LocalAt(op, "begin")
             /\ DistHeld(op, r)' <=> DistAt(op, "begin")
  <2>1. ~ (op = x.op /\ r = x.root) /\ T(op, r) \notin made
    BY <1>1, <1>4 DEF Grows
  <2>2. T(op, r) \in made' \ over'
    BY <1>4, <2>1 DEF Grows
  <2>3. \A f \in Live : ~ (f.op = op /\ f.root = r)
    BY <2>1 DEF LiveMade
  <2>4. \A S : ~ Holds(op, r, S) /\ Within(op, r, S)
    BY <2>3 DEF Holds, Within
  <2>5. \A S : ~ Waits(op, r, S)
    BY <2>1 DEF Waits
  <2>6. ~ LocalHeld(op, r) /\ ~ DistHeld(op, r)
    BY <2>4, <2>5 DEF LocalHeld, DistHeld
  <2>7. \A S : "begin" \in S => Waits(op, r, S)'
    <3>1. CASE \E f \in F : f.op = op /\ f.root = r
      <4>1. PICK f \in F : f.op = op /\ f.root = r /\ f.at = "begin"
        BY <3>1 DEF Grows
      <4>2. \A S : "begin" \in S => Within(op, r, S)'
        BY <4>1, <1>0, MovesView
      <4> QED BY <4>2, <2>2 DEF Waits, T
    <3>2. CASE \A f \in F : ~ (f.op = op /\ f.root = r)
      <4>1. \A S : Within(op, r, S)'
        BY <3>2, <2>1, <2>4, <1>0, MovesView
      <4> QED BY <4>1, <2>2 DEF Waits, T
    <3> QED BY <3>1, <3>2
  <2>8. op \in {"restore", "run"} => \A S : ~ Holds(op, r, S)'
    <3>1. op \in {"restore", "run"} => \A f \in F : ~ (f.op = op /\ f.root = r)
      BY DEF Grows
    <3> QED BY <3>1, <2>1, <2>4, <1>0, MovesView
  <2>9. LocalHeld(op, r)' <=> LocalAt(op, "begin")
    BY <2>7, <2>8 DEF LocalHeld, LocalAt
  <2>10. DistHeld(op, r)' <=> DistAt(op, "begin")
    BY <2>7, <2>8 DEF DistHeld, DistAt
  <2> QED BY <2>1, <2>6, <2>9, <2>10
<1>5. ASSUME NEW op, NEW r, T(op, r) \notin N, ~ (op = x.op /\ r = x.root)
      PROVE  (LocalHeld(op, r)' <=> LocalHeld(op, r)) /\ (DistHeld(op, r)' <=> DistHeld(op, r))
  <2>1. \A f \in F : ~ (f.op = op /\ f.root = r)
    BY <1>5 DEF Grows
  <2>2. \A S : (Holds(op, r, S)' <=> Holds(op, r, S)) /\ (Within(op, r, S)' <=> Within(op, r, S))
    BY <2>1, <1>5, <1>0, MovesView
  <2>3. T(op, r) \in made' \ over' <=> T(op, r) \in made \ over
    BY <1>5 DEF Grows
  <2>4. \A S : Waits(op, r, S)' <=> Waits(op, r, S)
    BY <2>2, <2>3 DEF Waits, T
  <2> QED BY <2>2, <2>4 DEF LocalHeld, DistHeld
<1> QED BY <1>2, <1>3, <1>4, <1>5

(* The same as sets of tasks. *)
LEMMA RefsView ==
  ASSUME Stacks, Alone, LiveMade, over \subseteq made, NEW x, NEW g, NEW F, NEW N, Grows(x, g, F, N)
  PROVE  /\ \A r : r # x.root => LocalRefs(r)' = LocalRefs(r) /\ DistRefs(r)' = DistRefs(r)
         /\ LocalRefs(x.root)' = (LocalRefs(x.root) \ {x.op})
              \cup {op \in Ops : \/ op = x.op /\ LocalAt(op, g.at)
                                 \/ T(op, x.root) \in N /\ LocalAt(op, "begin")}
         /\ DistRefs(x.root)' = (DistRefs(x.root) \ {x.op})
              \cup {op \in Ops : \/ op = x.op /\ DistAt(op, g.at)
                                 \/ T(op, x.root) \in N /\ DistAt(op, "begin")}
         /\ x.op \in LocalRefs(x.root) <=> x.op \in Ops /\ LocalAt(x.op, x.at)
         /\ x.op \in DistRefs(x.root) <=> x.op \in Ops /\ DistAt(x.op, x.at)
         /\ \A op : T(op, x.root) \in N => op \notin LocalRefs(x.root) /\ op \notin DistRefs(x.root)
<1>1. ASSUME NEW r, r # x.root PROVE LocalRefs(r)' = LocalRefs(r) /\ DistRefs(r)' = DistRefs(r)
  <2>1. \A op : T(op, r) \in N => op \in {"restore", "run", "result"}
    <3>1. \A op : T(op, r).op = op /\ T(op, r).root = r
      BY DEF T
    <3> QED BY <1>1, <3>1 DEF Grows
  <2>2. \A op : (LocalHeld(op, r)' <=> LocalHeld(op, r)) /\ (DistHeld(op, r)' <=> DistHeld(op, r))
    BY <1>1, <2>1, HeldView DEF LocalAt, DistAt
  <2> QED BY <2>2 DEF LocalRefs, DistRefs
<1>2. LocalRefs(x.root)' = (LocalRefs(x.root) \ {x.op})
        \cup {op \in Ops : \/ op = x.op /\ LocalAt(op, g.at)
                           \/ T(op, x.root) \in N /\ LocalAt(op, "begin")}
  <2>1. \A op \in Ops : op \in LocalRefs(x.root)' <=>
          \/ op \in LocalRefs(x.root) /\ op # x.op
          \/ op = x.op /\ LocalAt(op, g.at)
          \/ T(op, x.root) \in N /\ LocalAt(op, "begin")
    BY HeldView DEF LocalRefs
  <2> QED BY <2>1 DEF LocalRefs
<1>3. DistRefs(x.root)' = (DistRefs(x.root) \ {x.op})
        \cup {op \in Ops : \/ op = x.op /\ DistAt(op, g.at)
                           \/ T(op, x.root) \in N /\ DistAt(op, "begin")}
  <2>1. \A op \in Ops : op \in DistRefs(x.root)' <=>
          \/ op \in DistRefs(x.root) /\ op # x.op
          \/ op = x.op /\ DistAt(op, g.at)
          \/ T(op, x.root) \in N /\ DistAt(op, "begin")
    BY HeldView DEF DistRefs
  <2> QED BY <2>1 DEF DistRefs
<1>4. /\ x.op \in LocalRefs(x.root) <=> x.op \in Ops /\ LocalAt(x.op, x.at)
      /\ x.op \in DistRefs(x.root) <=> x.op \in Ops /\ DistAt(x.op, x.at)
      /\ \A op : T(op, x.root) \in N => op \notin LocalRefs(x.root) /\ op \notin DistRefs(x.root)
  BY HeldView DEF LocalRefs, DistRefs
<1> QED BY <1>1, <1>2, <1>3, <1>4
-----------------------------------------------------------------------------
(* What is kept of the invariant, part by part, by a step of a task.       *)

(* The tasks that were made stay as they should be. *)
LEMMA MadeStays ==
  ASSUME MadeGood, Onward, build' = build, ok \subseteq ok', NEW N \in SUBSET Task,
         made' = made \cup N, over' \subseteq made', \A t \in N : MadeOK(t)'
  PROVE  MadeGood'
<1>1. /\ \A op, r : Past(op, r, Counted) => Past(op, r, Counted)'
      /\ \A op, r : Past(op, r, {"end"}) => Past(op, r, {"end"})'
      /\ \A op, r : Past(op, r, {"second", "end"}) => Past(op, r, {"second", "end"})'
  <2>1. Counted \in Marks /\ {"end"} \in Marks /\ {"second", "end"} \in Marks
    BY DEF Marks
  <2> QED BY <2>1, PastStays, Zenon
<1>2. ASSUME NEW t \in made PROVE MadeOK(t)'
  <2>1. MadeOK(t)
    BY DEF MadeGood
  <2> QED BY <2>1, <1>1 DEF MadeOK, Takers, Eager, Result
<1> QED BY <1>2 DEF MadeGood, Task

(* A node that is over stays over. *)
LEMMA NodeOverStays ==
  ASSUME over \subseteq over', NEW N, made' = made \cup N,
         \A t \in N : t.op \in {"restore", "run"} => ~ NodeOver(t.root[1])
  PROVE  \A n \in Node : NodeOver(n) => NodeOver(n)'
<1> SUFFICES ASSUME NEW n \in Node, NodeOver(n) PROVE NodeOver(n)'
  OBVIOUS
<1>1. \A k \in {"restore", "run"} : T(k, <<n, k>>).op = k /\ T(k, <<n, k>>).root[1] = n
  BY DEF T
<1>2. \A k \in {"restore", "run"} : T(k, <<n, k>>) \notin N
  BY <1>1
<1>3. MainTasks(n)' = MainTasks(n)
  BY <1>2 DEF MainTasks, T
<1> QED BY <1>3 DEF NodeOver

(* A task that is started is ready. *)
LEMMA ReadyStays ==
  ASSUME Ready, build' = build, RootsAssumption, \A n \in Node : NodeOver(n) => NodeOver(n)',
         \A n \in Node : Begun("run", <<n, "run">>)' =>
           Begun("run", <<n, "run">>) \/ \A d \in Deps[n] : NodeOver(d),
         \A n \in Node : ~ Eager /\ Begun("result", <<n, "run">>)' =>
           Begun("result", <<n, "run">>) \/ NodeOver(n)
  PROVE  Ready'
<1>1. \A n \in Node : Deps[n] \subseteq Node
  BY DEF RootsAssumption
<1> QED BY <1>1 DEF Ready, Eager

(* What was taken stays taken.  No call gets roots to steal but by looking *)
(* for them.                                                               *)
LEMMA TookStays ==
  ASSUME TookGood, Onward, build' = build, ok \subseteq ok', took \subseteq took',
         took' \subseteq Root \X (Node \cup {"result"}),
         \A p \in took' \ took : TookOK(p[1], p[2])',
         \A f \in Live' : \A r \in f.todo :
           \/ \E h \in Live : Same(f, h) /\ r \in h.todo
           \/ r \in ok' /\ r[1] \in Deps[f.root[1]] /\ ~ \E u \in Node : <<r, u>> \in took /\ f.root = <<u, "run">>
  PROVE  TookGood'
<1>1. /\ \A op, r : Past(op, r, {"end"}) => Past(op, r, {"end"})'
      /\ \A op, r : Past(op, r, Stealing) => Past(op, r, Stealing)'
  <2>1. {"end"} \in Marks /\ Stealing \in Marks
    BY DEF Marks
  <2> QED BY <2>1, PastStays, Zenon
<1>2. ASSUME NEW p \in took PROVE TookOK(p[1], p[2])'
  <2>1. TookOK(p[1], p[2])
    BY DEF TookGood
  <2> DEFINE r == p[1]
             u == p[2]
  <2>2. p = <<r, u>>
    BY DEF TookGood
  <2>3. r \in ok' /\ Past(r[2], r, {"end"})' /\ u \in Takers(r)'
    BY <2>1, <1>1 DEF TookOK, Takers, Result
  <2>4. u \in Node => Past("run", <<u, "run">>, Stealing)'
    BY <2>1, <1>1 DEF TookOK
  <2>5. ASSUME u \in Node, NEW f \in Live', f.op = "run", f.root = <<u, "run">>
        PROVE  r \notin f.todo
    BY <2>1, <2>2, <2>5 DEF TookOK, Same
  <2>6. u = "result" => Past("result", IF Eager THEN r ELSE <<r[1], "run">>, {"end"})'
    BY <2>1, <1>1 DEF TookOK, Eager
  <2> QED BY <2>3, <2>4, <2>5, <2>6 DEF TookOK
<1>3. \A p \in took' : TookOK(p[1], p[2])'
  BY <1>2
<1>4. ASSUME NEW f \in Live', NEW r \in f.todo PROVE r \in ok' /\ r[1] \in Deps[f.root[1]]
  BY DEF TookGood, Same
<1> QED BY <1>3, <1>4 DEF TookGood

(* The roots that were good stay good. *)
LEMMA OkStays ==
  ASSUME OkGood, Onward, ok \subseteq ok', created \subseteq created', ok' \subseteq created',
         created' \subseteq Root, \A r \in ok' \ ok : Past(r[2], r, Filled)',
         \A f \in Live' : f \in Live \/
           /\ f.op \in {"restore", "run"} /\ f.at # "begin" => f.root \in created'
           /\ f.at \in Filled \ Counted => f.root \in ok',
         \A v \in Worker : stack'[v] # <<>> /\ Head(stack'[v]).op = "dec" => Head(stack'[v]).root \in ok'
  PROVE  OkGood'
<1>1. \A op, r : Past(op, r, Filled) => Past(op, r, Filled)'
  BY PastStays DEF Marks
<1>2. \A r \in ok' : Past(r[2], r, Filled)'
  BY <1>1 DEF OkGood
<1>3. ASSUME NEW f \in Live'
      PROVE  /\ f.op \in {"restore", "run"} /\ f.at # "begin" => f.root \in created'
             /\ f.at \in Filled \ Counted => f.root \in ok'
  BY DEF OkGood
<1>4. \A v \in Worker : stack'[v] # <<>> /\ Top(v)'.op = "dec" => RootOf(v)' \in ok'
  BY DEF Top, RootOf
<1> QED BY <1>2, <1>3, <1>4 DEF OkGood

(* The worker w neither was in dec nor is, and the others do nothing.      *)
NoDec(w) ==
  /\ \A v \in Worker \ {w} : stack'[v] = stack[v]
  /\ stack[w] # <<>> => Head(stack[w]).op # "dec"
  /\ stack'[w] # <<>> => Head(stack'[w]).op # "dec"

(* Then the calls of dec are the same. *)
LEMMA NoDecSame ==
  ASSUME NEW w \in Worker, NoDec(w)
  PROVE  /\ \A r : DecRefs(r)' = DecRefs(r)
         /\ \A v \in Worker : \A at : /\ At(v, "dec", at)' <=> At(v, "dec", at)
                                      /\ At(v, "dec", at) => RootOf(v)' = RootOf(v)
         /\ \A v \in Worker : stack'[v] # <<>> /\ Head(stack'[v]).op = "dec" =>
              stack[v] # <<>> /\ Head(stack[v]) = Head(stack'[v])
<1>1. ASSUME NEW v \in Worker, NEW at
      PROVE  /\ At(v, "dec", at)' <=> At(v, "dec", at)
             /\ At(v, "dec", at) => RootOf(v)' = RootOf(v)
  BY DEF NoDec, At, RootOf, Top
<1>2. \A r : DecRefs(r)' = DecRefs(r)
  BY <1>1 DEF DecRefs
<1> QED BY <1>1, <1>2 DEF NoDec

(* The steps of a task: one that calls nothing, ... *)
LEMMA StepMoves ==
  ASSUME Stacks, Alone, NEW w \in Worker, stack[w] # <<>>, Top(w).op # "dec", NEW at,
         Moved(Top(w), at) \in Legal, Step(w, at)
  PROVE  Moves(Top(w), Moved(Top(w), at), {}) /\ NoDec(w)
<1> DEFINE g == Moved(Top(w), at)
<1>1. Same(g, Top(w)) /\ g \in Frames
  BY DEF Same, Moved, Frames
<1>2. stack' = [stack EXCEPT ![w] = <<g>> \o Tail(stack[w])]
  BY GoIs
<1> HIDE DEF g
<1>3. Stacks' /\ Alone' /\ Head(stack'[w]) = g /\ (\A v \in Worker \ {w} : stack'[v] = stack[v])
      /\ Top(w) \in Live /\ Live' = (Live \ {Top(w)}) \cup {g}
  BY <1>1, <1>2, Replaced
<1>4. Moves(Top(w), g, {})
  BY <1>1, <1>3 DEF Moves
<1>5. NoDec(w)
  BY <1>1, <1>3 DEF NoDec, Same, Top
<1> QED BY <1>4, <1>5 DEF g

(* ... one that executes a task in place, ... *)
LEMMA PushMoves ==
  ASSUME Stacks, Alone, NEW w \in Worker, stack[w] # <<>>, Top(w).op # "dec", NEW at,
         Moved(Top(w), at) \in Legal, NEW f \in Legal, \A h \in Live : ~ Same(h, f),
         Go(w, <<f>>, at)
  PROVE  Moves(Top(w), Moved(Top(w), at), {f}) /\ NoDec(w)
<1> DEFINE g == Moved(Top(w), at)
<1>1. Same(g, Top(w)) /\ g \in Legal /\ f \in Frames
  BY DEF Same, Moved, Frames
<1>2. stack' = [stack EXCEPT ![w] = <<f, g>> \o Tail(stack[w])]
  BY GoIs
<1> HIDE DEF g
<1>3. f.op # "dec"
  BY KindsApart
<1>4. Stacks' /\ Alone' /\ Head(stack'[w]) = f /\ (\A v \in Worker \ {w} : stack'[v] = stack[v])
      /\ Top(w) \in Live /\ Live' = (Live \ {Top(w)}) \cup {f, g}
  BY <1>1, <1>2, <1>3, Pushed
<1>5. Moves(Top(w), g, {f})
  BY <1>1, <1>4 DEF Moves
<1>6. NoDec(w)
  BY <1>3, <1>4 DEF NoDec, Top
<1> QED BY <1>5, <1>6 DEF g

(* ... and one that calls dec. *)
CallsDec(w, r) ==
  /\ \A v \in Worker \ {w} : stack'[v] = stack[v]
  /\ stack[w] # <<>> /\ Head(stack[w]).op # "dec"
  /\ stack'[w] # <<>> /\ Head(stack'[w]) = DecFrame(r)

LEMMA DecMoves ==
  ASSUME Stacks, Alone, NEW w \in Worker, stack[w] # <<>>, Top(w).op # "dec", NEW g \in Legal,
         Same(g, Top(w)), NEW r \in Root,
         stack' = [stack EXCEPT ![w] = <<DecFrame(r), g>> \o Tail(stack[w])]
  PROVE  Moves(Top(w), g, {}) /\ CallsDec(w, r)
<1>1. DecFrame(r) \in Frames /\ DecFrame(r).op = "dec"
  BY DEF DecFrame, Frames, LegalDec
<1>2. \A h \in Live : ~ Same(h, DecFrame(r))
  BY <1>1, LiveIn DEF Same
<1>3. Stacks' /\ Alone' /\ stack'[w] # <<>> /\ Head(stack'[w]) = DecFrame(r)
      /\ (\A v \in Worker \ {w} : stack'[v] = stack[v])
      /\ Top(w) \in Live /\ Live' = (Live \ {Top(w)}) \cup {g}
  BY <1>1, <1>2, Pushed
<1> QED BY <1>3 DEF Moves, CallsDec, Top

(* The call of dec holds a reference. *)
LEMMA CallsDecView ==
  ASSUME NEW w \in Worker, NEW r \in Root, CallsDec(w, r)
  PROVE  /\ \A z : z # r => DecRefs(z)' = DecRefs(z)
         /\ DecRefs(r)' = DecRefs(r) \cup {w} /\ w \notin DecRefs(r)
         /\ \A v \in Worker : /\ At(v, "dec", "delete")' <=> At(v, "dec", "delete")
                              /\ At(v, "dec", "delete") => RootOf(v)' = RootOf(v)
         /\ \A v \in Worker : stack'[v] # <<>> /\ Head(stack'[v]).op = "dec" =>
              Head(stack'[v]).root = r \/ (stack[v] # <<>> /\ Head(stack[v]) = Head(stack'[v]))
<1>1. DecFrame(r).op = "dec" /\ DecFrame(r).root = r /\ DecFrame(r).at = "locked"
  BY DEF DecFrame
<1>2. At(w, "dec", "locked")' /\ RootOf(w)' = r /\ ~ At(w, "dec", "locked")
      /\ ~ At(w, "dec", "delete")' /\ ~ At(w, "dec", "delete")
  BY <1>1 DEF CallsDec, At, RootOf, Top
<1>3. ASSUME NEW v \in Worker \ {w}, NEW at
      PROVE  /\ At(v, "dec", at)' <=> At(v, "dec", at)
             /\ RootOf(v)' = RootOf(v)
  BY DEF CallsDec, At, RootOf, Top
<1>4. \A z : z # r => DecRefs(z)' = DecRefs(z)
  BY <1>2, <1>3 DEF DecRefs
<1>5. DecRefs(r)' = DecRefs(r) \cup {w} /\ w \notin DecRefs(r)
  BY <1>2, <1>3 DEF DecRefs
<1>6. \A v \in Worker : /\ At(v, "dec", "delete")' <=> At(v, "dec", "delete")
                        /\ At(v, "dec", "delete") => RootOf(v)' = RootOf(v)
  BY <1>2, <1>3
<1>7. \A v \in Worker : stack'[v] # <<>> /\ Head(stack'[v]).op = "dec" =>
        Head(stack'[v]).root = r \/ (stack[v] # <<>> /\ Head(stack[v]) = Head(stack'[v]))
  <2> TAKE v \in Worker
  <2>1. CASE v = w
    BY <1>1, <2>1 DEF CallsDec
  <2>2. CASE v # w
    BY <2>2 DEF CallsDec
  <2> QED BY <2>1, <2>2
<1> QED BY <1>4, <1>5, <1>6, <1>7
-----------------------------------------------------------------------------
(* A step of a task keeps the invariant if it advances the task, if what   *)
(* it adds is in order, and if the references still add up.                *)

CarriesRoots(x, g) ==
  /\ created \subseteq created' /\ created' \subseteq Root
  /\ ok \subseteq ok' /\ ok' \subseteq created'
  /\ \A r \in ok' \ ok : r = x.root /\ x.op = r[2] /\ g.at \in Filled
  /\ x.op \in {"restore", "run"} /\ g.at # "begin" => x.root \in created'
  /\ g.at \in Filled \ Counted => x.root \in ok'
  /\ took \subseteq took' /\ took' \subseteq Root \X (Node \cup {"result"})
  /\ \A p \in took' \ took : TookOK(p[1], p[2])'
  /\ \A r \in g.todo :
       \/ r \in x.todo
       \/ r \in ok' /\ r[1] \in Deps[x.root[1]] /\ ~ \E u \in Node : <<r, u>> \in took /\ x.root = <<u, "run">>
  /\ deleted' = deleted /\ refcount' \in [Root -> Int]
  /\ \A r \in Root : refcount[r] = 0 => refcount'[r] = 0

LEMMA Carried ==
  ASSUME Inv, NEW w \in Worker, NEW x, NEW g, NEW F, NEW N \in SUBSET Task,
         Grows(x, g, F, N), NoDec(w) \/ \E r \in ok' : CallsDec(w, r),
         build' = build, \A S \in Marks : x.at \in S => g.at \in S,
         \A t \in N : MadeOK(t)',
         \A t \in N : t.op \in {"restore", "run"} => ~ NodeOver(t.root[1]),
         \A f \in F : f.op = "result" => Eager,
         CarriesRoots(x, g), Counting'
  PROVE  Inv'
<1>0. /\ Moves(x, g, F) /\ over' = over /\ made' = made \cup N
      /\ Stacks /\ Alone /\ LiveMade /\ MadeGood /\ OkGood /\ Ready /\ TookGood /\ Dead
  BY DEF Inv, Grows
<1>1. Onward
  BY <1>0, MovesOnward
<1>2. build' \in Builds /\ refcount' \in [Root -> Int] /\ Stacks' /\ Alone'
  BY <1>0 DEF Inv, CarriesRoots, Moves
<1>3. \A f \in Live' : f = g \/ f \in Live \/ f \in F
  BY <1>0 DEF Moves
<1>4. LiveMade'
  <2>1. over \subseteq made
    BY <1>0 DEF MadeGood
  <2>2. ASSUME NEW f \in Live' PROVE T(f.op, f.root) \in made' \ over'
    <3>1. CASE f \in Live
      BY <3>1, <1>0 DEF LiveMade
    <3>2. CASE f = g
      BY <3>2, <1>0 DEF LiveMade, Moves, Same
    <3>3. CASE f \in F
      BY <3>3, <1>0, <2>1 DEF Grows
    <3> QED BY <3>1, <3>2, <3>3, <1>3
  <2> QED BY <2>2 DEF LiveMade, T
<1>5. MadeGood'
  <2>1. over' \subseteq made' /\ ok \subseteq ok'
    BY <1>0 DEF MadeGood, CarriesRoots
  <2> QED BY <2>1, <1>0, <1>1, MadeStays
<1>6. OkGood'
  <2>1. \A r \in ok' \ ok : Past(r[2], r, Filled)'
    <3> TAKE r \in ok' \ ok
    <3>1. r = x.root /\ x.op = r[2] /\ g.at \in Filled
      BY DEF CarriesRoots
    <3>2. g \in Live' /\ g.op = r[2] /\ g.root = r
      BY <3>1, <1>0 DEF Moves, Same
    <3> QED BY <3>1, <3>2 DEF Past, Holds
  <2>2. ASSUME NEW f \in Live', f \notin Live
        PROVE  /\ f.op \in {"restore", "run"} /\ f.at # "begin" => f.root \in created'
               /\ f.at \in Filled \ Counted => f.root \in ok'
    <3>1. CASE f = g
      BY <3>1, <1>0 DEF CarriesRoots, Moves, Same
    <3>2. CASE f \in F
      BY <3>2 DEF Grows, Filled
    <3> QED BY <3>1, <3>2, <2>2, <1>3
  <2>3. ASSUME NEW v \in Worker, stack'[v] # <<>>, Head(stack'[v]).op = "dec"
        PROVE  Head(stack'[v]).root \in ok'
    <3>1. ok \subseteq ok' /\ ok' \subseteq Root
      BY DEF CarriesRoots
    <3>2. \/ Head(stack'[v]).root \in ok'
          \/ (stack[v] # <<>> /\ Head(stack[v]) = Head(stack'[v]))
      <4>1. CASE NoDec(w)
        BY <4>1, <2>3, NoDecSame
      <4>2. CASE \E r \in ok' : CallsDec(w, r)
        BY <4>2, <2>3, <3>1, CallsDecView
      <4> QED BY <4>1, <4>2
    <3> QED BY <3>1, <3>2, <2>3, <1>0 DEF OkGood, Top, RootOf
  <2> QED BY <2>1, <2>2, <2>3, <1>0, <1>1, OkStays DEF CarriesRoots
<1>7. Ready'
  <2>1. \A n \in Node : NodeOver(n) => NodeOver(n)'
    BY <1>0, NodeOverStays
  <2>2. ASSUME NEW op \in {"run", "result"}, NEW r, Begun(op, r)', op = "run" \/ ~ Eager
        PROVE  Begun(op, r)
    <3>1. CASE T(op, r) \in over
      BY <3>1 DEF Begun
    <3>2. CASE T(op, r) \notin over
      <4>1. PICK f \in Live' : f.op = op /\ f.root = r
        BY <2>2, <3>2, <1>0 DEF Begun, T
      <4>2. f \notin F
        BY <4>1, <2>2 DEF Grows
      <4>3. \E h \in Live : h.op = op /\ h.root = r
        BY <4>1, <4>2, <1>3, <1>0 DEF Moves, Same
      <4> QED BY <4>3 DEF Begun
    <3> QED BY <3>1, <3>2
  <2>3. \A n \in Node : Begun("run", <<n, "run">>)' => Begun("run", <<n, "run">>)
    BY <2>2
  <2>4. \A n \in Node : ~ Eager /\ Begun("result", <<n, "run">>)' => Begun("result", <<n, "run">>)
    BY <2>2
  <2> QED BY <2>1, <2>3, <2>4, <1>0, RootsAssumption, ReadyStays
<1>8. TookGood'
  <2>1. ASSUME NEW f \in Live', NEW r \in f.todo
        PROVE  \/ \E h \in Live : Same(f, h) /\ r \in h.todo
               \/ r \in ok' /\ r[1] \in Deps[f.root[1]]
                  /\ ~ \E u \in Node : <<r, u>> \in took /\ f.root = <<u, "run">>
    <3>1. CASE f \in Live
      BY <3>1 DEF Same
    <3>2. CASE f = g
      <4>1. x \in Live /\ Same(g, x)
        BY <1>0 DEF Moves
      <4> QED BY <4>1, <3>2 DEF CarriesRoots, Same
    <3>3. CASE f \in F
      <4>1. f \in Legal /\ f.at # "steal"
        BY <3>3, <1>0 DEF Grows, Moves
      <4> QED BY <4>1, LegalShape
    <3> QED BY <3>1, <3>2, <3>3, <1>3
  <2>2. \A p \in took' \ took : TookOK(p[1], p[2])'
    BY DEF CarriesRoots
  <2> QED BY <2>1, <2>2, <1>0, <1>1, TookStays DEF CarriesRoots
<1>9. Dead'
  <2>1. ASSUME NEW v \in Worker, At(v, "dec", "delete")' PROVE refcount'[RootOf(v)'] = 0
    <3>1. At(v, "dec", "delete") /\ RootOf(v)' = RootOf(v)
      <4>1. CASE NoDec(w)
        BY <4>1, <2>1, NoDecSame
      <4>2. CASE \E r \in ok' : CallsDec(w, r)
        <5>1. PICK r \in ok' : CallsDec(w, r)
          BY <4>2
        <5>2. r \in Root
          BY DEF CarriesRoots
        <5> QED BY <5>1, <5>2, <2>1, CallsDecView
      <4> QED BY <4>1, <4>2
    <3>2. RootOf(v) \in Root
      BY <3>1, <1>0, TopIs DEF At
    <3> QED BY <3>1, <3>2, <1>0 DEF Dead, CarriesRoots
  <2>2. deleted \subseteq ok /\ ok \subseteq Root /\ deleted' = deleted /\ ok \subseteq ok'
    BY <1>0 DEF Dead, OkGood, CarriesRoots
  <2>3. \A r \in deleted' : refcount'[r] = 0
    BY <2>2, <1>0 DEF Dead, CarriesRoots
  <2> QED BY <2>1, <2>2, <2>3 DEF Dead
<1> QED BY <1>2, <1>4, <1>5, <1>6, <1>7, <1>8, <1>9 DEF Inv
-----------------------------------------------------------------------------
(* The invariant is kept by every action. *)

(* What a worker at a step of a task is known to have. *)
LEMMA AtIs ==
  ASSUME Inv, NEW w \in Worker, NEW op \in Ops, NEW at, At(w, op, at)
  PROVE  /\ stack[w] # <<>> /\ Top(w) \in Legal /\ Top(w) \in Live /\ Top(w).op # "dec"
         /\ Top(w).op = op /\ Top(w).at = at /\ Top(w).root = RootOf(w) /\ RootOf(w) \in Root
         /\ T(op, RootOf(w)) \in made /\ T(op, RootOf(w)) \notin over
         /\ op = "restore" => RootOf(w)[2] = "restore"
         /\ op \in {"run", "write"} => RootOf(w)[2] = "run"
         /\ at # "steal" => Top(w).todo = {}
         /\ \A S : Past(op, RootOf(w), S) <=> at \in S
         /\ \A S : Holds(op, RootOf(w), S) <=> at \in S
<1>1. Stacks /\ Alone /\ LiveMade
  BY DEF Inv
<1>2. stack[w] # <<>> /\ Top(w).op = op /\ Top(w).at = at /\ op # "dec"
  BY DEF At, Ops, Top
<1>3. Top(w) \in Legal /\ Top(w) \in Live /\ RootOf(w) \in Root /\ Top(w).root = RootOf(w)
  BY <1>1, <1>2, TopIs DEF RootOf
<1>4. T(op, RootOf(w)) \in made /\ T(op, RootOf(w)) \notin over
  BY <1>1, <1>2, <1>3 DEF LiveMade
<1>5. \A f \in Live : f.op = op /\ f.root = RootOf(w) => f = Top(w)
  BY <1>1, <1>2, <1>3, LiveOne DEF Same
<1>6. \A S : (Past(op, RootOf(w), S) <=> at \in S) /\ (Holds(op, RootOf(w), S) <=> at \in S)
  BY <1>2, <1>3, <1>4, <1>5 DEF Past, Holds
<1>7. /\ op = "restore" => RootOf(w)[2] = "restore"
      /\ op \in {"run", "write"} => RootOf(w)[2] = "run"
      /\ at # "steal" => Top(w).todo = {}
  BY <1>2, <1>3, LegalShape
<1> QED BY <1>2, <1>3, <1>4, <1>6, <1>7

LEMMA MovedIs ==
  ASSUME NEW x \in Legal, x.at # "steal", NEW at \in StepsOf(x.op), at # "steal"
  PROVE  /\ Moved(x, at) \in Legal /\ Same(Moved(x, at), x) /\ Moved(x, at).at = at
         /\ Moved(x, at).todo = {}
<1>1. x \in Shape /\ x.op \in Ops /\ x.todo = {} /\ x.root \in Root
      /\ (x.op = "restore" => x.root[2] = "restore") /\ (x.op \in {"run", "write"} => x.root[2] = "run")
  BY LegalShape DEF Shape
<1>2. [op |-> x.op, root |-> x.root, at |-> at, todo |-> {}] \in Legal
  BY <1>1, LegalMade
<1> QED BY <1>1, <1>2 DEF Moved, Same

(* A step that moves no reference keeps the count. *)
LEMMA CountKept ==
  ASSUME Inv, NEW w \in Worker, NoDec(w), NEW x, NEW g, NEW F, NEW N, Grows(x, g, F, N),
         x.op \in Ops,
         LocalAt(x.op, x.at) <=> LocalAt(x.op, g.at), DistAt(x.op, x.at) <=> DistAt(x.op, g.at),
         \A op : T(op, x.root) \in N => op \in {"restore", "run", "result"},
         build' = build, took' = took, refcount' = refcount
  PROVE  Counting'
<1>1. Stacks /\ Alone /\ LiveMade /\ over \subseteq made /\ Counting
  BY DEF Inv, MadeGood
<1>2. \A op : T(op, x.root) \in N => ~ LocalAt(op, "begin") /\ ~ DistAt(op, "begin")
  BY DEF LocalAt, DistAt
<1>3. \A op, r : T(op, r) \in N => ~ LocalAt(op, "begin") /\ ~ DistAt(op, "begin")
  <2> TAKE op, r
  <2>1. T(op, r).op = op /\ T(op, r).root = r
    BY DEF T
  <2>2. T(op, r) \in N => op \in {"restore", "run", "result"} \/ r = x.root
    BY <2>1 DEF Grows
  <2>3. op \in {"restore", "run", "result"} => ~ LocalAt(op, "begin") /\ ~ DistAt(op, "begin")
    BY DEF LocalAt, DistAt
  <2> QED BY <2>2, <2>3, <1>2
<1>4. \A op, r : (LocalHeld(op, r)' <=> LocalHeld(op, r)) /\ (DistHeld(op, r)' <=> DistHeld(op, r))
  BY <1>1, <1>3, HeldView
<1>5. \A r : LocalRefs(r)' = LocalRefs(r) /\ DistRefs(r)' = DistRefs(r)
  BY <1>4 DEF LocalRefs, DistRefs
<1>6. \A r : TakeRefs(r)' = TakeRefs(r) /\ DecRefs(r)' = DecRefs(r)
  BY NoDecSame DEF TakeRefs, Takers, Result
<1>7. \A r : Held(r)' = Held(r)
  BY <1>5, <1>6 DEF Held
<1> QED BY <1>1, <1>7 DEF Counting

LEMMA CreateKeeps ==
  ASSUME Inv, NEW w \in Worker, Create(w), build' = build
  PROVE  Inv'
<1> DEFINE x == Top(w)
           g == Moved(x, "fill")
<1>1. PICK op \in {"restore", "run"} : At(w, op, "begin")
  BY DEF Create
<1>2. /\ Step(w, "fill") /\ created' = created \cup {x.root} /\ made' = made /\ over' = over
      /\ refcount' = refcount /\ ok' = ok /\ deleted' = deleted /\ took' = took
  BY DEF Create, RootOf
<1>3. /\ stack[w] # <<>> /\ x \in Legal /\ x.op = op /\ x.at = "begin" /\ x.root \in Root
      /\ x.op # "dec" /\ x.op \in Ops
  BY <1>1, AtIs DEF Ops
<1>4. g \in Legal /\ Same(g, x) /\ g.at = "fill" /\ g.todo = {}
  BY <1>1, <1>3, MovedIs DEF StepsOf
<1>5. Moves(x, g, {}) /\ NoDec(w)
  BY <1>2, <1>3, <1>4, StepMoves DEF Inv
<1>6. Grows(x, g, {}, {})
  BY <1>2, <1>5 DEF Grows
<1> HIDE DEF x, g
<1>7. Counting'
  BY <1>1, <1>2, <1>3, <1>4, <1>5, <1>6, CountKept DEF LocalAt, DistAt
<1>8. CarriesRoots(x, g)
  BY <1>2, <1>3, <1>4 DEF CarriesRoots, Inv, OkGood, TookGood, Filled, Counted
<1>9. \A S \in Marks : x.at \in S => g.at \in S
  BY <1>3 DEF Marks, Filled, Stealing, Counted
<1> QED BY <1>5, <1>6, <1>7, <1>8, <1>9, Carried
(* How many references the tasks of x's root hold for the local cache, ... *)
NewLocal(x, N) == {op \in Ops : T(op, x.root) \in N /\ LocalAt(op, "begin")}
NewDist(x, N)  == {op \in Ops : T(op, x.root) \in N /\ DistAt(op, "begin")}

LEMMA LocalCount ==
  ASSUME Inv, NEW x, NEW g, NEW F, NEW N, Grows(x, g, F, N), x.op \in Ops
  PROVE  LET n == Cardinality(LocalRefs(x.root))
             m == Cardinality(LocalRefs(x.root)')
         IN  /\ n \in Nat /\ m \in Nat
             /\ NewLocal(x, N) = {} =>
                  /\ (LocalAt(x.op, x.at) <=> LocalAt(x.op, g.at)) => m = n
                  /\ ~ LocalAt(x.op, x.at) /\ LocalAt(x.op, g.at) => m = n + 1
                  /\ LocalAt(x.op, x.at) /\ ~ LocalAt(x.op, g.at) => m = n - 1
             /\ \A b : NewLocal(x, N) = {b} /\ LocalAt(x.op, x.at) /\ ~ LocalAt(x.op, g.at) => m = n
<1> DEFINE A == LocalRefs(x.root)
           B == LocalRefs(x.root)'
<1>1. /\ B = (A \ {x.op}) \cup ((IF LocalAt(x.op, g.at) THEN {x.op} ELSE {}) \cup NewLocal(x, N))
      /\ x.op \in A <=> LocalAt(x.op, x.at)
      /\ NewLocal(x, N) \cap A = {}
  <2>1. Stacks /\ Alone /\ LiveMade /\ over \subseteq made
    BY DEF Inv, MadeGood
  <2>2. /\ B = (A \ {x.op}) \cup {op \in Ops : \/ op = x.op /\ LocalAt(op, g.at)
                                               \/ T(op, x.root) \in N /\ LocalAt(op, "begin")}
        /\ x.op \in A <=> LocalAt(x.op, x.at)
        /\ \A op : T(op, x.root) \in N => op \notin A
    BY <2>1, RefsView
  <2> HIDE DEF A, B
  <2> QED BY <2>2 DEF NewLocal
<1>2. IsFiniteSet(A) /\ IsFiniteSet(B)
  BY RefsFinite, RefsFiniteNext
<1> HIDE DEF A, B
<1>3. Cardinality(A) \in Nat /\ Cardinality(B) \in Nat
  BY <1>2, FS_CardinalityType
<1>4. ASSUME NewLocal(x, N) = {}, LocalAt(x.op, x.at) <=> LocalAt(x.op, g.at) PROVE B = A
  BY <1>1, <1>4
<1>5. ASSUME NewLocal(x, N) = {}, ~ LocalAt(x.op, x.at), LocalAt(x.op, g.at)
      PROVE  Cardinality(B) = Cardinality(A) + 1
  <2>1. B = A \cup {x.op} /\ x.op \notin A
    BY <1>1, <1>5
  <2> QED BY <2>1, <1>2, FS_AddElement
<1>6. ASSUME NewLocal(x, N) = {}, LocalAt(x.op, x.at), ~ LocalAt(x.op, g.at)
      PROVE  Cardinality(B) = Cardinality(A) - 1
  <2>1. B = A \ {x.op} /\ x.op \in A
    BY <1>1, <1>6
  <2> QED BY <2>1, <1>2, FS_RemoveElement
<1>7. ASSUME NEW b, NewLocal(x, N) = {b}, LocalAt(x.op, x.at), ~ LocalAt(x.op, g.at)
      PROVE  Cardinality(B) = Cardinality(A)
  <2> DEFINE C == A \ {x.op}
  <2>1. B = C \cup {b} /\ x.op \in A /\ b \notin C
    BY <1>1, <1>7
  <2>2. IsFiniteSet(C) /\ Cardinality(C) = Cardinality(A) - 1
    BY <2>1, <1>2, FS_RemoveElement
  <2> HIDE DEF C
  <2>3. Cardinality(B) = Cardinality(C) + 1
    BY <2>1, <2>2, FS_AddElement
  <2> QED BY <2>2, <2>3, <1>3
<1> QED BY <1>3, <1>4, <1>5, <1>6, <1>7 DEF A, B

(* ... and for the distributed one. *)
LEMMA DistCount ==
  ASSUME Inv, NEW x, NEW g, NEW F, NEW N, Grows(x, g, F, N), x.op \in Ops
  PROVE  LET n == Cardinality(DistRefs(x.root))
             m == Cardinality(DistRefs(x.root)')
         IN  /\ n \in Nat /\ m \in Nat
             /\ NewDist(x, N) = {} =>
                  /\ (DistAt(x.op, x.at) <=> DistAt(x.op, g.at)) => m = n
                  /\ ~ DistAt(x.op, x.at) /\ DistAt(x.op, g.at) => m = n + 1
                  /\ DistAt(x.op, x.at) /\ ~ DistAt(x.op, g.at) => m = n - 1
             /\ \A b : NewDist(x, N) = {b} /\ DistAt(x.op, x.at) /\ ~ DistAt(x.op, g.at) => m = n
<1> DEFINE A == DistRefs(x.root)
           B == DistRefs(x.root)'
<1>1. /\ B = (A \ {x.op}) \cup ((IF DistAt(x.op, g.at) THEN {x.op} ELSE {}) \cup NewDist(x, N))
      /\ x.op \in A <=> DistAt(x.op, x.at)
      /\ NewDist(x, N) \cap A = {}
  <2>1. Stacks /\ Alone /\ LiveMade /\ over \subseteq made
    BY DEF Inv, MadeGood
  <2>2. /\ B = (A \ {x.op}) \cup {op \in Ops : \/ op = x.op /\ DistAt(op, g.at)
                                               \/ T(op, x.root) \in N /\ DistAt(op, "begin")}
        /\ x.op \in A <=> DistAt(x.op, x.at)
        /\ \A op : T(op, x.root) \in N => op \notin A
    BY <2>1, RefsView
  <2> HIDE DEF A, B
  <2> QED BY <2>2 DEF NewDist
<1>2. IsFiniteSet(A) /\ IsFiniteSet(B)
  BY RefsFinite, RefsFiniteNext
<1> HIDE DEF A, B
<1>3. Cardinality(A) \in Nat /\ Cardinality(B) \in Nat
  BY <1>2, FS_CardinalityType
<1>4. ASSUME NewDist(x, N) = {}, DistAt(x.op, x.at) <=> DistAt(x.op, g.at) PROVE B = A
  BY <1>1, <1>4
<1>5. ASSUME NewDist(x, N) = {}, ~ DistAt(x.op, x.at), DistAt(x.op, g.at)
      PROVE  Cardinality(B) = Cardinality(A) + 1
  <2>1. B = A \cup {x.op} /\ x.op \notin A
    BY <1>1, <1>5
  <2> QED BY <2>1, <1>2, FS_AddElement
<1>6. ASSUME NewDist(x, N) = {}, DistAt(x.op, x.at), ~ DistAt(x.op, g.at)
      PROVE  Cardinality(B) = Cardinality(A) - 1
  <2>1. B = A \ {x.op} /\ x.op \in A
    BY <1>1, <1>6
  <2> QED BY <2>1, <1>2, FS_RemoveElement
<1>7. ASSUME NEW b, NewDist(x, N) = {b}, DistAt(x.op, x.at), ~ DistAt(x.op, g.at)
      PROVE  Cardinality(B) = Cardinality(A)
  <2> DEFINE C == A \ {x.op}
  <2>1. B = C \cup {b} /\ x.op \in A /\ b \notin C
    BY <1>1, <1>7
  <2>2. IsFiniteSet(C) /\ Cardinality(C) = Cardinality(A) - 1
    BY <2>1, <1>2, FS_RemoveElement
  <2> HIDE DEF C
  <2>3. Cardinality(B) = Cardinality(C) + 1
    BY <2>1, <2>2, FS_AddElement
  <2> QED BY <2>2, <2>3, <1>3
<1> QED BY <1>3, <1>4, <1>5, <1>6, <1>7 DEF A, B
LocalCard(r) == Cardinality(LocalRefs(r))
DistCard(r)  == Cardinality(DistRefs(r))

(* What the tasks of a root hold is held by its counter; ... *)
LEMMA CountMoved ==
  ASSUME Inv, NEW w \in Worker, NoDec(w), NEW x, NEW g, NEW F, NEW N, Grows(x, g, F, N),
         x.op \in Ops, x.root \in Root, build' = build, took' = took,
         \A r \in Root \ {x.root} : refcount'[r] = refcount[r],
         LocalCard(x.root)' + DistCard(x.root)' - refcount'[x.root]
           = LocalCard(x.root) + DistCard(x.root) - refcount[x.root],
         refcount' \in [Root -> Int]
  PROVE  Counting'
<1>1. Stacks /\ Alone /\ LiveMade /\ over \subseteq made /\ Counting /\ refcount \in [Root -> Int]
  BY DEF Inv, MadeGood
<1>2. \A r : TakeRefs(r)' = TakeRefs(r) /\ DecRefs(r)' = DecRefs(r)
  BY NoDecSame DEF TakeRefs, Takers, Result
<1>3. ASSUME NEW r \in Root, r # x.root PROVE refcount'[r] = Held(r)'
  <2>1. LocalRefs(r)' = LocalRefs(r) /\ DistRefs(r)' = DistRefs(r)
    BY <1>1, <1>3, RefsView
  <2> QED BY <2>1, <1>1, <1>2, <1>3 DEF Counting, Held
<1>4. refcount'[x.root] = Held(x.root)'
  <2>1. /\ Cardinality(TakeRefs(x.root)) \in Nat /\ Cardinality(DecRefs(x.root)) \in Nat
        /\ LocalCard(x.root) \in Nat /\ DistCard(x.root) \in Nat
    BY RefsFinite, FS_CardinalityType DEF LocalCard, DistCard
  <2>2. LocalCard(x.root)' \in Nat /\ DistCard(x.root)' \in Nat
    BY RefsFiniteNext, FS_CardinalityType DEF LocalCard, DistCard
  <2>3. refcount[x.root] \in Int /\ refcount'[x.root] \in Int
    BY <1>1
  <2>4. refcount[x.root] = Cardinality(TakeRefs(x.root)) + Cardinality(DecRefs(x.root))
                             + LocalCard(x.root) + DistCard(x.root)
    BY <1>1 DEF Counting, Held, LocalCard, DistCard
  <2>5. Held(x.root)' = Cardinality(TakeRefs(x.root)) + Cardinality(DecRefs(x.root))
                          + LocalCard(x.root)' + DistCard(x.root)'
    BY <1>2 DEF Held, LocalCard, DistCard
  <2> QED BY <2>1, <2>2, <2>3, <2>4, <2>5
<1> QED BY <1>3, <1>4 DEF Counting

(* ... a task gives its reference to dec; ... *)
LEMMA CountGiven ==
  ASSUME Inv, NEW w \in Worker, NEW x, NEW g, NEW F, NEW N, Grows(x, g, F, N),
         x.op \in Ops, x.root \in Root, CallsDec(w, x.root),
         build' = build, took' = took, refcount' = refcount,
         LocalCard(x.root)' + DistCard(x.root)' = LocalCard(x.root) + DistCard(x.root) - 1
  PROVE  Counting'
<1>1. Stacks /\ Alone /\ LiveMade /\ over \subseteq made /\ Counting
  BY DEF Inv, MadeGood
<1>2. \A r : TakeRefs(r)' = TakeRefs(r)
  BY DEF TakeRefs, Takers, Result
<1>3. ASSUME NEW r \in Root, r # x.root PROVE refcount'[r] = Held(r)'
  <2>1. LocalRefs(r)' = LocalRefs(r) /\ DistRefs(r)' = DistRefs(r)
    BY <1>1, <1>3, RefsView
  <2>2. DecRefs(r)' = DecRefs(r)
    BY <1>3, CallsDecView
  <2> QED BY <2>1, <2>2, <1>1, <1>2 DEF Counting, Held
<1>4. refcount'[x.root] = Held(x.root)'
  <2>1. /\ Cardinality(TakeRefs(x.root)) \in Nat /\ Cardinality(DecRefs(x.root)) \in Nat
        /\ LocalCard(x.root) \in Nat /\ DistCard(x.root) \in Nat
    BY RefsFinite, FS_CardinalityType DEF LocalCard, DistCard
  <2>2. LocalCard(x.root)' \in Nat /\ DistCard(x.root)' \in Nat
    BY RefsFiniteNext, FS_CardinalityType DEF LocalCard, DistCard
  <2>3. Cardinality(DecRefs(x.root)') = Cardinality(DecRefs(x.root)) + 1
    BY CallsDecView, RefsFinite, FS_AddElement
  <2>4. refcount[x.root] = Cardinality(TakeRefs(x.root)) + Cardinality(DecRefs(x.root))
                             + LocalCard(x.root) + DistCard(x.root)
    BY <1>1 DEF Counting, Held, LocalCard, DistCard
  <2>5. Held(x.root)' = Cardinality(TakeRefs(x.root)) + Cardinality(DecRefs(x.root)')
                          + LocalCard(x.root)' + DistCard(x.root)'
    BY <1>2 DEF Held, LocalCard, DistCard
  <2> QED BY <2>1, <2>2, <2>3, <2>4, <2>5
<1> QED BY <1>3, <1>4 DEF Counting

(* ... and who takes the outputs gives the reference of a taker to it.     *)
LEMMA CountTaken ==
  ASSUME Inv, NEW w \in Worker, NEW x, NEW g, Grows(x, g, {}, {}), x.op \in {"run", "result"},
         g.at \in {"steal", "end"}, x.at \in {"steal", "begin"},
         NEW r \in Root, CallsDec(w, r), NEW u \in Takers(r), <<r, u>> \notin took,
         build' = build, took' = took \cup {<<r, u>>}, refcount' = refcount
  PROVE  Counting'
<1>1. Stacks /\ Alone /\ LiveMade /\ over \subseteq made /\ Counting
  BY DEF Inv, MadeGood
<1>2. \A z : LocalRefs(z)' = LocalRefs(z) /\ DistRefs(z)' = DistRefs(z)
  <2>1. /\ LocalAt(x.op, x.at) <=> LocalAt(x.op, g.at)
        /\ DistAt(x.op, x.at) <=> DistAt(x.op, g.at)
    BY DEF LocalAt, DistAt
  <2>2. \A op, z : (LocalHeld(op, z)' <=> LocalHeld(op, z)) /\ (DistHeld(op, z)' <=> DistHeld(op, z))
    BY <1>1, <2>1, HeldView
  <2> QED BY <2>2 DEF LocalRefs, DistRefs
<1>3. \A z : Takers(z)' = Takers(z)
  BY DEF Takers, Result
<1>4. ASSUME NEW z \in Root, z # r PROVE refcount'[z] = Held(z)'
  <2>1. TakeRefs(z)' = TakeRefs(z)
    BY <1>3, <1>4 DEF TakeRefs
  <2>2. DecRefs(z)' = DecRefs(z)
    BY <1>4, CallsDecView
  <2> QED BY <2>1, <2>2, <1>1, <1>2 DEF Counting, Held
<1>5. refcount'[r] = Held(r)'
  <2>1. TakeRefs(r)' = TakeRefs(r) \ {u} /\ u \in TakeRefs(r)
    BY <1>3 DEF TakeRefs
  <2>2. /\ Cardinality(TakeRefs(r)) \in Nat /\ Cardinality(DecRefs(r)) \in Nat
        /\ Cardinality(LocalRefs(r)) \in Nat /\ Cardinality(DistRefs(r)) \in Nat
    BY RefsFinite, FS_CardinalityType
  <2>3. Cardinality(TakeRefs(r)') = Cardinality(TakeRefs(r)) - 1
    BY <2>1, RefsFinite, FS_RemoveElement
  <2>4. Cardinality(DecRefs(r)') = Cardinality(DecRefs(r)) + 1
    BY CallsDecView, RefsFinite, FS_AddElement
  <2>5. refcount[r] = Cardinality(TakeRefs(r)) + Cardinality(DecRefs(r))
                        + Cardinality(LocalRefs(r)) + Cardinality(DistRefs(r))
    BY <1>1 DEF Counting, Held
  <2>6. Held(r)' = Cardinality(TakeRefs(r)') + Cardinality(DecRefs(r)')
                     + Cardinality(LocalRefs(r)) + Cardinality(DistRefs(r))
    BY <1>2 DEF Held
  <2> QED BY <2>2, <2>3, <2>4, <2>5, <2>6
<1> QED BY <1>4, <1>5 DEF Counting

(* A root that is held has a counter above zero. *)
LEMMA HeldCounts ==
  ASSUME Inv, NEW r \in Root
  PROVE  /\ TakeRefs(r) # {} \/ DecRefs(r) # {} \/ LocalRefs(r) # {} \/ DistRefs(r) # {} <=>
              refcount[r] > 0
         /\ refcount[r] \in Nat
<1>1. /\ Cardinality(TakeRefs(r)) \in Nat /\ Cardinality(DecRefs(r)) \in Nat
      /\ Cardinality(LocalRefs(r)) \in Nat /\ Cardinality(DistRefs(r)) \in Nat
  BY RefsFinite, FS_CardinalityType
<1>2. /\ Cardinality(TakeRefs(r)) = 0 <=> TakeRefs(r) = {}
      /\ Cardinality(DecRefs(r)) = 0 <=> DecRefs(r) = {}
      /\ Cardinality(LocalRefs(r)) = 0 <=> LocalRefs(r) = {}
      /\ Cardinality(DistRefs(r)) = 0 <=> DistRefs(r) = {}
  BY RefsFinite, FS_EmptySet
<1>3. refcount[r] = Cardinality(TakeRefs(r)) + Cardinality(DecRefs(r))
                      + Cardinality(LocalRefs(r)) + Cardinality(DistRefs(r))
  BY DEF Inv, Counting, Held
<1> QED BY <1>1, <1>2, <1>3
(* Nobody takes from a root before the task that fills it is at its end,   *)
(* so that its counter is above zero.                                      *)
LEMMA OwnHeld ==
  ASSUME Inv, NEW w \in Worker, NEW op \in {"restore", "run"}, NEW at, At(w, op, at), at # "end"
  PROVE  /\ refcount[RootOf(w)] > 0 /\ RootOf(w)[2] = op
         /\ \A u : <<RootOf(w), u>> \notin took
         /\ at \notin Filled => RootOf(w) \notin ok
         /\ Takers(RootOf(w)) # {}
<1> DEFINE r == RootOf(w)
<1>1. /\ r \in Root /\ T(op, r) \in made /\ r[2] = op
      /\ \A S : Past(op, r, S) <=> at \in S
  <2>1. op \in Ops
    BY DEF Ops
  <2> QED BY <2>1, AtIs
<1>2. T(op, r).op = op /\ T(op, r).root = r
  BY DEF T
<1>3. Takers(r) # {}
  BY <1>1, <1>2 DEF Inv, MadeGood, MadeOK
<1>4. ~ Past(r[2], r, {"end"}) /\ (at \notin Filled => ~ Past(r[2], r, Filled))
  <2> HIDE DEF r
  <2> QED BY <1>1
<1>5. ASSUME NEW u, <<r, u>> \in took PROVE FALSE
  <2>1. TookOK(<<r, u>>[1], <<r, u>>[2])
    BY <1>5 DEF Inv, TookGood
  <2> QED BY <2>1, <1>4 DEF TookOK
<1>6. at \notin Filled => r \notin ok
  BY <1>4 DEF Inv, OkGood
<1>7. TakeRefs(r) # {}
  BY <1>3, <1>5 DEF TakeRefs
<1> QED BY <1>1, <1>3, <1>5, <1>6, <1>7, HeldCounts

(* A step of a task that adds no task. *)
LEMMA PlainStep ==
  ASSUME Inv, NEW w \in Worker, NEW op \in Ops, NEW at, At(w, op, at), at # "steal",
         NEW next \in StepsOf(op), next # "steal", Step(w, next), UNCHANGED <<made, over>>
  PROVE  /\ Grows(Top(w), Moved(Top(w), next), {}, {}) /\ NoDec(w)
         /\ Moved(Top(w), next).at = next /\ Moved(Top(w), next).todo = {}
         /\ Same(Moved(Top(w), next), Top(w))
<1>1. stack[w] # <<>> /\ Top(w).op # "dec" /\ Top(w) \in Legal /\ Top(w).op = op /\ Top(w).at = at
  BY AtIs
<1>2. /\ Moved(Top(w), next) \in Legal /\ Moved(Top(w), next).at = next
      /\ Moved(Top(w), next).todo = {} /\ Same(Moved(Top(w), next), Top(w))
  BY <1>1, MovedIs
<1>3. Moves(Top(w), Moved(Top(w), next), {}) /\ NoDec(w)
  BY <1>1, <1>2, StepMoves DEF Inv
<1>4. Grows(Top(w), Moved(Top(w), next), {}, {})
  BY <1>3 DEF Grows
<1> QED BY <1>2, <1>3, <1>4

(* A step that adds a task of the same root, and may execute it in place.  *)
LEMMA AddStep ==
  ASSUME Inv, NEW w \in Worker, NEW op \in Ops, NEW at, At(w, op, at), at # "steal",
         NEW next \in StepsOf(op), next # "steal",
         NEW new \in Ops, new \notin {"restore", "run"}, new = "write" => RootOf(w)[2] = "run",
         T(new, RootOf(w)) \notin made, NEW inplace \in BOOLEAN,
         Add(w, T(new, RootOf(w)), inplace, next), over' = over
  PROVE  /\ \E F : /\ Grows(Top(w), Moved(Top(w), next), F, {T(new, RootOf(w))}) /\ NoDec(w)
                   /\ \A f \in F : f.op = new /\ inplace
         /\ Moved(Top(w), next).at = next /\ Moved(Top(w), next).todo = {}
         /\ Same(Moved(Top(w), next), Top(w))
<1> DEFINE added == T(new, RootOf(w))
           f == Frame(added)
           g == Moved(Top(w), next)
<1>1. /\ stack[w] # <<>> /\ Top(w).op # "dec" /\ Top(w) \in Legal /\ Top(w).op = op /\ Top(w).at = at
      /\ RootOf(w) \in Root /\ Top(w).root = RootOf(w)
  BY AtIs
<1>2. g \in Legal /\ g.at = next /\ g.todo = {} /\ Same(g, Top(w))
  BY <1>1, MovedIs
<1>3. added.op = new /\ added.root = RootOf(w)
  BY DEF T
<1>4. f = [op |-> new, root |-> RootOf(w), at |-> "begin", todo |-> {}]
  BY <1>3 DEF Frame
<1> HIDE DEF f
<1>5. f \in Legal
  <2>1. new \in Ops /\ "begin" \in StepsOf(new) /\ {} \in SUBSET Root
    BY DEF StepsOf
  <2>2. new # "restore" /\ new # "run"
    OBVIOUS
  <2>3. [op |-> new, root |-> RootOf(w), at |-> "begin", todo |-> {}] \in Legal
    BY <1>1, <2>1, <2>2, LegalMade
  <2> QED BY <2>3, <1>4
<1>a. f.op = new /\ f.root = RootOf(w) /\ f.at = "begin"
  BY <1>4
<1>6. \A h \in Live : ~ Same(h, f)
  BY <1>a DEF Inv, LiveMade, Same
<1>7. f.op = new /\ T(f.op, f.root) = added /\ f.at = "begin"
  BY <1>a
<1>8. made' = made \cup {added}
  BY DEF Add
<1> HIDE DEF g
<1>b. {added} \cap made = {}
  OBVIOUS
<1>c. \A t \in {added} : t.root = Top(w).root
  BY <1>1, <1>3
<1> HIDE DEF added
<1>10. CASE inplace
  <2>1. Go(w, <<f>>, next)
    BY <1>10 DEF Add, f, added
  <2>2. Moves(Top(w), g, {f}) /\ NoDec(w)
    BY <2>1, <1>1, <1>2, <1>5, <1>6, PushMoves DEF Inv, g
  <2>3. Grows(Top(w), g, {f}, {added})
    <3>1. \A h \in {f} : T(h.op, h.root) \in {added} /\ h.at = "begin" /\ h.op \notin {"restore", "run"}
      BY <1>7
    <3> QED BY <3>1, <2>2, <1>8, <1>b, <1>c DEF Grows
  <2> QED BY <2>2, <2>3, <1>2, <1>7, <1>10 DEF g, added
<1>11. CASE ~ inplace
  <2>1. Step(w, next)
    BY <1>11 DEF Add, Step
  <2>2. Moves(Top(w), g, {}) /\ NoDec(w)
    BY <2>1, <1>1, <1>2, StepMoves DEF Inv, g
  <2>3. Grows(Top(w), g, {}, {added})
    BY <2>2, <1>8, <1>b, <1>c DEF Grows
  <2> QED BY <2>2, <2>3, <1>2 DEF g, added
<1> QED BY <1>10, <1>11
(* The order of the steps, as far as the marks tell it.                    *)
LEMMA MarksKept ==
  ASSUME NEW a, NEW b,
         \/ a \in {"begin", "fill"}
         \/ a = "steal" /\ b \in Stealing
         \/ a \in {"publish", "for local", "for dist", "to local", "to dist"} /\ b \in Filled
         \/ a \in Counted /\ b \in Counted /\ (a = "end" => b = "end")
         \/ a = "second" /\ b = "end"
  PROVE  \A S \in Marks : a \in S => b \in S
<1> TAKE S \in Marks
<1> HAVE a \in S
<1>1. CASE S = Filled
  BY <1>1 DEF Filled, Counted
<1>2. CASE S = Stealing
  BY <1>2 DEF Filled, Stealing, Counted
<1>3. CASE S = Counted
  BY <1>3 DEF Filled, Counted
<1>4. CASE S = {"end"}
  BY <1>4 DEF Filled, Counted
<1>5. CASE S = {"second", "end"}
  BY <1>5 DEF Filled, Counted
<1> QED BY <1>1, <1>2, <1>3, <1>4, <1>5 DEF Marks

(* A step after the root of the task was made keeps the invariant if it    *)
(* only fills the root, moves references or adds tasks.                    *)
LEMMA TaskKeeps ==
  ASSUME Inv, NEW w \in Worker, NEW op \in Ops, NEW at, At(w, op, at),
         op \notin {"restore", "run"} \/ at # "begin",
         NEW g, Same(g, Top(w)), g.todo \subseteq Top(w).todo,
         NEW F, NEW N \in SUBSET Task, Grows(Top(w), g, F, N),
         NoDec(w) \/ \E r \in ok' : CallsDec(w, r),
         build' = build, created' = created, took' = took, deleted' = deleted,
         \A S \in Marks : at \in S => g.at \in S,
         ok' = ok \/ (op = RootOf(w)[2] /\ op \in {"restore", "run"} /\ g.at \in Filled
                      /\ ok' = ok \cup {RootOf(w)}),
         g.at \in Filled \ Counted => RootOf(w) \in ok',
         \A t \in N : MadeOK(t)',
         \A t \in N : t.op \in {"restore", "run"} => ~ NodeOver(t.root[1]),
         \A f \in F : f.op = "result" => Eager,
         refcount' \in [Root -> Int], \A r \in Root : refcount[r] = 0 => refcount'[r] = 0,
         Counting'
  PROVE  Inv'
<1> DEFINE x == Top(w)
<1>1. /\ x \in Live /\ x.op = op /\ x.at = at /\ x.root = RootOf(w) /\ RootOf(w) \in Root
  BY AtIs
<1>2. OkGood /\ TookGood
  BY DEF Inv
<1>3. x.op \in {"restore", "run"} => x.root \in created
  BY <1>1, <1>2 DEF OkGood
<1> HIDE DEF x
<1>4. CarriesRoots(x, g)
  <2>1. created \subseteq created' /\ created' \subseteq Root /\ ok \subseteq ok' /\ ok' \subseteq created'
    BY <1>1, <1>2, <1>3 DEF OkGood
  <2>2. \A r \in ok' \ ok : r = x.root /\ x.op = r[2] /\ g.at \in Filled
    BY <1>1
  <2>3. /\ x.op \in {"restore", "run"} /\ g.at # "begin" => x.root \in created'
        /\ g.at \in Filled \ Counted => x.root \in ok'
    BY <1>1, <1>3
  <2>4. took' \subseteq Root \X (Node \cup {"result"}) /\ took' \ took = {}
    BY <1>2 DEF TookGood
  <2>5. \A r \in g.todo : r \in x.todo
    BY DEF x
  <2> QED BY <2>1, <2>2, <2>3, <2>4, <2>5 DEF CarriesRoots
<1>5. Grows(x, g, F, N) /\ \A S \in Marks : x.at \in S => g.at \in S
  BY <1>1 DEF x
<1> QED BY <1>4, <1>5, Carried

(* A good root was made before its task ended. *)
LEMMA RunCachedKeeps ==
  ASSUME Inv, NEW w \in Worker, RunCached(w), build' = build
  PROVE  Inv'
<1> DEFINE g == Moved(Top(w), "publish")
<1>1. /\ At(w, "run", "fill") /\ Step(w, "publish") /\ ok' = ok \cup {RootOf(w)}
      /\ made' = made /\ over' = over /\ refcount' = refcount /\ created' = created
      /\ deleted' = deleted /\ took' = took
  BY DEF RunCached
<1>2. "run" \in Ops /\ "publish" \in StepsOf("run")
  BY DEF Ops, StepsOf
<1>3. Grows(Top(w), g, {}, {}) /\ NoDec(w) /\ g.at = "publish" /\ g.todo = {} /\ Same(g, Top(w))
  BY <1>1, <1>2, PlainStep
<1>4. Top(w).op = "run" /\ Top(w).at = "fill" /\ RootOf(w)[2] = "run"
  BY <1>1, <1>2, AtIs
<1> HIDE DEF g
<1>5. Counting'
  BY <1>1, <1>2, <1>3, <1>4, CountKept DEF LocalAt, DistAt
<1>6. \A S \in Marks : "fill" \in S => g.at \in S
  BY MarksKept
<1>7. g.at \in Filled
  BY <1>3 DEF Filled
<1>8. refcount' \in [Root -> Int]
  BY <1>1 DEF Inv
<1> QED BY <1>1, <1>2, <1>3, <1>4, <1>5, <1>6, <1>7, <1>8, TaskKeeps

LEMMA ExecuteKeeps ==
  ASSUME Inv, NEW w \in Worker, Execute(w), build' = build
  PROVE  Inv'
<1>1. /\ At(w, "run", "steal") /\ Top(w).todo = {}
      /\ made' = made /\ over' = over /\ refcount' = refcount /\ created' = created
      /\ deleted' = deleted /\ took' = took
  BY DEF Execute
<1>2. PICK next \in {"result", "publish"} :
        /\ Step(w, next)
        /\ next = "result" => ok' = ok
        /\ next = "publish" => ok' = ok \cup {RootOf(w)}
  BY DEF Execute
<1> DEFINE g == Moved(Top(w), next)
<1>3. "run" \in Ops /\ next \in StepsOf("run")
  BY <1>2 DEF Ops, StepsOf
<1>4. /\ Top(w).op = "run" /\ Top(w).at = "steal" /\ RootOf(w)[2] = "run" /\ Top(w) \in Legal
      /\ stack[w] # <<>> /\ RootOf(w) \in Root /\ Top(w).root = RootOf(w)
  BY <1>1, <1>3, AtIs
<1>5. g = [op |-> "run", root |-> RootOf(w), at |-> next, todo |-> {}]
  BY <1>1, <1>4 DEF Moved
<1>6. g \in Legal
  BY <1>2, <1>3, <1>4, <1>5, LegalMade
<1>7. g.at = next /\ g.todo = {} /\ Same(g, Top(w))
  BY <1>4, <1>5 DEF Same
<1>8. Moves(Top(w), g, {}) /\ NoDec(w)
  BY <1>2, <1>4, <1>6, StepMoves DEF Inv
<1> HIDE DEF g
<1>9. Grows(Top(w), g, {}, {})
  BY <1>1, <1>8 DEF Grows
<1>10. Counting'
  BY <1>1, <1>2, <1>3, <1>4, <1>7, <1>8, <1>9, CountKept DEF LocalAt, DistAt
<1>11. g.at \in Filled /\ (g.at \in Filled \ Counted => next = "publish")
  BY <1>7 DEF Filled, Counted
<1>15. \A S \in Marks : "steal" \in S => g.at \in S
  BY <1>11, MarksKept DEF Stealing
<1>12. refcount' \in [Root -> Int]
  BY <1>1 DEF Inv
<1>13. ok' = ok \/ (RootOf(w)[2] = "run" /\ g.at \in Filled /\ ok' = ok \cup {RootOf(w)})
  BY <1>2, <1>4, <1>11
<1>14. g.at \in Filled \ Counted => RootOf(w) \in ok'
  BY <1>2, <1>11
<1> QED BY <1>1, <1>3, <1>4, <1>7, <1>8, <1>9, <1>10, <1>11, <1>12, <1>13, <1>14, <1>15, TaskKeeps
(* A reference of a cache is counted before the task that gives it up is   *)
(* added.                                                                  *)
LEMMA IncCounts ==
  ASSUME Inv, NEW w \in Worker, NEW op \in {"restore", "run"}, NEW at, At(w, op, at), at # "end",
         NEW g, Grows(Top(w), g, {}, {}), NoDec(w), build' = build, took' = took, Inc(w),
         \/ ~ LocalAt(op, at) /\ LocalAt(op, g.at) /\ (DistAt(op, at) <=> DistAt(op, g.at))
         \/ ~ DistAt(op, at) /\ DistAt(op, g.at) /\ (LocalAt(op, at) <=> LocalAt(op, g.at))
  PROVE  /\ Counting' /\ refcount' \in [Root -> Int]
         /\ \A r \in Root : refcount[r] = 0 => refcount'[r] = 0
<1>0. PICK x : x = Top(w)
  OBVIOUS
<1>1. x.op = op /\ x.at = at /\ x.root = RootOf(w) /\ x.root \in Root /\ x.op \in Ops
  <2>1. op \in Ops
    BY DEF Ops
  <2> QED BY <2>1, <1>0, AtIs
<1>2. refcount[x.root] > 0
  BY <1>1, OwnHeld
<1>3. refcount \in [Root -> Int] /\ refcount' = [refcount EXCEPT ![x.root] = @ + 1]
  BY <1>1 DEF Inv, Inc
<1>4. /\ refcount' \in [Root -> Int] /\ refcount'[x.root] = refcount[x.root] + 1
      /\ \A r \in Root \ {x.root} : refcount'[r] = refcount[r]
  BY <1>1, <1>3
<1>5. NewLocal(x, {}) = {} /\ NewDist(x, {}) = {}
  BY DEF NewLocal, NewDist
<1>6. Grows(x, g, {}, {})
  BY <1>0
<1>7. /\ LocalCard(x.root) \in Nat /\ DistCard(x.root) \in Nat
      /\ LocalCard(x.root)' \in Nat /\ DistCard(x.root)' \in Nat
      /\ LocalCard(x.root)' + DistCard(x.root)' = LocalCard(x.root) + DistCard(x.root) + 1
  <2>1. /\ LocalCard(x.root) \in Nat /\ LocalCard(x.root)' \in Nat
        /\ (LocalAt(x.op, x.at) <=> LocalAt(x.op, g.at)) => LocalCard(x.root)' = LocalCard(x.root)
        /\ ~ LocalAt(x.op, x.at) /\ LocalAt(x.op, g.at) => LocalCard(x.root)' = LocalCard(x.root) + 1
    BY <1>1, <1>5, <1>6, LocalCount DEF LocalCard
  <2>2. /\ DistCard(x.root) \in Nat /\ DistCard(x.root)' \in Nat
        /\ (DistAt(x.op, x.at) <=> DistAt(x.op, g.at)) => DistCard(x.root)' = DistCard(x.root)
        /\ ~ DistAt(x.op, x.at) /\ DistAt(x.op, g.at) => DistCard(x.root)' = DistCard(x.root) + 1
    BY <1>1, <1>5, <1>6, DistCount DEF DistCard
  <2> QED BY <2>1, <2>2, <1>1
<1>8. LocalCard(x.root)' + DistCard(x.root)' - refcount'[x.root]
        = LocalCard(x.root) + DistCard(x.root) - refcount[x.root]
  BY <1>1, <1>3, <1>4, <1>7
<1>9. Counting'
  BY <1>1, <1>4, <1>6, <1>8, CountMoved
<1> QED BY <1>1, <1>2, <1>4, <1>9

LEMMA RestoreHitKeeps ==
  ASSUME Inv, NEW w \in Worker, RestoreHit(w), build' = build
  PROVE  Inv'
<1>1. /\ At(w, "restore", "fill") /\ ok' = ok \cup {RootOf(w)}
      /\ made' = made /\ over' = over /\ created' = created /\ deleted' = deleted /\ took' = took
  BY DEF RestoreHit
<1>2. PICK next :
        /\ next \in {"result", "to dist", "to local"}
        /\ Step(w, next)
        /\ next = "result" => refcount' = refcount
        /\ next # "result" => Inc(w)
  BY DEF RestoreHit
<1> DEFINE g == Moved(Top(w), next)
<1>3. "restore" \in Ops /\ next \in StepsOf("restore") /\ next # "steal"
  BY <1>2 DEF Ops, StepsOf
<1>4. Grows(Top(w), g, {}, {}) /\ NoDec(w) /\ g.at = next /\ g.todo = {} /\ Same(g, Top(w))
  BY <1>1, <1>2, <1>3, PlainStep
<1>5. /\ Top(w).op = "restore" /\ Top(w).at = "fill" /\ RootOf(w)[2] = "restore"
  BY <1>1, <1>3, AtIs
<1> HIDE DEF g
<1>6. /\ Counting' /\ refcount' \in [Root -> Int]
      /\ \A r \in Root : refcount[r] = 0 => refcount'[r] = 0
  <2>1. CASE next = "result"
    <3>1. Counting'
      BY <2>1, <1>1, <1>2, <1>3, <1>4, <1>5, CountKept DEF LocalAt, DistAt
    <3> QED BY <3>1, <2>1, <1>2 DEF Inv
  <2>2. CASE next = "to dist"
    <3>1. /\ ~ DistAt("restore", "fill") /\ DistAt("restore", g.at)
          /\ (LocalAt("restore", "fill") <=> LocalAt("restore", g.at))
      BY <2>2, <1>4 DEF LocalAt, DistAt
    <3>2. Inc(w)
      BY <2>2, <1>2
    <3> QED BY <3>1, <3>2, <1>1, <1>4, IncCounts
  <2>3. CASE next = "to local"
    <3>1. /\ ~ LocalAt("restore", "fill") /\ LocalAt("restore", g.at)
          /\ (DistAt("restore", "fill") <=> DistAt("restore", g.at))
      BY <2>3, <1>4 DEF LocalAt, DistAt
    <3>2. Inc(w)
      BY <2>3, <1>2
    <3> QED BY <3>1, <3>2, <1>1, <1>4, IncCounts
  <2> QED BY <2>1, <2>2, <2>3, <1>2
<1>7. \A S \in Marks : "fill" \in S => g.at \in S
  BY MarksKept
<1>8. g.at \in Filled
  BY <1>2, <1>4 DEF Filled
<1> QED BY <1>1, <1>3, <1>4, <1>5, <1>6, <1>7, <1>8, TaskKeeps

LEMMA PublishKeeps ==
  ASSUME Inv, NEW w \in Worker, Publish(w), build' = build
  PROVE  Inv'
<1>1. /\ made' = made /\ over' = over /\ created' = created /\ ok' = ok
      /\ deleted' = deleted /\ took' = took
  BY DEF Publish
<1>2. PICK at \in {"publish", "for local"}, next \in {"result", "for local", "for dist"} :
        /\ At(w, "run", at) /\ Step(w, next)
        /\ \/ at = "publish" /\ next = "result" /\ refcount' = refcount
           \/ at = "publish" /\ next = "for local" /\ Inc(w)
           \/ at = "for local" /\ next = "for dist" /\ Inc(w)
  BY DEF Publish
<1> DEFINE g == Moved(Top(w), next)
<1>3. "run" \in Ops /\ next \in StepsOf("run") /\ next # "steal"
  BY <1>2 DEF Ops, StepsOf
<1>4. Grows(Top(w), g, {}, {}) /\ NoDec(w) /\ g.at = next /\ g.todo = {} /\ Same(g, Top(w))
  BY <1>1, <1>2, <1>3, PlainStep
<1>5. /\ Top(w).op = "run" /\ Top(w).at = at /\ RootOf(w)[2] = "run"
      /\ Top(w) \in Live /\ Top(w).root = RootOf(w)
  BY <1>1, <1>2, <1>3, AtIs
<1>a. RootOf(w) \in ok
  <2>1. at \in Filled \ Counted
    BY <1>2 DEF Filled, Counted
  <2> QED BY <2>1, <1>5 DEF Inv, OkGood
<1> HIDE DEF g
<1>6. /\ Counting' /\ refcount' \in [Root -> Int]
      /\ \A r \in Root : refcount[r] = 0 => refcount'[r] = 0
  <2>1. CASE at = "publish" /\ next = "result" /\ refcount' = refcount
    <3>1. Counting'
      BY <2>1, <1>1, <1>3, <1>4, <1>5, CountKept DEF LocalAt, DistAt
    <3> QED BY <3>1, <2>1 DEF Inv
  <2>2. CASE at = "publish" /\ next = "for local" /\ Inc(w)
    <3>1. /\ ~ LocalAt("run", at) /\ LocalAt("run", g.at)
          /\ (DistAt("run", at) <=> DistAt("run", g.at))
      BY <2>2, <1>4 DEF LocalAt, DistAt
    <3> QED BY <3>1, <2>2, <1>1, <1>2, <1>4, IncCounts
  <2>3. CASE at = "for local" /\ next = "for dist" /\ Inc(w)
    <3>1. /\ ~ DistAt("run", at) /\ DistAt("run", g.at)
          /\ (LocalAt("run", at) <=> LocalAt("run", g.at))
      BY <2>3, <1>4 DEF LocalAt, DistAt
    <3> QED BY <3>1, <2>3, <1>1, <1>2, <1>4, IncCounts
  <2> QED BY <2>1, <2>2, <2>3, <1>2
<1>7. g.at \in Filled
  BY <1>4 DEF Filled
<1>8. \A S \in Marks : at \in S => g.at \in S
  BY <1>2, <1>7, MarksKept
<1> QED BY <1>1, <1>2, <1>3, <1>4, <1>5, <1>a, <1>6, <1>7, <1>8, TaskKeeps
(* A task that was added holds the references its adder gives up.          *)
LEMMA Transferred ==
  ASSUME Inv, NEW w \in Worker, NoDec(w), NEW x, NEW g, NEW F, NEW new \in Ops,
         Grows(x, g, F, {T(new, x.root)}), x.op \in Ops, x.root \in Root,
         build' = build, took' = took, refcount' = refcount,
         \/ LocalAt(new, "begin") /\ LocalAt(x.op, x.at) /\ ~ LocalAt(x.op, g.at)
         \/ ~ LocalAt(new, "begin") /\ (LocalAt(x.op, x.at) <=> LocalAt(x.op, g.at)),
         \/ DistAt(new, "begin") /\ DistAt(x.op, x.at) /\ ~ DistAt(x.op, g.at)
         \/ ~ DistAt(new, "begin") /\ (DistAt(x.op, x.at) <=> DistAt(x.op, g.at))
  PROVE  Counting'
<1> DEFINE N == {T(new, x.root)}
<1>1. \A op : T(op, x.root) \in N <=> op = new
  <2>1. \A op : T(op, x.root).op = op
    BY DEF T
  <2> QED BY <2>1
<1> HIDE DEF N
<1>2. Grows(x, g, F, N)
  BY DEF N
<1>3. /\ NewLocal(x, N) = {op \in Ops : op = new /\ LocalAt(op, "begin")}
      /\ NewDist(x, N) = {op \in Ops : op = new /\ DistAt(op, "begin")}
  BY <1>1 DEF NewLocal, NewDist
<1>4. LocalCard(x.root)' = LocalCard(x.root)
  <2>1. CASE LocalAt(new, "begin")
    <3>1. NewLocal(x, N) = {new}
      BY <1>3, <2>1
    <3> QED BY <2>1, <3>1, <1>2, LocalCount DEF LocalCard
  <2>2. CASE ~ LocalAt(new, "begin")
    <3>1. NewLocal(x, N) = {}
      BY <1>3, <2>2
    <3> QED BY <2>2, <3>1, <1>2, LocalCount DEF LocalCard
  <2> QED BY <2>1, <2>2
<1>5. DistCard(x.root)' = DistCard(x.root)
  <2>1. CASE DistAt(new, "begin")
    <3>1. NewDist(x, N) = {new}
      BY <1>3, <2>1
    <3> QED BY <2>1, <3>1, <1>2, DistCount DEF DistCard
  <2>2. CASE ~ DistAt(new, "begin")
    <3>1. NewDist(x, N) = {}
      BY <1>3, <2>2
    <3> QED BY <2>2, <3>1, <1>2, DistCount DEF DistCard
  <2> QED BY <2>1, <2>2
<1>6. refcount' \in [Root -> Int]
  BY DEF Inv
<1> QED BY <1>2, <1>4, <1>5, <1>6, CountMoved

(* A task that adds another one of its root keeps the invariant. *)
LEMMA AddKeeps ==
  ASSUME Inv, NEW w \in Worker, NEW op \in Ops, NEW at, At(w, op, at), at # "steal",
         op \notin {"restore", "run"} \/ at # "begin", NEW next \in StepsOf(op), next # "steal",
         next \in Counted \/ next = "second", \A S \in Marks : at \in S => next \in S,
         NEW r, r = RootOf(w), NEW new \in Ops, new \notin {"restore", "run"},
         new = "write" => r[2] = "run", T(new, r) \notin made, new = "result" => Eager,
         NEW inplace \in BOOLEAN, Add(w, T(new, r), inplace, next),
         build' = build, over' = over, rootVars' = rootVars,
         (\A S : next \in S => Past(op, r, S)') => MadeOK(T(new, r))',
         \/ LocalAt(new, "begin") /\ LocalAt(op, at) /\ ~ LocalAt(op, next)
         \/ ~ LocalAt(new, "begin") /\ (LocalAt(op, at) <=> LocalAt(op, next)),
         \/ DistAt(new, "begin") /\ DistAt(op, at) /\ ~ DistAt(op, next)
         \/ ~ DistAt(new, "begin") /\ (DistAt(op, at) <=> DistAt(op, next))
  PROVE  Inv'
<1>1. PICK x : x = Top(w)
  OBVIOUS
<1>2. PICK g : g = Moved(x, next)
  OBVIOUS
<1>3. /\ x \in Live /\ x.op = op /\ x.at = at /\ x.root = r /\ r \in Root
  BY <1>1, AtIs
<1>4. /\ new \in {"write", "put local", "put dist", "result"}
      /\ refcount' = refcount /\ created' = created /\ ok' = ok /\ deleted' = deleted /\ took' = took
  BY DEF Ops, rootVars
<1>5. /\ \E F : Grows(x, g, F, {T(new, r)}) /\ NoDec(w) /\ \A f \in F : f.op = new
      /\ g.at = next /\ g.todo = {} /\ Same(g, x)
  <2>1. Add(w, T(new, RootOf(w)), inplace, next) /\ T(new, RootOf(w)) \notin made
        /\ (new = "write" => RootOf(w)[2] = "run")
    BY <1>3
  <2>2. /\ \E F : /\ Grows(Top(w), Moved(Top(w), next), F, {T(new, RootOf(w))}) /\ NoDec(w)
                  /\ \A f \in F : f.op = new /\ inplace
        /\ Moved(Top(w), next).at = next /\ Moved(Top(w), next).todo = {}
        /\ Same(Moved(Top(w), next), Top(w))
    BY <2>1, AddStep
  <2> QED BY <2>2, <1>1, <1>2
<1>6. PICK F : Grows(x, g, F, {T(new, r)}) /\ NoDec(w) /\ \A f \in F : f.op = new
  BY <1>5
<1>7. Counting'
  BY <1>3, <1>4, <1>5, <1>6, Transferred
<1>8. MadeOK(T(new, r))'
  <2>1. g \in Live' /\ g.op = op /\ g.root = r /\ g.at = next
    BY <1>3, <1>5, <1>6 DEF Grows, Moves, Same
  <2>2. \A S : next \in S => Past(op, r, S)'
    BY <2>1 DEF Past, Holds
  <2> QED BY <2>2
<1>9. T(new, r) \in Task /\ T(new, r).op = new
  BY <1>3, <1>4 DEF T, Task
<1>10. refcount' \in [Root -> Int] /\ \A z \in Root : refcount[z] = 0 => refcount'[z] = 0
  BY <1>4 DEF Inv
<1>11. ~ g.at \in Filled \ Counted
  BY <1>5 DEF Filled, Counted
<1>12. PICK N : N = {T(new, r)}
  OBVIOUS
<1>13. /\ N \in SUBSET Task /\ Grows(Top(w), g, F, N)
       /\ (\A t \in N : MadeOK(t)') /\ (\A t \in N : t.op \in {"restore", "run"} => ~ NodeOver(t.root[1]))
       /\ \A f \in F : f.op = "result" => Eager
  BY <1>1, <1>6, <1>8, <1>9, <1>12
<1>14. /\ Same(g, Top(w)) /\ g.todo \subseteq Top(w).todo /\ NoDec(w)
       /\ \A S \in Marks : at \in S => g.at \in S
  BY <1>1, <1>5, <1>6
<1> QED BY <1>4, <1>7, <1>10, <1>11, <1>13, <1>14, TaskKeeps
(* A task of a root is added once: the one that adds it is not that far.   *)
LEMMA EagerResultKeeps ==
  ASSUME Inv, NEW w \in Worker, EagerResult(w), build' = build
  PROVE  Inv'
<1>1. /\ over' = over /\ rootVars' = rootVars
      /\ refcount' = refcount /\ created' = created /\ ok' = ok /\ deleted' = deleted /\ took' = took
  BY DEF EagerResult, rootVars
<1>2. PICK op \in {"restore", "run"} : At(w, op, "result")
  BY DEF EagerResult
<1>3. PICK r : r = RootOf(w)
  OBVIOUS
<1>4. op \in Ops /\ "end" \in StepsOf(op)
  BY DEF Ops, StepsOf
<1>5. /\ r \in Root /\ r[2] = op /\ Top(w).op = op /\ Top(w).at = "result"
      /\ \A S : Past(op, r, S) <=> "result" \in S
  <2>1. op = "restore" \/ op = "run"
    OBVIOUS
  <2> QED BY <2>1, <1>2, <1>3, <1>4, AtIs
<1>6. \A S \in Marks : "result" \in S => "end" \in S
  BY MarksKept DEF Counted
<1>7. "result" \in Ops /\ "end" \in Counted
  BY DEF Ops, Counted
<1>8. /\ ~ LocalAt(op, "result") /\ ~ LocalAt(op, "end") /\ ~ DistAt(op, "result") /\ ~ DistAt(op, "end")
      /\ ~ LocalAt("result", "begin") /\ ~ DistAt("result", "begin")
  BY DEF LocalAt, DistAt
<1>9. CASE Eager /\ NodeOf(w) \in Result
  <2>1. PICK inplace \in BOOLEAN : Add(w, T("result", r), inplace, "end")
    BY <1>3, <1>9 DEF EagerResult
  <2>2. T("result", r).op = "result" /\ T("result", r).root = r
    BY DEF T
  <2>3. T("result", r) \notin made
    <3>1. ~ Past(r[2], r, {"end"})
      BY <1>5
    <3> QED BY <3>1, <2>2, <1>9 DEF Inv, MadeGood, MadeOK
  <2>4. (\A S : "end" \in S => Past(op, r, S)') => MadeOK(T("result", r))'
    <3>1. r[1] \in Result' /\ Eager'
      BY <1>3, <1>9 DEF NodeOf, Result, Eager
    <3>2. T("result", r)'.op = "result" /\ T("result", r)'.root = r
      BY DEF T
    <3>3. "end" \in {"end"}
      OBVIOUS
    <3>4. ASSUME \A S : "end" \in S => Past(op, r, S)' PROVE Past(r[2], r, {"end"})'
      BY <3>3, <3>4, <1>5
    <3> QED BY <3>1, <3>2, <3>4 DEF MadeOK
  <2>5. "result" \notin {"restore", "run"} /\ "result" # "write" /\ "result" # "steal" /\ "end" # "steal"
        /\ "result" # "begin"
    OBVIOUS
  <2> QED BY <1>1, <1>2, <1>3, <1>4, <1>6, <1>7, <1>8, <1>9, <2>1, <2>3, <2>4, <2>5, AddKeeps
<1>10. CASE ~ (Eager /\ NodeOf(w) \in Result)
  <2>1. Step(w, "end") /\ made' = made
    BY <1>10 DEF EagerResult
  <2> DEFINE g == Moved(Top(w), "end")
  <2>2. Grows(Top(w), g, {}, {}) /\ NoDec(w) /\ g.at = "end" /\ g.todo = {} /\ Same(g, Top(w))
    BY <2>1, <1>1, <1>2, <1>4, PlainStep
  <2> HIDE DEF g
  <2>3. Counting'
    BY <2>2, <1>1, <1>4, <1>5, <1>8, CountKept
  <2>4. g.at \notin Filled \ Counted
    BY <2>2 DEF Counted
  <2>5. refcount' \in [Root -> Int]
    BY <1>1 DEF Inv
  <2> QED BY <2>2, <2>3, <2>4, <2>5, <1>1, <1>2, <1>4, <1>6, TaskKeeps
<1> QED BY <1>9, <1>10

LEMMA RestoreForwardKeeps ==
  ASSUME Inv, NEW w \in Worker, RestoreForward(w), build' = build
  PROVE  Inv'
<1>1. over' = over /\ rootVars' = rootVars /\ ok' = ok
  BY DEF RestoreForward, rootVars
<1>2. PICK at, new, inplace :
        /\ At(w, "restore", at) /\ Add(w, T(new, RootOf(w)), inplace, "result") /\ inplace \in BOOLEAN
        /\ \/ at = "to dist" /\ new = "put dist"
           \/ at = "to local" /\ new = "put local"
  <2>1. Eager \in BOOLEAN
    BY RootsAssumption DEF Inv, Eager
  <2> QED BY <2>1 DEF RestoreForward
<1>3. PICK r : r = RootOf(w)
  OBVIOUS
<1>4. "restore" \in Ops /\ "result" \in StepsOf("restore") /\ new \in Ops
  BY <1>2 DEF Ops, StepsOf
<1>5. /\ r \in Root /\ r[2] = "restore" /\ Top(w).at = at /\ Top(w) \in Live /\ Top(w).root = r
      /\ \A S : Past("restore", r, S) <=> at \in S
  BY <1>2, <1>3, <1>4, AtIs
<1>6. r \in ok
  <2>1. at \in Filled \ Counted
    BY <1>2 DEF Filled, Counted
  <2> QED BY <2>1, <1>5 DEF Inv, OkGood
<1>7. \A S \in Marks : at \in S => "result" \in S
  <2>1. at \in {"publish", "for local", "for dist", "to local", "to dist"} /\ "result" \in Filled
    BY <1>2 DEF Filled
  <2> QED BY <2>1, MarksKept
<1>8. T(new, r).op = new /\ T(new, r).root = r /\ new \in {"put local", "put dist"}
  BY <1>2 DEF T
<1>9. T(new, r) \notin made
  <2>1. at \notin Counted
    BY <1>2 DEF Counted
  <2>2. ~ Past("restore", r, Counted)
    BY <2>1, <1>5
  <2> QED BY <2>2, <1>5, <1>8 DEF Inv, MadeGood, MadeOK
<1>10. (\A S : "result" \in S => Past("restore", r, S)') => MadeOK(T(new, r))'
  <2>1. T(new, r)'.op = new /\ T(new, r)'.root = r
    BY DEF T
  <2>2. "result" \in Counted
    BY DEF Counted
  <2>3. r \in ok'
    BY <1>1, <1>6
  <2> QED BY <2>1, <2>2, <2>3, <1>5, <1>8 DEF MadeOK
<1>11. /\ \/ LocalAt(new, "begin") /\ LocalAt("restore", at) /\ ~ LocalAt("restore", "result")
          \/ ~ LocalAt(new, "begin") /\ (LocalAt("restore", at) <=> LocalAt("restore", "result"))
       /\ \/ DistAt(new, "begin") /\ DistAt("restore", at) /\ ~ DistAt("restore", "result")
          \/ ~ DistAt(new, "begin") /\ (DistAt("restore", at) <=> DistAt("restore", "result"))
  BY <1>2 DEF LocalAt, DistAt
<1>12. /\ new \notin {"restore", "run"} /\ new # "write" /\ new # "result" /\ at # "steal" /\ at # "begin"
       /\ "result" # "steal" /\ "result" \in Counted
  BY <1>2 DEF Counted
<1>13. At(w, "restore", at) /\ Add(w, T(new, r), inplace, "result") /\ inplace \in BOOLEAN
  BY <1>2, <1>3
<1> QED BY <1>1, <1>3, <1>4, <1>7, <1>9, <1>10, <1>11, <1>12, <1>13, AddKeeps
LEMMA AddWriteKeeps ==
  ASSUME Inv, NEW w \in Worker, AddWrite(w), build' = build
  PROVE  Inv'
<1>0. PICK at : at = "for dist"
  OBVIOUS
<1>1. over' = over /\ rootVars' = rootVars /\ ok' = ok /\ At(w, "run", at)
  BY <1>0 DEF AddWrite, rootVars
<1>2. PICK r : r = RootOf(w)
  OBVIOUS
<1>3. PICK inplace : inplace \in BOOLEAN /\ Add(w, T("write", r), inplace, "result")
  <2>1. Eager \in BOOLEAN
    BY RootsAssumption DEF Inv, Eager
  <2> QED BY <2>1, <1>2 DEF AddWrite
<1>4. "run" \in Ops /\ "result" \in StepsOf("run") /\ "write" \in Ops
  BY DEF Ops, StepsOf
<1>5. /\ r \in Root /\ r[2] = "run" /\ Top(w).at = at /\ Top(w) \in Live /\ Top(w).root = r
      /\ \A S : Past("run", r, S) <=> at \in S
  BY <1>1, <1>2, <1>4, AtIs
<1>6. r \in ok
  <2>1. at \in Filled \ Counted
    BY <1>0 DEF Filled, Counted
  <2> QED BY <2>1, <1>5 DEF Inv, OkGood
<1>7. \A S \in Marks : at \in S => "result" \in S
  <2>1. "result" \in Filled
    BY DEF Filled
  <2> QED BY <2>1, <1>0, MarksKept
<1>8. T("write", r).op = "write" /\ T("write", r).root = r
  BY DEF T
<1>9. T("write", r) \notin made
  <2>1. at \notin Counted
    BY <1>0 DEF Counted
  <2>2. ~ Past("run", r, Counted)
    BY <2>1, <1>5
  <2> QED BY <2>2, <1>8 DEF Inv, MadeGood, MadeOK
<1>10. (\A S : "result" \in S => Past("run", r, S)') => MadeOK(T("write", r))'
  <2>1. T("write", r)'.op = "write" /\ T("write", r)'.root = r
    BY DEF T
  <2>2. "result" \in Counted
    BY DEF Counted
  <2>3. r \in ok'
    BY <1>1, <1>6
  <2> QED BY <2>1, <2>2, <2>3, <1>5 DEF MadeOK
<1>11. /\ LocalAt("write", "begin") /\ LocalAt("run", at) /\ ~ LocalAt("run", "result")
       /\ DistAt("write", "begin") /\ DistAt("run", at) /\ ~ DistAt("run", "result")
       /\ "result" \in Counted /\ at # "steal" /\ at # "begin" /\ "result" # "steal"
       /\ "write" \notin {"restore", "run"} /\ "write" # "result"
  BY <1>0 DEF LocalAt, DistAt, Counted
<1> QED BY <1>1, <1>2, <1>3, <1>4, <1>5, <1>7, <1>9, <1>10, <1>11, AddKeeps

(* A task that gives up a reference of its root keeps the invariant. *)
LEMMA GivesKeeps ==
  ASSUME Inv, NEW w \in Worker, NEW op \in Ops, NEW at, At(w, op, at), at # "steal",
         op \notin {"restore", "run"}, NEW next \in StepsOf(op), next # "steal",
         next \in Counted \/ next = "second", \A S \in Marks : at \in S => next \in S,
         NEW r, r = RootOf(w), r \in ok, Go(w, <<DecFrame(r)>>, next),
         UNCHANGED <<build, made, over, rootVars>>,
         \/ LocalAt(op, at) /\ ~ LocalAt(op, next) /\ (DistAt(op, at) <=> DistAt(op, next))
         \/ DistAt(op, at) /\ ~ DistAt(op, next) /\ (LocalAt(op, at) <=> LocalAt(op, next))
  PROVE  Inv'
<1>1. PICK x : x = Top(w)
  OBVIOUS
<1>2. PICK g : g = Moved(x, next)
  OBVIOUS
<1>3. /\ x \in Live /\ x \in Legal /\ x.op = op /\ x.at = at /\ x.root = r /\ r \in Root
      /\ stack[w] # <<>> /\ Top(w).op # "dec" /\ x.todo = {}
  BY <1>1, AtIs
<1>4. /\ made' = made /\ over' = over /\ build' = build
      /\ refcount' = refcount /\ created' = created /\ ok' = ok /\ deleted' = deleted /\ took' = took
  BY DEF rootVars
<1>5. g \in Legal /\ g.at = next /\ g.todo = {} /\ Same(g, x)
  BY <1>2, <1>3, MovedIs
<1>6. stack' = [stack EXCEPT ![w] = <<DecFrame(r), g>> \o Tail(stack[w])]
  BY <1>1, <1>2, <1>3, GoIs DEF Inv
<1>7. Moves(x, g, {}) /\ CallsDec(w, r)
  BY <1>1, <1>3, <1>5, <1>6, DecMoves DEF Inv
<1>8. Grows(x, g, {}, {})
  BY <1>4, <1>7 DEF Grows
<1>9. LocalCard(x.root)' + DistCard(x.root)' = LocalCard(x.root) + DistCard(x.root) - 1
  <2>1. NewLocal(x, {}) = {} /\ NewDist(x, {}) = {}
    BY DEF NewLocal, NewDist
  <2>2. /\ LocalCard(x.root) \in Nat /\ LocalCard(x.root)' \in Nat
        /\ (LocalAt(x.op, x.at) <=> LocalAt(x.op, g.at)) => LocalCard(x.root)' = LocalCard(x.root)
        /\ LocalAt(x.op, x.at) /\ ~ LocalAt(x.op, g.at) => LocalCard(x.root)' = LocalCard(x.root) - 1
    BY <1>3, <1>8, <2>1, LocalCount DEF LocalCard
  <2>3. /\ DistCard(x.root) \in Nat /\ DistCard(x.root)' \in Nat
        /\ (DistAt(x.op, x.at) <=> DistAt(x.op, g.at)) => DistCard(x.root)' = DistCard(x.root)
        /\ DistAt(x.op, x.at) /\ ~ DistAt(x.op, g.at) => DistCard(x.root)' = DistCard(x.root) - 1
    BY <1>3, <1>8, <2>1, DistCount DEF DistCard
  <2> QED BY <2>2, <2>3, <1>3, <1>5
<1>10. Counting'
  BY <1>3, <1>4, <1>7, <1>8, <1>9, CountGiven
<1>11. refcount' \in [Root -> Int] /\ \A z \in Root : refcount[z] = 0 => refcount'[z] = 0
  BY <1>4 DEF Inv
<1>12. g.at \notin Filled \ Counted
  BY <1>5 DEF Filled, Counted
<1>13. /\ Grows(Top(w), g, {}, {}) /\ Same(g, Top(w)) /\ g.todo \subseteq Top(w).todo
       /\ (\E z \in ok' : CallsDec(w, z)) /\ \A S \in Marks : at \in S => g.at \in S
  BY <1>1, <1>4, <1>5, <1>7, <1>8
<1> QED BY <1>4, <1>10, <1>11, <1>12, <1>13, TaskKeeps

LEMMA WriteThroughHolds ==
  ASSUME Inv, NEW w \in Worker, WriteThrough(w), build' = build
  PROVE  Inv'
<1>1. over' = over /\ rootVars' = rootVars /\ ok' = ok
  BY DEF WriteThrough, rootVars
<1>2. PICK r : r = RootOf(w)
  OBVIOUS
<1>3. PICK at, next, new :
        /\ At(w, "write", at)
        /\ \/ at = "begin" /\ next = "second" /\ new = "put local"
           \/ at = "second" /\ next = "end" /\ new = "put dist"
        /\ \/ Add(w, T(new, r), Eager, next)
           \/ Go(w, <<DecFrame(r)>>, next) /\ made' = made
  BY <1>2 DEF WriteThrough
<1>4. "write" \in Ops /\ next \in StepsOf("write") /\ new \in Ops
  BY <1>3 DEF Ops, StepsOf
<1>5. /\ r \in Root /\ T("write", r) \in made /\ r[2] = "run"
      /\ \A S : Past("write", r, S) <=> at \in S
  BY <1>2, <1>3, <1>4, AtIs
<1>6. r \in ok
  <2>1. T("write", r).op = "write" /\ T("write", r).root = r
    BY DEF T
  <2> QED BY <2>1, <1>5 DEF Inv, MadeGood, MadeOK
<1>7. \A S \in Marks : at \in S => next \in S
  BY <1>3, MarksKept
<1>8. /\ at # "steal" /\ next # "steal" /\ new # "write" /\ new # "result" /\ new \notin {"restore", "run"}
      /\ next \in Counted \/ next = "second"
  BY <1>3 DEF Counted
<1>9. CASE Add(w, T(new, r), Eager, next)
  <2>1. Eager \in BOOLEAN
    BY RootsAssumption DEF Inv, Eager
  <2>2. T(new, r).op = new /\ T(new, r).root = r
    BY DEF T
  <2>3. T(new, r) \notin made
    <3>1. at \notin IF new = "put local" THEN {"second", "end"} ELSE {"end"}
      BY <1>3
    <3>2. ~ Past("write", r, IF new = "put local" THEN {"second", "end"} ELSE {"end"})
      BY <3>1, <1>5
    <3>3. new \in {"put local", "put dist"}
      BY <1>3
    <3> QED BY <3>2, <3>3, <2>2, <1>5 DEF Inv, MadeGood, MadeOK
  <2>4. (\A S : next \in S => Past("write", r, S)') => MadeOK(T(new, r))'
    <3>1. T(new, r)'.op = new /\ T(new, r)'.root = r
      BY DEF T
    <3>2. next \in IF new = "put local" THEN {"second", "end"} ELSE {"end"}
      BY <1>3
    <3>3. new \in {"put local", "put dist"} /\ r \in ok'
      BY <1>1, <1>3, <1>6
    <3> QED BY <3>1, <3>2, <3>3, <1>5, <1>8 DEF MadeOK
  <2>5. /\ \/ LocalAt(new, "begin") /\ LocalAt("write", at) /\ ~ LocalAt("write", next)
           \/ ~ LocalAt(new, "begin") /\ (LocalAt("write", at) <=> LocalAt("write", next))
        /\ \/ DistAt(new, "begin") /\ DistAt("write", at) /\ ~ DistAt("write", next)
           \/ ~ DistAt(new, "begin") /\ (DistAt("write", at) <=> DistAt("write", next))
    BY <1>3 DEF LocalAt, DistAt
  <2>6. At(w, "write", at)
    BY <1>3
  <2> QED BY <1>1, <1>2, <1>4, <1>7, <1>8, <1>9, <2>1, <2>3, <2>4, <2>5, <2>6, AddKeeps
<1>10. CASE Go(w, <<DecFrame(r)>>, next) /\ made' = made
  <2>1. \/ /\ LocalAt("write", at) /\ ~ LocalAt("write", next)
           /\ (DistAt("write", at) <=> DistAt("write", next))
        \/ /\ DistAt("write", at) /\ ~ DistAt("write", next)
           /\ (LocalAt("write", at) <=> LocalAt("write", next))
    BY <1>3 DEF LocalAt, DistAt
  <2> QED BY <1>1, <1>2, <1>3, <1>4, <1>6, <1>7, <1>8, <1>10, <2>1, GivesKeeps
<1> QED BY <1>3, <1>9, <1>10

LEMMA PutInCacheKeeps ==
  ASSUME Inv, NEW w \in Worker, PutInCache(w), build' = build
  PROVE  Inv'
<1>1. made' = made /\ over' = over /\ rootVars' = rootVars
  BY DEF PutInCache
<1>2. PICK r : r = RootOf(w)
  OBVIOUS
<1>3. PICK op : At(w, op, "begin") /\ (op = "put local" \/ op = "put dist")
  BY DEF PutInCache
<1>4. op \in Ops /\ "end" \in StepsOf(op) /\ "end" \in Counted
  BY <1>3 DEF Ops, StepsOf, Counted
<1>5. T(op, r) \in made
  BY <1>2, <1>3, <1>4, AtIs
<1>6. r \in ok
  <2>1. T(op, r).op = op /\ T(op, r).root = r /\ op \in {"put local", "put dist"}
    BY <1>3 DEF T
  <2> QED BY <2>1, <1>5 DEF Inv, MadeGood, MadeOK
<1>7. \A S \in Marks : "begin" \in S => "end" \in S
  BY MarksKept
<1>8. \/ LocalAt(op, "begin") /\ ~ LocalAt(op, "end") /\ (DistAt(op, "begin") <=> DistAt(op, "end"))
      \/ DistAt(op, "begin") /\ ~ DistAt(op, "end") /\ (LocalAt(op, "begin") <=> LocalAt(op, "end"))
  BY <1>3 DEF LocalAt, DistAt
<1>9. Go(w, <<DecFrame(r)>>, "end")
  BY <1>2 DEF PutInCache
<1>10. op \notin {"restore", "run"}
  BY <1>3
<1> QED BY <1>1, <1>2, <1>3, <1>4, <1>6, <1>7, <1>8, <1>9, <1>10, GivesKeeps
(* When the tasks of a node are over, so is the one that made a good root. *)
LEMMA OverOfGood ==
  ASSUME Inv, NEW r \in ok, NodeOver(r[1])
  PROVE  Past(r[2], r, {"end"})
<1>1. r \in Root /\ Past(r[2], r, Filled) /\ LiveMade /\ over \subseteq made
  BY DEF Inv, OkGood, MadeGood
<1>2. T(r[2], r) \in made
  BY <1>1 DEF Past, Holds, LiveMade
<1>3. r = <<r[1], r[2]>> /\ r[2] \in {"restore", "run"}
  BY <1>1 DEF Root
<1>4. T(r[2], r) \in {T(k, <<r[1], k>>) : k \in {"restore", "run"}}
  BY <1>3
<1>5. T(r[2], r) \in over
  BY <1>2, <1>4 DEF NodeOver, MainTasks
<1> QED BY <1>5 DEF Past

(* A task that takes the outputs of r for u keeps the invariant. *)
LEMMA TakeKeeps ==
  ASSUME Inv, NEW w \in Worker, NEW op \in {"run", "result"}, NEW at \in {"steal", "begin"},
         At(w, op, at), op = "run" => at = "steal",
         NEW g \in Legal, Same(g, Top(w)), g.todo \subseteq Top(w).todo, g.at \in {"steal", "end"},
         at = "steal" => g.at = "steal", NEW r \in ok, NEW u \in Takers(r),
         Past(r[2], r, {"end"}), <<r, u>> \notin took,
         took' = took \cup {<<r, u>>},
         stack' = [stack EXCEPT ![w] = <<DecFrame(r), g>> \o Tail(stack[w])],
         UNCHANGED <<build, made, over, refcount, created, ok, deleted>>,
         u \in Node => /\ op = "run" /\ RootOf(w) = <<u, "run">> /\ g.at = "steal" /\ r \notin g.todo,
         u = "result" => /\ op = "result" /\ g.at = "end"
                         /\ RootOf(w) = IF Eager THEN r ELSE <<r[1], "run">>
  PROVE  Inv'
<1>1. PICK x : x = Top(w)
  OBVIOUS
<1>2. /\ x \in Live /\ x \in Legal /\ x.op = op /\ x.at = at /\ x.root = RootOf(w)
      /\ stack[w] # <<>> /\ Top(w).op # "dec" /\ x.op \in Ops
  <2>1. op \in Ops
    BY DEF Ops
  <2> QED BY <2>1, <1>1, AtIs
<1>3. r \in Root /\ OkGood /\ TookGood /\ Stacks /\ Alone
  BY DEF Inv, OkGood
<1>4. Moves(x, g, {}) /\ CallsDec(w, r)
  BY <1>1, <1>2, <1>3, DecMoves
<1>5. Grows(x, g, {}, {})
  BY <1>4 DEF Grows
<1>6. Counting'
  BY <1>2, <1>3, <1>4, <1>5, CountTaken
<1>7. \A S \in Marks : x.at \in S => g.at \in S
  <2>1. g.at \in Stealing
    BY DEF Stealing, Filled
  <2> QED BY <2>1, <1>2, MarksKept
<1>8. Past(r[2], r, {"end"})'
  <2>1. Onward
    BY <1>4, <1>7, MovesOnward
  <2>2. {"end"} \in Marks
    BY DEF Marks
  <2> QED BY <2>1, <2>2, PastStays
<1>9. TookOK(r, u)'
  <2>0. /\ g \in Live' /\ g.op = op /\ g.root = RootOf(w)
        /\ \A f, h \in Live' : Same(f, h) => f = h
    <3>1. \A f, h \in Live' : Same(f, h) => f = h
      BY <1>4, LiveOneNext DEF Moves
    <3>2. g \in Live' /\ g.op = op /\ g.root = RootOf(w)
      BY <1>1, <1>2, <1>4 DEF Moves, Same
    <3> QED BY <3>1, <3>2
  <2>1. r \in ok' /\ u \in Takers(r)'
    BY DEF Takers, Result
  <2>2. ASSUME u \in Node
        PROVE  /\ Past("run", <<u, "run">>, Stealing)'
               /\ \A f \in Live' : f.op = "run" /\ f.root = <<u, "run">> => r \notin f.todo
    <3>1. g.op = "run" /\ g.root = <<u, "run">> /\ g.at \in Stealing /\ r \notin g.todo
      BY <2>0, <2>2 DEF Stealing
    <3> QED BY <3>1, <2>0 DEF Past, Holds, Same
  <2>3. PICK q : q = IF Eager THEN r ELSE <<r[1], "run">>
    OBVIOUS
  <2>4. ASSUME u = "result" PROVE Past("result", q, {"end"})'
    <3>1. g.op = "result" /\ g.root = q /\ g.at = "end"
      BY <2>0, <2>3, <2>4
    <3> QED BY <3>1, <2>0 DEF Past, Holds
  <2>5. (IF Eager THEN r ELSE <<r[1], "run">>)' = q
    BY <2>3 DEF Eager
  <2>6. u = "result" => Past("result", IF Eager THEN r ELSE <<r[1], "run">>, {"end"})'
    BY <2>4, <2>5
  <2> QED BY <2>1, <2>2, <2>6, <1>8 DEF TookOK
<1>10. CarriesRoots(x, g)
  <2>1. \A p \in took' \ took : TookOK(p[1], p[2])'
    <3> TAKE p \in took' \ took
    <3>1. p[1] = r /\ p[2] = u
      OBVIOUS
    <3> QED BY <3>1, <1>9
  <2>2. took' \subseteq Root \X (Node \cup {"result"})
    BY <1>3 DEF TookGood, Takers, Consumers
  <2>3. \A z \in g.todo : z \in x.todo
    BY <1>1
  <2>4. /\ x.op \in {"restore", "run"} /\ g.at # "begin" => x.root \in created'
        /\ g.at \notin Filled \ Counted
    BY <1>2, <1>3 DEF OkGood, Filled, Counted
  <2>5. refcount' \in [Root -> Int]
    BY DEF Inv
  <2> QED BY <2>1, <2>2, <2>3, <2>4, <2>5, <1>3 DEF CarriesRoots, OkGood
<1> QED BY <1>4, <1>5, <1>6, <1>7, <1>10, Carried
(* The change of a call that takes a root. *)
LEMMA TodoOf ==
  ASSUME NEW x \in Shape, NEW roots
  PROVE  [x EXCEPT !.todo = roots] = [op |-> x.op, root |-> x.root, at |-> x.at, todo |-> roots]
BY DEF Shape

LEMMA RunLookKeeps ==
  ASSUME Inv, NEW w \in Worker, RunLook(w), build' = build
  PROVE  Inv'
<1>1. PICK x : x = Top(w)
  OBVIOUS
<1>2. PICK roots : roots = UNION {OkRoots(d) : d \in Deps[NodeOf(w)]}
  OBVIOUS
<1>3. /\ made' = made /\ over' = over /\ refcount' = refcount /\ created' = created
      /\ ok' = ok /\ deleted' = deleted /\ took' = took
      /\ At(w, "run", "fill")
  BY DEF RunLook, rootVars
<1>4. /\ x \in Live /\ x \in Legal /\ x.op = "run" /\ x.at = "fill" /\ x.root = RootOf(w) /\ x.root \in Root
      /\ stack[w] # <<>> /\ x.op # "dec" /\ x.op \in Ops /\ x.root[2] = "run" /\ x.todo = {}
      /\ \A S : Past("run", RootOf(w), S) <=> "fill" \in S
  <2>1. "run" \in Ops
    BY DEF Ops
  <2> QED BY <2>1, <1>1, <1>3, AtIs
<1>5. OkGood /\ TookGood /\ Stacks /\ Alone /\ ok \subseteq Root
  BY DEF Inv, OkGood
<1>6. \A r \in roots : r \in ok /\ r[1] \in Deps[x.root[1]]
  <2> TAKE r \in roots
  <2>1. PICK d \in Deps[x.root[1]] : r \in OkRoots(d)
    BY <1>2, <1>4 DEF NodeOf
  <2>2. r \in ok /\ r \in {d} \X {"restore", "run"}
    BY <2>1 DEF OkRoots
  <2> QED BY <2>2
<1>7. PICK g : g = [op |-> "run", root |-> x.root, at |-> "steal", todo |-> roots]
  OBVIOUS
<1>8. g \in Legal /\ Same(g, x) /\ g.at = "steal" /\ g.todo = roots
  <2>1. "steal" \in StepsOf("run") /\ "run" \in Ops
    BY DEF StepsOf, Ops
  <2>2. roots \in SUBSET Root
    BY <1>5, <1>6
  <2>3. g \in Legal
    BY <2>1, <2>2, <1>4, <1>7, LegalMade
  <2> QED BY <2>3, <1>4, <1>7 DEF Same
<1>9. stack' = [stack EXCEPT ![w] = <<g>> \o Tail(stack[w])]
  BY <1>2, <1>4, <1>7 DEF RunLook
<1>10. Moves(x, g, {}) /\ NoDec(w)
  <2>1. g \in Frames /\ g.op # "dec"
    BY <1>8, KindsApart DEF Frames
  <2>2. /\ Stacks' /\ Alone' /\ Head(stack'[w]) = g /\ (\A v \in Worker \ {w} : stack'[v] = stack[v])
        /\ Live' = (Live \ {x}) \cup {g}
    BY <2>1, <1>1, <1>4, <1>5, <1>8, <1>9, Replaced
  <2> QED BY <2>1, <2>2, <1>1, <1>4, <1>8 DEF Moves, NoDec, Top
<1>11. Grows(x, g, {}, {})
  BY <1>3, <1>10 DEF Grows
<1>12. Counting'
  BY <1>3, <1>4, <1>8, <1>10, <1>11, CountKept DEF LocalAt, DistAt
<1>13. CarriesRoots(x, g)
  <2>1. ASSUME NEW r \in roots, NEW u \in Node, <<r, u>> \in took, x.root = <<u, "run">>
        PROVE  FALSE
    <3>1. TookOK(r, u)
      BY <2>1, <1>5 DEF TookGood
    <3>2. "fill" \notin Stealing
      BY DEF Stealing, Filled
    <3> QED BY <2>1, <3>1, <3>2, <1>4 DEF TookOK
  <2>2. x.root \in created'
    BY <1>3, <1>4, <1>5 DEF OkGood
  <2>3. g.at \notin Filled
    BY <1>8 DEF Filled
  <2>4. refcount' \in [Root -> Int]
    BY <1>3 DEF Inv
  <2>5. /\ \A r \in g.todo : r \in ok' /\ r[1] \in Deps[x.root[1]]
                             /\ ~ \E u \in Node : <<r, u>> \in took /\ x.root = <<u, "run">>
    BY <2>1, <1>3, <1>6, <1>8
  <2> QED BY <2>2, <2>3, <2>4, <2>5, <1>3, <1>5 DEF CarriesRoots, OkGood, TookGood
<1>14. \A S \in Marks : x.at \in S => g.at \in S
  BY <1>4, MarksKept
<1> QED BY <1>3, <1>10, <1>11, <1>12, <1>13, <1>14, Carried

LEMMA StealKeeps ==
  ASSUME Inv, NEW w \in Worker, Steal(w), build' = build
  PROVE  Inv'
<1>1. PICK x : x = Top(w)
  OBVIOUS
<1>2. /\ made' = made /\ over' = over /\ refcount' = refcount /\ created' = created
      /\ ok' = ok /\ deleted' = deleted /\ At(w, "run", "steal")
  BY DEF Steal
<1>3. PICK r \in x.todo :
        /\ took' = took \cup {<<r, NodeOf(w)>>}
        /\ stack' = [stack EXCEPT ![w] = <<DecFrame(r), [x EXCEPT !.todo = @ \ {r}]>> \o Tail(stack[w])]
  BY <1>1 DEF Steal
<1>4. PICK u : u = NodeOf(w)
  OBVIOUS
<1>5. /\ x \in Live /\ x \in Legal /\ x.op = "run" /\ x.at = "steal" /\ x.root = RootOf(w) /\ x.root \in Root
      /\ stack[w] # <<>> /\ x.op # "dec" /\ x.root[2] = "run" /\ T("run", x.root) \in made
  <2>1. "run" \in Ops
    BY DEF Ops
  <2> QED BY <2>1, <1>1, <1>2, AtIs
<1>6. u \in Node /\ x.root = <<u, "run">>
  BY <1>4, <1>5 DEF Root, NodeOf
<1>7. OkGood /\ TookGood /\ Stacks /\ Alone /\ Ready
  BY DEF Inv
<1>8. r \in ok /\ r \in Root /\ r[1] \in Deps[u]
  BY <1>5, <1>6, <1>7 DEF TookGood, OkGood
<1>9. u \in Takers(r) /\ u # "result"
  <2>1. u # "result"
    BY <1>6, RootsAssumption
  <2> QED BY <2>1, <1>6, <1>8 DEF Takers, Consumers
<1>10. Past(r[2], r, {"end"})
  <2>1. Begun("run", <<u, "run">>)
    BY <1>5, <1>6 DEF Begun
  <2>2. NodeOver(r[1])
    BY <2>1, <1>6, <1>7, <1>8 DEF Ready
  <2> QED BY <2>2, <1>8, OverOfGood
<1>11. <<r, u>> \notin took
  <2> SUFFICES ASSUME <<r, u>> \in took PROVE FALSE
    OBVIOUS
  <2>1. TookOK(r, u)
    BY <1>7 DEF TookGood
  <2> QED BY <2>1, <1>3, <1>5, <1>6 DEF TookOK
<1>12. PICK g : g = [op |-> "run", root |-> x.root, at |-> "steal", todo |-> x.todo \ {r}]
  OBVIOUS
<1>13. g \in Legal /\ Same(g, x) /\ g.at = "steal" /\ g.todo = x.todo \ {r}
  <2>1. "steal" \in StepsOf("run") /\ "run" \in Ops
    BY DEF StepsOf, Ops
  <2>2. x.todo \ {r} \in SUBSET Root
    BY <1>5, LegalShape DEF Shape
  <2>3. g \in Legal
    BY <2>1, <2>2, <1>5, <1>12, LegalMade
  <2> QED BY <2>3, <1>5, <1>12 DEF Same
<1>14. stack' = [stack EXCEPT ![w] = <<DecFrame(r), g>> \o Tail(stack[w])]
  <2>1. x \in Shape
    BY <1>5, LegalShape
  <2>2. g = [x EXCEPT !.todo = @ \ {r}]
    BY <2>1, <1>5, <1>12, TodoOf
  <2> QED BY <2>2, <1>3
<1>15. /\ Same(g, Top(w)) /\ g.todo \subseteq Top(w).todo /\ r \notin g.todo /\ RootOf(w) = <<u, "run">>
       /\ took' = took \cup {<<r, u>>}
  BY <1>1, <1>3, <1>4, <1>5, <1>6, <1>13
<1> QED BY <1>2, <1>8, <1>9, <1>10, <1>11, <1>13, <1>14, <1>15, TakeKeeps

LEMMA LinkResultKeeps ==
  ASSUME Inv, NEW w \in Worker, LinkResult(w), build' = build
  PROVE  Inv'
<1>1. /\ made' = made /\ over' = over /\ refcount' = refcount /\ created' = created
      /\ ok' = ok /\ deleted' = deleted /\ At(w, "result", "begin")
  BY DEF LinkResult
<1>2. PICK x : x = Top(w)
  OBVIOUS
<1>3. "result" \in Ops /\ "end" \in StepsOf("result")
  BY DEF Ops, StepsOf
<1>4. /\ x \in Live /\ x \in Legal /\ x.op = "result" /\ x.at = "begin" /\ x.root = RootOf(w) /\ x.root \in Root
      /\ stack[w] # <<>> /\ x.op # "dec" /\ T("result", x.root) \in made /\ x.todo = {}
      /\ \A S : Past("result", x.root, S) <=> "begin" \in S
  BY <1>1, <1>2, <1>3, AtIs
<1>5. OkGood /\ TookGood /\ Stacks /\ Alone /\ Ready /\ MadeGood
  BY DEF Inv
<1>6. CASE Step(w, "end") /\ took' = took
  <2> DEFINE g == Moved(Top(w), "end")
  <2>1. Grows(Top(w), g, {}, {}) /\ NoDec(w) /\ g.at = "end" /\ g.todo = {} /\ Same(g, Top(w))
    BY <1>1, <1>3, <1>6, PlainStep
  <2> HIDE DEF g
  <2>2. Counting'
    BY <2>1, <1>1, <1>2, <1>3, <1>4, <1>6, CountKept DEF LocalAt, DistAt
  <2>3. g.at \notin Filled \ Counted
    BY <2>1 DEF Counted
  <2>4. refcount' \in [Root -> Int]
    BY <1>1 DEF Inv
  <2>5. \A S \in Marks : "begin" \in S => g.at \in S
    BY MarksKept
  <2> QED BY <2>1, <2>2, <2>3, <2>4, <2>5, <1>1, <1>3, <1>6, TaskKeeps
<1>7. ASSUME NEW r \in Providers(w), took' = took \cup {<<r, "result">>}, Go(w, <<DecFrame(r)>>, "end")
      PROVE  Inv'
  <2>1. T("result", x.root).op = "result" /\ T("result", x.root).root = x.root
    BY DEF T
  <2>2. MadeOK(T("result", x.root))
    BY <1>4, <1>5 DEF MadeGood
  <2>3. /\ x.root[1] \in Result
        /\ Eager => Past(x.root[2], x.root, {"end"})
        /\ ~ Eager => x.root[2] = "run"
    BY <2>1, <2>2 DEF MadeOK
  <2>4. /\ r \in ok /\ r \in Root /\ r[1] = x.root[1]
        /\ x.root = IF Eager THEN r ELSE <<r[1], "run">>
    <3>1. CASE Eager
      BY <3>1, <1>4, <1>5 DEF Providers, OkGood
    <3>2. CASE ~ Eager
      <4>1. r \in ok /\ r \in {x.root[1]} \X {"restore", "run"}
        BY <3>2, <1>4 DEF Providers, OkRoots, NodeOf
      <4>2. x.root = <<x.root[1], "run">>
        BY <3>2, <2>3, <1>4 DEF Root
      <4> QED BY <3>2, <4>1, <4>2, <1>5 DEF OkGood
    <3> QED BY <3>1, <3>2
  <2>5. Past(r[2], r, {"end"})
    <3>1. CASE Eager
      BY <3>1, <2>3, <2>4
    <3>2. CASE ~ Eager
      <4>1. Begun("result", <<r[1], "run">>) /\ r[1] \in Node
        BY <3>2, <2>4, <1>4 DEF Begun, Root
      <4>2. NodeOver(r[1])
        BY <3>2, <4>1, <1>5 DEF Ready
      <4> QED BY <4>2, <2>4, OverOfGood
    <3> QED BY <3>1, <3>2
  <2>6. PICK u : u = "result"
    OBVIOUS
  <2>7. u \in Takers(r) /\ u \notin Node
    BY <2>3, <2>4, <2>6, RootsAssumption DEF Takers
  <2>8. <<r, u>> \notin took
    <3> SUFFICES ASSUME <<r, u>> \in took PROVE FALSE
      OBVIOUS
    <3>1. TookOK(r, u)
      BY <1>5 DEF TookGood
    <3>2. Past("result", x.root, {"end"})
      BY <3>1, <2>4, <2>6 DEF TookOK
    <3> QED BY <3>2, <1>4
  <2>9. PICK g : g = Moved(x, "end")
    OBVIOUS
  <2>10. g \in Legal /\ Same(g, x) /\ g.at = "end" /\ g.todo = {}
    BY <2>9, <1>3, <1>4, MovedIs
  <2>11. stack' = [stack EXCEPT ![w] = <<DecFrame(r), g>> \o Tail(stack[w])]
    BY <2>9, <1>2, <1>4, <1>5, <1>7, GoIs
  <2>12. /\ Same(g, Top(w)) /\ g.todo \subseteq Top(w).todo
         /\ RootOf(w) = (IF Eager THEN r ELSE <<r[1], "run">>) /\ took' = took \cup {<<r, u>>}
    BY <2>4, <2>6, <2>10, <1>2, <1>4, <1>7
  <2> QED BY <2>4, <2>5, <2>7, <2>8, <2>10, <2>11, <2>12, <1>1, TakeKeeps
<1> QED BY <1>6, <1>7 DEF LinkResult
-----------------------------------------------------------------------------
(* The nodes that the preparation reaches are new, and each is there for a *)
(* consumer if it was not asked for.                                       *)
LEMMA ReachedFor ==
  ASSUME NEW S \in SUBSET Node, NEW K \in SUBSET Node
  PROVE  \A n \in Reached(S, K) : n \in Node /\ n \notin K /\ (n \in S \/ Consumers(n) # {})
<1>1. PICK X : X = {m \in Node \ K : m \in S \/ Consumers(m) # {}}
  OBVIOUS
<1>2. Closed(X, S, K)
  <2>1. S \ K \subseteq X
    BY <1>1
  <2>2. ASSUME NEW n \in X, NEW m \in Deps[n] \ K PROVE m \in X
    <3>1. n \in Node /\ m \in Node
      BY <1>1, RootsAssumption
    <3>2. n \in Consumers(m)
      BY <3>1 DEF Consumers
    <3> QED BY <3>1, <3>2, <1>1
  <2> QED BY <2>1, <2>2 DEF Closed
<1>3. X \in SUBSET Node
  BY <1>1
<1>4. \A n \in Reached(S, K) : n \in Node /\ n \in X
  BY <1>2, <1>3 DEF Reached
<1> QED BY <1>1, <1>4

(* The task of a node, and its fields. *)
LEMMA TaskOf ==
  ASSUME NEW n \in Node, NEW k \in {"restore", "run"}
  PROVE  /\ T(k, <<n, k>>) \in Task /\ T(k, <<n, k>>).op = k
         /\ T(k, <<n, k>>).root = <<n, k>> /\ <<n, k>> \in Root
BY DEF T, Task, Root

LEMMA TasksForOf ==
  ASSUME NEW S \in SUBSET Node, NEW t \in TasksFor(S)
  PROVE  \E n \in S : \E k \in {"restore", "run"} : t = T(k, <<n, k>>)
<1>1. PICK n \in S : t = LET k == IF n \in Cached THEN "restore" ELSE "run" IN T(k, <<n, k>>)
  BY DEF TasksFor
<1>2. CASE n \in Cached
  BY <1>1, <1>2
<1>3. CASE n \notin Cached
  BY <1>1, <1>3
<1> QED BY <1>2, <1>3

LEMMA RestoreMissKeeps ==
  ASSUME Inv, NEW w \in Worker, RestoreMiss(w), build' = build
  PROVE  Inv'
<1>1. PICK K : K = {m \in Node : MainTasks(m) # {}}
  OBVIOUS
<1>2. PICK n : n = NodeOf(w)
  OBVIOUS
<1>3. PICK More : More = {T("run", <<n, "run">>)} \cup TasksFor(Reached(Deps[n], K))
  OBVIOUS
<1>4. /\ At(w, "restore", "fill") /\ Step(w, "end") /\ made' = made \cup More
      /\ over' = over /\ refcount' = refcount /\ created' = created
      /\ ok' = ok /\ deleted' = deleted /\ took' = took
  BY <1>1, <1>2, <1>3 DEF RestoreMiss, rootVars
<1>5. PICK N : N = More \ made
  OBVIOUS
<1>6. "restore" \in Ops /\ "end" \in StepsOf("restore")
  BY DEF Ops, StepsOf
<1>7. /\ Top(w) \in Live /\ Top(w) \in Legal /\ Top(w).op = "restore" /\ Top(w).at = "fill"
      /\ Top(w).root = RootOf(w) /\ RootOf(w) \in Root /\ stack[w] # <<>> /\ Top(w).op # "dec"
      /\ T("restore", RootOf(w)) \in made /\ T("restore", RootOf(w)) \notin over /\ RootOf(w)[2] = "restore"
  BY <1>4, <1>6, AtIs
<1>8. n \in Node /\ RootOf(w) = <<n, "restore">>
  BY <1>2, <1>7 DEF NodeOf, Root
<1>9. ~ NodeOver(n)
  <2>1. T("restore", <<n, "restore">>) \in MainTasks(n)
    BY <1>7, <1>8 DEF MainTasks
  <2> QED BY <2>1, <1>7, <1>8 DEF NodeOver
<1>10. ASSUME NEW t \in More, t \notin made
       PROVE  \E m \in Node : \E k \in {"restore", "run"} :
                /\ t = T(k, <<m, k>>) /\ ~ NodeOver(m) /\ Takers(<<m, k>>) # {}
  <2>0. Deps[n] \in SUBSET Node /\ K \in SUBSET Node
    BY <1>1, <1>8, RootsAssumption
  <2>1. CASE t = T("run", <<n, "run">>)
    <3>1. Takers(<<n, "restore">>) # {}
      <4>1. "fill" # "end" /\ "restore" \in {"restore", "run"}
        OBVIOUS
      <4> QED BY <4>1, <1>4, <1>8, OwnHeld
    <3>2. Takers(<<n, "run">>) # {}
      BY <3>1 DEF Takers
    <3> QED BY <2>1, <3>2, <1>8, <1>9
  <2>2. CASE t \in TasksFor(Reached(Deps[n], K))
    <3>1. Reached(Deps[n], K) \in SUBSET Node
      BY DEF Reached
    <3>2. PICK m \in Reached(Deps[n], K) : \E k \in {"restore", "run"} : t = T(k, <<m, k>>)
      BY <2>2, <3>1, TasksForOf
    <3>3. PICK k \in {"restore", "run"} : t = T(k, <<m, k>>)
      BY <3>2
    <3>4. m \in Node /\ m \notin K /\ (m \in Deps[n] \/ Consumers(m) # {})
      BY <2>0, ReachedFor
    <3>5. ~ NodeOver(m)
      BY <3>4, <1>1 DEF NodeOver
    <3>6. Consumers(m) # {}
      BY <3>4, <1>8 DEF Consumers
    <3>7. Takers(<<m, k>>) # {}
      BY <3>6 DEF Takers
    <3> QED BY <3>3, <3>4, <3>5, <3>7
  <2> QED BY <2>1, <2>2, <1>3
<1>11. ASSUME NEW t \in N
       PROVE  t \in Task /\ t.op \in {"restore", "run"} /\ ~ NodeOver(t.root[1]) /\ MadeOK(t)'
  <2>1. PICK m \in Node : \E k \in {"restore", "run"} :
                t = T(k, <<m, k>>) /\ ~ NodeOver(m) /\ Takers(<<m, k>>) # {}
    BY <1>5, <1>10
  <2>2. PICK k \in {"restore", "run"} : t = T(k, <<m, k>>) /\ ~ NodeOver(m) /\ Takers(<<m, k>>) # {}
    BY <2>1
  <2>3. t \in Task /\ t.op = k /\ t.root = <<m, k>>
    BY <2>2, TaskOf
  <2>4. Takers(t.root)' # {}
    BY <2>2, <2>3 DEF Takers, Result
  <2>5. MadeOK(t)'
    <3>1. t.root[2] = t.op /\ t.op # "write" /\ t.op \notin {"put local", "put dist"} /\ t.op # "result"
      <4>1. t.op = "restore" \/ t.op = "run"
        BY <2>3
      <4>2. t.op # "write" /\ t.op # "result" /\ t.op \notin {"put local", "put dist"}
        BY <4>1
      <4>3. t.root[2] = t.op
        BY <2>3
      <4> QED BY <4>2, <4>3
    <3> QED BY <3>1, <2>4, Zenon DEF MadeOK
  <2> QED BY <2>2, <2>3, <2>5
<1>12. PICK g : g = Moved(Top(w), "end")
  OBVIOUS
<1>13. g \in Legal /\ g.at = "end" /\ g.todo = {} /\ Same(g, Top(w))
  BY <1>6, <1>7, <1>12, MovedIs
<1>14. Moves(Top(w), g, {}) /\ NoDec(w)
  BY <1>4, <1>7, <1>12, <1>13, StepMoves DEF Inv
<1>15. Grows(Top(w), g, {}, N)
  BY <1>4, <1>5, <1>11, <1>14 DEF Grows
<1>16. Counting'
  <2>1. \A op : T(op, Top(w).root) \in N => op \in {"restore", "run", "result"}
    <3>1. \A op : T(op, Top(w).root).op = op
      BY DEF T
    <3> QED BY <3>1, <1>11
  <2> QED BY <2>1, <1>4, <1>6, <1>7, <1>13, <1>14, <1>15, CountKept DEF LocalAt, DistAt
<1>17. g.at \notin Filled \ Counted
  BY <1>13 DEF Counted
<1>18. refcount' \in [Root -> Int]
  BY <1>4 DEF Inv
<1>19. \A S \in Marks : "fill" \in S => g.at \in S
  BY MarksKept
<1>20. N \in SUBSET Task /\ (\A t \in N : MadeOK(t)')
       /\ \A t \in N : t.op \in {"restore", "run"} => ~ NodeOver(t.root[1])
  BY <1>11
<1> QED BY <1>4, <1>6, <1>13, <1>14, <1>15, <1>16, <1>17, <1>18, <1>19, <1>20, TaskKeeps
-----------------------------------------------------------------------------
(* The steps between those of the tasks: tasks start and end, ...          *)

LEMMA TurnKeeps ==
  ASSUME Inv, NEW w \in Worker, NoDec(w), Stacks', Alone', LiveMade', over' \subseteq made', Onward,
         build' = build, made' = made, rootVars' = rootVars,
         \A f \in Live' : f \in Live \/ (f.at = "begin" /\ f.todo = {}),
         \A n \in Node : Begun("run", <<n, "run">>)' =>
           Begun("run", <<n, "run">>) \/ \A d \in Deps[n] : NodeOver(d),
         \A n \in Node : ~ Eager /\ Begun("result", <<n, "run">>)' =>
           Begun("result", <<n, "run">>) \/ NodeOver(n),
         \A op, r : (LocalHeld(op, r)' <=> LocalHeld(op, r)) /\ (DistHeld(op, r)' <=> DistHeld(op, r))
  PROVE  Inv'
<1>1. refcount' = refcount /\ created' = created /\ ok' = ok /\ deleted' = deleted /\ took' = took
  BY DEF rootVars
<1>2. /\ MadeGood /\ OkGood /\ Ready /\ TookGood /\ Dead /\ Counting
      /\ build \in Builds /\ refcount \in [Root -> Int]
  BY DEF Inv
<1>3. PICK N : N = {}
  OBVIOUS
<1>4. N \in SUBSET Task /\ made' = made \cup N /\ \A t \in N : FALSE
  BY <1>3
<1>5. MadeGood'
  <2>1. ok \subseteq ok'
    BY <1>1
  <2> QED BY <2>1, <1>2, <1>4, MadeStays
<1>6. OkGood'
  <2>1. ASSUME NEW f \in Live', f \notin Live
        PROVE  /\ f.op \in {"restore", "run"} /\ f.at # "begin" => f.root \in created'
               /\ f.at \in Filled \ Counted => f.root \in ok'
    BY <2>1 DEF Filled
  <2>2. \A v \in Worker : stack'[v] # <<>> /\ Head(stack'[v]).op = "dec" => Head(stack'[v]).root \in ok'
    BY <1>1, <1>2, NoDecSame DEF OkGood, Top, RootOf
  <2> QED BY <2>1, <2>2, <1>1, <1>2, OkStays DEF OkGood
<1>7. Ready'
  <2>1. \A n \in Node : NodeOver(n) => NodeOver(n)'
    BY <1>4, NodeOverStays DEF Onward
  <2> QED BY <2>1, <1>2, RootsAssumption, ReadyStays
<1>8. TookGood'
  <2>1. \A f \in Live' : \A r \in f.todo : \E h \in Live : Same(f, h) /\ r \in h.todo
    BY DEF Same
  <2> QED BY <2>1, <1>1, <1>2, TookStays DEF TookGood
<1>9. Counting'
  <2>1. \A r : TakeRefs(r)' = TakeRefs(r) /\ DecRefs(r)' = DecRefs(r)
    BY <1>1, NoDecSame DEF TakeRefs, Takers, Result
  <2>2. \A r : LocalRefs(r)' = LocalRefs(r) /\ DistRefs(r)' = DistRefs(r)
    BY DEF LocalRefs, DistRefs
  <2>3. \A r : Held(r)' = Held(r)
    BY <2>1, <2>2 DEF Held
  <2> QED BY <2>3, <1>1, <1>2 DEF Counting
<1>10. Dead'
  <2>1. ASSUME NEW v \in Worker, At(v, "dec", "delete")' PROVE refcount'[RootOf(v)'] = 0
    BY <2>1, <1>1, <1>2, NoDecSame DEF Dead
  <2> QED BY <2>1, <1>1, <1>2 DEF Dead
<1> QED BY <1>1, <1>2, <1>5, <1>6, <1>7, <1>8, <1>9, <1>10 DEF Inv

(* A task that starts is ready. *)
LEMMA StartKeeps ==
  ASSUME Inv, NEW w \in Worker, Start(w), build' = build
  PROVE  Inv'
<1>1. stack[w] = <<>> /\ made' = made /\ over' = over /\ rootVars' = rootVars
  BY DEF Start
<1>2. PICK t \in made \ (over \cup Running) :
        Startable(t) /\ stack' = [stack EXCEPT ![w] = <<Frame(t)>>]
  BY DEF Start
<1>3. PICK f : f = Frame(t)
  OBVIOUS
<1>4. Stacks /\ Alone /\ LiveMade /\ MadeGood
  BY DEF Inv
<1>5. t \in Task /\ MadeOK(t) /\ t = T(t.op, t.root) /\ t.op \in Ops /\ t.root \in Root
  BY <1>4 DEF MadeGood, Task, T, Ops
<1>6. f = [op |-> t.op, root |-> t.root, at |-> "begin", todo |-> {}]
  BY <1>3 DEF Frame
<1>7. f \in Legal /\ f.op = t.op /\ f.root = t.root /\ f.at = "begin" /\ f.todo = {}
  <2>1. "begin" \in StepsOf(t.op) /\ {} \in SUBSET Root
    BY DEF StepsOf
  <2>2. /\ t.op = "restore" => t.root[2] = "restore"
        /\ t.op \in {"run", "write"} => t.root[2] = "run"
    BY <1>5 DEF MadeOK
  <2>3. [op |-> t.op, root |-> t.root, at |-> "begin", todo |-> {}] \in Legal
    BY <2>1, <2>2, <1>5, LegalMade
  <2> QED BY <2>3, <1>6
<1>8. \A h \in Live : ~ (h.op = t.op /\ h.root = t.root)
  <2> SUFFICES ASSUME NEW h \in Live, h.op = t.op, h.root = t.root PROVE FALSE
    OBVIOUS
  <2>1. PICK v \in Worker : \E i \in DOMAIN stack[v] : h = stack[v][i]
    BY LiveIn
  <2>2. PICK i \in DOMAIN stack[v] : h = stack[v][i]
    BY <2>1
  <2>3. t = T(stack[v][i].op, stack[v][i].root)
    BY <2>2, <1>5
  <2> QED BY <2>3, <1>2 DEF Running
<1>9. /\ Stacks' /\ Alone' /\ Live' = Live \cup {f}
      /\ stack'[w] # <<>> /\ Head(stack'[w]) = f /\ (\A v \in Worker \ {w} : stack'[v] = stack[v])
  <2>1. \A h \in Live : ~ Same(h, f)
    BY <1>7, <1>8 DEF Same
  <2>2. stack' = [stack EXCEPT ![w] = <<f>>]
    BY <1>2, <1>3
  <2> HIDE DEF Live
  <2> QED BY <2>1, <2>2, <1>1, <1>4, <1>7, Started
<1>10. NoDec(w)
  BY <1>1, <1>7, <1>9, KindsApart DEF NoDec
<1>11. Onward
  BY <1>1, <1>9 DEF Onward, Same
<1>12. LiveMade' /\ over' \subseteq made'
  BY <1>1, <1>2, <1>4, <1>5, <1>7, <1>9 DEF LiveMade, MadeGood, T
<1>13. \A h \in Live' : h \in Live \/ (h.at = "begin" /\ h.todo = {})
  BY <1>7, <1>9
<1>14. ASSUME NEW op, NEW r, Begun(op, r)', ~ Begun(op, r) PROVE t.op = op /\ t.root = r
  BY <1>14, <1>1, <1>7, <1>9 DEF Begun, T
<1>15. \A n \in Node : Begun("run", <<n, "run">>)' =>
         Begun("run", <<n, "run">>) \/ \A d \in Deps[n] : NodeOver(d)
  BY <1>2, <1>14 DEF Startable
<1>16. \A n \in Node : ~ Eager /\ Begun("result", <<n, "run">>)' =>
         Begun("result", <<n, "run">>) \/ NodeOver(n)
  BY <1>2, <1>14 DEF Startable
<1>17. ASSUME NEW op, NEW r
       PROVE  (LocalHeld(op, r)' <=> LocalHeld(op, r)) /\ (DistHeld(op, r)' <=> DistHeld(op, r))
  <2>1. \A S : "begin" \notin S => (Holds(op, r, S)' <=> Holds(op, r, S))
    BY <1>7, <1>9 DEF Holds
  <2>2. \A S : "begin" \in S => (Within(op, r, S)' <=> Within(op, r, S))
    BY <1>7, <1>8, <1>9 DEF Within
  <2>3. T(op, r)' \in made' \ over' <=> T(op, r) \in made \ over
    BY <1>1 DEF T
  <2>4. \A S : "begin" \in S => (Waits(op, r, S)' <=> Waits(op, r, S))
    BY <2>2, <2>3 DEF Waits
  <2> QED BY <2>1, <2>4 DEF LocalHeld, DistHeld
<1> QED BY <1>1, <1>9, <1>10, <1>11, <1>12, <1>13, <1>15, <1>16, <1>17, TurnKeeps

LEMMA EndKeeps ==
  ASSUME Inv, NEW w \in Worker, End(w), build' = build
  PROVE  Inv'
<1>1. PICK x : x = Top(w)
  OBVIOUS
<1>2. /\ stack[w] # <<>> /\ x.at = "end" /\ over' = over \cup {T(x.op, RootOf(w))}
      /\ stack' = [stack EXCEPT ![w] = Tail(stack[w])] /\ made' = made /\ rootVars' = rootVars
  BY <1>1 DEF End
<1>3. Stacks /\ Alone /\ LiveMade /\ MadeGood
  BY DEF Inv
<1>4. /\ x.op # "dec" /\ x \in Live /\ x.root = RootOf(w)
  <2>1. x.op = "dec" => x.at \in {"locked", "compare", "delete"}
    BY <1>1, <1>2, <1>3, TopIs, LegalShape
  <2> QED BY <2>1, <1>1, <1>2, <1>3, TopIs DEF RootOf
<1>5. /\ Stacks' /\ Alone' /\ Live' = Live \ {x}
      /\ (stack'[w] # <<>> => Head(stack'[w]).op # "dec")
      /\ (\A v \in Worker \ {w} : stack'[v] = stack[v])
  BY <1>1, <1>2, <1>3, <1>4, Popped
<1>6. NoDec(w)
  BY <1>1, <1>4, <1>5 DEF NoDec, Top
<1>7. over' = over \cup {T(x.op, x.root)} /\ T(x.op, x.root) \in made
  BY <1>2, <1>3, <1>4 DEF LiveMade
<1>8. Onward
  <2>1. ASSUME NEW f \in Live
        PROVE  \/ T(f.op, f.root) \in over'
               \/ \E g \in Live' : Same(g, f) /\ \A S \in Marks : f.at \in S => g.at \in S
    BY <1>5, <1>7 DEF Same
  <2> QED BY <2>1, <1>7 DEF Onward
<1>9. \A f \in Live : f.op = x.op /\ f.root = x.root => f = x
  BY <1>3, <1>4, LiveOne DEF Same
<1>10. \A op, r : T(op, r) = T(x.op, x.root) <=> op = x.op /\ r = x.root
  BY DEF T
<1>11. LiveMade' /\ over' \subseteq made'
  <2>1. \A f \in Live' : T(f.op, f.root) \in made' \ over'
    BY <1>2, <1>3, <1>5, <1>7, <1>9, <1>10 DEF LiveMade
  <2> QED BY <2>1, <1>2, <1>3, <1>7 DEF LiveMade, MadeGood, T
<1>12. \A op, r : Begun(op, r)' => Begun(op, r)
  BY <1>4, <1>5, <1>7, <1>10 DEF Begun, T
<1>13. ASSUME NEW op, NEW r
       PROVE  (LocalHeld(op, r)' <=> LocalHeld(op, r)) /\ (DistHeld(op, r)' <=> DistHeld(op, r))
  <2>1. \A S : "end" \notin S => (Holds(op, r, S)' <=> Holds(op, r, S))
    BY <1>2, <1>5 DEF Holds
  <2>2. ASSUME NEW S, "end" \notin S PROVE Waits(op, r, S)' <=> Waits(op, r, S)
    <3>1. CASE op = x.op /\ r = x.root
      <4>1. ~ Waits(op, r, S)
        BY <2>2, <3>1, <1>2, <1>4 DEF Waits, Within
      <4>2. T(op, r) \in over'
        BY <3>1, <1>7
      <4> QED BY <4>1, <4>2 DEF Waits, T
    <3>2. CASE ~ (op = x.op /\ r = x.root)
      <4>1. T(op, r) \in made' \ over' <=> T(op, r) \in made \ over
        BY <3>2, <1>2, <1>7, <1>10
      <4>2. Within(op, r, S)' <=> Within(op, r, S)
        BY <3>2, <1>5 DEF Within
      <4> QED BY <4>1, <4>2 DEF Waits, T
    <3> QED BY <3>1, <3>2
  <2> QED BY <2>1, <2>2 DEF LocalHeld, DistHeld
<1> QED BY <1>2, <1>5, <1>6, <1>8, <1>11, <1>12, <1>13, TurnKeeps
(* ... and dec goes on. *)
LEMMA DecKeeps ==
  ASSUME Inv, NEW w \in Worker, stack[w] # <<>>, Top(w).op = "dec",
         Stacks', Alone', Live' = Live, \A v \in Worker \ {w} : stack'[v] = stack[v],
         stack'[w] # <<>> /\ Head(stack'[w]).op = "dec" => Head(stack'[w]).root = RootOf(w),
         UNCHANGED <<build, made, over, created, ok, took>>,
         refcount' \in [Root -> Int], Counting', Dead'
  PROVE  Inv'
<1>1. /\ LiveMade /\ MadeGood /\ OkGood /\ Ready /\ TookGood
      /\ build \in Builds
  BY DEF Inv
<1>2. Onward
  BY DEF Onward, Same
<1>3. PICK N : N = {}
  OBVIOUS
<1>4. N \in SUBSET Task /\ made' = made \cup N /\ \A t \in N : FALSE
  BY <1>3
<1>5. LiveMade'
  BY <1>1 DEF LiveMade, T
<1>6. MadeGood'
  <2>1. ok \subseteq ok' /\ over' \subseteq made'
    BY <1>1 DEF MadeGood
  <2> QED BY <2>1, <1>1, <1>2, <1>4, MadeStays
<1>7. OkGood'
  <2>1. \A v \in Worker : stack'[v] # <<>> /\ Head(stack'[v]).op = "dec" => Head(stack'[v]).root \in ok'
    <3> TAKE v \in Worker
    <3>1. CASE v = w
      BY <3>1, <1>1 DEF OkGood
    <3>2. CASE v # w
      BY <3>2, <1>1 DEF OkGood, Top, RootOf
    <3> QED BY <3>1, <3>2
  <2> QED BY <2>1, <1>1, <1>2, OkStays DEF OkGood
<1>8. Ready'
  <2>1. \A n \in Node : NodeOver(n) => NodeOver(n)'
    BY DEF NodeOver, MainTasks, T
  <2>2. \A op, r : Begun(op, r)' => Begun(op, r)
    BY DEF Begun, T
  <2> QED BY <2>1, <2>2, <1>1, RootsAssumption, ReadyStays
<1>9. TookGood'
  <2>1. \A f \in Live' : \A r \in f.todo : \E h \in Live : Same(f, h) /\ r \in h.todo
    BY DEF Same
  <2> QED BY <2>1, <1>1, <1>2, TookStays DEF TookGood
<1> QED BY <1>1, <1>5, <1>6, <1>7, <1>8, <1>9 DEF Inv

(* In dec, no task comes closer to what it holds. *)
LEMMA DecHolds ==
  ASSUME Live' = Live, UNCHANGED <<build, made, over, took>>
  PROVE  /\ \A r : TakeRefs(r)' = TakeRefs(r)
         /\ \A r : LocalRefs(r)' = LocalRefs(r) /\ DistRefs(r)' = DistRefs(r)
<1>1. \A r : TakeRefs(r)' = TakeRefs(r)
  BY DEF TakeRefs, Takers, Result
<1>2. \A op, r, S : (Holds(op, r, S)' <=> Holds(op, r, S)) /\ (Within(op, r, S)' <=> Within(op, r, S))
  BY DEF Holds, Within
<1>3. \A op, r, S : Waits(op, r, S)' <=> Waits(op, r, S)
  BY <1>2 DEF Waits, T
<1>4. \A op, r : (LocalHeld(op, r)' <=> LocalHeld(op, r)) /\ (DistHeld(op, r)' <=> DistHeld(op, r))
  BY <1>2, <1>3 DEF LocalHeld, DistHeld
<1> QED BY <1>1, <1>4 DEF LocalRefs, DistRefs

(* The call of dec of a worker, and what is next.                          *)
LEMMA DecIs ==
  ASSUME Inv, NEW w \in Worker, NEW at, At(w, "dec", at)
  PROVE  /\ stack[w] # <<>> /\ Top(w).op = "dec" /\ Top(w).at = at /\ Top(w).root = RootOf(w)
         /\ RootOf(w) \in Root /\ RootOf(w) \in ok /\ Top(w).todo = {}
<1>1. stack[w] # <<>> /\ Top(w).op = "dec" /\ Top(w).at = at
  BY DEF At, Top
<1>2. Top(w) \in LegalDec /\ RootOf(w) \in Root /\ Top(w).root = RootOf(w)
  BY <1>1, TopIs DEF Inv, RootOf
<1>3. RootOf(w) \in ok
  BY <1>1 DEF Inv, OkGood
<1> QED BY <1>1, <1>2, <1>3 DEF LegalDec

LEMMA DecNext ==
  ASSUME Inv, NEW w \in Worker, NEW at, At(w, "dec", at), NEW next \in {"compare", "delete"},
         Step(w, next)
  PROVE  /\ Stacks' /\ Alone' /\ Live' = Live /\ \A v \in Worker \ {w} : stack'[v] = stack[v]
         /\ stack'[w] # <<>> /\ Head(stack'[w]).op = "dec" /\ Head(stack'[w]).at = next
         /\ Head(stack'[w]).root = RootOf(w)
<1>1. /\ stack[w] # <<>> /\ Top(w).op = "dec" /\ Top(w).root = RootOf(w) /\ RootOf(w) \in Root
      /\ Top(w).todo = {}
  BY DecIs
<1>2. PICK g : g = Moved(Top(w), next)
  OBVIOUS
<1>3. g = [op |-> "dec", root |-> RootOf(w), at |-> next, todo |-> {}]
  BY <1>1, <1>2 DEF Moved
<1>4. g \in Frames /\ g.op = "dec" /\ g.at = next /\ g.root = RootOf(w) /\ Same(g, Top(w))
  BY <1>1, <1>3 DEF Frames, LegalDec, Same
<1>5. stack' = [stack EXCEPT ![w] = <<g>> \o Tail(stack[w])]
  BY <1>1, <1>2, GoIs DEF Inv
<1> QED BY <1>1, <1>4, <1>5, Replaced DEF Inv

LEMMA SubtractKeeps ==
  ASSUME Inv, NEW w \in Worker, Subtract(w), build' = build
  PROVE  Inv'
<1>1. PICK r : r = RootOf(w)
  OBVIOUS
<1>2. /\ At(w, "dec", "locked") /\ refcount' = [refcount EXCEPT ![r] = @ - 1] /\ Step(w, "compare")
      /\ made' = made /\ over' = over /\ created' = created /\ ok' = ok /\ deleted' = deleted /\ took' = took
  BY <1>1 DEF Subtract
<1>3. stack[w] # <<>> /\ Top(w).op = "dec" /\ r \in Root
  BY <1>1, <1>2, DecIs
<1>4. /\ Stacks' /\ Alone' /\ Live' = Live /\ \A v \in Worker \ {w} : stack'[v] = stack[v]
      /\ stack'[w] # <<>> /\ Head(stack'[w]).op = "dec" /\ Head(stack'[w]).at = "compare"
      /\ Head(stack'[w]).root = r
  BY <1>1, <1>2, DecNext
<1>5. ASSUME NEW v \in Worker, v # w, NEW at
      PROVE  (At(v, "dec", at)' <=> At(v, "dec", at)) /\ RootOf(v)' = RootOf(v)
  BY <1>4, <1>5 DEF At, RootOf, Top
<1>6. ~ At(w, "dec", "locked")' /\ ~ At(w, "dec", "delete")'
  BY <1>4 DEF At
<1>7. /\ DecRefs(r)' = DecRefs(r) \ {w} /\ w \in DecRefs(r)
      /\ \A z : z # r => DecRefs(z)' = DecRefs(z)
  BY <1>1, <1>2, <1>5, <1>6 DEF DecRefs
<1>8. /\ refcount \in [Root -> Int] /\ refcount' \in [Root -> Int] /\ refcount'[r] = refcount[r] - 1
      /\ \A z \in Root : z # r => refcount'[z] = refcount[z]
  BY <1>2, <1>3 DEF Inv
<1>9. refcount[r] > 0
  BY <1>3, <1>7, HeldCounts
<1>10. /\ \A z : TakeRefs(z)' = TakeRefs(z)
       /\ \A z : LocalRefs(z)' = LocalRefs(z) /\ DistRefs(z)' = DistRefs(z)
  BY <1>2, <1>4, DecHolds
<1>11. Counting'
  <2>1. ASSUME NEW z \in Root, z # r PROVE refcount'[z] = Held(z)'
    BY <2>1, <1>7, <1>8, <1>10 DEF Inv, Counting, Held
  <2>2. refcount'[r] = Held(r)'
    <3>1. /\ Cardinality(TakeRefs(r)) \in Nat /\ Cardinality(DecRefs(r)) \in Nat
          /\ Cardinality(LocalRefs(r)) \in Nat /\ Cardinality(DistRefs(r)) \in Nat
      BY RefsFinite, FS_CardinalityType
    <3>2. Cardinality(DecRefs(r)') = Cardinality(DecRefs(r)) - 1
      BY <1>7, RefsFinite, FS_RemoveElement
    <3>3. refcount[r] = Cardinality(TakeRefs(r)) + Cardinality(DecRefs(r))
                          + Cardinality(LocalRefs(r)) + Cardinality(DistRefs(r))
      BY <1>3 DEF Inv, Counting, Held
    <3>4. Held(r)' = Cardinality(TakeRefs(r)) + Cardinality(DecRefs(r)')
                       + Cardinality(LocalRefs(r)) + Cardinality(DistRefs(r))
      BY <1>10 DEF Held
    <3> QED BY <3>1, <3>2, <3>3, <3>4, <1>8
  <2> QED BY <2>1, <2>2 DEF Counting
<1>12. Dead'
  <2>1. \A z \in Root : refcount[z] = 0 => refcount'[z] = 0
    BY <1>8, <1>9
  <2>2. ASSUME NEW v \in Worker, At(v, "dec", "delete")' PROVE refcount'[RootOf(v)'] = 0
    <3>1. v # w /\ At(v, "dec", "delete") /\ RootOf(v)' = RootOf(v)
      BY <2>2, <1>5, <1>6
    <3>2. RootOf(v) \in Root /\ refcount[RootOf(v)] = 0
      BY <3>1, DecIs DEF Inv, Dead
    <3> QED BY <3>1, <3>2, <2>1
  <2>3. deleted \subseteq ok /\ ok \subseteq Root /\ \A z \in deleted : refcount[z] = 0
    BY DEF Inv, Dead, OkGood
  <2> QED BY <2>1, <2>2, <2>3, <1>2 DEF Dead
<1> QED BY <1>1, <1>2, <1>3, <1>4, <1>8, <1>11, <1>12, DecKeeps

(* The counter is not read under the lock; nobody brings it back from zero. *)
LEMMA CompareKeeps ==
  ASSUME Inv, NEW w \in Worker, Compare(w), build' = build
  PROVE  Inv'
<1>1. PICK r : r = RootOf(w)
  OBVIOUS
<1>2. /\ At(w, "dec", "compare") /\ refcount' = refcount
      /\ made' = made /\ over' = over /\ created' = created /\ ok' = ok /\ deleted' = deleted /\ took' = took
  BY DEF Compare, rootVars
<1>3. stack[w] # <<>> /\ Top(w).op = "dec" /\ r \in Root
  BY <1>1, <1>2, DecIs
<1>4. /\ Stacks' /\ Alone' /\ Live' = Live /\ \A v \in Worker \ {w} : stack'[v] = stack[v]
      /\ stack'[w] # <<>> /\ Head(stack'[w]).op = "dec" =>
           Head(stack'[w]).at = "delete" /\ Head(stack'[w]).root = r /\ refcount[r] = 0
  <2>1. CASE refcount[r] = 0
    <3>1. Step(w, "delete")
      BY <2>1, <1>1 DEF Compare
    <3> QED BY <3>1, <2>1, <1>1, <1>2, DecNext
  <2>2. CASE refcount[r] # 0
    <3>1. stack' = [stack EXCEPT ![w] = Tail(stack[w])]
      BY <2>2, <1>1 DEF Compare
    <3> QED BY <3>1, <1>3, Popped DEF Inv
  <2> QED BY <2>1, <2>2
<1>5. ASSUME NEW v \in Worker, v # w, NEW at
      PROVE  (At(v, "dec", at)' <=> At(v, "dec", at)) /\ RootOf(v)' = RootOf(v)
  BY <1>4, <1>5 DEF At, RootOf, Top
<1>6. /\ ~ At(w, "dec", "locked") /\ ~ At(w, "dec", "locked")'
      /\ At(w, "dec", "delete")' => RootOf(w)' = r /\ refcount[r] = 0
  BY <1>2, <1>4 DEF At, RootOf, Top
<1>7. \A z : DecRefs(z)' = DecRefs(z)
  BY <1>5, <1>6 DEF DecRefs
<1>8. Counting'
  BY <1>2, <1>4, <1>7, DecHolds DEF Inv, Counting, Held
<1>9. Dead'
  BY <1>2, <1>5, <1>6 DEF Inv, Dead
<1>10. refcount' \in [Root -> Int]
  BY <1>2 DEF Inv
<1> QED BY <1>1, <1>2, <1>3, <1>4, <1>8, <1>9, <1>10, DecKeeps

LEMMA DeleteKeeps ==
  ASSUME Inv, NEW w \in Worker, Delete(w), build' = build
  PROVE  Inv'
<1>1. PICK r : r = RootOf(w)
  OBVIOUS
<1>2. /\ At(w, "dec", "delete") /\ refcount' = refcount /\ deleted' = deleted \cup {r}
      /\ stack' = [stack EXCEPT ![w] = Tail(stack[w])]
      /\ made' = made /\ over' = over /\ created' = created /\ ok' = ok /\ took' = took
  BY <1>1 DEF Delete
<1>3. stack[w] # <<>> /\ Top(w).op = "dec" /\ r \in Root /\ r \in ok
  BY <1>1, <1>2, DecIs
<1>4. /\ Stacks' /\ Alone' /\ Live' = Live /\ \A v \in Worker \ {w} : stack'[v] = stack[v]
      /\ stack'[w] # <<>> => Head(stack'[w]).op # "dec"
  BY <1>2, <1>3, Popped DEF Inv
<1>5. ASSUME NEW v \in Worker, v # w, NEW at
      PROVE  (At(v, "dec", at)' <=> At(v, "dec", at)) /\ RootOf(v)' = RootOf(v)
  BY <1>4, <1>5 DEF At, RootOf, Top
<1>6. /\ ~ At(w, "dec", "locked") /\ ~ At(w, "dec", "locked")' /\ ~ At(w, "dec", "delete")'
  BY <1>2, <1>4 DEF At
<1>7. \A z : DecRefs(z)' = DecRefs(z)
  BY <1>5, <1>6 DEF DecRefs
<1>8. Counting'
  BY <1>2, <1>4, <1>7, DecHolds DEF Inv, Counting, Held
<1>9. Dead'
  <2>1. refcount[r] = 0
    BY <1>1, <1>2 DEF Inv, Dead
  <2> QED BY <2>1, <1>2, <1>3, <1>5, <1>6 DEF Inv, Dead
<1>10. refcount' \in [Root -> Int]
  BY <1>2 DEF Inv
<1> QED BY <1>1, <1>2, <1>3, <1>4, <1>8, <1>9, <1>10, DecKeeps
-----------------------------------------------------------------------------
(* The invariant at the start: the tasks are there, nothing has begun.     *)
LEMMA InitInv == ASSUME Init PROVE Inv
<1>1. /\ build \in Builds /\ over = {} /\ stack = [w \in Worker |-> <<>>]
      /\ refcount = [r \in Root |-> Refcount(r[1])]
      /\ created = {} /\ ok = {} /\ deleted = {} /\ took = {}
  BY DEF Init
<1>2. Result \in SUBSET Node
  BY <1>1, RootsAssumption DEF Result
<1>3. \A w \in Worker : stack[w] = <<>> /\ DOMAIN stack[w] = {}
  BY <1>1
<1>4. Live = {}
  BY <1>3, LiveIn
<1>5. Stacks
  <2>1. <<>> \in Seq(Frames)
    OBVIOUS
  <2>2. stack \in [Worker -> Seq(Frames)]
    BY <2>1, <1>1
  <2> QED BY <2>2, <1>3 DEF Stacks, Frames
<1>6. Alone /\ LiveMade
  BY <1>3, <1>4 DEF Alone, LiveMade
<1>7. ASSUME NEW t \in made PROVE t \in Task /\ MadeOK(t) /\ t.op \in {"restore", "run", "result"}
  <2>1. CASE t \in TasksFor(Reached(Result, {}))
    <3>1. Reached(Result, {}) \in SUBSET Node
      BY DEF Reached
    <3>2. PICK n \in Reached(Result, {}) : \E k \in {"restore", "run"} : t = T(k, <<n, k>>)
      BY <2>1, <3>1, TasksForOf
    <3>3. PICK k \in {"restore", "run"} : t = T(k, <<n, k>>)
      BY <3>2
    <3>4. n \in Node /\ (n \in Result \/ Consumers(n) # {})
      <4>1. {} \in SUBSET Node
        OBVIOUS
      <4> QED BY <4>1, <1>2, <3>2, ReachedFor
    <3>5. t \in Task /\ t.op = k /\ t.root = <<n, k>>
      BY <3>3, <3>4, TaskOf
    <3>6. t.root[2] = k /\ t.root[1] = n
      BY <3>5
    <3>7. Takers(t.root) # {}
      BY <3>4, <3>6 DEF Takers
    <3> QED BY <3>5, <3>6, <3>7 DEF MadeOK
  <2>2. CASE t \notin TasksFor(Reached(Result, {}))
    <3>1. ~ Eager /\ t \in {ResultTask(n) : n \in Result}
      BY <2>2 DEF Init
    <3>2. PICK n \in Result : t = ResultTask(n)
      BY <3>1
    <3>3. n \in Node /\ <<n, "run">> \in Root
      BY <1>2 DEF Root
    <3>4. t.op = "result" /\ t.root = <<n, "run">> /\ t \in Task
      BY <3>2, <3>3 DEF ResultTask, T, Task
    <3>5. t.root[1] = n /\ t.root[2] = "run"
      BY <3>4
    <3> QED BY <3>1, <3>4, <3>5 DEF MadeOK
  <2> QED BY <2>1, <2>2
<1>8. MadeGood
  BY <1>1, <1>7 DEF MadeGood
<1>9. OkGood
  BY <1>1, <1>3, <1>4 DEF OkGood
<1>10. Ready
  BY <1>1, <1>4 DEF Ready, Begun
<1>11. TookGood
  BY <1>1, <1>4 DEF TookGood
<1>12. Dead
  BY <1>1, <1>3 DEF Dead, At
<1>13. ASSUME NEW r \in Root PROVE refcount[r] = Held(r) /\ refcount[r] \in Int
  <2>1. TakeRefs(r) = Takers(r) /\ DecRefs(r) = {}
    BY <1>1, <1>3 DEF TakeRefs, DecRefs, At
  <2>2. \A op \in Ops : ~ LocalHeld(op, r)
    <3>1. \A op, S : ~ Holds(op, r, S)
      BY <1>4 DEF Holds
    <3>2. T("write", r) \notin made /\ T("put local", r) \notin made
      BY <1>7 DEF T
    <3>3. \A S : ~ Waits("write", r, S) /\ ~ Waits("put local", r, S)
      BY <3>2, Zenon DEF Waits
    <3> QED BY <3>1, <3>3, Zenon DEF LocalHeld
  <2>3. \A op \in Ops : ~ DistHeld(op, r)
    <3>1. \A op, S : ~ Holds(op, r, S)
      BY <1>4 DEF Holds
    <3>2. T("write", r) \notin made /\ T("put dist", r) \notin made
      BY <1>7 DEF T
    <3>3. \A S : ~ Waits("write", r, S) /\ ~ Waits("put dist", r, S)
      BY <3>2, Zenon DEF Waits
    <3> QED BY <3>1, <3>3, Zenon DEF DistHeld
  <2>4. LocalRefs(r) = {} /\ DistRefs(r) = {}
    BY <2>2, <2>3 DEF LocalRefs, DistRefs
  <2>5. IsFiniteSet(Consumers(r[1])) /\ "result" \notin Consumers(r[1])
    BY RootsAssumption, FS_Subset DEF Consumers
  <2>6. Cardinality(Consumers(r[1])) \in Nat
    BY <2>5, FS_CardinalityType
  <2>7. Cardinality(Takers(r)) = Refcount(r[1])
    <3>1. CASE r[1] \in Result
      <4>1. Takers(r) = Consumers(r[1]) \cup {"result"}
        BY <3>1 DEF Takers
      <4>2. Cardinality(Consumers(r[1]) \cup {"result"}) = Cardinality(Consumers(r[1])) + 1
        BY <2>5, FS_AddElement
      <4> QED BY <3>1, <4>1, <4>2 DEF Refcount
    <3>2. CASE r[1] \notin Result
      <4>1. Takers(r) = Consumers(r[1])
        BY <3>2 DEF Takers
      <4>2. Refcount(r[1]) = Cardinality(Consumers(r[1])) + 0
        BY <3>2 DEF Refcount
      <4> QED BY <4>1, <4>2, <2>6
    <3> QED BY <3>1, <3>2
  <2>8. Refcount(r[1]) \in Int
    BY <2>6 DEF Refcount
  <2>9. Cardinality({}) = 0
    BY FS_EmptySet
  <2>10. Held(r) = Refcount(r[1]) + 0 + 0 + 0
    BY <2>1, <2>4, <2>7, <2>9 DEF Held
  <2> QED BY <2>8, <2>10, <1>1
<1>14. Counting /\ refcount \in [Root -> Int]
  <2>1. DOMAIN refcount = Root
    BY <1>1
  <2> QED BY <2>1, <1>1, <1>13 DEF Counting
<1> QED BY <1>1, <1>5, <1>6, <1>8, <1>9, <1>10, <1>11, <1>12, <1>14 DEF Inv

(* A step that changes nothing. *)
LEMMA StutterKeeps == ASSUME Inv, UNCHANGED vars PROVE Inv'
<1>1. /\ build' = build /\ made' = made /\ over' = over /\ stack' = stack /\ refcount' = refcount
      /\ created' = created /\ ok' = ok /\ deleted' = deleted /\ took' = took
  BY DEF vars, rootVars
<1>2. Live' = Live /\ Stacks' /\ Alone' /\ Result' = Result /\ Eager' = Eager
  BY <1>1 DEF Inv, Live, Stacks, Alone, Result, Eager
<1>3. /\ \A op, r, S : Holds(op, r, S)' = Holds(op, r, S) /\ Within(op, r, S)' = Within(op, r, S)
      /\ \A op, r : Begun(op, r)' = Begun(op, r)
  BY <1>1, <1>2 DEF Holds, Within, Begun
<1>4. \A op, r, S : Past(op, r, S)' = Past(op, r, S) /\ Waits(op, r, S)' = Waits(op, r, S)
  BY <1>1, <1>3 DEF Past, Waits
<1>5. (\A r : Takers(r)' = Takers(r)) /\ (\A n : NodeOver(n)' = NodeOver(n))
  BY <1>1, <1>2 DEF Takers, NodeOver, MainTasks
<1>6. \A w \in Worker : /\ \A op, at : At(w, op, at)' = At(w, op, at)
                        /\ Top(w)' = Top(w) /\ RootOf(w)' = RootOf(w)
  BY <1>1 DEF At, Top, RootOf
<1>7. LiveMade' /\ MadeGood'
  BY <1>1, <1>2, <1>4, <1>5, Zenon DEF Inv, LiveMade, MadeGood, MadeOK
<1>8. OkGood' /\ Ready'
  BY <1>1, <1>2, <1>3, <1>4, <1>5, <1>6, Zenon DEF Inv, OkGood, Ready
<1>9. TookGood'
  BY <1>1, <1>2, <1>4, <1>5, Zenon DEF Inv, TookGood, TookOK
<1>10. \A op, r : LocalHeld(op, r)' = LocalHeld(op, r) /\ DistHeld(op, r)' = DistHeld(op, r)
  BY <1>3, <1>4, Zenon DEF LocalHeld, DistHeld
<1>11. \A r : Held(r)' = Held(r)
  <2>1. \A r : TakeRefs(r)' = TakeRefs(r) /\ DecRefs(r)' = DecRefs(r)
    BY <1>1, <1>5, <1>6 DEF TakeRefs, DecRefs
  <2>2. \A r : LocalRefs(r)' = LocalRefs(r) /\ DistRefs(r)' = DistRefs(r)
    BY <1>10 DEF LocalRefs, DistRefs
  <2> QED BY <2>1, <2>2 DEF Held
<1>12. Counting' /\ Dead'
  BY <1>1, <1>6, <1>11 DEF Inv, Counting, Dead
<1> QED BY <1>1, <1>2, <1>7, <1>8, <1>9, <1>12 DEF Inv

LEMMA NextKeeps == ASSUME Inv, [Next]_vars PROVE Inv'
<1>1. CASE UNCHANGED vars
  BY <1>1, StutterKeeps
<1>2. ASSUME NEW w \in Worker, WorkerStep(w), build' = build PROVE Inv'
  <2>1. CASE Start(w) \/ End(w) \/ Subtract(w) \/ Compare(w) \/ Delete(w)
    BY <2>1, <1>2, StartKeeps, EndKeeps, SubtractKeeps, CompareKeeps, DeleteKeeps
  <2>2. CASE Create(w) \/ RestoreMiss(w) \/ RestoreHit(w) \/ RestoreForward(w)
    BY <2>2, <1>2, CreateKeeps, RestoreMissKeeps, RestoreHitKeeps, RestoreForwardKeeps
  <2>3. CASE RunCached(w) \/ RunLook(w) \/ Steal(w) \/ Execute(w) \/ Publish(w) \/ AddWrite(w)
    BY <2>3, <1>2, RunCachedKeeps, RunLookKeeps, StealKeeps, ExecuteKeeps, PublishKeeps, AddWriteKeeps
  <2>4. CASE EagerResult(w) \/ WriteThrough(w) \/ PutInCache(w) \/ LinkResult(w)
    BY <2>4, <1>2, EagerResultKeeps, WriteThroughHolds, PutInCacheKeeps, LinkResultKeeps
  <2> QED BY <1>2, <2>1, <2>2, <2>3, <2>4 DEF WorkerStep
<1>3. CASE Next
  BY <1>1, <1>2, <1>3 DEF Next, Terminated
<1> QED BY <1>1, <1>3

(* The counter of a root is the number of its references, in every state   *)
(* of the specification.                                                   *)
THEOREM ReferencesHeld == Spec => []Inv
<1>1. Init => Inv
  BY InitInv
<1>2. Inv /\ [Next]_vars => Inv'
  BY NextKeeps
<1> QED BY <1>1, <1>2, PTL DEF Spec
-----------------------------------------------------------------------------
(* What the invariant says of the properties. *)

LEMMA InvTypeOK == ASSUME Inv PROVE BuildRootsTypeOK
<1> DEFINE CallOps == {"dec"} \cup {t.op : t \in Task}
           Calls == [op : CallOps, root : Root, at : Points, todo : SUBSET Root]
<1>1. made \subseteq Task /\ over \subseteq made
  BY DEF Inv, MadeGood
<1>2. refcount \in [Root -> Int] /\ created \subseteq Root /\ ok \subseteq created
  BY DEF Inv, OkGood
<1>3. deleted \subseteq created /\ took \subseteq Root \X (Node \cup {"result"})
  BY <1>2 DEF Inv, Dead, TookGood
<1>4. \A f \in Frames : f \in Calls
  <2>1. ASSUME NEW f \in Shape PROVE f \in Calls
    <3>1. f.op \in Ops \cup {"dec"} /\ f.root \in Root
      BY <2>1 DEF Shape
    <3>2. ASSUME f.op \in Ops PROVE f.op \in {t.op : t \in Task}
      <4>1. T(f.op, f.root) \in Task /\ T(f.op, f.root).op = f.op
        BY <3>1, <3>2 DEF Ops, T, Task
      <4> QED BY <4>1
    <3>3. f.op \in CallOps
      BY <3>1, <3>2
    <3> HIDE DEF CallOps
    <3> QED BY <2>1, <3>3 DEF Shape
  <2> QED BY <2>1, LegalShape DEF Frames
<1>5. \A w \in Worker : stack[w] \in Seq(Calls)
  <2> HIDE DEF Calls
  <2> TAKE w \in Worker
  <2>1. stack[w] \in Seq(Frames)
    BY DEF Inv, Stacks, Frames
  <2> QED BY <2>1, <1>4
<1> QED BY <1>1, <1>2, <1>3, <1>5 DEF BuildRootsTypeOK

LEMMA InvCountersSound == ASSUME Inv PROVE CountersSound
<1>1. ASSUME NEW w \in Worker, At(w, "dec", "locked") PROVE refcount[RootOf(w)] > 0
  <2>1. stack[w] # <<>>
    BY <1>1 DEF At
  <2>2. RootOf(w) \in Root
    BY <2>1, TopIs DEF Inv
  <2>3. w \in DecRefs(RootOf(w))
    BY <1>1 DEF DecRefs
  <2> QED BY <2>2, <2>3, HeldCounts
<1>2. ASSUME NEW w \in Worker, NEW op \in {"restore", "run"}, NEW at, At(w, op, at), at # "end"
      PROVE  refcount[RootOf(w)] > 0
  BY <1>2, OwnHeld
<1>3. ASSUME NEW w \in Worker, At(w, "restore", "fill") PROVE refcount[RootOf(w)] > 0
  BY <1>2, <1>3
<1>4. ASSUME NEW w \in Worker, At(w, "run", "publish") PROVE refcount[RootOf(w)] > 0
  BY <1>2, <1>4
<1>5. ASSUME NEW w \in Worker, At(w, "run", "for local") PROVE refcount[RootOf(w)] > 0
  <2>1. PICK at : at = "for local"
    OBVIOUS
  <2>2. At(w, "run", at) /\ at # "end"
    BY <1>5, <2>1, Zenon
  <2> QED BY <1>2, <2>2
<1> QED BY <1>1, <1>3, <1>4, <1>5, Zenon DEF CountersSound

(* The kinds of calls that use a root. *)
LEMMA UsesOf ==
  ASSUME NEW f, NEW r \in Uses(f)
  PROVE  \/ (f.op = "put local" \/ f.op = "put dist") /\ f.at = "begin" /\ r = f.root
         \/ (f.op = "restore" \/ f.op = "run") /\ f.at # "end" /\ r = f.root
         \/ f.op = "run" /\ r \in f.todo
         \/ f.op = "result" /\ f.at = "begin"
              /\ r \in IF Eager THEN ok \cap {f.root} ELSE OkRoots(f.root[1])
BY DEF Uses

(* A root that a call uses has a reference left. *)
LEMMA UsedCounts ==
  ASSUME Inv, NEW f \in Live, NEW r \in Uses(f)
  PROVE  r \in Root /\ refcount[r] > 0
<1>1. f \in Legal /\ f.root \in Root /\ \A g \in Live : Same(f, g) => g = f
  <2>1. f \in Legal /\ \A g \in Live : Same(f, g) => g = f
    BY LiveOne DEF Inv
  <2> QED BY <2>1, LegalShape DEF Shape
<1>2. T(f.op, f.root) \in made /\ T(f.op, f.root) \notin over /\ MadeOK(T(f.op, f.root))
  BY DEF Inv, LiveMade, MadeGood
<1>3. T(f.op, f.root).op = f.op /\ T(f.op, f.root).root = f.root
  BY DEF T
<1>4. \A S : Past(f.op, f.root, S) => f.at \in S
  BY <1>1, <1>2 DEF Past, Holds, Same
<1>5. CASE f.op = "put local" /\ f.at = "begin" /\ r = f.root
  <2>1. Within(f.op, r, {"begin"})
    BY <1>1, <1>5, Zenon DEF Within, Same
  <2>2. LocalHeld(f.op, r)
    BY <1>2, <1>5, <2>1, Zenon DEF LocalHeld, Waits
  <2>3. f.op \in Ops
    BY <1>1, LegalShape
  <2>4. LocalRefs(r) # {}
    BY <2>2, <2>3 DEF LocalRefs
  <2>5. r \in Root
    BY <1>1, <1>5, Zenon
  <2> QED BY <2>4, <2>5, HeldCounts
<1>6. CASE f.op = "put dist" /\ f.at = "begin" /\ r = f.root
  <2>1. Within(f.op, r, {"begin"})
    BY <1>1, <1>6, Zenon DEF Within, Same
  <2>2. DistHeld(f.op, r)
    BY <1>2, <1>6, <2>1, Zenon DEF DistHeld, Waits
  <2>3. f.op \in Ops
    BY <1>1, LegalShape
  <2>4. DistRefs(r) # {}
    BY <2>2, <2>3 DEF DistRefs
  <2>5. r \in Root
    BY <1>1, <1>6, Zenon
  <2> QED BY <2>4, <2>5, HeldCounts
<1>7. CASE (f.op = "restore" \/ f.op = "run") /\ f.at # "end" /\ r = f.root
  <2>1. r \in Root /\ r[2] = f.op
    BY <1>1, <1>7, LegalShape
  <2>2. Takers(r) # {}
    BY <1>2, <1>3, <1>7 DEF MadeOK
  <2>3. ASSUME NEW u, <<r, u>> \in took PROVE FALSE
    <3>1. TookOK(<<r, u>>[1], <<r, u>>[2])
      BY <2>3 DEF Inv, TookGood
    <3>2. Past(r[2], r, {"end"})
      BY <3>1 DEF TookOK
    <3> QED BY <3>2, <2>1, <1>4, <1>7
  <2>4. TakeRefs(r) # {}
    BY <2>2, <2>3 DEF TakeRefs
  <2> QED BY <2>1, <2>4, HeldCounts
<1>8. CASE f.op = "run" /\ r \in f.todo
  <2>1. PICK u : u = f.root[1]
    OBVIOUS
  <2>2. f.root = <<u, "run">> /\ u \in Node
    <3>1. f.root[2] = "run"
      BY <1>1, <1>8, LegalShape
    <3> QED BY <2>1, <3>1, <1>1 DEF Root
  <2>3. r \in ok /\ r[1] \in Deps[u]
    BY <1>8, <2>1 DEF Inv, TookGood
  <2>4. r \in Root /\ u \in Takers(r)
    BY <2>2, <2>3 DEF Inv, OkGood, Takers, Consumers
  <2>5. ASSUME <<r, u>> \in took PROVE FALSE
    <3>1. TookOK(<<r, u>>[1], <<r, u>>[2])
      BY <2>5 DEF Inv, TookGood
    <3> QED BY <3>1, <2>2, <1>8 DEF TookOK
  <2>6. TakeRefs(r) # {}
    BY <2>4, <2>5 DEF TakeRefs
  <2> QED BY <2>4, <2>6, HeldCounts
<1>9. CASE f.op = "result" /\ f.at = "begin"
             /\ r \in IF Eager THEN ok \cap {f.root} ELSE OkRoots(f.root[1])
  <2>1. f.root[1] \in Result /\ (~ Eager => f.root[2] = "run")
    BY <1>2, <1>3, <1>9 DEF MadeOK
  <2>2. r \in ok /\ r \in Root
    BY <1>9 DEF Inv, OkGood, OkRoots
  <2>3. f.root = IF Eager THEN r ELSE <<r[1], "run">>
    BY <1>1, <1>9, <2>1 DEF OkRoots, Root
  <2>4. r[1] \in Result
    BY <1>9, <2>1, <2>3 DEF OkRoots
  <2>5. "result" \in Takers(r)
    BY <2>4 DEF Takers
  <2>6. ASSUME <<r, "result">> \in took PROVE FALSE
    <3>1. TookOK(<<r, "result">>[1], <<r, "result">>[2])
      BY <2>6 DEF Inv, TookGood
    <3>2. Past("result", IF Eager THEN r ELSE <<r[1], "run">>, {"end"})
      BY <3>1 DEF TookOK
    <3> QED BY <3>2, <2>3, <1>4, <1>9
  <2>7. TakeRefs(r) # {}
    BY <2>5, <2>6 DEF TakeRefs
  <2> QED BY <2>2, <2>7, HeldCounts
<1>10. \/ (f.op = "put local" \/ f.op = "put dist") /\ f.at = "begin" /\ r = f.root
       \/ (f.op = "restore" \/ f.op = "run") /\ f.at # "end" /\ r = f.root
       \/ f.op = "run" /\ r \in f.todo
       \/ f.op = "result" /\ f.at = "begin"
            /\ r \in IF Eager THEN ok \cap {f.root} ELSE OkRoots(f.root[1])
  BY UsesOf, Zenon
<1> QED BY <1>5, <1>6, <1>7, <1>8, <1>9, <1>10, Zenon

LEMMA InvNoUseAfterDelete == ASSUME Inv PROVE NoUseAfterDelete
<1> SUFFICES ASSUME NEW w \in Worker, NEW i \in DOMAIN stack[w], NEW r \in Uses(stack[w][i])
             PROVE  r \notin deleted /\ \A v \in Worker : At(v, "dec", "delete") => RootOf(v) # r
  BY DEF NoUseAfterDelete
<1>1. PICK f : f = stack[w][i]
  OBVIOUS
<1>2. r \in Uses(f)
  BY <1>1
<1>3. f.op # "dec"
  BY <1>2, UsesOf, Zenon
<1>4. f \in Live
  BY <1>1, <1>3, LiveIn
<1>5. r \in Root /\ refcount[r] > 0
  BY <1>2, <1>4, UsedCounts
<1> QED BY <1>5 DEF Inv, Dead

-----------------------------------------------------------------------------
(* A good root whose counter is at zero is deleted, or somebody is about   *)
(* to compare or to delete.                                                *)
Ending(w) == At(w, "dec", "compare") \/ At(w, "dec", "delete")
Gone == \A r \in ok : refcount[r] = 0 => r \in deleted \/ \E w \in Worker : Ending(w) /\ RootOf(w) = r

(* A step that is not of dec and brings no counter to zero. *)
LEMMA GoneStays ==
  ASSUME Inv, Gone, NEW w \in Worker, ~ Ending(w), NEW s, stack' = [stack EXCEPT ![w] = s],
         \A r \in ok' : refcount'[r] = 0 => r \in ok /\ refcount[r] = 0, deleted \subseteq deleted'
  PROVE  Gone'
<1>1. \A v \in Worker \ {w} : stack'[v] = stack[v]
  BY DEF Inv, Stacks
<1>2. \A v \in Worker : Ending(v) => Ending(v)' /\ RootOf(v)' = RootOf(v)
  BY <1>1 DEF Ending, At, RootOf, Top
<1>3. ASSUME NEW r \in ok', refcount'[r] = 0
      PROVE  r \in deleted' \/ \E v \in Worker : Ending(v)' /\ RootOf(v)' = r
  <2>1. r \in deleted \/ \E v \in Worker : Ending(v) /\ RootOf(v) = r
    BY <1>3 DEF Gone
  <2> QED BY <2>1, <1>2
<1> QED BY <1>3 DEF Gone

(* A step that is taken by a call of a task is not of dec. *)
LEMMA NotEnding ==
  ASSUME NEW w \in Worker, NEW op, op # "dec", NEW at, At(w, op, at)
  PROVE  ~ Ending(w)
BY DEF Ending, At

(* The steps that touch neither the counters nor the good roots. *)
LEMMA GoneKept ==
  ASSUME Inv, Gone, NEW w \in Worker,
         \/ Start(w) \/ End(w) \/ Create(w) \/ RestoreMiss(w) \/ RestoreForward(w) \/ RunLook(w)
         \/ Steal(w) \/ AddWrite(w) \/ EagerResult(w) \/ WriteThrough(w) \/ PutInCache(w)
         \/ LinkResult(w)
  PROVE  Gone'
<1>1. ASSUME NEW s, stack' = [stack EXCEPT ![w] = s], UNCHANGED <<refcount, ok, deleted>>, ~ Ending(w)
      PROVE  Gone'
  BY <1>1, GoneStays
<1>2. CASE Start(w)
  <2>1. ~ Ending(w)
    BY <1>2 DEF Start, Ending, At
  <2> QED BY <1>1, <1>2, <2>1 DEF Start, rootVars
<1>3. CASE End(w)
  <2>1. ~ Ending(w)
    BY <1>3 DEF End, Ending, At, Top
  <2> QED BY <1>1, <1>3, <2>1 DEF End, rootVars
<1>4. CASE Create(w)
  <2>1. ~ Ending(w)
    BY <1>4, NotEnding DEF Create
  <2> QED BY <1>1, <1>4, <2>1 DEF Create, Step, Go
<1>5. CASE RestoreMiss(w)
  <2>1. ~ Ending(w)
    BY <1>5, NotEnding DEF RestoreMiss
  <2> QED BY <1>1, <1>5, <2>1 DEF RestoreMiss, Step, Go, rootVars
<1>6. CASE RestoreForward(w)
  <2>1. \E at : At(w, "restore", at)
    BY <1>6, Zenon DEF RestoreForward
  <2>2. ~ Ending(w)
    BY <2>1, NotEnding
  <2>3. (\E s : stack' = [stack EXCEPT ![w] = s]) /\ UNCHANGED rootVars
    BY <1>6, Zenon DEF RestoreForward, Add, Go
  <2> QED BY <1>1, <2>2, <2>3 DEF rootVars
<1>7. CASE RunLook(w)
  <2>1. ~ Ending(w)
    BY <1>7, NotEnding DEF RunLook
  <2> QED BY <1>1, <1>7, <2>1 DEF RunLook, rootVars
<1>8. CASE Steal(w)
  <2>1. ~ Ending(w)
    BY <1>8, NotEnding DEF Steal
  <2> QED BY <1>1, <1>8, <2>1 DEF Steal
<1>9. CASE AddWrite(w)
  <2>1. \E at : At(w, "run", at)
    BY <1>9, Zenon DEF AddWrite
  <2>2. ~ Ending(w)
    BY <2>1, NotEnding
  <2>3. (\E s : stack' = [stack EXCEPT ![w] = s]) /\ UNCHANGED rootVars
    BY <1>9, Zenon DEF AddWrite, Add, Go
  <2> QED BY <1>1, <2>2, <2>3 DEF rootVars
<1>10. CASE EagerResult(w)
  <2>1. ~ Ending(w)
    BY <1>10, NotEnding DEF EagerResult
  <2>2. (\E s : stack' = [stack EXCEPT ![w] = s]) /\ UNCHANGED rootVars
    BY <1>10, Zenon DEF EagerResult, Add, Step, Go
  <2> QED BY <1>1, <2>1, <2>2 DEF rootVars
<1>11. CASE WriteThrough(w)
  <2>1. \E at : At(w, "write", at)
    BY <1>11, Zenon DEF WriteThrough
  <2>2. ~ Ending(w)
    BY <2>1, NotEnding
  <2>3. (\E s : stack' = [stack EXCEPT ![w] = s]) /\ UNCHANGED rootVars
    BY <1>11, Zenon DEF WriteThrough, Add, Step, Go
  <2> QED BY <1>1, <2>2, <2>3 DEF rootVars
<1>12. CASE PutInCache(w)
  <2>1. \E op \in {"put local", "put dist"} : \E at : At(w, op, at)
    BY <1>12, Zenon DEF PutInCache
  <2>2. \A op \in {"put local", "put dist"} : op # "dec"
    OBVIOUS
  <2>3. ~ Ending(w)
    <3>1. \E op, at : op # "dec" /\ At(w, op, at)
      BY <2>1, <2>2, Zenon
    <3> QED BY <3>1, NotEnding
  <2>4. (\E s : stack' = [stack EXCEPT ![w] = s]) /\ UNCHANGED rootVars
    BY <1>12, Zenon DEF PutInCache, Go
  <2> QED BY <1>1, <2>3, <2>4 DEF rootVars
<1>13. CASE LinkResult(w)
  <2>1. ~ Ending(w)
    BY <1>13, NotEnding DEF LinkResult
  <2>2. \E s : stack' = [stack EXCEPT ![w] = s]
    BY <1>13, Zenon DEF LinkResult, Step, Go
  <2>3. UNCHANGED <<refcount, ok, deleted>>
    BY <1>13 DEF LinkResult
  <2> QED BY <1>1, <2>1, <2>2, <2>3
<1> QED BY <1>2, <1>3, <1>4, <1>5, <1>6, <1>7, <1>8, <1>9, <1>10, <1>11, <1>12, <1>13

(* The steps that make a root good or add a reference: the root is held.   *)
LEMMA GoneGrows ==
  ASSUME Inv, Gone, NEW w \in Worker,
         RestoreHit(w) \/ RunCached(w) \/ Execute(w) \/ Publish(w)
  PROVE  Gone'
<1>1. ASSUME NEW op \in {"restore", "run"}, NEW at, At(w, op, at), at # "end",
             NEW s, stack' = [stack EXCEPT ![w] = s],
             ok' = ok \/ ok' = ok \cup {RootOf(w)}, UNCHANGED refcount \/ Inc(w), UNCHANGED deleted
      PROVE  Gone'
  <2>1. ~ Ending(w)
    BY <1>1, NotEnding
  <2>2. refcount[RootOf(w)] > 0 /\ RootOf(w) \in Root
    <3>1. stack[w] # <<>>
      BY <1>1 DEF At
    <3> QED BY <3>1, <1>1, OwnHeld, TopIs DEF Inv
  <2>3. ok \subseteq Root /\ \A r \in Root : refcount[r] \in Nat
    <3>1. ok \subseteq Root
      BY DEF Inv, OkGood
    <3> QED BY <3>1, HeldCounts
  <2>4. \A r \in Root : refcount'[r] = refcount[r] \/ (r = RootOf(w) /\ refcount'[r] > 0)
    <3>1. CASE UNCHANGED refcount
      BY <3>1
    <3>2. CASE Inc(w)
      <4>1. refcount \in [Root -> Int]
        BY DEF Inv
      <4> QED BY <3>2, <4>1, <2>2, <2>3 DEF Inc
    <3> QED BY <1>1, <3>1, <3>2
  <2>5. \A r \in ok' : refcount'[r] = 0 => r \in ok /\ refcount[r] = 0
    BY <1>1, <2>2, <2>3, <2>4
  <2> QED BY <1>1, <2>1, <2>5, GoneStays
<1>2. CASE RestoreHit(w)
  <2>1. /\ At(w, "restore", "fill") /\ ok' = ok \cup {RootOf(w)} /\ deleted' = deleted
        /\ UNCHANGED refcount \/ Inc(w)
        /\ \E s : stack' = [stack EXCEPT ![w] = s]
    BY <1>2, Zenon DEF RestoreHit, Step, Go
  <2> QED BY <1>1, <2>1
<1>3. CASE RunCached(w)
  BY <1>1, <1>3 DEF RunCached, Step, Go
<1>4. CASE Execute(w)
  <2>1. /\ At(w, "run", "steal") /\ deleted' = deleted /\ UNCHANGED refcount
        /\ ok' = ok \/ ok' = ok \cup {RootOf(w)}
        /\ \E s : stack' = [stack EXCEPT ![w] = s]
    BY <1>4, Zenon DEF Execute, Step, Go
  <2> QED BY <1>1, <2>1
<1>5. CASE Publish(w)
  <2>1. PICK here : here = "for local"
    OBVIOUS
  <2>2. /\ At(w, "run", "publish") \/ At(w, "run", here)
        /\ ok' = ok /\ deleted' = deleted /\ (UNCHANGED refcount \/ Inc(w))
        /\ \E s : stack' = [stack EXCEPT ![w] = s]
    BY <1>5, <2>1, Zenon DEF Publish, Step, Go
  <2>3. here # "end"
    BY <2>1
  <2>4. PICK s : stack' = [stack EXCEPT ![w] = s]
    BY <2>2
  <2>5. PICK op \in {"restore", "run"} : op = "run"
    OBVIOUS
  <2>6. PICK at : (at = here \/ at = "publish") /\ At(w, op, at)
    BY <2>2, <2>5
  <2>7. at # "end"
    BY <2>3, <2>6
  <2> QED BY <1>1, <2>2, <2>4, <2>6, <2>7
<1> QED BY <1>2, <1>3, <1>4, <1>5

(* The steps of dec. *)
LEMMA GoneByDec ==
  ASSUME Inv, Gone, NEW w \in Worker, Subtract(w) \/ Compare(w) \/ Delete(w)
  PROVE  Gone'
<1>1. PICK x : x = RootOf(w)
  OBVIOUS
<1>2. /\ stack[w] # <<>> /\ Top(w).op = "dec" /\ ok' = ok /\ ok \subseteq Root
      /\ refcount \in [Root -> Int] /\ stack \in [Worker -> Seq(Frames)]
  <2>1. stack[w] # <<>> /\ Top(w).op = "dec" /\ ok' = ok
    BY DEF Subtract, Compare, Delete, At, Top, rootVars
  <2> QED BY <2>1 DEF Inv, OkGood, Stacks, Frames
<1>3. ASSUME NEW s, stack' = [stack EXCEPT ![w] = s]
      PROVE  /\ \A v \in Worker \ {w} : stack'[v] = stack[v]
             /\ stack'[w] = s
             /\ \A v \in Worker \ {w} : Ending(v) => Ending(v)' /\ RootOf(v)' = RootOf(v)
  <2>1. stack'[w] = s /\ \A v \in Worker \ {w} : stack'[v] = stack[v]
    BY <1>2, <1>3
  <2> QED BY <2>1 DEF Ending, At, RootOf, Top
<1>4. ASSUME NEW r \in ok, r # x, \A v \in Worker \ {w} : Ending(v) => Ending(v)' /\ RootOf(v)' = RootOf(v),
             deleted \subseteq deleted', refcount'[r] = 0, refcount'[r] = refcount[r]
      PROVE  r \in deleted' \/ \E v \in Worker : Ending(v)' /\ RootOf(v)' = r
  <2>1. r \in deleted \/ \E v \in Worker : Ending(v) /\ RootOf(v) = r
    BY <1>4 DEF Gone
  <2> QED BY <2>1, <1>1, <1>4
<1>5. CASE Subtract(w)
  <2>1. PICK g : g = [Top(w) EXCEPT !.at = "compare"]
    OBVIOUS
  <2>2. stack' = [stack EXCEPT ![w] = <<g>> \o Tail(stack[w])]
    <3>1. <<>> \o <<g>> = <<g>>
      OBVIOUS
    <3> QED BY <1>5, <2>1, <3>1 DEF Subtract, Step, Go
  <2>3. Top(w) \in LegalDec
    BY <1>2, TopIs DEF Inv
  <2>4. g.op = "dec" /\ g.at = "compare" /\ g.root = x
    BY <2>1, <2>3, <1>1, <1>2 DEF LegalDec, RootOf
  <2>5. stack'[w] = <<g>> \o Tail(stack[w])
    BY <2>2, <1>3
  <2>6. stack'[w] # <<>> /\ Head(stack'[w]) = g
    <3>1. Tail(stack[w]) \in Seq(Frames)
      BY <1>2
    <3>2. g \in Frames
      BY <2>1, <2>3 DEF LegalDec, Frames
    <3> QED BY <2>5, <3>1, <3>2
  <2>7. Ending(w)' /\ RootOf(w)' = x
    BY <2>4, <2>6 DEF Ending, At, RootOf, Top
  <2>8. \A r \in ok : r # x => refcount'[r] = refcount[r]
    BY <1>1, <1>2, <1>5 DEF Subtract
  <2>9. deleted' = deleted
    BY <1>5 DEF Subtract
  <2> QED BY <1>2, <1>3, <1>4, <2>2, <2>7, <2>8, <2>9 DEF Gone
<1>6. CASE Compare(w)
  <2>1. deleted' = deleted /\ refcount' = refcount
    BY <1>6 DEF Compare, rootVars
  <2>2. CASE refcount[x] = 0
    <3>1. PICK g : g = [Top(w) EXCEPT !.at = "delete"]
      OBVIOUS
    <3>2. stack' = [stack EXCEPT ![w] = <<g>> \o Tail(stack[w])]
      <4>1. <<>> \o <<g>> = <<g>>
        OBVIOUS
      <4> QED BY <1>1, <1>6, <2>2, <3>1, <4>1 DEF Compare, Step, Go
    <3>3. Top(w) \in LegalDec
      BY <1>2, TopIs DEF Inv
    <3>4. g.op = "dec" /\ g.at = "delete" /\ g.root = x
      BY <3>1, <3>3, <1>1, <1>2 DEF LegalDec, RootOf
    <3>5. stack'[w] = <<g>> \o Tail(stack[w])
      BY <3>2, <1>3
    <3>6. stack'[w] # <<>> /\ Head(stack'[w]) = g
      <4>1. Tail(stack[w]) \in Seq(Frames)
        BY <1>2
      <4>2. g \in Frames
        BY <3>1, <3>3 DEF LegalDec, Frames
      <4> QED BY <3>5, <4>1, <4>2
    <3>7. Ending(w)' /\ RootOf(w)' = x
      BY <3>4, <3>6 DEF Ending, At, RootOf, Top
    <3> QED BY <1>2, <1>3, <1>4, <2>1, <3>2, <3>7 DEF Gone
  <2>3. CASE refcount[x] # 0
    <3>1. stack' = [stack EXCEPT ![w] = Tail(stack[w])]
      BY <1>1, <1>6, <2>3 DEF Compare
    <3> QED BY <1>2, <1>3, <1>4, <2>1, <2>3, <3>1 DEF Gone
  <2> QED BY <2>2, <2>3
<1>7. CASE Delete(w)
  <2>1. deleted' = deleted \cup {x} /\ refcount' = refcount
        /\ stack' = [stack EXCEPT ![w] = Tail(stack[w])]
    BY <1>1, <1>7 DEF Delete
  <2> QED BY <1>2, <1>3, <1>4, <2>1 DEF Gone
<1> QED BY <1>5, <1>6, <1>7

LEMMA NextGone == ASSUME Inv, Gone, [Next]_vars PROVE Gone'
<1>1. CASE UNCHANGED vars
  <2>1. stack' = stack /\ refcount' = refcount /\ ok' = ok /\ deleted' = deleted
    BY <1>1 DEF vars, rootVars
  <2> QED BY <2>1 DEF Gone, Ending, At, RootOf, Top
<1>2. ASSUME NEW w \in Worker, WorkerStep(w) PROVE Gone'
  BY <1>2, GoneKept, GoneGrows, GoneByDec DEF WorkerStep
<1> QED BY <1>1, <1>2 DEF Next, Terminated

LEMMA InvDeletedWhenTaken == ASSUME Inv, Gone PROVE DeletedWhenTaken
<1> SUFFICES ASSUME Quiet
             PROVE  deleted = {r \in ok : /\ \A c \in Consumers(r[1]) : <<r, c>> \in took
                                          /\ r[1] \in Result => <<r, "result">> \in took}
  BY DEF DeletedWhenTaken
<1>1. made = over /\ Live = {} /\ \A w \in Worker : stack[w] = <<>>
  <2>1. made = over /\ \A w \in Worker : stack[w] = <<>>
    BY DEF Quiet
  <2> QED BY <2>1, LiveIn
<1>2. \A w \in Worker : ~ Ending(w) /\ ~ At(w, "dec", "locked")
  BY <1>1 DEF Ending, At
<1>3. ASSUME NEW r \in Root
      PROVE  DecRefs(r) = {} /\ LocalRefs(r) = {} /\ DistRefs(r) = {}
  <2>1. \A op, S : ~ Holds(op, r, S) /\ ~ Waits(op, r, S)
    BY <1>1 DEF Holds, Waits
  <2>2. \A op : ~ LocalHeld(op, r) /\ ~ DistHeld(op, r)
    BY <2>1, Zenon DEF LocalHeld, DistHeld
  <2> QED BY <1>2, <2>2 DEF DecRefs, LocalRefs, DistRefs
<1>4. ok \subseteq Root /\ deleted \subseteq ok
  BY DEF Inv, OkGood, Dead
<1>5. ASSUME NEW r \in ok PROVE r \in deleted <=> TakeRefs(r) = {}
  <2>1. refcount[r] > 0 <=> TakeRefs(r) # {}
    BY <1>3, <1>4, HeldCounts
  <2>2. refcount[r] \in Nat
    BY <1>4, HeldCounts
  <2>3. r \in deleted <=> refcount[r] = 0
    BY <1>2 DEF Inv, Dead, Gone
  <2> QED BY <2>1, <2>2, <2>3
<1>6. ASSUME NEW r \in ok
      PROVE  TakeRefs(r) = {} <=> /\ \A c \in Consumers(r[1]) : <<r, c>> \in took
                                  /\ r[1] \in Result => <<r, "result">> \in took
  BY DEF TakeRefs, Takers
<1> QED BY <1>4, <1>5, <1>6

(* BuildRootsTypeOK: the counters, the marks and the calls of the workers  *)
(* are what the code can have in build_root.py.                            *)
THEOREM BuildRootsTypeCorrect == Spec => []BuildRootsTypeOK
BY ReferencesHeld, InvTypeOK, PTL

(* CountersSound: whatever the graph, the caches and the order of the      *)
(* workers, dec finds a reference to give up and inc comes before the last *)
(* dec, so that BuildRoot raises neither of its two exceptions.            *)
THEOREM CountersSoundHolds == Spec => []CountersSound
BY ReferencesHeld, InvCountersSound, PTL

(* NoUseAfterDelete: no task reads or fills a root that another one has    *)
(* deleted or is about to delete, though dec compares outside its lock.    *)
THEOREM NoUseAfterDeleteHolds == Spec => []NoUseAfterDelete
BY ReferencesHeld, InvNoUseAfterDelete, PTL

(* DeletedWhenTaken: when the tasks have ended, the root of a good node is *)
(* gone if and only if its consumers and the result have all taken it.     *)
THEOREM DeletedWhenTakenHolds == Spec => []DeletedWhenTaken
<1>1. Init => Gone
  BY DEF Init, Gone
<1>2. Inv /\ Gone /\ [Next]_vars => Gone'
  BY NextGone
<1>3. Inv /\ Gone => DeletedWhenTaken
  BY InvDeletedWhenTaken
<1> QED BY <1>1, <1>2, <1>3, ReferencesHeld, PTL DEF Spec
=============================================================================
