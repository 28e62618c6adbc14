-------------------------- MODULE PrepareNodesProofs --------------------------
(***************************************************************************)
(* Theorems about PrepareNodes, for every acyclic graph, every answer of   *)
(* the caches and any number of threads.  The inductive invariant says     *)
(* where each node of the preparation is (in a batch, at a thread, or      *)
(* scheduled), what the threads hold, who will still answer a callback,    *)
(* and what the tasks of a node tell of each other.  Of the Topo it keeps  *)
(* TopoInv, proved in TopoProofs.                                          *)
(***************************************************************************)
EXTENDS PrepareNodes, TopoProofs

-----------------------------------------------------------------------------
(* What a thread of the pool is doing: at the bottom of its calls is the   *)
(* batch, above it are the callbacks.                                      *)
Busy(th)   == stack[th] # <<>>
Bottom(th) == stack[th][Len(stack[th])]
Calls(th)  == {stack[th][i] : i \in DOMAIN stack[th]}
Todo(th)   == IF Busy(th) THEN Bottom(th).todo ELSE {}
New(th)    == IF Busy(th) THEN Bottom(th).new ELSE {}
Owns(th)   == IF Busy(th) /\ Bottom(th).at # "next" THEN {Bottom(th).node} ELSE {}

-----------------------------------------------------------------------------
(* The types. *)

Kinds == {"restore", "run", "prepare"}

BatchFrames ==
  [op : {"batch"}, todo : SUBSET Node, new : SUBSET Node, node : Node \cup {None},
   at : {"next", "restore", "run", "add", "link", "schedule"}, deps : SUBSET Node,
   dep : Node \cup {None}]
CallFrames == [op : {"fire"}, nodes : SUBSET Node] \cup [op : {"notify"}, node : Node]
ExecFrames == [op : {"exec"}, node : Node, deps : SUBSET Node]

LoopTyped ==
  /\ toProcess \in SUBSET Node /\ seen \in SUBSET Node /\ found \in SUBSET Node
  /\ batches \in SUBSET (SUBSET Node)
  /\ failed \in BOOLEAN /\ done \in {"loop", "failed", "planned"}
  /\ resolved \in [Node -> Nat]
  /\ callback \in [Node -> {"notify", "add_run_node", None}]

TasksTyped ==
  /\ task \in [Node -> Kinds \cup {None}]
  /\ joint \in [Node -> SUBSET {"restore", "run"}]
  /\ begun \in SUBSET (Node \X Kinds)
  /\ stopped \in BOOLEAN

StackTyped ==
  /\ stack \in [Thread -> Seq(BatchFrames \cup CallFrames \cup ExecFrames)]
  /\ \A th \in Pool : Busy(th) =>
       /\ Bottom(th) \in BatchFrames
       /\ \A i \in 1 .. Len(stack[th]) - 1 : stack[th][i] \in CallFrames
       /\ Len(stack[th]) > 1 => Bottom(th).at = "next"
  /\ \A r \in Runner : Busy(r) => Len(stack[r]) = 1 /\ stack[r][1] \in ExecFrames

Alone == \A n \in Node : group[n] \subseteq {n}

-----------------------------------------------------------------------------
(* A node that was seen is in one batch, or in what one thread still has   *)
(* to consider, or was considered, once; then one thread has it until it   *)
(* is scheduled.                                                           *)
Placed ==
  /\ \A B \in batches : \A n \in B : n \in seen /\ resolved[n] = 0
  /\ \A th \in Pool : \A n \in Todo(th) : n \in seen /\ resolved[n] = 0
  /\ \A th \in Pool : \A n \in Owns(th) :
       n \in seen /\ resolved[n] = 1 /\ n \notin scheduled
  /\ \A n \in scheduled : n \in seen /\ resolved[n] = 1
  /\ \A n \in Node : resolved[n] = 0 \/ (resolved[n] = 1 /\ n \in seen)

OnePlace ==
  /\ \A A, B \in batches : A # B => A \cap B = {}
  /\ \A th \in Pool, B \in batches : B \cap Todo(th) = {}
  /\ \A t1, t2 \in Pool : t1 # t2 => Todo(t1) \cap Todo(t2) = {}
  /\ \A t1, t2 \in Pool : t1 # t2 => Owns(t1) \cap Owns(t2) = {}

(* Only nodes of tp are seen; before the first batch there are the results.*)
Found ==
  /\ seen \subseteq added /\ found \subseteq added
  /\ toProcess \subseteq added \cup Result
  /\ \A th \in Pool : \A n \in New(th) :
       n \in added \/ (Bottom(th).at = "add" /\ n = Bottom(th).dep)
  /\ Result \subseteq seen \cup toProcess
  /\ seen = {} => /\ toProcess = Result /\ found = {} /\ batches = {}
                  /\ \A th \in Pool : ~ Busy(th)

(* Unless a thread failed, no node is lost on its way.                     *)
NoneLost ==
  ~ failed =>
    /\ \A n \in seen :
         \/ n \in scheduled \/ \E B \in batches : n \in B
         \/ \E th \in Pool : n \in Todo(th) \cup Owns(th)
    /\ \A n \in added : \/ n \in seen \cup toProcess \cup found
                        \/ \E th \in Pool : n \in New(th)

(* The loop ends when nothing is left anywhere.                            *)
LoopDone ==
  done = "planned" =>
    /\ toProcess = {} /\ found = {} /\ batches = {} /\ ~ failed
    /\ Result \subseteq seen /\ \A th \in Pool : ~ Busy(th)

(* The dependencies of a node in tp are those its thread has linked; one   *)
(* with a callback has all of them, or a task that needs none.             *)
LinkedAt(th) ==
  LET b == Bottom(th)
  IN  /\ b.at # "next" => b.node \in Node
      /\ b.at \in {"run", "add", "link"} =>
           b.deps \subseteq Deps[b.node] /\ deps[b.node] = Deps[b.node] \ b.deps
      /\ b.at \in {"add", "link"} => b.dep \in b.deps
      /\ b.at = "link" => b.dep \in added
      /\ b.at = "add" => b.dep \in b.new
      /\ b.at = "schedule" => task[b.node] # None
Linked ==
  /\ \A th \in Pool : Busy(th) => LinkedAt(th)
  /\ \A n \in Node : deps[n] \subseteq Deps[n] /\ (resolved[n] = 0 => deps[n] = {})
  /\ \A n \in Node : callback[n] = None <=> n \notin scheduled
  /\ \A n \in Node : callback[n] = "add_run_node" => deps[n] = Deps[n]

(* A node notifies when it has its task.                                   *)
Tasked ==
  /\ \A n \in Node : callback[n] = "notify" \/ n \in semi => task[n] # None
  /\ \A th \in Pool : \A c \in Calls(th) :
       /\ c.op = "fire" => \A n \in c.nodes : fired[n] > 0
       /\ c.op = "notify" => task[c.node] # None

(* Unless a thread failed, some thread will run a callback that is due.    *)
Handles(c, n) == (c.op = "fire" /\ n \in c.nodes) \/ (c.op = "notify" /\ n = c.node)
NoCallLost ==
  ~ failed => \A n \in Node : fired[n] > 0 /\ n \notin semi =>
                \E th \in Pool : \E c \in Calls(th) : Handles(c, n)

(* The tasks of a node: one that runs it comes after the tasks of what it  *)
(* depends on, and of all that may still add one there is at most one.     *)
Executes(r, n) == In(r, "exec") /\ Top(r).node = n
OneRunner ==
  /\ \A n \in Node : joint[n] # {} => task[n] \in {"restore", "prepare"}
  /\ \A n \in Node : task[n] = "restore" => "restore" \notin joint[n]
  /\ \A n \in Node : "restore" \in joint[n] => <<n, "prepare">> \in begun
  /\ \A n \in Node : "run" \in joint[n] =>
       ~ Waiting(n, "restore") /\ ~ Waiting(n, "prepare")
  /\ \A r \in Runner, n \in Node : Executes(r, n) =>
       /\ task[n] \in {"restore", "prepare"} /\ "run" \notin joint[n]
       /\ ~ Waiting(n, "restore") /\ ~ Waiting(n, "prepare")
  /\ \A r1, r2 \in Runner, n \in Node : Executes(r1, n) /\ Executes(r2, n) => r1 = r2

DepsTasked ==
  /\ \A n \in Node : task[n] = "run" \/ "run" \in joint[n] =>
       \A x \in Deps[n] : task[x] # None
  /\ \A r \in Runner : In(r, "exec") =>
       /\ Top(r).deps \subseteq Deps[Top(r).node]
       /\ \A x \in Deps[Top(r).node] \ Top(r).deps : task[x] # None

(* Who asked for a node: a result, or some node that was or is found       *)
(* missing needs it.                                                       *)
Walks(th, m) == m \in Owns(th) /\ Bottom(th).at \in {"run", "add", "link"}
AskedBy(n, m) ==
  /\ n \in Deps[m]
  /\ \/ callback[m] = "add_run_node" \/ "run" \in joint[m]
     \/ \E th \in Pool : Walks(th, m)
     \/ \E r \in Runner : Executes(r, m) /\ n \notin Top(r).deps
Asked(n) == n \in Result \/ \E m \in Node : AskedBy(n, m)

AllAsked ==
  /\ stopped => failed
  /\ ~ stopped => \A n \in Node : n \in added \/ task[n] # None => Asked(n)

(* The parts: the walk over the graph, the callbacks, the tasks.           *)
WalkInv == /\ Alone /\ LoopTyped /\ Placed /\ OnePlace /\ Found /\ NoneLost
           /\ LoopDone /\ Linked
CallInv == Tasked /\ NoCallLost
TaskInv == TasksTyped /\ OneRunner /\ DepsTasked

PrepInv == TopoInv /\ StackTyped /\ WalkInv /\ CallInv /\ TaskInv /\ AllAsked

-----------------------------------------------------------------------------
(* What the moves of a thread do to its calls. *)

(* What the other threads do stays. *)
LEMMA OthersStay ==
  ASSUME NEW th, NEW s, StackTyped, stack' = [stack EXCEPT ![th] = s]
  PROVE  \A t \in Thread : t # th =>
           /\ stack'[t] = stack[t] /\ (Busy(t)' <=> Busy(t))
           /\ Bottom(t)' = Bottom(t) /\ Calls(t)' = Calls(t)
           /\ Todo(t)' = Todo(t) /\ New(t)' = New(t) /\ Owns(t)' = Owns(t)
<1> SUFFICES ASSUME NEW t \in Thread, t # th
             PROVE  /\ stack'[t] = stack[t] /\ (Busy(t)' <=> Busy(t))
                    /\ Bottom(t)' = Bottom(t) /\ Calls(t)' = Calls(t)
                    /\ Todo(t)' = Todo(t) /\ New(t)' = New(t) /\ Owns(t)' = Owns(t)
  OBVIOUS
<1>1. stack'[t] = stack[t]
  BY DEF StackTyped
<1> QED BY <1>1 DEF Busy, Bottom, Calls, Todo, New, Owns

(* Sequences of calls. *)
LEMMA SomeCalls ==
  ASSUME NEW S, NEW s \in Seq(S), s # <<>>
  PROVE  /\ Len(s) \in Nat \ {0} /\ DOMAIN s = 1 .. Len(s) /\ Head(s) = s[1]
         /\ Len(s) # 1 => Len(s) > 1 /\ 1 \in 1 .. Len(s) - 1
         /\ Len(s) = 1 => Tail(s) = <<>> /\ DOMAIN s = {1}
<1>1. Len(s) \in Nat \ {0} /\ DOMAIN s = 1 .. Len(s) /\ Head(s) = s[1]
  OBVIOUS
<1>2. ASSUME Len(s) = 1 PROVE Tail(s) = <<>>
  <2>1. Tail(s) \in Seq(S) /\ Len(Tail(s)) = 0
    BY <1>1, <1>2
  <2>2. \A t \in Seq(S) : Len(t) = 0 => t = <<>>
    OBVIOUS
  <2> QED BY <2>1, <2>2, Zenon
<1> QED BY <1>1, <1>2

(* A batch is a thread's only call while it is on top. *)
LEMMA BatchTop ==
  ASSUME StackTyped, NEW th \in Pool, In(th, "batch")
  PROVE  /\ Busy(th) /\ Bottom(th) \in BatchFrames /\ Top(th) = Bottom(th)
         /\ Len(stack[th]) = 1 /\ Tail(stack[th]) = <<>>
         /\ Calls(th) = {Bottom(th)}
<1>1. stack[th] # <<>> /\ stack[th] \in Seq(BatchFrames \cup CallFrames \cup ExecFrames)
  BY DEF StackTyped, In, Thread
<1>2. Len(stack[th]) \in Nat \ {0} /\ Top(th) = stack[th][1]
  BY <1>1 DEF Top
<1>3. stack[th][1] \notin CallFrames
  BY <1>2 DEF In, CallFrames
<1>4. Len(stack[th]) = 1
  <2> SUFFICES ASSUME Len(stack[th]) # 1 PROVE FALSE
    OBVIOUS
  <2>1. 1 \in 1 .. Len(stack[th]) - 1
    BY <1>1, SomeCalls
  <2> QED BY <1>1, <1>3, <2>1 DEF StackTyped, Busy
<1>5. DOMAIN stack[th] = {1} /\ Tail(stack[th]) = <<>>
  BY <1>1, <1>4, SomeCalls
<1>7. Top(th) = Bottom(th) /\ Calls(th) = {Bottom(th)}
  BY <1>2, <1>4, <1>5 DEF Bottom, Calls
<1>8. Busy(th) /\ Bottom(th) \in BatchFrames
  BY <1>1 DEF StackTyped, Busy
<1> QED BY <1>4, <1>5, <1>7, <1>8

(* A callback is above the batch, which waits for it.                      *)
LEMMA CallTop ==
  ASSUME StackTyped, NEW th \in Pool, In(th, "fire") \/ In(th, "notify")
  PROVE  /\ Busy(th) /\ Len(stack[th]) > 1 /\ Bottom(th) \in BatchFrames
         /\ Bottom(th).at = "next" /\ Owns(th) = {}
         /\ Top(th) \in CallFrames /\ Top(th) \in Calls(th)
<1>1. stack[th] # <<>> /\ stack[th] \in Seq(BatchFrames \cup CallFrames \cup ExecFrames)
  BY DEF StackTyped, In, Thread
<1>2. Len(stack[th]) \in Nat \ {0} /\ Top(th) = stack[th][1] /\ 1 \in DOMAIN stack[th]
  BY <1>1 DEF Top
<1>3. stack[th][1] \notin BatchFrames
  BY <1>2 DEF In, BatchFrames
<1>4. Bottom(th) \in BatchFrames
  BY <1>1 DEF StackTyped, Busy
<1>5. Len(stack[th]) > 1
  BY <1>2, <1>3, <1>4 DEF Bottom
<1>6. 1 \in 1 .. Len(stack[th]) - 1
  BY <1>2, <1>5
<1> QED BY <1>1, <1>2, <1>4, <1>5, <1>6 DEF StackTyped, Busy, Calls, Owns

LEMMA CallsTyped ==
  ASSUME StackTyped, NEW th \in Pool, NEW c \in Calls(th)
  PROVE  /\ c \in BatchFrames \cup CallFrames
         /\ c.op = "fire" => c.nodes \in SUBSET Node
         /\ c.op = "notify" => c.node \in Node
<1>1. PICK i \in DOMAIN stack[th] : c = stack[th][i]
  BY DEF Calls
<1>2. stack[th] # <<>> /\ stack[th] \in Seq(BatchFrames \cup CallFrames \cup ExecFrames)
  BY <1>1 DEF StackTyped, Thread
<1>3. Len(stack[th]) \in Nat \ {0} /\ DOMAIN stack[th] = 1 .. Len(stack[th])
  BY <1>2, SomeCalls
<1>4. \A k \in Nat \ {0} : \A j \in 1 .. k : j = k \/ j \in 1 .. k - 1
  OBVIOUS
<1>5. i = Len(stack[th]) \/ i \in 1 .. Len(stack[th]) - 1
  BY <1>1, <1>3, <1>4, Zenon
<1>6. c \in BatchFrames \cup CallFrames
  BY <1>1, <1>2, <1>5 DEF StackTyped, Busy, Bottom
<1> QED BY <1>6 DEF BatchFrames, CallFrames

(* A runner is in one exec_run_node at most. *)
LEMMA ExecTop ==
  ASSUME StackTyped, NEW r \in Runner, In(r, "exec")
  PROVE  /\ Top(r) \in ExecFrames /\ Top(r).node \in Node /\ Top(r).deps \in SUBSET Node
         /\ Deps[Top(r).node] \in SUBSET Node
         /\ Len(stack[r]) = 1 /\ Tail(stack[r]) = <<>>
<1>1. stack[r] # <<>> /\ stack[r] \in Seq(BatchFrames \cup CallFrames \cup ExecFrames)
  BY DEF StackTyped, In, Thread
<1>2. Len(stack[r]) = 1 /\ stack[r][1] \in ExecFrames
  BY <1>1 DEF StackTyped, Busy
<1>3. Head(stack[r]) = stack[r][1] /\ Tail(stack[r]) = <<>>
  BY <1>1, <1>2, SomeCalls
<1> QED BY <1>2, <1>3, GraphAssumption DEF Top, ExecFrames

(* Calls put in place of the top callback: the batch below stays.          *)
LEMMA Replace ==
  ASSUME StackTyped, NEW th \in Pool, In(th, "fire") \/ In(th, "notify"),
         NEW fs \in Seq(CallFrames), Goto(th, fs)
  PROVE  /\ StackTyped' /\ Busy(th)' /\ Bottom(th)' = Bottom(th)
         /\ \A c \in Calls(th) : c # Top(th) => c \in Calls(th)'
         /\ \A i \in 1 .. Len(fs) : fs[i] \in Calls(th)'
         /\ \A c \in Calls(th)' : c \in Calls(th) \/ \E i \in 1 .. Len(fs) : c = fs[i]
<1> DEFINE F == BatchFrames \cup CallFrames \cup ExecFrames
<1> DEFINE s == stack[th]
<1> DEFINE u == stack'[th]
<1>1. /\ s \in Seq(F) /\ Len(s) > 1 /\ Len(s) \in Nat /\ s # <<>>
      /\ Bottom(th).at = "next" /\ Bottom(th) \in BatchFrames
  BY CallTop DEF StackTyped, Thread
<1>2. /\ u = fs \o Tail(s) /\ Len(fs) \in Nat /\ fs \in Seq(F)
      /\ \A t \in Thread : t # th => stack'[t] = stack[t]
      /\ stack' \in [Thread -> Seq(F)]
  <2>1. fs \in Seq(F)
    OBVIOUS
  <2>2. fs \o Tail(s) \in Seq(F)
    BY <1>1, <2>1
  <2> QED BY <2>1, <2>2 DEF Goto, StackTyped, Thread
<1> HIDE DEF s, u, F
<1>3. /\ Len(u) = Len(fs) + Len(s) - 1 /\ u \in Seq(F)
      /\ \A i \in 1 .. Len(fs) : u[i] = fs[i]
      /\ \A i \in Len(fs) + 1 .. Len(u) : u[i] = s[i - Len(fs) + 1]
  BY <1>1, <1>2 DEF F
<1>4. Len(u) > Len(fs) /\ u # <<>> /\ u[Len(u)] = s[Len(s)]
  BY <1>1, <1>2, <1>3
<1>5. Busy(th)' /\ Bottom(th)' = Bottom(th)
  BY <1>4 DEF Busy, Bottom, u, s
<1>6. \A i \in 1 .. Len(u) - 1 : u[i] \in CallFrames
  <2> SUFFICES ASSUME NEW i \in 1 .. Len(u) - 1 PROVE u[i] \in CallFrames
    OBVIOUS
  <2>1. CASE i \in 1 .. Len(fs)
    BY <1>2, <1>3, <2>1
  <2>2. CASE i \in Len(fs) + 1 .. Len(u)
    <3>1. i - Len(fs) + 1 \in 1 .. Len(s) - 1
      BY <1>1, <1>2, <1>3, <2>2
    <3> QED BY <1>1, <1>3, <2>2, <3>1 DEF StackTyped, Busy, s
  <2> QED BY <1>1, <1>2, <1>3, <2>1, <2>2
<1>7. StackTyped'
  <2>1. \A r \in Runner : stack'[r] = stack[r]
    BY <1>2, GraphAssumption DEF Thread
  <2>2. \A t \in Pool : t # th => stack'[t] = stack[t]
    BY <1>2 DEF Thread
  <2>3. /\ Bottom(th)' \in BatchFrames /\ Bottom(th)'.at = "next"
        /\ \A i \in 1 .. Len(stack'[th]) - 1 : stack'[th][i] \in CallFrames
    BY <1>1, <1>5, <1>6 DEF u
  <2> QED BY <1>2, <2>1, <2>2, <2>3 DEF StackTyped, Busy, Bottom, F
<1>8. Calls(th) = {s[i] : i \in 1 .. Len(s)} /\ Calls(th)' = {u[i] : i \in 1 .. Len(u)}
  BY <1>1, <1>3 DEF Calls, s, u
<1>9. \A c \in Calls(th) : c # Top(th) => c \in Calls(th)'
  <2> SUFFICES ASSUME NEW i \in 1 .. Len(s), s[i] # Top(th) PROVE s[i] \in Calls(th)'
    BY <1>8
  <2>1. i # 1
    BY <1>1 DEF Top, s
  <2> DEFINE j == i + Len(fs) - 1
  <2>2. j \in Len(fs) + 1 .. Len(u) /\ j \in 1 .. Len(u) /\ j - Len(fs) + 1 = i
    BY <1>1, <1>2, <1>3, <2>1
  <2> HIDE DEF j
  <2>3. u[j] = s[i]
    BY <1>3, <2>2
  <2> QED BY <1>8, <2>2, <2>3
<1>10. \A i \in 1 .. Len(fs) : fs[i] \in Calls(th)'
  BY <1>2, <1>3, <1>4, <1>8
<1>11. ASSUME NEW c \in Calls(th)' PROVE c \in Calls(th) \/ \E i \in 1 .. Len(fs) : c = fs[i]
  <2>1. PICK i \in 1 .. Len(u) : c = u[i]
    BY <1>8
  <2>2. CASE i \in 1 .. Len(fs)
    BY <1>3, <2>1, <2>2
  <2>3. CASE i \in Len(fs) + 1 .. Len(u)
    <3>1. i - Len(fs) + 1 \in 1 .. Len(s)
      BY <1>1, <1>2, <1>3, <2>3
    <3> QED BY <1>3, <1>8, <2>1, <2>3, <3>1
  <2> QED BY <1>1, <1>2, <1>3, <2>1, <2>2, <2>3
<1> QED BY <1>5, <1>7, <1>9, <1>10, <1>11

(* A batch that goes on, or ends. *)
LEMMA BatchMoves ==
  ASSUME StackTyped, NEW th \in Pool, NEW b \in BatchFrames,
         stack' = [stack EXCEPT ![th] = <<b>>]
  PROVE  StackTyped' /\ Busy(th)' /\ Bottom(th)' = b /\ Calls(th)' = {b}
<1>1. stack'[th] = <<b>> /\ th \in Thread
  BY DEF StackTyped, Thread
<1>2. \A t \in Thread : t # th => stack'[t] = stack[t]
  BY OthersStay
<1>3. Busy(th)' /\ Bottom(th)' = b /\ Len(stack'[th]) = 1
  BY <1>1 DEF Busy, Bottom
<1>4. Calls(th)' = {b}
  BY <1>1 DEF Calls
<1>5. stack' \in [Thread -> Seq(BatchFrames \cup CallFrames \cup ExecFrames)]
  <2>1. <<b>> \in Seq(BatchFrames \cup CallFrames \cup ExecFrames)
    OBVIOUS
  <2> QED BY <2>1 DEF StackTyped
<1>6. \A r \in Runner : r # th /\ r \in Thread
  BY GraphAssumption DEF Thread
<1> QED BY <1>2, <1>3, <1>4, <1>5, <1>6 DEF StackTyped, Busy, Bottom, Thread

LEMMA ThreadStops ==
  ASSUME StackTyped, NEW th \in Pool, stack' = [stack EXCEPT ![th] = <<>>]
  PROVE  StackTyped' /\ ~ Busy(th)' /\ Calls(th)' = {}
<1>1. stack'[th] = <<>> /\ th \in Thread
  BY DEF StackTyped, Thread
<1>2. \A t \in Thread : t # th => stack'[t] = stack[t]
  BY OthersStay
<1>3. stack' \in [Thread -> Seq(BatchFrames \cup CallFrames \cup ExecFrames)]
  <2>1. <<>> \in Seq(BatchFrames \cup CallFrames \cup ExecFrames)
    OBVIOUS
  <2> QED BY <2>1 DEF StackTyped
<1>4. Calls(th)' = {}
  BY <1>1 DEF Calls
<1>5. \A r \in Runner : r # th /\ r \in Thread
  BY GraphAssumption DEF Thread
<1> QED BY <1>1, <1>2, <1>3, <1>4, <1>5 DEF StackTyped, Busy, Bottom, Thread

(* A batch whose node is scheduled, below the callbacks that are due.      *)
LEMMA BatchCalls ==
  ASSUME StackTyped, NEW th \in Pool, NEW b \in BatchFrames, b.at = "next",
         NEW c \in CallFrames, stack' = [stack EXCEPT ![th] = <<c, b>>]
  PROVE  StackTyped' /\ Busy(th)' /\ Bottom(th)' = b /\ Calls(th)' = {c, b}
<1>1. stack'[th] = <<c, b>> /\ th \in Thread
  BY DEF StackTyped, Thread
<1>2. \A t \in Thread : t # th => stack'[t] = stack[t]
  BY OthersStay
<1>3. Busy(th)' /\ Bottom(th)' = b /\ Len(stack'[th]) = 2 /\ stack'[th][1] = c
  BY <1>1 DEF Busy, Bottom
<1>4. Calls(th)' = {c, b}
  BY <1>1 DEF Calls
<1>5. stack' \in [Thread -> Seq(BatchFrames \cup CallFrames \cup ExecFrames)]
  <2>1. <<c, b>> \in Seq(BatchFrames \cup CallFrames \cup ExecFrames)
    OBVIOUS
  <2> QED BY <2>1 DEF StackTyped
<1>6. \A r \in Runner : r # th /\ r \in Thread
  BY GraphAssumption DEF Thread
<1>7. \A i \in 1 .. Len(stack'[th]) - 1 : stack'[th][i] \in CallFrames
  <2>1. \A i \in 1 .. 2 - 1 : i = 1
    OBVIOUS
  <2> QED BY <1>3, <2>1, Zenon
<1> QED BY <1>2, <1>3, <1>4, <1>5, <1>6, <1>7 DEF StackTyped, Busy, Bottom, Thread

-----------------------------------------------------------------------------
(* What a step leaves alone. *)

(* The walk, when a step is about callbacks or tasks. *)
LEMMA WalkStays ==
  ASSUME WalkInv, UNCHANGED <<loopVars, resolved, callback, added, scheduled, deps, group>>,
         \A t \in Pool : (Busy(t)' <=> Busy(t)) /\ Bottom(t)' = Bottom(t),
         \A n \in Node : task[n] # None => task'[n] # None
  PROVE  WalkInv'
<1>1. \A t \in Pool : Todo(t)' = Todo(t) /\ New(t)' = New(t) /\ Owns(t)' = Owns(t)
  BY DEF Todo, New, Owns
<1>2. Alone' /\ LoopTyped' /\ Placed' /\ OnePlace'
  BY <1>1 DEF WalkInv, Alone, LoopTyped, Placed, OnePlace, loopVars
<1>3. Found'
  BY <1>1 DEF WalkInv, Found, loopVars
<1>4. NoneLost' /\ LoopDone'
  BY <1>1 DEF WalkInv, NoneLost, LoopDone, loopVars
<1>5. Linked'
  BY <1>1 DEF WalkInv, Linked, LinkedAt, loopVars
<1> QED BY <1>2, <1>3, <1>4, <1>5 DEF WalkInv

(* The callbacks, when a step hands out none and answers none. *)
LEMMA CallsStay ==
  ASSUME CallInv, StackTyped, UNCHANGED <<semi, fired>>, failed => failed',
         \A t \in Pool : \A c : c.op # "batch" => (c \in Calls(t)' <=> c \in Calls(t)),
         \A n \in Node : task[n] # None => task'[n] # None,
         \A n \in Node : callback'[n] = "notify" => callback[n] = "notify" \/ task'[n] # None
  PROVE  CallInv'
<1>1. Tasked'
  <2>1. \A n \in Node : callback'[n] = "notify" \/ n \in semi' => task'[n] # None
    BY DEF CallInv, Tasked
  <2>2. ASSUME NEW t \in Pool, NEW c \in Calls(t)'
        PROVE  /\ c.op = "fire" => \A n \in c.nodes : fired'[n] > 0
               /\ c.op = "notify" => task'[c.node] # None
    <3>1. c.op # "batch" => c \in Calls(t)
      OBVIOUS
    <3>2. c.op = "fire" => \A n \in c.nodes : fired'[n] > 0
      BY <3>1 DEF CallInv, Tasked
    <3>3. c.op = "notify" => task[c.node] # None /\ c.node \in Node
      BY <3>1, CallsTyped DEF CallInv, Tasked
    <3> QED BY <3>2, <3>3
  <2> QED BY <2>1, <2>2 DEF Tasked
<1>2. NoCallLost'
  <2> SUFFICES ASSUME ~ failed', NEW n \in Node, fired'[n] > 0, n \notin semi'
               PROVE  \E t \in Pool : \E c \in Calls(t)' : Handles(c, n)
    BY DEF NoCallLost, Handles
  <2>1. PICK t \in Pool : \E c \in Calls(t) : Handles(c, n)
    BY DEF CallInv, NoCallLost
  <2>2. PICK c \in Calls(t) : Handles(c, n)
    BY <2>1
  <2>3. c.op # "batch"
    BY <2>2 DEF Handles
  <2> QED BY <2>2, <2>3
<1> QED BY <1>1, <1>2 DEF CallInv

(* A task in the cache stays; a new one is the only task of its node. *)
LEMMA Cached ==
  ASSUME TasksTyped, NEW n \in Node, NEW kind \in Kinds, Cache(n, kind)
  PROVE  /\ task' \in [Node -> Kinds \cup {None}]
         /\ \A m \in Node : task[m] # None => task'[m] = task[m]
         /\ \A m \in Node : m # n => task'[m] = task[m]
         /\ task'[n] # None /\ (task[n] = None => task'[n] = kind)
<1>1. kind # None
  BY GraphAssumption DEF Kinds
<1> QED BY <1>1 DEF Cache, TasksTyped

LEMMA OneRunnerCached ==
  ASSUME TaskInv, NEW n \in Node, NEW kind \in Kinds, Cache(n, kind),
         UNCHANGED <<joint, begun>>, \A r \in Runner, m \in Node : Executes(r, m)' <=> Executes(r, m)
  PROVE  OneRunner'
<1>1. /\ \A m \in Node : task[m] # None => task'[m] = task[m]
      /\ \A m \in Node : m # n => task'[m] = task[m]
      /\ task[n] = None => task'[n] = kind
  BY Cached DEF TaskInv
<1>2. None \notin {"restore", "run", "prepare"}
  BY GraphAssumption
<1>3. ASSUME NEW m \in Node, task[m] = None
      PROVE  joint[m] = {} /\ \A r \in Runner : ~ Executes(r, m)
  BY <1>2, <1>3 DEF TaskInv, OneRunner
<1>4. \A m \in Node : joint'[m] # {} => task'[m] \in {"restore", "prepare"}
  BY <1>1, <1>2 DEF TaskInv, OneRunner
<1>5. \A m \in Node : task'[m] = "restore" => "restore" \notin joint'[m]
  BY <1>1, <1>3 DEF TaskInv, OneRunner
<1>6. \A m \in Node : "restore" \in joint'[m] => <<m, "prepare">> \in begun'
  BY DEF TaskInv, OneRunner
<1>7. ASSUME NEW m \in Node, task[m] # None, NEW k
      PROVE  Waiting(m, k)' <=> Waiting(m, k)
  BY <1>1, <1>7 DEF Waiting
<1>8. \A m \in Node : "run" \in joint'[m] =>
        ~ Waiting(m, "restore")' /\ ~ Waiting(m, "prepare")'
  BY <1>3, <1>7 DEF TaskInv, OneRunner
<1>9. ASSUME NEW r \in Runner, NEW m \in Node, Executes(r, m)'
      PROVE  /\ task'[m] \in {"restore", "prepare"} /\ "run" \notin joint'[m]
             /\ ~ Waiting(m, "restore")' /\ ~ Waiting(m, "prepare")'
  BY <1>1, <1>3, <1>7, <1>9 DEF TaskInv, OneRunner
<1>10. \A r1, r2 \in Runner, m \in Node : Executes(r1, m)' /\ Executes(r2, m)' => r1 = r2
  BY DEF TaskInv, OneRunner
<1> QED BY <1>4, <1>5, <1>6, <1>8, <1>9, <1>10 DEF OneRunner

(* The tasks, when a thread of the pool takes a step. *)
LEMMA TasksStay ==
  ASSUME TaskInv, UNCHANGED <<joint, begun, task>>, stopped' \in BOOLEAN,
         \A r \in Runner : stack'[r] = stack[r]
  PROVE  TaskInv'
<1>1. TasksTyped'
  BY DEF TaskInv, TasksTyped
<1>2. \A r \in Runner : (In(r, "exec")' <=> In(r, "exec")) /\ Top(r)' = Top(r)
  BY DEF In, Top
<1>3. \A r \in Runner, m \in Node : Executes(r, m)' <=> Executes(r, m)
  BY <1>2 DEF Executes
<1>4. \A m, k : Waiting(m, k)' <=> Waiting(m, k)
  BY DEF Waiting
<1>5. OneRunner'
  BY <1>3, <1>4 DEF TaskInv, OneRunner
<1>6. DepsTasked'
  BY <1>2 DEF TaskInv, DepsTasked
<1> QED BY <1>1, <1>5, <1>6 DEF TaskInv

LEMMA TasksCached ==
  ASSUME TaskInv, StackTyped, UNCHANGED <<joint, begun, stopped>>, \A r \in Runner : stack'[r] = stack[r],
         NEW n \in Node, NEW kind \in Kinds, Cache(n, kind),
         kind = "run" => \A x \in Deps[n] : task[x] # None
  PROVE  TaskInv'
<1>1. TasksTyped'
  BY Cached DEF TaskInv, TasksTyped
<1>2. \A r \in Runner : (In(r, "exec")' <=> In(r, "exec")) /\ Top(r)' = Top(r)
  BY DEF In, Top
<1>3. \A r \in Runner, m \in Node : Executes(r, m)' <=> Executes(r, m)
  BY <1>2 DEF Executes
<1>4. OneRunner'
  BY <1>3, OneRunnerCached
<1>5. \A m \in Node : task[m] # None => task'[m] = task[m]
  BY Cached DEF TaskInv
<1>6. \A m \in Node : m # n => task'[m] = task[m]
  BY Cached DEF TaskInv
<1>7. task[n] = None => task'[n] = kind
  BY Cached DEF TaskInv
<1>8. \A m \in Node : Deps[m] \in SUBSET Node
  BY GraphAssumption
<1>9. ASSUME NEW m \in Node, task'[m] = "run" \/ "run" \in joint'[m], NEW x \in Deps[m]
      PROVE  task'[x] # None
  BY <1>5, <1>6, <1>7, <1>8, <1>9 DEF TaskInv, DepsTasked
<1>10. ASSUME NEW r \in Runner, In(r, "exec")', NEW x \in Deps[Top(r)'.node] \ Top(r)'.deps
       PROVE  task'[x] # None
  <2>1. task[x] # None
    BY <1>2, <1>10 DEF TaskInv, DepsTasked
  <2>2. x \in Node
    BY <1>2, <1>10, ExecTop
  <2> QED BY <1>5, <2>1, <2>2
<1>11. DepsTasked'
  <2>1. \A r \in Runner : In(r, "exec")' => Top(r)'.deps \subseteq Deps[Top(r)'.node]
    BY <1>2 DEF TaskInv, DepsTasked
  <2> QED BY <1>9, <1>10, <2>1 DEF DepsTasked
<1> QED BY <1>1, <1>4, <1>11 DEF TaskInv

(* What was asked for stays so, if who asks goes on. *)
LEMMA AskedStays ==
  ASSUME AllAsked, stopped' = stopped, failed => failed',
         \A m \in Node : callback[m] = "add_run_node" => callback'[m] = "add_run_node",
         \A m \in Node : joint[m] \subseteq joint'[m],
         \A t \in Pool, m \in Node : Walks(t, m) =>
           callback'[m] = "add_run_node" \/ \E u \in Pool : Walks(u, m)',
         \A r \in Runner, m \in Node, n \in Node : Executes(r, m) /\ n \notin Top(r).deps =>
           "run" \in joint'[m] \/ stopped \/ \E q \in Runner : Executes(q, m)' /\ n \notin Top(q)'.deps,
         \A n \in Node : n \in added' \/ task'[n] # None =>
           n \in added \/ task[n] # None \/ Asked(n)'
  PROVE  AllAsked'
<1>1. ASSUME NEW n \in Node, Asked(n), ~ stopped PROVE Asked(n)'
  <2>1. CASE n \in Result
    BY <2>1 DEF Asked
  <2>2. ASSUME NEW m \in Node, AskedBy(n, m) PROVE AskedBy(n, m)'
    BY <1>1, <2>2 DEF AskedBy
  <2> QED BY <1>1, <2>1, <2>2 DEF Asked
<1> QED BY <1>1 DEF AllAsked

(* The same for a step of which the tasks and the tp know nothing. *)
LEMMA AskedSame ==
  ASSUME AllAsked, UNCHANGED <<runVars, added, callback>>, failed => failed',
         \A r \in Runner : stack'[r] = stack[r],
         \A t \in Pool, m \in Node : Walks(t, m) => Walks(t, m)'
  PROVE  AllAsked'
<1>1. \A r \in Runner, m \in Node :
        Executes(r, m) => Executes(r, m)' /\ Top(r)' = Top(r)
  BY DEF Executes, In, Top
<1> QED BY <1>1, AskedStays DEF runVars

-----------------------------------------------------------------------------
(* The loop. *)

LEMMA AddResultInv ==
  ASSUME PrepInv, NEW n \in Node, AddResult(n)
  PROVE  StackTyped' /\ WalkInv' /\ CallInv' /\ TaskInv' /\ AllAsked'
<1> USE DEF PrepInv
<1>1. /\ n \in Result /\ seen = {} /\ added' = added \cup {n} /\ n \notin added
      /\ group' = [group EXCEPT ![n] = {n}]
      /\ UNCHANGED <<deps, scheduled, semi, fired, loopVars, runVars, stack, callback, resolved>>
  BY DEF AddResult, AddNode
<1>2. StackTyped'
  BY <1>1 DEF StackTyped, Busy, Bottom
<1>3. \A t \in Thread : /\ (Busy(t)' <=> Busy(t)) /\ Bottom(t)' = Bottom(t)
                        /\ Calls(t)' = Calls(t) /\ stack'[t] = stack[t]
  BY <1>1 DEF Busy, Bottom, Calls
<1>4. \A t \in Thread : Todo(t)' = Todo(t) /\ New(t)' = New(t) /\ Owns(t)' = Owns(t)
  BY <1>3 DEF Todo, New, Owns
<1>5. WalkInv'
  <2>1. Alone'
    BY <1>1 DEF WalkInv, Alone, TopoInv, TopoTypeOK
  <2>2. LoopTyped' /\ Placed' /\ OnePlace'
    BY <1>1, <1>4 DEF WalkInv, LoopTyped, Placed, OnePlace, loopVars, Thread
  <2>3. Found'
    BY <1>1, <1>3, <1>4 DEF WalkInv, Found, loopVars, Thread
  <2>4. NoneLost'
    BY <1>1, <1>4 DEF WalkInv, NoneLost, Found, loopVars, Thread
  <2>5. LoopDone'
    BY <1>1, <1>3 DEF WalkInv, LoopDone, loopVars, Thread
  <2>6. Linked'
    BY <1>1, <1>3 DEF WalkInv, Linked, LinkedAt, loopVars, runVars, Thread
  <2> QED BY <2>1, <2>2, <2>3, <2>4, <2>5, <2>6 DEF WalkInv
<1>6. CallInv'
  BY <1>1, <1>3, CallsStay DEF loopVars, runVars, Thread
<1>7. TaskInv'
  BY <1>1, TasksStay DEF runVars, TaskInv, TasksTyped
<1>8. AllAsked'
  <2>1. \A t \in Pool, m \in Node : Walks(t, m)' <=> Walks(t, m)
    BY <1>3, <1>4 DEF Walks, Thread
  <2>2. \A r \in Runner, m \in Node : Executes(r, m) => Executes(r, m)' /\ Top(r)' = Top(r)
    BY <1>1 DEF Executes, In, Top
  <2>3. \A m \in added' : m \in added \/ Asked(m)'
    BY <1>1 DEF Asked
  <2> QED BY <1>1, <2>1, <2>2, <2>3, AskedStays DEF runVars, loopVars
<1> QED BY <1>2, <1>5, <1>6, <1>7, <1>8

(* The other steps of the loop move nodes between the sets of the walk.    *)
LEMMA LoopSetsInv ==
  ASSUME PrepInv, Submit \/ Wait \/ Planned \/ Failed
  PROVE  StackTyped' /\ WalkInv' /\ CallInv' /\ TaskInv' /\ AllAsked'
<1> USE DEF PrepInv
<1>1. UNCHANGED <<topoVars, failed, runVars, stack, callback, resolved>>
  BY DEF Submit, Wait, Planned, Failed
<1>2. StackTyped'
  BY <1>1 DEF StackTyped, Busy, Bottom
<1>3. \A t \in Thread : /\ (Busy(t)' <=> Busy(t)) /\ Bottom(t)' = Bottom(t)
                        /\ Calls(t)' = Calls(t) /\ stack'[t] = stack[t]
  BY <1>1 DEF Busy, Bottom, Calls
<1>4. \A t \in Thread : Todo(t)' = Todo(t) /\ New(t)' = New(t) /\ Owns(t)' = Owns(t)
  BY <1>3 DEF Todo, New, Owns
<1>5. CallInv'
  BY <1>1, <1>3, CallsStay DEF topoVars, runVars, Thread
<1>6. TaskInv'
  BY <1>1, TasksStay DEF runVars, TaskInv, TasksTyped
<1>7. AllAsked'
  <2>1. \A t \in Pool, m \in Node : Walks(t, m)' <=> Walks(t, m)
    BY <1>3, <1>4 DEF Walks, Thread
  <2>2. \A r \in Runner : stack'[r] = stack[r]
    BY <1>1
  <2> QED BY <1>1, <2>1, <2>2, AskedSame DEF topoVars
<1>8. Alone' /\ Linked'
  BY <1>1, <1>3 DEF WalkInv, Alone, Linked, LinkedAt, topoVars, runVars, Thread
<1>9. LoopTyped' /\ Placed' /\ OnePlace' /\ Found' /\ NoneLost' /\ LoopDone'
  <2>1. CASE Submit
    <3>1. PICK P \in SUBSET ((SUBSET (toProcess \ seen)) \ {{}}) :
            /\ UNION P = toProcess \ seen
            /\ \A A, B \in P : A # B => A \cap B = {}
            /\ batches' = batches \cup P
      BY <2>1 DEF Submit
    <3>2. /\ done = "loop" /\ toProcess # {} /\ Result \subseteq added
          /\ seen' = seen \cup toProcess /\ toProcess' = {}
          /\ UNCHANGED <<topoVars, found, failed, done, stack, resolved, callback>>
      BY <2>1 DEF Submit
    <3>3. LoopTyped'
      BY <3>1, <3>2 DEF WalkInv, LoopTyped
    <3>4. \A n \in toProcess \ seen : n \in Node /\ resolved[n] = 0
      BY DEF WalkInv, LoopTyped, Placed
    <3>5. Placed'
      BY <1>4, <3>1, <3>2, <3>4 DEF WalkInv, Placed, topoVars, Thread
    <3>6. \A A \in P : A \cap seen = {}
      BY <3>1
    <3>7. \A A \in batches : A \subseteq seen
      BY DEF WalkInv, Placed
    <3>8. \A t \in Pool : Todo(t) \subseteq seen
      BY DEF WalkInv, Placed
    <3>9. OnePlace'
      <4>1. \A A, B \in batches' : A # B => A \cap B = {}
        BY <3>1, <3>6, <3>7 DEF WalkInv, OnePlace
      <4>2. \A t \in Pool, B \in batches' : B \cap Todo(t)' = {}
        BY <1>4, <3>1, <3>6, <3>8 DEF WalkInv, OnePlace, Thread
      <4> QED BY <1>4, <4>1, <4>2 DEF WalkInv, OnePlace, Thread
    <3>10. Found'
      BY <1>3, <1>4, <3>2 DEF WalkInv, Found, topoVars, Thread
    <3>11. NoneLost'
      BY <1>4, <3>1, <3>2 DEF WalkInv, NoneLost, topoVars, Thread
    <3>12. LoopDone'
      BY <3>2 DEF LoopDone
    <3> QED BY <3>3, <3>5, <3>9, <3>10, <3>11, <3>12
  <2>2. CASE Wait
    <3>1. /\ done = "loop" /\ found # {} /\ toProcess = {} /\ toProcess' = found /\ found' = {}
          /\ UNCHANGED <<topoVars, seen, batches, failed, done, stack, resolved, callback>>
      BY <2>2 DEF Wait
    <3>2. LoopTyped' /\ Placed' /\ OnePlace' /\ LoopDone'
      BY <1>4, <3>1 DEF WalkInv, LoopTyped, Placed, OnePlace, LoopDone, topoVars, Thread
    <3>3. Found'
      BY <1>3, <1>4, <3>1 DEF WalkInv, Found, topoVars, Thread
    <3>4. NoneLost'
      BY <1>4, <3>1 DEF WalkInv, NoneLost, topoVars, Thread
    <3> QED BY <3>2, <3>3, <3>4
  <2>3. CASE Planned \/ Failed
    <3>1. UNCHANGED <<topoVars, toProcess, seen, batches, found, failed, stack, resolved, callback>>
      BY <2>3 DEF Planned, Failed
    <3>2. Placed' /\ OnePlace'
      BY <1>4, <3>1 DEF WalkInv, Placed, OnePlace, topoVars, Thread
    <3>3. Found' /\ NoneLost'
      BY <1>3, <1>4, <3>1 DEF WalkInv, Found, NoneLost, topoVars, Thread
    <3>4. LoopTyped'
      BY <2>3, <3>1 DEF WalkInv, LoopTyped, Planned, Failed
    <3>5. LoopDone'
      <4>1. CASE Planned
        BY <1>3, <3>1, <4>1 DEF Planned, LoopDone, Idle, Busy, Thread
      <4>2. CASE Failed
        BY <4>2 DEF Failed, LoopDone
      <4> QED BY <2>3, <4>1, <4>2
    <3> QED BY <3>2, <3>3, <3>4, <3>5
  <2> QED BY <2>1, <2>2, <2>3
<1> QED BY <1>2, <1>5, <1>6, <1>7, <1>8, <1>9 DEF WalkInv

-----------------------------------------------------------------------------
(* The batches. *)

(* What the other threads have stays, and no runner notices.               *)
LEMMA PoolMoves ==
  ASSUME StackTyped, NEW th \in Pool, NEW s, stack' = [stack EXCEPT ![th] = s]
  PROVE  /\ \A r \in Runner : stack'[r] = stack[r]
         /\ \A t \in Pool : t # th =>
              /\ (Busy(t)' <=> Busy(t)) /\ Bottom(t)' = Bottom(t) /\ Calls(t)' = Calls(t)
              /\ Todo(t)' = Todo(t) /\ New(t)' = New(t) /\ Owns(t)' = Owns(t)
<1>1. \A r \in Runner : r # th /\ r \in Thread
  BY GraphAssumption DEF Thread
<1>2. \A t \in Pool : t \in Thread
  BY DEF Thread
<1>3. \A t \in Thread : t # th =>
           /\ stack'[t] = stack[t] /\ (Busy(t)' <=> Busy(t))
           /\ Bottom(t)' = Bottom(t) /\ Calls(t)' = Calls(t)
           /\ Todo(t)' = Todo(t) /\ New(t)' = New(t) /\ Owns(t)' = Owns(t)
  BY OthersStay
<1> QED BY <1>1, <1>2, <1>3, Zenon

LEMMA GotoBatch ==
  ASSUME StackTyped, NEW th \in Pool, In(th, "batch"),
         NEW fs \in Seq(BatchFrames \cup CallFrames), Goto(th, fs)
  PROVE  stack' = [stack EXCEPT ![th] = fs]
<1>1. Tail(stack[th]) = <<>>
  BY BatchTop
<1>2. fs \o <<>> = fs
  OBVIOUS
<1> QED BY <1>1, <1>2 DEF Goto

LEMMA BeginInv ==
  ASSUME PrepInv, NEW th \in Pool, Begin(th)
  PROVE  StackTyped' /\ WalkInv' /\ CallInv' /\ TaskInv' /\ AllAsked'
<1> USE DEF PrepInv
<1>1. PICK B \in batches : /\ batches' = batches \ {B}
                           /\ stack' = [stack EXCEPT ![th] = <<BatchFrame(B, {})>>]
  BY DEF Begin
<1>2. /\ UNCHANGED <<topoVars, toProcess, seen, found, failed, done, runVars, callback, resolved>>
      /\ ~ Busy(th) /\ stack[th] = <<>>
  BY DEF Begin, Idle, Busy
<1> DEFINE b == BatchFrame(B, {})
<1>3. /\ b \in BatchFrames /\ b.todo = B /\ b.new = {} /\ b.at = "next" /\ b.op = "batch"
  BY DEF BatchFrame, BatchFrames, WalkInv, LoopTyped
<1> HIDE DEF b
<1>4. StackTyped' /\ Busy(th)' /\ Bottom(th)' = b /\ Calls(th)' = {b}
  BY <1>1, <1>3, BatchMoves DEF b
<1>5. Todo(th)' = B /\ New(th)' = {} /\ Owns(th)' = {}
  BY <1>3, <1>4 DEF Todo, New, Owns
<1>6. Todo(th) = {} /\ New(th) = {} /\ Owns(th) = {} /\ Calls(th) = {}
  BY <1>2 DEF Todo, New, Owns, Calls, Busy
<1>7. /\ \A r \in Runner : stack'[r] = stack[r]
      /\ \A t \in Pool : t # th =>
           /\ (Busy(t)' <=> Busy(t)) /\ Bottom(t)' = Bottom(t) /\ Calls(t)' = Calls(t)
           /\ Todo(t)' = Todo(t) /\ New(t)' = New(t) /\ Owns(t)' = Owns(t)
  BY <1>1, PoolMoves
<1>8. Alone' /\ LoopTyped'
  BY <1>1, <1>2 DEF WalkInv, Alone, LoopTyped, topoVars
<1>9. Placed'
  BY <1>1, <1>2, <1>5, <1>7 DEF WalkInv, Placed, topoVars
<1>10. OnePlace'
  <2>1. \A A1, A2 \in batches' : A1 # A2 => A1 \cap A2 = {}
    BY <1>1 DEF WalkInv, OnePlace
  <2>2. \A t \in Pool, A \in batches' : A \cap Todo(t)' = {}
    BY <1>1, <1>5, <1>7 DEF WalkInv, OnePlace
  <2>3. \A t1, t2 \in Pool : t1 # t2 => Todo(t1)' \cap Todo(t2)' = {}
    BY <1>1, <1>5, <1>7 DEF WalkInv, OnePlace
  <2>4. \A t1, t2 \in Pool : t1 # t2 => Owns(t1)' \cap Owns(t2)' = {}
    BY <1>5, <1>7 DEF WalkInv, OnePlace
  <2> QED BY <2>1, <2>2, <2>3, <2>4 DEF OnePlace
<1>11. Found'
  <2>1. seen # {} \/ B = {}
    BY DEF WalkInv, Found
  <2> QED BY <1>1, <1>2, <1>5, <1>7, <2>1 DEF WalkInv, Found, topoVars
<1>12. NoneLost'
  BY <1>1, <1>2, <1>5, <1>6, <1>7 DEF WalkInv, NoneLost, topoVars
<1>13. LoopDone'
  BY <1>1, <1>2 DEF WalkInv, LoopDone
<1>14. Linked'
  <2>1. ASSUME NEW t \in Pool, Busy(t)'
        PROVE  LinkedAt(t)'
    BY <1>2, <1>3, <1>4, <1>7, <2>1 DEF WalkInv, Linked, LinkedAt, topoVars, runVars
  <2> QED BY <1>2, <2>1 DEF WalkInv, Linked, LinkedAt, topoVars
<1>15. CallInv'
  <2>1. \A t \in Pool : \A c : c.op # "batch" => (c \in Calls(t)' <=> c \in Calls(t))
    BY <1>3, <1>4, <1>6, <1>7
  <2> QED BY <1>2, <2>1, CallsStay DEF topoVars, runVars
<1>16. TaskInv'
  BY <1>2, <1>7, TasksStay DEF runVars, TaskInv, TasksTyped
<1>17. AllAsked'
  <2>1. \A t \in Pool, m \in Node : Walks(t, m) => Walks(t, m)'
    BY <1>6, <1>7 DEF Walks
  <2> QED BY <1>2, <1>7, <2>1, AskedSame DEF topoVars
<1> QED BY <1>4, <1>8, <1>9, <1>10, <1>11, <1>12, <1>13, <1>14, <1>15, <1>16, <1>17 DEF WalkInv

(* A thread that goes on with its node has it as before. *)
LEMMA NodeGoesOn ==
  ASSUME PrepInv, NEW th \in Pool, In(th, "batch"), NEW b \in BatchFrames,
         stack' = [stack EXCEPT ![th] = <<b>>],
         b.todo = Top(th).todo, b.node = Top(th).node, b.at # "next", Top(th).at # "next",
         UNCHANGED <<loopVars, joint, begun, stopped, callback, resolved>>,
         UNCHANGED <<scheduled, semi, fired>>,
         \A n \in Node : task[n] # None => task'[n] # None
  PROVE  /\ StackTyped' /\ LoopTyped' /\ Placed' /\ OnePlace' /\ LoopDone' /\ CallInv'
         /\ Busy(th) /\ Busy(th)' /\ Bottom(th) = Top(th) /\ Bottom(th)' = b
         /\ New(th) = Top(th).new /\ New(th)' = b.new
         /\ Todo(th)' = Todo(th) /\ Owns(th)' = Owns(th) /\ Owns(th) = {b.node}
         /\ \A r \in Runner : stack'[r] = stack[r]
         /\ \A t \in Pool : t # th =>
              /\ (Busy(t)' <=> Busy(t)) /\ Bottom(t)' = Bottom(t) /\ Calls(t)' = Calls(t)
              /\ Todo(t)' = Todo(t) /\ New(t)' = New(t) /\ Owns(t)' = Owns(t)
<1> USE DEF PrepInv
<1>1. Busy(th) /\ Bottom(th) = Top(th) /\ Calls(th) = {Bottom(th)} /\ Bottom(th) \in BatchFrames
  BY BatchTop
<1>2. StackTyped' /\ Busy(th)' /\ Bottom(th)' = b /\ Calls(th)' = {b}
  BY BatchMoves
<1>3. /\ New(th) = Top(th).new /\ New(th)' = b.new
      /\ Todo(th)' = Todo(th) /\ Owns(th)' = Owns(th) /\ Owns(th) = {b.node}
  BY <1>1, <1>2 DEF New, Todo, Owns
<1>4. /\ \A r \in Runner : stack'[r] = stack[r]
      /\ \A t \in Pool : t # th =>
           /\ (Busy(t)' <=> Busy(t)) /\ Bottom(t)' = Bottom(t) /\ Calls(t)' = Calls(t)
           /\ Todo(t)' = Todo(t) /\ New(t)' = New(t) /\ Owns(t)' = Owns(t)
  BY PoolMoves
<1>5. \A t \in Pool : Todo(t)' = Todo(t) /\ Owns(t)' = Owns(t)
  BY <1>3, <1>4
<1>6. LoopTyped' /\ Placed' /\ OnePlace'
  BY <1>5 DEF WalkInv, LoopTyped, Placed, OnePlace, loopVars
<1>7. LoopDone'
  BY <1>1 DEF WalkInv, LoopDone, loopVars
<1>8. CallInv'
  <2>1. b.op = "batch" /\ Bottom(th).op = "batch"
    BY <1>1 DEF BatchFrames
  <2>2. \A t \in Pool : \A c : c.op # "batch" => (c \in Calls(t)' <=> c \in Calls(t))
    BY <1>1, <1>2, <1>4, <2>1
  <2> QED BY <2>2, CallsStay DEF loopVars
<1> QED BY <1>1, <1>2, <1>3, <1>4, <1>6, <1>7, <1>8

LEMMA PlanRestoreInv ==
  ASSUME PrepInv, NEW th \in Pool, PlanRestore(th)
  PROVE  StackTyped' /\ WalkInv' /\ CallInv' /\ TaskInv' /\ AllAsked'
<1> USE DEF PrepInv
<1> DEFINE b == [Top(th) EXCEPT !.at = "schedule"]
<1> DEFINE n == Top(th).node
<1>1. /\ In(th, "batch") /\ Top(th).at = "restore" /\ Cache(n, "restore")
      /\ Goto(th, <<b>>)
      /\ UNCHANGED <<topoVars, loopVars, joint, begun, stopped, callback, resolved>>
  BY DEF PlanRestore, At, Become
<1>2. Busy(th) /\ Bottom(th) = Top(th) /\ Top(th) \in BatchFrames /\ n \in Node
  BY <1>1, BatchTop DEF WalkInv, Linked, LinkedAt
<1>3. /\ b \in BatchFrames /\ b.todo = Top(th).todo /\ b.node = n /\ b.at = "schedule"
      /\ b.new = Top(th).new
  BY <1>2 DEF BatchFrames
<1>4. stack' = [stack EXCEPT ![th] = <<b>>]
  <2>1. <<b>> \in Seq(BatchFrames \cup CallFrames)
    BY <1>3
  <2> QED BY <1>1, <2>1, GotoBatch
<1>5. /\ \A m \in Node : task[m] # None => task'[m] # None
      /\ task'[n] # None /\ \A m \in Node : m # n => task'[m] = task[m]
  BY <1>1, <1>2, Cached DEF TaskInv, Kinds
<1> HIDE DEF b, n
<1>6. UNCHANGED <<scheduled, semi, fired, added, deps, group>>
  BY <1>1 DEF topoVars
<1>7. /\ StackTyped' /\ LoopTyped' /\ Placed' /\ OnePlace' /\ LoopDone' /\ CallInv'
      /\ Busy(th)' /\ Bottom(th)' = b /\ New(th)' = New(th)
      /\ Todo(th)' = Todo(th) /\ Owns(th)' = Owns(th) /\ Owns(th) = {n}
      /\ \A r \in Runner : stack'[r] = stack[r]
      /\ \A t \in Pool : t # th =>
           /\ (Busy(t)' <=> Busy(t)) /\ Bottom(t)' = Bottom(t) /\ Calls(t)' = Calls(t)
           /\ Todo(t)' = Todo(t) /\ New(t)' = New(t) /\ Owns(t)' = Owns(t)
  BY <1>1, <1>3, <1>4, <1>5, <1>6, NodeGoesOn DEF n
<1>8. Alone' /\ Found' /\ NoneLost'
  <2>1. \A t \in Pool : Todo(t)' = Todo(t) /\ New(t)' = New(t) /\ Owns(t)' = Owns(t)
    BY <1>7
  <2>2. \A t \in Pool : \A m \in New(t)' : m \in added' \/ (Bottom(t)'.at = "add" /\ m = Bottom(t)'.dep)
    BY <1>1, <1>2, <1>6, <1>7, <2>1 DEF WalkInv, Found
  <2>3. seen # {}
    BY <1>2 DEF WalkInv, Found
  <2> QED BY <1>1, <1>6, <2>1, <2>2, <2>3 DEF WalkInv, Alone, Found, NoneLost, loopVars
<1>9. Linked'
  <2>1. ASSUME NEW t \in Pool, Busy(t)'
        PROVE  LinkedAt(t)'
    <3>1. CASE t = th
      BY <1>2, <1>3, <1>5, <1>7, <3>1 DEF LinkedAt
    <3>2. CASE t # th
      BY <1>5, <1>6, <1>7, <2>1, <3>2 DEF WalkInv, Linked, LinkedAt
    <3> QED BY <3>1, <3>2
  <2> QED BY <1>1, <1>6, <2>1 DEF WalkInv, Linked, LinkedAt
<1>10. TaskInv'
  BY <1>1, <1>2, <1>7, TasksCached DEF n, Kinds
<1>11. AllAsked'
  <2>1. \A t \in Pool, m \in Node : Walks(t, m) => Walks(t, m)'
    BY <1>1, <1>2, <1>7 DEF Walks
  <2>2. \A r \in Runner, m \in Node :
          Executes(r, m) => Executes(r, m)' /\ Top(r)' = Top(r)
    BY <1>7 DEF Executes, In, Top
  <2>3. n \in added
    BY <1>7 DEF WalkInv, Placed, Found
  <2>4. failed' = failed
    BY <1>1 DEF loopVars
  <2> QED BY <1>1, <1>5, <1>6, <2>1, <2>2, <2>3, <2>4, AskedStays
<1> QED BY <1>7, <1>8, <1>9, <1>10, <1>11 DEF WalkInv

LEMMA LookAtDepInv ==
  ASSUME PrepInv, NEW th \in Pool, LookAtDep(th)
  PROVE  StackTyped' /\ WalkInv' /\ CallInv' /\ TaskInv' /\ AllAsked'
<1> USE DEF PrepInv
<1>1. PICK x \in Top(th).deps :
        Become(th, IF x \in added
                     THEN [Top(th) EXCEPT !.at = "link", !.dep = x]
                     ELSE [Top(th) EXCEPT !.at = "add", !.dep = x, !.new = @ \cup {x}])
  BY DEF LookAtDep
<1> DEFINE b == IF x \in added
                  THEN [Top(th) EXCEPT !.at = "link", !.dep = x]
                  ELSE [Top(th) EXCEPT !.at = "add", !.dep = x, !.new = @ \cup {x}]
<1> DEFINE n == Top(th).node
<1>2. /\ In(th, "batch") /\ Top(th).at = "run" /\ Goto(th, <<b>>)
      /\ UNCHANGED <<topoVars, loopVars, runVars, callback, resolved>>
  BY <1>1 DEF LookAtDep, At, Become
<1>3. /\ Busy(th) /\ Bottom(th) = Top(th) /\ Top(th) \in BatchFrames /\ n \in Node
      /\ x \in Node
  BY <1>2, BatchTop DEF WalkInv, Linked, LinkedAt, BatchFrames
<1>4. /\ b \in BatchFrames /\ b.todo = Top(th).todo /\ b.node = n
      /\ b.at = (IF x \in added THEN "link" ELSE "add") /\ b.dep = x
      /\ b.deps = Top(th).deps
      /\ b.new = (IF x \in added THEN Top(th).new ELSE Top(th).new \cup {x})
  <2>1. CASE x \in added
    BY <1>3, <2>1 DEF BatchFrames
  <2>2. CASE x \notin added
    BY <1>3, <2>2 DEF BatchFrames
  <2> QED BY <2>1, <2>2
<1>5. stack' = [stack EXCEPT ![th] = <<b>>]
  <2>1. <<b>> \in Seq(BatchFrames \cup CallFrames)
    BY <1>4
  <2> QED BY <1>2, <2>1, GotoBatch
<1> HIDE DEF b, n
<1>6. /\ UNCHANGED <<scheduled, semi, fired, added, deps, group>>
      /\ UNCHANGED <<task, joint, begun, stopped, failed>>
  BY <1>2 DEF topoVars, runVars, loopVars
<1>7. /\ StackTyped' /\ LoopTyped' /\ Placed' /\ OnePlace' /\ LoopDone' /\ CallInv'
      /\ Busy(th)' /\ Bottom(th)' = b /\ New(th) = Top(th).new /\ New(th)' = b.new
      /\ Todo(th)' = Todo(th) /\ Owns(th)' = Owns(th) /\ Owns(th) = {n}
      /\ \A r \in Runner : stack'[r] = stack[r]
      /\ \A t \in Pool : t # th =>
           /\ (Busy(t)' <=> Busy(t)) /\ Bottom(t)' = Bottom(t) /\ Calls(t)' = Calls(t)
           /\ Todo(t)' = Todo(t) /\ New(t)' = New(t) /\ Owns(t)' = Owns(t)
  BY <1>2, <1>4, <1>5, <1>6, NodeGoesOn DEF n
<1>8. Found'
  <2>1. \A t \in Pool : \A m \in New(t)' :
          m \in added' \/ (Bottom(t)'.at = "add" /\ m = Bottom(t)'.dep)
    <3>1. \A m \in New(th) : m \in added
      BY <1>2, <1>3 DEF WalkInv, Found
    <3>2. \A m \in New(th)' : m \in added' \/ (Bottom(th)'.at = "add" /\ m = Bottom(th)'.dep)
      BY <1>4, <1>6, <1>7, <3>1
    <3>3. ASSUME NEW t \in Pool, t # th, NEW m \in New(t)'
          PROVE  m \in added' \/ (Bottom(t)'.at = "add" /\ m = Bottom(t)'.dep)
      BY <1>6, <1>7, <3>3 DEF WalkInv, Found
    <3> QED BY <3>2, <3>3
  <2>2. seen # {}
    BY <1>3 DEF WalkInv, Found
  <2> QED BY <1>2, <1>6, <2>1, <2>2 DEF WalkInv, Found, loopVars
<1>9. Alone' /\ NoneLost'
  <2>1. \A t \in Pool : Todo(t)' = Todo(t) /\ New(t) \subseteq New(t)' /\ Owns(t)' = Owns(t)
    BY <1>4, <1>7
  <2> QED BY <1>2, <1>6, <2>1 DEF WalkInv, Alone, NoneLost, loopVars
<1>10. Linked'
  <2>1. ASSUME NEW t \in Pool, Busy(t)' PROVE LinkedAt(t)'
    <3>1. CASE t = th
      BY <1>1, <1>2, <1>3, <1>4, <1>6, <1>7, <3>1 DEF WalkInv, Linked, LinkedAt, n
    <3>2. CASE t # th
      BY <1>6, <1>7, <2>1, <3>2 DEF WalkInv, Linked, LinkedAt
    <3> QED BY <3>1, <3>2
  <2> QED BY <1>2, <1>6, <2>1 DEF WalkInv, Linked
<1>11. TaskInv'
  BY <1>6, <1>7, TasksStay DEF TaskInv, TasksTyped
<1>12. AllAsked'
  <2>1. \A t \in Pool, m \in Node : Walks(t, m) => Walks(t, m)'
    BY <1>4, <1>7 DEF Walks
  <2> QED BY <1>2, <1>6, <1>7, <2>1, AskedSame
<1> QED BY <1>7, <1>8, <1>9, <1>10, <1>11, <1>12 DEF WalkInv

LEMMA AddFoundInv ==
  ASSUME PrepInv, NEW th \in Pool, AddFound(th)
  PROVE  StackTyped' /\ WalkInv' /\ CallInv' /\ TaskInv' /\ AllAsked'
<1> USE DEF PrepInv
<1> DEFINE b == [Top(th) EXCEPT !.at = "link"]
<1> DEFINE n == Top(th).node
<1> DEFINE x == Top(th).dep
<1>1. /\ In(th, "batch") /\ Top(th).at = "add" /\ Goto(th, <<b>>)
      /\ AddNode(x) \/ (x \in added /\ UNCHANGED topoVars)
      /\ UNCHANGED <<loopVars, runVars, callback, resolved>>
  BY DEF AddFound, At, Become
<1>2. /\ Busy(th) /\ Bottom(th) = Top(th) /\ Top(th) \in BatchFrames /\ n \in Node
      /\ x \in Node /\ x \in Top(th).deps /\ x \in Deps[n] /\ x \in Top(th).new
  BY <1>1, BatchTop DEF WalkInv, Linked, LinkedAt, BatchFrames
<1>3. /\ b \in BatchFrames /\ b.todo = Top(th).todo /\ b.node = n /\ b.at = "link"
      /\ b.dep = x /\ b.deps = Top(th).deps /\ b.new = Top(th).new
  BY <1>2 DEF BatchFrames
<1>4. stack' = [stack EXCEPT ![th] = <<b>>]
  <2>1. <<b>> \in Seq(BatchFrames \cup CallFrames)
    BY <1>3
  <2> QED BY <1>1, <2>1, GotoBatch
<1> HIDE DEF b, n, x
<1>5. /\ UNCHANGED <<scheduled, semi, fired, deps>> /\ added' = added \cup {x}
      /\ group' = group \/ group' = [group EXCEPT ![x] = {x}]
      /\ UNCHANGED <<task, joint, begun, stopped, failed>>
  BY <1>1 DEF topoVars, runVars, loopVars, AddNode
<1>6. /\ StackTyped' /\ LoopTyped' /\ Placed' /\ OnePlace' /\ LoopDone' /\ CallInv'
      /\ Busy(th)' /\ Bottom(th)' = b /\ New(th)' = New(th) /\ x \in New(th)
      /\ Todo(th)' = Todo(th) /\ Owns(th)' = Owns(th) /\ Owns(th) = {n}
      /\ \A r \in Runner : stack'[r] = stack[r]
      /\ \A t \in Pool : t # th =>
           /\ (Busy(t)' <=> Busy(t)) /\ Bottom(t)' = Bottom(t) /\ Calls(t)' = Calls(t)
           /\ Todo(t)' = Todo(t) /\ New(t)' = New(t) /\ Owns(t)' = Owns(t)
  BY <1>1, <1>2, <1>3, <1>4, <1>5, NodeGoesOn DEF n
<1>7. Found'
  <2>1. \A t \in Pool : \A m \in New(t)' :
          m \in added' \/ (Bottom(t)'.at = "add" /\ m = Bottom(t)'.dep)
    <3>1. \A m \in New(th)' : m \in added'
      BY <1>2, <1>5, <1>6 DEF WalkInv, Found, x
    <3>2. ASSUME NEW t \in Pool, t # th, NEW m \in New(t)'
          PROVE  m \in added' \/ (Bottom(t)'.at = "add" /\ m = Bottom(t)'.dep)
      BY <1>5, <1>6, <3>2 DEF WalkInv, Found
    <3> QED BY <3>1, <3>2
  <2>2. seen # {}
    BY <1>2 DEF WalkInv, Found
  <2> QED BY <1>1, <1>5, <2>1, <2>2 DEF WalkInv, Found, loopVars
<1>8. Alone' /\ NoneLost'
  <2>1. \A t \in Pool : Todo(t)' = Todo(t) /\ New(t)' = New(t) /\ Owns(t)' = Owns(t)
    BY <1>6
  <2>2. Alone'
    BY <1>5 DEF WalkInv, Alone, TopoInv, TopoTypeOK
  <2>3. NoneLost'
    BY <1>1, <1>5, <1>6, <2>1 DEF WalkInv, NoneLost, loopVars
  <2> QED BY <2>2, <2>3
<1>9. Linked'
  <2>1. ASSUME NEW t \in Pool, Busy(t)' PROVE LinkedAt(t)'
    <3>1. CASE t = th
      BY <1>1, <1>2, <1>3, <1>5, <1>6, <3>1 DEF WalkInv, Linked, LinkedAt, n
    <3>2. CASE t # th
      BY <1>5, <1>6, <2>1, <3>2 DEF WalkInv, Linked, LinkedAt
    <3> QED BY <3>1, <3>2
  <2> QED BY <1>1, <1>5, <2>1 DEF WalkInv, Linked
<1>10. TaskInv'
  BY <1>5, <1>6, TasksStay DEF TaskInv, TasksTyped
<1>11. AllAsked'
  <2>1. \A t \in Pool, m \in Node : Walks(t, m) => Walks(t, m)'
    BY <1>3, <1>6 DEF Walks
  <2>2. PICK k \in Node : k = n
    BY <1>2
  <2>3. Walks(th, k)'
    BY <1>3, <1>6, <2>2 DEF Walks
  <2>4. \A y \in Node : y \in added' => y \in added \/ Asked(y)'
    BY <1>2, <1>5, <2>2, <2>3 DEF Asked, AskedBy
  <2>5. \A r \in Runner, m \in Node : Executes(r, m) => Executes(r, m)' /\ Top(r)' = Top(r)
    BY <1>6 DEF Executes, In, Top
  <2> QED BY <1>1, <1>5, <2>1, <2>4, <2>5, AskedStays
<1> QED BY <1>6, <1>7, <1>8, <1>9, <1>10, <1>11 DEF WalkInv

LEMMA LinkDepInv ==
  ASSUME PrepInv, NEW th \in Pool, LinkDep(th)
  PROVE  StackTyped' /\ WalkInv' /\ CallInv' /\ TaskInv' /\ AllAsked'
<1> USE DEF PrepInv
<1> DEFINE n == Top(th).node
<1> DEFINE x == Top(th).dep
<1> DEFINE b == [Top(th) EXCEPT !.deps = @ \ {x}, !.at = "run"]
<1>1. /\ In(th, "batch") /\ Top(th).at = "link" /\ Goto(th, <<b>>) /\ AddDeps(n, {x})
      /\ UNCHANGED <<loopVars, runVars, callback, resolved>>
  BY DEF LinkDep, At, Become
<1>2. /\ Busy(th) /\ Bottom(th) = Top(th) /\ Top(th) \in BatchFrames /\ n \in Node
      /\ x \in Node /\ x \in Top(th).deps /\ Top(th).deps \subseteq Deps[n]
      /\ deps[n] = Deps[n] \ Top(th).deps
  BY <1>1, BatchTop DEF WalkInv, Linked, LinkedAt, BatchFrames
<1>3. /\ b \in BatchFrames /\ b.todo = Top(th).todo /\ b.node = n /\ b.at = "run"
      /\ b.deps = Top(th).deps \ {x} /\ b.new = Top(th).new
  BY <1>2 DEF BatchFrames
<1>4. stack' = [stack EXCEPT ![th] = <<b>>]
  <2>1. <<b>> \in Seq(BatchFrames \cup CallFrames)
    BY <1>3
  <2> QED BY <1>1, <2>1, GotoBatch
<1> HIDE DEF b, n, x
<1>5. /\ UNCHANGED <<scheduled, semi, fired, added, group>>
      /\ deps' = [deps EXCEPT ![n] = @ \cup {x}]
      /\ UNCHANGED <<task, joint, begun, stopped, failed>>
  BY <1>1 DEF runVars, loopVars, AddDeps
<1>6. /\ StackTyped' /\ LoopTyped' /\ Placed' /\ OnePlace' /\ LoopDone' /\ CallInv'
      /\ Busy(th)' /\ Bottom(th)' = b /\ New(th)' = New(th)
      /\ Todo(th)' = Todo(th) /\ Owns(th)' = Owns(th) /\ Owns(th) = {n}
      /\ \A r \in Runner : stack'[r] = stack[r]
      /\ \A t \in Pool : t # th =>
           /\ (Busy(t)' <=> Busy(t)) /\ Bottom(t)' = Bottom(t) /\ Calls(t)' = Calls(t)
           /\ Todo(t)' = Todo(t) /\ New(t)' = New(t) /\ Owns(t)' = Owns(t)
  BY <1>1, <1>3, <1>4, <1>5, NodeGoesOn DEF n
<1>7. Found'
  <2>1. \A t \in Pool : \A m \in New(t)' :
          m \in added' \/ (Bottom(t)'.at = "add" /\ m = Bottom(t)'.dep)
    <3>1. \A m \in New(th)' : m \in added'
      BY <1>1, <1>2, <1>5, <1>6 DEF WalkInv, Found
    <3>2. ASSUME NEW t \in Pool, t # th, NEW m \in New(t)'
          PROVE  m \in added' \/ (Bottom(t)'.at = "add" /\ m = Bottom(t)'.dep)
      BY <1>5, <1>6, <3>2 DEF WalkInv, Found
    <3> QED BY <3>1, <3>2
  <2>2. seen # {}
    BY <1>2 DEF WalkInv, Found
  <2> QED BY <1>1, <1>5, <2>1, <2>2 DEF WalkInv, Found, loopVars
<1>8. Alone' /\ NoneLost'
  <2>1. \A t \in Pool : Todo(t)' = Todo(t) /\ New(t)' = New(t) /\ Owns(t)' = Owns(t)
    BY <1>6
  <2> QED BY <1>1, <1>5, <2>1 DEF WalkInv, Alone, NoneLost, loopVars
<1>9. Linked'
  <2>1. deps \in [Node -> SUBSET Node]
    BY DEF TopoInv, TopoTypeOK
  <2>2. n \notin scheduled /\ resolved[n] = 1
    BY <1>6 DEF WalkInv, Placed
  <2>3. ASSUME NEW t \in Pool, Busy(t)' PROVE LinkedAt(t)'
    <3>1. CASE t = th
      BY <1>2, <1>3, <1>5, <1>6, <2>1, <3>1 DEF LinkedAt
    <3>2. CASE t # th
      <4>1. LinkedAt(t) /\ Bottom(t)' = Bottom(t) /\ Busy(t)
        BY <1>6, <2>3, <3>2 DEF WalkInv, Linked
      <4>2. Bottom(t).at # "next" => Bottom(t).node # n
        BY <1>6, <3>2, <4>1 DEF WalkInv, OnePlace, Owns
      <4> QED BY <1>5, <2>1, <4>1, <4>2 DEF LinkedAt
    <3> QED BY <3>1, <3>2
  <2>4. \A m \in Node : deps'[m] \subseteq Deps[m] /\ (resolved'[m] = 0 => deps'[m] = {})
    BY <1>1, <1>2, <1>5, <2>1, <2>2 DEF WalkInv, Linked
  <2>5. \A m \in Node : callback'[m] = "add_run_node" => deps'[m] = Deps[m]
    <3>1. callback[n] = None
      BY <1>2, <2>2 DEF WalkInv, Linked
    <3> QED BY <1>1, <1>5, <2>1, <3>1, GraphAssumption DEF WalkInv, Linked
  <2>6. \A m \in Node : callback'[m] = None <=> m \notin scheduled'
    BY <1>1, <1>5 DEF WalkInv, Linked
  <2> QED BY <2>3, <2>4, <2>5, <2>6 DEF Linked
<1>10. TaskInv'
  BY <1>5, <1>6, TasksStay DEF TaskInv, TasksTyped
<1>11. AllAsked'
  <2>1. \A t \in Pool, m \in Node : Walks(t, m) => Walks(t, m)'
    BY <1>3, <1>6 DEF Walks
  <2> QED BY <1>1, <1>5, <1>6, <2>1, AskedSame
<1> QED BY <1>6, <1>7, <1>8, <1>9, <1>10, <1>11 DEF WalkInv

LEMMA ScheduleInv ==
  ASSUME PrepInv, NEW th \in Pool, Schedule(th)
  PROVE  StackTyped' /\ WalkInv' /\ CallInv' /\ TaskInv' /\ AllAsked'
<1> USE DEF PrepInv
<1> DEFINE n == Top(th).node
<1> DEFINE b == [Top(th) EXCEPT !.at = "next"]
<1>1. PICK F \in SUBSET Node : F = NewlyFired
  BY DEF NewlyFired
<1>2. /\ In(th, "batch")
      /\ Top(th).at = "schedule" \/ (Top(th).at = "run" /\ Top(th).deps = {})
      /\ Goto(th, <<FireFrame(F), b>>) /\ ScheduleNode(n)
      /\ callback' = [callback EXCEPT ![n] =
                        IF Top(th).at = "run" THEN "add_run_node" ELSE "notify"]
      /\ UNCHANGED <<loopVars, runVars, resolved>>
  BY <1>1 DEF Schedule, At
<1>3. /\ Busy(th) /\ Bottom(th) = Top(th) /\ Top(th) \in BatchFrames /\ n \in Node
      /\ Calls(th) = {Top(th)} /\ Owns(th) = {n} /\ LinkedAt(th)
  <2>1. Busy(th) /\ Bottom(th) = Top(th) /\ Top(th) \in BatchFrames /\ Calls(th) = {Top(th)}
    BY <1>2, BatchTop
  <2>2. LinkedAt(th)
    BY <2>1 DEF WalkInv, Linked
  <2> QED BY <1>2, <2>1, <2>2 DEF LinkedAt, Owns
<1>4. /\ b \in BatchFrames /\ b.todo = Top(th).todo /\ b.at = "next" /\ b.new = Top(th).new
      /\ b.op = "batch"
  BY <1>3 DEF BatchFrames
<1>5. /\ FireFrame(F) \in CallFrames /\ FireFrame(F).op = "fire" /\ FireFrame(F).nodes = F
  BY DEF FireFrame, CallFrames
<1> HIDE DEF b, n
<1>6. stack' = [stack EXCEPT ![th] = <<FireFrame(F), b>>]
  <2>1. <<FireFrame(F), b>> \in Seq(BatchFrames \cup CallFrames)
    BY <1>4, <1>5
  <2> QED BY <1>2, <2>1, GotoBatch
<1>7. /\ StackTyped' /\ Busy(th)' /\ Bottom(th)' = b /\ Calls(th)' = {FireFrame(F), b}
  BY <1>4, <1>5, <1>6, BatchCalls
<1>8. Todo(th)' = Todo(th) /\ New(th)' = New(th) /\ Owns(th)' = {}
  BY <1>3, <1>4, <1>7 DEF Todo, New, Owns
<1>9. /\ \A r \in Runner : stack'[r] = stack[r]
      /\ \A t \in Pool : t # th =>
           /\ (Busy(t)' <=> Busy(t)) /\ Bottom(t)' = Bottom(t) /\ Calls(t)' = Calls(t)
           /\ Todo(t)' = Todo(t) /\ New(t)' = New(t) /\ Owns(t)' = Owns(t)
  BY <1>6, PoolMoves
<1>10. /\ UNCHANGED <<semi, added, group, deps, task, joint, begun, stopped, failed>>
       /\ scheduled' = scheduled \cup {n}
  BY <1>2 DEF runVars, loopVars, ScheduleNode
<1>11. /\ \A m \in F : fired'[m] > 0
       /\ \A m \in Node : fired'[m] > 0 => fired[m] > 0 \/ m \in F
       /\ \A m \in Node : fired[m] > 0 => fired'[m] > 0
  <2>1. fired \in [Node -> Nat] /\ fired' \in [Node -> Nat]
    <3>1. TopoInv'
      BY <1>2, <1>3, ScheduleNodeInv
    <3> QED BY <3>1 DEF TopoInv, TopoTypeOK
  <2>2. \A m \in Node : fired'[m] >= fired[m]
    BY <1>2, <2>1 DEF ScheduleNode, CheckReady
  <2> QED BY <1>1, <2>1, <2>2 DEF NewlyFired
<1>12. n \in seen /\ resolved[n] = 1 /\ n \notin scheduled
  BY <1>3 DEF WalkInv, Placed
<1>13. callback[n] = None /\ None \notin {"notify", "add_run_node"}
  BY <1>3, <1>12, GraphAssumption DEF WalkInv, Linked
<1>14. /\ \A m \in Node : m # n => callback'[m] = callback[m]
       /\ callback'[n] = (IF Top(th).at = "run" THEN "add_run_node" ELSE "notify")
       /\ callback' \in [Node -> {"notify", "add_run_node", None}]
  BY <1>2, <1>3 DEF WalkInv, LoopTyped
<1>15. Alone' /\ LoopTyped'
  BY <1>2, <1>10, <1>14 DEF WalkInv, Alone, LoopTyped, loopVars
<1>16. Placed'
  <2>1. \A t \in Pool : \A m \in Owns(t)' : m \in seen /\ resolved[m] = 1 /\ m \notin scheduled'
    <3>1. ASSUME NEW t \in Pool, t # th PROVE n \notin Owns(t)
      BY <1>3, <3>1 DEF WalkInv, OnePlace
    <3> QED BY <1>8, <1>9, <1>10, <3>1 DEF WalkInv, Placed
  <2>2. \A t \in Pool : Todo(t)' = Todo(t)
    BY <1>8, <1>9
  <2> QED BY <1>2, <1>10, <1>12, <2>1, <2>2 DEF WalkInv, Placed, loopVars
<1>17. OnePlace'
  BY <1>2, <1>8, <1>9 DEF WalkInv, OnePlace, loopVars
<1>18. Found'
  <2>1. \A t \in Pool : \A m \in New(t)' :
          m \in added' \/ (Bottom(t)'.at = "add" /\ m = Bottom(t)'.dep)
    BY <1>2, <1>3, <1>8, <1>9, <1>10 DEF WalkInv, Found
  <2> QED BY <1>2, <1>10, <1>12, <2>1 DEF WalkInv, Found, loopVars
<1>19. NoneLost'
  <2>1. \A t \in Pool : Todo(t)' = Todo(t) /\ New(t)' = New(t)
    BY <1>8, <1>9
  <2>2. \A t \in Pool : \A m \in Owns(t) : m = n \/ m \in Owns(t)'
    BY <1>3, <1>9
  <2> QED BY <1>2, <1>10, <2>1, <2>2 DEF WalkInv, NoneLost, loopVars
<1>20. LoopDone'
  BY <1>2, <1>3 DEF WalkInv, LoopDone, loopVars
<1>21. Linked'
  <2>1. ASSUME NEW t \in Pool, Busy(t)' PROVE LinkedAt(t)'
    BY <1>4, <1>7, <1>9, <1>10, <2>1 DEF WalkInv, Linked, LinkedAt
  <2>2. Top(th).at = "run" => deps[n] = Deps[n]
    BY <1>2, <1>3 DEF LinkedAt, n
  <2>3. \A m \in Node : callback'[m] = "add_run_node" => deps'[m] = Deps[m]
    BY <1>10, <1>14, <2>2 DEF WalkInv, Linked
  <2>4. \A m \in Node : callback'[m] = None <=> m \notin scheduled'
    BY <1>10, <1>13, <1>14 DEF WalkInv, Linked
  <2> QED BY <1>2, <1>10, <2>1, <2>3, <2>4 DEF WalkInv, Linked
<1>22. Tasked'
  <2>1. Top(th).at # "run" => task[n] # None
    BY <1>2, <1>3 DEF LinkedAt, n
  <2>2. \A m \in Node : callback'[m] = "notify" \/ m \in semi' => task'[m] # None
    BY <1>10, <1>14, <2>1 DEF CallInv, Tasked
  <2>3. \A t \in Pool : \A c \in Calls(t)' :
          /\ c.op = "fire" => \A m \in c.nodes : fired'[m] > 0
          /\ c.op = "notify" => task'[c.node] # None
    <3>1. ASSUME NEW c \in Calls(th)'
          PROVE  /\ c.op = "fire" => \A m \in c.nodes : fired'[m] > 0
                 /\ c.op = "notify" => task'[c.node] # None
      BY <1>4, <1>5, <1>7, <1>11
    <3>2. ASSUME NEW t \in Pool, t # th, NEW c \in Calls(t)'
          PROVE  /\ c.op = "fire" => \A m \in c.nodes : fired'[m] > 0
                 /\ c.op = "notify" => task'[c.node] # None
      <4>1. c \in Calls(t)
        BY <1>9, <3>2
      <4> QED BY <1>10, <1>11, <4>1, CallsTyped DEF CallInv, Tasked
    <3> QED BY <3>1, <3>2
  <2> QED BY <2>2, <2>3 DEF Tasked
<1>23. NoCallLost'
  <2> SUFFICES ASSUME ~ failed', NEW m \in Node, fired'[m] > 0, m \notin semi'
               PROVE  \E t \in Pool : \E c \in Calls(t)' : Handles(c, m)
    BY DEF NoCallLost, Handles
  <2>1. CASE m \in F
    BY <1>5, <1>7, <2>1 DEF Handles
  <2>2. CASE m \notin F
    <3>1. fired[m] > 0 /\ ~ failed /\ m \notin semi
      BY <1>10, <1>11, <2>2
    <3>2. PICK t \in Pool : \E c \in Calls(t) : Handles(c, m)
      BY <3>1 DEF CallInv, NoCallLost
    <3>3. t # th
      BY <1>3, <3>2 DEF Handles, BatchFrames
    <3> QED BY <1>9, <3>2, <3>3
  <2> QED BY <2>1, <2>2
<1>24. TaskInv'
  BY <1>9, <1>10, TasksStay DEF TaskInv, TasksTyped
<1>25. AllAsked'
  <2>1. \A m \in Node : callback[m] = "add_run_node" => callback'[m] = "add_run_node"
    BY <1>13, <1>14
  <2>2. ASSUME NEW t \in Pool, NEW m \in Node, Walks(t, m)
        PROVE  callback'[m] = "add_run_node" \/ \E u \in Pool : Walks(u, m)'
    <3>1. CASE t = th
      BY <1>2, <1>3, <1>14, <2>2, <3>1 DEF Walks
    <3>2. CASE t # th
      BY <1>9, <2>2, <3>2 DEF Walks
    <3> QED BY <3>1, <3>2
  <2>3. \A r \in Runner, m \in Node : Executes(r, m) => Executes(r, m)' /\ Top(r)' = Top(r)
    BY <1>9 DEF Executes, In, Top
  <2> QED BY <1>10, <2>1, <2>2, <2>3, AskedStays
<1> QED BY <1>7, <1>15, <1>16, <1>17, <1>18, <1>19, <1>20, <1>21, <1>22, <1>23, <1>24, <1>25
        DEF WalkInv, CallInv

LEMMA ConsiderInv ==
  ASSUME PrepInv, NEW th \in Pool, Consider(th)
  PROVE  StackTyped' /\ WalkInv' /\ CallInv' /\ TaskInv' /\ AllAsked'
<1> USE DEF PrepInv
<1>1. PICK n \in Top(th).todo : \E answer \in Answers[n] \ {"error"} :
        /\ resolved' = [resolved EXCEPT ![n] = @ + 1]
        /\ Become(th, [Top(th) EXCEPT !.todo = @ \ {n}, !.node = n, !.deps = Deps[n],
                                      !.at = answer])
  BY DEF Consider
<1>2. PICK answer \in Answers[n] \ {"error"} :
        /\ resolved' = [resolved EXCEPT ![n] = @ + 1]
        /\ Become(th, [Top(th) EXCEPT !.todo = @ \ {n}, !.node = n, !.deps = Deps[n],
                                      !.at = answer])
  BY <1>1
<1> DEFINE b == [Top(th) EXCEPT !.todo = @ \ {n}, !.node = n, !.deps = Deps[n], !.at = answer]
<1>3. /\ In(th, "batch") /\ Top(th).at = "next" /\ Goto(th, <<b>>)
      /\ UNCHANGED <<topoVars, loopVars, runVars, callback>>
  BY <1>2 DEF Consider, At, Become
<1>4. /\ Busy(th) /\ Bottom(th) = Top(th) /\ Top(th) \in BatchFrames /\ n \in Node
      /\ Calls(th) = {Top(th)} /\ Owns(th) = {} /\ n \in Todo(th) /\ Todo(th) = Top(th).todo
      /\ New(th) = Top(th).new
  <2>1. Busy(th) /\ Bottom(th) = Top(th) /\ Top(th) \in BatchFrames /\ Calls(th) = {Top(th)}
    BY <1>3, BatchTop
  <2> QED BY <1>3, <2>1 DEF BatchFrames, Owns, Todo, New
<1>5. answer \in {"restore", "run"} /\ Deps[n] \in SUBSET Node
  BY <1>2, <1>4, GraphAssumption
<1>6. /\ b \in BatchFrames /\ b.todo = Top(th).todo \ {n} /\ b.node = n /\ b.at = answer
      /\ b.deps = Deps[n] /\ b.new = Top(th).new /\ b.op = "batch" /\ Top(th).op = "batch"
  BY <1>4, <1>5 DEF BatchFrames
<1> HIDE DEF b
<1>7. stack' = [stack EXCEPT ![th] = <<b>>]
  <2>1. <<b>> \in Seq(BatchFrames \cup CallFrames)
    BY <1>6
  <2> QED BY <1>3, <2>1, GotoBatch
<1>8. StackTyped' /\ Busy(th)' /\ Bottom(th)' = b /\ Calls(th)' = {b}
  BY <1>6, <1>7, BatchMoves
<1>9. Todo(th)' = Todo(th) \ {n} /\ New(th)' = New(th) /\ Owns(th)' = {n}
  BY <1>4, <1>5, <1>6, <1>8 DEF Todo, New, Owns
<1>10. /\ \A r \in Runner : stack'[r] = stack[r]
       /\ \A t \in Pool : t # th =>
            /\ (Busy(t)' <=> Busy(t)) /\ Bottom(t)' = Bottom(t) /\ Calls(t)' = Calls(t)
            /\ Todo(t)' = Todo(t) /\ New(t)' = New(t) /\ Owns(t)' = Owns(t)
  BY <1>7, PoolMoves
<1>11. n \in seen /\ resolved[n] = 0 /\ n \notin scheduled
  BY <1>4 DEF WalkInv, Placed
<1>12. resolved' \in [Node -> Nat] /\ resolved'[n] = 1 /\ \A m \in Node : m # n => resolved'[m] = resolved[m]
  BY <1>2, <1>4, <1>11 DEF WalkInv, LoopTyped
<1>13. Alone' /\ LoopTyped'
  BY <1>3, <1>12 DEF WalkInv, Alone, LoopTyped, topoVars, loopVars
<1>14. Placed'
  <2>1. \A B \in batches : n \notin B
    BY <1>4 DEF WalkInv, OnePlace
  <2>2. \A t \in Pool : t # th => n \notin Todo(t)
    BY <1>4 DEF WalkInv, OnePlace
  <2>3. \A t \in Pool : \A m \in Todo(t)' : m # n /\ m \in seen /\ resolved[m] = 0 /\ m \in Node
    BY <1>9, <1>10, <2>2 DEF WalkInv, Placed, LoopTyped
  <2>4. \A t \in Pool : \A m \in Owns(t)' : m \in seen /\ resolved'[m] = 1 /\ m \notin scheduled
    BY <1>9, <1>10, <1>11, <1>12 DEF WalkInv, Placed, LoopTyped
  <2>5. \A B \in batches : \A m \in B : m \in seen /\ m \in Node /\ resolved[m] = 0
    BY DEF WalkInv, Placed, LoopTyped
  <2>6. \A m \in scheduled : m \in seen /\ m \in Node /\ resolved[m] = 1
    BY DEF WalkInv, Placed, LoopTyped
  <2> QED BY <1>3, <1>11, <1>12, <2>1, <2>3, <2>4, <2>5, <2>6 DEF WalkInv, Placed, topoVars, loopVars
<1>15. OnePlace'
  <2>1. \A t \in Pool : Todo(t)' \subseteq Todo(t)
    BY <1>9, <1>10
  <2>2. \A t \in Pool : t # th => n \notin Owns(t)'
    BY <1>10, <1>11 DEF WalkInv, Placed
  <2>3. \A t1, t2 \in Pool : t1 # t2 => Owns(t1)' \cap Owns(t2)' = {}
    BY <1>9, <1>10, <2>2 DEF WalkInv, OnePlace
  <2>4. \A t1, t2 \in Pool : t1 # t2 => Todo(t1)' \cap Todo(t2)' = {}
    BY <2>1 DEF WalkInv, OnePlace
  <2>5. \A t \in Pool, B \in batches : B \cap Todo(t)' = {}
    BY <2>1 DEF WalkInv, OnePlace
  <2> QED BY <1>3, <2>3, <2>4, <2>5 DEF WalkInv, OnePlace, loopVars
<1>16. Found'
  <2>1. \A t \in Pool : \A m \in New(t)' :
          m \in added' \/ (Bottom(t)'.at = "add" /\ m = Bottom(t)'.dep)
    BY <1>3, <1>4, <1>9, <1>10 DEF WalkInv, Found, topoVars
  <2> QED BY <1>3, <1>11, <2>1 DEF WalkInv, Found, loopVars, topoVars
<1>17. NoneLost'
  <2>1. \A t \in Pool : New(t)' = New(t) /\ Todo(t) \cup Owns(t) \subseteq Todo(t)' \cup Owns(t)'
    BY <1>4, <1>9, <1>10
  <2> QED BY <1>3, <2>1 DEF WalkInv, NoneLost, loopVars, topoVars
<1>18. LoopDone'
  BY <1>3, <1>4 DEF WalkInv, LoopDone, loopVars
<1>19. Linked'
  <2>1. deps[n] = {}
    BY <1>4, <1>11 DEF WalkInv, Linked
  <2>2. LinkedAt(th)'
    BY <1>3, <1>4, <1>5, <1>6, <1>8, <2>1 DEF LinkedAt, topoVars
  <2>3. \A t \in Pool : Busy(t)' => LinkedAt(t)'
    BY <1>3, <1>10, <2>2 DEF WalkInv, Linked, LinkedAt, topoVars, runVars
  <2>4. \A m \in Node : resolved'[m] = 0 => resolved[m] = 0
    BY <1>12
  <2> QED BY <1>3, <2>3, <2>4 DEF WalkInv, Linked, topoVars
<1>20. CallInv'
  <2>1. \A t \in Pool : \A c : c.op # "batch" => (c \in Calls(t)' <=> c \in Calls(t))
    BY <1>4, <1>6, <1>8, <1>10
  <2> QED BY <1>3, <2>1, CallsStay DEF topoVars, runVars, loopVars
<1>21. TaskInv'
  BY <1>3, <1>10, TasksStay DEF TaskInv, TasksTyped, runVars
<1>22. AllAsked'
  <2>1. \A t \in Pool, m \in Node : Walks(t, m) => Walks(t, m)'
    BY <1>4, <1>10 DEF Walks
  <2> QED BY <1>3, <1>10, <2>1, AskedSame DEF topoVars, loopVars
<1> QED BY <1>8, <1>13, <1>14, <1>15, <1>16, <1>17, <1>18, <1>19, <1>20, <1>21, <1>22 DEF WalkInv

(* A thread that is done with its batch, or fails: nothing is left with it.*)
LEMMA ThreadEnds ==
  ASSUME PrepInv, NEW th \in Pool, Busy(th), stack' = [stack EXCEPT ![th] = <<>>],
         UNCHANGED <<topoVars, toProcess, seen, batches, done, task, joint, begun, callback>>
  PROVE  /\ StackTyped' /\ Alone' /\ OnePlace' /\ LoopDone'
         /\ Todo(th)' = {} /\ New(th)' = {} /\ Owns(th)' = {}
         /\ \A r \in Runner : stack'[r] = stack[r]
         /\ \A t \in Pool : t # th =>
              /\ (Busy(t)' <=> Busy(t)) /\ Bottom(t)' = Bottom(t) /\ Calls(t)' = Calls(t)
              /\ Todo(t)' = Todo(t) /\ New(t)' = New(t) /\ Owns(t)' = Owns(t)
         /\ ~ Busy(th)' /\ Calls(th)' = {} /\ seen # {}
         /\ \A t \in Pool : Busy(t)' => LinkedAt(t)'
<1> USE DEF PrepInv
<1>1. StackTyped' /\ ~ Busy(th)' /\ Calls(th)' = {}
  BY ThreadStops
<1>2. Todo(th)' = {} /\ New(th)' = {} /\ Owns(th)' = {}
  BY <1>1 DEF Todo, New, Owns
<1>3. /\ \A r \in Runner : stack'[r] = stack[r]
      /\ \A t \in Pool : t # th =>
           /\ (Busy(t)' <=> Busy(t)) /\ Bottom(t)' = Bottom(t) /\ Calls(t)' = Calls(t)
           /\ Todo(t)' = Todo(t) /\ New(t)' = New(t) /\ Owns(t)' = Owns(t)
  BY PoolMoves
<1>4. Alone' /\ OnePlace'
  BY <1>2, <1>3 DEF WalkInv, Alone, OnePlace, topoVars
<1>5. LoopDone' /\ seen # {}
  BY DEF WalkInv, LoopDone, Found
<1>6. \A t \in Pool : Busy(t)' => LinkedAt(t)'
  BY <1>1, <1>3 DEF WalkInv, Linked, LinkedAt, topoVars
<1> QED BY <1>1, <1>2, <1>3, <1>4, <1>5, <1>6

LEMMA EndInv ==
  ASSUME PrepInv, NEW th \in Pool, End(th)
  PROVE  StackTyped' /\ WalkInv' /\ CallInv' /\ TaskInv' /\ AllAsked'
<1> USE DEF PrepInv
<1>1. /\ In(th, "batch") /\ Top(th).at = "next" /\ Top(th).todo = {}
      /\ found' = found \cup Top(th).new /\ Goto(th, <<>>)
      /\ UNCHANGED <<topoVars, toProcess, seen, batches, failed, done, runVars, callback, resolved>>
  BY DEF End, At
<1>2. /\ Busy(th) /\ Bottom(th) = Top(th) /\ Top(th) \in BatchFrames /\ Calls(th) = {Top(th)}
      /\ New(th) = Top(th).new /\ Todo(th) = {} /\ Owns(th) = {} /\ Top(th).op = "batch"
  <2>1. Busy(th) /\ Bottom(th) = Top(th) /\ Top(th) \in BatchFrames /\ Calls(th) = {Top(th)}
    BY <1>1, BatchTop
  <2> QED BY <1>1, <2>1 DEF New, Todo, Owns, BatchFrames
<1>3. stack' = [stack EXCEPT ![th] = <<>>]
  <2>1. <<>> \in Seq(BatchFrames \cup CallFrames)
    OBVIOUS
  <2> QED BY <1>1, <2>1, GotoBatch
<1>4. /\ StackTyped' /\ Alone' /\ OnePlace' /\ LoopDone'
      /\ Todo(th)' = {} /\ New(th)' = {} /\ Owns(th)' = {}
      /\ \A r \in Runner : stack'[r] = stack[r]
      /\ \A t \in Pool : t # th =>
           /\ (Busy(t)' <=> Busy(t)) /\ Bottom(t)' = Bottom(t) /\ Calls(t)' = Calls(t)
           /\ Todo(t)' = Todo(t) /\ New(t)' = New(t) /\ Owns(t)' = Owns(t)
      /\ ~ Busy(th)' /\ Calls(th)' = {} /\ seen # {}
      /\ \A t \in Pool : Busy(t)' => LinkedAt(t)'
  BY <1>1, <1>2, <1>3, ThreadEnds DEF runVars
<1>5. \A t \in Pool : Todo(t)' = Todo(t) /\ Owns(t)' = Owns(t)
  BY <1>2, <1>4
<1>6. New(th) \subseteq added /\ New(th) \in SUBSET Node
  BY <1>1, <1>2 DEF WalkInv, Found, BatchFrames
<1>7. LoopTyped' /\ Placed'
  BY <1>1, <1>2, <1>5, <1>6 DEF WalkInv, LoopTyped, Placed, topoVars
<1>8. Found'
  BY <1>1, <1>2, <1>4, <1>6 DEF WalkInv, Found, topoVars
<1>9. NoneLost'
  BY <1>1, <1>2, <1>4, <1>5 DEF WalkInv, NoneLost, topoVars
<1>10. Linked'
  BY <1>1, <1>4 DEF WalkInv, Linked, topoVars
<1>11. CallInv'
  <2>1. \A t \in Pool : \A c : c.op # "batch" => (c \in Calls(t)' <=> c \in Calls(t))
    BY <1>2, <1>4
  <2> QED BY <1>1, <2>1, CallsStay DEF topoVars, runVars
<1>12. TaskInv'
  BY <1>1, <1>4, TasksStay DEF TaskInv, TasksTyped, runVars
<1>13. AllAsked'
  <2>1. \A t \in Pool, m \in Node : Walks(t, m) => Walks(t, m)'
    BY <1>2, <1>4 DEF Walks
  <2> QED BY <1>1, <1>4, <2>1, AskedSame DEF topoVars
<1> QED BY <1>4, <1>7, <1>8, <1>9, <1>10, <1>11, <1>12, <1>13 DEF WalkInv

(* A failure: nothing has to be kept that only holds unless a thread fails.*)
LEMMA FailureInv ==
  ASSUME PrepInv, NEW th \in Pool, ResolveError(th) \/ RestoreAborts(th) \/ RunNodeAborts(th)
  PROVE  StackTyped' /\ WalkInv' /\ CallInv' /\ TaskInv' /\ AllAsked'
<1> USE DEF PrepInv
<1>1. /\ UNCHANGED <<topoVars, toProcess, seen, batches, found, done, task, joint, begun, callback>>
      /\ failed' = TRUE /\ stopped' = TRUE
  <2>1. CASE ResolveError(th)
    BY <2>1 DEF ResolveError
  <2>2. CASE RestoreAborts(th) \/ RunNodeAborts(th)
    <3>1. stopped /\ stopped \in BOOLEAN
      BY <2>2 DEF RestoreAborts, Abort, RunNodeAborts, TaskInv, TasksTyped
    <3>2. stopped = TRUE
      BY <3>1
    <3> QED BY <2>2, <3>2 DEF RestoreAborts, Abort, RunNodeAborts, runVars
  <2> QED BY <2>1, <2>2
<1>2. Busy(th) /\ stack' = [stack EXCEPT ![th] = <<>>]
  <2>1. CASE ResolveError(th)
    <3>1. In(th, "batch") /\ Goto(th, <<>>)
      BY <2>1 DEF ResolveError, At
    <3>2. <<>> \in Seq(BatchFrames \cup CallFrames)
      OBVIOUS
    <3> QED BY <3>1, <3>2, GotoBatch, BatchTop
  <2>2. CASE RestoreAborts(th) \/ RunNodeAborts(th)
    BY <2>2 DEF RestoreAborts, RunNodeAborts, Abort, At, In, Busy
  <2> QED BY <2>1, <2>2
<1>3. /\ StackTyped' /\ Alone' /\ OnePlace' /\ LoopDone'
      /\ Todo(th)' = {} /\ New(th)' = {} /\ Owns(th)' = {}
      /\ \A r \in Runner : stack'[r] = stack[r]
      /\ \A t \in Pool : t # th =>
           /\ (Busy(t)' <=> Busy(t)) /\ Bottom(t)' = Bottom(t) /\ Calls(t)' = Calls(t)
           /\ Todo(t)' = Todo(t) /\ New(t)' = New(t) /\ Owns(t)' = Owns(t)
      /\ ~ Busy(th)' /\ Calls(th)' = {} /\ seen # {}
      /\ \A t \in Pool : Busy(t)' => LinkedAt(t)'
  BY <1>1, <1>2, ThreadEnds
<1>4. LoopTyped' /\ Placed' /\ \A m \in Node : resolved'[m] = 0 => resolved[m] = 0
  <2>1. CASE ResolveError(th)
    <3>1. PICK n \in Top(th).todo : resolved' = [resolved EXCEPT ![n] = @ + 1]
      BY <2>1 DEF ResolveError
    <3>2. Bottom(th) = Top(th) /\ Bottom(th) \in BatchFrames
      BY <2>1, BatchTop DEF ResolveError, At
    <3>3. n \in Todo(th) /\ n \in Node
      BY <1>2, <3>2 DEF Todo, BatchFrames
    <3>4. n \in seen /\ resolved[n] = 0 /\ n \notin scheduled
      BY <3>3 DEF WalkInv, Placed
    <3>5. /\ resolved' \in [Node -> Nat] /\ resolved'[n] = 1
          /\ \A m \in Node : m # n => resolved'[m] = resolved[m]
      BY <3>1, <3>3, <3>4 DEF WalkInv, LoopTyped
    <3>6. \A B \in batches : n \notin B
      BY <3>3 DEF WalkInv, OnePlace
    <3>7. \A t \in Pool : t # th => n \notin Todo(t)
      BY <3>3 DEF WalkInv, OnePlace
    <3>8. \A t \in Pool : \A m \in Todo(t)' : m # n /\ m \in seen /\ resolved[m] = 0 /\ m \in Node
      BY <1>3, <3>7 DEF WalkInv, Placed, LoopTyped
    <3>9. \A t \in Pool : \A m \in Owns(t)' :
            m \in seen /\ m \in Node /\ resolved[m] = 1 /\ m \notin scheduled
      BY <1>3 DEF WalkInv, Placed, LoopTyped
    <3>10. \A B \in batches : \A m \in B : m \in seen /\ m \in Node /\ resolved[m] = 0
      BY DEF WalkInv, Placed, LoopTyped
    <3>11. \A m \in scheduled : m \in seen /\ m \in Node /\ resolved[m] = 1
      BY DEF WalkInv, Placed, LoopTyped
    <3>12. Placed'
      BY <1>1, <3>4, <3>5, <3>6, <3>8, <3>9, <3>10, <3>11 DEF WalkInv, Placed, topoVars
    <3> QED BY <1>1, <3>5, <3>12 DEF WalkInv, LoopTyped
  <2>2. CASE RestoreAborts(th) \/ RunNodeAborts(th)
    <3>1. resolved' = resolved
      BY <2>2 DEF RestoreAborts, RunNodeAborts, Abort
    <3>2. LoopTyped'
      BY <1>1, <3>1 DEF WalkInv, LoopTyped
    <3>3. \A t \in Pool : Todo(t)' \subseteq Todo(t) /\ Owns(t)' \subseteq Owns(t)
      BY <1>3
    <3> QED BY <1>1, <3>1, <3>2, <3>3 DEF WalkInv, Placed, topoVars
  <2> QED BY <2>1, <2>2
<1>5. Found'
  BY <1>1, <1>3 DEF WalkInv, Found, topoVars
<1>6. NoneLost' /\ NoCallLost' /\ AllAsked'
  BY <1>1 DEF NoneLost, NoCallLost, AllAsked
<1>7. Linked'
  BY <1>1, <1>3, <1>4 DEF WalkInv, Linked, topoVars
<1>8. Tasked'
  <2>1. \A t \in Pool : \A c \in Calls(t)' : c \in Calls(t)
    BY <1>3
  <2> QED BY <1>1, <2>1 DEF CallInv, Tasked, topoVars
<1>9. TaskInv'
  BY <1>1, <1>3, TasksStay
<1> QED BY <1>3, <1>4, <1>5, <1>6, <1>7, <1>8, <1>9 DEF WalkInv, CallInv

-----------------------------------------------------------------------------
(* The callbacks. *)

(* A callback moves no node of the walk. *)
LEMMA CallStep ==
  ASSUME PrepInv, NEW th \in Pool, In(th, "fire") \/ In(th, "notify"),
         NEW fs \in Seq(CallFrames), Goto(th, fs),
         UNCHANGED <<loopVars, joint, begun, stopped, callback, resolved>>,
         UNCHANGED <<added, scheduled, deps, group>>,
         \A n \in Node : task[n] # None => task'[n] # None,
         \A n \in Node : task'[n] # None => task[n] # None \/ n \in added
  PROVE  /\ StackTyped' /\ WalkInv' /\ AllAsked'
         /\ \A r \in Runner : stack'[r] = stack[r]
         /\ \A t \in Pool : t # th => Calls(t)' = Calls(t)
         /\ \A c \in Calls(th) : c # Top(th) => c \in Calls(th)'
         /\ \A i \in 1 .. Len(fs) : fs[i] \in Calls(th)'
         /\ \A c \in Calls(th)' : c \in Calls(th) \/ \E i \in 1 .. Len(fs) : c = fs[i]
<1> USE DEF PrepInv
<1>1. /\ StackTyped' /\ Busy(th)' /\ Bottom(th)' = Bottom(th) /\ Busy(th)
      /\ \A c \in Calls(th) : c # Top(th) => c \in Calls(th)'
      /\ \A i \in 1 .. Len(fs) : fs[i] \in Calls(th)'
      /\ \A c \in Calls(th)' : c \in Calls(th) \/ \E i \in 1 .. Len(fs) : c = fs[i]
  BY Replace, CallTop
<1>2. stack' = [stack EXCEPT ![th] = fs \o Tail(@)]
  BY DEF Goto
<1>3. stack' = [stack EXCEPT ![th] = fs \o Tail(stack[th])]
  BY <1>2
<1>4. /\ \A r \in Runner : stack'[r] = stack[r]
      /\ \A t \in Pool : t # th =>
           (Busy(t)' <=> Busy(t)) /\ Bottom(t)' = Bottom(t) /\ Calls(t)' = Calls(t)
  BY <1>3, PoolMoves
<1>5. \A t \in Pool : (Busy(t)' <=> Busy(t)) /\ Bottom(t)' = Bottom(t)
  BY <1>1, <1>4
<1>6. WalkInv'
  BY <1>5, WalkStays
<1>7. AllAsked'
  <2>1. \A t \in Pool, m \in Node : Walks(t, m) => Walks(t, m)'
    BY <1>5 DEF Walks, Owns
  <2>2. \A r \in Runner, m \in Node : Executes(r, m) => Executes(r, m)' /\ Top(r)' = Top(r)
    BY <1>4 DEF Executes, In, Top
  <2>3. failed' = failed
    BY DEF loopVars
  <2> QED BY <2>1, <2>2, <2>3, AskedStays
<1> QED BY <1>1, <1>4, <1>6, <1>7

LEMMA FireInv ==
  ASSUME PrepInv, NEW th \in Pool, Fire(th)
  PROVE  StackTyped' /\ WalkInv' /\ CallInv' /\ TaskInv' /\ AllAsked'
<1> USE DEF PrepInv
<1>1. /\ In(th, "fire") /\ Top(th).nodes = {} /\ Goto(th, <<>>)
      /\ UNCHANGED <<topoVars, loopVars, runVars, callback, resolved>>
  BY DEF Fire
<1>2. <<>> \in Seq(CallFrames) /\ \A i \in 1 .. Len(<<>>) : FALSE
  OBVIOUS
<1>3. /\ StackTyped' /\ WalkInv' /\ AllAsked'
      /\ \A r \in Runner : stack'[r] = stack[r]
      /\ \A t \in Pool : t # th => Calls(t)' = Calls(t)
      /\ \A c \in Calls(th) : c # Top(th) => c \in Calls(th)'
      /\ \A c \in Calls(th)' : c \in Calls(th)
  BY <1>1, <1>2, CallStep DEF topoVars, runVars
<1>4. Tasked'
  BY <1>1, <1>3 DEF CallInv, Tasked, topoVars, runVars
<1>5. NoCallLost'
  <2> SUFFICES ASSUME ~ failed', NEW m \in Node, fired'[m] > 0, m \notin semi'
               PROVE  \E t \in Pool : \E c \in Calls(t)' : Handles(c, m)
    BY DEF NoCallLost, Handles
  <2>1. PICK t \in Pool : \E c \in Calls(t) : Handles(c, m)
    BY <1>1 DEF CallInv, NoCallLost, topoVars, loopVars
  <2>2. PICK c \in Calls(t) : Handles(c, m)
    BY <2>1
  <2>3. t = th => c # Top(th)
    BY <1>1, <2>2 DEF Handles, In
  <2> QED BY <1>3, <2>2, <2>3
<1>6. TaskInv'
  BY <1>1, <1>3, TasksStay DEF TaskInv, TasksTyped, runVars
<1> QED BY <1>3, <1>4, <1>5, <1>6 DEF CallInv

LEMMA AddRunNodeInv ==
  ASSUME PrepInv, NEW th \in Pool, AddRunNode(th)
  PROVE  StackTyped' /\ WalkInv' /\ CallInv' /\ TaskInv' /\ AllAsked'
<1> USE DEF PrepInv
<1>1. PICK n \in Top(th).nodes :
        /\ callback[n] = "add_run_node"
        /\ \A x \in Deps[n] : task[x] # None
        /\ Cache(n, "run")
        /\ Goto(th, <<NotifyFrame(n), FireFrame(Top(th).nodes \ {n})>>)
  BY DEF AddRunNode
<1> DEFINE N == NotifyFrame(n)
<1> DEFINE F == FireFrame(Top(th).nodes \ {n})
<1>2. In(th, "fire") /\ UNCHANGED <<topoVars, loopVars, joint, begun, stopped, callback, resolved>>
  BY DEF AddRunNode
<1>3. Top(th) \in CallFrames /\ Top(th) \in Calls(th) /\ Top(th).op = "fire"
  BY <1>2, CallTop DEF In
<1>4. Top(th).nodes \in SUBSET Node /\ n \in Node
  BY <1>3, CallsTyped
<1>5. /\ N \in CallFrames /\ F \in CallFrames /\ N.op = "notify" /\ N.node = n
      /\ F.op = "fire" /\ F.nodes = Top(th).nodes \ {n}
  BY <1>4 DEF NotifyFrame, FireFrame, CallFrames
<1>6. Goto(th, <<N, F>>)
  BY <1>1
<1> HIDE DEF N, F
<1>7. PICK fs \in Seq(CallFrames) : fs = <<N, F>>
  <2>1. <<N, F>> \in Seq(CallFrames)
    BY <1>5
  <2> QED BY <2>1, Zenon
<1>8. Len(fs) = 2 /\ fs[1] = N /\ fs[2] = F /\ Goto(th, fs)
  BY <1>6, <1>7
<1>9. /\ \A m \in Node : task[m] # None => task'[m] # None
      /\ task'[n] # None /\ \A m \in Node : m # n => task'[m] = task[m]
  BY <1>1, <1>4, Cached DEF TaskInv, Kinds
<1>10. n \in added
  <2>1. fired[n] > 0
    BY <1>3 DEF CallInv, Tasked
  <2> QED BY <1>4, <2>1 DEF TopoInv, FiredReady
<1>11. \A i \in 1 .. 2 : i = 1 \/ i = 2
  OBVIOUS
<1>12. /\ StackTyped' /\ WalkInv' /\ AllAsked'
       /\ \A r \in Runner : stack'[r] = stack[r]
       /\ \A t \in Pool : t # th => Calls(t)' = Calls(t)
       /\ \A c \in Calls(th) : c # Top(th) => c \in Calls(th)'
       /\ \A i \in 1 .. Len(fs) : fs[i] \in Calls(th)'
       /\ \A c \in Calls(th)' : c \in Calls(th) \/ \E i \in 1 .. Len(fs) : c = fs[i]
  BY <1>2, <1>9, <1>10, <1>8, CallStep DEF topoVars
<1>13. N \in Calls(th)' /\ F \in Calls(th)' /\ \A c \in Calls(th)' : c \in Calls(th) \/ c = N \/ c = F
  <2>1. 1 \in 1 .. 2 /\ 2 \in 1 .. 2
    OBVIOUS
  <2> QED BY <1>11, <1>12, <1>8, <2>1, Zenon
<1>14. Tasked'
  <2>1. ASSUME NEW t \in Pool, NEW c \in Calls(t)'
        PROVE  /\ c.op = "fire" => \A m \in c.nodes : fired'[m] > 0
               /\ c.op = "notify" => task'[c.node] # None
    <3>1. CASE c \in Calls(t)
      BY <1>2, <1>9, <3>1, CallsTyped DEF CallInv, Tasked, topoVars
    <3>2. CASE t = th /\ (c = N \/ c = F)
      BY <1>2, <1>3, <1>5, <1>9, <3>2 DEF CallInv, Tasked, topoVars
    <3> QED BY <1>12, <1>13, <2>1, <3>1, <3>2
  <2>2. \A m \in Node : callback'[m] = "notify" \/ m \in semi' => task'[m] # None
    BY <1>2, <1>9 DEF CallInv, Tasked, topoVars
  <2> QED BY <2>1, <2>2 DEF Tasked
<1>15. NoCallLost'
  <2> SUFFICES ASSUME ~ failed', NEW m \in Node, fired'[m] > 0, m \notin semi'
               PROVE  \E t \in Pool : \E c \in Calls(t)' : Handles(c, m)
    BY DEF NoCallLost, Handles
  <2>1. PICK t \in Pool : \E c \in Calls(t) : Handles(c, m)
    BY <1>2 DEF CallInv, NoCallLost, topoVars, loopVars
  <2>2. PICK c \in Calls(t) : Handles(c, m)
    BY <2>1
  <2>3. CASE t = th /\ c = Top(th)
    BY <1>3, <1>5, <1>13, <2>2, <2>3 DEF Handles
  <2>4. CASE ~ (t = th /\ c = Top(th))
    BY <1>12, <2>2, <2>4
  <2> QED BY <2>3, <2>4
<1>16. TaskInv'
  BY <1>1, <1>2, <1>4, <1>12, TasksCached DEF Kinds
<1> QED BY <1>12, <1>14, <1>15, <1>16 DEF CallInv

(* A notification: its node is semi-completed, and the thread runs what    *)
(* this made ready, after what it had to run before.                       *)
LEMMA NotifyInv ==
  ASSUME PrepInv, NEW th \in Pool, Notify(th)
  PROVE  StackTyped' /\ WalkInv' /\ CallInv' /\ TaskInv' /\ AllAsked'
<1> USE DEF PrepInv
<1>1. PICK S \in SUBSET Node : S = NewlyFired
  BY DEF NewlyFired
<1> DEFINE F == FireFrame(S)
<1>2. F \in CallFrames /\ F.op = "fire" /\ F.nodes = S
  BY DEF FireFrame, CallFrames
<1> HIDE DEF F
<1>3. /\ UNCHANGED <<loopVars, runVars, callback, resolved>>
      /\ In(th, "fire") \/ In(th, "notify")
  BY DEF Notify
<1>4. Top(th) \in Calls(th)
  BY <1>3, CallTop
<1>5. PICK n \in Node, fs \in Seq(CallFrames) :
        /\ NotifyDependants(n) /\ Goto(th, fs) /\ task[n] # None
        /\ \E i \in 1 .. Len(fs) : fs[i] = F
        /\ \A i \in 1 .. Len(fs) : \/ fs[i] = F
                                   \/ fs[i].op = "fire" /\ fs[i].nodes \subseteq Top(th).nodes
                                        /\ Top(th).op = "fire"
        /\ \A m \in Node : Handles(Top(th), m) =>
             m = n \/ \E i \in 1 .. Len(fs) : Handles(fs[i], m)
  <2>1. CASE In(th, "notify") /\ NotifyDependants(Top(th).node) /\ Goto(th, <<FireFrame(NewlyFired)>>)
    <3>1. Top(th).op = "notify" /\ Top(th).node \in Node /\ task[Top(th).node] # None
      BY <1>4, <2>1, CallsTyped DEF In, CallInv, Tasked
    <3>2. PICK fs \in Seq(CallFrames) : fs = <<F>>
      <4>1. <<F>> \in Seq(CallFrames)
        BY <1>2
      <4> QED BY <4>1, Zenon
    <3>3. Len(fs) = 1 /\ fs[1] = F /\ Goto(th, fs)
      BY <1>1, <2>1, <3>2 DEF F
    <3>4. 1 \in 1 .. 1 /\ \A i \in 1 .. 1 : i = 1
      OBVIOUS
    <3>5. \A m \in Node : Handles(Top(th), m) => m = Top(th).node
      BY <3>1 DEF Handles
    <3>6. (\E i \in 1 .. Len(fs) : fs[i] = F) /\ (\A i \in 1 .. Len(fs) : fs[i] = F)
      BY <3>3, <3>4, Zenon
    <3> QED BY <2>1, <3>1, <3>3, <3>5, <3>6, Zenon
  <2>2. CASE In(th, "fire") /\ \E n \in Top(th).nodes :
               /\ callback[n] = "notify" /\ NotifyDependants(n)
               /\ Goto(th, <<FireFrame(NewlyFired), FireFrame(Top(th).nodes \ {n})>>)
    <3>1. PICK n \in Top(th).nodes :
            /\ callback[n] = "notify" /\ NotifyDependants(n)
            /\ Goto(th, <<FireFrame(NewlyFired), FireFrame(Top(th).nodes \ {n})>>)
      BY <2>2
    <3>2. Top(th).op = "fire" /\ Top(th).nodes \in SUBSET Node /\ n \in Node /\ task[n] # None
      BY <1>4, <2>2, <3>1, CallsTyped DEF In, CallInv, Tasked
    <3> DEFINE G == FireFrame(Top(th).nodes \ {n})
    <3>3. G \in CallFrames /\ G.op = "fire" /\ G.nodes = Top(th).nodes \ {n}
      BY <3>2 DEF FireFrame, CallFrames
    <3>4. Goto(th, <<F, G>>)
      BY <1>1, <3>1 DEF F
    <3> HIDE DEF G
    <3>5. PICK fs \in Seq(CallFrames) : fs = <<F, G>>
      <4>1. <<F, G>> \in Seq(CallFrames)
        BY <1>2, <3>3
      <4> QED BY <4>1, Zenon
    <3>6. Len(fs) = 2 /\ fs[1] = F /\ fs[2] = G /\ Goto(th, fs)
      BY <3>4, <3>5
    <3>7. 1 \in 1 .. 2 /\ 2 \in 1 .. 2 /\ \A i \in 1 .. 2 : i = 1 \/ i = 2
      OBVIOUS
    <3>8. \A m \in Node : Handles(Top(th), m) => m = n \/ Handles(G, m)
      BY <3>2, <3>3 DEF Handles
    <3>9. (\E i \in 1 .. Len(fs) : fs[i] = F) /\ (\A i \in 1 .. Len(fs) : fs[i] = F \/ fs[i] = G)
          /\ (\E i \in 1 .. Len(fs) : fs[i] = G)
      BY <3>6, <3>7, Zenon
    <3>10. \A m \in Node : Handles(Top(th), m) => m = n \/ \E i \in 1 .. Len(fs) : Handles(fs[i], m)
      BY <3>8, <3>9, Zenon
    <3>11. G.nodes \subseteq Top(th).nodes
      BY <3>3
    <3>12. \A i \in 1 .. Len(fs) : \/ fs[i] = F
                                   \/ fs[i].op = "fire" /\ fs[i].nodes \subseteq Top(th).nodes
                                        /\ Top(th).op = "fire"
      BY <3>2, <3>3, <3>9, <3>11, Zenon
    <3> QED BY <3>1, <3>2, <3>6, <3>9, <3>10, <3>12, Zenon
  <2> QED BY <2>1, <2>2 DEF Notify
<1>6. /\ UNCHANGED <<added, scheduled, deps, group>> /\ semi' = semi \cup {n}
  BY <1>5 DEF NotifyDependants
<1>7. UNCHANGED <<task, joint, begun, stopped, failed>>
  BY <1>3 DEF runVars, loopVars
<1>8. /\ StackTyped' /\ WalkInv' /\ AllAsked'
      /\ \A r \in Runner : stack'[r] = stack[r]
      /\ \A t \in Pool : t # th => Calls(t)' = Calls(t)
      /\ \A c \in Calls(th) : c # Top(th) => c \in Calls(th)'
      /\ \A i \in 1 .. Len(fs) : fs[i] \in Calls(th)'
      /\ \A c \in Calls(th)' : c \in Calls(th) \/ \E i \in 1 .. Len(fs) : c = fs[i]
  BY <1>3, <1>5, <1>6, <1>7, CallStep
<1>9. /\ \A m \in S : fired'[m] > 0
      /\ \A m \in Node : fired'[m] > 0 => fired[m] > 0 \/ m \in S
      /\ \A m \in Node : fired[m] > 0 => fired'[m] > 0
  <2>1. fired \in [Node -> Nat] /\ fired' \in [Node -> Nat]
    <3>1. TopoInv'
      BY <1>5, NotifyOpenInv, NotifyLastInv
    <3> QED BY <3>1 DEF TopoInv, TopoTypeOK
  <2>2. \A m \in Node : fired'[m] >= fired[m]
    <3>1. ASSUME NEW R, NEW W, CheckReady(R, W) PROVE \A m \in Node : fired'[m] >= fired[m]
      BY <2>1, <3>1 DEF CheckReady
    <3>2. fired' = fired \/ \E R, W : CheckReady(R, W)
      BY <1>5 DEF NotifyDependants, CompleteGroup
    <3> QED BY <2>1, <3>1, <3>2
  <2> QED BY <1>1, <2>1, <2>2 DEF NewlyFired
<1>10. Tasked'
  <2>1. ASSUME NEW t \in Pool, NEW c \in Calls(t)'
        PROVE  /\ c.op = "fire" => \A m \in c.nodes : fired'[m] > 0
               /\ c.op = "notify" => task'[c.node] # None
    <3>1. CASE c \in Calls(t)
      BY <1>7, <1>9, <3>1, CallsTyped DEF CallInv, Tasked
    <3>2. CASE c \notin Calls(t)
      <4>1. t = th /\ \E i \in 1 .. Len(fs) : c = fs[i]
        BY <1>8, <2>1, <3>2
      <4>2. \A m \in Top(th).nodes : Top(th).op = "fire" => fired'[m] > 0
        BY <1>4, <1>9, CallsTyped DEF CallInv, Tasked
      <4> QED BY <1>2, <1>5, <1>9, <4>1, <4>2
    <3> QED BY <3>1, <3>2
  <2>2. \A m \in Node : callback'[m] = "notify" \/ m \in semi' => task'[m] # None
    BY <1>3, <1>5, <1>6, <1>7 DEF CallInv, Tasked
  <2> QED BY <2>1, <2>2 DEF Tasked
<1>11. NoCallLost'
  <2> SUFFICES ASSUME ~ failed', NEW m \in Node, fired'[m] > 0, m \notin semi'
               PROVE  \E t \in Pool : \E c \in Calls(t)' : Handles(c, m)
    BY DEF NoCallLost, Handles
  <2>1. CASE m \in S
    BY <1>2, <1>5, <1>8, <2>1 DEF Handles
  <2>2. CASE m \notin S
    <3>1. fired[m] > 0 /\ ~ failed /\ m \notin semi /\ m # n
      BY <1>6, <1>7, <1>9, <2>2
    <3>2. PICK t \in Pool : \E c \in Calls(t) : Handles(c, m)
      BY <3>1 DEF CallInv, NoCallLost
    <3>3. PICK c \in Calls(t) : Handles(c, m)
      BY <3>2
    <3>4. CASE t = th /\ c = Top(th)
      <4>1. PICK i \in 1 .. Len(fs) : Handles(fs[i], m)
        BY <1>5, <3>1, <3>3, <3>4
      <4> QED BY <1>8, <4>1
    <3>5. CASE ~ (t = th /\ c = Top(th))
      BY <1>8, <3>3, <3>5
    <3> QED BY <3>4, <3>5
  <2> QED BY <2>1, <2>2
<1>12. TaskInv'
  BY <1>7, <1>8, TasksStay DEF TaskInv, TasksTyped
<1> QED BY <1>8, <1>10, <1>11, <1>12 DEF CallInv

-----------------------------------------------------------------------------
(* The tasks of the run queue. *)

(* A task does not touch the walk nor the callbacks.                       *)
LEMMA RunnerMoves ==
  ASSUME PrepInv, NEW r \in Runner, NEW s, stack' = [stack EXCEPT ![r] = s],
         s = <<>> \/ \E f \in ExecFrames : s = <<f>>,
         UNCHANGED <<topoVars, loopVars, stopped, callback, resolved>>,
         \A n \in Node : task[n] # None => task'[n] # None
  PROVE  /\ StackTyped' /\ WalkInv' /\ CallInv' /\ stack'[r] = s
         /\ \A q \in Runner : q # r => stack'[q] = stack[q]
         /\ \A t \in Pool, m \in Node : Walks(t, m) => Walks(t, m)'
<1> USE DEF PrepInv
<1>1. r \in Thread /\ \A t \in Pool : t \in Thread /\ t # r
  BY GraphAssumption DEF Thread
<1>2. \A t \in Thread : t # r =>
        /\ stack'[t] = stack[t] /\ (Busy(t)' <=> Busy(t))
        /\ Bottom(t)' = Bottom(t) /\ Calls(t)' = Calls(t)
        /\ Todo(t)' = Todo(t) /\ New(t)' = New(t) /\ Owns(t)' = Owns(t)
  BY OthersStay
<1>3. stack'[r] = s /\ \A q \in Runner : q # r => stack'[q] = stack[q]
  BY <1>1, <1>2 DEF StackTyped, Thread
<1>4. \A t \in Pool : /\ stack'[t] = stack[t] /\ (Busy(t)' <=> Busy(t))
                      /\ Bottom(t)' = Bottom(t) /\ Calls(t)' = Calls(t) /\ Owns(t)' = Owns(t)
  BY <1>1, <1>2
<1>5. StackTyped'
  <2>1. stack' \in [Thread -> Seq(BatchFrames \cup CallFrames \cup ExecFrames)]
    <3>1. <<>> \in Seq(BatchFrames \cup CallFrames \cup ExecFrames)
      OBVIOUS
    <3>2. \A f \in ExecFrames : <<f>> \in Seq(BatchFrames \cup CallFrames \cup ExecFrames)
      OBVIOUS
    <3>3. s \in Seq(BatchFrames \cup CallFrames \cup ExecFrames)
      BY <3>1, <3>2
    <3> QED BY <3>3 DEF StackTyped
  <2>2. \A t \in Pool : Busy(t)' =>
          /\ Bottom(t)' \in BatchFrames
          /\ \A i \in 1 .. Len(stack'[t]) - 1 : stack'[t][i] \in CallFrames
          /\ Len(stack'[t]) > 1 => Bottom(t)'.at = "next"
    BY <1>4 DEF StackTyped
  <2>3. stack'[r] # <<>> => Len(stack'[r]) = 1 /\ stack'[r][1] \in ExecFrames
    BY <1>3
  <2>4. \A q \in Runner : Busy(q)' => Len(stack'[q]) = 1 /\ stack'[q][1] \in ExecFrames
    BY <1>3, <2>3 DEF StackTyped, Busy
  <2> QED BY <2>1, <2>2, <2>4 DEF StackTyped
<1>6. WalkInv'
  BY <1>4, WalkStays DEF topoVars
<1>7. CallInv'
  <2>1. failed' = failed
    BY DEF loopVars
  <2> QED BY <1>4, <2>1, CallsStay DEF topoVars
<1>8. \A t \in Pool, m \in Node : Walks(t, m) => Walks(t, m)'
  BY <1>4 DEF Walks
<1> QED BY <1>3, <1>5, <1>6, <1>7, <1>8

(* A task that begins goes on to exec_run_node, or is done. *)
LEMMA TaskBegins ==
  ASSUME PrepInv, NEW r \in Runner, Idle(r), NEW n \in Node,
         NEW kind \in {"restore", "prepare"}, Waiting(n, kind),
         begun' = begun \cup {<<n, kind>>},
         UNCHANGED <<topoVars, loopVars, task, stopped, callback, resolved>>,
         \/ stack' = stack /\ joint' = joint
         \/ stack' = [stack EXCEPT ![r] = <<ExecFrame(n)>>] /\ joint' = joint
         \/ /\ kind = "prepare" /\ stack' = stack
            /\ joint' = [joint EXCEPT ![n] = IF stopped THEN @ ELSE @ \cup {"restore"}]
  PROVE  StackTyped' /\ WalkInv' /\ CallInv' /\ TaskInv' /\ AllAsked'
<1> USE DEF PrepInv
<1>1. PICK s : /\ stack' = [stack EXCEPT ![r] = s]
               /\ s = <<>> \/ (s = <<ExecFrame(n)>> /\ joint' = joint)
  <2>1. CASE stack' = stack
    <3>1. stack' = [stack EXCEPT ![r] = <<>>]
      BY <2>1 DEF Idle, StackTyped
    <3> QED BY <3>1
  <2>2. CASE stack' = [stack EXCEPT ![r] = <<ExecFrame(n)>>] /\ joint' = joint
    BY <2>2
  <2> QED BY <2>1, <2>2
<1>2. ExecFrame(n) \in ExecFrames /\ ExecFrame(n).op = "exec" /\ ExecFrame(n).node = n
      /\ ExecFrame(n).deps = Deps[n]
  BY GraphAssumption DEF ExecFrame, ExecFrames
<1>3. s = <<>> \/ \E f \in ExecFrames : s = <<f>>
  BY <1>1, <1>2
<1>4. /\ StackTyped' /\ WalkInv' /\ CallInv' /\ stack'[r] = s
      /\ \A q \in Runner : q # r => stack'[q] = stack[q]
      /\ \A t \in Pool, m \in Node : Walks(t, m) => Walks(t, m)'
  BY <1>1, <1>3, RunnerMoves
<1>5. \A q \in Runner : q # r => (In(q, "exec")' <=> In(q, "exec")) /\ Top(q)' = Top(q)
  BY <1>4 DEF In, Top
<1>6. \A m \in Node : ~ Executes(r, m)
  BY DEF Executes, In, Idle
<1>7. Executes(r, n)' \/ s = <<>>
  BY <1>1, <1>2, <1>4 DEF Executes, In, Top
<1>8. /\ In(r, "exec")' => s = <<ExecFrame(n)>> /\ Top(r)' = ExecFrame(n) /\ joint' = joint
      /\ \A m \in Node : Executes(r, m)' => m = n /\ joint' = joint
  BY <1>1, <1>2, <1>4 DEF Executes, In, Top
<1>9. \A q \in Runner, m \in Node : q # r => (Executes(q, m)' <=> Executes(q, m))
  BY <1>5 DEF Executes
<1>10. /\ joint' \in [Node -> SUBSET {"restore", "run"}]
       /\ \A m \in Node : joint'[m] = joint[m] \/ (m = n /\ kind = "prepare" /\ joint'[m] = joint[m] \cup {"restore"})
  BY DEF TaskInv, TasksTyped
<1>11. TasksTyped'
  BY <1>10 DEF TaskInv, TasksTyped, Kinds
<1>12. task[n] = kind \/ kind \in joint[n]
  BY DEF Waiting
<1>13. /\ "prepare" \notin joint[n] /\ task[n] \in {"restore", "prepare"}
       /\ "run" \notin joint[n] /\ \A q \in Runner : ~ Executes(q, n)
       /\ kind = "prepare" => task[n] = "prepare"
       /\ <<n, kind>> \notin begun
  <2>1. "prepare" \notin joint[n]
    BY DEF TaskInv, TasksTyped
  <2>2. task[n] \in {"restore", "prepare"}
    BY <1>12 DEF TaskInv, OneRunner
  <2> QED BY <1>12, <2>1, <2>2 DEF TaskInv, OneRunner, Waiting
<1>14. /\ \A m \in Node : m # n => \A k : Waiting(m, k)' <=> Waiting(m, k)
       /\ ~ Waiting(n, kind)'
  BY <1>10 DEF Waiting
<1>15. ASSUME joint' = joint PROVE ~ Waiting(n, "restore")' /\ ~ Waiting(n, "prepare")'
  <2>1. CASE kind = "prepare"
    <3>1. task[n] = "prepare" /\ <<n, "prepare">> \notin begun
      BY <1>13, <2>1
    <3>2. "restore" \notin joint[n]
      BY <3>1 DEF TaskInv, OneRunner
    <3> QED BY <1>14, <1>15, <2>1, <3>1, <3>2 DEF Waiting
  <2>2. CASE kind = "restore"
    <3>1. CASE task[n] = "restore"
      BY <1>13, <1>14, <1>15, <2>2, <3>1 DEF Waiting
    <3>2. CASE "restore" \in joint[n]
      <4>1. <<n, "prepare">> \in begun
        BY <3>2 DEF TaskInv, OneRunner
      <4> QED BY <1>14, <2>2, <4>1 DEF Waiting
    <3> QED BY <1>12, <2>2, <3>1, <3>2
  <2> QED BY <2>1, <2>2
<1>16. OneRunner'
  <2>1. \A m \in Node : joint'[m] # {} => task'[m] \in {"restore", "prepare"}
    BY <1>10, <1>13 DEF TaskInv, OneRunner
  <2>2. \A m \in Node : task'[m] = "restore" => "restore" \notin joint'[m]
    BY <1>10, <1>13 DEF TaskInv, OneRunner
  <2>3. \A m \in Node : "restore" \in joint'[m] => <<m, "prepare">> \in begun'
    BY <1>10 DEF TaskInv, OneRunner
  <2>4. \A m \in Node : "run" \in joint'[m] => "run" \in joint[m] /\ m # n
    BY <1>10, <1>13
  <2>5. \A m \in Node : "run" \in joint'[m] =>
          ~ Waiting(m, "restore")' /\ ~ Waiting(m, "prepare")'
    BY <1>14, <2>4 DEF TaskInv, OneRunner
  <2>6. ASSUME NEW q \in Runner, NEW m \in Node, Executes(q, m)'
        PROVE  /\ task'[m] \in {"restore", "prepare"} /\ "run" \notin joint'[m]
               /\ ~ Waiting(m, "restore")' /\ ~ Waiting(m, "prepare")'
    <3>1. CASE q = r
      BY <1>8, <1>10, <1>13, <1>15, <2>6, <3>1
    <3>2. CASE q # r
      BY <1>9, <1>13, <1>14, <2>4, <2>6, <3>2 DEF TaskInv, OneRunner
    <3> QED BY <3>1, <3>2
  <2>7. \A q1, q2 \in Runner, m \in Node : Executes(q1, m)' /\ Executes(q2, m)' => q1 = q2
    BY <1>8, <1>9, <1>13 DEF TaskInv, OneRunner
  <2> QED BY <2>1, <2>2, <2>3, <2>5, <2>6, <2>7 DEF OneRunner
<1>17. DepsTasked'
  <2>1. \A m \in Node : "run" \in joint'[m] => "run" \in joint[m]
    BY <1>10
  <2>2. ASSUME NEW q \in Runner, In(q, "exec")'
        PROVE  /\ Top(q)'.deps \subseteq Deps[Top(q)'.node]
               /\ \A x \in Deps[Top(q)'.node] \ Top(q)'.deps : task'[x] # None
    BY <1>2, <1>5, <1>8, <2>2 DEF TaskInv, DepsTasked
  <2> QED BY <2>1, <2>2 DEF TaskInv, DepsTasked
<1>18. AllAsked'
  <2>1. \A m \in Node : joint[m] \subseteq joint'[m]
    BY <1>10
  <2>2. \A q \in Runner, m \in Node : Executes(q, m) => Executes(q, m)' /\ Top(q)' = Top(q)
    BY <1>5, <1>6, <1>9
  <2>3. failed' = failed /\ added' = added
    BY DEF loopVars, topoVars
  <2> QED BY <1>4, <2>1, <2>2, <2>3, AskedStays
<1> QED BY <1>4, <1>11, <1>16, <1>17, <1>18 DEF TaskInv

LEMMA ExecDepInv ==
  ASSUME PrepInv, NEW r \in Runner, ExecDep(r)
  PROVE  StackTyped' /\ WalkInv' /\ CallInv' /\ TaskInv' /\ AllAsked'
<1> USE DEF PrepInv
<1>1. /\ In(r, "exec") /\ UNCHANGED <<topoVars, loopVars, joint, begun, stopped, callback, resolved>>
  BY DEF ExecDep
<1>2. /\ Top(r) \in ExecFrames /\ Top(r).node \in Node /\ Top(r).deps \in SUBSET Node
      /\ Deps[Top(r).node] \in SUBSET Node /\ Tail(stack[r]) = <<>> /\ Top(r).op = "exec"
  BY <1>1, ExecTop DEF In
<1>3. PICK x \in Top(r).deps :
        \/ stopped /\ Goto(r, <<>>) /\ UNCHANGED task
        \/ Cache(x, "prepare") /\ Become(r, [Top(r) EXCEPT !.deps = @ \ {x}])
  BY DEF ExecDep
<1> DEFINE f == [Top(r) EXCEPT !.deps = @ \ {x}]
<1>4. /\ f \in ExecFrames /\ f.op = "exec" /\ f.node = Top(r).node /\ f.deps = Top(r).deps \ {x}
      /\ x \in Node
  BY <1>2 DEF ExecFrames
<1>5. CASE stopped /\ Goto(r, <<>>) /\ UNCHANGED task
  <2>1. stack' = [stack EXCEPT ![r] = <<>>]
    <3>1. <<>> \o <<>> = <<>>
      OBVIOUS
    <3> QED BY <1>2, <1>5, <3>1 DEF Goto
  <2>2. /\ StackTyped' /\ WalkInv' /\ CallInv' /\ stack'[r] = <<>>
        /\ \A q \in Runner : q # r => stack'[q] = stack[q]
    BY <1>1, <1>5, <2>1, RunnerMoves
  <2>3. ~ In(r, "exec")' /\ \A q \in Runner : q # r => (In(q, "exec")' <=> In(q, "exec")) /\ Top(q)' = Top(q)
    BY <2>2 DEF In, Top
  <2>4. \A q \in Runner, m \in Node : Executes(q, m)' => Executes(q, m)
    BY <2>3 DEF Executes
  <2>5. \A m, k : Waiting(m, k)' <=> Waiting(m, k)
    BY <1>1, <1>5 DEF Waiting
  <2>6. TasksTyped' /\ OneRunner'
    BY <1>1, <1>5, <2>4, <2>5 DEF TaskInv, TasksTyped, OneRunner
  <2>7. DepsTasked'
    BY <1>1, <1>5, <2>3 DEF TaskInv, DepsTasked
  <2>8. AllAsked'
    BY <1>1, <1>5 DEF AllAsked, loopVars
  <2> QED BY <2>2, <2>6, <2>7, <2>8 DEF TaskInv
<1>6. CASE Cache(x, "prepare") /\ Become(r, f)
  <2>1. stack' = [stack EXCEPT ![r] = <<f>>]
    <3>1. <<f>> \o <<>> = <<f>>
      OBVIOUS
    <3> QED BY <1>2, <1>6, <3>1 DEF Become, Goto
  <2>2. /\ \A m \in Node : task[m] # None => task'[m] = task[m]
        /\ \A m \in Node : m # x => task'[m] = task[m]
        /\ task'[x] # None /\ task' \in [Node -> Kinds \cup {None}]
        /\ task[x] = None => task'[x] = "prepare"
    BY <1>4, <1>6, Cached DEF TaskInv, Kinds
  <2> HIDE DEF f
  <2>3. /\ StackTyped' /\ WalkInv' /\ CallInv' /\ stack'[r] = <<f>>
        /\ \A q \in Runner : q # r => stack'[q] = stack[q]
        /\ \A t \in Pool, m \in Node : Walks(t, m) => Walks(t, m)'
    BY <1>1, <1>4, <2>1, <2>2, RunnerMoves
  <2>4. /\ In(r, "exec")' /\ Top(r)' = f
        /\ \A q \in Runner : q # r => (In(q, "exec")' <=> In(q, "exec")) /\ Top(q)' = Top(q)
    BY <1>4, <2>3 DEF In, Top
  <2>5. \A q \in Runner, m \in Node : Executes(q, m)' <=> Executes(q, m)
    BY <1>1, <1>4, <2>4 DEF Executes
  <2>6. OneRunner'
    BY <1>1, <1>4, <1>6, <2>5, OneRunnerCached DEF Kinds
  <2>7. DepsTasked'
    <3>1. ASSUME NEW m \in Node, task'[m] = "run" \/ "run" \in joint'[m], NEW y \in Deps[m]
          PROVE  task'[y] # None
      <4>1. task[m] = "run" \/ "run" \in joint[m]
        BY <1>1, <2>2, <3>1 DEF TaskInv, OneRunner
      <4>2. task[y] # None /\ y \in Node
        BY <4>1, GraphAssumption DEF TaskInv, DepsTasked
      <4> QED BY <2>2, <4>2
    <3>2. ASSUME NEW q \in Runner, In(q, "exec")'
          PROVE  /\ Top(q)'.deps \subseteq Deps[Top(q)'.node]
                 /\ \A y \in Deps[Top(q)'.node] \ Top(q)'.deps : task'[y] # None
      <4>1. CASE q = r
        BY <1>1, <1>2, <1>4, <2>2, <2>4, <4>1 DEF TaskInv, DepsTasked
      <4>2. CASE q # r
        <5>1. In(q, "exec") /\ Top(q)' = Top(q) /\ Deps[Top(q).node] \in SUBSET Node
          BY <2>4, <3>2, <4>2, ExecTop
        <5> QED BY <2>2, <5>1 DEF TaskInv, DepsTasked
      <4> QED BY <4>1, <4>2
    <3> QED BY <3>1, <3>2 DEF DepsTasked
  <2>8. TasksTyped'
    BY <1>1, <2>2 DEF TaskInv, TasksTyped
  <2>9. AllAsked'
    <3>1. PICK k \in Node : k = Top(r).node
      BY <1>2
    <3>2. Executes(r, k)' /\ x \notin Top(r)'.deps /\ x \in Deps[k]
      BY <1>1, <1>4, <2>4, <3>1 DEF Executes, TaskInv, DepsTasked
    <3>3. Asked(x)'
      BY <3>2 DEF Asked, AskedBy
    <3>4. \A q \in Runner, m \in Node, n \in Node : Executes(q, m) /\ n \notin Top(q).deps =>
            Executes(q, m)' /\ n \notin Top(q)'.deps
      BY <1>4, <2>4, <2>5
    <3>5. failed' = failed /\ added' = added
      BY <1>1 DEF loopVars, topoVars
    <3>6. \A n \in Node : n \in added' \/ task'[n] # None =>
            n \in added \/ task[n] # None \/ Asked(n)'
      BY <2>2, <3>3, <3>5
    <3> QED BY <1>1, <2>3, <3>4, <3>5, <3>6, AskedStays
  <2> QED BY <2>3, <2>6, <2>7, <2>8, <2>9 DEF TaskInv
<1> QED BY <1>3, <1>5, <1>6

LEMMA ExecRunInv ==
  ASSUME PrepInv, NEW r \in Runner, ExecRun(r)
  PROVE  StackTyped' /\ WalkInv' /\ CallInv' /\ TaskInv' /\ AllAsked'
<1> USE DEF PrepInv
<1>1. /\ In(r, "exec") /\ Top(r).deps = {} /\ Goto(r, <<>>)
      /\ UNCHANGED <<topoVars, loopVars, task, begun, stopped, callback, resolved>>
  BY DEF ExecRun
<1>2. Top(r).node \in Node /\ Tail(stack[r]) = <<>>
  BY <1>1, ExecTop
<1>3. PICK n \in Node : n = Top(r).node
  BY <1>2
<1>4. joint' = [joint EXCEPT ![n] = IF stopped THEN @ ELSE @ \cup {"run"}]
  BY <1>3 DEF ExecRun
<1>5. stack' = [stack EXCEPT ![r] = <<>>]
  <2>1. <<>> \o <<>> = <<>>
    OBVIOUS
  <2> QED BY <1>1, <1>2, <2>1 DEF Goto
<1>6. /\ StackTyped' /\ WalkInv' /\ CallInv' /\ stack'[r] = <<>>
      /\ \A q \in Runner : q # r => stack'[q] = stack[q]
      /\ \A t \in Pool, m \in Node : Walks(t, m) => Walks(t, m)'
  BY <1>1, <1>5, RunnerMoves
<1>7. /\ ~ In(r, "exec")'
      /\ \A q \in Runner : q # r => (In(q, "exec")' <=> In(q, "exec")) /\ Top(q)' = Top(q)
  BY <1>6 DEF In, Top
<1>8. /\ \A m \in Node : ~ Executes(r, m)'
      /\ \A q \in Runner, m \in Node : q # r => (Executes(q, m)' <=> Executes(q, m))
  BY <1>7 DEF Executes
<1>9. Executes(r, n) /\ \A m \in Node : Executes(r, m) => m = n
  BY <1>1, <1>3 DEF Executes
<1>10. /\ joint' \in [Node -> SUBSET {"restore", "run"}]
       /\ \A m \in Node : m # n => joint'[m] = joint[m]
       /\ joint'[n] = joint[n] \/ joint'[n] = joint[n] \cup {"run"}
       /\ ~ stopped => "run" \in joint'[n]
  BY <1>4 DEF TaskInv, TasksTyped
<1>11. TasksTyped'
  BY <1>1, <1>10 DEF TaskInv, TasksTyped
<1>12. /\ task[n] \in {"restore", "prepare"} /\ "run" \notin joint[n]
       /\ ~ Waiting(n, "restore") /\ ~ Waiting(n, "prepare")
       /\ \A q \in Runner : q # r => ~ Executes(q, n)
  BY <1>9 DEF TaskInv, OneRunner
<1>13. \A m \in Node : /\ Waiting(m, "restore")' <=> Waiting(m, "restore")
                       /\ Waiting(m, "prepare")' <=> Waiting(m, "prepare")
  BY <1>1, <1>10 DEF Waiting
<1>14. OneRunner'
  <2>1. \A m \in Node : joint'[m] # {} => task'[m] \in {"restore", "prepare"}
    BY <1>1, <1>10, <1>12 DEF TaskInv, OneRunner
  <2>2. \A m \in Node : "restore" \in joint'[m] => "restore" \in joint[m]
    BY <1>10
  <2>3. \A m \in Node : "run" \in joint'[m] =>
          ~ Waiting(m, "restore")' /\ ~ Waiting(m, "prepare")'
    BY <1>10, <1>12, <1>13 DEF TaskInv, OneRunner
  <2>4. ASSUME NEW q \in Runner, NEW m \in Node, Executes(q, m)'
        PROVE  /\ task'[m] \in {"restore", "prepare"} /\ "run" \notin joint'[m]
               /\ ~ Waiting(m, "restore")' /\ ~ Waiting(m, "prepare")'
    <3>1. q # r /\ Executes(q, m) /\ m # n
      BY <1>8, <1>12, <2>4
    <3> QED BY <1>1, <1>10, <1>13, <3>1 DEF TaskInv, OneRunner
  <2>5. \A q1, q2 \in Runner, m \in Node : Executes(q1, m)' /\ Executes(q2, m)' => q1 = q2
    BY <1>8 DEF TaskInv, OneRunner
  <2> QED BY <1>1, <2>1, <2>2, <2>3, <2>4, <2>5 DEF TaskInv, OneRunner
<1>15. DepsTasked'
  <2>1. \A x \in Deps[n] : task[x] # None
    BY <1>1, <1>3 DEF TaskInv, DepsTasked
  <2>2. \A m \in Node : "run" \in joint'[m] => "run" \in joint[m] \/ m = n
    BY <1>10
  <2>3. \A q \in Runner : In(q, "exec")' => In(q, "exec") /\ Top(q)' = Top(q)
    BY <1>7
  <2> QED BY <1>1, <2>1, <2>2, <2>3 DEF TaskInv, DepsTasked
<1>16. AllAsked'
  <2>1. \A m \in Node : joint[m] \subseteq joint'[m]
    BY <1>10
  <2>2. ASSUME NEW q \in Runner, NEW m \in Node, Executes(q, m)
        PROVE  "run" \in joint'[m] \/ stopped \/ (Executes(q, m)' /\ Top(q)' = Top(q))
    BY <1>7, <1>8, <1>9, <1>10, <2>2
  <2>3. failed' = failed /\ added' = added
    BY <1>1 DEF loopVars, topoVars
  <2> QED BY <1>1, <1>6, <2>1, <2>2, <2>3, AskedStays
<1> QED BY <1>6, <1>11, <1>14, <1>15, <1>16 DEF TaskInv

LEMMA RunnerInv ==
  ASSUME PrepInv, NEW r \in Runner, RunnerStep(r)
  PROVE  StackTyped' /\ WalkInv' /\ CallInv' /\ TaskInv' /\ AllAsked'
<1>1. CASE Restore(r)
  <2>1. PICK n \in Node : /\ Waiting(n, "restore") /\ begun' = begun \cup {<<n, "restore">>}
                          /\ stack' \in {stack, [stack EXCEPT ![r] = <<ExecFrame(n)>>]}
    BY <1>1 DEF Restore
  <2>2. Idle(r) /\ UNCHANGED <<topoVars, loopVars, task, joint, stopped, callback, resolved>>
    BY <1>1 DEF Restore
  <2> QED BY <2>1, <2>2, TaskBegins
<1>2. CASE PrepareNode(r)
  <2>1. PICK n \in Node, answer \in {"restore", "run", "error"} :
          /\ Waiting(n, "prepare") /\ begun' = begun \cup {<<n, "prepare">>}
          /\ IF answer = "restore"
               THEN /\ joint' = [joint EXCEPT ![n] = IF stopped THEN @ ELSE @ \cup {"restore"}]
                    /\ UNCHANGED stack
               ELSE stack' = [stack EXCEPT ![r] = <<ExecFrame(n)>>] /\ UNCHANGED joint
    BY <1>2 DEF PrepareNode
  <2>2. Idle(r) /\ UNCHANGED <<topoVars, loopVars, task, stopped, callback, resolved>>
    BY <1>2 DEF PrepareNode
  <2> QED BY <2>1, <2>2, TaskBegins
<1> QED BY <1>1, <1>2, ExecDepInv, ExecRunInv DEF RunnerStep

-----------------------------------------------------------------------------
(* The tp of the preparation is a Topo: a thread calls its methods with    *)
(* nodes only, and calls nothing else.                                     *)
LEMMA TopoStep ==
  ASSUME PrepInv, [Next]_vars
  PROVE  [TopoNext]_topoVars
<1> USE DEF PrepInv
<1>1. CASE LoopStep
  BY <1>1 DEF LoopStep, AddResult, Submit, Wait, Planned, Failed, TopoNext, topoVars
<1>2. ASSUME NEW th \in Pool, PoolStep(th) PROVE [TopoNext]_topoVars
  <2>1. CASE \/ Begin(th) \/ End(th) \/ Consider(th) \/ ResolveError(th) \/ PlanRestore(th)
             \/ RestoreAborts(th) \/ LookAtDep(th) \/ Fire(th) \/ AddRunNode(th)
             \/ RunNodeAborts(th)
    BY <2>1 DEF Begin, End, Consider, ResolveError, PlanRestore, RestoreAborts, Abort,
                LookAtDep, Fire, AddRunNode, RunNodeAborts, topoVars
  <2>2. ASSUME In(th, "batch"), Top(th).at # "next"
        PROVE  /\ Top(th).node \in Node /\ Top(th).deps \in SUBSET Node
               /\ Top(th).at \in {"add", "link"} => Top(th).dep \in Node
    <3>1. Busy(th) /\ Bottom(th) \in BatchFrames /\ Top(th) = Bottom(th)
      BY <2>2, BatchTop
    <3>2. LinkedAt(th)
      BY <3>1 DEF WalkInv, Linked
    <3> QED BY <2>2, <3>1, <3>2 DEF LinkedAt, BatchFrames
  <2>3. CASE AddFound(th)
    BY <2>2, <2>3 DEF AddFound, At, TopoNext
  <2>4. CASE LinkDep(th)
    <3>1. {Top(th).dep} \in SUBSET Node /\ Top(th).node \in Node
      BY <2>2, <2>4 DEF LinkDep, At
    <3> QED BY <2>4, <3>1 DEF LinkDep, TopoNext
  <2>5. CASE Schedule(th)
    BY <2>2, <2>5 DEF Schedule, At, TopoNext
  <2>6. CASE Notify(th)
    <3>1. Top(th) \in Calls(th)
      BY <2>6, CallTop DEF Notify
    <3>2. PICK n \in Node : NotifyDependants(n)
      BY <2>6, <3>1, CallsTyped DEF Notify, In
    <3> QED BY <3>2 DEF TopoNext
  <2> QED BY <1>2, <2>1, <2>3, <2>4, <2>5, <2>6 DEF PoolStep
<1>3. ASSUME NEW r \in Runner, RunnerStep(r) PROVE UNCHANGED topoVars
  BY <1>3 DEF RunnerStep, Restore, PrepareNode, ExecDep, ExecRun, topoVars
<1>4. CASE Terminated \/ UNCHANGED vars
  BY <1>4 DEF Terminated, vars, topoVars
<1> QED BY <1>1, <1>2, <1>3, <1>4 DEF Next

-----------------------------------------------------------------------------
(* The inductive invariant. *)

LEMMA PrepInvInit == Init => PrepInv
<1> SUFFICES ASSUME Init PROVE PrepInv
  OBVIOUS
<1> USE GraphAssumption DEF Init
<1>1. TopoInv /\ added = {} /\ scheduled = {} /\ semi = {}
        /\ \A n \in Node : group[n] = {} /\ deps[n] = {} /\ fired[n] = 0
  BY TopoInvInit DEF TopoInit
<1>2. \A th \in Thread : /\ stack[th] = <<>> /\ ~ Busy(th) /\ Todo(th) = {} /\ New(th) = {}
                         /\ Owns(th) = {} /\ Calls(th) = {} /\ ~ In(th, "exec")
  <2>1. \A th \in Thread : stack[th] = <<>>
    OBVIOUS
  <2>2. DOMAIN <<>> = {}
    OBVIOUS
  <2> QED BY <2>1, <2>2 DEF Busy, Todo, New, Owns, Calls, In
<1>3. StackTyped
  <2>1. <<>> \in Seq(BatchFrames \cup CallFrames \cup ExecFrames)
    OBVIOUS
  <2>2. stack \in [Thread -> Seq(BatchFrames \cup CallFrames \cup ExecFrames)]
    BY <2>1
  <2> QED BY <1>2, <2>2 DEF StackTyped, Thread
<1>4. Alone /\ LoopTyped /\ Placed /\ OnePlace
  BY <1>1, <1>2 DEF Alone, LoopTyped, Placed, OnePlace, Thread
<1>5. Found /\ NoneLost /\ LoopDone
  BY <1>1, <1>2 DEF Found, NoneLost, LoopDone, Thread
<1>6. Linked
  BY <1>1, <1>2 DEF Linked, Thread
<1>7. CallInv
  BY <1>1, <1>2 DEF CallInv, Tasked, NoCallLost, Thread
<1>8. TaskInv
  <2>1. TasksTyped
    BY DEF TasksTyped
  <2>2. OneRunner
    BY <1>2 DEF OneRunner, Executes, Thread
  <2>3. DepsTasked
    BY <1>2 DEF DepsTasked, Thread
  <2> QED BY <2>1, <2>2, <2>3 DEF TaskInv
<1>9. AllAsked
  BY <1>1 DEF AllAsked
<1> QED BY <1>1, <1>3, <1>4, <1>5, <1>6, <1>7, <1>8, <1>9 DEF PrepInv, WalkInv

LEMMA PrepInvNext == PrepInv /\ [Next]_vars => PrepInv'
<1> SUFFICES ASSUME PrepInv, [Next]_vars PROVE PrepInv'
  OBVIOUS
<1>1. TopoInv'
  BY TopoStep, TopoInvNext DEF PrepInv
<1>2. StackTyped' /\ WalkInv' /\ CallInv' /\ TaskInv' /\ AllAsked'
  <2>1. CASE LoopStep
    BY <2>1, AddResultInv, LoopSetsInv DEF LoopStep
  <2>2. ASSUME NEW th \in Pool, PoolStep(th)
        PROVE  StackTyped' /\ WalkInv' /\ CallInv' /\ TaskInv' /\ AllAsked'
    BY <2>2, BeginInv, PlanRestoreInv, LookAtDepInv, AddFoundInv, LinkDepInv, ScheduleInv,
       ConsiderInv, EndInv, FailureInv, FireInv, AddRunNodeInv, NotifyInv DEF PoolStep
  <2>3. ASSUME NEW r \in Runner, RunnerStep(r)
        PROVE  StackTyped' /\ WalkInv' /\ CallInv' /\ TaskInv' /\ AllAsked'
    BY <2>3, RunnerInv
  <2>4. CASE Terminated \/ UNCHANGED vars
    <3> USE DEF PrepInv
    <3>1. UNCHANGED <<topoVars, loopVars, runVars, stack, callback, resolved>>
      BY <2>4 DEF Terminated, vars
    <3>2. StackTyped'
      BY <3>1 DEF StackTyped, Busy, Bottom
    <3>3. \A t \in Pool : /\ (Busy(t)' <=> Busy(t)) /\ Bottom(t)' = Bottom(t)
                          /\ Calls(t)' = Calls(t)
      BY <3>1 DEF Busy, Bottom, Calls
    <3>4. WalkInv'
      BY <3>1, <3>3, WalkStays DEF topoVars, runVars
    <3>5. CallInv'
      BY <3>1, <3>3, CallsStay DEF topoVars, runVars, loopVars
    <3>6. TaskInv'
      BY <3>1, TasksStay DEF runVars, TaskInv, TasksTyped
    <3>7. \A t \in Pool, m \in Node : Walks(t, m) => Walks(t, m)'
      BY <3>3 DEF Walks, Owns
    <3>8. AllAsked'
      BY <3>1, <3>7, AskedSame DEF topoVars, runVars, loopVars
    <3> QED BY <3>2, <3>4, <3>5, <3>6, <3>8
  <2> QED BY <2>1, <2>2, <2>3, <2>4 DEF Next
<1> QED BY <1>1, <1>2 DEF PrepInv

-----------------------------------------------------------------------------
(* What follows from it. *)

(* What is completed has notified, and so has its task. *)
LEMMA CompletedTasked ==
  ASSUME PrepInv, NEW x \in completed
  PROVE  x \in semi /\ x \in Node /\ task[x] # None
<1>1. x \in added /\ x \in Node /\ group[x] \subseteq semi /\ x \in group[x]
  BY DEF PrepInv, TopoInv, TopoTypeOK, CompletedGroups, GroupsPartition, GroupDone
<1> QED BY <1>1 DEF PrepInv, CallInv, Tasked

(* A node that is alone in its group is completed when it has notified. *)
LEMMA SemiCompleted ==
  ASSUME PrepInv
  PROVE  added \cap semi \subseteq completed
BY DEF PrepInv, TopoInv, TopoTypeOK, CompletedGroups, GroupDone, WalkInv, Alone

LEMMA PrepInvOrder == PrepInv => ConsideredInOrder
<1> SUFFICES ASSUME PrepInv PROVE ConsideredInOrder
  OBVIOUS
<1> USE DEF PrepInv
<1>1. \A n \in Node : resolved[n] <= 1
  BY DEF WalkInv, Placed
<1>2. ASSUME NEW th \in Pool, In(th, "batch"), Top(th).at # "next"
      PROVE  /\ Top(th).node \in added \ scheduled
             /\ Top(th).at = "link" => Top(th).dep \in added
  <2>1. Busy(th) /\ Top(th) = Bottom(th)
    BY <1>2, BatchTop
  <2>2. Top(th).node \in Owns(th)
    BY <1>2, <2>1 DEF Owns
  <2>3. Top(th).node \in added \ scheduled
    BY <2>2 DEF WalkInv, Placed, Found
  <2>4. LinkedAt(th)
    BY <2>1 DEF WalkInv, Linked
  <2> QED BY <2>1, <2>3, <2>4 DEF LinkedAt
<1>3. ASSUME NEW th \in Pool, In(th, "fire"), NEW n \in Top(th).nodes,
             callback[n] = "add_run_node", NEW x \in Deps[n]
      PROVE  task[x] # None
  <2>1. Top(th) \in Calls(th) /\ Top(th).op = "fire"
    BY <1>3, CallTop DEF In
  <2>2. n \in Node /\ fired[n] > 0
    BY <1>3, <2>1, CallsTyped DEF CallInv, Tasked
  <2>3. deps[n] = Deps[n] /\ deps[n] \subseteq completed
    BY <1>3, <2>2 DEF WalkInv, Linked, TopoInv, FiredReady
  <2> QED BY <1>3, <2>3, CompletedTasked
<1> QED BY <1>1, <1>2, <1>3 DEF ConsideredInOrder, At

(* When nothing is left to do, no node of tp waits: of those that have not *)
(* notified, one would depend on none of the others.                       *)
LEMMA AllNotified ==
  ASSUME PrepInv, done = "planned"
  PROVE  added = scheduled /\ scheduled \subseteq semi /\ Result \subseteq scheduled
<1> USE DEF PrepInv
<1>1. /\ toProcess = {} /\ found = {} /\ batches = {} /\ ~ failed /\ Result \subseteq seen
      /\ \A th \in Pool : ~ Busy(th)
  BY DEF WalkInv, LoopDone
<1>2. \A th \in Pool : Calls(th) = {} /\ Todo(th) = {} /\ Owns(th) = {} /\ New(th) = {}
  <2>1. DOMAIN <<>> = {}
    OBVIOUS
  <2> QED BY <1>1, <2>1 DEF Busy, Calls, Todo, Owns, New
<1>3. seen \subseteq scheduled
  BY <1>1, <1>2 DEF WalkInv, NoneLost
<1>4. added = scheduled
  BY <1>1, <1>2, <1>3 DEF WalkInv, NoneLost, TopoInv, FiredReady
<1>5. scheduled \subseteq semi
  <2> DEFINE U == scheduled \ semi
  <2> SUFFICES ASSUME U # {} PROVE FALSE
    OBVIOUS
  <2>1. U \in SUBSET Node
    BY DEF TopoInv, TopoTypeOK
  <2>2. PICK n \in U : Deps[n] \cap U = {}
    BY <2>1, Acyclic
  <2>3. deps[n] \subseteq Deps[n] /\ deps[n] \subseteq added
    BY <2>1, <2>2 DEF WalkInv, Linked, TopoInv, DepsKnown
  <2>4. deps[n] \subseteq completed
    BY <1>4, <2>2, <2>3, SemiCompleted
  <2>5. fired[n] > 0
    BY <2>1, <2>2, <2>4 DEF TopoInv, FiredReady
  <2> QED BY <1>1, <1>2, <2>1, <2>2, <2>5 DEF CallInv, NoCallLost
<1> QED BY <1>1, <1>3, <1>4, <1>5

LEMMA PrepInvComplete == PrepInv => PlanComplete
<1> SUFFICES ASSUME PrepInv, done = "planned" PROVE PlanComplete
  BY DEF PlanComplete
<1>1. \A n \in Result : task[n] # None
  BY AllNotified, GraphAssumption DEF PrepInv, CallInv, Tasked
<1>2. \A n \in Node : task[n] = "run" \/ "run" \in joint[n] =>
        \A x \in Deps[n] : task[x] # None
  BY DEF PrepInv, TaskInv, DepsTasked
<1> QED BY <1>1, <1>2, AllNotified DEF PlanComplete

LEMMA PrepInvOnce == PrepInv => RunsAtMostOnce
<1> SUFFICES ASSUME PrepInv PROVE RunsAtMostOnce
  OBVIOUS
<1>1. \A n \in Node : task[n] = "run" => joint[n] = {}
  BY DEF PrepInv, TaskInv, OneRunner
<1>2. ASSUME NEW r \in Runner, In(r, "exec") PROVE "run" \notin joint[Top(r).node]
  <2>1. Top(r).node \in Node
    BY <1>2, ExecTop DEF PrepInv
  <2> QED BY <1>2, <2>1 DEF PrepInv, TaskInv, OneRunner, Executes
<1> QED BY <1>1, <1>2 DEF RunsAtMostOnce

LEMMA PrepInvNeedless == PrepInv => NothingNeedless
<1> SUFFICES ASSUME PrepInv, done = "planned", Ended,
                    NEW n \in Node \ Result, task[n] # None
             PROVE  \E m \in Node : /\ n \in Deps[m]
                                    /\ callback[m] = "add_run_node" \/ "run" \in joint[m]
  BY DEF NothingNeedless
<1>1. ~ stopped
  BY DEF PrepInv, WalkInv, LoopDone, AllAsked
<1>2. Asked(n)
  BY <1>1 DEF PrepInv, AllAsked
<1>3. PICK m \in Node : AskedBy(n, m)
  BY <1>2 DEF Asked
<1>4. \A th \in Thread : stack[th] = <<>>
  BY DEF Ended, Idle
<1>5. (\A th \in Pool : ~ Walks(th, m)) /\ \A r \in Runner : ~ Executes(r, m)
  BY <1>4 DEF Walks, Owns, Busy, Executes, In, Thread
<1> QED BY <1>3, <1>5 DEF AskedBy

(* The inductive invariant holds whatever the threads do. *)
THEOREM PrepareNodesInvariant == Spec => []PrepInv
BY PrepInvInit, PrepInvNext, PTL DEF Spec

(* The preparation uses its tp as Topo says: all that TopoProofs shows of a*)
(* Topo holds of it.                                                       *)
THEOREM PrepareNodesUseTopo == Spec => TopoSpec
<1>1. Init => TopoInit
  BY DEF Init
<1>2. PrepInv /\ [Next]_vars => [TopoNext]_topoVars
  BY TopoStep
<1> QED BY <1>1, <1>2, PrepareNodesInvariant, PTL DEF Spec, TopoSpec

(* Every node is considered at most once, in whatever order the threads    *)
(* find it, and add_run_node finds a task for every dependency.            *)
THEOREM PrepareNodesConsideredInOrder == Spec => []ConsideredInOrder
BY PrepareNodesInvariant, PrepInvOrder, PTL

(* A preparation that ends without a failure has scheduled all it met and  *)
(* has a task for each result and for all that its tasks depend on.        *)
THEOREM PrepareNodesPlanComplete == Spec => []PlanComplete
BY PrepareNodesInvariant, PrepInvComplete, PTL

(* No node gets two tasks that run it. *)
THEOREM PrepareNodesRunsAtMostOnce == Spec => []RunsAtMostOnce
BY PrepareNodesInvariant, PrepInvOnce, PTL

(* Without a failure, a node that is no result has a task only if a node   *)
(* that was not in the caches when it was looked for needs it.             *)
THEOREM PrepareNodesNothingNeedless == Spec => []NothingNeedless
BY PrepareNodesInvariant, PrepInvNeedless, PTL
=============================================================================
