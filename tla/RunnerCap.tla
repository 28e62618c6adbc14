------------------------------ MODULE RunnerCap ------------------------------
(***************************************************************************)
(* What the local runner lets run at the same time: the resources a node   *)
(* takes (RunNodeTask.res) against the cap of the pool (TaskContext and    *)
(* CapCalculator of runner3.py), both computed from the options.           *)
(***************************************************************************)
EXTENDS Integers

CONSTANTS
  All,     \* the requirement cpu:all, not a number
  Options, \* the options of the command line
  Nodes    \* what the graph says of the nodes

(* The options as the parsers leave them: with a debugger one test runs at *)
(* a time (postprocess2 of test/opts).                                     *)
OptionsType ==
  [threads : Nat \ {0}, testThreads : Nat, linkThreads : Nat, netThreads : Nat,
   memoryLimit : BOOLEAN, ram : Nat, debugger : BOOLEAN]

(* kind is the p of the node's kv; cpu and ram are its requirements.  A    *)
(* test that will run under a debugger requires All (test/test_node).      *)
NodeType ==
  [kind : {"link", "fetch", "test", "compile", "limited"},
   cpu : Nat \cup {All}, ram : Nat]

ASSUME CapAssumption ==
  /\ All \notin Nat /\ Options \subseteq OptionsType /\ Nodes \subseteq NodeType
  /\ \A o \in Options : o.debugger => o.testThreads = 1

RunnerResource == {"io", "cpu", "test", "download", "upload", "mem", "ram"}
Least(a, b) == IF a < b THEN a ELSE b

TestThreads(o) == IF o.testThreads = 0 THEN o.threads ELSE o.testThreads

MaxCap(o) ==
  [io |-> Least(o.linkThreads, o.threads), cpu |-> o.threads, test |-> TestThreads(o),
   download |-> o.threads + o.netThreads, upload |-> o.netThreads,
   mem |-> o.threads, ram |-> o.ram]

(* CapCalculator: memory may run short and recover at any time. *)
PossibleCaps(o) ==
  {MaxCap(o)} \cup (IF o.memoryLimit THEN {[MaxCap(o) EXCEPT !.mem = 1]} ELSE {})

Takes(io, cpu, test, download, mem, ram) ==
  [io |-> io, cpu |-> cpu, test |-> test, download |-> download, upload |-> 0,
   mem |-> mem, ram |-> ram]

(* Mutant: the requirement is not clamped to the threads. *)
TestCpuUnclamped(o, n) ==
  IF n.cpu = All THEN TestThreads(o) ELSE IF n.cpu < 1 THEN 1 ELSE n.cpu

TestCpu(o, n) ==
  IF n.cpu = All THEN TestThreads(o)
  ELSE Least(IF n.cpu < 1 THEN 1 ELSE n.cpu, o.threads)

NodeRes(o, n) ==
  CASE n.kind = "limited" -> Takes(0, 1, 0, 0, 0, n.ram)
    [] n.kind = "link"    -> Takes(1, 0, 0, 0, 1, 0)
    [] n.kind = "fetch"   -> Takes(0, 0, 0, 1, 0, 0)
    [] n.kind = "test"    -> Takes(0, TestCpu(o, n), 1, 0, 1, 0)
    [] n.kind = "compile" -> Takes(0, 1, 0, 0, 1, 0)

-----------------------------------------------------------------------------
(* The options that the properties hold for: links are not forbidden, no   *)
(* compilation needs more memory than there is, and there are not more     *)
(* test threads than threads.                                              *)
Sensible(o, n) ==
  o.linkThreads > 0 /\ n.ram <= o.ram /\ o.testThreads <= o.threads

VARIABLES opts, node

CapInit == opts \in Options /\ node \in Nodes
CapNext == node' \in Nodes /\ UNCHANGED opts
CapSpec == CapInit /\ [][CapNext]_<<opts, node>>

(* A node that never fits would be waited for without end: whatever the    *)
(* memory does, an idle machine can run the node.                          *)
EveryNodeFits ==
  Sensible(opts, node) =>
    \A cap \in PossibleCaps(opts) : \A r \in RunnerResource : NodeRes(opts, node)[r] <= cap[r]

(* A test that requires cpu:all keeps every other test and every           *)
(* compilation out, if tests may use all the threads.                      *)
AllMeansAlone ==
  /\ node.kind \in {"test", "compile"}
  /\ opts.testThreads \in {0, opts.threads}
  => \A n \in Nodes : n.kind = "test" /\ n.cpu = All =>
       \E r \in RunnerResource :
         NodeRes(opts, node)[r] + NodeRes(opts, n)[r] > MaxCap(opts)[r]

(* "Disallow other nodes from execution while user will interact with      *)
(* debugger": no compilation fits beside a test under the debugger.        *)
DebuggerAlone ==
  opts.debugger /\ node.kind = "compile" =>
    \A n \in Nodes : n.kind = "test" /\ n.cpu = All =>
      \E r \in RunnerResource :
        NodeRes(opts, node)[r] + NodeRes(opts, n)[r] > MaxCap(opts)[r]
=============================================================================
