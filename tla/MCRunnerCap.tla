----------------------------- MODULE MCRunnerCap -----------------------------
(* Every combination of small options with nodes of every kind.            *)
EXTENDS RunnerCap

SmallOptions ==
  {o \in [threads : 1 .. 3, testThreads : 0 .. 3, linkThreads : 0 .. 2, netThreads : {0, 2},
          memoryLimit : BOOLEAN, ram : {2}, debugger : BOOLEAN] :
     o.debugger => o.testThreads = 1}
SmallNodes ==
  [kind : {"link", "fetch", "test", "compile"}, cpu : (0 .. 4) \cup {All}, ram : {0}]
  \cup [kind : {"limited"}, cpu : {1}, ram : 0 .. 3]
=============================================================================
