CONSTANTS
  a = a  b = b  c = c  d = d  i = i
  w1 = w1  w2 = w2  w3 = w3
  Resource = {"cpu", "mem"}
  Job = {a, b, c, d, i}
  Need <- MCNeed
  Prio <- MCPrio
  Type <- MCType
  Adds <- MCAdds
  Inplace = {i}
  Worker = {w1, w2, w3}
  Pool <- MCPool
  Main = main
  MainJobs = {a, b, c}
  Caps <- MemoryCaps
  None = none
SPECIFICATION Spec
INVARIANTS
  WorkerThreadsTypeOK
  CapRespected
  ActiveCounts
PROPERTIES
  QueuedRun
  PoolEnds
