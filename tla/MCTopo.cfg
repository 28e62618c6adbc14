CONSTANTS
  Node = {n1, n2, n3}
SPECIFICATION TopoSpec
INVARIANTS
  TopoInv
  FiredOnceAfterDeps
  NoLostActivation
PROPERTIES
  AbstractSpec
CHECK_DEADLOCK FALSE
