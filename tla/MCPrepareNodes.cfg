CONSTANTS
  top = top  lhs = lhs  rhs = rhs  base = base  leaf = leaf
  Node = {top, lhs, rhs, base, leaf}
  Deps <- Diamond
  Result = {top}
  Answers <- Exclusive
  Pool = {t1, t2}
  Runner = {r1}
  BATCH_SIZE = 1
  None = none
SPECIFICATION Spec
INVARIANTS
  ConsideredInOrder
  PlanComplete
  RunsAtMostOnce
  NothingNeedless
PROPERTIES
  PreparationEnds
