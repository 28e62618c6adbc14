CONSTANTS
  top = top  mid = mid  base = base
  Node = {top, mid, base}
  Deps <- Chain
  Cached = {mid, base}
  Tolerant = {top}
  Builds <- Two
  Worker = {w1, w2}
SPECIFICATION Spec
INVARIANTS
  BuildRootsTypeOK
  NoUseAfterDelete
  CountersSound
  DeletedWhenTaken
SYMMETRY WorkerSymmetry
