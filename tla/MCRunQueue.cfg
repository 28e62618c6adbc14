CONSTANTS
  p = p  b = b  r = r  x = x  y = y  z = z
  Node = {p, b, r, x, y, z}
  Worker = {w1, w2}
  Main = main
  Dist = dist
  None = none
  MainProg <- Run
  Programs <- Builds
SPECIFICATION Spec
INVARIANTS
  RunQueueTypeOK
  RunOnce
  AssertionsHold
  StopMeansDone
PROPERTIES
  QuietWhenJoined
  Ends
  FailureSurfaces
