CONSTANTS
  p1 = p1  p2 = p2  p3 = p3
  Proc = {p1, p2, p3}
  Starts <- MCStarts
  NoName = noname
  Free = free
  ATTEMPTS = 2
  MaxFiles = 2
SPECIFICATION Spec
INVARIANTS
  BackEndsFirst
CHECK_DEADLOCK FALSE
