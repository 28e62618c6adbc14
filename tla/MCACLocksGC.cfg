CONSTANTS
  p1 = p1
  p2 = p2
  u1 = u1
  Group = Group
  NoRow = NoRow
  Procs <- Two
  Uids <- One
  Groupings <- JustAlone
  MaxRequests <- Three
  MaxCrashes = 1
SPECIFICATION Spec
INVARIANTS
  LockedForGC
CHECK_DEADLOCK FALSE
