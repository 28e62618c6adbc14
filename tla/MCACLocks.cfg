CONSTANTS
  p1 = p1
  p2 = p2
  u1 = u1
  Group = Group
  NoRow = NoRow
  Procs <- Two
  Uids <- One
  Groupings <- AloneOrTogether
  MaxRequests <- ThreeOrTwo
  MaxCrashes = 1
SPECIFICATION FairSpec
INVARIANTS
  ACLocksTypeOK
  CountsMatch
  LockedStays
PROPERTIES
  DeadGiveUp
CHECK_DEADLOCK FALSE
