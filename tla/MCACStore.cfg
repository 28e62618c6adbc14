CONSTANTS
  u1 = u1
  u2 = u2
  b1 = b1
  b2 = b2
  r1 = r1
  r2 = r2
  Nothing = Nothing
  Nobody = Nobody
  Uids <- TwoUids
  Blobs <- TwoBlobs
  Paths <- TwoPaths
  Contents <- ThreeContents
  Slots <- TwoSlots
  MaxRequests = 5
  MaxFaults = 1
  MaxCrashes = 1
SPECIFICATION Spec
INVARIANTS
  ACStoreTypeOK
  RefsMatch
  BlobsThere
  GotWhole
  NothingLeft
SYMMETRY Symmetry
CHECK_DEADLOCK FALSE
