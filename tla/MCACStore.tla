------------------------------ MODULE MCACStore ------------------------------
(* Two uids, contents that share blobs and have one twice.                 *)
EXTENDS ACStore, TLC

CONSTANTS u1, u2, b1, b2, r1, r2
TwoUids == {u1, u2}
TwoBlobs == {b1, b2}
TwoPaths == {"x", "y"}
ThreeContents == {"x" :> b1, "x" :> b1 @@ "y" :> b1, "x" :> b1 @@ "y" :> b2}
TwoSlots == {r1, r2}
Symmetry == Permutations(TwoUids) \cup Permutations(TwoSlots)
=============================================================================
