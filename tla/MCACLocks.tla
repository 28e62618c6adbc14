------------------------------ MODULE MCACLocks ------------------------------
(* Two builds, alone or in one group, and one artifact.                    *)
EXTENDS ACLocks

CONSTANTS p1, p2, u1
Two == {p1, p2}
One == {u1}
JustAlone == {{}}
AloneOrTogether == {{}, {p1, p2}}
ThreeOrTwo == [g \in AloneOrTogether |-> IF g = {} THEN 3 ELSE 2]
Three == [g \in JustAlone |-> 3]
=============================================================================
