---------------------------- MODULE MCPSingleton ----------------------------
(* A process that finds the server or becomes one, one that halts or       *)
(* replaces it, and a third that comes while they are at it; and two       *)
(* processes between which the lock file may be removed.                   *)
EXTENDS PSingleton, TLC

CONSTANTS p1, p2, p3

Three(m) == [mode |-> (p1 :> "Normal") @@ (p2 :> m) @@ (p3 :> "Normal"), last |-> 1]
Two(m)   == [mode |-> (p1 :> "Normal") @@ (p2 :> m) @@ (p3 :> "None"), last |-> 0]
MCStarts == {Three("ForcedSeizure"), Three("Halt"), Two("Normal")}
=============================================================================
