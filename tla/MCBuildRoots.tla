----------------------------- MODULE MCBuildRoots -----------------------------
(* A node needed by two others, one of which is needed by the result, and  *)
(* a result that is a dependency as well.                                  *)
EXTENDS BuildRoots, TLC

CONSTANTS top, mid, base

Chain == [n \in Node |-> CASE n = top  -> {mid, base}
                           [] n = mid  -> {base}
                           [] n = base -> {}]

Two == {[result |-> {top}, eager |-> FALSE], [result |-> {top, mid}, eager |-> TRUE]}

WorkerSymmetry == Permutations(Worker)
=============================================================================
