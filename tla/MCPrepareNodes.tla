---------------------------- MODULE MCPrepareNodes ----------------------------
(* A graph for TLC: the result needs two nodes that need the same third,   *)
(* and that one needs a leaf, whose tasks anyone of several may create.    *)
EXTENDS PrepareNodes

CONSTANTS top, lhs, rhs, base, leaf

Diamond == [n \in Node |-> CASE n = top -> {lhs, rhs}
                             [] n \in {lhs, rhs} -> {base}
                             [] n = base -> {leaf}
                             [] OTHER -> {}]
(* With yt_store_exclusive a cacheable node that no cache has is an error. *)
Exclusive == [n \in Node |->
  {"restore", "run"} \cup (IF n \in {rhs, base} THEN {"error"} ELSE {})]
=============================================================================
