--------------------------- MODULE MCWorkerThreads ---------------------------
(* A small pool for TLC: two workers of one type and one of the other, jobs*)
(* of three heaps -- two restores, a test that takes all the processors, a *)
(* link -- and a job that adds jobs.  Test and link need much memory.      *)
EXTENDS WorkerThreads

CONSTANTS a, b, c, d, i, w1, w2, w3

Needs(cpu, mem) == [cpu |-> cpu, mem |-> mem]
MCNeed == [j \in Job |-> CASE j \in {a, b} -> Needs(1, 0)
                            [] j = c -> Needs(2, 1)
                            [] j = d -> Needs(0, 1)
                            [] j = i -> Needs(0, 0)]
MCPrio == [j \in Job |-> IF j \in {b, c} THEN 1 ELSE 0]
MCType == [j \in Job |-> IF j \in {c, d} THEN "service" ELSE "base"]
MCAdds == [j \in Job |-> IF j = a THEN {d, i} ELSE {}]
MCPool == [w \in Worker |-> IF w = w3 THEN "service" ELSE "base"]

MemoryCaps == {Needs(2, 2), Needs(2, 1)}
=============================================================================
