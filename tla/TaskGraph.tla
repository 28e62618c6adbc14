------------------------------ MODULE TaskGraph ------------------------------
(***************************************************************************)
(* What the task scheduler of the local runner promises, without counters, *)
(* waiter lists or callbacks.                                              *)
(*                                                                         *)
(* Tasks are made known, given dependencies, joined into groups and        *)
(* scheduled.  A task that runs may join new tasks to its own group: a     *)
(* group is finished when all its members are, and a task is started as    *)
(* soon as it is scheduled and the groups of all its dependencies are      *)
(* finished -- neither earlier nor later: after every step the tasks that  *)
(* have been started are exactly the ready ones.                           *)
(***************************************************************************)

CONSTANT Task

VARIABLES
  known,      \* tasks the graph knows
  deps,       \* deps[t]: the tasks t depends on
  group,      \* group[t]: the tasks joined with t
  scheduled,  \* tasks whose dependencies are final
  started,    \* tasks whose callback has been called
  finished    \* tasks that have reported their end

vars == <<known, deps, group, scheduled, started, finished>>

(* A group whose members have all finished. *)
Closed(t) == group[t] \subseteq finished

(* The tasks that have to be started. *)
Ready == {t \in scheduled : \A d \in deps[t] : Closed(d)}

Init ==
  /\ known = {}
  /\ deps = [t \in Task |-> {}]
  /\ group = [t \in Task |-> {}]
  /\ scheduled = {}
  /\ started = {}
  /\ finished = {}

Add(t) ==
  /\ t \notin known
  /\ known' = known \cup {t}
  /\ group' = [group EXCEPT ![t] = {t}]
  /\ UNCHANGED <<deps, scheduled, started, finished>>

Depend(t, D) ==
  /\ t \in known \ scheduled
  /\ D \subseteq known
  /\ deps' = [deps EXCEPT ![t] = @ \cup D]
  /\ UNCHANGED <<known, group, scheduled, started, finished>>

(* Only open groups grow: what a started task depends on is settled. *)
Join(t, u) ==
  /\ {t, u} \subseteq known
  /\ ~ Closed(t) /\ ~ Closed(u)
  /\ LET G == group[t] \cup group[u]
     IN  group' = [x \in Task |-> IF x \in G THEN G ELSE group[x]]
  /\ UNCHANGED <<known, deps, scheduled, started, finished>>

Schedule(t) ==
  /\ t \in known \ scheduled
  /\ scheduled' = scheduled \cup {t}
  /\ UNCHANGED <<known, deps, group, finished>>
  /\ started' = Ready'

Finish(t) ==
  /\ t \in started \ finished
  /\ finished' = finished \cup {t}
  /\ UNCHANGED <<known, deps, group, scheduled>>
  /\ started' = Ready'

Next ==
  \/ \E t \in Task : Add(t) \/ Schedule(t) \/ Finish(t)
  \/ \E t \in Task, D \in SUBSET Task : Depend(t, D)
  \/ \E t, u \in Task : Join(t, u)

Spec == Init /\ [][Next]_vars
=============================================================================
