------------------------------ MODULE MCRunQueue ------------------------------
(* The run queue on four small builds for TLC.                             *)
EXTENDS RunQueue

CONSTANTS p, b, r, x, y, z

Add(t, D) == [op |-> "add", task |-> t, deps |-> D, joint |-> None,
              dispatch |-> TRUE, inplace |-> FALSE, cached |-> FALSE]
AddCached(t, D) == [Add(t, D) EXCEPT !.cached = TRUE]
AddJoint(t, j, D) == [Add(t, D) EXCEPT !.joint = j]
AddInplace(t, D) == [Add(t, D) EXCEPT !.inplace = TRUE]
AddUndispatched(t, D) == [AddCached(t, D) EXCEPT !.dispatch = FALSE]
Does(op) == [op |-> op]

(* TaskContext.run: the tasks are prepared (p) and, when all is done, old  *)
(* build roots removed (b).                                                *)
Run == <<Add(p, {}), Does("process"), Add(b, {}), Does("process"),
         Does("dispatch_all")>>

(* A distributed build: the result r of node x waits for its download.     *)
DistBody == [t \in {p, b, x, r} |->
  IF t = p THEN <<AddUndispatched(x, {}), Add(r, {x}), Does("signal_ready")>>
           ELSE <<>>]

(* A local build: p prepares node x, whose restore from the cache fails:   *)
(* it is run by y, joint with x, behind its dependency z.  Other nodes need *)
(* z as well, so that p may add it before x does, or after.  The result r  *)
(* of the node is added for x and executed in place.                       *)
LocalBody == [t \in {p, b, x, y, z, r} |->
  CASE t = p -> <<AddCached(x, {}), AddCached(z, {}), AddInplace(r, {x})>>
    [] t = x -> <<AddCached(z, {}), AddJoint(y, x, {z})>>
    [] OTHER -> <<>>]

(* Failures: the preparation and the download may raise; a download may    *)
(* stop the build while another has not started.                           *)
TwoBody == [t \in {p, b, x, y} |->
  IF t = p THEN <<AddUndispatched(x, {}), AddUndispatched(y, {}), Does("signal_ready")>>
           ELSE <<>>]

Build(body, raise, stop, reports) ==
  [body |-> body, raise |-> raise, stop |-> stop, reports |-> reports]

Builds == {Build(DistBody, {}, {}, <<x, x>>), Build(LocalBody, {}, {}, <<>>),
           Build(DistBody, {p, x}, {}, <<x>>), Build(TwoBody, {}, {x}, <<>>)}
=============================================================================
