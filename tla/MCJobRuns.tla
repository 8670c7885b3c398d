----------------------------- MODULE MCJobRuns -----------------------------
(* Two replicas, a request slot in each, one job that is due every second  *)
(* minute.  A row's lease and the history trim are both one minute.        *)
EXTENDS JobRuns, TLC

CONSTANTS j1, r1, r2, w1, w2

MCReplicaOf == (w1 :> r1) @@ (w2 :> r2)
\* Swapping the replicas together with their slots maps behaviours to behaviours.
Swap == {(r1 :> r2) @@ (r2 :> r1) @@ (w1 :> w2) @@ (w2 :> w1),
         (r1 :> r1) @@ (r2 :> r2) @@ (w1 :> w1) @@ (w2 :> w2)}

MCPeriod == [j \in {j1} |-> 2]
=============================================================================
