-------------------------- MODULE MCTaskPipeline --------------------------
(***************************************************************************)
(* Instances of TaskPipeline for TLC.  One agent of each kind: "local" is  *)
(* called directly, "routed" is local but invoked through the hub, "hub"   *)
(* comes from a hub search.  Prices fall on both sides of the budget, so   *)
(* that a local price is clipped and the hub agent is on the edge.         *)
(***************************************************************************)
EXTENDS TaskPipeline

CONSTANTS p1, p2, t1, t2, local, routed, hub

OneHome == [t \in Tasks |-> p1]
Prices == [a \in Agents |-> IF a = local THEN 3 ELSE IF a = hub THEN 2 ELSE 1]
Budgets == [t \in Tasks |-> 2]
===========================================================================
