------------------------------ MODULE MCEdges ------------------------------
(***************************************************************************)
(* The two edges of the API, one at a time: the limiter that requests meet *)
(* on the way in, and one call on the way out.  They share nothing; the    *)
(* edge that is not looked at stays where it began.                        *)
(***************************************************************************)
EXTENDS RateLimiter, InvokeClient

VARIABLE part

EdgesInit ==
    /\ part \in {"limiter", "client"}
    /\ IF part = "client" THEN TRUE ELSE call = "preflight_hub" /\ names = {}
    /\ Init /\ CallInit

LimiterStep == part = "limiter" /\ Next /\ UNCHANGED <<part, callVars>>
ClientStep == part = "client" /\ CallNext /\ UNCHANGED <<part, vars>>

EdgesNext == LimiterStep \/ ClientStep

\* Every wait of a call for a byte ends: httpx limits it.  That the body ends
\* is not assumed.
EdgesSpec ==
    /\ EdgesInit /\ [][EdgesNext]_<<part, vars, callVars>>
    /\ WF_callVars(part = "client" /\ Step)

\* CallEnds, where a call is looked at: it ends even if the body does not.
EveryCallEnds == part = "client" => CallEnds
=============================================================================
