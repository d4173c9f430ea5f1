----------------------------- MODULE MCRegistry -----------------------------
(***************************************************************************)
(* The registry and who reads it, one part at a time: registrations and    *)
(* bindings, a search for agents, and the figures of /v1/stats.  A search  *)
(* and the figures read tables of their own here, which hold whatever the  *)
(* registrations can have made.  A part that is not looked at stays where  *)
(* it began.                                                               *)
(***************************************************************************)
EXTENDS AgentRegistry, Discovery, MeshStats

\* One registration in order, one without a signature, one with another's
\* signature under a bad name.
Good == [name |-> TRUE, key |-> TRUE, capabilities |-> TRUE, attestation |-> "valid"]
Typical == {Good, [Good EXCEPT !.attestation = "missing"],
            [Good EXCEPT !.attestation = "invalid", !.name = FALSE]}

\* Entries a hub may list: routed and plain prices, missing ones, too dear,
\* negative and unreadable ones, demos, ties with local scores.
Entry(routed, listed, trust, score) ==
    [routed |-> routed, listed |-> listed, trust |-> trust, score |-> score, kind |-> "plain"]

Numbers ==
    {Entry(1, 0, 1, 0), Entry(0, 2, 0, 34), Entry(4, 1, 2, 0), Entry(2, 9, 2, 40),
     Entry(0, 0, 1, 40), Entry(-1, 1, 1, 40), Entry(Junk, 1, 1, 40),
     [Entry(1, 1, 2, 40) EXCEPT !.kind = "demo"],
     [Entry(Junk, 1, 2, 40) EXCEPT !.kind = "nameless"]}

VARIABLE part

MCInit ==
    /\ part \in {"registry", "search", "stats"}
    /\ IF part = "registry" THEN TRUE
       ELSE home = [r \in Requests |-> CHOOSE p \in Procs : TRUE] /\ facts = [r \in Requests |-> Good]
    /\ IF part = "search" THEN TRUE
       ELSE /\ registry = [a \in Agents |-> [verified |-> FALSE, fits |-> FALSE, trust |-> 0]]
            /\ budget = (CHOOSE b \in Budgets : TRUE) /\ preferred = FALSE
    /\ Init /\ SearchInit /\ StatsInit

RegistryStep == part = "registry" /\ Next /\ UNCHANGED <<part, searchVars, statsVars>>
SearchStep == part = "search" /\ SearchNext /\ UNCHANGED <<part, vars, statsVars>>
StatsStep == part = "stats" /\ StatsNext /\ UNCHANGED <<part, vars, searchVars>>

MCNext == RegistryStep \/ SearchStep \/ StatsStep

MCSpec == MCInit /\ [][MCNext]_<<part, vars, searchVars, statsVars>>
=============================================================================
