----------------------------- MODULE Discovery -----------------------------
(***************************************************************************)
(* One search for agents (discovery.py): the registry is read, the hub is  *)
(* asked if there is one, and the matches of both are ranked and cut.      *)
(* Prices and budgets are in quarters of a dollar, trust is in halves and  *)
(* scores in fortieths, so that every number met here is an integer.  NaN  *)
(* is the float that is unequal to everything: JSON replies may hold it.   *)
(***************************************************************************)
EXTENDS SequencesExt

CONSTANTS
    Agents,         \* the rows of the registry
    RawMatches,     \* the entries a hub may list, see Raw
    MaxListed,      \* bound on the entries of a reply; the request says 6
    Budgets,        \* the budgets of the tasks
    MaxMatches,     \* 12 in the code
    SkipDemo,       \* skip_demo_capabilities
    NaN,            \* not a number
    Junk            \* a text that float() refuses

\* A field of an entry; zero stands for a missing one, which Python's "or"
\* does not tell from it.
Number == Int \union {NaN, Junk}
Raw == [routed : Number, listed : Number, trust : 0..2, score : Nat \union {NaN},
        kind : {"plain", "demo", "nameless"}]

ASSUME SearchAssumption ==
    /\ IsFiniteSet(Agents) /\ RawMatches \subseteq Raw
    /\ MaxListed \in Nat /\ MaxMatches \in Nat \ {0} /\ Budgets \subseteq Nat \ {0}
    /\ SkipDemo \in BOOLEAN
    /\ NaN \notin Int /\ Junk \notin Int /\ NaN # Junk

VARIABLES
    registry,   \* registry[a]: verified?, a capability fits?, trust
    budget,     \* budget_usd of the task
    preferred,  \* does the task name capabilities?
    reply,      \* what the hub lists; empty without a usable reply
    matches,    \* matches, in the order they are appended
    searched

searchVars == <<registry, budget, preferred, reply, matches, searched>>
task == <<registry, budget, preferred>>

SearchInit ==
    /\ registry \in [Agents -> [verified : BOOLEAN, fits : BOOLEAN, trust : 0..2]]
    /\ budget \in Budgets /\ preferred \in BOOLEAN
    /\ reply = << >> /\ matches = << >> /\ searched = "local"

----------------------------------------------------------------------------
(* Local agents                                                            *)

\* _capability_score in twentieths: 1.0 for a preferred capability, 0.85 for
\* a word of the intent.
CapabilityScore(a) == IF ~registry[a].fits THEN 0 ELSE IF preferred THEN 20 ELSE 17

\* 0.25 + (1 - trust) * 0.5, at most the budget.
EstimatePrice(a) ==
    IF budget < 3 - registry[a].trust THEN budget ELSE 3 - registry[a].trust

LocalMatch(a) ==
    [id |-> a, source |-> "local", price |-> EstimatePrice(a),
     score |-> CapabilityScore(a) * registry[a].trust]

LocalFound == {a \in Agents : registry[a].verified /\ CapabilityScore(a) > 0}

----------------------------------------------------------------------------
(* Matches of the hub                                                      *)

Or(x, y) == IF x = 0 THEN y ELSE x

\* Comparisons of floats: with NaN all of them are false.
AtMost(x, y) == x # NaN /\ x <= y
Above(x, y) == x # NaN /\ x > y

HubPrice(r) == Or(r.routed, r.listed)
HubTrust(r) == Or(r.trust, 1)
HubScore(r) == Or(r.score, 20 * HubTrust(r))

\* Read as float() before the price is looked at.
Skipped(r) == r.kind = "nameless" \/ (r.kind = "demo" /\ SkipDemo)
Raises(r) == ~Skipped(r) /\ HubPrice(r) = Junk

\* Variant: the filter looks at the price per call and not at the routed one.
DroppedByListed(r) ==
    Skipped(r) \/ AtMost(r.listed, 0) \/ Above(r.listed, budget)

Dropped(r) ==
    Skipped(r) \/ AtMost(HubPrice(r), 0) \/ Above(HubPrice(r), budget)

HubMatch(i, r) == [id |-> i, source |-> "hub", price |-> HubPrice(r), score |-> HubScore(r)]

\* _discover_from_hub, for a reply that is parsed to its end: the matches of
\* the entries that are kept, in the order of the reply.
HubFound(listed) ==
    LET kept == {i \in DOMAIN listed : ~Dropped(listed[i])}
        orders == {o \in SetToSeqs(kept) : \A m, n \in DOMAIN o : m < n => o[m] < o[n]}
    IN  {[n \in DOMAIN o |-> HubMatch(o[n], listed[o[n]])] : o \in orders}

----------------------------------------------------------------------------
(* Ranking                                                                 *)

Orders(n) == {p \in [1..n -> 1..n] : IsInjective(p)}

InOrder(ms, p) ==
    \A i, j \in DOMAIN p :
        i < j => \/ ms[p[i]].score > ms[p[j]].score
                 \/ ms[p[i]].score = ms[p[j]].score /\ p[i] < p[j]

\* The sort is stable and descending; a score that compares with nothing
\* leaves the order to the run of the algorithm.
Rankings(ms) ==
    LET fits == IF \E i \in DOMAIN ms : ms[i].score = NaN
                THEN Orders(Len(ms))
                ELSE {p \in Orders(Len(ms)) : InOrder(ms, p)}
    IN  {[i \in DOMAIN ms |-> ms[p[i]]] : p \in fits}

Cut(ms) == IF Len(ms) <= MaxMatches THEN ms ELSE SubSeq(ms, 1, MaxMatches)

----------------------------------------------------------------------------
(* The steps of discover                                                   *)

\* list_agents: the best trusted first, and the newest of those.
ReadRegistry ==
    /\ searched = "local"
    /\ \E order \in SetToSeqs(LocalFound) :
          /\ \A i, j \in DOMAIN order :
                i < j => registry[order[i]].trust >= registry[order[j]].trust
          /\ matches' = [i \in DOMAIN order |-> LocalMatch(order[i])]
    /\ searched' \in {"hub", "rank"}
    /\ UNCHANGED <<task, reply>>

\* Variant: the local matches are sorted and cut before the hub's are added.
HubAnswersRanked ==
    /\ searched = "hub"
    /\ \E listed \in SeqOf(RawMatches, MaxListed), first \in Rankings(matches) :
          /\ ~\E i \in DOMAIN listed : Raises(listed[i])
          /\ reply' = listed
          /\ \E found \in HubFound(listed) : matches' = Cut(first \o found)
    /\ searched' = "rank"
    /\ UNCHANGED task

HubAnswers ==
    /\ searched = "hub"
    /\ \E listed \in SeqOf(RawMatches, MaxListed) :
          /\ ~\E i \in DOMAIN listed : Raises(listed[i])
          /\ reply' = listed
          /\ \E found \in HubFound(listed) : matches' = matches \o found
    /\ searched' = "rank"
    /\ UNCHANGED task

\* A transport error, a timeout or another status than 200.
HubFails ==
    /\ searched = "hub" /\ searched' = "rank"
    /\ UNCHANGED <<task, reply, matches>>

\* A body that is no JSON object, or a number that is none: the exception is
\* no HTTPError and leaves discover.
HubConfuses ==
    /\ searched = "hub" /\ searched' = "raised"
    /\ UNCHANGED <<task, reply, matches>>

Rank ==
    /\ searched = "rank"
    /\ \E ranked \in Rankings(matches) : matches' = Cut(ranked)
    /\ searched' = "done"
    /\ UNCHANGED <<task, reply>>

SearchNext == ReadRegistry \/ HubFails \/ HubAnswers \/ HubConfuses \/ Rank

SearchSpec == SearchInit /\ [][SearchNext]_searchVars

----------------------------------------------------------------------------
(* Properties                                                              *)

\* What a search may return, without the order in which it works: matches that
\* cost something, and not more than the task has, since the pipeline holds and
\* pays the price of a match without another look at the budget.
Eligible ==
    LET local == {LocalMatch(a) : a \in {a \in Agents : registry[a].verified /\ registry[a].fits}}
        kinds == IF SkipDemo THEN {"plain"} ELSE {"plain", "demo"}
        hub == {HubMatch(i, reply[i]) : i \in {i \in DOMAIN reply : reply[i].kind \in kinds}}
    IN  {m \in local \union hub : m.price # NaN /\ m.price \in 1..budget}

\* A search returns the best it has seen, best first, local ones before the
\* hub's on a tie, and stops short of its limit only when there are no more.
\* The loop of the pipeline stops at the first success, so what is left out
\* or comes late is never tried.
BestFirst ==
    searched = "done" =>
        LET returned == ToSet(matches)
        IN  /\ returned \subseteq Eligible /\ IsInjective(matches)
            /\ returned # Eligible => Len(matches) = MaxMatches
            /\ \A i \in DOMAIN matches, e \in Eligible :
                  e \notin ToSet(SubSeq(matches, 1, i))
                      => \/ matches[i].score > e.score
                         \/ /\ matches[i].score = e.score
                            /\ matches[i].source = "hub" => e.source = "hub"
=============================================================================
