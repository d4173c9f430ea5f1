---------------------------- MODULE RateLimiter ----------------------------
(***************************************************************************)
(* RateLimiter of security.py with the client_ip that names its buckets,   *)
(* as _rate of api.py calls them at the top of every route.  check reads   *)
(* the clock once and has no await, so it is one step.                     *)
(*                                                                         *)
(* The code keeps times; here hits[k] holds the positions, in the log of   *)
(* admitted requests, of the requests whose times self._hits[k] holds.     *)
(* The log itself is history: the code forgets, and must not be seen to.   *)
(***************************************************************************)
EXTENDS SequencesExt

CONSTANTS
    Clients,        \* addresses that requests come from
    Proxy,          \* the reverse proxy, if the API is behind one
    BehindProxy,    \* is it?
    TrustForwarded, \* MESH_TRUST_FORWARDED_FOR
    Limit,          \* MESH_RATE_LIMIT, at least 1
    Window,         \* 60 seconds
    PruneEvery,     \* checks between two prunings (64)
    MaxKeys,        \* buckets beyond which every check prunes (4096)
    MaxTime         \* bound of the clock

ASSUME LimiterAssumption ==
    /\ {Limit, Window, PruneEvery} \subseteq Nat \ {0}
    /\ {MaxKeys, MaxTime} \subseteq Nat
    /\ {BehindProxy, TrustForwarded} \subseteq BOOLEAN
ASSUME DeploymentAssumption == TrustForwarded = BehindProxy

Buckets == Clients \union {Proxy}

VARIABLES
    now,        \* time.time()
    hits,       \* self._hits: no entry is the same as an empty one
    checks,     \* self._checks modulo PruneEvery
    log,        \* history: who was admitted, and when
    answer      \* history: the last request and whether it was admitted

vars == <<now, hits, checks, log, answer>>

\* X-Forwarded-For as it reaches the API: what the client sent, to which the
\* proxy appends the address it saw.
Chain(c, sent) == IF BehindProxy THEN Append(sent, c) ELSE sent
Peer(c) == IF BehindProxy THEN Proxy ELSE c

ClientIp(c, sent) ==
    IF TrustForwarded /\ Chain(c, sent) # << >>
    THEN Last(Chain(c, sent)) ELSE Peer(c)

Counts(i, entries) == now < entries[i].time + Window

\* Variant: a bucket is as old as its first hit.
StaleByFirst(bucket, entries) ==
    \A i \in bucket : (\A j \in bucket : i <= j) => ~Counts(i, entries)

\* No hit at all, or window[-1], the newest, no longer counts.
Stale(bucket, entries) ==
    \A i \in bucket : (\A j \in bucket : j <= i) => ~Counts(i, entries)

\* Variant: buckets are pruned every PruneEvery checks only.
PruneDueByCount(stored, n) == n = 0

Keys(stored) == {k \in Buckets : stored[k] # {}}

PruneDue(stored, n) == n = 0 \/ Cardinality(Keys(stored)) > MaxKeys

Kept(k) == {i \in hits[k] : Counts(i, log)}

Admit(c, k) ==
    LET stored == [hits EXCEPT ![k] = Kept(k) \union {Len(log) + 1}]
    IN  /\ Cardinality(Kept(k)) < Limit
        /\ log' = Append(log, [client |-> c, time |-> now])
        /\ checks' = (checks + 1) % PruneEvery
        /\ hits' = [b \in Buckets |->
                       IF PruneDue(stored, checks') /\ Stale(stored[b], log')
                       THEN {} ELSE stored[b]]
        /\ answer' = <<c, TRUE>>
        /\ UNCHANGED now

\* 429, raised before anything is stored, counted or pruned.
Refuse(c, k) ==
    /\ Cardinality(Kept(k)) >= Limit
    /\ answer' = <<c, FALSE>>
    /\ UNCHANGED <<now, hits, checks, log>>

\* A client may write a chain of its own, with any address in it.
SentChains == {<< >>} \union {<<a>> : a \in Clients}

Check(c) ==
    \E sent \in SentChains :
        LET k == ClientIp(c, sent) IN Admit(c, k) \/ Refuse(c, k)

Tick ==
    /\ now < MaxTime
    /\ now' = now + 1
    /\ UNCHANGED <<hits, checks, log, answer>>

Init ==
    /\ now = 0
    /\ hits = [k \in Buckets |-> {}]
    /\ checks = 0
    /\ log = << >>
    /\ answer = << >>

Next == Tick \/ \E c \in Clients : Check(c)

Spec == Init /\ [][Next]_vars

(***************************************************************************)
(* Properties                                                              *)
(***************************************************************************)
Promise == INSTANCE SlidingWindow

\* The buckets, filtered at every check and pruned now and then, answer every
\* request as a log would that keeps everything.
SlidingWindowSpec == Promise!Spec

\* However a client words its chain, at most Limit of its requests of the
\* last Window ticks were admitted.
NeverOverLimit == Promise!NeverOverLimit

TypeOK ==
    /\ now \in Nat
    /\ hits \in [Buckets -> SUBSET DOMAIN log]
    /\ checks \in 0 .. PruneEvery - 1
    /\ log \in Seq([client : Clients, time : Nat])

\* The inductive invariant: the log is in the order of the clock; a bucket has
\* requests of its client alone, and every one of them that still counts; no
\* client is above its limit.
LimiterInv ==
    /\ TypeOK
    /\ \A i \in DOMAIN log :
          log[i].time <= now /\ \A j \in 1 .. i : log[j].time <= log[i].time
    /\ \A c \in Clients :
          /\ Promise!Recent(c) \subseteq hits[c]
          /\ \A i \in hits[c] : log[i].client = c
    /\ NeverOverLimit

\* Memory is bounded by the clients that are active: a request that leaves
\* more than MaxKeys buckets behind leaves none that no longer counts.
CrowdIsActive ==
    [][ log' # log /\ Cardinality(Keys(hits')) > MaxKeys
        => \A k \in Keys(hits') : ~Stale(hits'[k], log') ]_vars
===========================================================================
