----------------------------- MODULE EdgesProof -----------------------------
(***************************************************************************)
(* What is proved of the two edges of the mesh.  The incoming one:         *)
(* RateLimiter keeps the promise of SlidingWindow, for every set of        *)
(* clients, limit, window, pruning rhythm and number of buckets.  The      *)
(* outgoing one: what a call of InvokeClient buffers, connects to and      *)
(* accepts, for every cap, chunk and set of addresses.                     *)
(***************************************************************************)
EXTENDS RateLimiter, InvokeClient, FiniteSetTheorems, WellFoundedInduction, TLAPS

(***************************************************************************)
(* The rate limiter                                                        *)
(***************************************************************************)

\* The cardinality that the abstract module counts with is the one used here.
LEMMA SameCardinality == \A S : Promise!Cardinality(S) = Cardinality(S)
BY Zenon DEF Promise!Cardinality, Cardinality

\* Whatever chain a client sends, it is counted under its own address.
LEMMA OwnBucket ==
    ASSUME NEW c \in Clients, NEW sent \in SentChains
    PROVE  ClientIp(c, sent) = c
<1>1. sent \in Seq(Clients)
  <2>1. CASE sent = << >>
    BY <2>1
  <2>2. CASE sent \in {<<a>> : a \in Clients}
    <3>1. PICK a \in Clients : sent = <<a>>
      BY <2>2
    <3> QED
      BY <3>1
  <2> QED
    BY <2>1, <2>2 DEF SentChains
<1>2. CASE BehindProxy
  <2>1. Append(sent, c) # << >> /\ Last(Append(sent, c)) = c
    BY <1>1 DEF Last
  <2> QED
    BY <1>2, <2>1, DeploymentAssumption DEF ClientIp, Chain
<1>3. CASE ~BehindProxy
  BY <1>3, DeploymentAssumption DEF ClientIp, Peer
<1> QED
  BY <1>2, <1>3

\* An entry of a sequence is of the type of its entries.
LEMMA ElementOf ==
    ASSUME NEW S, NEW q \in Seq(S), NEW i \in DOMAIN q
    PROVE  q[i] \in S
OBVIOUS

\* What the type of the log says of an entry.
LEMMA Entries ==
    ASSUME TypeOK
    PROVE  /\ now \in Nat /\ Len(log) \in Nat /\ DOMAIN log = 1 .. Len(log)
           /\ \A i \in DOMAIN log : log[i] \in [client : Clients, time : Nat]
<1>1. now \in Nat /\ log \in Seq([client : Clients, time : Nat])
  BY DEF TypeOK
<1>2. Len(log) \in Nat /\ DOMAIN log = 1 .. Len(log)
  BY <1>1
<1>3. \A i \in DOMAIN log : log[i] \in [client : Clients, time : Nat]
  BY <1>1, ElementOf, Zenon
<1> QED
  BY <1>1, <1>2, <1>3

\* The requests that count are finitely many.
LEMMA RecentFinite ==
    ASSUME TypeOK, NEW c
    PROVE  IsFiniteSet(Promise!Recent(c))
<1>1. DOMAIN log = 1 .. Len(log) /\ Len(log) \in Nat
  BY DEF TypeOK
<1>2. IsFiniteSet(1 .. Len(log))
  BY <1>1, FS_Interval
<1> QED
  BY <1>1, <1>2, FS_Subset DEF Promise!Recent

\* What check filters out of the bucket of a client is its requests that count.
LEMMA KeptIsRecent ==
    ASSUME LimiterInv, NEW c \in Clients
    PROVE  Kept(c) = Promise!Recent(c)
BY LimiterAssumption DEF LimiterInv, TypeOK, Kept, Counts, Promise!Recent, Buckets

\* A bucket that is not empty has a newest hit.
LEMMA NewestHit ==
    ASSUME NEW n \in Nat, NEW bucket \in SUBSET (1 .. n), bucket # {}
    PROVE  \E i \in bucket : \A j \in bucket : j <= i
<1> DEFINE ages == {n - i : i \in bucket}
<1>1. ages \subseteq Nat /\ ages # {}
  <2>1. ASSUME NEW i \in bucket PROVE n - i \in Nat
    <3>1. i \in 1 .. n
      BY Zenon
    <3> QED
      BY <3>1
  <2>2. ages \subseteq Nat
    BY <2>1, Zenon
  <2>3. ages # {}
    BY Zenon
  <2> QED
    BY <2>2, <2>3, Zenon
<1>2. PICK a \in ages : \A b \in ages : ~ (<<b, a>> \in OpToRel(<, Nat))
  BY <1>1, WFMin, NatLessThanWellFounded, Zenon
<1>3. \A b \in ages : ~ (b < a)
  BY <1>1, <1>2 DEF OpToRel
<1>4. PICK i \in bucket : a = n - i
  OBVIOUS
<1>5. ASSUME NEW j \in bucket PROVE j <= i
  <2>1. n - j \in ages
    OBVIOUS
  <2>2. ~ (n - j < a)
    BY <1>3, <2>1
  <2>3. i \in Nat /\ j \in Nat
    OBVIOUS
  <2> QED
    BY <1>4, <2>2, <2>3
<1> QED
  BY <1>5

\* The invariant at the start and after each kind of step.
LEMMA InitKeeps == Init => LimiterInv
<1> SUFFICES ASSUME Init PROVE LimiterInv
  OBVIOUS
<1>1. TypeOK
  BY LimiterAssumption DEF Init, TypeOK, Buckets
<1>2. \A c \in Clients : Promise!Recent(c) = {}
  BY DEF Init, Promise!Recent
<1>3. NeverOverLimit
  BY <1>2, SameCardinality, FS_EmptySet, LimiterAssumption DEF NeverOverLimit, Promise!NeverOverLimit
<1> QED
  BY <1>1, <1>2, <1>3 DEF LimiterInv, Init, Buckets

LEMMA TickKeeps == LimiterInv /\ Tick => LimiterInv'
<1> SUFFICES ASSUME LimiterInv, Tick PROVE LimiterInv'
  OBVIOUS
<1> USE DEF LimiterInv
<1>1. TypeOK'
  BY DEF TypeOK, Tick
<1>2. ASSUME NEW c \in Clients PROVE Promise!Recent(c)' \subseteq Promise!Recent(c)
  BY Entries, LimiterAssumption DEF Promise!Recent, Tick
<1>3. ASSUME NEW c \in Clients PROVE Cardinality(Promise!Recent(c)') <= Limit
  <2>1. Cardinality(Promise!Recent(c)') <= Cardinality(Promise!Recent(c))
    BY <1>2, RecentFinite, FS_Subset
  <2>2. Cardinality(Promise!Recent(c)) <= Limit
    BY SameCardinality DEF NeverOverLimit, Promise!NeverOverLimit
  <2>3. IsFiniteSet(Promise!Recent(c)')
    BY <1>2, RecentFinite, FS_Subset
  <2> QED
    BY <2>1, <2>2, <2>3, RecentFinite, FS_CardinalityType, LimiterAssumption
<1>4. \A i \in DOMAIN log : log[i].time <= now + 1
  BY Entries
<1> QED
  BY <1>1, <1>2, <1>3, <1>4, SameCardinality DEF Tick, NeverOverLimit, Promise!NeverOverLimit

LEMMA RefuseKeeps ==
    ASSUME LimiterInv, NEW c \in Clients, Refuse(c, c)
    PROVE  LimiterInv' /\ Promise!Refuse(c)
<1>1. Promise!Refuse(c)
  BY KeptIsRecent, SameCardinality DEF Refuse, Promise!Refuse
<1>2. LimiterInv'
  BY DEF LimiterInv, TypeOK, NeverOverLimit, Promise!NeverOverLimit, Promise!Recent, Refuse
<1> QED
  BY <1>1, <1>2

LEMMA AdmitKeeps ==
    ASSUME LimiterInv, NEW c \in Clients, Admit(c, c)
    PROVE  LimiterInv' /\ Promise!Admit(c)
<1> DEFINE new == Len(log) + 1
           stored == [hits EXCEPT ![c] = Kept(c) \union {new}]
<1>1. Promise!Admit(c)
  BY KeptIsRecent, SameCardinality DEF Admit, Promise!Admit
<1>2. /\ log' = Append(log, [client |-> c, time |-> now])
      /\ now' = now
      /\ checks' = (checks + 1) % PruneEvery
      /\ hits' = [b \in Buckets |->
                     IF PruneDue(stored, checks') /\ Stale(stored[b], log')
                     THEN {} ELSE stored[b]]
  BY DEF Admit
<1>3. /\ Len(log) \in Nat /\ DOMAIN log = 1 .. Len(log)
      /\ DOMAIN log' = 1 .. new
      /\ log'[new] = [client |-> c, time |-> now]
      /\ \A i \in DOMAIN log : log'[i] = log[i]
  BY <1>2 DEF LimiterInv, TypeOK
<1>4. Kept(c) \subseteq DOMAIN log /\ c \in Buckets
  BY DEF Kept, LimiterInv, TypeOK, Buckets
<1>5. stored \in [Buckets -> SUBSET DOMAIN log']
  BY <1>3, <1>4 DEF LimiterInv, TypeOK
<1>6. TypeOK'
  <2>1. hits' \in [Buckets -> SUBSET DOMAIN log']
    BY <1>2, <1>5
  <2>2. log' \in Seq([client : Clients, time : Nat])
    BY <1>2 DEF LimiterInv, TypeOK
  <2>3. checks' \in 0 .. PruneEvery - 1
    BY <1>2, LimiterAssumption DEF LimiterInv, TypeOK
  <2> QED
    BY <1>2, <2>1, <2>2, <2>3 DEF LimiterInv, TypeOK
<1>7. \A i \in DOMAIN log' :
         log'[i].time <= now' /\ \A j \in 1 .. i : log'[j].time <= log'[i].time
  BY <1>2, <1>3, Entries DEF LimiterInv
<1>8. Promise!Recent(c)' = Promise!Recent(c) \union {new}
  <2>1. now < log'[new].time + Window
    BY <1>3, LimiterAssumption DEF LimiterInv, TypeOK
  <2> QED
    BY <1>2, <1>3, <2>1 DEF Promise!Recent
<1>9. ASSUME NEW d \in Clients, d # c PROVE Promise!Recent(d)' = Promise!Recent(d)
  BY <1>2, <1>3, <1>9 DEF Promise!Recent
<1>10. ASSUME NEW d \in Clients
      PROVE /\ Promise!Recent(d)' \subseteq stored[d]
            /\ \A i \in stored[d] : log'[i].client = d
  <2>1. d \in Buckets /\ hits[d] \subseteq DOMAIN log
    BY DEF LimiterInv, TypeOK, Buckets
  <2>2. CASE d = c
    <3>1. stored[d] = Kept(c) \union {new}
      BY <1>4, <2>2 DEF LimiterInv, TypeOK
    <3>2. \A i \in Kept(c) : log[i].client = c
      BY DEF Kept, LimiterInv
    <3> QED
      BY <1>3, <1>4, <1>8, <2>2, <3>1, <3>2, KeptIsRecent
  <2>3. CASE d # c
    <3>1. stored[d] = hits[d]
      BY <2>1, <2>3 DEF LimiterInv, TypeOK
    <3> QED
      BY <1>3, <1>9, <2>1, <2>3, <3>1 DEF LimiterInv
  <2> QED
    BY <2>2, <2>3
<1>11. ASSUME NEW d \in Clients, Stale(stored[d], log') PROVE Promise!Recent(d)' = {}
  <2> SUFFICES ASSUME NEW i \in Promise!Recent(d)' PROVE FALSE
    OBVIOUS
  <2>1. d \in Buckets /\ stored[d] \subseteq 1 .. new /\ i \in stored[d]
    BY <1>3, <1>5, <1>10 DEF Buckets
  <2>2. new \in Nat /\ stored[d] \in SUBSET (1 .. new) /\ stored[d] # {}
    BY <1>3, <2>1
  <2>3. PICK last \in stored[d] : \A j \in stored[d] : j <= last
    BY <2>2, NewestHit, Zenon
  <2>4. ~ (now < log'[last].time + Window) /\ now < log'[i].time + Window
    <3>1. now' = now
      BY <1>2
    <3>2. ~ (now' < log'[last].time + Window)
      BY <1>11, <2>3, <3>1 DEF Stale, Counts
    <3>3. now' < log'[i].time + Window
      BY DEF Promise!Recent
    <3> QED
      BY <3>1, <3>2, <3>3
  <2>5. log'[i].time <= log'[last].time
    BY <1>3, <1>7, <2>1, <2>2, <2>3
  <2>6. log'[i] \in [client : Clients, time : Nat] /\ log'[last] \in [client : Clients, time : Nat]
    <3>1. log' \in Seq([client : Clients, time : Nat]) /\ {i, last} \subseteq DOMAIN log'
      BY <1>3, <1>6, <2>1, <2>2 DEF TypeOK
    <3> QED
      BY <3>1, ElementOf
  <2>7. log'[i].time \in Nat /\ log'[last].time \in Nat
    BY <2>6
  <2> QED
    <3>1. now \in Nat /\ Window \in Nat
      BY LimiterAssumption DEF LimiterInv, TypeOK
    <3> QED
      BY <2>4, <2>5, <2>7, <3>1
<1>12. ASSUME NEW d \in Clients
      PROVE /\ Promise!Recent(d)' \subseteq hits'[d]
            /\ \A i \in hits'[d] : log'[i].client = d
  BY <1>2, <1>10, <1>11 DEF Buckets
<1>13. ASSUME NEW d \in Clients PROVE Cardinality(Promise!Recent(d)') <= Limit
  <2>1. CASE d = c
    <3>1. Cardinality(Promise!Recent(c)) < Limit
      BY KeptIsRecent DEF Admit
    <3>2. new \notin Promise!Recent(c)
      BY <1>3 DEF Promise!Recent
    <3>3. IsFiniteSet(Promise!Recent(c))
      BY RecentFinite DEF LimiterInv
    <3>4. Cardinality(Promise!Recent(c) \union {new}) = Cardinality(Promise!Recent(c)) + 1
      BY <3>2, <3>3, FS_AddElement
    <3> QED
      <4>1. Cardinality(Promise!Recent(c)) \in Nat /\ Limit \in Nat
        BY <3>3, FS_CardinalityType, LimiterAssumption
      <4>2. Cardinality(Promise!Recent(c)) + 1 <= Limit
        BY <3>1, <4>1
      <4> QED
        BY <1>8, <2>1, <3>4, <4>2
  <2>2. CASE d # c
    BY <1>9, <2>2, SameCardinality DEF LimiterInv, NeverOverLimit, Promise!NeverOverLimit
  <2> QED
    BY <2>1, <2>2
<1> QED
  BY <1>1, <1>6, <1>7, <1>12, <1>13, SameCardinality
     DEF LimiterInv, NeverOverLimit, Promise!NeverOverLimit

\* Every step keeps the invariant, and is a step of the abstract limiter.
LEMMA StepKeeps ==
    LimiterInv /\ [Next]_vars => LimiterInv' /\ [Promise!Next]_<<now, log, answer>>
<1> SUFFICES ASSUME LimiterInv, [Next]_vars
             PROVE  LimiterInv' /\ [Promise!Next]_<<now, log, answer>>
  OBVIOUS
<1>1. CASE Tick
  <2>1. Promise!Tick
    BY <1>1 DEF Tick, Promise!Tick
  <2> QED
    BY <1>1, <2>1, TickKeeps DEF Promise!Next
<1>2. ASSUME NEW c \in Clients, Check(c)
      PROVE  LimiterInv' /\ Promise!Next
  <2>1. Admit(c, c) \/ Refuse(c, c)
    BY <1>2, OwnBucket DEF Check
  <2> QED
    BY <2>1, AdmitKeeps, RefuseKeeps DEF Promise!Next
<1>3. CASE UNCHANGED vars
  BY <1>3 DEF vars, LimiterInv, TypeOK, NeverOverLimit, Promise!NeverOverLimit, Promise!Recent
<1> QED
  BY <1>1, <1>2, <1>3 DEF Next

\* The invariant holds in every state of every instance.
THEOREM LimiterInvariant == Spec => []LimiterInv
<1> QED
  BY InitKeeps, StepKeeps, PTL DEF Spec

\* No client is ever above its limit within one window.
THEOREM LimitKept == Spec => []NeverOverLimit
<1>1. LimiterInv => NeverOverLimit
  BY DEF LimiterInv
<1> QED
  BY <1>1, LimiterInvariant, PTL

\* The limiter that forgets implements the one that does not.
THEOREM PromiseKept == Spec => SlidingWindowSpec
<1>1. Init => Promise!Init
  BY DEF Init, Promise!Init
<1> QED
  BY <1>1, InitKeeps, StepKeeps, PTL
     DEF Spec, SlidingWindowSpec, Promise!Spec, Promise!window

\* A request that leaves more than MaxKeys buckets leaves active ones only.
THEOREM CrowdPruned == Spec => CrowdIsActive
<1> DEFINE Pruned ==
      log' # log /\ Cardinality(Keys(hits')) > MaxKeys
      => \A k \in Keys(hits') : ~Stale(hits'[k], log')
<1>1. LimiterInv /\ [Next]_vars => Pruned
  <2> SUFFICES ASSUME LimiterInv, [Next]_vars, log' # log,
                      Cardinality(Keys(hits')) > MaxKeys,
                      NEW k \in Keys(hits')
               PROVE  ~Stale(hits'[k], log')
    OBVIOUS
  <2>1. PICK c \in Clients : Admit(c, c)
    BY OwnBucket DEF Next, vars, Tick, Check, Refuse
  <2> DEFINE stored == [hits EXCEPT ![c] = Kept(c) \union {Len(log) + 1}]
  <2>2. hits' = [b \in Buckets |->
                    IF PruneDue(stored, checks') /\ Stale(stored[b], log')
                    THEN {} ELSE stored[b]]
    BY <2>1 DEF Admit
  <2>3. PruneDue(stored, checks')
    <3> SUFFICES ASSUME ~PruneDue(stored, checks') PROVE FALSE
      OBVIOUS
    <3>1. Keys(hits') = Keys(stored)
      BY <2>2 DEF Keys
    <3> QED
      BY <3>1 DEF PruneDue
  <2>4. k \in Buckets /\ hits'[k] # {}
    BY DEF Keys
  <2> QED
    BY <2>2, <2>3, <2>4
<1> QED
  BY <1>1, LimiterInvariant, PTL DEF Spec, CrowdIsActive

(***************************************************************************)
(* The invocation client                                                   *)
(***************************************************************************)

\* The invariant at the start and after each kind of step.
LEMMA CallInitKeeps == CallInit => ClientInv
<1> SUFFICES ASSUME CallInit PROVE ClientInv
  OBVIOUS
<1>1. content \in Contents
  <2>1. [object |-> TRUE, denied |-> FALSE, marker |-> "none", told |-> TRUE] \in Contents
    BY DEF Contents
  <2> QED
    BY <2>1 DEF CallInit
<1>2. CallTypeOK
  BY <1>1 DEF CallInit, CallTypeOK, Declarations
<1> QED
  BY <1>2, ClientAssumption
     DEF CallInit, ClientInv, BufferBounded, PinnedIsJudged, AcceptedIsReal,
         LeavesNothingOpen, ToHub

LEMMA JudgeKeeps == ClientInv /\ (Judge \/ SendFails \/ Flip) => ClientInv'
<1> SUFFICES ASSUME ClientInv, Judge \/ SendFails \/ Flip PROVE ClientInv'
  OBVIOUS
<1> USE DEF ClientInv, CallTypeOK, BufferBounded, PinnedIsJudged, AcceptedIsReal,
            LeavesNothingOpen, rest, Finish
<1>1. CASE Judge
  BY <1>1 DEF Judge
<1>2. CASE SendFails
  BY <1>2 DEF SendFails
<1>3. CASE Flip
  BY <1>3 DEF Flip
<1> QED
  BY <1>1, <1>2, <1>3

\* The address of a request is one of those judged by the second resolution.
LEMMA PinKeeps == ClientInv /\ Pin => ClientInv'
<1> SUFFICES ASSUME ClientInv, Pin PROVE ClientInv'
  OBVIOUS
<1> USE DEF ClientInv, CallTypeOK, BufferBounded, AcceptedIsReal, LeavesNothingOpen, Finish
<1>1. CASE Safe /\ names # {}
  <2>1. PICK a \in names : target' = {a}
    BY <1>1 DEF Pin
  <2>2. Cardinality(target') = 1 /\ target' \intersect Blocked = {}
    <3>1. Cardinality({a}) = 1
      BY FS_Singleton
    <3>2. a \notin Blocked
      BY <1>1 DEF Safe
    <3> QED
      BY <2>1, <3>1, <3>2
  <2> QED
    BY <1>1, <2>1, <2>2 DEF Pin, PinnedIsJudged
<1>2. CASE ~(Safe /\ names # {})
  BY <1>2 DEF Pin, PinnedIsJudged
<1> QED
  BY <1>1, <1>2

\* The body grows by a chunk at a time, and beyond the cap no further.
LEMMA ReadKeeps == ClientInv /\ Read => ClientInv'
<1> SUFFICES ASSUME ClientInv, Read PROVE ClientInv'
  OBVIOUS
<1>1. PICK n \in 1 .. Chunk : buffered' = buffered + n
  BY DEF Read
<1>2. buffered' \in Nat /\ buffered' <= MaxBytes + Chunk
  BY <1>1, ClientAssumption DEF ClientInv, CallTypeOK, Read
<1>3. CASE buffered' > MaxBytes
  BY <1>2, <1>3, ClientAssumption
     DEF Read, Leave, ClientInv, CallTypeOK, BufferBounded, PinnedIsJudged,
         AcceptedIsReal, LeavesNothingOpen
<1>4. CASE ~(buffered' > MaxBytes)
  BY <1>2, <1>4, ClientAssumption
     DEF Read, ClientInv, CallTypeOK, BufferBounded, PinnedIsJudged,
         AcceptedIsReal, LeavesNothingOpen
<1> QED
  BY <1>3, <1>4

LEMMA ReplyKeeps ==
    ClientInv /\ (Send \/ Headers \/ EndOfBody \/ ReadFails \/ Finally) => ClientInv'
<1> SUFFICES ASSUME ClientInv, Send \/ Headers \/ EndOfBody \/ ReadFails \/ Finally
             PROVE  ClientInv'
  OBVIOUS
<1> USE ClientAssumption
    DEF ClientInv, CallTypeOK, BufferBounded, PinnedIsJudged, AcceptedIsReal,
        LeavesNothingOpen, Leave, Finish
<1>1. CASE Send
  BY <1>1 DEF Send
<1>2. CASE Headers
  BY <1>2 DEF Headers
<1>3. CASE EndOfBody
  BY <1>3 DEF EndOfBody
<1>4. CASE ReadFails
  BY <1>4 DEF ReadFails
<1>5. CASE Finally
  BY <1>5 DEF Finally
<1> QED
  BY <1>1, <1>2, <1>3, <1>4, <1>5

\* The verdict accepts what AcceptedIsReal says, and nothing else.
LEMMA DecodeKeeps == ClientInv /\ Decode => ClientInv'
<1> SUFFICES ASSUME ClientInv, Decode PROVE ClientInv'
  OBVIOUS
<1>1. Verdict(call, reply, content) \in {"accepted", "refused", "raised"}
  BY DEF Verdict
<1>2. Verdict(call, reply, content) = "accepted" =>
        /\ reply.status = 200
        /\ call = "invoke_via_hub" => ~content.denied
        /\ call \notin Preflights /\ RejectDemo => ~DemoMarked(content)
  BY DEF Verdict, Preflights
<1>3. AcceptedIsReal'
  BY <1>2 DEF AcceptedIsReal, Decode, Finish, rest, ClientInv, DemoMarked
<1> QED
  BY <1>1, <1>3
     DEF Decode, Finish, rest, ClientInv, CallTypeOK, BufferBounded, PinnedIsJudged,
         LeavesNothingOpen

\* The invariant holds in every state of every instance.
THEOREM ClientInvariant == CallSpec => []ClientInv
<1>1. ClientInv /\ [CallNext]_callVars => ClientInv'
  <2>1. CASE UNCHANGED callVars
    BY <2>1 DEF callVars, ClientInv, CallTypeOK, BufferBounded, PinnedIsJudged,
                AcceptedIsReal, LeavesNothingOpen, DemoMarked
  <2> QED
    BY <2>1, JudgeKeeps, PinKeeps, ReadKeeps, ReplyKeeps, DecodeKeeps DEF CallNext, Step
<1> QED
  BY <1>1, CallInitKeeps, PTL DEF CallSpec

\* A reply costs the cap and one chunk; what is decoded is within the cap.
THEOREM BufferKept == CallSpec => []BufferBounded
<1>1. ClientInv => BufferBounded
  BY DEF ClientInv
<1> QED
  BY <1>1, ClientInvariant, PTL

\* Only whole, successful and unmarked replies are accepted.
THEOREM AcceptanceSound == CallSpec => []AcceptedIsReal
<1>1. ClientInv => AcceptedIsReal
  BY DEF ClientInv
<1> QED
  BY <1>1, ClientInvariant, PTL

\* A call to an agent connects to one address, which was judged and is not
\* blocked, however names change meanwhile.
THEOREM PinStaysJudged == CallSpec => []PinnedIsJudged
<1>1. ClientInv => PinnedIsJudged
  BY DEF ClientInv
<1> QED
  BY <1>1, ClientInvariant, PTL
=============================================================================
