--------------------------- MODULE RegistryProof ---------------------------
(***************************************************************************)
(* What is kept around the registry, for every value of the constants:     *)
(* registrations and bindings of any number of processes, requests and     *)
(* wallets (AgentRegistry); a search over any registry and any reply of    *)
(* the hub (Discovery); the figures of any number of agents and tasks      *)
(* (MeshStats).                                                            *)
(***************************************************************************)
EXTENDS AgentRegistry, Discovery, MeshStats, SumLemmas, SequenceTheorems, TLAPS

(***************************************************************************)
(* Registrations and bindings                                              *)
(***************************************************************************)

\* What is known of one request at every place of its handler.  A request
\* that is done may have been cut off anywhere.
RequestInv(r) ==
    /\ pc[r] \in {"unsent", "check", "insert"} => rows[r].status = "absent" /\ r \notin passed
    /\ pc[r] \in {"announce", "verify", "promote"} => rows[r].status = "pending"
    /\ pc[r] = "promote" => r \in passed
    /\ pc[r] \in {"read", "tell", "answer"} => rows[r].status = "verified"
    /\ pc[r] \in {"verify", "promote", "read", "tell", "answer"}
          => <<"agent_registered", r>> \in feed
    /\ <<"agent_registered", r>> \in feed => rows[r].status # "absent"
    /\ <<"agent_verified", r>> \in feed =>
          <<"agent_registered", r>> \in feed /\ rows[r].status = "verified"
    /\ pc[r] # "done" => answer[r] = "none"
    /\ answer[r] \in {"pending", "verified"} => rows[r].status = answer[r]
    /\ r \in passed => Signed(facts[r])
    /\ rows[r].status = "verified" => r \in passed /\ rows[r].trust = Trust(facts[r], TRUE)
    /\ rows[r].status = "pending" => rows[r].trust = 50
    /\ rows[r].status # "absent" => rows[r].wallet = asked[r]
    /\ ~Crypto => rows[r].wallet = Absent.wallet

IInv == TypeOK /\ \A r \in Requests : RequestInv(r)

----------------------------------------------------------------------------
(* Types                                                                   *)

LEMMA NoWalletsType == Absent.wallet \in WalletPairs
BY DEF Absent, WalletPairs, Fields

LEMMA TrustType ==
    ASSUME NEW f, NEW safe
    PROVE  Trust(f, safe) \in 0..100
BY DEF Trust

RowType == [status : {"absent", "pending", "verified"}, trust : 0..100, wallet : WalletPairs]

LEMMA SendTypes ==
    ASSUME TypeOK, NEW r \in Requests, Send(r)
    PROVE  TypeOK'
BY RegistryAssumption DEF TypeOK, Held, Send, request, bounds

LEMMA CheckTypes ==
    ASSUME TypeOK, NEW r \in Requests, NEW safe \in BOOLEAN, Check(r, safe)
    PROVE  TypeOK'
BY RegistryAssumption DEF TypeOK, Held, Check, Finish, request, bounds

LEMMA InsertTypes ==
    ASSUME TypeOK, NEW r \in Requests, NEW w \in WalletPairs, Insert(r, w)
    PROVE  TypeOK'
<1> DEFINE row == [status |-> "pending", trust |-> 50, wallet |-> Persisted(w)]
<1>1. Persisted(w) \in WalletPairs
  BY NoWalletsType DEF Persisted
<1>2. row \in RowType
  BY <1>1 DEF RowType
<1>3. [rows EXCEPT ![r] = row] \in [Requests -> RowType]
  BY <1>2 DEF TypeOK, RowType
<1> HIDE DEF row
<1>4. rows' \in [Requests -> RowType]
  BY <1>3 DEF TypeOK, RowType, Insert, Statement, row
<1>5. asked' \in [Requests -> WalletPairs]
  BY <1>1 DEF TypeOK, Insert
<1> QED
  BY <1>4, <1>5, RegistryAssumption
     DEF TypeOK, Held, RowType, Insert, Statement, Finish, request, bounds

LEMMA AnnounceTypes ==
    ASSUME TypeOK, NEW r \in Requests, Announce(r)
    PROVE  TypeOK'
BY RegistryAssumption DEF TypeOK, Held, Announce, Emit, Statement, Finish, request, bounds

LEMMA VerifyTypes ==
    ASSUME TypeOK, NEW r \in Requests, NEW safe \in BOOLEAN, Verify(r, safe)
    PROVE  TypeOK'
BY RegistryAssumption DEF TypeOK, Held, Verify, Finish, request, bounds

LEMMA PromoteTypes ==
    ASSUME TypeOK, NEW r \in Requests, Promote(r)
    PROVE  TypeOK'
<1>1. rows[r] \in RowType
  BY DEF TypeOK, RowType
<1>2. Promoted(r) \in RowType
  BY <1>1, TrustType DEF Promoted, RowType
<1>3. rows' \in [Requests -> RowType]
  BY <1>2 DEF TypeOK, RowType, Promote, Statement
<1>4. /\ pc' \in {[pc EXCEPT ![r] = "read"], [pc EXCEPT ![r] = "done"]}
      /\ answer' \in {answer, [answer EXCEPT ![r] = "error"]}
      /\ faults' \in {faults, faults + 1} /\ (faults' # faults => faults < MaxFaults)
      /\ feed' = feed /\ UNCHANGED <<request, asked, passed, bounds>>
  BY DEF Promote, Statement, Finish
<1> QED
  BY <1>3, <1>4, RegistryAssumption DEF TypeOK, Held, RowType, request, bounds

LEMMA ReadTypes ==
    ASSUME TypeOK, NEW r \in Requests, Read(r)
    PROVE  TypeOK'
BY RegistryAssumption DEF TypeOK, Held, Read, Statement, Finish, request, bounds

LEMMA TellTypes ==
    ASSUME TypeOK, NEW r \in Requests, Tell(r)
    PROVE  TypeOK'
BY RegistryAssumption DEF TypeOK, Held, Tell, Emit, Statement, Finish, request, bounds

LEMMA AnswerTypes ==
    ASSUME TypeOK, NEW r \in Requests, RequestInv(r), Answer(r)
    PROVE  TypeOK'
BY DEF TypeOK, Held, RequestInv, Answer, Finish, request, bounds

LEMMA BindTypes ==
    ASSUME TypeOK, NEW p \in Procs, NEW r \in Requests, NEW w \in WalletPairs, Bind(p, r, w)
    PROVE  TypeOK'
<1> DEFINE Given(old) == [f \in Fields |-> IF w[f] # NoWallet THEN w[f] ELSE old[f]]
<1>1. ASSUME NEW old \in WalletPairs PROVE Given(old) \in WalletPairs
  BY <1>1 DEF WalletPairs
<1>2. rows[r] \in RowType /\ rows[r].wallet \in WalletPairs /\ asked[r] \in WalletPairs
  BY DEF TypeOK, RowType
<1>3. /\ rows' = [rows EXCEPT ![r].wallet = Given(rows[r].wallet)]
      /\ asked' = [asked EXCEPT ![r] = Given(asked[r])]
  BY DEF Bind
<1> HIDE DEF Given
<1>4. rows' \in [Requests -> RowType]
  BY <1>1, <1>2, <1>3 DEF TypeOK, RowType
<1>5. asked' \in [Requests -> WalletPairs]
  BY <1>1, <1>2, <1>3 DEF TypeOK
<1>6. /\ binds < MaxBinds /\ binds' = binds + 1
      /\ UNCHANGED <<pc, request, feed, passed, answer, faults, crashes>>
  BY DEF Bind
<1> QED
  BY <1>4, <1>5, <1>6, RegistryAssumption DEF TypeOK, Held, RowType, request

LEMMA CrashTypes ==
    ASSUME TypeOK, NEW p \in Procs, Crash(p)
    PROVE  TypeOK'
BY RegistryAssumption DEF TypeOK, Held, Crash, request, bounds

----------------------------------------------------------------------------
(* One request and the steps of another                                    *)

\* What a request is known by did not change.
Untouched(s) ==
    /\ pc'[s] = pc[s] /\ rows'[s] = rows[s] /\ asked'[s] = asked[s]
    /\ answer'[s] = answer[s] /\ facts'[s] = facts[s]
    /\ s \in passed' <=> s \in passed
    /\ \A kind \in {"agent_registered", "agent_verified"} :
          <<kind, s>> \in feed' <=> <<kind, s>> \in feed

LEMMA UntouchedKeeps ==
    ASSUME NEW s \in Requests, RequestInv(s), Untouched(s)
    PROVE  RequestInv(s)'
BY DEF RequestInv, Untouched, Signed, Trust

LEMMA HandleLeavesOthers ==
    ASSUME TypeOK, NEW r \in Requests, NEW s \in Requests, s # r, Send(r) \/ Handle(r)
    PROVE  Untouched(s)
<1>1. CASE Send(r)
  BY <1>1 DEF TypeOK, Untouched, Send, request
<1>2. CASE \E safe \in BOOLEAN : Check(r, safe)
  BY <1>2 DEF TypeOK, Untouched, Check, Finish, request
<1>3. CASE \E safe \in BOOLEAN : Verify(r, safe)
  BY <1>3 DEF TypeOK, Untouched, Verify, Finish, request
<1>4. CASE \E w \in WalletPairs : Insert(r, w)
  BY <1>4 DEF TypeOK, Untouched, Insert, Statement, Finish, request
<1>5. CASE Announce(r)
  BY <1>5 DEF TypeOK, Untouched, Announce, Emit, Statement, Finish, request
<1>6. CASE Promote(r)
  BY <1>6 DEF TypeOK, Untouched, Promote, Statement, Finish, request
<1>7. CASE Read(r)
  BY <1>7 DEF TypeOK, Untouched, Read, Statement, Finish, request
<1>8. CASE Tell(r)
  BY <1>8 DEF TypeOK, Untouched, Tell, Emit, Statement, Finish, request
<1>9. CASE Answer(r)
  BY <1>9 DEF TypeOK, Untouched, Answer, Finish, request
<1> QED
  BY <1>1, <1>2, <1>3, <1>4, <1>5, <1>6, <1>7, <1>8, <1>9 DEF Handle

----------------------------------------------------------------------------
(* The steps of a request and what is known of it                          *)

LEMMA SendKeeps ==
    ASSUME TypeOK, NEW r \in Requests, RequestInv(r), Send(r)
    PROVE  RequestInv(r)'
BY DEF TypeOK, RequestInv, Signed, Trust, Send, request

LEMMA CheckKeeps ==
    ASSUME TypeOK, NEW r \in Requests, RequestInv(r), NEW safe \in BOOLEAN, Check(r, safe)
    PROVE  RequestInv(r)'
BY DEF TypeOK, RequestInv, Signed, Trust, Check, Finish, request

LEMMA AnnounceKeeps ==
    ASSUME TypeOK, NEW r \in Requests, RequestInv(r), Announce(r)
    PROVE  RequestInv(r)'
BY DEF TypeOK, RequestInv, Signed, Trust, Announce, Emit, Statement, Finish, request

LEMMA VerifyKeeps ==
    ASSUME TypeOK, NEW r \in Requests, RequestInv(r), NEW safe \in BOOLEAN, Verify(r, safe)
    PROVE  RequestInv(r)'
BY DEF TypeOK, RequestInv, Signed, Trust, Verify, Passes, Finish, request

LEMMA ReadKeeps ==
    ASSUME TypeOK, NEW r \in Requests, RequestInv(r), Read(r)
    PROVE  RequestInv(r)'
BY DEF TypeOK, RequestInv, Signed, Trust, Read, Statement, Finish, request

LEMMA TellKeeps ==
    ASSUME TypeOK, NEW r \in Requests, RequestInv(r), Tell(r)
    PROVE  RequestInv(r)'
BY DEF TypeOK, RequestInv, Signed, Trust, Tell, Emit, Statement, Finish, request

LEMMA AnswerKeeps ==
    ASSUME TypeOK, NEW r \in Requests, RequestInv(r), Answer(r)
    PROVE  RequestInv(r)'
BY DEF TypeOK, RequestInv, Signed, Trust, Answer, Finish, request

LEMMA CrashKeeps ==
    ASSUME TypeOK, NEW p \in Procs, NEW r \in Requests, RequestInv(r), Crash(p)
    PROVE  RequestInv(r)'
BY DEF TypeOK, RequestInv, Signed, Trust, Crash, request

LEMMA InsertKeeps ==
    ASSUME TypeOK, NEW r \in Requests, RequestInv(r), NEW w \in WalletPairs, Insert(r, w)
    PROVE  RequestInv(r)'
BY DEF TypeOK, RequestInv, Signed, Trust, Insert, Statement, Finish, request, Persisted

LEMMA PromoteKeeps ==
    ASSUME TypeOK, NEW r \in Requests, RequestInv(r), Promote(r)
    PROVE  RequestInv(r)'
<1>1. /\ pc[r] = "promote" /\ feed' = feed /\ UNCHANGED <<request, asked, passed>>
      /\ pc' \in {[pc EXCEPT ![r] = "read"], [pc EXCEPT ![r] = "done"]}
      /\ answer' \in {answer, [answer EXCEPT ![r] = "error"]}
      /\ pc' = [pc EXCEPT ![r] = "read"]
            => rows' = [rows EXCEPT ![r] = Promoted(r)] /\ answer' = answer
      /\ rows' \in {rows, [rows EXCEPT ![r] = Promoted(r)]}
  BY DEF TypeOK, Promote, Statement, Finish
<1>2. /\ Promoted(r).status = "verified" /\ Promoted(r).trust = Trust(facts[r], TRUE)
      /\ Promoted(r).wallet = rows[r].wallet
  BY DEF TypeOK, Promoted
<1>3. rows'[r] \in {rows[r], Promoted(r)} /\ (pc'[r] = "read" => rows'[r] = Promoted(r))
  BY <1>1 DEF TypeOK
<1>4. pc'[r] \in {"read", "done"} /\ answer'[r] \in {answer[r], "error"}
      /\ (pc'[r] # "done" => answer'[r] = answer[r])
  BY <1>1 DEF TypeOK
<1>5. Trust(facts[r], TRUE)' = Trust(facts[r], TRUE) /\ facts' = facts
  BY <1>1 DEF Trust, Signed, request
<1> QED
  BY <1>1, <1>2, <1>3, <1>4, <1>5 DEF RequestInv, Signed

LEMMA BindKeeps ==
    ASSUME TypeOK, NEW p \in Procs, NEW r \in Requests, RequestInv(r), NEW s \in Requests, NEW w \in WalletPairs, Bind(p, s, w)
    PROVE  RequestInv(r)'
BY DEF TypeOK, RequestInv, Signed, Trust, Bind, request

----------------------------------------------------------------------------
(* The invariant and what it says                                          *)

LEMMA InitInv == Init => IInv
<1> SUFFICES ASSUME Init PROVE IInv
  OBVIOUS
<1>1. TypeOK
  BY NoWalletsType, RegistryAssumption DEF Init, TypeOK, Absent
<1>2. ASSUME NEW r \in Requests PROVE RequestInv(r)
  BY <1>2 DEF Init, RequestInv, Absent
<1> QED
  BY <1>1, <1>2 DEF IInv

LEMMA HandleTypes ==
    ASSUME TypeOK, NEW r \in Requests, RequestInv(r), Handle(r)
    PROVE  TypeOK'
BY CheckTypes, VerifyTypes, InsertTypes, AnnounceTypes, PromoteTypes, ReadTypes, TellTypes,
   AnswerTypes DEF Handle

LEMMA HandleKeeps ==
    ASSUME TypeOK, NEW r \in Requests, RequestInv(r), Handle(r)
    PROVE  RequestInv(r)'
BY CheckKeeps, VerifyKeeps, InsertKeeps, AnnounceKeeps, PromoteKeeps, ReadKeeps, TellKeeps,
   AnswerKeeps DEF Handle

LEMMA NextInv == IInv /\ [Next]_vars => IInv'
<1> SUFFICES ASSUME IInv, [Next]_vars PROVE IInv'
  OBVIOUS
<1> USE DEF IInv
<1>1. ASSUME NEW r \in Requests, Send(r) \/ Handle(r) PROVE IInv'
  <2>1. TypeOK'
    BY <1>1, SendTypes, HandleTypes
  <2>2. RequestInv(r)'
    BY <1>1, SendKeeps, HandleKeeps
  <2>3. ASSUME NEW s \in Requests, s # r PROVE RequestInv(s)'
    BY <1>1, <2>3, HandleLeavesOthers, UntouchedKeeps
  <2> QED
    BY <2>1, <2>2, <2>3
<1>2. ASSUME NEW p \in Procs, NEW s \in Requests, NEW w \in WalletPairs, Bind(p, s, w)
      PROVE  IInv'
  BY <1>2, BindTypes, BindKeeps
<1>3. ASSUME NEW p \in Procs, Crash(p) PROVE IInv'
  BY <1>3, CrashTypes, CrashKeeps
<1>4. CASE UNCHANGED vars
  <2>1. TypeOK'
    BY <1>4 DEF TypeOK, vars
  <2>2. ASSUME NEW s \in Requests PROVE Untouched(s)
    BY <1>4 DEF Untouched, vars
  <2> QED
    BY <2>1, <2>2, UntouchedKeeps
<1> QED
  BY <1>1, <1>2, <1>3, <1>4 DEF Next

THEOREM StrongInvariant == Spec => []IInv
BY InitInv, NextInv, PTL DEF Spec

\* Every variable of register_agent and of the table has its type.
THEOREM TypeCorrect == Spec => []TypeOK
<1>1. IInv => TypeOK
  BY DEF IInv
<1> QED
  BY <1>1, StrongInvariant, PTL

\* verify_agent is only reached by what signed and was safe: the status, the
\* trust and the verification of an agent agree for good.
THEOREM VerifiedStaysEarned == Spec => []VerifiedIsEarned
<1>1. IInv => VerifiedIsEarned
  <2> SUFFICES ASSUME IInv, NEW r \in Requests, rows[r].status = "verified"
               PROVE  /\ r \in passed /\ facts[r].key /\ facts[r].attestation = "valid"
                      /\ rows[r].trust = Trust(facts[r], TRUE) /\ rows[r].trust >= 70
    BY DEF IInv, RequestInv, VerifiedIsEarned
  <2>1. r \in passed /\ Signed(facts[r]) /\ rows[r].trust = Trust(facts[r], TRUE)
    BY DEF IInv, RequestInv
  <2>2. Trust(facts[r], TRUE) >= 70
    BY <2>1 DEF Signed, Trust
  <2> QED
    BY <2>1, <2>2 DEF Signed
<1> QED
  BY <1>1, StrongInvariant, PTL

\* bind_wallet, the promotion and the insertion write disjoint columns: an
\* agent has the wallets last asked for, none while crypto is off.
THEOREM WalletsStayAsAsked == Spec => []WalletsAsAsked
<1>1. IInv => WalletsAsAsked
  BY DEF IInv, RequestInv, WalletsAsAsked
<1> QED
  BY <1>1, StrongInvariant, PTL

\* The events of the registry follow the rows they tell of.
THEOREM FeedStaysTrue == Spec => []FeedIsTrue
<1>1. IInv => FeedIsTrue
  BY DEF IInv, RequestInv, FeedIsTrue
<1> QED
  BY <1>1, StrongInvariant, PTL

\* What the client of POST /v1/agents was told of its agent stays true.
THEOREM AnswersStay == Spec => []AnswerStays
<1>1. IInv => AnswerStays
  BY DEF IInv, RequestInv, AnswerStays
<1> QED
  BY <1>1, StrongInvariant, PTL

(***************************************************************************)
(* A search for agents                                                     *)
(***************************************************************************)

----------------------------------------------------------------------------
(* Sequences that list a set *)

\* s lists S, every member once.
Enumerates(s, S) ==
    /\ s \in Seq(S)
    /\ \A i, j \in 1 .. Len(s) : s[i] = s[j] => i = j
    /\ \A x \in S : \E i \in 1 .. Len(s) : s[i] = x

\* SetToSeqs of the community modules lists a finite set.
LEMMA SeqsEnumerate ==
  ASSUME NEW S, IsFiniteSet(S), NEW o \in SetToSeqs(S)
  PROVE  Enumerates(o, S)
<1> DEFINE n == Cardinality(S)
<1>1. n \in Nat
  BY FS_CardinalityType
<1>2. o \in [1..n -> S] /\ \A i, j \in 1..n : i # j => o[i] # o[j]
  BY DEF SetToSeqs
<1>3. o \in Injection(1..n, S)
  BY <1>2 DEF Injection, IsInjective
<1>4. IsFiniteSet(1..n) /\ Cardinality(1..n) = n
  BY <1>1, FS_Interval
<1>5. o \in Surjection(1..n, S)
  BY <1>3, <1>4, FS_Injection
<1>6. \A x \in S : \E i \in 1..n : o[i] = x
  BY <1>5 DEF Surjection
<1>7. o \in Seq(S) /\ Len(o) = n
  BY <1>1, <1>2
<1> QED BY <1>2, <1>6, <1>7 DEF Enumerates

\* One list after the other.
LEMMA JoinedEnumerates ==
  ASSUME NEW s, NEW S, Enumerates(s, S), NEW t, NEW T, Enumerates(t, T), S \cap T = {}
  PROVE  Enumerates(s \o t, S \cup T)
<1> DEFINE m == Len(s)
           n == Len(t)
           u == s \o t
<1>1. s \in Seq(S) /\ t \in Seq(T) /\ m \in Nat /\ n \in Nat
  BY DEF Enumerates
<1>2. s \in Seq(S \cup T) /\ t \in Seq(S \cup T)
  BY <1>1
<1>3. u \in Seq(S \cup T) /\ Len(u) = m + n
  BY <1>2
<1>4. \A i \in 1..m + n : u[i] = IF i <= m THEN s[i] ELSE t[i - m]
  BY <1>2
<1>5. (\A i \in 1..m : s[i] \in S) /\ \A i \in 1..n : t[i] \in T
  BY <1>1
<1>6. \A i, j \in 1..m : s[i] = s[j] => i = j
  BY DEF Enumerates
<1>7. \A i, j \in 1..n : t[i] = t[j] => i = j
  BY DEF Enumerates
<1>8. /\ \A x \in S : \E i \in 1..m : s[i] = x
      /\ \A x \in T : \E i \in 1..n : t[i] = x
  BY DEF Enumerates
<1> HIDE DEF m, n, u
<1>9. ASSUME NEW i \in 1..m + n, NEW j \in 1..m + n, u[i] = u[j] PROVE i = j
  <2>1. CASE i <= m /\ j <= m
    BY <1>1, <1>4, <1>6, <1>9, <2>1
  <2>2. CASE i <= m /\ j > m
    <3>1. i \in 1..m /\ j - m \in 1..n
      BY <1>1, <2>2
    <3>2. u[i] \in S /\ u[j] \in T
      BY <1>1, <1>4, <1>5, <2>2, <3>1
    <3> QED BY <1>9, <3>2
  <2>3. CASE i > m /\ j <= m
    <3>1. j \in 1..m /\ i - m \in 1..n
      BY <1>1, <2>3
    <3>2. u[j] \in S /\ u[i] \in T
      BY <1>1, <1>4, <1>5, <2>3, <3>1
    <3> QED BY <1>9, <3>2
  <2>4. CASE i > m /\ j > m
    <3>1. i - m \in 1..n /\ j - m \in 1..n
      BY <1>1, <2>4
    <3>2. t[i - m] = t[j - m]
      BY <1>1, <1>4, <1>9, <2>4
    <3>3. i - m = j - m
      BY <1>7, <3>1, <3>2
    <3> QED BY <1>1, <3>3
  <2> QED BY <1>1, <2>1, <2>2, <2>3, <2>4
<1>10. ASSUME NEW x \in S \cup T PROVE \E i \in 1..m + n : u[i] = x
  <2>1. CASE x \in S
    <3>1. PICK i \in 1..m : s[i] = x
      BY <1>8, <2>1
    <3> QED BY <1>1, <1>4, <3>1
  <2>2. CASE x \in T
    <3>1. PICK i \in 1..n : t[i] = x
      BY <1>8, <2>2
    <3>2. i + m \in 1..m + n /\ i + m > m /\ (i + m) - m = i
      BY <1>1
    <3>3. u[i + m] = x
      BY <1>1, <1>4, <3>1, <3>2
    <3> QED BY <3>2, <3>3
  <2> QED BY <2>1, <2>2
<1> QED BY <1>3, <1>9, <1>10 DEF Enumerates, u

\* A list in another order.
LEMMA ReorderedEnumerates ==
  ASSUME NEW s, NEW S, Enumerates(s, S), NEW p \in Orders(Len(s))
  PROVE  Enumerates([i \in DOMAIN s |-> s[p[i]]], S)
<1> DEFINE n == Len(s)
           u == [i \in DOMAIN s |-> s[p[i]]]
<1>1. s \in Seq(S) /\ n \in Nat /\ DOMAIN s = 1..n
  BY DEF Enumerates
<1>2. p \in [1..n -> 1..n] /\ \A i, j \in 1..n : p[i] = p[j] => i = j
  BY DEF Orders, IsInjective
<1>3. p \in Injection(1..n, 1..n)
  BY <1>2 DEF Injection, IsInjective
<1>4. IsFiniteSet(1..n)
  BY <1>1, FS_Interval
<1>5. p \in Surjection(1..n, 1..n)
  BY <1>3, <1>4, FS_Injection
<1>6. \A k \in 1..n : \E i \in 1..n : p[i] = k
  BY <1>5 DEF Surjection
<1>7. u \in [1..n -> S]
  BY <1>1, <1>2
<1>8. u \in Seq(S) /\ Len(u) = n
  BY <1>1, <1>7
<1>9. \A i \in 1..n : u[i] = s[p[i]] /\ p[i] \in 1..n
  BY <1>1, <1>2
<1>10. \A i, j \in 1..n : s[i] = s[j] => i = j
  BY DEF Enumerates
<1>11. \A x \in S : \E i \in 1..n : s[i] = x
  BY DEF Enumerates
<1> HIDE DEF u, n
<1>12. \A i, j \in 1..n : u[i] = u[j] => i = j
  BY <1>2, <1>9, <1>10
<1>13. \A x \in S : \E i \in 1..n : u[i] = x
  <2> SUFFICES ASSUME NEW x \in S PROVE \E i \in 1..n : u[i] = x
    OBVIOUS
  <2>1. PICK k \in 1..n : s[k] = x
    BY <1>11
  <2>2. PICK i \in 1..n : p[i] = k
    BY <1>6
  <2>3. u[i] = x
    BY <1>9, <2>1, <2>2
  <2> QED BY <2>3
<1> QED BY <1>8, <1>12, <1>13 DEF Enumerates, u

----------------------------------------------------------------------------
(* What is found *)

\* No number of a reply is NaN: then every match has its place in the order.
Comparable == \A r \in RawMatches : HubPrice(r) # NaN /\ r.score # NaN

Match == [id : Agents \cup Nat, source : {"local", "hub"}, price : Int, score : Int]

LocalOnes == {LocalMatch(a) : a \in LocalFound}
HubOnes(rep) == {HubMatch(i, rep[i]) : i \in {i \in DOMAIN rep : ~Dropped(rep[i])}}

Readable(rep) == \A i \in DOMAIN rep : ~Raises(rep[i])

Asked == /\ registry \in [Agents -> [verified : BOOLEAN, fits : BOOLEAN, trust : 0..2]]
           /\ budget \in Nat \ {0} /\ preferred \in BOOLEAN

\* A local match is within the budget.
LEMMA LocalFacts ==
  ASSUME Asked, NEW a \in Agents
  PROVE  /\ LocalMatch(a) \in Match /\ LocalMatch(a).price \in 1..budget
         /\ LocalMatch(a).id = a /\ LocalMatch(a).source = "local"
         /\ a \in LocalFound <=> registry[a].verified /\ registry[a].fits
<1>1. registry[a].trust \in 0..2 /\ budget \in Nat \ {0}
  BY DEF Asked
<1>2. EstimatePrice(a) \in 1..budget
  BY <1>1 DEF EstimatePrice
<1>3. CapabilityScore(a) * registry[a].trust \in Int
  BY <1>1 DEF CapabilityScore
<1>4. CapabilityScore(a) > 0 <=> registry[a].fits
  BY DEF CapabilityScore, Asked
<1> QED BY <1>1, <1>2, <1>3, <1>4 DEF LocalMatch, Match, LocalFound

\* An entry of the hub is kept when it has a name, is no forbidden demo and
\* its price is within the budget.
LEMMA HubFacts ==
  ASSUME Asked, Comparable, NEW r \in RawMatches, ~Raises(r), NEW i \in Nat
  PROVE  /\ HubMatch(i, r).source = "hub" /\ HubMatch(i, r).id = i
         /\ ~Dropped(r) <=>
              /\ r.kind \in IF SkipDemo THEN {"plain"} ELSE {"plain", "demo"}
              /\ HubMatch(i, r).price # NaN /\ HubMatch(i, r).price \in 1..budget
         /\ ~Dropped(r) => HubMatch(i, r) \in Match
<1>1. r \in Raw
  BY SearchAssumption
<1>2. HubPrice(r) \in Int \cup {NaN, Junk}
  BY <1>1 DEF Raw, Number, HubPrice, Or
<1>3. HubScore(r) \in Int
  <2>1. r.score \in Nat
    BY <1>1 DEF Raw, Comparable
  <2>2. HubTrust(r) \in 1..2
    BY <1>1 DEF Raw, HubTrust, Or
  <2> QED BY <2>1, <2>2 DEF HubScore, Or
<1>4. Skipped(r) <=> r.kind \notin IF SkipDemo THEN {"plain"} ELSE {"plain", "demo"}
  BY <1>1, SearchAssumption DEF Raw, Skipped
<1>5. HubPrice(r) # NaN /\ budget \in Nat
  BY DEF Comparable, Asked
<1>6. ~Skipped(r) => HubPrice(r) \in Int
  BY <1>2, <1>5 DEF Raises
<1>7. ASSUME ~Skipped(r)
      PROVE  ~Dropped(r) <=> HubPrice(r) \in 1..budget
  BY <1>5, <1>6, <1>7 DEF Dropped, AtMost, Above
<1>8. Skipped(r) => Dropped(r)
  BY DEF Dropped
<1>9. /\ HubMatch(i, r).source = "hub" /\ HubMatch(i, r).id = i
      /\ HubMatch(i, r).price = HubPrice(r)
  BY DEF HubMatch
<1>10. ~Dropped(r) => HubMatch(i, r) \in Match
  BY <1>3, <1>6, <1>8 DEF HubMatch, Match
<1> QED BY <1>4, <1>5, <1>7, <1>8, <1>9, <1>10

\* The eligible matches are those that the two sources contribute.
LEMMA EligibleIs ==
  ASSUME Asked, Comparable, reply \in Seq(RawMatches), Readable(reply)
  PROVE  Eligible = LocalOnes \cup HubOnes(reply)
<1> DEFINE A == {a \in Agents : registry[a].verified /\ registry[a].fits}
           kinds == IF SkipDemo THEN {"plain"} ELSE {"plain", "demo"}
           I == {i \in DOMAIN reply : reply[i].kind \in kinds}
           K == {i \in DOMAIN reply : ~Dropped(reply[i])}
           Fair(m) == m.price # NaN /\ m.price \in 1..budget
<1>1. A = LocalFound
  BY LocalFacts DEF LocalFound
<1>2. \A a \in A : Fair(LocalMatch(a))
  BY LocalFacts, SearchAssumption
<1>3. \A i \in DOMAIN reply : reply[i] \in RawMatches /\ ~Raises(reply[i]) /\ i \in Nat
  BY DEF Readable
<1>4. \A i \in DOMAIN reply : i \in K <=> i \in I /\ Fair(HubMatch(i, reply[i]))
  BY <1>3, HubFacts
<1>5. Eligible = {m \in {LocalMatch(a) : a \in A} \cup {HubMatch(i, reply[i]) : i \in I} : Fair(m)}
  BY DEF Eligible
<1>6. K \subseteq DOMAIN reply /\ I \subseteq DOMAIN reply
  OBVIOUS
<1>7. HubOnes(reply) = {HubMatch(i, reply[i]) : i \in K}
  BY DEF HubOnes
<1>8. LocalOnes = {LocalMatch(a) : a \in A}
  BY <1>1 DEF LocalOnes
<1> HIDE DEF A, I, K, Fair
<1> QED BY <1>2, <1>4, <1>5, <1>6, <1>7, <1>8

\* Local matches and those of the hub are different ones.
LEMMA SourcesDiffer ==
  ASSUME Asked, Comparable, NEW rep \in Seq(RawMatches), Readable(rep)
  PROVE  /\ \A m \in LocalOnes : m \in Match /\ m.source = "local"
         /\ \A m \in HubOnes(rep) : m \in Match /\ m.source = "hub"
<1>1. \A m \in LocalOnes : m \in Match /\ m.source = "local"
  BY LocalFacts DEF LocalOnes, LocalFound
<1>2. \A i \in DOMAIN rep : rep[i] \in RawMatches /\ ~Raises(rep[i]) /\ i \in Nat
  BY DEF Readable
<1>3. \A m \in HubOnes(rep) : m \in Match /\ m.source = "hub"
  BY <1>2, HubFacts DEF HubOnes
<1> QED BY <1>1, <1>3
----------------------------------------------------------------------------
(* The steps *)

LocalFirst(ms) ==
    \A i, j \in 1 .. Len(ms) : i < j /\ ms[i].source = "hub" => ms[j].source = "hub"

\* ms holds what is eligible, the local matches before those of the hub.
Collected(ms, found) == Enumerates(ms, found) /\ LocalFirst(ms)

\* What BestFirst says of a result, of any result.
BestOf(ms, good) ==
    /\ ToSet(ms) \subseteq good /\ IsInjective(ms)
    /\ ToSet(ms) # good => Len(ms) = MaxMatches
    /\ \A i \in DOMAIN ms, e \in good :
          e \notin ToSet(SubSeq(ms, 1, i))
              => \/ ms[i].score > e.score
                 \/ /\ ms[i].score = e.score
                    /\ ms[i].source = "hub" => e.source = "hub"

SearchInv ==
    /\ Asked
    /\ searched \in {"local", "hub", "rank", "done", "raised"}
    /\ reply \in Seq(RawMatches) /\ Readable(reply)
    /\ searched \in {"local", "hub"} => reply = << >>
    /\ searched \in {"hub", "rank"} => Collected(matches, LocalOnes \cup HubOnes(reply))
    /\ searched = "done" => BestOf(matches, LocalOnes \cup HubOnes(reply))

\* list_agents lists the verified agents that fit, each once.
LEMMA LocalCollected ==
  ASSUME Asked, NEW order \in SetToSeqs(LocalFound)
  PROVE  LET ms == [i \in DOMAIN order |-> LocalMatch(order[i])]
         IN  Enumerates(ms, LocalOnes) /\ \A i \in 1 .. Len(ms) : ms[i].source = "local"
<1> DEFINE ms == [i \in DOMAIN order |-> LocalMatch(order[i])]
           n == Len(order)
<1>1. LocalFound \subseteq Agents /\ IsFiniteSet(LocalFound)
  <2>1. LocalFound \subseteq Agents
    BY DEF LocalFound
  <2> QED BY <2>1, SearchAssumption, FS_Subset
<1>2. Enumerates(order, LocalFound)
  BY <1>1, SeqsEnumerate
<1>3. order \in Seq(LocalFound) /\ n \in Nat /\ DOMAIN order = 1..n
  BY <1>2 DEF Enumerates
<1>4. ms \in [1..n -> LocalOnes]
  BY <1>3 DEF LocalOnes
<1>5. ms \in Seq(LocalOnes) /\ Len(ms) = n
  BY <1>3, <1>4
<1>6. \A i \in 1..n : ms[i] = LocalMatch(order[i]) /\ order[i] \in LocalFound
  BY <1>3
<1>7. \A i, j \in 1..n : order[i] = order[j] => i = j
  BY <1>2 DEF Enumerates
<1>8. \A x \in LocalFound : \E i \in 1..n : order[i] = x
  BY <1>2 DEF Enumerates
<1>9. \A a \in LocalFound : LocalMatch(a).id = a /\ LocalMatch(a).source = "local"
  BY <1>1, LocalFacts
<1> HIDE DEF ms, n
<1>10. \A i, j \in 1..n : ms[i] = ms[j] => i = j
  BY <1>6, <1>7, <1>9
<1>11. \A x \in LocalOnes : \E i \in 1..n : ms[i] = x
  BY <1>6, <1>8 DEF LocalOnes
<1>12. \A i \in 1..n : ms[i].source = "local"
  BY <1>6, <1>9
<1>13. Enumerates(ms, LocalOnes) /\ \A i \in 1..Len(ms) : ms[i].source = "local"
  BY <1>5, <1>10, <1>11, <1>12 DEF Enumerates
<1> QED BY <1>13 DEF ms

\* The entries of a reply that are kept, each once.
LEMMA HubCollected ==
  ASSUME Asked, Comparable, NEW rep \in Seq(RawMatches), Readable(rep),
         NEW found \in HubFound(rep)
  PROVE  Enumerates(found, HubOnes(rep))
<1> DEFINE kept == {i \in DOMAIN rep : ~Dropped(rep[i])}
<1>1. PICK o \in SetToSeqs(kept) : found = [n \in DOMAIN o |-> HubMatch(o[n], rep[o[n]])]
  BY DEF HubFound
<1> DEFINE n == Len(o)
<1>2. DOMAIN rep = 1..Len(rep) /\ Len(rep) \in Nat /\ kept \subseteq DOMAIN rep
  OBVIOUS
<1>3. IsFiniteSet(kept)
  <2>1. IsFiniteSet(DOMAIN rep)
    BY <1>2, FS_Interval
  <2> HIDE DEF kept
  <2> QED BY <1>2, <2>1, FS_Subset
<1>4. HubOnes(rep) = {HubMatch(i, rep[i]) : i \in kept}
  BY DEF HubOnes
<1> HIDE DEF kept
<1>5. Enumerates(o, kept)
  BY <1>3, SeqsEnumerate
<1>6. o \in Seq(kept) /\ n \in Nat /\ DOMAIN o = 1..n
  BY <1>5 DEF Enumerates
<1>7. \A i \in 1..n : found[i] = HubMatch(o[i], rep[o[i]]) /\ o[i] \in kept
  BY <1>1, <1>6
<1>8. found \in [1..n -> HubOnes(rep)]
  BY <1>1, <1>4, <1>6
<1>9. found \in Seq(HubOnes(rep)) /\ Len(found) = n
  BY <1>6, <1>8
<1>10. \A i, j \in 1..n : o[i] = o[j] => i = j
  BY <1>5 DEF Enumerates
<1>11. \A x \in kept : \E i \in 1..n : o[i] = x
  BY <1>5 DEF Enumerates
<1>12. \A i : HubMatch(i, rep[i]).id = i
  BY DEF HubMatch
<1> HIDE DEF n
<1>13. \A i, j \in 1..n : found[i] = found[j] => i = j
  BY <1>7, <1>10, <1>12
<1>14. \A x \in HubOnes(rep) : \E i \in 1..n : found[i] = x
  BY <1>4, <1>7, <1>11
<1> QED BY <1>9, <1>13, <1>14 DEF Enumerates

\* Local matches alone, or followed by those of the hub, are local first.
LEMMA JoinedLocalFirst ==
  ASSUME NEW s, NEW S, Enumerates(s, S), \A i \in 1 .. Len(s) : s[i].source = "local",
         NEW t, NEW T, Enumerates(t, T), \A m \in T : m.source = "hub"
  PROVE  LocalFirst(s) /\ LocalFirst(s \o t)
<1> DEFINE m == Len(s)
           n == Len(t)
           u == s \o t
<1>1. s \in Seq(S \cup T) /\ t \in Seq(S \cup T) /\ t \in Seq(T) /\ m \in Nat /\ n \in Nat
  <2>1. s \in Seq(S) /\ t \in Seq(T)
    BY DEF Enumerates
  <2> QED BY <2>1
<1>2. Len(u) = m + n /\ \A i \in 1..m + n : u[i] = IF i <= m THEN s[i] ELSE t[i - m]
  BY <1>1
<1>3. \A i \in 1..n : t[i].source = "hub"
  BY <1>1
<1> HIDE DEF u, m, n
<1>4. \A i \in 1..m + n : u[i].source = IF i <= m THEN "local" ELSE "hub"
  <2> SUFFICES ASSUME NEW i \in 1..m + n
               PROVE  u[i].source = IF i <= m THEN "local" ELSE "hub"
    OBVIOUS
  <2>1. CASE i <= m
    <3>1. i \in 1..m
      BY <1>1, <2>1
    <3> QED BY <1>2, <2>1, <3>1 DEF m
  <2>2. CASE ~(i <= m)
    <3>1. i - m \in 1..n
      BY <1>1, <2>2
    <3> QED BY <1>2, <1>3, <2>2, <3>1
  <2> QED BY <2>1, <2>2
<1>5. LocalFirst(u)
  BY <1>1, <1>2, <1>4 DEF LocalFirst
<1>6. LocalFirst(s)
  BY DEF LocalFirst
<1> QED BY <1>5, <1>6 DEF u

\* A ranked and cut list is the best of what was found, best first.
LEMMA RankedIsBest ==
  ASSUME NEW S, S \subseteq Match, NEW ms, Collected(ms, S), NEW ranked \in Rankings(ms)
  PROVE  BestOf(Cut(ranked), S)
<1> DEFINE n == Len(ms)
           cut == Cut(ranked)
           k == Len(cut)
<1>1. ms \in Seq(S) /\ n \in Nat /\ DOMAIN ms = 1..n
  BY DEF Collected, Enumerates
<1>2. \A i \in 1..n : ms[i] \in Match
  BY <1>1
<1>3. ~\E i \in DOMAIN ms : ms[i].score = NaN
  BY <1>1, <1>2, SearchAssumption DEF Match
<1>4. PICK p \in Orders(n) : InOrder(ms, p) /\ ranked = [i \in DOMAIN ms |-> ms[p[i]]]
  BY <1>3 DEF Rankings
<1>5. Enumerates(ranked, S)
  BY <1>4, ReorderedEnumerates DEF Collected
<1>6. p \in [1..n -> 1..n]
  BY <1>4 DEF Orders
<1>7. \A i \in 1..n : ranked[i] = ms[p[i]] /\ p[i] \in 1..n /\ ms[p[i]] \in Match
  BY <1>1, <1>2, <1>4, <1>6
<1>8. Len(ranked) = n /\ ranked \in Seq(S)
  BY <1>1, <1>4, <1>5 DEF Enumerates
<1>9. \A i, j \in 1..n : i < j =>
          \/ ranked[i].score > ranked[j].score
          \/ ranked[i].score = ranked[j].score /\ p[i] < p[j]
  BY <1>4, <1>6, <1>7 DEF InOrder
<1>10. \A i, j \in 1..n : p[i] < p[j] /\ ranked[i].source = "hub" => ranked[j].source = "hub"
  BY <1>7 DEF Collected, LocalFirst
<1>11. /\ k \in Nat /\ k <= n /\ (k = n \/ k = MaxMatches)
       /\ cut \in Seq(S)
       /\ \A i \in 1..k : cut[i] = ranked[i]
  <2>1. CASE n <= MaxMatches
    BY <1>1, <1>8, <2>1 DEF Cut
  <2>2. CASE ~(n <= MaxMatches)
    <3>1. MaxMatches \in 1..n
      BY <1>1, <2>2, SearchAssumption
    <3>2. cut = SubSeq(ranked, 1, MaxMatches)
      BY <1>8, <2>2 DEF Cut
    <3>3. /\ cut \in Seq(S) /\ Len(cut) = MaxMatches
          /\ \A i \in 1..MaxMatches : cut[i] = ranked[i]
      BY <1>8, <3>1, <3>2
    <3> QED BY <1>1, <3>1, <3>3
  <2> QED BY <2>1, <2>2
<1>12. \A i, j \in 1..n : ranked[i] = ranked[j] => i = j
  BY <1>5, <1>8 DEF Enumerates
<1>13. \A x \in S : \E i \in 1..n : ranked[i] = x
  BY <1>5, <1>8 DEF Enumerates
<1> HIDE DEF cut, k, n
<1>14. DOMAIN cut = 1..k
  BY <1>11 DEF k
<1>15. ToSet(cut) \subseteq S
  BY <1>11, <1>14 DEF ToSet
<1>16. IsInjective(cut)
  BY <1>1, <1>11, <1>12, <1>14 DEF IsInjective
<1>17. ToSet(cut) # S => k = MaxMatches
  <2> SUFFICES ASSUME k # MaxMatches PROVE S \subseteq ToSet(cut)
    BY <1>15
  <2>1. k = n
    BY <1>11
  <2> QED BY <1>11, <1>13, <1>14, <2>1 DEF ToSet
<1>18. ASSUME NEW i \in 1..k, NEW e \in S, e \notin ToSet(SubSeq(cut, 1, i))
       PROVE  \/ cut[i].score > e.score
              \/ /\ cut[i].score = e.score
                 /\ cut[i].source = "hub" => e.source = "hub"
  <2>1. PICK j \in 1..n : ranked[j] = e
    BY <1>13
  <2>2. i < j
    <3> SUFFICES ASSUME j <= i PROVE FALSE
      BY <1>1, <1>11
    <3>1. j \in 1..i /\ i \in 1..k /\ j \in 1..k
      BY <1>1, <1>11
    <3>2. /\ Len(SubSeq(cut, 1, i)) = i /\ SubSeq(cut, 1, i) \in Seq(S)
          /\ SubSeq(cut, 1, i)[j] = cut[j]
      BY <1>11, <3>1 DEF k
    <3>3. SubSeq(cut, 1, i)[j] \in ToSet(SubSeq(cut, 1, i))
      BY <3>1, <3>2 DEF ToSet
    <3>4. cut[j] = e
      BY <1>11, <2>1, <3>1
    <3> QED BY <1>18, <3>2, <3>3, <3>4
  <2>3. i \in 1..n /\ cut[i] = ranked[i]
    BY <1>1, <1>11
  <2>4. \/ ranked[i].score > ranked[j].score
        \/ ranked[i].score = ranked[j].score /\ p[i] < p[j]
    BY <1>9, <2>2, <2>3
  <2>5. p[i] < p[j] => (ranked[i].source = "hub" => ranked[j].source = "hub")
    BY <1>10, <2>3
  <2> QED BY <2>1, <2>3, <2>4, <2>5
<1> QED BY <1>14, <1>15, <1>16, <1>17, <1>18 DEF BestOf, cut, k

\* The search begins with nothing.
LEMMA SearchInitInv == SearchInit => SearchInv
<1> SUFFICES ASSUME SearchInit PROVE SearchInv
  OBVIOUS
<1>1. Asked
  BY SearchAssumption DEF SearchInit, Asked
<1>2. reply = << >> /\ searched = "local"
  BY DEF SearchInit
<1>3. reply \in Seq(RawMatches) /\ Readable(reply)
  BY <1>2 DEF Readable
<1> QED BY <1>1, <1>2, <1>3 DEF SearchInv

\* The steps leave the task and the registry alone.
LEMMA TaskStays ==
  ASSUME UNCHANGED task
  PROVE  /\ Asked => Asked'
         /\ LocalOnes' = LocalOnes
         /\ \A rep : HubOnes(rep)' = HubOnes(rep) /\ Readable(rep)' = Readable(rep)
<1>1. registry' = registry /\ budget' = budget /\ preferred' = preferred
  BY DEF task
<1>2. \A a : LocalMatch(a)' = LocalMatch(a)
  BY <1>1 DEF LocalMatch, EstimatePrice, CapabilityScore
<1>3. LocalFound' = LocalFound
  BY <1>1 DEF LocalFound, CapabilityScore
<1>4. LocalOnes' = LocalOnes
  BY <1>1, <1>3 DEF LocalOnes, LocalMatch, EstimatePrice, CapabilityScore
<1>5. \A rep : HubOnes(rep)' = HubOnes(rep)
  BY <1>1 DEF HubOnes, Dropped, AtMost, Above, HubMatch
<1>6. \A rep : Readable(rep)' = Readable(rep)
  BY DEF Readable
<1>7. Asked => Asked'
  BY <1>1 DEF Asked
<1> QED BY <1>4, <1>5, <1>6, <1>7
\* The registry is read.
LEMMA ReadRegistryKeeps ==
  ASSUME Comparable, SearchInv, ReadRegistry
  PROVE  SearchInv'
<1>1. Asked /\ reply = << >> /\ Readable(reply)
  BY DEF SearchInv, ReadRegistry
<1>2. UNCHANGED task /\ reply' = reply /\ searched' \in {"hub", "rank"}
  BY DEF ReadRegistry
<1>3. PICK order \in SetToSeqs(LocalFound) :
        matches' = [i \in DOMAIN order |-> LocalMatch(order[i])]
  BY DEF ReadRegistry
<1>4. Enumerates(matches', LocalOnes) /\ \A i \in 1..Len(matches') : matches'[i].source = "local"
  BY <1>1, <1>3, LocalCollected
<1>5. HubOnes(reply) = {}
  BY <1>1 DEF HubOnes
<1>6. LocalFirst(matches')
  BY <1>4 DEF LocalFirst
<1>7. Collected(matches', LocalOnes \cup HubOnes(reply))
  BY <1>4, <1>5, <1>6 DEF Collected
<1>8. Collected(matches, LocalOnes \cup HubOnes(reply))'
  <2>1. (LocalOnes \cup HubOnes(reply))' = LocalOnes \cup HubOnes(reply)
    BY <1>2, TaskStays
  <2> QED BY <1>7, <2>1 DEF Collected, LocalFirst, Enumerates
<1>9. Asked' /\ reply' = << >> /\ Readable(reply)'
  BY <1>1, <1>2, TaskStays DEF Readable
<1> QED BY <1>2, <1>8, <1>9 DEF SearchInv

\* The hub's reply is parsed to its end.
LEMMA HubAnswersKeeps ==
  ASSUME Comparable, SearchInv, HubAnswers
  PROVE  SearchInv'
<1>1. Asked /\ reply = << >> /\ Collected(matches, LocalOnes \cup HubOnes(reply))
  BY DEF SearchInv, HubAnswers
<1>2. UNCHANGED task /\ searched' = "rank"
  BY DEF HubAnswers
<1>3. PICK listed \in SeqOf(RawMatches, MaxListed) :
        /\ ~\E i \in DOMAIN listed : Raises(listed[i])
        /\ reply' = listed
        /\ \E found \in HubFound(listed) : matches' = matches \o found
  BY DEF HubAnswers
<1>4. PICK found \in HubFound(listed) : matches' = matches \o found
  BY <1>3
<1>5. listed \in Seq(RawMatches)
  BY SearchAssumption DEF SeqOf
<1>6. Readable(listed)
  BY <1>3 DEF Readable
<1>7. Enumerates(found, HubOnes(listed))
  BY <1>1, <1>5, <1>6, HubCollected
<1>8. HubOnes(reply) = {} /\ Readable(reply) /\ reply \in Seq(RawMatches)
  BY <1>1 DEF HubOnes, Readable
<1>9. Enumerates(matches, LocalOnes)
  BY <1>1, <1>8 DEF Collected
<1>10. /\ \A m \in LocalOnes : m \in Match /\ m.source = "local"
       /\ \A m \in HubOnes(listed) : m \in Match /\ m.source = "hub"
  BY <1>1, <1>5, <1>6, SourcesDiffer
<1>11. LocalOnes \cap HubOnes(listed) = {}
  BY <1>10
<1>12. Enumerates(matches', LocalOnes \cup HubOnes(listed))
  BY <1>4, <1>7, <1>9, <1>11, JoinedEnumerates
<1>13. \A i \in 1..Len(matches) : matches[i].source = "local"
  BY <1>9, <1>10 DEF Enumerates
<1>14. LocalFirst(matches')
  BY <1>4, <1>7, <1>9, <1>10, <1>13, JoinedLocalFirst
<1>15. Collected(matches, LocalOnes \cup HubOnes(reply))'
  <2>1. (LocalOnes \cup HubOnes(reply))' = LocalOnes \cup HubOnes(listed)
    <3>1. LocalOnes' = LocalOnes /\ HubOnes(listed)' = HubOnes(listed)
      BY <1>2, TaskStays
    <3>2. HubOnes(reply)' = HubOnes(listed)'
      BY <1>3 DEF HubOnes
    <3> QED BY <3>1, <3>2
  <2> QED BY <1>12, <1>14, <2>1 DEF Collected, LocalFirst, Enumerates
<1>16. Asked' /\ reply' \in Seq(RawMatches) /\ Readable(reply)'
  BY <1>1, <1>2, <1>3, <1>5, <1>6, TaskStays DEF Readable
<1> QED BY <1>2, <1>15, <1>16 DEF SearchInv

\* Without a usable reply, with an unreadable one, and when nothing happens.
LEMMA HubSilentKeeps ==
  ASSUME Comparable, SearchInv, HubFails \/ HubConfuses \/ UNCHANGED searchVars
  PROVE  SearchInv'
<1>1. UNCHANGED task /\ reply' = reply /\ matches' = matches
  BY DEF HubFails, HubConfuses, searchVars, task
<1>2. \/ searched' = searched
      \/ searched = "hub" /\ searched' \in {"rank", "raised"}
  BY DEF HubFails, HubConfuses, searchVars
<1>3. LocalOnes' = LocalOnes /\ HubOnes(reply)' = HubOnes(reply) /\ Readable(reply)' = Readable(reply)
  <2>1. HubOnes(reply)' = HubOnes(reply)
    BY <1>1 DEF HubOnes, Dropped, AtMost, Above, HubMatch, task
  <2>2. Readable(reply)' = Readable(reply)
    BY <1>1 DEF Readable
  <2> QED BY <1>1, <2>1, <2>2, TaskStays
<1>4. (LocalOnes \cup HubOnes(reply))' = LocalOnes \cup HubOnes(reply)
  BY <1>3
<1>5. Collected(matches, LocalOnes \cup HubOnes(reply))' = Collected(matches, LocalOnes \cup HubOnes(reply))
  BY <1>1, <1>4 DEF Collected, Enumerates, LocalFirst
<1>6. BestOf(matches, LocalOnes \cup HubOnes(reply))' = BestOf(matches, LocalOnes \cup HubOnes(reply))
  BY <1>1, <1>4 DEF BestOf
<1>7. Asked'
  BY <1>1, TaskStays DEF SearchInv
<1> QED BY <1>1, <1>2, <1>3, <1>5, <1>6, <1>7 DEF SearchInv

\* The matches are sorted and cut.
LEMMA RankKeeps ==
  ASSUME Comparable, SearchInv, Rank
  PROVE  SearchInv'
<1> DEFINE S == LocalOnes \cup HubOnes(reply)
<1>1. Asked /\ reply \in Seq(RawMatches) /\ Readable(reply) /\ Collected(matches, S)
  BY DEF SearchInv, Rank
<1>2. UNCHANGED task /\ reply' = reply /\ searched' = "done"
  BY DEF Rank
<1>3. PICK ranked \in Rankings(matches) : matches' = Cut(ranked)
  BY DEF Rank
<1>4. S \subseteq Match
  BY <1>1, SourcesDiffer
<1>5. S' = S
  <2>1. HubOnes(reply)' = HubOnes(reply)
    BY <1>2 DEF HubOnes, Dropped, AtMost, Above, HubMatch, task
  <2> QED BY <1>2, <2>1, TaskStays
<1>6. Asked' /\ Readable(reply)'
  BY <1>1, <1>2, TaskStays DEF Readable
<1> HIDE DEF S
<1>7. BestOf(matches', S)
  BY <1>1, <1>3, <1>4, RankedIsBest
<1>8. BestOf(matches, S)'
  BY <1>5, <1>7 DEF BestOf
<1> QED BY <1>1, <1>2, <1>6, <1>8 DEF SearchInv, S

\* A search returns the best it has seen, best first, local matches before the
\* hub's on a tie: for every registry, every reply of the hub whose numbers
\* compare, every budget and every limit.
THEOREM SearchReturnsBest ==
  ASSUME \A r \in RawMatches : HubPrice(r) # NaN /\ r.score # NaN
  PROVE  SearchSpec => []BestFirst
<1>1. Comparable
  BY DEF Comparable
<1>2. SearchInv /\ [SearchNext]_searchVars => SearchInv'
  BY <1>1, ReadRegistryKeeps, HubAnswersKeeps, HubSilentKeeps, RankKeeps DEF SearchNext
<1>3. SearchInv => BestFirst
  <2> SUFFICES ASSUME SearchInv, searched = "done" PROVE BestFirst
    BY DEF BestFirst
  <2>1. BestOf(matches, LocalOnes \cup HubOnes(reply))
    BY DEF SearchInv
  <2>2. Eligible = LocalOnes \cup HubOnes(reply)
    BY <1>1, EligibleIs DEF SearchInv
  <2>3. BestOf(matches, Eligible)
    BY <2>1, <2>2
  <2> QED BY <2>3 DEF BestOf, BestFirst
<1> QED BY SearchInitInv, <1>2, <1>3, PTL DEF SearchSpec

(***************************************************************************)
(* The figures of /v1/stats                                                *)
(***************************************************************************)

----------------------------------------------------------------------------
(* The figures *)

\* Value, of any agents and any task rows.
RecentOf(ts, c) == {t \in Tasks : ts[t].status # "absent" /\ ts[t].born >= c}
CountOf(ag, states) == Cardinality({a \in Members : ag[a] \in states})
DoneOf(ts, c) == Cardinality({t \in RecentOf(ts, c) : ts[t].status = "completed"})
SpentOf(ts, S) == MapThenSumSet(LAMBDA t : ts[t].spent, S)
HopsOf(ts, S) == MapThenSumSet(LAMBDA t : ts[t].hops, S)

FigureOf(ag, ts, q, c) ==
    CASE q = "agents_total"    -> CountOf(ag, {"pending", "verified"})
      [] q = "agents_verified" -> CountOf(ag, {"verified"})
      [] q = "tasks"  -> Cardinality(RecentOf(ts, c))
      [] q = "ok"     -> DoneOf(ts, c)
      [] q = "volume" -> SpentOf(ts, RecentOf(ts, c))
      [] q = "hops"   -> HopsOf(ts, RecentOf(ts, c))

\* The queries of MeshStats answer these figures.
LEMMA ValueIs ==
  ASSUME NEW q, NEW c
  PROVE  /\ Value(q, c) = FigureOf(agents, tasks, q, c)
         /\ Value(q, c)' = FigureOf(agents', tasks', q, c)
BY DEF Value, FigureOf, AgentsIn, CountOf, Recent, RecentOf, DoneOf, SpentOf, HopsOf

\* The sum of a column over rows of the table is the sum of a function.
LEMMA SpentIs ==
  ASSUME NEW ts, NEW S, S \subseteq Tasks, IsFiniteSet(S)
  PROVE  SpentOf(ts, S) = Total([t \in Tasks |-> ts[t].spent], S)
<1> DEFINE Sums(f) == f = [s \in SUBSET S |->
                  IF s = {} THEN 0
                  ELSE ts[CHOOSE x \in s : TRUE].spent + f[s \ {CHOOSE x \in s : TRUE}]]
           g == CHOOSE f : Sums(f)
           v == [t \in Tasks |-> ts[t].spent]
<1>1. SpentOf(ts, S) = g[S]
  BY DEF SpentOf, MapThenSumSet, MapThenFoldSet
<1>2. IsSum(v, S, g)
  <2>1. ASSUME NEW f PROVE IsSum(v, S, f) <=> Sums(f)
    <3>1. ASSUME NEW s \in SUBSET S, s # {}
          PROVE  v[First(s)] = ts[CHOOSE x \in s : TRUE].spent
      BY <3>1, TakenFrom DEF First
    <3> HIDE DEF v
    <3> QED BY <3>1 DEF IsSum, First
  <2> HIDE DEF Sums, v
  <2>2. \E f : Sums(f)
    BY <2>1, SumExists
  <2> QED BY <2>1, <2>2
<1> HIDE DEF g, v
<1>3. Total(v, S) = g[S]
  BY <1>2, TotalIs
<1> QED BY <1>1, <1>3 DEF v

\* The same for the column of the hops.
LEMMA HopsIs ==
  ASSUME NEW ts, NEW S, S \subseteq Tasks, IsFiniteSet(S)
  PROVE  HopsOf(ts, S) = Total([t \in Tasks |-> ts[t].hops], S)
<1> DEFINE Sums(f) == f = [s \in SUBSET S |->
                  IF s = {} THEN 0
                  ELSE ts[CHOOSE x \in s : TRUE].hops + f[s \ {CHOOSE x \in s : TRUE}]]
           g == CHOOSE f : Sums(f)
           v == [t \in Tasks |-> ts[t].hops]
<1>1. HopsOf(ts, S) = g[S]
  BY DEF HopsOf, MapThenSumSet, MapThenFoldSet
<1>2. IsSum(v, S, g)
  <2>1. ASSUME NEW f PROVE IsSum(v, S, f) <=> Sums(f)
    <3>1. ASSUME NEW s \in SUBSET S, s # {}
          PROVE  v[First(s)] = ts[CHOOSE x \in s : TRUE].hops
      BY <3>1, TakenFrom DEF First
    <3> HIDE DEF v
    <3> QED BY <3>1 DEF IsSum, First
  <2> HIDE DEF Sums, v
  <2>2. \E f : Sums(f)
    BY <2>1, SumExists
  <2> QED BY <2>1, <2>2
<1> HIDE DEF g, v
<1>3. Total(v, S) = g[S]
  BY <1>2, TotalIs
<1> QED BY <1>1, <1>3 DEF v

----------------------------------------------------------------------------
(* The figures only grow *)

AgentStates == {"absent", "pending", "verified"}
AgentRows(ag) == ag \in [Members -> AgentStates]

TableRow == [status : {"absent", "open", "completed", "failed"},
            born : Int, hops : Nat, spent : {0, 1}]

TableRows(ts) == ts \in [Tasks -> TableRow]

LaterAgents(ag, ag2) ==
    \A a \in Members :
        /\ ag[a] = "pending" => ag2[a] \in {"pending", "verified"}
        /\ ag[a] = "verified" => ag2[a] = "verified"

LaterTasks(ts, ts2) ==
    \A t \in Tasks :
        ts[t].status # "absent" =>
            /\ ts2[t].status # "absent" /\ ts2[t].born = ts[t].born
            /\ ts[t].spent <= ts2[t].spent
            /\ ts[t].hops <= ts2[t].hops

\* Nothing that was completed is failed.
KeepsDone(ts, ts2) ==
    \A t \in Tasks : ts[t].status = "completed" => ts2[t].status = "completed"

\* A subset has at most as many members.
LEMMA CountGrows ==
  ASSUME NEW T, IsFiniteSet(T), NEW S, S \subseteq T
  PROVE  Cardinality(S) \in Nat /\ Cardinality(T) \in Nat /\ Cardinality(S) <= Cardinality(T)
BY FS_Subset, FS_CardinalityType

\* A set with at most one member more has at most one more.
LEMMA CountAdds ==
  ASSUME NEW S, IsFiniteSet(S), NEW x, NEW T, T \subseteq S \union {x}
  PROVE  /\ Cardinality(S) \in Nat /\ Cardinality(T) \in Nat /\ IsFiniteSet(T)
         /\ Cardinality(T) <= Cardinality(S) + 1
<1>1. /\ IsFiniteSet(S \union {x}) /\ Cardinality(S) \in Nat
      /\ Cardinality(S \union {x}) \in {Cardinality(S), Cardinality(S) + 1}
  BY FS_AddElement, FS_CardinalityType
<1>2. IsFiniteSet(T) /\ Cardinality(T) \in Nat /\ Cardinality(T) <= Cardinality(S \union {x})
  BY <1>1, CountGrows, FS_Subset
<1> QED BY <1>1, <1>2

\* Rows that were recent stay recent, and those are finitely many.
LEMMA RecentGrows ==
  ASSUME NEW ts, NEW ts2, LaterTasks(ts, ts2), NEW c
  PROVE  /\ IsFiniteSet(RecentOf(ts2, c)) /\ IsFiniteSet(RecentOf(ts, c))
         /\ RecentOf(ts, c) \subseteq RecentOf(ts2, c)
         /\ RecentOf(ts2, c) \subseteq Tasks
<1>1. RecentOf(ts, c) \subseteq Tasks /\ RecentOf(ts2, c) \subseteq Tasks
  BY DEF RecentOf
<1>2. RecentOf(ts, c) \subseteq RecentOf(ts2, c)
  BY DEF RecentOf, LaterTasks
<1> QED BY <1>1, <1>2, StatsAssumption, FS_Subset

\* What agents and tasks do makes no figure smaller, unless a completed task
\* is failed.
LEMMA FiguresGrow ==
  ASSUME NEW ag, NEW ag2, NEW ts, NEW ts2,
         TableRows(ts), TableRows(ts2),
         LaterAgents(ag, ag2), LaterTasks(ts, ts2),
         NEW q \in Figures, NEW c, q = "ok" => KeepsDone(ts, ts2)
  PROVE  /\ FigureOf(ag, ts, q, c) \in Nat /\ FigureOf(ag2, ts2, q, c) \in Nat
         /\ FigureOf(ag, ts, q, c) <= FigureOf(ag2, ts2, q, c)
<1> DEFINE S == RecentOf(ts, c)
           T == RecentOf(ts2, c)
<1>1. /\ IsFiniteSet(T) /\ IsFiniteSet(S) /\ S \subseteq T /\ T \subseteq Tasks
  BY RecentGrows
<1>2. CASE q = "agents_total"
  <2> DEFINE A == {a \in Members : ag[a] \in {"pending", "verified"}}
             B == {a \in Members : ag2[a] \in {"pending", "verified"}}
  <2>1. A \subseteq B /\ IsFiniteSet(B)
    BY StatsAssumption, FS_Subset DEF LaterAgents
  <2> HIDE DEF A, B
  <2>2. Cardinality(A) \in Nat /\ Cardinality(B) \in Nat /\ Cardinality(A) <= Cardinality(B)
    BY <2>1, CountGrows
  <2> QED BY <1>2, <2>2 DEF FigureOf, CountOf, A, B
<1>3. CASE q = "agents_verified"
  <2> DEFINE A == {a \in Members : ag[a] \in {"verified"}}
             B == {a \in Members : ag2[a] \in {"verified"}}
  <2>1. A \subseteq B /\ IsFiniteSet(B)
    BY StatsAssumption, FS_Subset DEF LaterAgents
  <2> HIDE DEF A, B
  <2>2. Cardinality(A) \in Nat /\ Cardinality(B) \in Nat /\ Cardinality(A) <= Cardinality(B)
    BY <2>1, CountGrows
  <2> QED BY <1>3, <2>2 DEF FigureOf, CountOf, A, B
<1>4. CASE q = "tasks"
  <2>1. Cardinality(S) \in Nat /\ Cardinality(T) \in Nat /\ Cardinality(S) <= Cardinality(T)
    BY <1>1, CountGrows
  <2> QED BY <1>4, <2>1 DEF FigureOf
<1>5. CASE q = "ok"
  <2> DEFINE A == {t \in S : ts[t].status = "completed"}
             B == {t \in T : ts2[t].status = "completed"}
  <2>1. A \subseteq B /\ B \subseteq T
    BY <1>1, <1>5 DEF KeepsDone
  <2>2. IsFiniteSet(B)
    BY <1>1, <2>1, FS_Subset
  <2> HIDE DEF A, B
  <2>3. Cardinality(A) \in Nat /\ Cardinality(B) \in Nat /\ Cardinality(A) <= Cardinality(B)
    BY <2>1, <2>2, CountGrows
  <2> QED BY <1>5, <2>3 DEF FigureOf, DoneOf, A, B
<1> HIDE DEF S, T
<1>6. \A t \in S : t \in Tasks /\ ts[t].status # "absent"
  BY <1>1 DEF S, RecentOf
<1>7. CASE q = "volume"
  <2> DEFINE v == [t \in Tasks |-> ts[t].spent]
             w == [t \in Tasks |-> ts2[t].spent]
  <2>1. \A t \in Tasks : ts[t].spent \in Nat /\ ts2[t].spent \in Nat
    BY DEF TableRows, TableRow
  <2>2. \A t \in S : v[t] \in Nat /\ v[t] <= w[t]
    BY <1>6, <2>1 DEF LaterTasks
  <2>3. \A t \in T : w[t] \in Nat
    BY <1>1, <2>1
  <2>4. SpentOf(ts, S) = Total(v, S) /\ SpentOf(ts2, T) = Total(w, T)
    BY <1>1, SpentIs
  <2> HIDE DEF v, w
  <2>5. Total(v, S) \in Nat /\ Total(w, T) \in Nat
    BY <1>1, <2>2, <2>3, TotalType
  <2>6. Total(v, S) <= Total(w, T)
    BY <1>1, <2>2, <2>3, TotalMonotone
  <2> QED BY <1>7, <2>4, <2>5, <2>6 DEF FigureOf, S, T
<1>8. CASE q = "hops"
  <2> DEFINE v == [t \in Tasks |-> ts[t].hops]
             w == [t \in Tasks |-> ts2[t].hops]
  <2>1. \A t \in Tasks : ts[t].hops \in Nat /\ ts2[t].hops \in Nat
    BY DEF TableRows, TableRow
  <2>2. \A t \in S : v[t] \in Nat /\ v[t] <= w[t]
    BY <1>6, <2>1 DEF LaterTasks
  <2>3. \A t \in T : w[t] \in Nat
    BY <1>1, <2>1
  <2>4. HopsOf(ts, S) = Total(v, S) /\ HopsOf(ts2, T) = Total(w, T)
    BY <1>1, HopsIs
  <2> HIDE DEF v, w
  <2>5. Total(v, S) \in Nat /\ Total(w, T) \in Nat
    BY <1>1, <2>2, <2>3, TotalType
  <2>6. Total(v, S) <= Total(w, T)
    BY <1>1, <2>2, <2>3, TotalMonotone
  <2> QED BY <1>8, <2>4, <2>5, <2>6 DEF FigureOf, S, T
<1>9. q \in {"agents_total", "agents_verified", "tasks", "ok", "volume", "hops"}
  BY DEF Figures, Queries
<1> QED BY <1>2, <1>3, <1>4, <1>5, <1>7, <1>8, <1>9

----------------------------------------------------------------------------
(* The running call *)

\* What a call keeps.
CallRows ==
    /\ next \in 0..7 /\ cutoff \in Int /\ now \in Int
    /\ report \in [Figures -> Nat] /\ before \in [Figures -> Nat]
    /\ undone \in Nat /\ late \in [agents : Nat, tasks : Nat]

\* The figures that are read lie between those of the beginning and those of
\* now, and none of now is below the one of the beginning, but for what was
\* undone.
CallInv ==
    next # 0 =>
        /\ \A q \in Figures : before[q] <= Value(q, cutoff) + Undone(q)
        /\ \A n \in 1..6 :
              n < next => /\ before[Queries[n]] <= report[Queries[n]] + Undone(Queries[n])
                          /\ report[Queries[n]] <= Value(Queries[n], cutoff) + Undone(Queries[n])

\* Between the query of a whole and that of its part the whole grows by what
\* comes late.
LateInv ==
    /\ next = 2 => Value("agents_total", cutoff) <= report["agents_total"] + late.agents
    /\ next = 4 => Value("tasks", cutoff) <= report["tasks"] + late.tasks
    /\ next \in 3..7 => report["agents_verified"] <= report["agents_total"] + late.agents
    /\ next \in 5..7 => report["ok"] <= report["tasks"] + late.tasks

\* The sweep selects rows that are there.
StaleInv == \A t \in stale : t \in Tasks /\ tasks[t].status # "absent"

StatsInv == TableRows(tasks) /\ AgentRows(agents) /\ StaleInv /\ CallRows /\ CallInv /\ LateInv

\* The initial tables and the call that is not running.
LEMMA StatsInitInv == StatsInit => StatsInv
<1> SUFFICES ASSUME StatsInit PROVE StatsInv
  OBVIOUS
<1>1. TableRows(tasks)
  BY DEF StatsInit, TableRows, TableRow
<1>2. AgentRows(agents)
  BY DEF StatsInit, AgentRows, AgentStates
<1>3. CallRows
  BY DEF StatsInit, CallRows, Zero
<1>4. CallInv /\ LateInv /\ StaleInv
  BY DEF StatsInit, CallInv, LateInv, StaleInv
<1> QED BY <1>1, <1>2, <1>3, <1>4 DEF StatsInv

\* A figure is a number.
LEMMA FigureType ==
  ASSUME StatsInv, NEW q \in Figures, NEW c
  PROVE  Value(q, c) \in Nat
<1>1. LaterAgents(agents, agents) /\ TableRows(tasks)
  BY DEF StatsInv, LaterAgents
<1>2. LaterTasks(tasks, tasks) /\ KeepsDone(tasks, tasks)
  BY <1>1 DEF LaterTasks, KeepsDone, TableRows, TableRow
<1>3. FigureOf(agents, tasks, q, c) \in Nat
  BY <1>1, <1>2, FiguresGrow
<1> QED BY <1>3, ValueIs

LEMMA FigureNames ==
  /\ Figures = {"agents_total", "agents_verified", "tasks", "ok", "volume", "hops"}
  /\ \A n \in 1..6 : Queries[n] \in Figures
  /\ \A m, n \in 1..6 : Queries[m] = Queries[n] => m = n
BY DEF Figures, Queries

\* A part has no more members than its whole.
LEMMA PartIsLess ==
  ASSUME StatsInv
  PROVE  /\ Value("agents_verified", cutoff) <= Value("agents_total", cutoff)
         /\ Value("ok", cutoff) <= Value("tasks", cutoff)
<1>1. Value("agents_verified", cutoff) <= Value("agents_total", cutoff)
  <2> DEFINE S == {a \in Members : agents[a] \in {"verified"}}
             T == {a \in Members : agents[a] \in {"pending", "verified"}}
  <2>1. IsFiniteSet(T) /\ S \subseteq T
    BY StatsAssumption, FS_Subset
  <2>2. Value("agents_verified", cutoff) = Cardinality(S)
        /\ Value("agents_total", cutoff) = Cardinality(T)
    BY DEF Value, AgentsIn
  <2> HIDE DEF S, T
  <2> QED BY <2>1, <2>2, CountGrows
<1>2. Value("ok", cutoff) <= Value("tasks", cutoff)
  <2> DEFINE T == Recent(cutoff)
             S == {t \in T : tasks[t].status = "completed"}
  <2>1. IsFiniteSet(T)
    BY StatsAssumption, FS_Subset DEF Recent
  <2>2. S \subseteq T /\ Value("ok", cutoff) = Cardinality(S) /\ Value("tasks", cutoff) = Cardinality(T)
    BY DEF Value
  <2> HIDE DEF S, T
  <2> QED BY <2>1, <2>2, CountGrows
<1> QED BY <1>1, <1>2

----------------------------------------------------------------------------
(* Steps of the call *)

\* The call begins: every figure is what it is.
LEMMA BeginKeeps == StatsInv /\ Begin => StatsInv'
<1> SUFFICES ASSUME StatsInv, Begin PROVE StatsInv'
  OBVIOUS
<1>1. TableRows(tasks)' /\ AgentRows(agents)' /\ StaleInv'
  BY DEF StatsInv, StaleInv, Begin, TableRows, AgentRows
<1> DEFINE c == now - Day
<1>2. /\ next' = 1 /\ cutoff' = c /\ report' = Zero /\ c \in Int /\ now' \in Int
      /\ undone' = 0 /\ late' = [agents |-> 0, tasks |-> 0]
  BY StatsAssumption DEF Begin, StatsInv, CallRows
<1>3. \A q \in Figures : Value(q, c) \in Nat
  BY FigureType
<1>4. before' = [q \in Figures |-> Value(q, c)]
  BY DEF Begin
<1>5. \A q \in Figures : Value(q, cutoff)' = Value(q, c)
  <2>1. agents' = agents /\ tasks' = tasks
    BY DEF Begin
  <2> QED BY <1>2, <2>1, ValueIs
<1> HIDE DEF c
<1>6. CallRows'
  <2>1. before' \in [Figures -> Nat]
    BY <1>3, <1>4
  <2>2. report' \in [Figures -> Nat]
    BY <1>2 DEF Zero
  <2> QED BY <1>2, <2>1, <2>2 DEF CallRows
<1>7. CallInv'
  <2>1. \A q \in Figures : before'[q] = Value(q, c)
    BY <1>4
  <2>2. \A q \in Figures : before'[q] <= Value(q, cutoff)' + Undone(q)'
    BY <1>2, <1>3, <1>5, <2>1 DEF Undone
  <2> QED BY <1>2, <2>2 DEF CallInv
<1>8. LateInv'
  BY <1>2 DEF LateInv
<1> QED BY <1>1, <1>6, <1>7, <1>8 DEF StatsInv

\* A query answers with the figure as it is now.
LEMMA QueryKeeps == StatsInv /\ Query => StatsInv'
<1> SUFFICES ASSUME StatsInv, Query PROVE StatsInv'
  OBVIOUS
<1>1. TableRows(tasks)' /\ AgentRows(agents)' /\ StaleInv'
  BY DEF StatsInv, StaleInv, Query, TableRows, AgentRows
<1> DEFINE k == Queries[next]
           V(q) == Value(q, cutoff)
<1>2. /\ next \in 1..6 /\ next' = next + 1 /\ cutoff' = cutoff /\ before' = before
      /\ now' = now /\ undone' = undone /\ late' = late /\ report' = [report EXCEPT ![k] = V(k)]
  BY DEF Query, Cutoff
<1>3. \A q \in Figures : Value(q, cutoff)' = V(q)
  <2>1. agents' = agents /\ tasks' = tasks
    BY DEF Query
  <2> QED BY <1>2, <2>1, ValueIs
<1>4. \A q \in Figures : V(q) \in Nat /\ Undone(q) \in Nat
  BY FigureType DEF Undone, StatsInv, CallRows
<1>5. /\ report \in [Figures -> Nat] /\ before \in [Figures -> Nat] /\ cutoff \in Int /\ now \in Int
      /\ undone \in Nat /\ late \in [agents : Nat, tasks : Nat]
  BY DEF StatsInv, CallRows
<1>6. /\ \A q \in Figures : before[q] <= V(q) + Undone(q)
      /\ \A n \in 1..6 :
            n < next => /\ before[Queries[n]] <= report[Queries[n]] + Undone(Queries[n])
                        /\ report[Queries[n]] <= V(Queries[n]) + Undone(Queries[n])
  BY <1>2 DEF StatsInv, CallInv
<1>7. CallInv' = (next' # 0 =>
              /\ \A q \in Figures : before'[q] <= Value(q, cutoff)' + Undone(q)'
              /\ \A n \in 1..6 :
                    n < next' => /\ before'[Queries[n]] <= report'[Queries[n]] + Undone(Queries[n])'
                                 /\ report'[Queries[n]] <= Value(Queries[n], cutoff)' + Undone(Queries[n])')
  BY DEF CallInv, Queries, Figures
<1>8. \A q \in Figures : Undone(q)' = Undone(q)
  BY <1>2 DEF Undone
<1>9. /\ report'[k] = V(k) /\ k \in Figures
      /\ \A q \in Figures \ {k} : report'[q] = report[q]
  BY <1>2, <1>5, FigureNames
<1>10. LateInv'
  <2>1. V("agents_verified") <= V("agents_total") /\ V("ok") <= V("tasks")
    BY PartIsLess
  <2>2. /\ V("agents_total")' = V("agents_total") /\ V("tasks")' = V("tasks")
        /\ \A q \in {"agents_total", "agents_verified", "tasks", "ok"} :
              V(q) \in Nat /\ report[q] \in Nat
    BY <1>3, <1>4, <1>5, FigureNames
  <2>3. /\ next = 2 => V("agents_total") <= report["agents_total"] + late.agents
        /\ next = 4 => V("tasks") <= report["tasks"] + late.tasks
        /\ next \in 3..7 => report["agents_verified"] <= report["agents_total"] + late.agents
        /\ next \in 5..7 => report["ok"] <= report["tasks"] + late.tasks
    BY DEF StatsInv, LateInv
  <2>4. /\ next = 1 => k = "agents_total"
        /\ next = 2 => k = "agents_verified"
        /\ next = 3 => k = "tasks"
        /\ next = 4 => k = "ok"
        /\ next \in 5..6 => k \in {"volume", "hops"}
    BY DEF Queries
  <2> HIDE DEF V, k
  <2>5. late.agents \in Nat /\ late.tasks \in Nat
    BY <1>5
  <2>6. /\ next' = 2 => V("agents_total") <= report'["agents_total"] + late.agents
        /\ next' = 4 => V("tasks") <= report'["tasks"] + late.tasks
    BY <1>2, <1>9, <2>2, <2>4, <2>5
  <2>7. next' \in 3..7 => report'["agents_verified"] <= report'["agents_total"] + late.agents
    <3>1. CASE next = 2
      <4>1. report'["agents_verified"] = V("agents_verified")
            /\ report'["agents_total"] = report["agents_total"]
        BY <1>9, <2>4, <3>1, FigureNames
      <4> QED BY <2>1, <2>2, <2>3, <2>5, <3>1, <4>1
    <3>2. CASE next \in 3..6
      <4>1. report'["agents_verified"] = report["agents_verified"]
            /\ report'["agents_total"] = report["agents_total"]
        BY <1>9, <2>4, <3>2, FigureNames
      <4> QED BY <2>3, <3>2, <4>1
    <3> QED BY <1>2, <3>1, <3>2
  <2>8. next' \in 5..7 => report'["ok"] <= report'["tasks"] + late.tasks
    <3>1. CASE next = 4
      <4>1. report'["ok"] = V("ok") /\ report'["tasks"] = report["tasks"]
        BY <1>9, <2>4, <3>1, FigureNames
      <4> QED BY <2>1, <2>2, <2>3, <2>5, <3>1, <4>1
    <3>2. CASE next \in 5..6
      <4>1. report'["ok"] = report["ok"] /\ report'["tasks"] = report["tasks"]
        BY <1>9, <2>4, <3>2, FigureNames
      <4> QED BY <2>3, <3>2, <4>1
    <3> QED BY <1>2, <3>1, <3>2
  <2>9. Value("agents_total", cutoff)' = V("agents_total") /\ Value("tasks", cutoff)' = V("tasks")
    BY <1>3, FigureNames
  <2> QED BY <1>2, <2>6, <2>7, <2>8, <2>9 DEF LateInv
<1> HIDE DEF V
<1>11. CallRows'
  <2>1. report' \in [Figures -> Nat]
    BY <1>2, <1>4, <1>5, <1>9
  <2> QED BY <1>2, <1>5, <2>1 DEF CallRows
<1>12. \A n \in 1..6 : n < next' => /\ before'[Queries[n]] <= report'[Queries[n]] + Undone(Queries[n])
                                     /\ report'[Queries[n]] <= V(Queries[n]) + Undone(Queries[n])
  <2> SUFFICES ASSUME NEW n \in 1..6, n < next'
               PROVE  /\ before'[Queries[n]] <= report'[Queries[n]] + Undone(Queries[n])
                      /\ report'[Queries[n]] <= V(Queries[n]) + Undone(Queries[n])
    OBVIOUS
  <2>1. /\ V(Queries[n]) \in Nat /\ Undone(Queries[n]) \in Nat
        /\ before[Queries[n]] <= V(Queries[n]) + Undone(Queries[n])
    BY <1>4, <1>6, FigureNames
  <2>2. CASE n = next
    BY <1>2, <1>9, <2>1, <2>2
  <2>3. CASE n # next
    <3>1. n < next /\ Queries[n] # k
      BY <1>2, <2>3, FigureNames
    <3>2. report'[Queries[n]] = report[Queries[n]]
      BY <1>9, <3>1, FigureNames
    <3> QED BY <1>2, <1>6, <3>1, <3>2
  <2> QED BY <2>2, <2>3
<1>13. CallInv'
  BY <1>2, <1>3, <1>6, <1>7, <1>8, <1>12, FigureNames
<1> QED BY <1>1, <1>10, <1>11, <1>13 DEF StatsInv

\* Time passes, a row is selected, and the answer ends the call.
LEMMA RestKeeps ==
  ASSUME StatsInv, Tick \/ Respond \/ (\E t \in Tasks : SelectStale(t)) \/ UNCHANGED statsVars
  PROVE  StatsInv'
<1>1. TableRows(tasks)' /\ AgentRows(agents)' /\ StaleInv'
  BY DEF StatsInv, StaleInv, TableRows, AgentRows, Tick, Respond, SelectStale, statsVars
<1>2. CASE Respond
  <2>1. CallRows'
    BY <1>2 DEF StatsInv, CallRows, Respond, Zero
  <2>2. CallInv' /\ LateInv'
    BY <1>2 DEF Respond, CallInv, LateInv
  <2> QED BY <1>1, <2>1, <2>2 DEF StatsInv
<1>3. CASE ~Respond
  <2>1. /\ tasks' = tasks /\ agents' = agents /\ cutoff' = cutoff /\ undone' = undone /\ late' = late
        /\ report' = report /\ before' = before /\ next' = next /\ now' \in Int
    BY <1>3 DEF Tick, SelectStale, statsVars, call, StatsInv, CallRows
  <2>2. CallRows'
    BY <2>1 DEF StatsInv, CallRows
  <2>3. \A q : Value(q, cutoff)' = Value(q, cutoff) /\ Undone(q)' = Undone(q)
    BY <2>1, ValueIs DEF Undone
  <2>4. CallInv' /\ LateInv'
    BY <2>1, <2>3 DEF StatsInv, CallInv, LateInv
  <2> QED BY <1>1, <2>2, <2>4 DEF StatsInv
<1> QED BY <1>2, <1>3

----------------------------------------------------------------------------
(* Steps of other processes *)

\* A step that makes no figure smaller but for what it undoes, and the whole
\* larger only by what comes late, leaves the call in order.
LEMMA OthersKeepCall ==
  ASSUME StatsInv, UNCHANGED <<next, cutoff, report, before, now>>,
         TableRows(tasks'), AgentRows(agents'), LaterTasks(tasks, tasks'), stale' \subseteq stale,
         undone' \in Nat, undone <= undone',
         late' \in [agents : Nat, tasks : Nat],
         late.agents <= late'.agents, late.tasks <= late'.tasks,
         \A q \in Figures : /\ Value(q, cutoff)' \in Nat
                            /\ Value(q, cutoff) + Undone(q) <= Value(q, cutoff)' + Undone(q)',
         next = 2 => Value("agents_total", cutoff)' + late.agents
                        <= Value("agents_total", cutoff) + late'.agents,
         next = 4 => Value("tasks", cutoff)' + late.tasks <= Value("tasks", cutoff) + late'.tasks
  PROVE  StatsInv'
<1>1. CallRows' /\ StaleInv'
  BY DEF StatsInv, CallRows, StaleInv, LaterTasks
<1> DEFINE W(q) == Value(q, cutoff)
           X(q) == Value(q, cutoff)'
           U(q) == Undone(q)
           Y(q) == Undone(q)'
<1>2. \A q \in Figures : before[q] \in Nat /\ report[q] \in Nat /\ W(q) \in Nat
  BY FigureType DEF StatsInv, CallRows
<1>3. \A q \in Figures : U(q) \in Nat /\ Y(q) \in Nat /\ U(q) <= Y(q)
  BY DEF StatsInv, CallRows, Undone
<1>4. \A q \in Figures : X(q) \in Nat /\ W(q) + U(q) <= X(q) + Y(q)
  OBVIOUS
<1>5. late.agents \in Nat /\ late.tasks \in Nat /\ late'.agents \in Nat /\ late'.tasks \in Nat
  BY DEF StatsInv, CallRows
<1>6. CallInv'
  <2>1. SUFFICES ASSUME next # 0 PROVE CallInv'
    BY DEF CallInv
  <2>2. /\ \A q \in Figures : before[q] <= W(q) + U(q)
        /\ \A n \in 1..6 : n < next => /\ before[Queries[n]] <= report[Queries[n]] + U(Queries[n])
                                       /\ report[Queries[n]] <= W(Queries[n]) + U(Queries[n])
    BY <2>1 DEF StatsInv, CallInv
  <2>3. CallInv' = (next' # 0 =>
              /\ \A q \in Figures : before'[q] <= X(q) + Y(q)
              /\ \A n \in 1..6 :
                    n < next' => /\ before'[Queries[n]] <= report'[Queries[n]] + Y(Queries[n])
                                 /\ report'[Queries[n]] <= X(Queries[n]) + Y(Queries[n]))
    BY DEF CallInv, Queries, Figures
  <2> HIDE DEF W, X, U, Y
  <2>4. \A q \in Figures : before[q] <= X(q) + Y(q)
    BY <1>2, <1>3, <1>4, <2>2
  <2>5. ASSUME NEW n \in 1..6, n < next
        PROVE  /\ before[Queries[n]] <= report[Queries[n]] + Y(Queries[n])
               /\ report[Queries[n]] <= X(Queries[n]) + Y(Queries[n])
    <3> DEFINE q == Queries[n]
    <3>1. q \in Figures /\ before[q] <= report[q] + U(q) /\ report[q] <= W(q) + U(q)
      BY <2>2, <2>5, FigureNames
    <3> HIDE DEF q
    <3>2. before[q] <= report[q] + Y(q) /\ report[q] <= X(q) + Y(q)
      BY <1>2, <1>3, <1>4, <3>1
    <3> QED BY <3>2 DEF q
  <2> QED BY <2>3, <2>4, <2>5
<1>7. LateInv'
  <2>1. /\ next = 2 => W("agents_total") <= report["agents_total"] + late.agents
        /\ next = 4 => W("tasks") <= report["tasks"] + late.tasks
        /\ next \in 3..7 => report["agents_verified"] <= report["agents_total"] + late.agents
        /\ next \in 5..7 => report["ok"] <= report["tasks"] + late.tasks
    BY DEF StatsInv, LateInv
  <2>2. /\ next = 2 => X("agents_total") + late.agents <= W("agents_total") + late'.agents
        /\ next = 4 => X("tasks") + late.tasks <= W("tasks") + late'.tasks
    OBVIOUS
  <2>3. \A q \in {"agents_total", "agents_verified", "tasks", "ok"} :
           report[q] \in Nat /\ W(q) \in Nat /\ X(q) \in Nat
    BY <1>2, <1>4, FigureNames
  <2>4. LateInv' = (/\ next = 2 => X("agents_total") <= report["agents_total"] + late'.agents
                    /\ next = 4 => X("tasks") <= report["tasks"] + late'.tasks
                    /\ next \in 3..7 => report["agents_verified"] <= report["agents_total"] + late'.agents
                    /\ next \in 5..7 => report["ok"] <= report["tasks"] + late'.tasks)
    BY DEF LateInv
  <2> HIDE DEF W, X
  <2> QED BY <1>5, <2>1, <2>2, <2>3, <2>4
<1> QED BY <1>1, <1>6, <1>7 DEF StatsInv

\* Figures of rows that are later, and keep what is completed, are no smaller.
LEMMA FiguresKeep ==
  ASSUME StatsInv, cutoff' = cutoff, TableRows(tasks'), LaterAgents(agents, agents'),
         LaterTasks(tasks, tasks'), NEW q \in Figures, q = "ok" => KeepsDone(tasks, tasks')
  PROVE  Value(q, cutoff)' \in Nat /\ Value(q, cutoff) <= Value(q, cutoff)'
<1>1. TableRows(tasks)
  BY DEF StatsInv
<1>2. /\ FigureOf(agents', tasks', q, cutoff) \in Nat
      /\ FigureOf(agents, tasks, q, cutoff) <= FigureOf(agents', tasks', q, cutoff)
  BY <1>1, FiguresGrow
<1>3. /\ Value(q, cutoff) = FigureOf(agents, tasks, q, cutoff)
      /\ Value(q, cutoff)' = FigureOf(agents', tasks', q, cutoff)
  BY ValueIs
<1> QED BY <1>2, <1>3

\* An agent is registered or verified.
LEMMA AgentKeeps ==
  ASSUME StatsInv, NEW a \in Members, CreateAgent(a) \/ VerifyAgent(a)
  PROVE  StatsInv'
<1>1. /\ tasks' = tasks /\ undone' = undone /\ UNCHANGED <<next, cutoff, report, before, now>>
      /\ stale' = stale /\ AgentRows(agents') /\ LaterAgents(agents, agents')
  BY DEF StatsInv, AgentRows, AgentStates, LaterAgents, CreateAgent, VerifyAgent, call
<1>2. TableRows(tasks') /\ LaterTasks(tasks, tasks') /\ KeepsDone(tasks, tasks')
  BY <1>1 DEF StatsInv, TableRows, TableRow, LaterTasks, KeepsDone
<1>3. undone \in Nat /\ late \in [agents : Nat, tasks : Nat]
  BY DEF StatsInv, CallRows
<1>4. /\ late' \in [agents : Nat, tasks : Nat] /\ late'.tasks = late.tasks
      /\ late.agents <= late'.agents
      /\ CreateAgent(a) /\ next = 2 => late'.agents = late.agents + 1
  BY <1>3 DEF CreateAgent, VerifyAgent
<1>5. \A q \in Figures : /\ Value(q, cutoff) \in Nat /\ Value(q, cutoff)' \in Nat
                         /\ Value(q, cutoff) <= Value(q, cutoff)'
  BY <1>1, <1>2, FiguresKeep, FigureType
<1>6. \A q \in Figures : /\ Value(q, cutoff)' \in Nat
                         /\ Value(q, cutoff) + Undone(q) <= Value(q, cutoff)' + Undone(q)'
  BY <1>1, <1>3, <1>5 DEF Undone
<1>7. Value("tasks", cutoff)' = Value("tasks", cutoff)
  BY <1>1 DEF Value, Recent
<1>8. next = 2 => Value("agents_total", cutoff)' + late.agents
                     <= Value("agents_total", cutoff) + late'.agents
  <2> DEFINE S == {b \in Members : agents[b] \in {"pending", "verified"}}
             T == {b \in Members : agents'[b] \in {"pending", "verified"}}
  <2>1. IsFiniteSet(S)
    BY StatsAssumption, FS_Subset
  <2>2. /\ Value("agents_total", cutoff) = Cardinality(S)
        /\ Value("agents_total", cutoff)' = Cardinality(T)
    BY DEF Value, AgentsIn
  <2>3. CASE CreateAgent(a)
    <3>1. T \subseteq S \union {a}
      BY <2>3 DEF StatsInv, AgentRows, CreateAgent
    <3> HIDE DEF S, T
    <3>2. Cardinality(S) \in Nat /\ Cardinality(T) \in Nat /\ Cardinality(T) <= Cardinality(S) + 1
      BY <2>1, <3>1, CountAdds
    <3> QED BY <1>3, <1>4, <2>2, <2>3, <3>2
  <2>4. CASE VerifyAgent(a)
    <3>1. T = S
      BY <2>4 DEF StatsInv, AgentRows, VerifyAgent
    <3>2. late'.agents = late.agents
      BY <2>4 DEF VerifyAgent
    <3>3. Cardinality(S) \in Nat
      BY <2>1, FS_CardinalityType
    <3> HIDE DEF S, T
    <3> QED BY <1>3, <2>2, <3>1, <3>2, <3>3
  <2> QED BY <2>3, <2>4
<1>9. late.tasks \in Nat /\ Value("tasks", cutoff) \in Nat
  BY <1>3, <1>5, FigureNames
<1> QED BY <1>1, <1>2, <1>3, <1>4, <1>6, <1>7, <1>8, <1>9, OthersKeepCall

\* A task is created.
LEMMA CreateTaskKeeps ==
  ASSUME StatsInv, NEW t \in Tasks, CreateTask(t)
  PROVE  StatsInv'
<1>1. /\ agents' = agents /\ undone' = undone /\ UNCHANGED <<next, cutoff, report, before, now>>
      /\ stale' = stale /\ tasks[t].status = "absent"
      /\ tasks' = [tasks EXCEPT ![t] = [status |-> "open", born |-> now, hops |-> 0, spent |-> 0]]
  BY DEF CreateTask, call
<1>2. TableRows(tasks') /\ LaterTasks(tasks, tasks') /\ KeepsDone(tasks, tasks')
  BY <1>1 DEF StatsInv, CallRows, TableRows, TableRow, LaterTasks, KeepsDone
<1>3. undone \in Nat /\ late \in [agents : Nat, tasks : Nat] /\ AgentRows(agents)
  BY DEF StatsInv, CallRows
<1>4. /\ late' \in [agents : Nat, tasks : Nat] /\ late'.agents = late.agents
      /\ late.tasks <= late'.tasks /\ (next = 4 => late'.tasks = late.tasks + 1)
  BY <1>3 DEF CreateTask
<1>5. LaterAgents(agents, agents')
  BY <1>1, <1>3 DEF LaterAgents
<1>6. \A q \in Figures : /\ Value(q, cutoff) \in Nat /\ Value(q, cutoff)' \in Nat
                         /\ Value(q, cutoff) <= Value(q, cutoff)'
  BY <1>1, <1>2, <1>5, FiguresKeep, FigureType
<1>7. \A q \in Figures : /\ Value(q, cutoff)' \in Nat
                         /\ Value(q, cutoff) + Undone(q) <= Value(q, cutoff)' + Undone(q)'
  BY <1>1, <1>3, <1>6 DEF Undone
<1>8. Value("agents_total", cutoff)' = Value("agents_total", cutoff)
  BY <1>1 DEF Value, AgentsIn
<1>9. next = 4 => Value("tasks", cutoff)' + late.tasks <= Value("tasks", cutoff) + late'.tasks
  <2> DEFINE S == Recent(cutoff)
             T == Recent(cutoff)'
  <2>1. IsFiniteSet(S)
    BY StatsAssumption, FS_Subset DEF Recent
  <2>2. Value("tasks", cutoff) = Cardinality(S) /\ Value("tasks", cutoff)' = Cardinality(T)
    BY DEF Value
  <2>3. T \subseteq S \union {t}
    BY <1>1 DEF Recent, StatsInv, TableRows
  <2> HIDE DEF S, T
  <2>4. Cardinality(S) \in Nat /\ Cardinality(T) \in Nat /\ Cardinality(T) <= Cardinality(S) + 1
    BY <2>1, <2>3, CountAdds
  <2> QED BY <1>3, <1>4, <2>2, <2>4
<1>10. late.agents \in Nat /\ Value("agents_total", cutoff) \in Nat
  BY <1>3, <1>6, FigureNames
<1> QED BY <1>1, <1>2, <1>3, <1>4, <1>7, <1>8, <1>9, <1>10, OthersKeepCall

\* A row is written that keeps its time of creation and loses neither hops nor
\* what was spent: it may fail what had completed, and that is counted.
LEMMA RowKeeps ==
  ASSUME StatsInv, NEW t \in Tasks, NEW row \in TableRow,
         tasks' = [tasks EXCEPT ![t] = row],
         UNCHANGED <<agents, late, next, cutoff, report, before, now>>, stale' \subseteq stale,
         tasks[t].status # "absent", row.status # "absent", row.born = tasks[t].born,
         tasks[t].hops <= row.hops, tasks[t].spent <= row.spent,
         undone' = IF tasks[t].status = "completed" /\ row.status # "completed"
                   THEN undone + 1 ELSE undone
  PROVE  StatsInv'
<1>1. /\ tasks \in [Tasks -> TableRow] /\ AgentRows(agents)
      /\ undone \in Nat /\ late \in [agents : Nat, tasks : Nat]
  BY DEF StatsInv, CallRows, TableRows
<1>2. TableRows(tasks')
  BY <1>1 DEF TableRows
<1>3. LaterTasks(tasks, tasks')
  <2>1. \A u \in Tasks : /\ tasks[u].hops \in Nat /\ tasks[u].spent \in Nat
                         /\ tasks'[u] = IF u = t THEN row ELSE tasks[u]
    BY <1>1 DEF TableRow
  <2> QED BY <2>1 DEF LaterTasks
<1>4. LaterAgents(agents, agents')
  BY <1>1 DEF LaterAgents
<1>5. undone' \in Nat /\ undone <= undone'
  BY <1>1
<1>6. \A q \in Figures \ {"ok"} : Value(q, cutoff)' \in Nat /\ Value(q, cutoff) <= Value(q, cutoff)'
  BY <1>2, <1>3, <1>4, FiguresKeep
<1>7. Value("ok", cutoff)' \in Nat /\ Value("ok", cutoff) + undone <= Value("ok", cutoff)' + undone'
  <2>1. CASE undone' = undone
    <3>1. KeepsDone(tasks, tasks')
      BY <1>1, <2>1 DEF KeepsDone
    <3>2. Value("ok", cutoff)' \in Nat /\ Value("ok", cutoff) <= Value("ok", cutoff)'
      BY <1>2, <1>3, <1>4, <3>1, FiguresKeep, FigureNames
    <3>3. Value("ok", cutoff) \in Nat
      BY FigureType, FigureNames
    <3> QED BY <1>1, <2>1, <3>2, <3>3
  <2>2. CASE undone' # undone
    <3> DEFINE S == {u \in Recent(cutoff) : tasks[u].status = "completed"}
               T == {u \in Recent(cutoff)' : tasks'[u].status = "completed"}
    <3>1. IsFiniteSet(T)
      BY StatsAssumption, FS_Subset DEF Recent
    <3>2. Value("ok", cutoff) = Cardinality(S) /\ Value("ok", cutoff)' = Cardinality(T)
      BY DEF Value
    <3>3. S \subseteq T \union {t}
      BY <1>1 DEF Recent
    <3> HIDE DEF S, T
    <3>4. Cardinality(S) \in Nat /\ Cardinality(T) \in Nat /\ Cardinality(S) <= Cardinality(T) + 1
      BY <3>1, <3>3, CountAdds
    <3>5. undone' = undone + 1
      BY <2>2
    <3> QED BY <1>1, <3>2, <3>4, <3>5
  <2> QED BY <2>1, <2>2
<1>8. \A q \in Figures : /\ Value(q, cutoff)' \in Nat
                         /\ Value(q, cutoff) + Undone(q) <= Value(q, cutoff)' + Undone(q)'
  <2> TAKE q \in Figures
  <2>1. CASE q = "ok"
    BY <1>7, <2>1 DEF Undone
  <2>2. CASE q # "ok"
    <3>1. Value(q, cutoff) \in Nat /\ Value(q, cutoff)' \in Nat /\ Value(q, cutoff) <= Value(q, cutoff)'
      BY <1>6, <2>2, FigureType
    <3>2. Undone(q) = 0 /\ Undone(q)' = 0
      BY <2>2 DEF Undone
    <3> QED BY <3>1, <3>2
  <2> QED BY <2>1, <2>2
<1>9. Value("agents_total", cutoff)' = Value("agents_total", cutoff)
  BY DEF Value, AgentsIn
<1>10. Value("tasks", cutoff)' = Value("tasks", cutoff)
  <2>1. Recent(cutoff)' = Recent(cutoff)
    BY <1>1 DEF Recent
  <2> QED BY <2>1 DEF Value
<1>11. /\ late.agents \in Nat /\ late.tasks \in Nat
       /\ Value("agents_total", cutoff) \in Nat /\ Value("tasks", cutoff) \in Nat
  BY <1>1, FigureType, FigureNames
<1>12. /\ Value("agents_total", cutoff)' + late.agents <= Value("agents_total", cutoff) + late'.agents
       /\ Value("tasks", cutoff)' + late.tasks <= Value("tasks", cutoff) + late'.tasks
       /\ late.agents <= late'.agents /\ late.tasks <= late'.tasks
       /\ late' \in [agents : Nat, tasks : Nat] /\ AgentRows(agents')
  BY <1>1, <1>9, <1>10, <1>11
<1> QED BY <1>2, <1>3, <1>5, <1>8, <1>12, OthersKeepCall

\* A request writes its task.
LEMMA UpdateTaskKeeps ==
  ASSUME StatsInv, NEW t \in Tasks, UpdateTask(t)
  PROVE  StatsInv'
<1>1. tasks \in [Tasks -> TableRow]
  BY DEF StatsInv, TableRows
<1>2. PICK s \in {"open", "completed", "failed"}, h \in tasks[t].hops..MaxHops :
         tasks' = [tasks EXCEPT ![t] = [status |-> s, born |-> @.born, hops |-> h,
                                        spent |-> IF s = "completed" THEN 1 ELSE 0]]
  BY DEF UpdateTask
<1> DEFINE row == [status |-> s, born |-> tasks[t].born, hops |-> h,
                   spent |-> IF s = "completed" THEN 1 ELSE 0]
<1>3. tasks' = [tasks EXCEPT ![t] = row]
  BY <1>1, <1>2
<1>4. row \in TableRow /\ tasks[t].hops <= row.hops
  BY <1>1, StatsAssumption DEF TableRow
<1>5. tasks[t].status \in {"open", "failed"} /\ tasks[t].spent <= row.spent
  BY DEF UpdateTask
<1>6. UNCHANGED <<agents, late, stale, undone, next, cutoff, report, before, now>>
  BY DEF UpdateTask, call
<1>7. row.status # "absent" /\ row.born = tasks[t].born
  OBVIOUS
<1> HIDE DEF row
<1> QED BY <1>3, <1>4, <1>5, <1>6, <1>7, RowKeeps

\* A sweep fails a task it has selected, completed or not.
LEMMA FailStaleKeeps ==
  ASSUME StatsInv, NEW t \in Tasks, FailStale(t)
  PROVE  StatsInv'
<1>1. tasks \in [Tasks -> TableRow] /\ tasks[t].status # "absent"
  BY DEF StatsInv, TableRows, StaleInv, FailStale
<1> DEFINE row == [tasks[t] EXCEPT !.status = "failed"]
<1>2. tasks' = [tasks EXCEPT ![t] = row] /\ row \in TableRow
  BY <1>1 DEF FailStale, TableRow
<1>3. /\ row.status = "failed" /\ row.born = tasks[t].born
      /\ tasks[t].hops <= row.hops /\ tasks[t].spent <= row.spent
  BY <1>1 DEF TableRow
<1>4. /\ UNCHANGED <<agents, late, next, cutoff, report, before, now>> /\ stale' \subseteq stale
      /\ undone' = IF tasks[t].status = "completed" THEN undone + 1 ELSE undone
  BY DEF FailStale, call
<1> HIDE DEF row
<1> QED BY <1>1, <1>2, <1>3, <1>4, RowKeeps

\* Every figure of the answer to /v1/stats was true at some moment of the
\* call, but for completed tasks that a sweep failed meanwhile, and a part
\* exceeds its whole by what came between their queries at most: however many
\* agents and tasks there are and whatever other processes write.
THEOREM FiguresStayBracketed == StatsSpec => []FiguresBracketed
<1>1. StatsInv /\ [StatsNext]_statsVars => StatsInv'
  BY BeginKeeps, QueryKeeps, RestKeeps, AgentKeeps, CreateTaskKeeps, UpdateTaskKeeps,
     FailStaleKeeps DEF StatsNext
<1>2. StatsInv => FiguresBracketed
  <2> SUFFICES ASSUME StatsInv, next = 7 PROVE FiguresBracketed
    BY DEF FiguresBracketed
  <2>1. ASSUME NEW q \in Figures
        PROVE  before[q] <= report[q] + Undone(q) /\ report[q] <= Value(q, cutoff) + Undone(q)
    <3>1. PICK n \in 1..6 : q = Queries[n]
      BY DEF Figures
    <3> QED BY <3>1 DEF StatsInv, CallInv
  <2> QED BY <2>1 DEF FiguresBracketed, StatsInv, LateInv
<1> QED BY StatsInitInv, <1>1, <1>2, PTL DEF StatsSpec
=============================================================================
