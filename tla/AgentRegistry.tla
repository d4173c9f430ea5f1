--------------------------- MODULE AgentRegistry ---------------------------
(***************************************************************************)
(* POST /v1/agents and PATCH /v1/agents/{id}/wallet.  A registration waits *)
(* for a name server; then it inserts the agent, announces it, verifies    *)
(* it, promotes it, reads it back and announces that, each a statement of  *)
(* its own, with the event loop held.  Another process on the same         *)
(* database, a failing statement and a crash come in between.  A client    *)
(* that hears nothing registers again: every request makes a new agent.    *)
(***************************************************************************)
EXTENDS Integers

CONSTANTS
    Procs,      \* processes on one database
    Requests,   \* POST /v1/agents; a request stands for the id it draws
    Facts,      \* what the verification may find in a request
    Wallets,    \* addresses
    NoWallet,   \* the empty string
    Crypto,     \* AIFACTORY_CRYPTO_ENABLED
    MaxBinds, MaxFaults, MaxCrashes

Fields == {"evm_address", "solana_pubkey"}
WalletPairs == [Fields -> Wallets \union {NoWallet}]
AllFacts == [name : BOOLEAN, key : BOOLEAN, capabilities : BOOLEAN,
             attestation : {"missing", "invalid", "valid"}]

ASSUME RegistryAssumption ==
    /\ NoWallet \notin Wallets /\ Facts \subseteq AllFacts /\ Crypto \in BOOLEAN
    /\ MaxBinds \in Nat /\ MaxFaults \in Nat /\ MaxCrashes \in Nat

VARIABLES
    pc,         \* where each request is
    home,       \* the process that has it
    facts,      \* what it says
    asked,      \* the wallets last asked for, by registration or binding
    rows,       \* the table of agents
    feed,       \* the events, with the agent
    passed,     \* requests whose verification succeeded
    answer,     \* "none", "refused", "pending", "verified" or "error"
    binds, faults, crashes

vars == <<pc, home, facts, asked, rows, feed, passed, answer, binds, faults, crashes>>
request == <<home, facts>>
bounds == <<binds, crashes>>

Absent == [status |-> "absent", trust |-> 0, wallet |-> [f \in Fields |-> NoWallet]]

Init ==
    /\ pc = [r \in Requests |-> "unsent"]
    /\ home \in [Requests -> Procs] /\ facts \in [Requests -> Facts]
    /\ asked = [r \in Requests |-> Absent.wallet]
    /\ rows = [r \in Requests |-> Absent]
    /\ feed = {} /\ passed = {}
    /\ answer = [r \in Requests |-> "none"]
    /\ binds = 0 /\ faults = 0 /\ crashes = 0

\* The steps after the await, which hold the event loop.
Held == {"announce", "verify", "promote", "read", "tell"}
LoopFree(p) == \A r \in Requests : home[r] = p => pc[r] \notin Held

Finish(r, a) ==
    /\ pc' = [pc EXCEPT ![r] = "done"]
    /\ answer' = [answer EXCEPT ![r] = a]

\* Variant: an event that cannot be written is passed over.
StatementOrPass(r, t, f, next) ==
    /\ \/ rows' = t /\ feed' = f /\ UNCHANGED faults
       \/ faults < MaxFaults /\ faults' = faults + 1 /\ UNCHANGED <<rows, feed>>
    /\ pc' = [pc EXCEPT ![r] = next]
    /\ UNCHANGED answer

(***************************************************************************)
(* A statement of request r makes the table t and the feed f, and the      *)
(* request goes on; or it raises, applied or not, and the client gets 500. *)
(***************************************************************************)
Statement(r, t, f, next) ==
    \/ /\ rows' = t /\ feed' = f
       /\ pc' = [pc EXCEPT ![r] = next]
       /\ UNCHANGED <<answer, faults>>
    \/ /\ faults < MaxFaults /\ faults' = faults + 1
       /\ \/ rows' = t /\ feed' = f
          \/ UNCHANGED <<rows, feed>>
       /\ Finish(r, "error")

Emit(r, kind, next) == Statement(r, rows, feed \union {<<kind, r>>}, next)

\* Crypto off: incoming wallets are dropped.
Persisted(w) == IF Crypto THEN w ELSE Absent.wallet

\* The client registers, again if it likes.
Send(r) ==
    /\ pc[r] = "unsent"
    /\ pc' = [pc EXCEPT ![r] = "check"]
    /\ UNCHANGED <<request, asked, rows, feed, passed, answer, faults, bounds>>

\* await url_is_safe_async
Check(r, safe) ==
    /\ pc[r] = "check"
    /\ IF safe THEN pc' = [pc EXCEPT ![r] = "insert"] /\ UNCHANGED answer ELSE Finish(r, "refused")
    /\ UNCHANGED <<request, asked, rows, feed, passed, faults, bounds>>

\* MeshStore.register_agent: the row ...
Insert(r, w) ==
    /\ pc[r] = "insert" /\ LoopFree(home[r])
    /\ asked' = [asked EXCEPT ![r] = Persisted(w)]
    /\ Statement(r, [rows EXCEPT ![r] = [status |-> "pending", trust |-> 50, wallet |-> Persisted(w)]],
                 feed, "announce")
    /\ UNCHANGED <<request, passed, bounds>>

\* ... and its event.
Announce(r) ==
    /\ pc[r] = "announce"
    /\ Emit(r, "agent_registered", "verify")
    /\ UNCHANGED <<request, asked, passed, bounds>>

(***************************************************************************)
(* verify_agent_registration.  The endpoint is looked up once more; a bad  *)
(* name and bad capabilities cost trust and do not block.                  *)
(***************************************************************************)
Signed(f) == f.key /\ f.attestation = "valid"

\* Variant: what is missing does not block.
PassesUnsigned(f, safe) == safe /\ f.key /\ f.attestation # "invalid"

Passes(f, safe) == safe /\ Signed(f)

Trust(f, safe) ==
    (IF f.name THEN 15 ELSE 0) + (IF safe THEN 25 ELSE 0) + (IF f.key THEN 25 ELSE 0)
    + (IF f.capabilities THEN 15 ELSE 0) + (IF Signed(f) THEN 20 ELSE 0)

\* Variant: the answer does not wait for the promotion.
VerifyInBackground(r, safe) ==
    /\ pc[r] = "verify"
    /\ IF Passes(facts[r], safe)
       THEN /\ pc' = [pc EXCEPT ![r] = "promote"] /\ passed' = passed \union {r}
            /\ answer' = [answer EXCEPT ![r] = "pending"]
       ELSE Finish(r, "pending") /\ UNCHANGED passed
    /\ UNCHANGED <<request, asked, rows, feed, faults, bounds>>

Verify(r, safe) ==
    /\ pc[r] = "verify"
    /\ IF Passes(facts[r], safe)
       THEN pc' = [pc EXCEPT ![r] = "promote"] /\ passed' = passed \union {r} /\ UNCHANGED answer
       ELSE Finish(r, "pending") /\ UNCHANGED passed
    /\ UNCHANGED <<request, asked, rows, feed, faults, bounds>>

\* Variant: the whole agent is written back as it was registered.
PromotedWhole(r) ==
    [status |-> "verified", trust |-> Trust(facts[r], TRUE), wallet |-> Absent.wallet]

\* MeshStore.verify_agent: UPDATE of the status, the trust and the time.
Promoted(r) == [rows[r] EXCEPT !.status = "verified", !.trust = Trust(facts[r], TRUE)]

Promote(r) ==
    /\ pc[r] = "promote"
    /\ Statement(r, [rows EXCEPT ![r] = Promoted(r)], feed, "read")
    /\ UNCHANGED <<request, asked, passed, bounds>>

\* The row is read back: it is there, no agent is ever deleted.
Read(r) ==
    /\ pc[r] = "read"
    /\ Statement(r, rows, feed, "tell")
    /\ UNCHANGED <<request, asked, passed, bounds>>

\* The second event, and the answer 201.
Tell(r) ==
    /\ pc[r] = "tell"
    /\ Emit(r, "agent_verified", "answer")
    /\ UNCHANGED <<request, asked, passed, bounds>>

Answer(r) ==
    /\ pc[r] = "answer"
    /\ Finish(r, rows[r].status)
    /\ UNCHANGED <<request, asked, rows, feed, passed, faults, bounds>>

\* PATCH wallet, by the process p: an UPDATE of the fields that are given.
Bind(p, r, w) ==
    /\ Crypto /\ LoopFree(p) /\ binds < MaxBinds
    /\ rows[r].status # "absent" /\ w # Absent.wallet
    /\ LET Given(old) == [f \in Fields |-> IF w[f] # NoWallet THEN w[f] ELSE old[f]]
       IN  /\ rows' = [rows EXCEPT ![r].wallet = Given(@)]
           /\ asked' = [asked EXCEPT ![r] = Given(@)]
    /\ binds' = binds + 1
    /\ UNCHANGED <<pc, request, feed, passed, answer, faults, crashes>>

\* A process dies with its requests and starts again.
Crash(p) ==
    /\ crashes < MaxCrashes
    /\ crashes' = crashes + 1
    /\ pc' = [r \in Requests |->
                IF home[r] = p /\ pc[r] # "unsent" THEN "done" ELSE pc[r]]
    /\ UNCHANGED <<request, asked, rows, feed, passed, answer, binds, faults>>

Handle(r) ==
    \/ \E safe \in BOOLEAN : Check(r, safe) \/ Verify(r, safe)
    \/ \E w \in WalletPairs : Insert(r, w)
    \/ Announce(r) \/ Promote(r) \/ Read(r) \/ Tell(r) \/ Answer(r)

Next ==
    \/ \E r \in Requests : Send(r) \/ Handle(r)
    \/ \E p \in Procs, r \in Requests, w \in WalletPairs : Bind(p, r, w)
    \/ \E p \in Procs : Crash(p)

Spec == Init /\ [][Next]_vars

----------------------------------------------------------------------------
(* Properties                                                              *)

TypeOK ==
    /\ pc \in [Requests -> {"unsent", "check", "insert", "answer", "done"} \union Held]
    /\ home \in [Requests -> Procs] /\ facts \in [Requests -> Facts]
    /\ asked \in [Requests -> WalletPairs]
    /\ rows \in [Requests -> [status : {"absent", "pending", "verified"},
                              trust : 0..100, wallet : WalletPairs]]
    /\ feed \subseteq {"agent_registered", "agent_verified"} \X Requests
    /\ passed \subseteq Requests
    /\ answer \in [Requests -> {"none", "refused", "pending", "verified", "error"}]
    /\ binds \in 0..MaxBinds /\ faults \in 0..MaxFaults /\ crashes \in 0..MaxCrashes

\* A verified agent signed its registration with a key that loads, and its
\* endpoint was safe twice; its trust is what it earned, at least 70.  An
\* agent that is not verified has the trust it was inserted with.
VerifiedIsEarned ==
    \A r \in Requests :
        /\ rows[r].status = "verified" =>
            /\ r \in passed /\ facts[r].key /\ facts[r].attestation = "valid"
            /\ rows[r].trust = Trust(facts[r], TRUE) /\ rows[r].trust >= 70
        /\ rows[r].status = "pending" => rows[r].trust = 50

\* Whatever requests, promotions and crashes interleave on the processes, an
\* agent has the wallets that were last asked for; with crypto off, none.
WalletsAsAsked ==
    \A r \in Requests :
        /\ rows[r].status # "absent" => rows[r].wallet = asked[r]
        /\ ~Crypto => rows[r].wallet = Absent.wallet

\* The feed tells no promotion of an agent it did not introduce, and none
\* that is not in the table.
FeedIsTrue ==
    \A r \in Requests :
        /\ <<"agent_registered", r>> \in feed => rows[r].status # "absent"
        /\ <<"agent_verified", r>> \in feed =>
            <<"agent_registered", r>> \in feed /\ rows[r].status = "verified"

\* An answer 201 is true and stays true: nobody is promoted or demoted after
\* the client was told.
AnswerStays ==
    \A r \in Requests :
        answer[r] \in {"pending", "verified"} => rows[r].status = answer[r]
=============================================================================
