---------------------------- MODULE InvokeClient ----------------------------
(***************************************************************************)
(* One outgoing call of invoke.py: a preflight or an invocation, of an     *)
(* agent or through the hub.  TaskPipeline knows such a call by its        *)
(* outcome; here is how pin_target, _send_capped and the reading of the    *)
(* reply arrive at it.  The answering side is free: it may declare what it *)
(* likes, send what it likes, stop in the middle or never stop.            *)
(***************************************************************************)
EXTENDS Integers, FiniteSets

CONSTANTS
    Addresses,  \* what a name may resolve to
    Blocked,    \* those in private or reserved networks
    MaxBytes,   \* the cap of the body
    Chunk,      \* what aiter_bytes yields at most (16384)
    RejectDemo  \* MESH_REJECT_DEMO_OUTPUT

ASSUME ClientAssumption ==
    /\ Blocked \subseteq Addresses
    /\ MaxBytes \in Nat /\ Chunk \in Nat \ {0}
    /\ RejectDemo \in BOOLEAN

Calls == {"preflight_hub", "preflight_agent", "invoke_via_hub", "invoke_direct"}
ToHub == {"preflight_hub", "invoke_via_hub"}
Preflights == {"preflight_hub", "preflight_agent"}

\* Content-Length: absent, a number, or a text that is no number of bytes.
Absent == -2
Invalid == -1
Declarations == {Absent, Invalid, 0, MaxBytes, MaxBytes + 1}

(***************************************************************************)
(* What a reply says, as far as the code looks: is it a JSON object; does  *)
(* it say success: false; where is a demo marker, if any ("elsewhere": in  *)
(* no field that is searched); is an error told by a field that is a text. *)
(***************************************************************************)
Contents ==
    [object : {TRUE}, denied : BOOLEAN,
     marker : {"none", "output", "raw", "elsewhere"}, told : BOOLEAN]
    \union
    [object : {FALSE}, denied : {FALSE}, marker : {"none", "raw", "elsewhere"}, told : {TRUE}]

VARIABLES
    call,       \* which function was called
    pc,         \* where it is
    names,      \* what the name of the agent resolves to at the moment
    target,     \* the addresses the request may connect to
    reply,      \* status and declared length of the reply
    buffered,   \* bytes of the body read
    open,       \* is there a response to be closed?
    then,       \* where the finally of _send_capped leads
    content,    \* what the body says, once it is read
    outcome     \* "accepted", "refused" or "raised"

callVars == <<call, pc, names, target, reply, buffered, open, then, content, outcome>>
rest == <<call, names, target, reply, buffered, open, then, content>>

Finish(o) == pc' = "done" /\ outcome' = o

\* DNS changes whenever it likes.
Flip ==
    /\ pc # "done"
    /\ names' \in SUBSET Addresses
    /\ UNCHANGED <<call, pc, target, reply, buffered, open, then, content, outcome>>

Safe == names \intersect Blocked = {}

\* _url_is_safe_sync, which resolves the name a first time.  A name without
\* an address raises gaierror and is not safe.
Judge ==
    /\ pc = "judge"
    /\ IF Safe /\ names # {} THEN pc' = "pin" /\ UNCHANGED outcome ELSE Finish("refused")
    /\ UNCHANGED rest

\* Variant: the name that was judged is resolved again when connecting.
PinByName ==
    /\ pc = "pin"
    /\ pc' = "send" /\ target' = names
    /\ UNCHANGED <<call, names, reply, buffered, open, then, content, outcome>>

\* pin_target resolves it a second time and judges what it connects to.
Pin ==
    /\ pc = "pin"
    /\ IF Safe /\ names # {}
       THEN /\ pc' = "send" /\ UNCHANGED outcome
            /\ \E a \in names : target' = {a}
       ELSE Finish("refused") /\ UNCHANGED target
    /\ UNCHANGED <<call, names, reply, buffered, open, then, content>>

Send ==
    /\ pc = "send"
    /\ pc' = "headers" /\ open' = TRUE
    /\ reply' \in [status : {200, 503}, declared : Declarations]
    /\ UNCHANGED <<call, names, target, buffered, then, content, outcome>>

\* A transport error is refused; anything else (a cancelled request) leaves
\* the function as an exception.
SendFails ==
    /\ pc = "send"
    /\ \E o \in {"refused", "raised"} : Finish(o)
    /\ UNCHANGED rest

Leave(to) == pc' = "finally" /\ then' = to

Headers ==
    /\ pc = "headers"
    /\ IF reply.declared = Invalid \/ reply.declared > MaxBytes
       THEN Leave("refused") ELSE pc' = "read" /\ UNCHANGED then
    /\ UNCHANGED <<call, names, target, reply, buffered, open, content, outcome>>

\* Variant: only the declared length is looked at.
ReadUnbounded ==
    /\ pc = "read"
    /\ \E n \in 1 .. Chunk : buffered' = buffered + n
    /\ UNCHANGED <<call, pc, names, target, reply, open, then, content, outcome>>

\* Variant: beyond the cap only the newest bytes are kept, and reading goes on.
ReadRolling ==
    /\ pc = "read"
    /\ \E n \in 1 .. Chunk :
          buffered' = IF buffered + n > MaxBytes THEN n ELSE buffered + n
    /\ UNCHANGED <<call, pc, names, target, reply, open, then, content, outcome>>

\* The chunk is appended, and then the length is compared.
Read ==
    /\ pc = "read"
    /\ \E n \in 1 .. Chunk : buffered' = buffered + n
    /\ IF buffered' > MaxBytes THEN Leave("refused") ELSE UNCHANGED <<pc, then>>
    /\ UNCHANGED <<call, names, target, reply, open, content, outcome>>

EndOfBody ==
    /\ pc = "read"
    /\ content' \in Contents
    /\ Leave("decode")
    /\ UNCHANGED <<call, names, target, reply, buffered, open, outcome>>

ReadFails ==
    /\ pc = "read"
    /\ \E o \in {"refused", "raised"} : Leave(o)
    /\ UNCHANGED <<call, names, target, reply, buffered, open, content, outcome>>

\* await resp.aclose()
Finally ==
    /\ pc = "finally"
    /\ open' = FALSE
    /\ IF then = "decode" THEN pc' = "decode" /\ UNCHANGED outcome ELSE Finish(then)
    /\ UNCHANGED <<call, names, target, reply, buffered, then, content>>

\* response_is_demo_marked: the output and the raw text are searched.
DemoMarked(c) == c.marker \in {"output", "raw"}

\* Variant: the status is all that counts.
VerdictByStatus(k, r, c) == IF r.status = 200 THEN "accepted" ELSE "refused"

Verdict(k, r, c) ==
    LET good == r.status = 200 /\ (k = "invoke_via_hub" => ~c.denied)
    IN  IF k \in Preflights
        THEN IF r.status = 200 THEN "accepted" ELSE "refused"
        ELSE IF good
             THEN IF RejectDemo /\ DemoMarked(c) THEN "refused" ELSE "accepted"
             \* data.get("raw", "")[:120] of a raw that is no text
             ELSE IF k = "invoke_via_hub" /\ ~c.told THEN "raised" ELSE "refused"

Decode ==
    /\ pc = "decode"
    /\ Finish(Verdict(call, reply, content))
    /\ UNCHANGED rest

CallInit ==
    /\ call \in Calls
    /\ pc = IF call \in ToHub THEN "send" ELSE "judge"
    /\ names \in SUBSET Addresses
    /\ target = {}
    /\ reply = [status |-> 0, declared |-> Absent]
    /\ buffered = 0 /\ open = FALSE
    /\ then = "decode" /\ outcome = "none"
    /\ content = CHOOSE c \in Contents : TRUE

Step ==
    \/ Judge \/ Pin \/ Send \/ SendFails \/ Headers
    \/ Read \/ EndOfBody \/ ReadFails \/ Finally \/ Decode

CallNext == Step \/ Flip

CallSpec == CallInit /\ [][CallNext]_callVars

(***************************************************************************)
(* Properties                                                              *)
(***************************************************************************)
CallTypeOK ==
    /\ call \in Calls /\ names \subseteq Addresses /\ target \subseteq Addresses
    /\ pc \in {"judge", "pin", "send", "headers", "read", "finally", "decode", "done"}
    /\ reply \in [status : {0, 200, 503}, declared : Declarations]
    /\ buffered \in Nat /\ open \in BOOLEAN
    /\ then \in {"decode", "refused", "raised"}
    /\ content \in Contents
    /\ outcome \in {"none", "accepted", "refused", "raised"}

\* What a call may hold of a reply, whatever its headers say and however long
\* it goes on; what it goes on to decode is within the cap.
BufferBounded ==
    /\ buffered <= MaxBytes + Chunk
    /\ pc = "decode" => buffered <= MaxBytes

\* A call connects to an address that was judged, although the name may have
\* moved between the two resolutions and after them.
PinnedIsJudged ==
    call \notin ToHub /\ pc \in {"send", "headers", "read"} =>
        Cardinality(target) = 1 /\ target \intersect Blocked = {}

\* An accepted reply had status 200, was read to its end and within the cap,
\* is not a denial of the hub, and has no marker where one is looked for.
AcceptedIsReal ==
    outcome = "accepted" =>
        /\ reply.status = 200 /\ then = "decode" /\ buffered <= MaxBytes
        /\ call = "invoke_via_hub" => ~content.denied
        /\ call \notin Preflights /\ RejectDemo => ~DemoMarked(content)

\* However a call ends, it leaves no response open.
LeavesNothingOpen == pc = "done" => ~open

\* The inductive invariant: what is known of the body, of the response and of
\* the outcome at each point of the call.
ClientInv ==
    /\ CallTypeOK
    /\ BufferBounded /\ PinnedIsJudged /\ AcceptedIsReal /\ LeavesNothingOpen
    /\ pc # "finally" => (open <=> pc \in {"headers", "read"})
    /\ pc \in {"judge", "pin", "send", "headers"} => buffered = 0
    /\ pc = "read" \/ then = "decode" => buffered <= MaxBytes
    /\ pc = "decode" => then = "decode"
    /\ pc # "done" => outcome = "none"

\* A call ends even if the body does not.
CallEnds == <>(pc = "done")
=============================================================================
