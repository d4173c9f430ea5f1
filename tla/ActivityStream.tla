--------------------------- MODULE ActivityStream ---------------------------
(***************************************************************************)
(* The activity table and one connection to /v1/activity/stream: emit,     *)
(* list_activity and the generator of api.py.                              *)
(*                                                                         *)
(* An event is its position in the table; table[e] is the second it was    *)
(* stamped with.  emit contains no await, so a stamp of the process that   *)
(* streams is in the table before the next poll; another process on the    *)
(* same database may be slow between its stamp and its INSERT.             *)
(***************************************************************************)
EXTENDS Integers, SequencesExt

CONSTANTS
    Others,     \* the other processes that write to the table
    Limit,      \* events per poll (50)
    MaxEvents,  \* bound of the table
    MaxSecond   \* bound of the clock

ASSUME FeedAssumption == Limit \in Nat \ {0} /\ {MaxEvents, MaxSecond} \subseteq Nat

None == -1

VARIABLES
    second,     \* the clock, as utc_now_iso() rounds it
    table,      \* the stamps, in the order of the INSERTs
    stamped,    \* per other process, the stamp it is about to insert
    open,       \* is the connection open?
    sent,       \* what it has sent; last_id is the last of it
    batch,      \* what is left of the answer to the last poll
    base        \* size of the table at the last poll without a last_id

feedVars == <<second, table, stamped>>
streamVars == <<open, sent, batch, base>>
vars == <<feedVars, streamVars>>

Events == DOMAIN table

(***************************************************************************)
(* list_activity.  ORDER BY timestamp leaves the order of equal stamps     *)
(* open, and with it which of them a LIMIT cuts off.                       *)
(***************************************************************************)
InOrder(q) == \A i, j \in DOMAIN q : i < j => table[q[i]] <= table[q[j]]

\* The sequences of n events of S, or of all of S if there are fewer.
Rows(S, n) ==
    LET size == IF Cardinality(S) < n THEN Cardinality(S) ELSE n
    IN  {q \in [1 .. size -> S] : IsInjective(q) /\ InOrder(q)}

\* ... ASC LIMIT n
Oldest(S, n) ==
    {q \in Rows(S, n) : \A e \in S \ Range(q), f \in Range(q) : table[f] <= table[e]}

\* ... DESC LIMIT n, reversed
Newest(S, n) ==
    {q \in Rows(S, n) : \A e \in S \ Range(q), f \in Range(q) : table[e] <= table[f]}

\* Variant: timestamp >= ?
SinceOrAt(since) == {e \in Events : table[e] >= table[since]}

Since(since) == {e \in Events : table[e] > table[since]}

\* Variant: the newest rows after the cursor.
ListNewest(limit, since) ==
    Newest(IF since = None THEN Events ELSE Since(since), limit)

ListActivity(limit, since) ==
    IF since = None THEN Newest(Events, limit) ELSE Oldest(Since(since), limit)

(***************************************************************************)
(* The writers                                                             *)
(***************************************************************************)
Tick ==
    /\ second < MaxSecond
    /\ second' = second + 1
    /\ UNCHANGED <<table, stamped, streamVars>>

Emit ==
    /\ Len(table) < MaxEvents
    /\ table' = Append(table, second)
    /\ UNCHANGED <<second, stamped, streamVars>>

Stamp(p) ==
    /\ stamped[p] = None
    /\ stamped' = [stamped EXCEPT ![p] = second]
    /\ UNCHANGED <<second, table, streamVars>>

Insert(p) ==
    /\ stamped[p] # None
    /\ Len(table) < MaxEvents
    /\ table' = Append(table, stamped[p])
    /\ stamped' = [stamped EXCEPT ![p] = None]
    /\ UNCHANGED <<second, streamVars>>

(***************************************************************************)
(* The generator                                                           *)
(***************************************************************************)
LastId == IF sent = << >> THEN None ELSE Last(sent)

Open ==
    /\ ~open
    /\ open' = TRUE
    /\ sent' = << >> /\ batch' = << >> /\ base' = 0
    /\ UNCHANGED feedVars

Poll ==
    /\ open /\ batch = << >>
    /\ batch' \in ListActivity(Limit, LastId)
    /\ base' = IF LastId = None THEN Len(table) ELSE base
    /\ UNCHANGED <<feedVars, open, sent>>

\* last_id = ev.id and the yield; others run before the next one.
Yield ==
    /\ open /\ batch # << >>
    /\ sent' = Append(sent, Head(batch))
    /\ batch' = Tail(batch)
    /\ UNCHANGED <<feedVars, open, base>>

\* The client or the network goes away: is_disconnected, or a cancelled yield.
Close ==
    /\ open
    /\ open' = FALSE
    /\ UNCHANGED <<feedVars, sent, batch, base>>

Init ==
    /\ second = 0 /\ table = << >> /\ stamped = [p \in Others |-> None]
    /\ open = FALSE /\ sent = << >> /\ batch = << >> /\ base = 0

Write == Tick \/ Emit \/ \E p \in Others : Stamp(p) \/ Insert(p)
Serve == Poll \/ Yield
Next == Write \/ Serve \/ Open \/ Close

Spec == Init /\ [][Next]_vars

(***************************************************************************)
(* Properties                                                              *)
(***************************************************************************)
TypeOK ==
    /\ second \in Nat
    /\ table \in Seq(Nat)
    /\ stamped \in [Others -> Nat \union {None}]
    /\ open \in BOOLEAN
    /\ sent \in Seq(Events) /\ batch \in Seq(Events)
    /\ base \in 0 .. Len(table)

\* What is sent and about to be sent has no event twice and is in the order
\* of the stamps; the rest of a batch is beyond everything sent.
StreamInv ==
    /\ TypeOK
    /\ IsInjective(sent) /\ InOrder(sent)
    /\ IsInjective(batch) /\ InOrder(batch)
    /\ \A i \in DOMAIN sent, j \in DOMAIN batch :
          sent[i] # batch[j] /\ table[sent[i]] <= table[batch[j]]

\* One connection sends no event twice, whatever is written between its polls
\* and its yields.
SentOnce == IsInjective(sent)

\* One connection sends events in the order of their stamps.
SentInOrder == InOrder(sent)

\* An event that came after the first batch and that no later poll can reach:
\* the cursor, once what is left of the batch is sent, has passed its stamp.
Skipped(e) ==
    LET all == sent \o batch
    IN  /\ all # << >> /\ e > base
        /\ e \notin Range(all)
        /\ table[e] <= table[Last(all)]

\* No second is lost altogether: an event is skipped only for another of the
\* same second that is sent, or because its process inserted it after events
\* with a later stamp.
OnlyTiesSkipped ==
    \A e \in Events : Skipped(e) =>
        \/ \E f \in Range(sent \o batch) : table[f] = table[e]
        \/ \E f \in Events : f < e /\ table[f] > table[e]
=============================================================================
