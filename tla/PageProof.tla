----------------------------- MODULE PageProof -----------------------------
(***************************************************************************)
(* A connection sends every event at most once, and in the order of the    *)
(* stamps, for every number of writing processes and every limit; and the  *)
(* list of a page shows none twice, for every size of the list and of the  *)
(* poll and however often the connection breaks.                           *)
(***************************************************************************)
EXTENDS Dashboard, FiniteSetTheorems, TLAPS

\* An entry of a sequence is of the type of its entries.
LEMMA ElementOf ==
    ASSUME NEW S, NEW q \in Seq(S), NEW i \in DOMAIN q
    PROVE  q[i] \in S
OBVIOUS

\* What the types say of the events that the two sequences name.
LEMMA Types ==
    ASSUME TypeOK
    PROVE  /\ Len(table) \in Nat /\ Events = 1 .. Len(table)
           /\ \A e \in Events : table[e] \in Nat
           /\ Len(sent) \in Nat /\ DOMAIN sent = 1 .. Len(sent)
           /\ \A i \in DOMAIN sent : sent[i] \in Events
           /\ \A i \in DOMAIN batch : batch[i] \in Events
<1>1. table \in Seq(Nat) /\ sent \in Seq(Events) /\ batch \in Seq(Events)
  BY DEF TypeOK
<1>2. /\ \A e \in Events : table[e] \in Nat
      /\ \A i \in DOMAIN sent : sent[i] \in Events
      /\ \A i \in DOMAIN batch : batch[i] \in Events
  BY <1>1, ElementOf, Zenon DEF Events
<1>3. Len(table) \in Nat /\ Events = 1 .. Len(table)
  BY <1>1 DEF Events
<1>4. Len(sent) \in Nat /\ DOMAIN sent = 1 .. Len(sent)
  BY <1>1
<1> QED
  BY <1>2, <1>3, <1>4

\* The rows of a query are different events of its set, in order.
LEMMA RowsAreOrdered ==
    ASSUME TypeOK, NEW S \in SUBSET Events, NEW n \in Nat, NEW q \in Rows(S, n)
    PROVE  /\ q \in Seq(S) /\ Len(q) <= n
           /\ IsInjective(q)
           /\ InOrder(q)
<1>1. IsFiniteSet(S)
  <2>1. IsFiniteSet(1 .. Len(table))
    BY Types, FS_Interval
  <2> QED
    BY <2>1, Types, FS_Subset
<1>2. Cardinality(S) \in Nat
  BY <1>1, FS_CardinalityType
<1>3. PICK size \in Nat : q \in [1 .. size -> S] /\ size <= n
  BY <1>2 DEF Rows
<1>4. q \in Seq(S) /\ Len(q) = size
  BY <1>3
<1> QED
  BY <1>3, <1>4 DEF Rows

\* The invariant at the start and after each kind of step.
LEMMA InitKeeps == Init => StreamInv
<1> SUFFICES ASSUME Init PROVE StreamInv
  OBVIOUS
<1>1. TypeOK
  <2>1. << >> \in Seq(Nat) /\ << >> \in Seq(DOMAIN << >>) /\ Len(<< >>) = 0
    OBVIOUS
  <2> QED
    <3>1. sent = << >> /\ batch = << >> /\ table = << >> /\ base = 0
      BY DEF Init
    <3>2. second \in Nat /\ stamped \in [Others -> Nat \union {None}] /\ open \in BOOLEAN
      BY DEF Init
    <3>3. sent \in Seq(Events) /\ batch \in Seq(Events)
      BY <2>1, <3>1 DEF Events
    <3>4. base \in 0 .. Len(table)
      BY <2>1, <3>1
    <3> QED
      BY <2>1, <3>1, <3>2, <3>3, <3>4 DEF TypeOK
<1> QED
  BY <1>1 DEF Init, StreamInv, IsInjective, InOrder

\* A new row leaves the stamps of the others as they are.
LEMMA AppendKeeps ==
    ASSUME StreamInv, NEW x \in Nat, table' = Append(table, x),
           second' = second, stamped' \in [Others -> Nat \union {None}],
           UNCHANGED streamVars
    PROVE  StreamInv'
<1>1. TypeOK
  BY DEF StreamInv
<1>2. /\ Events \subseteq Events'
      /\ \A e \in Events : table'[e] = table[e]
      /\ Len(table') = Len(table) + 1
      /\ table' \in Seq(Nat)
  BY <1>1, Types DEF Events, TypeOK
<1>3. TypeOK'
  <2>1. sent' \in Seq(Events') /\ batch' \in Seq(Events')
    BY <1>1, <1>2 DEF TypeOK, streamVars
  <2>2. base' \in 0 .. Len(table')
    BY <1>1, <1>2, Types DEF TypeOK, streamVars
  <2> QED
    BY <1>1, <1>2, <2>1, <2>2 DEF TypeOK, streamVars
<1>4. /\ \A i \in DOMAIN sent : table'[sent[i]] = table[sent[i]]
      /\ \A i \in DOMAIN batch : table'[batch[i]] = table[batch[i]]
  BY <1>1, <1>2, Types
<1>5. sent' = sent /\ batch' = batch
  BY DEF streamVars
<1>6. InOrder(sent)' /\ InOrder(batch)'
  BY <1>4, <1>5 DEF StreamInv, InOrder
<1>7. \A i \in DOMAIN sent, j \in DOMAIN batch :
         sent[i] # batch[j] /\ table'[sent[i]] <= table'[batch[j]]
  BY <1>4 DEF StreamInv
<1> QED
  BY <1>3, <1>5, <1>6, <1>7 DEF StreamInv

LEMMA WriteKeeps == StreamInv /\ Write => StreamInv'
<1> SUFFICES ASSUME StreamInv, Write PROVE StreamInv'
  OBVIOUS
<1>1. CASE Tick
  BY <1>1 DEF Tick, StreamInv, TypeOK, Events, InOrder, streamVars
<1>2. CASE Emit
  <2>1. second \in Nat
    BY DEF StreamInv, TypeOK
  <2> QED
    BY <1>2, <2>1, AppendKeeps DEF Emit, StreamInv, TypeOK
<1>3. ASSUME NEW p \in Others, Stamp(p) PROVE StreamInv'
  BY <1>3 DEF Stamp, StreamInv, TypeOK, Events, InOrder, streamVars
<1>4. ASSUME NEW p \in Others, Insert(p) PROVE StreamInv'
  <2>1. stamped[p] \in Nat /\ stamped' \in [Others -> Nat \union {None}]
    BY <1>4 DEF Insert, StreamInv, TypeOK
  <2> QED
    BY <1>4, <2>1, AppendKeeps DEF Insert
<1> QED
  BY <1>1, <1>2, <1>3, <1>4 DEF Write

\* A poll adds events beyond the last one sent, so beyond all of them.
LEMMA PollKeeps == StreamInv /\ Poll => StreamInv'
<1> SUFFICES ASSUME StreamInv, Poll PROVE StreamInv'
  OBVIOUS
<1>1. TypeOK /\ InOrder(sent)
  BY DEF StreamInv
<1>2. /\ batch' \in ListActivity(Limit, LastId)
      /\ UNCHANGED <<second, table, stamped, open, sent>>
      /\ base' \in {Len(table), base}
  BY DEF Poll, feedVars
<1>3. PICK S \in SUBSET Events :
         /\ batch' \in Rows(S, Limit)
         /\ LastId # None => S = Since(LastId)
  <2>1. CASE LastId = None
    BY <1>2, <2>1 DEF ListActivity, Newest
  <2>2. CASE LastId # None
    BY <1>2, <2>2 DEF ListActivity, Oldest, Since
  <2> QED
    BY <2>1, <2>2
<1>4. batch' \in Seq(S) /\ IsInjective(batch') /\ InOrder(batch')
  BY <1>1, <1>3, RowsAreOrdered, FeedAssumption
<1>5. TypeOK'
  BY <1>1, <1>2, <1>4, Types DEF TypeOK, Events
<1>6. ASSUME NEW i \in DOMAIN sent, NEW j \in DOMAIN batch'
      PROVE  sent[i] # batch'[j] /\ table[sent[i]] <= table[batch'[j]]
  <2>1. LastId = sent[Len(sent)] /\ Len(sent) \in DOMAIN sent /\ i <= Len(sent)
    BY <1>1, Types DEF LastId, Last
  <2>2. LastId # None
    BY <1>1, <2>1, Types DEF None
  <2>3. batch'[j] \in Since(LastId)
    BY <1>3, <1>4, <2>2, ElementOf
  <2>4. table[LastId] < table[batch'[j]] /\ batch'[j] \in Events
    BY <2>3 DEF Since
  <2>5. table[sent[i]] <= table[LastId]
    <3>1. CASE i = Len(sent)
      BY <1>1, <2>1, <3>1, Types
    <3>2. CASE i < Len(sent)
      BY <1>1, <2>1, <3>2 DEF InOrder
    <3> QED
      BY <1>1, <2>1, <3>1, <3>2, Types
  <2>6. {table[sent[i]], table[LastId], table[batch'[j]]} \subseteq Nat
    BY <1>1, <2>1, <2>4, Types
  <2> QED
    BY <2>4, <2>5, <2>6
<1> QED
  BY <1>2, <1>4, <1>5, <1>6 DEF StreamInv, InOrder

\* A yield moves the first of the batch behind everything sent.
LEMMA YieldKeeps == StreamInv /\ Yield => StreamInv'
<1> SUFFICES ASSUME StreamInv, Yield PROVE StreamInv'
  OBVIOUS
<1>1. TypeOK
  BY DEF StreamInv
<1>2. /\ batch # << >>
      /\ sent' = Append(sent, batch[1])
      /\ batch' = Tail(batch)
      /\ UNCHANGED <<second, table, stamped, open, base>>
  BY <1>1 DEF Yield, feedVars, TypeOK
<1>3. /\ Len(batch) \in Nat \ {0} /\ DOMAIN batch = 1 .. Len(batch)
      /\ DOMAIN batch' = 1 .. Len(batch) - 1
      /\ \A j \in DOMAIN batch' : batch'[j] = batch[j + 1]
  BY <1>1, <1>2 DEF TypeOK
<1>4. /\ DOMAIN sent' = 1 .. Len(sent) + 1
      /\ sent'[Len(sent) + 1] = batch[1]
      /\ \A i \in DOMAIN sent : sent'[i] = sent[i]
  <2>1. sent \in Seq(Events) /\ batch[1] \in Events
    BY <1>1, <1>3, Types DEF TypeOK
  <2> QED
    BY <1>2, <2>1
<1>5. TypeOK'
  <2>1. batch[1] \in Events
    BY <1>1, <1>3, Types
  <2>2. sent' \in Seq(Events) /\ batch' \in Seq(Events)
    BY <1>1, <1>2, <2>1 DEF TypeOK
  <2> QED
    BY <1>1, <1>2, <2>2 DEF TypeOK, Events
<1>6. IsInjective(batch') /\ InOrder(batch)'
  <2>1. IsInjective(batch) /\ InOrder(batch)
    BY DEF StreamInv
  <2>2. IsInjective(batch')
    BY <1>3, <2>1 DEF IsInjective
  <2>3. ASSUME NEW i \in DOMAIN batch', NEW j \in DOMAIN batch', i < j
        PROVE  table[batch'[i]] <= table[batch'[j]]
    <3>1. i + 1 \in DOMAIN batch /\ j + 1 \in DOMAIN batch /\ i + 1 < j + 1
      BY <1>3, <2>3
    <3> QED
      BY <1>3, <2>1, <3>1 DEF InOrder
  <2> QED
    BY <1>2, <2>2, <2>3 DEF InOrder
<1>7. IsInjective(sent') /\ InOrder(sent)'
  <2>1. /\ IsInjective(sent) /\ InOrder(sent) /\ 1 \in DOMAIN batch
        /\ \A i \in DOMAIN sent :
              sent[i] # batch[1] /\ table[sent[i]] <= table[batch[1]]
    BY <1>3 DEF StreamInv
  <2>2. IsInjective(sent')
    BY <1>1, <1>4, <2>1, Types DEF IsInjective
  <2>3. ASSUME NEW i \in DOMAIN sent', NEW j \in DOMAIN sent', i < j
        PROVE  table[sent'[i]] <= table[sent'[j]]
    <3>1. i \in DOMAIN sent
      BY <1>1, <1>4, <2>3, Types
    <3>2. CASE j \in DOMAIN sent
      BY <1>4, <2>1, <2>3, <3>1, <3>2 DEF InOrder
    <3>3. CASE j = Len(sent) + 1
      BY <1>4, <2>1, <3>1, <3>3
    <3> QED
      BY <1>1, <1>4, <3>2, <3>3, Types
  <2> QED
    BY <1>2, <2>2, <2>3 DEF InOrder
<1>8. ASSUME NEW i \in DOMAIN sent', NEW j \in DOMAIN batch'
      PROVE  sent'[i] # batch'[j] /\ table[sent'[i]] <= table[batch'[j]]
  <2>1. j + 1 \in DOMAIN batch /\ 1 \in DOMAIN batch /\ batch'[j] = batch[j + 1]
    BY <1>3
  <2>2. CASE i \in DOMAIN sent
    BY <1>4, <2>1, <2>2 DEF StreamInv
  <2>3. CASE i = Len(sent) + 1
    <3>1. batch[1] # batch[j + 1] /\ table[batch[1]] <= table[batch[j + 1]]
      BY <1>3, <2>1 DEF StreamInv, IsInjective, InOrder
    <3> QED
      BY <1>4, <2>1, <2>3, <3>1
  <2> QED
    BY <1>1, <1>4, <2>2, <2>3, Types
<1> QED
  BY <1>2, <1>5, <1>6, <1>7, <1>8 DEF StreamInv

LEMMA NextKeeps == StreamInv /\ [Next]_vars => StreamInv'
<1> SUFFICES ASSUME StreamInv, [Next]_vars PROVE StreamInv'
  OBVIOUS
<1>1. CASE Open
  BY <1>1 DEF Open, feedVars, StreamInv, TypeOK, Events, InOrder, IsInjective
<1>2. CASE Close
  BY <1>2 DEF Close, feedVars, StreamInv, TypeOK, Events, InOrder
<1>3. CASE UNCHANGED vars
  BY <1>3 DEF vars, feedVars, streamVars, StreamInv, TypeOK, Events, InOrder
<1> QED
  BY <1>1, <1>2, <1>3, WriteKeeps, PollKeeps, YieldKeeps DEF Next, Serve

\* The invariant holds in every state of every instance.
THEOREM StreamInvariant == Spec => []StreamInv
<1> QED
  BY InitKeeps, NextKeeps, PTL DEF Spec

\* One connection sends no event twice.
THEOREM NeverTwice == Spec => []SentOnce
<1>1. StreamInv => SentOnce
  BY DEF StreamInv, SentOnce
<1> QED
  BY <1>1, StreamInvariant, PTL

\* One connection sends events in the order of their stamps.
THEOREM InStampOrder == Spec => []SentInOrder
<1>1. StreamInv => SentInOrder
  BY DEF StreamInv, SentInOrder
<1> QED
  BY <1>1, StreamInvariant, PTL

----------------------------------------------------------------------------
(* What a connection skips.                                                *)

All == sent \o batch

\* The range and the end of two sequences one behind the other.
LEMMA Joined ==
    ASSUME NEW S, NEW p \in Seq(S), NEW q \in Seq(S)
    PROVE  /\ p \o q \in Seq(S)
           /\ Range(p) \subseteq Range(p \o q) /\ Range(q) \subseteq Range(p \o q)
           /\ q # << >> => p \o q # << >> /\ Last(p \o q) = Last(q)
<1>1. /\ p \o q \in Seq(S) /\ Len(p \o q) = Len(p) + Len(q)
      /\ Len(p) \in Nat /\ Len(q) \in Nat
      /\ \A i \in 1 .. Len(p) : (p \o q)[i] = p[i]
      /\ \A i \in 1 .. Len(q) : (p \o q)[Len(p) + i] = q[i]
  OBVIOUS
<1>2. ASSUME NEW x \in Range(p) PROVE x \in Range(p \o q)
  <2>1. PICK i \in DOMAIN p : x = p[i]
    BY <1>2 DEF Range
  <2>2. i \in 1 .. Len(p) /\ i \in DOMAIN (p \o q)
    BY <1>1
  <2> QED
    BY <1>1, <2>1, <2>2 DEF Range
<1>3. ASSUME NEW x \in Range(q) PROVE x \in Range(p \o q)
  <2>1. PICK i \in DOMAIN q : x = q[i]
    BY <1>3 DEF Range
  <2>2. i \in 1 .. Len(q) /\ Len(p) + i \in DOMAIN (p \o q)
    BY <1>1
  <2> QED
    BY <1>1, <2>1, <2>2 DEF Range
<1>4. ASSUME q # << >> PROVE p \o q # << >> /\ Last(p \o q) = Last(q)
  <2>1. Len(q) > 0
    BY <1>4
  <2>2. (p \o q)[Len(p) + Len(q)] = q[Len(q)]
    BY <1>1, <2>1
  <2>3. p \o q # << >>
    BY <1>1, <2>1
  <2> QED
    BY <1>1, <2>2, <2>3 DEF Last
<1> QED
  BY <1>1, <1>2, <1>3, <1>4

\* What is sent and about to be sent, as one sequence.
LEMMA Whole ==
    ASSUME TypeOK
    PROVE  All \in Seq(Events) /\ (batch = << >> => All = sent)
<1>1. sent \in Seq(Events) /\ batch \in Seq(Events)
  BY DEF TypeOK
<1> QED
  BY <1>1 DEF All

\* A step that leaves the rows, the connection's events and its base alone
\* skips nothing more.
LEMMA SameSkipped ==
    ASSUME OnlyTiesSkipped, table' = table, base' = base, All' = All
    PROVE  OnlyTiesSkipped'
BY DEF OnlyTiesSkipped, Skipped, Events, All

\* A new row is skipped for a tie, or because it is late.
LEMMA NewRowSkipped ==
    ASSUME TypeOK, OnlyTiesSkipped, NEW x \in Nat, table' = Append(table, x),
           UNCHANGED streamVars
    PROVE  OnlyTiesSkipped'
<1>1. /\ All' = All /\ base' = base /\ All \in Seq(Events)
  BY Whole DEF streamVars, All
<1>2. /\ Len(table) \in Nat /\ Events = 1 .. Len(table)
      /\ Events' = 1 .. Len(table) + 1
      /\ table'[Len(table) + 1] = x
      /\ \A e \in Events : table'[e] = table[e] /\ table[e] \in Nat
  BY Types DEF Events, TypeOK
<1>3. \A e \in Range(All) : e \in Events
  BY <1>1, ElementOf DEF Range
<1>4. All # << >> => Last(All) \in Range(All)
  <2>1. All # << >> => Len(All) \in DOMAIN All
    BY <1>1
  <2> QED
    BY <2>1 DEF Last, Range
<1> SUFFICES ASSUME NEW e \in Events', Skipped(e)'
             PROVE  \/ \E f \in Range(All) : table'[f] = table'[e]
                    \/ \E f \in Events' : f < e /\ table'[f] > table'[e]
  BY <1>1 DEF OnlyTiesSkipped, All
<1>5. /\ All # << >> /\ e > base /\ e \notin Range(All)
      /\ table'[e] <= table'[Last(All)]
  BY <1>1 DEF Skipped, All
<1>6. CASE e \in Events
  <2>1. Skipped(e)
    BY <1>2, <1>3, <1>4, <1>5, <1>6 DEF Skipped, All
  <2>2. \/ \E f \in Range(All) : table[f] = table[e]
        \/ \E f \in Events : f < e /\ table[f] > table[e]
    BY <1>6, <2>1 DEF OnlyTiesSkipped, All
  <2>3. Events \subseteq Events'
    BY <1>2
  <2> QED
    BY <1>2, <1>3, <1>6, <2>2, <2>3
<1>7. CASE e = Len(table) + 1
  <2>1. Last(All) \in Range(All) /\ Last(All) \in Events
    BY <1>3, <1>4, <1>5
  <2>2. Last(All) < e /\ Last(All) \in Events'
    BY <1>2, <1>7, <2>1
  <2>3. table'[Last(All)] \in Nat /\ table'[e] \in Nat
    BY <1>2, <1>7, <2>1
  <2>4. table'[Last(All)] = table'[e] \/ table'[Last(All)] > table'[e]
    <3>1. \A a, b \in Nat : a <= b => b = a \/ b > a
      OBVIOUS
    <3> QED
      BY <1>5, <2>3, <3>1, Zenon
  <2> QED
    BY <2>1, <2>2, <2>4
<1>8. e \in Events \/ e = Len(table) + 1
  BY <1>2
<1> QED
  BY <1>6, <1>7, <1>8, Zenon

\* A poll passes the stamps up to the last one it returns, and leaves out, of
\* those beyond the cursor, only some with this last stamp.
LEMMA PollSkipped ==
    ASSUME StreamInv, StreamInv', OnlyTiesSkipped, Poll
    PROVE  OnlyTiesSkipped'
<1>1. /\ TypeOK /\ TypeOK' /\ table' = table /\ sent' = sent /\ batch = << >>
      /\ Events' = Events
  BY DEF StreamInv, Poll, feedVars, Events
<1>2. CASE LastId = None
  <2>1. base' = Len(table)
    BY <1>2 DEF Poll
  <2>2. \A e \in Events' : ~ (e > base')
    BY <1>1, <2>1, Types
  <2> QED
    BY <2>2 DEF OnlyTiesSkipped, Skipped
<1>3. CASE LastId # None
  <2>1. All = sent /\ sent # << >> /\ LastId = Last(sent) /\ base' = base
    BY <1>1, <1>3, Whole DEF LastId, Poll
  <2>2. CASE batch' = << >>
    <3>1. All' = sent'
      BY <1>1, <2>2 DEF All, TypeOK
    <3> QED
      BY <1>1, <2>1, <3>1, SameSkipped
  <2>3. CASE batch' # << >>
    <3>1. /\ batch' \in Rows(Since(LastId), Limit)
          /\ \A e \in Since(LastId) \ Range(batch'), f \in Range(batch') :
                table[f] <= table[e]
      BY <1>3 DEF Poll, ListActivity, Oldest
    <3>2. /\ Last(All') = Last(batch') /\ Range(batch') \subseteq Range(All')
          /\ batch' \in Seq(Events)
      <4>1. batch' \in Seq(Events')
        BY <1>1 DEF TypeOK
      <4>2. All' = sent' \o batch'
        BY DEF All
      <4>3. Last(All') = Last(batch') /\ Range(batch') \subseteq Range(All')
        <5>1. sent' \in Seq(Events)
          BY <1>1 DEF TypeOK
        <5> QED
          BY <1>1, <2>3, <4>1, <4>2, <5>1, Joined
      <4> QED
        BY <1>1, <4>1, <4>3
    <3>3. Last(batch') \in Range(batch') /\ Last(batch') \in Events
      <4>1. Len(batch') \in DOMAIN batch'
        BY <2>3, <3>2
      <4> QED
        BY <3>2, <4>1, ElementOf DEF Last, Range
    <3>4. Range(sent) \subseteq Range(All')
      <4>1. sent \in Seq(Events)
        BY <1>1 DEF TypeOK
      <4> QED
        BY <1>1, <3>2, <4>1, Joined DEF All
    <3> SUFFICES ASSUME NEW e \in Events, Skipped(e)'
                 PROVE  \/ \E f \in Range(All') : table[f] = table[e]
                        \/ \E f \in Events : f < e /\ table[f] > table[e]
      BY <1>1 DEF OnlyTiesSkipped, All
    <3>5. /\ e > base /\ e \notin Range(All') /\ table[e] <= table[Last(batch')]
      BY <1>1, <2>1, <3>2 DEF Skipped, All
    <3>6. table[e] \in Nat /\ table[Last(batch')] \in Nat /\ table[LastId] \in Nat
      <4>1. Len(sent) \in DOMAIN sent
        BY <1>1, <2>1 DEF TypeOK
      <4>2. LastId \in Events
        BY <1>1, <2>1, <4>1, Types DEF Last
      <4> QED
        BY <1>1, <3>3, <4>2, Types
    <3>7. CASE table[e] <= table[LastId]
      <4>1. Skipped(e)
        BY <2>1, <3>4, <3>5, <3>7 DEF Skipped, All
      <4>2. \/ \E f \in Range(All) : table[f] = table[e]
            \/ \E f \in Events : f < e /\ table[f] > table[e]
        BY <4>1 DEF OnlyTiesSkipped, All
      <4> QED
        BY <2>1, <3>4, <4>2
    <3>8. CASE table[e] > table[LastId]
      <4>1. e \in Since(LastId) \ Range(batch')
        BY <3>2, <3>5, <3>8 DEF Since
      <4>2. table[Last(batch')] <= table[e]
        BY <3>1, <3>3, <4>1
      <4>3. table[Last(batch')] = table[e]
        BY <3>5, <3>6, <4>2
      <4> QED
        BY <3>2, <3>3, <4>3
    <3> QED
      BY <3>6, <3>7, <3>8
  <2> QED
    BY <2>2, <2>3
<1> QED
  BY <1>2, <1>3

LEMMA NextSkipped ==
    StreamInv /\ StreamInv' /\ OnlyTiesSkipped /\ [Next]_vars => OnlyTiesSkipped'
<1> SUFFICES ASSUME StreamInv, StreamInv', OnlyTiesSkipped, [Next]_vars
             PROVE  OnlyTiesSkipped'
  OBVIOUS
<1>1. TypeOK /\ second \in Nat
  BY DEF StreamInv, TypeOK
<1>2. CASE Tick \/ Close \/ UNCHANGED vars \/ \E p \in Others : Stamp(p)
  <2>1. table' = table /\ base' = base /\ All' = All
    BY <1>2 DEF Tick, Close, Stamp, vars, feedVars, streamVars, All
  <2> QED
    BY <2>1, SameSkipped
<1>3. CASE Emit
  BY <1>1, <1>3, NewRowSkipped DEF Emit
<1>4. ASSUME NEW p \in Others, Insert(p) PROVE OnlyTiesSkipped'
  <2>1. stamped[p] \in Nat
    BY <1>1, <1>4 DEF Insert, TypeOK
  <2> QED
    BY <1>1, <1>4, <2>1, NewRowSkipped DEF Insert
<1>5. CASE Yield
  <2>1. /\ sent \in Seq(Events) /\ batch \in Seq(Events) /\ batch # << >>
        /\ sent' = Append(sent, Head(batch)) /\ batch' = Tail(batch)
        /\ table' = table /\ base' = base
    BY <1>1, <1>5 DEF Yield, TypeOK, feedVars
  <2>2. Append(sent, Head(batch)) \o Tail(batch) = sent \o batch
    BY <2>1
  <2> QED
    BY <2>1, <2>2, SameSkipped DEF All
<1>6. CASE Open
  <2>1. sent' = << >> /\ batch' = << >>
    BY <1>6 DEF Open
  <2>2. (sent \o batch)' = << >>
    BY <2>1
  <2> QED
    BY <2>2 DEF OnlyTiesSkipped, Skipped
<1> QED
  BY <1>2, <1>3, <1>4, <1>5, <1>6, PollSkipped DEF Next, Write, Serve

\* A connection skips an event only for another of the same second, or because
\* it was inserted late.
THEOREM SkipsOnlyTies == Spec => []OnlyTiesSkipped
<1>1. Init => OnlyTiesSkipped
  BY DEF Init, OnlyTiesSkipped, Events
<1> QED
  BY <1>1, NextSkipped, StreamInvariant, PTL DEF Spec
----------------------------------------------------------------------------
(* The list of a page                                                      *)

\* The list and the answer of the poll name every event once, and neither is
\* longer than it may be.
PageInv ==
    /\ StreamInv
    /\ read \in Nat
    /\ shown \in Seq(Nat) /\ IsInjective(shown) /\ Len(shown) <= Keep
    /\ answer \in Seq(Nat) /\ IsInjective(answer) /\ Len(answer) <= Keep

\* An event that is not on the list gets to its end, and what is too much
\* goes from its beginning.
LEMMA ListKept ==
    ASSUME NEW q \in Seq(Nat), IsInjective(q), NEW e \in Nat, e \notin Range(q)
    PROVE  LET longer == Append(q, e)
               excess == IF Len(longer) > Keep THEN Len(longer) - Keep ELSE 0
               kept == SubSeq(longer, excess + 1, Len(longer))
           IN  kept \in Seq(Nat) /\ IsInjective(kept) /\ Len(kept) <= Keep
<1> DEFINE longer == Append(q, e)
           n == Len(q)
           excess == IF Len(longer) > Keep THEN Len(longer) - Keep ELSE 0
           kept == SubSeq(longer, excess + 1, Len(longer))
<1>1. n \in Nat /\ DOMAIN q = 1 .. n /\ Keep \in Nat
  BY ListAssumption
<1>2. /\ longer \in Seq(Nat) /\ Len(longer) = n + 1
      /\ \A i \in 1 .. n + 1 : longer[i] = IF i <= n THEN q[i] ELSE e
  BY <1>1
<1>3. \A i \in 1 .. n : q[i] # e
  BY <1>1 DEF Range
<1>4. \A i, j \in 1 .. n : q[i] = q[j] => i = j
  BY <1>1 DEF IsInjective
<1>5. \A i, j \in 1 .. n + 1 : longer[i] = longer[j] => i = j
  <2> SUFFICES ASSUME NEW i \in 1 .. n + 1, NEW j \in 1 .. n + 1, longer[i] = longer[j]
               PROVE  i = j
    OBVIOUS
  <2> HIDE DEF longer
  <2>1. CASE i <= n /\ j <= n
    <3>1. i \in 1 .. n /\ j \in 1 .. n /\ q[i] = q[j]
      BY <1>1, <1>2, <2>1
    <3> QED
      BY <1>4, <3>1
  <2>2. CASE i <= n /\ j = n + 1
    <3>1. i \in 1 .. n /\ q[i] = e
      BY <1>1, <1>2, <2>2
    <3> QED
      BY <1>3, <3>1
  <2>3. CASE i = n + 1 /\ j <= n
    <3>1. j \in 1 .. n /\ q[j] = e
      BY <1>1, <1>2, <2>3
    <3> QED
      BY <1>3, <3>1
  <2> QED
    BY <1>1, <2>1, <2>2, <2>3
<1>6. excess \in Nat /\ excess <= n + 1 /\ n + 1 - excess <= Keep
  BY <1>1, <1>2
<1> HIDE DEF longer, excess, n
<1>7. /\ kept \in Seq(Nat) /\ Len(kept) = n + 1 - excess
      /\ \A i \in 1 .. n + 1 - excess : kept[i] = longer[i + excess]
  BY <1>1, <1>2, <1>6
<1> HIDE DEF kept
<1>8. IsInjective(kept)
  <2> SUFFICES ASSUME NEW i \in 1 .. n + 1 - excess, NEW j \in 1 .. n + 1 - excess,
                      kept[i] = kept[j]
               PROVE  i = j
    BY <1>7 DEF IsInjective
  <2>1. i + excess \in 1 .. n + 1 /\ j + excess \in 1 .. n + 1
    BY <1>1, <1>6
  <2>2. longer[i + excess] = longer[j + excess]
    BY <1>7
  <2>3. i + excess = j + excess
    BY <1>5, <2>1, <2>2
  <2> QED
    BY <1>1, <1>6, <2>3
<1>9. kept \in Seq(Nat) /\ IsInjective(kept) /\ Len(kept) <= Keep
  BY <1>6, <1>7, <1>8
<1> QED
  BY <1>9 DEF kept, longer, excess

\* A page that is just mounted has an empty list.
LEMMA PageInitKeeps == PageInit => PageInv
<1> SUFFICES ASSUME PageInit PROVE PageInv
  OBVIOUS
<1>1. StreamInv
  BY InitKeeps DEF PageInit
<1>2. shown = << >> /\ answer = << >> /\ read = 0
  BY DEF PageInit
<1>3. << >> \in Seq(Nat) /\ Len(<< >>) = 0 /\ IsInjective(<< >>)
  BY DEF IsInjective
<1> QED
  BY <1>1, <1>2, <1>3, ListAssumption DEF PageInv

\* To the feed, every step of the page is one of its own or none.
LEMMA PageStepsFeed == PageNext \/ UNCHANGED allVars => [Next]_vars
BY DEF PageNext, Server, Connect, OnMessage, OnError, PollServed, PollDone, Unmount,
       Next, allVars

\* A message puts an event on the list that is not there yet.
LEMMA OnMessageKeeps ==
    ASSUME PageInv, StreamInv', OnMessage
    PROVE  PageInv'
<1>1. /\ read \in Nat /\ shown \in Seq(Nat) /\ IsInjective(shown) /\ Len(shown) <= Keep
      /\ TypeOK
  BY DEF PageInv, StreamInv
<1>2. read' = read + 1 /\ answer' = answer /\ read < Len(sent)
  BY DEF OnMessage
<1>3. Arrived \in Nat
  <2>1. read + 1 \in DOMAIN sent
    BY <1>1, <1>2, Types
  <2> QED
    BY <1>1, <2>1, Types DEF Arrived
<1>4. shown' \in Seq(Nat) /\ IsInjective(shown') /\ Len(shown') <= Keep
  <2>1. CASE Known(Arrived)
    BY <1>1, <2>1 DEF OnMessage
  <2>2. CASE ~Known(Arrived)
    <3>1. Arrived \notin Range(shown)
      BY <2>2 DEF Known
    <3>2. shown' = LET longer == Append(shown, Arrived)
                       excess == IF Len(longer) > Keep THEN Len(longer) - Keep ELSE 0
                   IN  SubSeq(longer, excess + 1, Len(longer))
      BY <2>2 DEF OnMessage
    <3> QED
      BY <1>1, <1>3, <3>1, <3>2, ListKept
  <2> QED
    BY <2>1, <2>2
<1> QED
  BY <1>1, <1>2, <1>4 DEF PageInv

\* The poll is answered with different events, no more than it asked for.
LEMMA PollServedKeeps ==
    ASSUME PageInv, StreamInv', PollServed
    PROVE  PageInv'
<1>1. TypeOK
  BY DEF PageInv, StreamInv
<1>2. answer' \in Rows(Events, PollLimit) /\ shown' = shown /\ read' = read
  BY DEF PollServed, Newest
<1>3. PollLimit \in Nat /\ PollLimit <= Keep /\ Keep \in Nat
  BY ListAssumption
<1>4. answer' \in Seq(Events) /\ Len(answer') <= PollLimit /\ IsInjective(answer')
  BY <1>1, <1>2, <1>3, RowsAreOrdered
<1>5. Events \subseteq Nat
  BY <1>1, Types
<1>6. answer' \in Seq(Nat) /\ Len(answer') \in Nat
  <2>1. /\ Len(answer') \in Nat
        /\ answer' \in [1 .. Len(answer') -> Events]
    BY <1>4
  <2>2. answer' \in [1 .. Len(answer') -> Nat]
    BY <1>5, <2>1
  <2> QED
    BY <2>1, <2>2
<1> QED
  BY <1>2, <1>3, <1>4, <1>6 DEF PageInv

\* The list of a page holds no event twice and no more than it may, whatever
\* the poll and the replays of new connections bring.
THEOREM ListShowsOnce == PageSpec => []ShownOnce
<1>1. ASSUME PageInv, [PageNext]_allVars PROVE PageInv'
  <2>1. StreamInv'
    <3>1. [Next]_vars
      BY <1>1, PageStepsFeed
    <3> QED
      BY <1>1, <3>1, NextKeeps DEF PageInv
  <2>2. CASE OnMessage
    BY <1>1, <2>1, <2>2, OnMessageKeeps
  <2>3. CASE PollServed
    BY <1>1, <2>1, <2>3, PollServedKeeps
  <2>4. CASE PollDone
    BY <1>1, <2>1, <2>4 DEF PollDone, PageInv
  <2>5. CASE Server \/ Connect \/ OnError \/ Unmount \/ UNCHANGED allVars
    <3>1. shown' = shown /\ answer' = answer /\ read' \in {read, 0}
      BY <2>5 DEF Server, Connect, OnError, Unmount, allVars, pageVars
    <3> QED
      BY <1>1, <2>1, <3>1 DEF PageInv
  <2> QED
    BY <1>1, <2>2, <2>3, <2>4, <2>5 DEF PageNext
<1>2. PageInv => ShownOnce
  BY DEF PageInv, ShownOnce
<1> QED
  BY PageInitKeeps, <1>1, <1>2, PTL DEF PageSpec
=============================================================================
