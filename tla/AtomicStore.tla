---------------------------- MODULE AtomicStore ----------------------------
(***************************************************************************)
(* What the models of the mesh take a call of the store for: one statement *)
(* that takes effect at one moment between its start and its end, never    *)
(* afterwards, and for certain when the call returns.  A store that is     *)
(* Late may let the statement of a call that raised take effect with a     *)
(* later one.                                                              *)
(***************************************************************************)
CONSTANTS Jobs, Effect(_), Late

VARIABLES
    active,     \* the calls under way
    db,         \* the statements that are in effect, by their calls
    returned,   \* the calls that returned
    raised      \* the calls that raised

Init == active = {} /\ db = {} /\ returned = {} /\ raised = {}

Start(j) ==
    /\ j \notin active \union returned \union raised
    /\ active' = active \union {j}
    /\ UNCHANGED <<db, returned, raised>>

\* The statements that may still come.
Owed == IF Late THEN UNION {Effect(j) : j \in raised} ELSE {}

Return(j) ==
    /\ j \in active
    /\ active' = active \ {j} /\ returned' = returned \union {j}
    /\ \E late \in SUBSET Owed : db' = db \union Effect(j) \union late
    /\ UNCHANGED raised

\* An error leaves open whether the statement took effect.
Raise(j) ==
    /\ j \in active
    /\ active' = active \ {j} /\ raised' = raised \union {j}
    /\ db' \in {db, db \union Effect(j)}
    /\ UNCHANGED returned

\* The process dies with its calls.
Crash ==
    /\ active' = {}
    /\ \E done \in SUBSET active, late \in SUBSET Owed :
          db' = db \union (UNION {Effect(j) : j \in done}) \union late
    /\ UNCHANGED <<returned, raised>>

Next == Crash \/ \E j \in Jobs : Start(j) \/ Return(j) \/ Raise(j)

Spec == Init /\ [][Next]_<<active, db, returned, raised>>
=============================================================================
