--------------------------- MODULE EscrowLedger ---------------------------
(***************************************************************************)
(* What the internal ledger promises for the tasks of the mesh, without    *)
(* the orchestrator that keeps the promise.  The holds of a task are the   *)
(* rows of escrow_holds with its task_id; slot j is the row that attempt   *)
(* j inserts, if it gets that far.  A row is inserted as "held", is        *)
(* settled once, as "released" or as "refunded", and is final afterwards.  *)
(* A task never has two rows that cost it money at the same time.          *)
(***************************************************************************)
EXTENDS Naturals

CONSTANTS
    Tasks,      \* the tasks that have a ledger
    Slots       \* the attempts of a task, a set of natural numbers

VARIABLE
    holds       \* holds[t][j]: the status of the row of attempt j of task t

HoldStatus == {"none", "held", "released", "refunded"}

\* A row that costs the consumer money: reserved for an agent, or paid to it.
Live(s) == s \in {"held", "released"}

LedgerTypeOK == holds \in [Tasks -> [Slots -> HoldStatus]]

---------------------------------------------------------------------------
Init == holds = [t \in Tasks |-> [j \in Slots |-> "none"]]

\* EscrowLedger.hold: a new row, in a task that owes nothing to anyone.
Hold(t, j) ==
    /\ holds[t][j] = "none"
    /\ \A k \in Slots : ~Live(holds[t][k])
    /\ holds' = [holds EXCEPT ![t][j] = "held"]

\* EscrowLedger.release and EscrowLedger.refund: the row is settled, once.
Settle(t, j, s) ==
    /\ holds[t][j] = "held"
    /\ holds' = [holds EXCEPT ![t][j] = s]

Next ==
    \E t \in Tasks, j \in Slots :
        \/ Hold(t, j)
        \/ \E s \in {"released", "refunded"} : Settle(t, j, s)

Spec == Init /\ [][Next]_holds
===========================================================================
