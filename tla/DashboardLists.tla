--------------------------- MODULE DashboardLists ---------------------------
(***************************************************************************)
(* The other lists of App.tsx: refreshCore asks for the figures, the       *)
(* agents and the tasks, and writes all three when all are there.  It is   *)
(* started at mount and every twelve seconds, whether or not the one       *)
(* before is done, so that answers overtake each other.  The mesh is a     *)
(* number that grows with every change.                                    *)
(***************************************************************************)
EXTENDS Integers

CONSTANTS
    Slots,      \* bound: refreshes under way
    MaxChanges, \* bound on the changes of the mesh
    MaxFailures \* bound on the requests that fail

Lists == {"stats", "agents", "tasks"}
Asked == [l \in Lists |-> -1]
Idle == [l \in Lists |-> -2]

VARIABLES
    mesh,       \* what the API would answer now
    answers,    \* of each refresh, what its requests were answered; -1 is not yet
    shown,      \* the lists on the page
    error,      \* is an error on the page?
    mounted, failures

vars == <<mesh, answers, shown, error, mounted, failures>>

Init ==
    /\ mesh = 0 /\ mounted = TRUE /\ failures = 0
    /\ answers = [s \in Slots |-> Idle]
    /\ shown = Asked /\ error = FALSE

Change ==
    /\ mesh < MaxChanges
    /\ mesh' = mesh + 1
    /\ UNCHANGED <<answers, shown, error, mounted, failures>>

\* Variant: no refresh while there is an error on the page.
RefreshUnlessError(s) ==
    /\ mounted /\ ~error /\ answers[s] = Idle
    /\ answers' = [answers EXCEPT ![s] = Asked]
    /\ UNCHANGED <<mesh, shown, error, mounted, failures>>

\* At mount and by the interval.
Refresh(s) ==
    /\ mounted /\ answers[s] = Idle
    /\ answers' = [answers EXCEPT ![s] = Asked]
    /\ UNCHANGED <<mesh, shown, error, mounted, failures>>

\* The API answers one of the three; each at a moment of its own.
Answer(s, l) ==
    /\ answers[s][l] = -1
    /\ answers' = [answers EXCEPT ![s][l] = mesh]
    /\ UNCHANGED <<mesh, shown, error, mounted, failures>>

Settles(s) == answers[s] # Idle /\ answers' = [answers EXCEPT ![s] = Idle]

\* Promise.all is there.  A page that is gone takes no state.
Show(s) ==
    /\ \A l \in Lists : answers[s][l] >= 0
    /\ Settles(s)
    /\ IF mounted THEN shown' = answers[s] /\ error' = FALSE ELSE UNCHANGED <<shown, error>>
    /\ UNCHANGED <<mesh, mounted, failures>>

\* One of the requests fails: the lists stay, the error is shown.
Fail(s) ==
    /\ failures < MaxFailures
    /\ failures' = failures + 1
    /\ \E l \in Lists : answers[s][l] = -1
    /\ Settles(s)
    /\ error' = (error \/ mounted)
    /\ UNCHANGED <<mesh, shown, mounted>>

Unmount ==
    /\ mounted /\ mounted' = FALSE
    /\ UNCHANGED <<mesh, answers, shown, error, failures>>

Work(s) == Show(s) \/ \E l \in Lists : Answer(s, l)

Next ==
    \/ Change \/ Unmount
    \/ \E s \in Slots : Refresh(s) \/ Work(s) \/ Fail(s)

Spec == Init /\ [][Next]_vars

----------------------------------------------------------------------------
(* Properties                                                              *)

\* What older answers and errors did to the page is repaired: when the mesh
\* stands still and requests fail no more, a page that stays mounted comes to
\* show the mesh as it is, without an error, and keeps showing it.
EventuallyCurrent ==
    <>[](mounted => ~error /\ \A l \in Lists : shown[l] = mesh)
=============================================================================
