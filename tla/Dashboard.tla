----------------------------- MODULE Dashboard -----------------------------
(***************************************************************************)
(* The activity list of App.tsx on top of ActivityStream: one poll at      *)
(* mount, an EventSource that is opened again four seconds after an error, *)
(* and the list that both of them write.  React calls the handlers one at  *)
(* a time.                                                                 *)
(***************************************************************************)
EXTENDS ActivityStream

CONSTANTS
    PollLimit,  \* events of the poll (100)
    Keep        \* events the list holds (120)

ASSUME ListAssumption == Keep \in Nat /\ PollLimit \in 1 .. Keep

VARIABLES
    shown,      \* the list, oldest first
    read,       \* how many of the sent events the browser has handled
    poll,       \* the poll: "asked", "answered" by the API, or "done"
    answer,     \* what the API has answered
    retry,      \* connect is due: at mount, and after an error
    closed      \* the component is unmounted

pageVars == <<shown, read, poll, answer, retry, closed>>
allVars == <<vars, pageVars>>

Arrived == sent[read + 1]

\* Variant: an event is known by its timestamp.
KnownByStamp(e) == \E s \in Range(shown) : table[s] = table[e]

\* Variant: the list is not searched.
NeverKnown(e) == FALSE

Known(e) == e \in Range(shown)

\* connect, which returns at once when the component is gone.
Connect ==
    /\ retry /\ ~closed
    /\ Open
    /\ retry' = FALSE /\ read' = 0
    /\ UNCHANGED <<shown, poll, answer, closed>>

OnMessage ==
    /\ open /\ read < Len(sent)
    /\ LET longer == Append(shown, Arrived)
           excess == IF Len(longer) > Keep THEN Len(longer) - Keep ELSE 0
       IN  shown' = IF Known(Arrived) THEN shown
                    ELSE SubSeq(longer, excess + 1, Len(longer))
    /\ read' = read + 1
    /\ UNCHANGED <<vars, poll, answer, retry, closed>>

\* The connection breaks; what was sent and not handled is lost.
OnError ==
    /\ Close
    /\ retry' = TRUE
    /\ UNCHANGED <<shown, read, poll, answer, closed>>

\* The API answers the poll; the answer is on its way.
PollServed ==
    /\ poll = "asked"
    /\ poll' = "answered"
    /\ answer' \in Newest(Events, PollLimit)
    /\ UNCHANGED <<vars, shown, read, retry, closed>>

\* refreshActivity: the answer becomes the list, an error changes nothing.
PollDone ==
    /\ poll # "done"
    /\ poll' = "done"
    /\ shown' \in {shown} \union IF poll = "answered" THEN {answer} ELSE {}
    /\ UNCHANGED <<vars, read, answer, retry, closed>>

\* The cleanup of the second effect.
Unmount ==
    /\ ~closed
    /\ closed' = TRUE /\ retry' = FALSE
    /\ IF open THEN Close ELSE UNCHANGED vars
    /\ UNCHANGED <<shown, read, poll, answer>>

PageInit ==
    /\ Init
    /\ shown = << >> /\ read = 0 /\ poll = "asked" /\ answer = << >>
    /\ retry = TRUE /\ closed = FALSE

Server == (Write \/ Serve) /\ UNCHANGED pageVars

PageNext ==
    \/ Server \/ Connect \/ OnMessage \/ OnError
    \/ PollServed \/ PollDone \/ Unmount

PageSpec == PageInit /\ [][PageNext]_allVars

(***************************************************************************)
(* Properties                                                              *)
(***************************************************************************)
\* The list holds no event twice and no more than Keep, although every new
\* connection replays the newest events and the poll overlaps them.
ShownOnce == IsInjective(shown) /\ Len(shown) <= Keep

\* What the generator is about to send gets on the list, unless the
\* connection breaks first.
EveryEventShown ==
    \A e \in 1 .. MaxEvents :
        e \in Range(batch) ~> (e \in Range(shown) \/ ~open)
=============================================================================
