------------------------------- MODULE MCPage -------------------------------
(***************************************************************************)
(* What a browser shows, one part at a time: the feed as two processes     *)
(* write it and one connection sends it; the activity list on top of it,   *)
(* with one process; the other lists.  A part that is not looked at stays  *)
(* where it began.                                                         *)
(***************************************************************************)
EXTENDS Dashboard

CONSTANTS
    Slots, MaxChanges, MaxFailures,     \* of DashboardLists
    PageEvents, PageSeconds             \* bounds of the feed below the list

VARIABLES part, mesh, answers, listed, error, mounted, failures

listsVars == <<mesh, answers, listed, error, mounted, failures>>

Lists == INSTANCE DashboardLists WITH shown <- listed

MCInit == part \in {"feed", "page", "lists"} /\ PageInit /\ Lists!Init

FeedStep == part = "feed" /\ Next /\ UNCHANGED <<part, pageVars, listsVars>>

PageStep ==
    /\ part = "page" /\ UNCHANGED <<part, stamped, listsVars>>
    /\ PageNext
    /\ Len(table') <= PageEvents /\ second' <= PageSeconds

ListsStep == part = "lists" /\ Lists!Next /\ UNCHANGED <<part, allVars>>

MCNext == FeedStep \/ PageStep \/ ListsStep

\* The generator runs as long as the connection is open, the browser delivers
\* its messages, the timer of four seconds fires.  The interval of twelve
\* seconds goes on, and a request of a refresh is answered or fails.
MCSpec ==
    /\ MCInit /\ [][MCNext]_<<part, allVars, listsVars>>
    /\ WF_allVars(part = "page" /\ Serve /\ UNCHANGED pageVars)
    /\ WF_allVars(part = "page" /\ OnMessage)
    /\ WF_allVars(part = "page" /\ Connect)
    /\ WF_listsVars(part = "lists" /\ \E s \in Slots : Lists!Refresh(s))
    /\ \A s \in Slots : WF_listsVars(part = "lists" /\ Lists!Work(s))

\* EveryEventShown, where the page is looked at: what the generator is about
\* to send gets on the list, unless the connection breaks first.
SentIsShown == part = "page" => EveryEventShown

\* EventuallyCurrent, where the lists are looked at: they come to show the mesh
\* as it is when it stands still and requests fail no more.
ListsSettle == part = "lists" => Lists!EventuallyCurrent
=============================================================================
