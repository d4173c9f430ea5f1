--------------------------- MODULE SlidingWindow ---------------------------
(***************************************************************************)
(* What the rate limiter of the API promises to each client: at any time   *)
(* at most Limit of its requests of the last Window ticks were admitted,   *)
(* and a request is refused only when that many were.  Nothing is ever     *)
(* forgotten here: the log keeps every admitted request.                   *)
(***************************************************************************)
EXTENDS Naturals, Sequences, FiniteSets

CONSTANTS
    Clients,    \* those who send requests
    Limit,      \* admitted requests of one client within a window
    Window      \* length of the window, in ticks of the clock

VARIABLES
    now,        \* the clock
    log,        \* the admitted requests: who, and when
    answer      \* the last request and whether it was admitted

window == <<now, log, answer>>

\* The admitted requests of c that still count.
Recent(c) ==
    {i \in DOMAIN log : log[i].client = c /\ now < log[i].time + Window}

Init == now = 0 /\ log = << >> /\ answer = << >>

Admit(c) ==
    /\ Cardinality(Recent(c)) < Limit
    /\ log' = Append(log, [client |-> c, time |-> now])
    /\ answer' = <<c, TRUE>>
    /\ UNCHANGED now

Refuse(c) ==
    /\ Cardinality(Recent(c)) >= Limit
    /\ answer' = <<c, FALSE>>
    /\ UNCHANGED <<now, log>>

Tick == now' = now + 1 /\ UNCHANGED <<log, answer>>

Next == Tick \/ \E c \in Clients : Admit(c) \/ Refuse(c)

Spec == Init /\ [][Next]_window

\* No client is ever above its limit within one window.
NeverOverLimit == \A c \in Clients : Cardinality(Recent(c)) <= Limit
===========================================================================
