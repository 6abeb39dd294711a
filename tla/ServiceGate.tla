---------------------------- MODULE ServiceGate ----------------------------
(***************************************************************************)
(* What a session promises the service it talks to, whatever request       *)
(* contexts it is used from: authentication failures climb a ladder of     *)
(* five levels one rung at a time, the upper three prohibit requests for a *)
(* period that starts with the last response, and no request leaves while  *)
(* the gate is shut.  Only an authorised response or a new session takes   *)
(* the level back to 0.                                                    *)
(***************************************************************************)
EXTENDS Integers

CONSTANTS
    Client,     \* whoever sends requests
    Delay       \* period of prohibition of each level, a natural number

Level == 0..4

VARIABLES
    time,         \* real time
    level,        \* rung of the ladder
    until,        \* requests are prohibited until then
    outstanding   \* clients whose request is on its way

vars == <<time, level, until, outstanding>>

\* When the gate opens if a response arrives at time t and leaves level l.
Until(l, t) == IF Delay[l] = 0 THEN 0 ELSE t + Delay[l]

Init ==
    /\ time = 0
    /\ level = 0
    /\ until = 0
    /\ outstanding = {}

Advance ==
    /\ time' \in Nat /\ time' > time
    /\ UNCHANGED <<level, until, outstanding>>

Generate(c) ==
    /\ time >= until
    /\ outstanding' = outstanding \cup {c}
    /\ UNCHANGED <<time, level, until>>

Abandon ==
    /\ outstanding' \in SUBSET outstanding
    /\ UNCHANGED <<time, level, until>>

\* A response: the level stays (an error), rises (a refusal) or drops to 0.
Respond(c) ==
    /\ c \in outstanding
    /\ outstanding' = outstanding \ {c}
    /\ \/ level' = level
       \/ level < 4 /\ level' = level + 1
       \/ level' = 0
    /\ until' = Until(level', time)
    /\ UNCHANGED time

\* A session is created, or one saved earlier takes its place.
Replace ==
    /\ level' \in Level
    /\ \E t \in 0..time : until' = Until(level', t)
    /\ outstanding' = {}
    /\ UNCHANGED time

Next ==
    \/ Advance
    \/ Abandon
    \/ Replace
    \/ \E c \in Client : Generate(c) \/ Respond(c)

Spec == Init /\ [][Next]_vars

=============================================================================
