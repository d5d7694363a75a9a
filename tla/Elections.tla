----------------------------- MODULE Elections -----------------------------
(***************************************************************************)
(* What voting promises, without messages, timers or logs: a term is       *)
(* decided for one node, at most once and for ever, and only the node it   *)
(* was decided for leads in it.                                            *)
(***************************************************************************)
EXTENDS Integers

CONSTANTS Server, Term, None

VARIABLES
    elected,    \* the node each term is decided for, or None
    leading     \* the term each node leads, or 0

Init == elected = [t \in Term |-> None] /\ leading = [n \in Server |-> 0]

Elect(n, t) ==
    /\ elected[t] = None
    /\ elected' = [elected EXCEPT ![t] = n]
    /\ UNCHANGED leading

Win(n, t) ==
    /\ leading[n] = 0 /\ elected[t] = n
    /\ leading' = [leading EXCEPT ![n] = t]
    /\ UNCHANGED elected

\* A node that needs no vote but its own.
WinAlone(n, t) ==
    /\ leading[n] = 0 /\ elected[t] = None
    /\ elected' = [elected EXCEPT ![t] = n]
    /\ leading' = [leading EXCEPT ![n] = t]

StepDown(n) ==
    /\ leading[n] > 0
    /\ leading' = [leading EXCEPT ![n] = 0]
    /\ UNCHANGED elected

Next ==
    \E n \in Server :
        \/ StepDown(n)
        \/ \E t \in Term \ {0} : Elect(n, t) \/ Win(n, t) \/ WinAlone(n, t)

Spec == Init /\ [][Next]_<<elected, leading>>
=============================================================================
