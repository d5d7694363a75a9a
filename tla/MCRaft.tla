------------------------------- MODULE MCRaft -------------------------------
(* Instances of Raft for TLC. *)
EXTENDS Raft, TLC

CONSTANTS n1, n2, n3, v1, v2

MCID  == [n \in Server |-> CASE n = n1 -> 1 [] n = n2 -> 2 [] n = n3 -> 3]
OddID == [n \in Server |-> CASE n = n1 -> 1 [] n = n2 -> 3 [] n = n3 -> 5]

\* Sound where the ids make no difference to the timers: where all are odd, with
\* ElectionTimeout = 2, and with ElectionTimeout = 1.
Symmetry == Permutations(Server) \cup Permutations(Value)
-----------------------------------------------------------------------------
\* Fairness for node n: its ticker runs; an RPC ends within its timeout; and of
\* the AppendEntries n keeps sending to a peer, and the answers that peer keeps
\* sending, not all are lost.  (Strong fairness of the tick: the in-flight
\* bound of the model, which the code does not have, may disable it.)
Delivered(from, to, type) ==
    \E m \in DOMAIN net :
        m.from = from /\ m.to = to /\ m.type = type /\ Receive(m)

Fairness(n) ==
    /\ SF_vars(BroadcastHeartbeat(n))
    /\ WF_vars(\E m \in DOMAIN net : Receive(m) \/ Lose(m))
    /\ \A p \in peers(n) : /\ SF_vars(Delivered(n, p, "MSG_APP"))
                           /\ SF_vars(Delivered(p, n, "MSG_APP_RESP"))

LiveSpec == Spec /\ Fairness(n1)

\* A leader that others have moved past (a partition healed, a newer candidate
\* or leader exists) learns of it and steps down.  It ignores the vote
\* requests of the newer term, and a newer leader ignores its heartbeats: the
\* rejections of followers and candidates are the only way.
StaleLeaderStepsDown ==
    (state[n1] = Leader /\ \E p \in peers(n1) : currentTerm[p] > currentTerm[n1])
        ~> state[n1] # Leader
=============================================================================
