--------------------------- MODULE ElectionProofs ---------------------------
(***************************************************************************)
(* Election safety of Raft and its refinement of Elections, for nodes that *)
(* are not restarted.                                                      *)
(*                                                                         *)
(* ElectionSafety is not inductive: it says nothing of the votes a leader  *)
(* was elected with.  VoteInv ties every vote a candidate counts, every    *)
(* grant in flight and every leader to the votedFor maps of the voters,    *)
(* and VoteOnce keeps those maps from changing.                            *)
(***************************************************************************)
EXTENDS RaftProofs

\* No node has voted in a term it has not reached yet.
NoEarlyVote ==
    \A v \in Server, t \in Term : votedFor[v][t] # None => t <= currentTerm[v]

\* A candidate counts votes it was given in its present term.
CountedVotesCast ==
    \A n \in Server : state[n] = Candidate =>
        \A v \in votes[n] : votedFor[v][currentTerm[n]] = n

\* A grant in flight has been recorded by its sender.
GrantRecorded(m) ==
    m.type = "MSG_VOTE_RESP" /\ m.granted => votedFor[m.from][m.term] = m.to

IsQuorum(Q) == Q \in SUBSET Server /\ Cardinality(Q) >= quorum

\* A quorum has voted for a leader in its present term.
LeaderElected ==
    \A n \in Server : state[n] = Leader =>
        \E Q : IsQuorum(Q) /\ \A v \in Q : votedFor[v][currentTerm[n]] = n

VoteInv ==
    /\ NoEarlyVote
    /\ CountedVotesCast
    /\ \A m \in DOMAIN net : GrantRecorded(m)
    /\ LeaderElected

\* What VoteOnce says of one step.
VotesKept ==
    \A n \in Server, t \in Term :
        votedFor[n][t] # None => votedFor'[n][t] = votedFor[n][t]

\* Any two majorities of the nodes share a node.
LEMMA QuorumsIntersect ==
    ASSUME NEW P, NEW Q, IsQuorum(P), IsQuorum(Q)
    PROVE  P \cap Q # {}
<1> DEFINE N == Cardinality(Server)
<1>1. IsFiniteSet(P) /\ IsFiniteSet(Q) /\ N \in Nat
  BY ServerAssumption, FS_Subset, FS_CardinalityType DEF IsQuorum
<1>2. Cardinality(P \cup Q) = Cardinality(P) + Cardinality(Q) - Cardinality(P \cap Q)
  BY <1>1, FS_Union
<1>3. Cardinality(P \cup Q) <= N
  <2>1. P \cup Q \in SUBSET Server
    BY DEF IsQuorum
  <2> QED BY <2>1, ServerAssumption, FS_Subset
<1>4. /\ Cardinality(P) \in Nat /\ Cardinality(Q) \in Nat
      /\ Cardinality(P \cup Q) \in Nat /\ Cardinality(P \cap Q) \in Nat
  BY <1>1, FS_CardinalityType, FS_Union, FS_Intersection
<1>5. Cardinality(P) >= N \div 2 + 1 /\ Cardinality(Q) >= N \div 2 + 1
  BY DEF IsQuorum, quorum
<1> HIDE DEF N
<1>6. Cardinality(P \cap Q) # 0
  BY <1>1, <1>2, <1>3, <1>4, <1>5
<1> QED BY <1>6, FS_EmptySet

LEMMA ElectionSafetyFacts ==
    ASSUME TypeOK, VoteInv
    PROVE  ElectionSafety
<1> SUFFICES ASSUME NEW a \in Server, NEW b \in Server,
                    state[a] = Leader, state[b] = Leader,
                    currentTerm[a] = currentTerm[b]
             PROVE  a = b
  BY DEF ElectionSafety
<1>1. PICK P : IsQuorum(P) /\ \A v \in P : votedFor[v][currentTerm[a]] = a
  BY DEF VoteInv, LeaderElected
<1>2. PICK Q : IsQuorum(Q) /\ \A v \in Q : votedFor[v][currentTerm[b]] = b
  BY DEF VoteInv, LeaderElected
<1>3. PICK v : v \in P /\ v \in Q
  BY <1>1, <1>2, QuorumsIntersect
<1> QED BY <1>1, <1>2, <1>3
-----------------------------------------------------------------------------
\* A step that casts no vote, grants none and makes no candidate or leader.
LEMMA QuietStep ==
    ASSUME TypeOK, VoteInv, TypeOK', votedFor' = votedFor,
           \A n \in Server :
              /\ currentTerm'[n] >= currentTerm[n]
              /\ \/ state'[n] = Follower
                 \/ /\ state'[n] = state[n] /\ votes'[n] = votes[n]
                    /\ currentTerm'[n] = currentTerm[n],
           \A m \in DOMAIN net' : m \in DOMAIN net \/ m.type # "MSG_VOTE_RESP"
    PROVE  VoteInv' /\ VotesKept
<1>1. NoEarlyVote'
  BY DEF NoEarlyVote, VoteInv, TypeOK, Term
<1>2. CountedVotesCast'
  BY DEF CountedVotesCast, VoteInv, Follower, Candidate
<1>3. \A m \in DOMAIN net' : GrantRecorded(m)'
  BY DEF GrantRecorded, VoteInv
<1>4. LeaderElected'
  <2> SUFFICES ASSUME NEW n \in Server, state'[n] = Leader
               PROVE  \E Q : IsQuorum(Q) /\ \A v \in Q : votedFor'[v][currentTerm'[n]] = n
    BY DEF LeaderElected, IsQuorum
  <2>1. state[n] = Leader /\ currentTerm'[n] = currentTerm[n]
    BY DEF Follower, Leader
  <2> QED BY <2>1 DEF VoteInv, LeaderElected
<1>5. VotesKept
  BY DEF VotesKept
<1> QED BY <1>1, <1>2, <1>3, <1>4, <1>5 DEF VoteInv

\* What a step that keeps the votes cast leaves true of them.
LEMMA KeptVotes ==
    ASSUME TypeOK, VoteInv, VotesKept
    PROVE  /\ \A m \in DOMAIN net : m \in Message => GrantRecorded(m)'
           /\ \A n \in Server : state[n] = Candidate =>
                 \A v \in votes[n] : votedFor'[v][currentTerm[n]] = n
           /\ \A n \in Server : state[n] = Leader =>
                 \E Q : IsQuorum(Q) /\ \A v \in Q : votedFor'[v][currentTerm[n]] = n
<1>1. \A n, v \in Server, t \in Term : votedFor[v][t] = n => votedFor'[v][t] = n
  BY ServerAssumption DEF VotesKept
<1>2. ASSUME NEW m \in DOMAIN net, m.type = "MSG_VOTE_RESP", m.granted
      PROVE  votedFor'[m.from][m.term] = m.to
  <2>1. m \in VoteRespMsg
    BY <1>2 DEF TypeOK, Message, VoteMsg, VoteRespMsg, AppMsg, AppRespMsg
  <2>2. votedFor[m.from][m.term] = m.to
    BY <1>2 DEF VoteInv, GrantRecorded
  <2> QED BY <1>1, <2>1, <2>2 DEF VoteRespMsg
<1>3. ASSUME NEW n \in Server, state[n] = Candidate, NEW v \in votes[n]
      PROVE  votedFor'[v][currentTerm[n]] = n
  <2>1. v \in Server /\ currentTerm[n] \in Term
    BY DEF TypeOK
  <2>2. votedFor[v][currentTerm[n]] = n
    BY <1>3 DEF VoteInv, CountedVotesCast
  <2> QED BY <1>1, <2>1, <2>2
<1>4. ASSUME NEW n \in Server, state[n] = Leader
      PROVE  \E Q : IsQuorum(Q) /\ \A v \in Q : votedFor'[v][currentTerm[n]] = n
  <2>1. PICK Q : IsQuorum(Q) /\ \A v \in Q : votedFor[v][currentTerm[n]] = n
    BY <1>4 DEF VoteInv, LeaderElected
  <2>2. \A v \in Q : v \in Server
    BY <2>1 DEF IsQuorum
  <2>3. \A v \in Q : votedFor'[v][currentTerm[n]] = n
    BY <1>1, <2>1, <2>2 DEF TypeOK
  <2> QED BY <2>1, <2>3
<1> QED BY <1>2, <1>3, <1>4 DEF GrantRecorded

\* campaign() opens a term in which the node has not voted.
LEMMA CampaignVotes ==
    ASSUME TypeOK, VoteInv, TypeOK', NEW n \in Server, Campaign(n)
    PROVE  VoteInv' /\ VotesKept
<1> DEFINE t == currentTerm[n] + 1
<1>1. t \in Term /\ currentTerm[n] \in Nat /\ n # None
  BY ServerAssumption, BoundAssumption DEF TypeOK, Campaign, Term
<1>2. /\ currentTerm' = [currentTerm EXCEPT ![n] = t]
      /\ votedFor' = [votedFor EXCEPT ![n] = [votedFor[n] EXCEPT ![t] = n]]
  BY DEF Campaign
<1>3. votedFor[n][t] = None
  BY <1>1 DEF VoteInv, NoEarlyVote
<1> HIDE DEF t
<1>4. VotesKept
  BY <1>1, <1>2, <1>3 DEF VotesKept, TypeOK
<1>5. votedFor'[n][t] = n /\ currentTerm'[n] = t
  BY <1>1, <1>2 DEF TypeOK
<1>6. NoEarlyVote'
  <2>1. t > currentTerm[n] /\ \A k \in Server : currentTerm[k] \in Nat
    BY <1>1 DEF t, TypeOK, Term
  <2> SUFFICES ASSUME NEW v \in Server, NEW u \in Term, votedFor'[v][u] # None
               PROVE  u <= currentTerm'[v]
    BY DEF NoEarlyVote
  <2>2. u \in Nat
    BY BoundAssumption DEF Term
  <2>3. CASE v = n /\ u = t
    BY <1>1, <1>5, <2>2, <2>3
  <2>4. CASE ~(v = n /\ u = t)
    <3>1. votedFor'[v][u] = votedFor[v][u]
      BY <1>1, <1>2, <2>4 DEF TypeOK
    <3>2. u <= currentTerm[v]
      BY <3>1 DEF VoteInv, NoEarlyVote
    <3>3. currentTerm'[v] \in {currentTerm[v], t} /\ (v # n => currentTerm'[v] = currentTerm[v])
          /\ (v = n => currentTerm'[v] = t)
      <4>1. currentTerm \in [Server -> Term]
        BY DEF TypeOK
      <4> QED BY <1>2, <4>1
    <3>4. t \in Nat
      BY <1>1 DEF t
    <3> QED BY <2>1, <2>2, <3>2, <3>3, <3>4
  <2> QED BY <2>3, <2>4
<1>7. \/ /\ becomeLeader(n) /\ net' = net /\ Cardinality(Server) = 1
      \/ /\ state' = [state EXCEPT ![n] = Candidate]
         /\ votes' = [votes EXCEPT ![n] = {n}]
         /\ \A m \in DOMAIN net' : m \in DOMAIN net \/ m.type = "MSG_VOTE"
  <2>1. CASE Cardinality(Server) = 1
    BY <2>1 DEF Campaign
  <2>2. CASE Cardinality(Server) # 1
    <3> DEFINE out == {[type |-> "MSG_VOTE", from |-> n, to |-> p,
                        term |-> currentTerm[n] + 1] : p \in peers(n)}
    <3>1. Transmit(EmptyBag, out)
      BY <2>2 DEF Campaign
    <3>2. \A m \in out : m.type = "MSG_VOTE"
      OBVIOUS
    <3> HIDE DEF out
    <3>3. \A m \in DOMAIN net' : m \in DOMAIN net \/ m.type = "MSG_VOTE"
      BY <3>1, <3>2, TransmitDomain
    <3> QED BY <2>2, <3>3 DEF Campaign
  <2> QED BY <2>1, <2>2
<1>8. \A k \in Server : k # n => /\ state'[k] = state[k] /\ votes'[k] = votes[k]
                                 /\ currentTerm'[k] = currentTerm[k]
  <2>1. \/ state' = [state EXCEPT ![n] = Candidate] /\ votes' = [votes EXCEPT ![n] = {n}]
        \/ state' = [state EXCEPT ![n] = Leader] /\ votes' = [votes EXCEPT ![n] = {}]
    BY <1>7 DEF becomeLeader
  <2>2. /\ state \in [Server -> State] /\ votes \in [Server -> SUBSET Server]
        /\ currentTerm \in [Server -> Term]
    BY DEF TypeOK
  <2> QED BY <1>2, <2>1, <2>2
<1>9. CountedVotesCast'
  <2> SUFFICES ASSUME NEW k \in Server, state'[k] = Candidate, NEW v \in votes'[k]
               PROVE  votedFor'[v][currentTerm'[k]] = k
    BY DEF CountedVotesCast
  <2>1. CASE k = n
    BY <1>5, <1>7, <2>1 DEF TypeOK, becomeLeader, Candidate, Leader
  <2>2. CASE k # n
    BY <1>4, <1>8, <2>2, KeptVotes
  <2> QED BY <2>1, <2>2
<1>10. \A m \in DOMAIN net' : GrantRecorded(m)'
  BY <1>4, <1>7, KeptVotes DEF TypeOK, GrantRecorded
<1>11. LeaderElected'
  <2> SUFFICES ASSUME NEW k \in Server, state'[k] = Leader
               PROVE  \E Q : IsQuorum(Q) /\ \A v \in Q : votedFor'[v][currentTerm'[k]] = k
    BY DEF LeaderElected, IsQuorum
  <2>1. CASE k = n
    <3>1. Cardinality(Server) = 1
      BY <1>7, <2>1 DEF TypeOK, Candidate, Leader
    <3>2. quorum = 1
      BY <3>1 DEF quorum
    <3>3. Cardinality({n}) = 1
      BY FS_Singleton
    <3>4. IsQuorum({n})
      BY <3>2, <3>3 DEF IsQuorum
    <3> QED BY <1>5, <2>1, <3>4
  <2>2. CASE k # n
    BY <1>4, <1>8, <2>2, KeptVotes
  <2> QED BY <2>1, <2>2
<1> QED BY <1>4, <1>6, <1>9, <1>10, <1>11 DEF VoteInv

\* handleVoteRequest grants only what votedFor allows, and records it.
LEMMA VoteRequestVotes ==
    ASSUME TypeOK, VoteInv, TypeOK', NEW m \in Message, NEW rcvd,
           HandleVoteRequest(m.to, m, rcvd)
    PROVE  VoteInv' /\ VotesKept
<1> DEFINE n == m.to
           grant == grantVote(n, m)
           resp == [type |-> "MSG_VOTE_RESP", from |-> n, to |-> m.from,
                    term |-> max(m.term, currentTerm[n]), granted |-> grant]
<1>1. n \in Server /\ m.from \in Server /\ m.term \in Term
  BY DEF HandleVoteRequest, Message, VoteMsg, VoteRespMsg, AppMsg, AppRespMsg
<1>2. /\ votedFor \in [Server -> [Term -> Server \cup {None}]]
      /\ state \in [Server -> State] /\ votes \in [Server -> SUBSET Server]
      /\ currentTerm \in [Server -> Term] /\ \A t \in Term : t \in Nat
  BY DEF TypeOK, Term
<1>3. /\ state[n] # Leader
      /\ \/ /\ m.term > currentTerm[n]
            /\ state'       = [state EXCEPT ![n] = Follower]
            /\ currentTerm' = [currentTerm EXCEPT ![n] = m.term]
            /\ votes'       = [votes EXCEPT ![n] = {}]
         \/ m.term <= currentTerm[n] /\ UNCHANGED <<state, currentTerm, votes>>
      /\ votedFor' = IF grant THEN [votedFor EXCEPT ![n] = [votedFor[n] EXCEPT ![m.term] = m.from]]
                     ELSE votedFor
      /\ Transmit(rcvd, {resp})
  BY <1>1, <1>2 DEF HandleVoteRequest, newerTerm, becomeFollower
<1>4. grant => m.term >= currentTerm[n] /\ votedFor[n][m.term] \in {None, m.from}
  BY DEF grantVote
<1>5. grant => resp.term = m.term
  BY <1>1, <1>2, <1>4 DEF max
<1>6. resp.type = "MSG_VOTE_RESP" /\ resp.from = n /\ resp.to = m.from /\ resp.granted = grant
  OBVIOUS
<1> HIDE DEF n, resp, grant
<1>7. VotesKept
  BY <1>1, <1>2, <1>3, <1>4 DEF VotesKept
<1>8. grant => votedFor'[n][m.term] = m.from
  BY <1>1, <1>2, <1>3
<1>9. /\ currentTerm'[n] \in Nat /\ currentTerm'[n] >= currentTerm[n]
      /\ m.term <= currentTerm'[n]
      /\ \A k \in Server : k # n => currentTerm'[k] = currentTerm[k]
  BY <1>1, <1>2, <1>3
<1>10. NoEarlyVote'
  <2> SUFFICES ASSUME NEW v \in Server, NEW u \in Term, votedFor'[v][u] # None
               PROVE  u <= currentTerm'[v]
    BY DEF NoEarlyVote
  <2>1. CASE v = n /\ u = m.term
    BY <1>9, <2>1
  <2>2. CASE ~(v = n /\ u = m.term)
    <3>1. votedFor'[v][u] = votedFor[v][u]
      BY <1>1, <1>2, <1>3, <2>2
    <3>2. u <= currentTerm[v]
      BY <3>1 DEF VoteInv, NoEarlyVote
    <3> QED BY <1>1, <1>2, <1>9, <3>2
  <2> QED BY <2>1, <2>2
<1>11. \A k \in Server : state'[k] # Follower =>
          /\ state'[k] = state[k] /\ votes'[k] = votes[k] /\ currentTerm'[k] = currentTerm[k]
  BY <1>1, <1>2, <1>3
<1>12. CountedVotesCast'
  BY <1>7, <1>11, KeptVotes DEF CountedVotesCast, Candidate, Follower
<1>13. LeaderElected'
  BY <1>7, <1>11, KeptVotes DEF LeaderElected, IsQuorum, Leader, Follower
<1>14. \A k \in DOMAIN net' : GrantRecorded(k)'
  <2>1. \A k \in DOMAIN net' : k \in DOMAIN net \/ k = resp
    BY <1>3, TransmitDomain
  <2>2. resp.granted => votedFor'[resp.from][resp.term] = resp.to
    BY <1>5, <1>6, <1>8
  <2>3. \A k \in DOMAIN net : GrantRecorded(k)'
    BY <1>7, KeptVotes DEF TypeOK
  <2> QED BY <2>1, <2>2, <2>3 DEF GrantRecorded
<1> QED BY <1>7, <1>10, <1>12, <1>13, <1>14 DEF VoteInv

\* handleVoteResponse counts only recorded votes.
LEMMA VoteResponseVotes ==
    ASSUME TypeOK, VoteInv, TypeOK', NEW m \in DOMAIN net, m \in Message, NEW rcvd,
           HandleVoteResponse(m.to, m, rcvd)
    PROVE  VoteInv' /\ VotesKept
<1> DEFINE n == m.to
           granted == IF m.granted THEN votes[n] \cup {m.from} ELSE votes[n] \ {m.from}
<1>1. n \in Server /\ m.from \in Server /\ m.term \in Term /\ m.type = "MSG_VOTE_RESP"
  BY DEF HandleVoteResponse, Message, VoteMsg, VoteRespMsg, AppMsg, AppRespMsg
<1>2. /\ state \in [Server -> State] /\ votes \in [Server -> SUBSET Server]
      /\ currentTerm \in [Server -> Term] /\ \A t \in Term : t \in Nat
  BY DEF TypeOK, Term
<1>3. votedFor' = votedFor /\ Transmit(rcvd, {}) /\ state[n] = Candidate
  BY DEF HandleVoteResponse
<1>4. VotesKept
  BY <1>3 DEF VotesKept
<1>5. \A k \in DOMAIN net' : k \in DOMAIN net
  BY <1>3, TransmitDomain
<1>6. \/ UNCHANGED <<state, currentTerm, votes>>
      \/ /\ m.term > currentTerm[n]
         /\ state' = [state EXCEPT ![n] = Follower]
         /\ currentTerm' = [currentTerm EXCEPT ![n] = m.term]
         /\ votes' = [votes EXCEPT ![n] = {}]
      \/ /\ m.term = currentTerm[n] /\ Cardinality(granted) >= quorum
         /\ state' = [state EXCEPT ![n] = Leader]
         /\ votes' = [votes EXCEPT ![n] = {}]
         /\ currentTerm' = currentTerm
      \/ /\ m.term = currentTerm[n]
         /\ votes' = [votes EXCEPT ![n] = granted]
         /\ UNCHANGED <<state, currentTerm>>
  BY DEF HandleVoteResponse, becomeLeader, becomeFollower, newerTerm
<1>7. m.term = currentTerm[n] => \A v \in granted : votedFor'[v][currentTerm[n]] = n
  <2>1. \A v \in votes[n] : votedFor[v][currentTerm[n]] = n
    BY <1>1, <1>3 DEF VoteInv, CountedVotesCast
  <2>2. m.granted => votedFor[m.from][m.term] = n
    BY <1>1 DEF VoteInv, GrantRecorded
  <2> QED BY <1>3, <2>1, <2>2
<1>8. granted \in SUBSET Server
  BY <1>1, <1>2
<1> HIDE DEF n, granted
<1>9. \A k \in Server :
         /\ currentTerm'[k] \in Nat /\ currentTerm'[k] >= currentTerm[k]
         /\ k # n => state'[k] = state[k] /\ votes'[k] = votes[k] /\ currentTerm'[k] = currentTerm[k]
  BY <1>1, <1>2, <1>6
<1>10. NoEarlyVote'
  <2> SUFFICES ASSUME NEW v \in Server, NEW u \in Term, votedFor'[v][u] # None
               PROVE  u <= currentTerm'[v]
    BY DEF NoEarlyVote
  <2>1. u <= currentTerm[v]
    BY <1>3 DEF VoteInv, NoEarlyVote
  <2> QED BY <1>2, <1>9, <2>1
<1>11. CountedVotesCast'
  <2> SUFFICES ASSUME NEW k \in Server, state'[k] = Candidate, NEW v \in votes'[k]
               PROVE  votedFor'[v][currentTerm'[k]] = k
    BY DEF CountedVotesCast
  <2>1. CASE k # n
    BY <1>4, <1>9, <2>1, KeptVotes
  <2>2. CASE k = n
    <3>1. \/ UNCHANGED <<state, currentTerm, votes>>
          \/ m.term = currentTerm[n] /\ votes'[n] = granted /\ currentTerm'[n] = currentTerm[n]
      BY <1>1, <1>2, <1>6, <2>2 DEF Candidate, Leader, Follower
    <3>2. CASE UNCHANGED <<state, currentTerm, votes>>
      BY <1>4, <3>2, KeptVotes
    <3>3. CASE m.term = currentTerm[n] /\ votes'[n] = granted /\ currentTerm'[n] = currentTerm[n]
      BY <1>7, <2>2, <3>3
    <3> QED BY <3>1, <3>2, <3>3
  <2> QED BY <2>1, <2>2
<1>12. LeaderElected'
  <2> SUFFICES ASSUME NEW k \in Server, state'[k] = Leader
               PROVE  \E Q : IsQuorum(Q) /\ \A v \in Q : votedFor'[v][currentTerm'[k]] = k
    BY DEF LeaderElected, IsQuorum
  <2>1. CASE k # n
    BY <1>4, <1>9, <2>1, KeptVotes
  <2>2. CASE k = n
    <3>1. /\ m.term = currentTerm[n] /\ Cardinality(granted) >= quorum
          /\ currentTerm'[n] = currentTerm[n]
      BY <1>1, <1>2, <1>3, <1>6, <2>2 DEF Candidate, Leader, Follower
    <3> QED BY <1>7, <1>8, <2>2, <3>1 DEF IsQuorum
  <2> QED BY <2>1, <2>2
<1>13. \A k \in DOMAIN net' : GrantRecorded(k)'
  BY <1>4, <1>5, KeptVotes DEF TypeOK
<1> QED BY <1>4, <1>10, <1>11, <1>12, <1>13 DEF VoteInv
-----------------------------------------------------------------------------
\* A step that sends no vote and in which at most one node changes its role,
\* by stepping down to a newer term.
LEMMA StepDownVotes ==
    ASSUME TypeOK, VoteInv, TypeOK', NEW n \in Server, NEW t \in Term,
           votedFor' = votedFor,
           \/ UNCHANGED <<state, currentTerm, votes>>
           \/ /\ t > currentTerm[n]
              /\ state' = [state EXCEPT ![n] = Follower]
              /\ currentTerm' = [currentTerm EXCEPT ![n] = t]
              /\ votes' = [votes EXCEPT ![n] = {}],
           \A m \in DOMAIN net' : m \in DOMAIN net \/ m.type # "MSG_VOTE_RESP"
    PROVE  VoteInv' /\ VotesKept
<1>1. /\ state \in [Server -> State] /\ votes \in [Server -> SUBSET Server]
      /\ currentTerm \in [Server -> Term] /\ \A u \in Term : u \in Nat
  BY DEF TypeOK, Term
<1>2. \A k \in Server :
         /\ currentTerm'[k] >= currentTerm[k]
         /\ \/ state'[k] = Follower
            \/ /\ state'[k] = state[k] /\ votes'[k] = votes[k]
               /\ currentTerm'[k] = currentTerm[k]
  BY <1>1
<1> QED BY <1>2, QuietStep

LEMMA AppendEntriesVotes ==
    ASSUME TypeOK, VoteInv, TypeOK', NEW m, m.to \in Server, m.term \in Term, NEW rcvd,
           HandleAppendEntries(m.to, m, rcvd)
    PROVE  VoteInv' /\ VotesKept
<1> DEFINE n == m.to
           reject == m.term < currentTerm[n] \/ ~logConsistent(n, m)
           resp == [type |-> "MSG_APP_RESP", from |-> n, to |-> m.from,
                    term |-> max(m.term, currentTerm[n]), success |-> ~reject]
<1>1. /\ Transmit(rcvd, IF answered(m, reject) THEN {resp} ELSE {})
      /\ votedFor' = votedFor
  BY DEF HandleAppendEntries
<1>2. \/ UNCHANGED <<state, currentTerm, votes>>
      \/ /\ m.term > currentTerm[n]
         /\ state' = [state EXCEPT ![n] = Follower]
         /\ currentTerm' = [currentTerm EXCEPT ![n] = m.term]
         /\ votes' = [votes EXCEPT ![n] = {}]
  BY DEF HandleAppendEntries, becomeFollower, newerTerm
<1>3. resp.type # "MSG_VOTE_RESP"
  OBVIOUS
<1> HIDE DEF n, resp, reject
<1>4. \A k \in DOMAIN net' : k \in DOMAIN net \/ k.type # "MSG_VOTE_RESP"
  BY <1>1, <1>3, TransmitDomain
<1> QED BY <1>1, <1>2, <1>4, StepDownVotes DEF n

LEMMA ReplicateVotes ==
    ASSUME TypeOK, VoteInv, TypeOK', NEW m, m.to \in Server, m.term \in Term, NEW rcvd,
           Replicate(m.to, m, rcvd)
    PROVE  VoteInv' /\ VotesKept
<1>1. PICK out : Transmit(rcvd, out) /\ \A k \in out : k.type = "MSG_APP"
  <2> DEFINE n == m.to
             new == [k \in 1 .. Len(m.entries) |->
                        [term |-> currentTerm[n], id |-> lastIndex(log[n]) + k,
                         data |-> m.entries[k].data]]
             l == append(log[n], new)
             out == IF m.entries = << >> THEN {}
                    ELSE {[type |-> "MSG_APP", from |-> n, to |-> p, term |-> currentTerm[n],
                           prevLogIdx |-> nextIndex[n][p] - 1,
                           prevLogTerm |-> term(l, nextIndex[n][p] - 1),
                           entries |-> slice(l, nextIndex[n][p], lastIndex(l)),
                           leaderCommitIdx |-> commitIndex[n]] : p \in peers(n)}
  <2>1. Transmit(rcvd, out)
    BY DEF Replicate
  <2> HIDE DEF l
  <2>2. \A k \in out : k.type = "MSG_APP"
    OBVIOUS
  <2> QED BY <2>1, <2>2
<1>2. \A k \in DOMAIN net' : k \in DOMAIN net \/ k.type # "MSG_VOTE_RESP"
  BY <1>1, TransmitDomain
<1>3. votedFor' = votedFor /\ UNCHANGED <<state, currentTerm, votes>>
  BY DEF Replicate, serverVars
<1> QED BY <1>2, <1>3, StepDownVotes
-----------------------------------------------------------------------------
LEMMA ReceiveVotes ==
    ASSUME TypeOK, VoteInv, TypeOK', NEW m \in DOMAIN net, Receive(m)
    PROVE  VoteInv' /\ VotesKept
<1> DEFINE rcvd == SetToBag({m})
           n == m.to
<1>1. m \in Message /\ n \in Server /\ m.term \in Term
  BY DEF TypeOK, Message, VoteMsg, VoteRespMsg, AppMsg, AppRespMsg
<1>2. CASE HandleVoteRequest(m.to, m, rcvd)
  BY <1>1, <1>2, VoteRequestVotes
<1>3. CASE HandleVoteResponse(m.to, m, rcvd)
  BY <1>1, <1>3, VoteResponseVotes
<1>4. CASE HandleAppendEntries(m.to, m, rcvd)
  BY <1>1, <1>4, AppendEntriesVotes
<1>5. CASE HandleAppendResponse(m.to, m, rcvd)
  <2>1. votedFor' = votedFor /\ Transmit(rcvd, {})
    BY <1>5 DEF HandleAppendResponse
  <2>2. \A k \in DOMAIN net' : k \in DOMAIN net
    BY <2>1, TransmitDomain
  <2>3. \/ UNCHANGED <<state, currentTerm, votes>>
        \/ /\ m.term > currentTerm[n]
           /\ state' = [state EXCEPT ![n] = Follower]
           /\ currentTerm' = [currentTerm EXCEPT ![n] = m.term]
           /\ votes' = [votes EXCEPT ![n] = {}]
    BY <1>5 DEF HandleAppendResponse, becomeFollower, newerTerm
  <2> QED BY <1>1, <2>1, <2>2, <2>3, StepDownVotes
<1>6. CASE Replicate(m.to, m, rcvd)
  BY <1>1, <1>6, ReplicateVotes
<1>7. CASE Ignore(m.to, m, rcvd)
  <2>1. UNCHANGED <<state, currentTerm, votes, votedFor>> /\ Transmit(rcvd, {})
    BY <1>7 DEF Ignore, serverVars
  <2>2. \A k \in DOMAIN net' : k \in DOMAIN net
    BY <2>1, TransmitDomain
  <2> QED BY <1>1, <2>1, <2>2, StepDownVotes
<1> QED BY <1>2, <1>3, <1>4, <1>5, <1>6, <1>7 DEF Receive

LEMMA NextVotes ==
    ASSUME TypeOK, VoteInv, TypeOK', [Next]_vars
    PROVE  VoteInv' /\ VotesKept
<1>1. ASSUME NEW n \in Server, TickWait(n) PROVE VoteInv' /\ VotesKept
  <2>1. UNCHANGED <<state, currentTerm, votes, votedFor, net>> /\ currentTerm[n] \in Term
    BY <1>1 DEF TickWait, TypeOK
  <2> QED BY <2>1, StepDownVotes
<1>2. ASSUME NEW n \in Server, Campaign(n) PROVE VoteInv' /\ VotesKept
  BY <1>2, CampaignVotes
<1>3. ASSUME NEW n \in Server, BroadcastHeartbeat(n) PROVE VoteInv' /\ VotesKept
  <2> DEFINE out == {[type |-> "MSG_APP", from |-> n, to |-> p, term |-> currentTerm[n],
                      prevLogIdx |-> matchIndex[n][p],
                      prevLogTerm |-> term(log[n], matchIndex[n][p]),
                      entries |-> << >>, leaderCommitIdx |-> commitIndex[n]] : p \in peers(n)}
  <2>1. Transmit(EmptyBag, out) /\ UNCHANGED serverVars /\ currentTerm[n] \in Term
    BY <1>3 DEF BroadcastHeartbeat, TypeOK
  <2>2. \A k \in out : k.type # "MSG_VOTE_RESP"
    OBVIOUS
  <2> HIDE DEF out
  <2>3. \A k \in DOMAIN net' : k \in DOMAIN net \/ k.type # "MSG_VOTE_RESP"
    BY <2>1, <2>2, TransmitDomain
  <2> QED BY <2>1, <2>3, StepDownVotes DEF serverVars
<1>4. ASSUME NEW n \in Server, NEW v \in Value, Put(n, v) PROVE VoteInv' /\ VotesKept
  <2> DEFINE m == Proposal(n, v)
  <2>1. m.to = n /\ m.term = 0 /\ m.term \in Term
    BY BoundAssumption DEF Proposal, Term
  <2>2. HandleAppendEntries(m.to, m, EmptyBag) \/ Replicate(m.to, m, EmptyBag)
    BY <1>4, <2>1 DEF Put
  <2> HIDE DEF m
  <2> QED BY <2>1, <2>2, AppendEntriesVotes, ReplicateVotes
<1>5. ASSUME NEW m \in DOMAIN net, Receive(m) PROVE VoteInv' /\ VotesKept
  BY <1>5, ReceiveVotes
<1>6. ASSUME NEW m \in DOMAIN net, Lose(m) PROVE VoteInv' /\ VotesKept
  <2>1. \A k \in DOMAIN net' : k \in DOMAIN net
    BY <1>6, LoseDomain
  <2>2. UNCHANGED serverVars /\ m.to \in Server /\ m.term \in Term
    BY <1>6 DEF Lose, TypeOK, Message, VoteMsg, VoteRespMsg, AppMsg, AppRespMsg
  <2> QED BY <2>1, <2>2, StepDownVotes DEF serverVars
<1>7. CASE UNCHANGED vars
  BY <1>7 DEF VoteInv, NoEarlyVote, CountedVotesCast, GrantRecorded, LeaderElected, IsQuorum,
              VotesKept, vars, serverVars
<1> QED BY <1>1, <1>2, <1>3, <1>4, <1>5, <1>6, <1>7 DEF Next

LEMMA InitVotes ==
    ASSUME Init
    PROVE  VoteInv
<1>1. DOMAIN net = {}
  BY DEF Init, EmptyBag, SetToBag
<1> QED BY <1>1 DEF Init, VoteInv, NoEarlyVote, CountedVotesCast, LeaderElected,
                    Follower, Candidate, Leader

\* Whatever the order of vote requests, grants, late answers and campaigns, no
\* term ever has two leaders.
THEOREM OneLeaderPerTerm == Spec => []ElectionSafety
<1>1. Init => TypeOK /\ IndexInv /\ VoteInv
  BY InitInv, InitVotes
<1>2. TypeOK /\ IndexInv /\ VoteInv /\ [Next]_vars => (TypeOK /\ IndexInv /\ VoteInv)'
  BY NextInv, NextVotes
<1>3. TypeOK /\ VoteInv => ElectionSafety
  BY ElectionSafetyFacts
<1> QED BY <1>1, <1>2, <1>3, PTL DEF Spec

\* A vote is cast at most once per term and is never taken back.
THEOREM VotesAreFinal == Spec => VoteOnce
<1>1. Init => TypeOK /\ IndexInv /\ VoteInv
  BY InitInv, InitVotes
<1>2. TypeOK /\ IndexInv /\ VoteInv /\ [Next]_vars => (TypeOK /\ IndexInv /\ VoteInv)'
  BY NextInv, NextVotes
<1>3. TypeOK /\ IndexInv /\ VoteInv /\ [Next]_vars => [VotesKept]_vars
  BY NextInv, NextVotes
<1>4. [VotesKept]_vars => [\A n \in Server, t \in Term :
          votedFor[n][t] # None => votedFor'[n][t] = votedFor[n][t]]_vars
  BY DEF VotesKept
<1> QED BY <1>1, <1>2, <1>3, <1>4, PTL DEF Spec, VoteOnce
-----------------------------------------------------------------------------
(* Raft implements Elections, and its terms and commit indices only grow.  To
   VoteInv, which says who voted for whom, two facts are added: nobody asks for
   votes or leads in term 0. *)

\* What Monotonic says of one step.
Forward ==
    \A n \in Server :
        /\ currentTerm'[n] >= currentTerm[n]
        /\ commitIndex'[n] >= commitIndex[n]
        /\ state[n] = Leader /\ state'[n] # Leader => currentTerm'[n] > currentTerm[n]

\* A step that leaves the commit index alone, and the term too unless a node
\* moves to a higher one or a candidate wins.
LEMMA RoleStep ==
    ASSUME TypeOK, commitIndex' = commitIndex, NEW n \in Server, NEW t \in Term, NEW s \in State,
           \/ state' = state
           \/ state' = [state EXCEPT ![n] = s],
           \/ currentTerm' = currentTerm /\ (state' = state \/ s = Leader)
           \/ currentTerm' = [currentTerm EXCEPT ![n] = t] /\ t > currentTerm[n]
    PROVE  Forward
<1>1. /\ currentTerm \in [Server -> Term] /\ state \in [Server -> State]
      /\ \A k \in Server : commitIndex[k] \in Nat /\ currentTerm[k] \in Nat
      /\ t \in Nat
  BY DEF TypeOK, Term
<1> QED BY <1>1 DEF Forward

LEMMA AppendEntriesForward ==
    ASSUME TypeOK, NEW m \in AppMsg, NEW rcvd, HandleAppendEntries(m.to, m, rcvd)
    PROVE  Forward
<1> DEFINE n      == m.to
           reject == m.term < currentTerm[n] \/ ~logConsistent(n, m)
           l      == IF reject THEN log[n] ELSE append(log[n], m.entries)
           c      == IF reject THEN commitIndex[n]
                     ELSE maybeCommit(l, commitIndex[n], min(m.leaderCommitIdx, lastIndex(l)))
<1>1. n \in Server /\ m.term \in Term /\ m.leaderCommitIdx \in Nat /\ m.entries \in Seq(Entry)
  BY DEF AppMsg
<1>2. /\ currentTerm \in [Server -> Term] /\ state \in [Server -> State]
      /\ commitIndex \in [Server -> Nat] /\ log[n] \in Seq(Entry) /\ \A t \in Term : t \in Nat
  BY <1>1 DEF TypeOK, Term
<1>3. lastIndex(l) \in Nat
  <2>1. append(log[n], m.entries) \in Seq(Entry)
    BY <1>1, <1>2 DEF append
  <2>2. l \in Seq(Entry)
    BY <1>2, <2>1
  <2> HIDE DEF l
  <2> QED BY <2>2, LastIndexFacts
<1>4. c \in Nat /\ c >= commitIndex[n]
  <2> HIDE DEF l
  <2> QED BY <1>1, <1>2, <1>3 DEF maybeCommit, min
<1>5. /\ state[n] # Leader
      /\ commitIndex' = [commitIndex EXCEPT ![n] = c]
      /\ \/ UNCHANGED <<state, currentTerm>>
         \/ /\ m.term > currentTerm[n]
            /\ state' = [state EXCEPT ![n] = Follower]
            /\ currentTerm' = [currentTerm EXCEPT ![n] = m.term]
  BY DEF HandleAppendEntries, becomeFollower, newerTerm
<1> HIDE DEF n, c
<1> QED BY <1>1, <1>2, <1>4, <1>5 DEF Forward

LEMMA AppendResponseForward ==
    ASSUME TypeOK, NEW m \in Message, NEW rcvd, HandleAppendResponse(m.to, m, rcvd)
    PROVE  Forward
<1> DEFINE n     == m.to
           match == [matchIndex[n] EXCEPT ![m.from] = lastIndex(log[n])]
<1>1. n \in Server /\ m.term \in Term
  BY DEF HandleAppendResponse, Message, VoteMsg, VoteRespMsg, AppMsg, AppRespMsg
<1>2. /\ currentTerm \in [Server -> Term] /\ state \in [Server -> State]
      /\ commitIndex \in [Server -> Nat] /\ \A t \in Term : t \in Nat
  BY DEF TypeOK, Term
<1>3. \A c \in {commitIndex[n]} \cup Replicated(n, match) : c \in Int /\ c >= commitIndex[n]
  <2>1. lastIndex(log[n]) \in Nat
    BY <1>1, LastIndexFacts DEF TypeOK
  <2> QED BY <1>1, <1>2, <2>1 DEF Replicated
<1>4. \/ /\ UNCHANGED commitIndex /\ m.term > currentTerm[n]
         /\ state' = [state EXCEPT ![n] = Follower]
         /\ currentTerm' = [currentTerm EXCEPT ![n] = m.term]
      \/ UNCHANGED <<state, currentTerm, commitIndex>>
      \/ /\ \E c \in {commitIndex[n]} \cup Replicated(n, match) :
               commitIndex' = [commitIndex EXCEPT ![n] = c]
         /\ UNCHANGED <<state, currentTerm>>
  BY DEF HandleAppendResponse, becomeFollower
<1> HIDE DEF n, match
<1> QED BY <1>1, <1>2, <1>3, <1>4 DEF Forward

LEMMA ReceiveForward ==
    ASSUME TypeOK, NEW m \in DOMAIN net, Receive(m)
    PROVE  Forward
<1> DEFINE rcvd == SetToBag({m})
           n == m.to
<1>1. m \in Message /\ n \in Server /\ m.term \in Term /\ {Follower, Leader} \subseteq State
  BY DEF TypeOK, Message, VoteMsg, VoteRespMsg, AppMsg, AppRespMsg, State
<1>2. CASE HandleVoteRequest(n, m, rcvd)
  <2>1. \/ UNCHANGED <<state, currentTerm>>
        \/ /\ m.term > currentTerm[n]
           /\ state' = [state EXCEPT ![n] = Follower]
           /\ currentTerm' = [currentTerm EXCEPT ![n] = m.term]
    BY <1>2 DEF HandleVoteRequest, becomeFollower, newerTerm
  <2> QED BY <1>1, <1>2, <2>1, RoleStep DEF HandleVoteRequest, logVars
<1>3. CASE HandleVoteResponse(n, m, rcvd)
  <2>1. \/ UNCHANGED <<state, currentTerm>>
        \/ /\ m.term > currentTerm[n]
           /\ state' = [state EXCEPT ![n] = Follower]
           /\ currentTerm' = [currentTerm EXCEPT ![n] = m.term]
        \/ state' = [state EXCEPT ![n] = Leader] /\ UNCHANGED currentTerm
    BY <1>3 DEF HandleVoteResponse, becomeFollower, becomeLeader, newerTerm
  <2> QED BY <1>1, <1>3, <2>1, RoleStep DEF HandleVoteResponse, logVars
<1>4. CASE HandleAppendEntries(n, m, rcvd)
  BY <1>1, <1>4, AppMsgType, AppendEntriesForward DEF HandleAppendEntries
<1>5. CASE HandleAppendResponse(n, m, rcvd)
  BY <1>1, <1>5, AppendResponseForward
<1>6. CASE Replicate(n, m, rcvd) \/ Ignore(n, m, rcvd)
  BY <1>1, <1>6, RoleStep DEF Replicate, Ignore, serverVars, logVars
<1> QED BY <1>2, <1>3, <1>4, <1>5, <1>6 DEF Receive

LEMMA ProposalType ==
    ASSUME NEW n \in Server, NEW v \in Value
    PROVE  Proposal(n, v) \in AppMsg /\ Proposal(n, v).to = n
<1> DEFINE e == [term |-> 0, id |-> 0, data |-> v]
<1>1. e \in Entry /\ 0 \in Term
  BY BoundAssumption DEF Entry, Term
<1> HIDE DEF e
<1>2. <<e>> \in Seq(Entry)
  BY <1>1
<1>3. Proposal(n, v) = [type |-> "MSG_APP", from |-> None, to |-> n, term |-> 0,
                        prevLogIdx |-> 0, prevLogTerm |-> 0,
                        entries |-> <<e>>, leaderCommitIdx |-> 0]
  BY DEF Proposal, e
<1> QED BY <1>1, <1>2, <1>3 DEF AppMsg

LEMMA NextForward ==
    ASSUME TypeOK, [Next]_vars
    PROVE  Forward
<1>1. ASSUME NEW n \in Server, TickWait(n) \/ BroadcastHeartbeat(n) PROVE Forward
  <2>1. UNCHANGED <<state, currentTerm, commitIndex>> /\ currentTerm[n] \in Term /\ state[n] \in State
    BY <1>1 DEF TickWait, BroadcastHeartbeat, serverVars, logVars, TypeOK
  <2> QED BY <2>1, RoleStep
<1>2. ASSUME NEW n \in Server, Campaign(n) PROVE Forward
  <2> DEFINE t == currentTerm[n] + 1
  <2>1. t \in Term /\ t > currentTerm[n] /\ currentTerm' = [currentTerm EXCEPT ![n] = t]
    BY <1>2, BoundAssumption DEF Campaign, TypeOK, Term
  <2>2. /\ commitIndex' = commitIndex
        /\ \E s \in State : state' = [state EXCEPT ![n] = s]
    BY <1>2 DEF Campaign, becomeLeader, logVars, State
  <2> HIDE DEF t
  <2> QED BY <2>1, <2>2, RoleStep
<1>3. ASSUME NEW n \in Server, NEW v \in Value, Put(n, v) PROVE Forward
  <2> DEFINE m == Proposal(n, v)
  <2>1. m \in AppMsg /\ m.to = n
    BY ProposalType
  <2>2. HandleAppendEntries(m.to, m, EmptyBag) \/ Replicate(m.to, m, EmptyBag)
    BY <1>3, <2>1 DEF Put
  <2> HIDE DEF m
  <2>3. CASE HandleAppendEntries(m.to, m, EmptyBag)
    BY <2>1, <2>3, AppendEntriesForward
  <2>4. CASE Replicate(m.to, m, EmptyBag)
    <3>1. UNCHANGED <<state, currentTerm, commitIndex>> /\ currentTerm[n] \in Term /\ state[n] \in State
      BY <2>4 DEF Replicate, serverVars, TypeOK
    <3> QED BY <3>1, RoleStep
  <2> QED BY <2>2, <2>3, <2>4
<1>4. ASSUME NEW m \in DOMAIN net, Receive(m) PROVE Forward
  BY <1>4, ReceiveForward
<1>5. CASE UNCHANGED <<state, currentTerm, commitIndex>>
  BY <1>5 DEF Forward, TypeOK, Term
<1>6. ASSUME NEW m \in DOMAIN net, Lose(m) PROVE Forward
  BY <1>5, <1>6 DEF Lose, serverVars, logVars
<1> QED BY <1>1, <1>2, <1>3, <1>4, <1>5, <1>6 DEF Next, vars, serverVars, logVars

\* A node's term and commit index never go backwards, and a leader leaves
\* office only for a higher term, whatever messages of older terms arrive.
THEOREM TermsAndCommitsGrow == Spec => Monotonic
<1>1. Init => TypeOK /\ IndexInv
  BY InitInv
<1>2. TypeOK /\ IndexInv /\ [Next]_vars => (TypeOK /\ IndexInv)'
  BY NextInv
<1>3. TypeOK /\ [Next]_vars =>
        [\A n \in Server :
          /\ currentTerm'[n] >= currentTerm[n]
          /\ commitIndex'[n] >= commitIndex[n]
          /\ state[n] = Leader /\ state'[n] # Leader => currentTerm'[n] > currentTerm[n]]_vars
  BY NextForward DEF Forward
<1> QED BY <1>1, <1>2, <1>3, PTL DEF Spec, Monotonic
-----------------------------------------------------------------------------
(* The refinement of Elections. *)

\* Nobody asks for votes, campaigns or leads in term 0.
TermsCount ==
    /\ \A m \in DOMAIN net : m.type = "MSG_VOTE" => m.term > 0
    /\ \A n \in Server : state[n] # Follower => currentTerm[n] > 0

LEMMA QuorateUnique ==
    ASSUME NEW t, NEW a, NEW b, quorate(t, a), quorate(t, b)
    PROVE  a = b
<1>1. IsQuorum(votedBy(t, a)) /\ IsQuorum(votedBy(t, b))
  BY DEF quorate, IsQuorum, votedBy
<1>2. PICK v : v \in votedBy(t, a) /\ v \in votedBy(t, b)
  BY <1>1, QuorumsIntersect
<1> QED BY <1>2 DEF votedBy

LEMMA ElectedFacts ==
    ASSUME NEW t \in Term
    PROVE  /\ \A n \in Server : quorate(t, n) => Elected[t] = n
           /\ Elected[t] # None => Elected[t] \in Server /\ quorate(t, Elected[t])
           /\ Elected[t] = None => \A n \in Server : ~quorate(t, n)
<1>1. CASE \E n \in Server : quorate(t, n)
  <2>1. Elected[t] = CHOOSE n \in Server : quorate(t, n)
    BY <1>1 DEF Elected
  <2>2. Elected[t] \in Server /\ quorate(t, Elected[t])
    BY <1>1, <2>1
  <2> QED BY <2>2, QuorateUnique, ServerAssumption
<1>2. CASE ~\E n \in Server : quorate(t, n)
  BY <1>2 DEF Elected
<1> QED BY <1>1, <1>2

\* The same in the next state.
LEMMA ElectedFactsNext ==
    ASSUME NEW t \in Term
    PROVE  /\ \A n \in Server : quorate(t, n)' => Elected'[t] = n
           /\ Elected'[t] # None => Elected'[t] \in Server /\ quorate(t, Elected[t])'
           /\ Elected'[t] = None => \A n \in Server : ~quorate(t, n)'
<1>1. \A a, b : quorate(t, a)' /\ quorate(t, b)' => a = b
  <2> SUFFICES ASSUME NEW a, NEW b, quorate(t, a)', quorate(t, b)' PROVE a = b
    OBVIOUS
  <2>1. IsQuorum(votedBy(t, a)') /\ IsQuorum(votedBy(t, b)')
    BY DEF quorate, IsQuorum, votedBy, quorum
  <2>2. PICK v : v \in votedBy(t, a)' /\ v \in votedBy(t, b)'
    BY <2>1, QuorumsIntersect
  <2> QED BY <2>2 DEF votedBy
<1>2. CASE \E n \in Server : quorate(t, n)'
  <2>1. Elected'[t] = CHOOSE n \in Server : quorate(t, n)'
    BY <1>2 DEF Elected
  <2>2. PICK n \in Server : n = Elected'[t] /\ quorate(t, n)'
    BY <1>2, <2>1
  <2> QED BY <1>1, <2>2, ServerAssumption
<1>3. CASE ~\E n \in Server : quorate(t, n)'
  BY <1>3 DEF Elected
<1> QED BY <1>2, <1>3

\* A quorum of votes stays one.
LEMMA QuorateKept ==
    ASSUME TypeOK, VotesKept, NEW t \in Term, NEW n \in Server, quorate(t, n)
    PROVE  quorate(t, n)'
<1>1. votedBy(t, n) \subseteq votedBy(t, n)'
  BY ServerAssumption DEF votedBy, VotesKept
<1>2. votedBy(t, n)' \subseteq Server
  BY DEF votedBy
<1>3. IsFiniteSet(votedBy(t, n)')
  BY <1>2, ServerAssumption, FS_Subset
<1>4. /\ Cardinality(votedBy(t, n)) <= Cardinality(votedBy(t, n)')
      /\ Cardinality(votedBy(t, n)) \in Nat /\ Cardinality(votedBy(t, n)') \in Nat
  <2>1. IsFiniteSet(votedBy(t, n))
    BY <1>1, <1>3, FS_Subset
  <2> QED BY <1>1, <1>3, <2>1, FS_Subset, FS_CardinalityType
<1>5. quorum \in Nat
  <2>1. Cardinality(Server) \in Nat
    BY ServerAssumption, FS_CardinalityType
  <2> QED BY <2>1 DEF quorum
<1> QED BY <1>4, <1>5 DEF quorate

\* No vote is cast: no term is decided.
LEMMA NoVoteCast ==
    ASSUME votedFor' = votedFor
    PROVE  Elected' = Elected
BY DEF Elected, quorate, votedBy, quorum

\* A vote that is cast, or cast again, decides at most its own term, for the
\* node it is cast for.
LEMMA VoteCast ==
    ASSUME TypeOK, VotesKept, NEW v \in Server, NEW t \in Term, NEW a \in Server,
           votedFor' = [votedFor EXCEPT ![v] = [votedFor[v] EXCEPT ![t] = a]]
    PROVE  \/ Elected' = Elected
           \/ Elected[t] = None /\ Elected' = [Elected EXCEPT ![t] = a]
<1>1. votedFor \in [Server -> [Term -> Server \cup {None}]]
  BY DEF TypeOK
<1>2. ASSUME NEW u \in Term, NEW n \in Server, u # t \/ n # a, quorate(u, n)'
      PROVE  quorate(u, n)
  <2>1. \A w \in Server : votedFor'[w][u] = n => votedFor[w][u] = n
    BY <1>1, <1>2
  <2>2. votedBy(u, n)' \subseteq votedBy(u, n)
    BY <2>1 DEF votedBy
  <2>3. votedBy(u, n) \subseteq votedBy(u, n)'
    BY ServerAssumption DEF votedBy, VotesKept
  <2>4. votedBy(u, n)' = votedBy(u, n)
    BY <2>2, <2>3
  <2> QED BY <1>2, <2>4 DEF quorate, quorum
<1>3. ASSUME NEW u \in Term, u # t \/ Elected[u] # None \/ Elected'[u] # a
      PROVE  Elected'[u] = Elected[u]
  <2>1. CASE Elected[u] # None
    <3>1. Elected[u] \in Server /\ quorate(u, Elected[u])
      BY <2>1, ElectedFacts
    <3>2. PICK n \in Server : n = Elected[u] /\ quorate(u, n)
      BY <3>1
    <3>3. quorate(u, n)'
      BY <3>2, QuorateKept
    <3> QED BY <3>2, <3>3, ElectedFactsNext
  <2>2. CASE Elected[u] = None
    <3> SUFFICES ASSUME Elected'[u] # None PROVE FALSE
      BY <2>2
    <3>1. PICK n \in Server : n = Elected'[u] /\ quorate(u, n)'
      BY ElectedFactsNext
    <3>2. quorate(u, n)
      BY <1>2, <1>3, <2>2, <3>1
    <3> QED BY <2>2, <3>2, ElectedFacts
  <2> QED BY <2>1, <2>2
<1>4. Elected = [u \in Term |-> Elected[u]] /\ Elected' = [u \in Term |-> Elected'[u]]
  BY DEF Elected
<1> HIDE DEF Elected
<1>5. CASE Elected[t] # None \/ Elected'[t] # a
  BY <1>3, <1>4, <1>5
<1>6. CASE Elected[t] = None /\ Elected'[t] = a
  BY <1>3, <1>4, <1>6
<1> QED BY <1>5, <1>6
-----------------------------------------------------------------------------
\* A step in which no node gains or leaves office.
LEMMA LeadersStay ==
    ASSUME \A n \in Server : state'[n] = Leader <=> state[n] = Leader,
           \A n \in Server : state[n] = Leader => currentTerm'[n] = currentTerm[n]
    PROVE  Leading' = Leading
BY DEF Leading

\* A step in which only n may step down, or take over a newer term, and no
\* vote is cast.
LEMMA StepDownOffice ==
    ASSUME TypeOK, TermsCount, NEW n \in Server, NEW t \in Term, votedFor' = votedFor,
           \/ UNCHANGED <<state, currentTerm>>
           \/ /\ state' = [state EXCEPT ![n] = Follower]
              /\ currentTerm' = [currentTerm EXCEPT ![n] = t]
    PROVE  [Office!Next]_<<Elected, Leading>>
<1>1. Elected' = Elected
  BY NoVoteCast
<1>2. state \in [Server -> State] /\ currentTerm \in [Server -> Term] /\ \A u \in Term : u \in Nat
  BY DEF TypeOK, Term
<1>3. CASE state[n] # Leader \/ UNCHANGED <<state, currentTerm>>
  <2>1. Leading' = Leading
    BY <1>2, <1>3, LeadersStay DEF Follower, Leader
  <2> QED BY <1>1, <2>1
<1>4. CASE /\ state[n] = Leader
           /\ state' = [state EXCEPT ![n] = Follower]
           /\ currentTerm' = [currentTerm EXCEPT ![n] = t]
  <2>1. Leading[n] > 0
    BY <1>4 DEF Leading, TermsCount, Leader, Follower
  <2>2. Leading' = [Leading EXCEPT ![n] = 0]
    BY <1>2, <1>4 DEF Leading, Leader, Follower
  <2>3. Office!StepDown(n)
    BY <1>1, <2>1, <2>2 DEF Office!StepDown
  <2> QED BY <2>3 DEF Office!Next
<1> QED BY <1>3, <1>4

LEMMA CampaignOffice ==
    ASSUME TypeOK, VoteInv, VotesKept, NEW n \in Server, Campaign(n)
    PROVE  [Office!Next]_<<Elected, Leading>>
<1>1. PICK t \in Term : t = currentTerm[n] + 1 /\ t > 0 /\ currentTerm[n] \in Nat
  BY BoundAssumption DEF TypeOK, Campaign, Term
<1>2. /\ state[n] # Leader
      /\ currentTerm' = [currentTerm EXCEPT ![n] = t]
      /\ votedFor' = [votedFor EXCEPT ![n] = [votedFor[n] EXCEPT ![t] = n]]
  BY <1>1 DEF Campaign
<1>3. votedFor[n][t] = None
  BY <1>1 DEF VoteInv, NoEarlyVote
<1>4. \/ state' = [state EXCEPT ![n] = Leader] /\ Cardinality(Server) = 1
      \/ state' = [state EXCEPT ![n] = Candidate]
  BY DEF Campaign, becomeLeader
<1>5. state \in [Server -> State] /\ currentTerm \in [Server -> Term]
  BY DEF TypeOK
<1>6. \/ Elected' = Elected
      \/ Elected[t] = None /\ Elected' = [Elected EXCEPT ![t] = n]
  BY <1>1, <1>2, VoteCast
<1>7. CASE state' = [state EXCEPT ![n] = Candidate]
  <2>1. Leading' = Leading
    BY <1>2, <1>5, <1>7, LeadersStay DEF Candidate, Leader
  <2>2. Elected' = Elected \/ Office!Elect(n, t)
    BY <1>6, <2>1 DEF Office!Elect
  <2> QED BY <1>1, <2>1, <2>2 DEF Office!Next
<1>8. CASE state' = [state EXCEPT ![n] = Leader] /\ Cardinality(Server) = 1
  <2>1. Server = {n} /\ quorum = 1
    <3>1. PICK x : Server = {x}
      BY <1>8, ServerAssumption, FS_Singleton
    <3> QED BY <1>8, <3>1 DEF quorum
  <2>2. Leading[n] = 0 /\ Leading' = [Leading EXCEPT ![n] = t]
    BY <1>2, <1>5, <1>8 DEF Leading
  <2>3. Elected[t] = None
    <3> SUFFICES ASSUME quorate(t, n) PROVE FALSE
      BY <1>1, <2>1, ElectedFacts
    <3>1. votedBy(t, n) = {}
      BY <1>3, <2>1, ServerAssumption DEF votedBy
    <3>2. Cardinality(votedBy(t, n)) = 0
      BY <3>1, FS_EmptySet
    <3> QED BY <2>1, <3>2 DEF quorate
  <2>4. Elected'[t] = n
    <3>1. votedFor'[n][t] = n
      BY <1>1, <1>2 DEF TypeOK
    <3>2. votedBy(t, n)' = {n}
      BY <2>1, <3>1 DEF votedBy
    <3>3. Cardinality(votedBy(t, n)') = 1
      BY <3>2, FS_Singleton
    <3>4. quorate(t, n)'
      BY <2>1, <3>3 DEF quorate, quorum
    <3> QED BY <1>1, <3>4, ElectedFactsNext
  <2>5. Elected' = [Elected EXCEPT ![t] = n]
    BY <1>6, <2>3, <2>4, ServerAssumption
  <2>6. Office!WinAlone(n, t)
    BY <2>2, <2>3, <2>5 DEF Office!WinAlone
  <2> QED BY <1>1, <2>6 DEF Office!Next
<1> QED BY <1>4, <1>7, <1>8

LEMMA VoteRequestOffice ==
    ASSUME TypeOK, VotesKept, TermsCount, NEW m \in DOMAIN net, m \in Message, NEW rcvd,
           HandleVoteRequest(m.to, m, rcvd)
    PROVE  [Office!Next]_<<Elected, Leading>>
<1> DEFINE n == m.to
<1>1. /\ n \in Server /\ m.from \in Server /\ m.term \in Term /\ m.term # 0
      /\ state[n] # Leader
  <2>1. m.type = "MSG_VOTE" /\ state[n] # Leader
    BY DEF HandleVoteRequest
  <2>2. n \in Server /\ m.from \in Server /\ m.term \in Term
    BY <2>1 DEF Message, VoteMsg, VoteRespMsg, AppMsg, AppRespMsg
  <2> QED BY <2>1, <2>2 DEF TermsCount, Term
<1>2. /\ \/ UNCHANGED <<state, currentTerm>>
         \/ /\ state' = [state EXCEPT ![n] = Follower]
            /\ currentTerm' = [currentTerm EXCEPT ![n] = m.term]
      /\ \/ votedFor' = votedFor
         \/ votedFor' = [votedFor EXCEPT ![n] = [votedFor[n] EXCEPT ![m.term] = m.from]]
  BY DEF HandleVoteRequest, becomeFollower
<1> HIDE DEF n
<1>3. Leading' = Leading
  <2>1. state \in [Server -> State] /\ currentTerm \in [Server -> Term]
    BY DEF TypeOK
  <2> QED BY <1>1, <1>2, <2>1, LeadersStay DEF Follower, Leader
<1>4. \/ Elected' = Elected
      \/ Elected[m.term] = None /\ Elected' = [Elected EXCEPT ![m.term] = m.from]
  BY <1>1, <1>2, NoVoteCast, VoteCast
<1>5. Elected' = Elected \/ Office!Elect(m.from, m.term)
  BY <1>3, <1>4 DEF Office!Elect
<1> QED BY <1>1, <1>3, <1>5 DEF Office!Next

LEMMA VoteResponseOffice ==
    ASSUME TypeOK, VoteInv, TermsCount, NEW m \in DOMAIN net, m \in Message, NEW rcvd,
           HandleVoteResponse(m.to, m, rcvd)
    PROVE  [Office!Next]_<<Elected, Leading>>
<1> DEFINE n == m.to
           t == currentTerm[n]
           granted == IF m.granted THEN votes[n] \cup {m.from} ELSE votes[n] \ {m.from}
<1>1. /\ n \in Server /\ m.from \in Server /\ m.term \in Term /\ m.type = "MSG_VOTE_RESP"
      /\ state[n] = Candidate /\ votedFor' = votedFor
  BY DEF HandleVoteResponse, Message, VoteMsg, VoteRespMsg, AppMsg, AppRespMsg
<1>2. \/ UNCHANGED <<state, currentTerm>>
      \/ /\ state' = [state EXCEPT ![n] = Follower]
         /\ currentTerm' = [currentTerm EXCEPT ![n] = m.term]
      \/ /\ m.term = t /\ Cardinality(granted) >= quorum
         /\ state' = [state EXCEPT ![n] = Leader]
         /\ currentTerm' = currentTerm
  BY DEF HandleVoteResponse, becomeLeader, becomeFollower
<1>3. t \in Term /\ t # 0 /\ state \in [Server -> State]
  <2>1. t > 0
    BY <1>1 DEF TermsCount, Candidate, Follower
  <2> QED BY <1>1, <2>1 DEF TypeOK
<1>4. CASE UNCHANGED <<state, currentTerm>>
  BY <1>1, <1>4, StepDownOffice
<1>5. CASE /\ state' = [state EXCEPT ![n] = Follower]
           /\ currentTerm' = [currentTerm EXCEPT ![n] = m.term]
  BY <1>1, <1>5, StepDownOffice
<1>6. CASE /\ m.term = t /\ Cardinality(granted) >= quorum
           /\ state' = [state EXCEPT ![n] = Leader]
           /\ currentTerm' = currentTerm
  <2>1. granted \subseteq votedBy(t, n)
    <3>1. \A v \in votes[n] : v \in Server /\ votedFor[v][t] = n
      BY <1>1 DEF VoteInv, CountedVotesCast, TypeOK
    <3>2. m.granted => votedFor[m.from][t] = n
      BY <1>1, <1>6 DEF VoteInv, GrantRecorded
    <3> QED BY <1>1, <3>1, <3>2 DEF votedBy
  <2> HIDE DEF granted, t, n
  <2>2. quorate(t, n)
    <3>1. IsFiniteSet(votedBy(t, n)) /\ IsFiniteSet(granted)
      BY <2>1, ServerAssumption, FS_Subset DEF votedBy
    <3>2. Cardinality(granted) <= Cardinality(votedBy(t, n))
      BY <2>1, <3>1, FS_Subset
    <3>3. /\ Cardinality(granted) \in Nat /\ Cardinality(votedBy(t, n)) \in Nat
          /\ Cardinality(Server) \in Nat
      BY <3>1, ServerAssumption, FS_CardinalityType
    <3> QED BY <1>6, <3>2, <3>3 DEF quorate, quorum
  <2>3. Elected[t] = n /\ Elected' = Elected
    BY <1>1, <1>3, <2>2, ElectedFacts, NoVoteCast
  <2>4. Leading[n] = 0 /\ Leading' = [Leading EXCEPT ![n] = t]
    BY <1>1, <1>3, <1>6 DEF Leading, Candidate, Leader, t
  <2>5. Office!Win(n, t)
    BY <2>3, <2>4 DEF Office!Win
  <2> QED BY <1>1, <1>3, <2>5 DEF Office!Next
<1> QED BY <1>2, <1>4, <1>5, <1>6
-----------------------------------------------------------------------------
\* Only campaign() sends vote requests or makes a candidate.
LEMMA CountStep ==
    ASSUME TypeOK, TermsCount, Forward,
           \A m \in DOMAIN net' : m \in DOMAIN net \/ m.type # "MSG_VOTE" \/ m.term > 0,
           \A n \in Server : state'[n] = Follower \/ state[n] # Follower \/ currentTerm'[n] > 0,
           TypeOK'
    PROVE  TermsCount'
<1>1. \A n \in Server : currentTerm[n] \in Nat /\ currentTerm'[n] \in Nat
  BY DEF TypeOK, Term
<1> QED BY <1>1 DEF TermsCount, Forward

\* AppendEntries is answered by a response only.
LEMMA AppendEntriesSends ==
    ASSUME NEW m, NEW n, NEW rcvd, HandleAppendEntries(n, m, rcvd)
    PROVE  \A k \in DOMAIN net' : k \in DOMAIN net \/ k.type = "MSG_APP_RESP"
<1> DEFINE reject == m.term < currentTerm[n] \/ ~logConsistent(n, m)
           resp == [type |-> "MSG_APP_RESP", from |-> n, to |-> m.from,
                    term |-> max(m.term, currentTerm[n]), success |-> ~reject]
<1>1. Transmit(rcvd, IF answered(m, reject) THEN {resp} ELSE {}) /\ resp.type = "MSG_APP_RESP"
  BY DEF HandleAppendEntries
<1> HIDE DEF reject, resp
<1> QED BY <1>1, TransmitDomain

\* A leader that appends sends AppendEntries only.
LEMMA ReplicateSends ==
    ASSUME NEW m, NEW n, NEW rcvd, Replicate(n, m, rcvd)
    PROVE  \A k \in DOMAIN net' : k \in DOMAIN net \/ k.type = "MSG_APP"
<1> DEFINE new == [k \in 1 .. Len(m.entries) |->
                      [term |-> currentTerm[n], id |-> lastIndex(log[n]) + k,
                       data |-> m.entries[k].data]]
           l == append(log[n], new)
           out == IF m.entries = << >> THEN {}
                  ELSE {[type |-> "MSG_APP", from |-> n, to |-> p, term |-> currentTerm[n],
                         prevLogIdx |-> nextIndex[n][p] - 1,
                         prevLogTerm |-> term(l, nextIndex[n][p] - 1),
                         entries |-> slice(l, nextIndex[n][p], lastIndex(l)),
                         leaderCommitIdx |-> commitIndex[n]] : p \in peers(n)}
<1>1. Transmit(rcvd, out)
  BY DEF Replicate
<1> HIDE DEF l
<1>2. \A k \in out : k.type = "MSG_APP"
  OBVIOUS
<1> HIDE DEF out
<1> QED BY <1>1, <1>2, TransmitDomain

LEMMA ReceiveOffice ==
    ASSUME TypeOK, TypeOK', VoteInv, VotesKept, Forward, TermsCount,
           NEW m \in DOMAIN net, Receive(m)
    PROVE  TermsCount' /\ [Office!Next]_<<Elected, Leading>>
<1> DEFINE rcvd == SetToBag({m})
           n == m.to
<1>1. m \in Message /\ n \in Server /\ m.term \in Term
  BY DEF TypeOK, Message, VoteMsg, VoteRespMsg, AppMsg, AppRespMsg
<1>2. state \in [Server -> State]
  BY DEF TypeOK
<1>3. ASSUME \/ state' = state \/ state' = [state EXCEPT ![n] = Follower]
             \/ state[n] = Candidate /\ state' = [state EXCEPT ![n] = Leader],
             \A k \in DOMAIN net' : k \in DOMAIN net \/ k.type # "MSG_VOTE"
      PROVE  TermsCount'
  BY <1>1, <1>2, <1>3, CountStep DEF Candidate, Follower
<1>4. CASE HandleVoteRequest(n, m, rcvd)
  <2> DEFINE resp == [type |-> "MSG_VOTE_RESP", from |-> n, to |-> m.from,
                      term |-> max(m.term, currentTerm[n]), granted |-> grantVote(n, m)]
  <2>1. Transmit(rcvd, {resp}) /\ resp.type # "MSG_VOTE"
    BY <1>4 DEF HandleVoteRequest
  <2> HIDE DEF resp
  <2>2. \A k \in DOMAIN net' : k \in DOMAIN net \/ k.type # "MSG_VOTE"
    BY <2>1, TransmitDomain
  <2>3. state' = state \/ state' = [state EXCEPT ![n] = Follower]
    BY <1>4 DEF HandleVoteRequest, becomeFollower
  <2> QED BY <1>1, <1>3, <1>4, <2>2, <2>3, VoteRequestOffice
<1>5. CASE HandleVoteResponse(n, m, rcvd)
  <2>1. /\ Transmit(rcvd, {})
        /\ \/ state' = state \/ state' = [state EXCEPT ![n] = Follower]
           \/ state[n] = Candidate /\ state' = [state EXCEPT ![n] = Leader]
    BY <1>5 DEF HandleVoteResponse, becomeFollower, becomeLeader
  <2>2. \A k \in DOMAIN net' : k \in DOMAIN net
    BY <2>1, TransmitDomain
  <2> QED BY <1>1, <1>3, <1>5, <2>1, <2>2, VoteResponseOffice
<1>6. ASSUME HandleAppendEntries(n, m, rcvd) \/ HandleAppendResponse(n, m, rcvd)
             \/ Replicate(n, m, rcvd) \/ Ignore(n, m, rcvd)
      PROVE  /\ votedFor' = votedFor
             /\ \/ UNCHANGED <<state, currentTerm>>
                \/ /\ state' = [state EXCEPT ![n] = Follower]
                   /\ currentTerm' = [currentTerm EXCEPT ![n] = m.term]
  BY <1>6 DEF HandleAppendEntries, HandleAppendResponse, Replicate, Ignore, becomeFollower, serverVars
<1>7. CASE HandleAppendEntries(n, m, rcvd)
  <2>1. \A k \in DOMAIN net' : k \in DOMAIN net \/ k.type # "MSG_VOTE"
    BY <1>7, AppendEntriesSends
  <2> QED BY <1>1, <1>3, <1>6, <1>7, <2>1, StepDownOffice
<1>8. CASE HandleAppendResponse(n, m, rcvd) \/ Ignore(n, m, rcvd)
  <2>1. Transmit(rcvd, {})
    BY <1>8 DEF HandleAppendResponse, Ignore
  <2>2. \A k \in DOMAIN net' : k \in DOMAIN net
    BY <2>1, TransmitDomain
  <2> QED BY <1>1, <1>3, <1>6, <1>8, <2>2, StepDownOffice
<1>9. CASE Replicate(n, m, rcvd)
  <2>1. \A k \in DOMAIN net' : k \in DOMAIN net \/ k.type # "MSG_VOTE"
    BY <1>9, ReplicateSends
  <2> QED BY <1>1, <1>3, <1>6, <1>9, <2>1, StepDownOffice
<1> QED BY <1>4, <1>5, <1>7, <1>8, <1>9 DEF Receive

LEMMA NextOffice ==
    ASSUME TypeOK, TypeOK', VoteInv, VotesKept, Forward, TermsCount, [Next]_vars
    PROVE  TermsCount' /\ [Office!Next]_<<Elected, Leading>>
<1> DEFINE Goal == TermsCount' /\ [Office!Next]_<<Elected, Leading>>
<1>1. ASSUME NEW n \in Server, UNCHANGED serverVars,
             \A k \in DOMAIN net' : k \in DOMAIN net \/ k.type # "MSG_VOTE"
      PROVE  Goal
  <2>1. UNCHANGED <<state, currentTerm, votedFor>> /\ currentTerm[n] \in Term
    BY <1>1 DEF serverVars, TypeOK
  <2> QED BY <1>1, <2>1, CountStep, StepDownOffice
<1>2. ASSUME NEW n \in Server, TickWait(n) PROVE Goal
  <2>1. UNCHANGED <<state, currentTerm, votedFor, net>> /\ currentTerm[n] \in Term
    BY <1>2 DEF TickWait, TypeOK
  <2> QED BY <2>1, CountStep, StepDownOffice
<1>3. ASSUME NEW n \in Server, Campaign(n) PROVE Goal
  <2> DEFINE out == {[type |-> "MSG_VOTE", from |-> n, to |-> p,
                      term |-> currentTerm[n] + 1] : p \in peers(n)}
  <2>1. currentTerm[n] \in Nat /\ currentTerm'[n] = currentTerm[n] + 1
    BY <1>3 DEF Campaign, TypeOK, Term
  <2>2. \A k \in out : k.term > 0
    BY <2>1
  <2>3. net' = net \/ Transmit(EmptyBag, out)
    BY <1>3 DEF Campaign
  <2> HIDE DEF out
  <2>4. \A k \in DOMAIN net' : k \in DOMAIN net \/ k.term > 0
    BY <2>2, <2>3, TransmitDomain
  <2>5. \A k \in Server : k # n => state'[k] = state[k]
    <3>1. \E s : state' = [state EXCEPT ![n] = s]
      BY <1>3 DEF Campaign, becomeLeader
    <3> QED BY <3>1 DEF TypeOK
  <2>6. TermsCount'
    BY <2>1, <2>4, <2>5, CountStep
  <2> QED BY <1>3, <2>6, CampaignOffice
<1>4. ASSUME NEW n \in Server, BroadcastHeartbeat(n) PROVE Goal
  <2> DEFINE out == {[type |-> "MSG_APP", from |-> n, to |-> p, term |-> currentTerm[n],
                      prevLogIdx |-> matchIndex[n][p],
                      prevLogTerm |-> term(log[n], matchIndex[n][p]),
                      entries |-> << >>, leaderCommitIdx |-> commitIndex[n]] : p \in peers(n)}
  <2>1. Transmit(EmptyBag, out) /\ UNCHANGED serverVars
    BY <1>4 DEF BroadcastHeartbeat
  <2>2. \A k \in out : k.type # "MSG_VOTE"
    OBVIOUS
  <2> HIDE DEF out
  <2>3. \A k \in DOMAIN net' : k \in DOMAIN net \/ k.type # "MSG_VOTE"
    BY <2>1, <2>2, TransmitDomain
  <2> QED BY <1>1, <2>1, <2>3
<1>5. ASSUME NEW n \in Server, NEW v \in Value, Put(n, v) PROVE Goal
  <2> DEFINE m == Proposal(n, v)
  <2>1. m \in AppMsg /\ m.to = n /\ m.term = 0
    BY ProposalType DEF Proposal
  <2>2. HandleAppendEntries(m.to, m, EmptyBag) \/ Replicate(m.to, m, EmptyBag)
    BY <1>5, <2>1 DEF Put
  <2> HIDE DEF m
  <2>3. CASE HandleAppendEntries(m.to, m, EmptyBag)
    <3>1. ~newerTerm(n, 0)
      BY DEF newerTerm, TypeOK, Term
    <3>2. UNCHANGED <<state, currentTerm, votedFor>> /\ currentTerm[n] \in Term
      BY <2>1, <2>3, <3>1 DEF HandleAppendEntries, TypeOK
    <3>3. \A k \in DOMAIN net' : k \in DOMAIN net \/ k.type # "MSG_VOTE"
      BY <2>3, AppendEntriesSends
    <3> QED BY <3>2, <3>3, CountStep, StepDownOffice
  <2>4. CASE Replicate(m.to, m, EmptyBag)
    <3>1. \A k \in DOMAIN net' : k \in DOMAIN net \/ k.type # "MSG_VOTE"
      BY <2>4, ReplicateSends
    <3> QED BY <1>1, <2>4, <3>1 DEF Replicate
  <2> QED BY <2>2, <2>3, <2>4
<1>6. ASSUME NEW m \in DOMAIN net, Receive(m) PROVE Goal
  BY <1>6, ReceiveOffice
<1>7. ASSUME NEW m \in DOMAIN net, Lose(m) PROVE Goal
  <2>1. \A k \in DOMAIN net' : k \in DOMAIN net
    BY <1>7, LoseDomain
  <2>2. UNCHANGED serverVars /\ m.to \in Server
    BY <1>7 DEF Lose, TypeOK, Message, VoteMsg, VoteRespMsg, AppMsg, AppRespMsg
  <2> QED BY <1>1, <2>1, <2>2
<1>8. CASE UNCHANGED vars
  <2>1. UNCHANGED <<Elected, Leading>>
    BY <1>8 DEF vars, serverVars, Elected, Leading, quorate, votedBy, quorum
  <2> QED BY <1>8, <2>1 DEF TermsCount, vars, serverVars
<1> QED BY <1>2, <1>3, <1>4, <1>5, <1>6, <1>7, <1>8 DEF Next

LEMMA InitOffice ==
    ASSUME Init
    PROVE  TermsCount /\ Office!Init
<1>1. DOMAIN net = {}
  BY DEF Init, EmptyBag, SetToBag
<1>2. TermsCount
  BY <1>1 DEF Init, TermsCount
<1>3. Leading = [n \in Server |-> 0]
  BY DEF Init, Leading, Follower, Leader
<1>4. ASSUME NEW t \in Term PROVE Elected[t] = None
  <2> SUFFICES ASSUME NEW n \in Server, quorate(t, n) PROVE FALSE
    BY ElectedFacts
  <2>1. votedBy(t, n) = {}
    BY ServerAssumption DEF Init, votedBy
  <2>2. Cardinality(votedBy(t, n)) = 0
    BY <2>1, FS_EmptySet
  <2>3. Cardinality(Server) \in Nat
    BY ServerAssumption, FS_CardinalityType
  <2> QED BY <2>2, <2>3 DEF quorate, quorum
<1>5. Elected = [t \in Term |-> None]
  <2>1. Elected = [t \in Term |-> Elected[t]]
    BY DEF Elected
  <2> HIDE DEF Elected
  <2> QED BY <1>4, <2>1
<1> QED BY <1>2, <1>3, <1>5 DEF Office!Init

\* The vote protocol implements the abstract elections: every step of every
\* node decides a term for a node, puts the node a term was decided for in
\* office, makes a leader step down, or changes nothing of the kind.
THEOREM RaftImplementsElections == Spec => ImplementsElections
<1> DEFINE Inv == TypeOK /\ IndexInv /\ VoteInv /\ TermsCount
<1>1. Init => Inv /\ Office!Init
  BY InitInv, InitVotes, InitOffice
<1>2. Inv /\ [Next]_vars => Inv' /\ [Office!Next]_<<Elected, Leading>>
  <2> SUFFICES ASSUME Inv, [Next]_vars
               PROVE  Inv' /\ [Office!Next]_<<Elected, Leading>>
    OBVIOUS
  <2>1. TypeOK' /\ IndexInv'
    BY NextInv
  <2>2. VoteInv' /\ VotesKept /\ Forward
    BY <2>1, NextVotes, NextForward
  <2> QED BY <2>1, <2>2, NextOffice
<1> HIDE DEF Inv
<1> QED BY <1>1, <1>2, PTL DEF Spec, ImplementsElections, Office!Spec
=============================================================================
