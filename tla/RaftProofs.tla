----------------------------- MODULE RaftProofs -----------------------------
(* Theorems about Raft and RaftCrash, checked by TLAPS. *)
EXTENDS RaftCrash, FiniteSetTheorems, TLAPS

\* A step only removes messages from the network or adds the ones it sends.
LEMMA TransmitDomain ==
    ASSUME NEW rcvd, NEW out, Transmit(rcvd, out)
    PROVE  DOMAIN net' \subseteq DOMAIN net \cup {m \in out : m.to # None}
<1>1. DOMAIN (net (-) rcvd) \subseteq DOMAIN net
  BY DEF (-)
<1>2. DOMAIN SetToBag({m \in out : m.to # None}) = {m \in out : m.to # None}
  BY DEF SetToBag
<1> QED BY <1>1, <1>2 DEF Transmit, (+)

LEMMA LoseDomain ==
    ASSUME NEW m, Lose(m)
    PROVE  DOMAIN net' \subseteq DOMAIN net
BY DEF Lose, (-)
-----------------------------------------------------------------------------
(* The operators of RaftLog. *)

\* Ids never run ahead of positions.
IdsBounded(l) == \A k \in 1 .. Len(l) : l[k].id <= k

LEMMA LastIndexFacts ==
    ASSUME NEW l \in Seq(Entry)
    PROVE  /\ lastIndex(l) \in Nat
           /\ IdsBounded(l) => lastIndex(l) <= Len(l)
<1>1. CASE Len(l) = 0
  BY <1>1 DEF lastIndex
<1>2. CASE Len(l) # 0
  <2>1. Len(l) \in 1 .. Len(l)
    BY <1>2
  <2>2. l[Len(l)] \in Entry
    BY <2>1
  <2> QED BY <1>2, <2>1, <2>2 DEF lastIndex, IdsBounded, Entry
<1> QED BY <1>1, <1>2

LEMMA TermFacts ==
    ASSUME NEW l \in Seq(Entry), IdsBounded(l), NEW i \in Nat
    PROVE  term(l, i) \in Term
<1>1. lastIndex(l) \in Nat /\ lastIndex(l) <= Len(l)
  BY LastIndexFacts
<1>2. CASE i = 0 \/ i > lastIndex(l)
  BY <1>2, BoundAssumption DEF term, Term
<1>3. CASE ~(i = 0 \/ i > lastIndex(l))
  <2>1. i \in 1 .. Len(l)
    BY <1>1, <1>3
  <2>2. l[i] \in Entry
    BY <2>1
  <2> QED BY <1>3, <2>2 DEF term, Entry
<1> QED BY <1>2, <1>3

LEMMA SliceFacts ==
    ASSUME NEW l \in Seq(Entry), NEW lo \in Nat \ {0}, NEW hi \in Nat
    PROVE  /\ slice(l, lo, hi) \in Seq(Entry)
           /\ \A k \in 1 .. Len(slice(l, lo, hi)) :
                 /\ lo - 1 + k \in 1 .. Len(l)
                 /\ slice(l, lo, hi)[k] = l[lo - 1 + k]
<1> DEFINE top == min(hi, Len(l))
<1>1. top \in Nat /\ top <= Len(l)
  BY DEF min
<1>2. slice(l, lo, hi) = SubSeq(l, lo, top)
  BY DEF slice
<1> HIDE DEF top
<1>3. SubSeq(l, lo, top) \in Seq(Entry)
  BY <1>1
<1>4. Len(SubSeq(l, lo, top)) = IF lo <= top THEN top - lo + 1 ELSE 0
  BY <1>1
<1>5. \A k \in 1 .. Len(SubSeq(l, lo, top)) : SubSeq(l, lo, top)[k] = l[lo - 1 + k]
  BY <1>1, <1>4
<1> QED BY <1>1, <1>2, <1>3, <1>4, <1>5

\* Appending keeps Ids within positions when the k-th new entry has an Id of
\* at most b + k for some b within the old log.
LEMMA AppendFacts ==
    ASSUME NEW l \in Seq(Entry), IdsBounded(l), NEW new \in Seq(Entry),
           NEW b \in Nat, b <= Len(l),
           \A k \in 1 .. Len(new) : new[k].id <= b + k
    PROVE  /\ append(l, new) \in Seq(Entry)
           /\ IdsBounded(append(l, new))
           /\ Len(append(l, new)) >= Len(l)
<1>1. append(l, new) \in Seq(Entry) /\ Len(append(l, new)) = Len(l) + Len(new)
  BY DEF append
<1>2. ASSUME NEW k \in 1 .. Len(append(l, new))
      PROVE  append(l, new)[k].id <= k
  <2>1. CASE k <= Len(l)
    <3>1. append(l, new)[k] = l[k]
      BY <2>1 DEF append
    <3> QED BY <2>1, <3>1 DEF IdsBounded
  <2>2. CASE k > Len(l)
    <3>1. k - Len(l) \in 1 .. Len(new)
      BY <1>1, <2>2
    <3>2. append(l, new)[k] = new[k - Len(l)]
      BY <1>1, <2>2 DEF append
    <3>3. new[k - Len(l)] \in Entry
      BY <3>1
    <3>4. new[k - Len(l)].id <= b + (k - Len(l))
      BY <3>1
    <3>5. new[k - Len(l)].id \in Nat
      BY <3>3 DEF Entry
    <3>6. k \in Nat /\ Len(l) \in Nat
      BY <1>1
    <3>7. new[k - Len(l)].id <= k
      BY <3>4, <3>5, <3>6
    <3> QED BY <3>2, <3>7
  <2> QED BY <2>1, <2>2, <1>1
<1> QED BY <1>1, <1>2 DEF IdsBounded
-----------------------------------------------------------------------------
(* Type correctness and the bounds of Ids, proved together: the term a       *)
(* message carries is read from the log at an index that must exist, and the *)
(* index of the first entry to send must not be 0.                           *)

MsgBounded(m) ==
    m.type = "MSG_APP" =>
        \A k \in 1 .. Len(m.entries) : m.entries[k].id <= m.prevLogIdx + k

IndexInv ==
    /\ \A n \in Server : IdsBounded(log[n])
    /\ \A m \in DOMAIN net : MsgBounded(m)
    /\ \A n \in Server : commitIndex[n] <= Len(log[n])
    /\ \A n \in Server : state[n] = Leader => \A p \in peers(n) : nextIndex[n][p] >= 1

LEMMA TransmitGood ==
    ASSUME TypeOK, IndexInv, NEW rcvd, NEW out, Transmit(rcvd, out),
           \A m \in out : m.to # None => m \in Message /\ MsgBounded(m)
    PROVE  /\ DOMAIN net' \subseteq Message
           /\ \A m \in DOMAIN net' : MsgBounded(m)
BY TransmitDomain DEF TypeOK, IndexInv

LEMMA AppMsgType ==
    ASSUME NEW m \in Message, m.type = "MSG_APP"
    PROVE  m \in AppMsg
BY DEF Message, VoteMsg, VoteRespMsg, AppMsg, AppRespMsg

LEMMA TickWaitInv ==
    ASSUME TypeOK, IndexInv, NEW n \in Server, TickWait(n)
    PROVE  TypeOK' /\ IndexInv'
<1>1. electionTick[n] + 1 \in 0 .. ElectionTimeout - 1
  BY BoundAssumption DEF TypeOK, TickWait, timedOut, randomizedTimeout
<1>2. TypeOK'
  BY <1>1 DEF TypeOK, TickWait, logVars, leaderVars
<1>3. IndexInv'
  BY DEF IndexInv, TickWait, logVars, leaderVars
<1> QED BY <1>2, <1>3

LEMMA BecomeLeaderFacts ==
    ASSUME TypeOK, IndexInv, NEW n \in Server, becomeLeader(n)
    PROVE  /\ state' \in [Server -> State]
           /\ votes' \in [Server -> SUBSET Server]
           /\ matchIndex' \in [Server -> [Server -> Nat]]
           /\ nextIndex' \in [Server -> [Server -> Nat]]
           /\ \A k \in Server :
                 state'[k] = Leader => \A p \in peers(k) : nextIndex'[k][p] >= 1
<1> DEFINE zero == [p \in Server |-> 0]
           next == [p \in Server |-> lastIndex(log[n]) + 1]
<1>1. lastIndex(log[n]) \in Nat
  BY LastIndexFacts DEF TypeOK
<1>2. zero \in [Server -> Nat] /\ next \in [Server -> Nat]
      /\ \A p \in Server : next[p] >= 1
  BY <1>1
<1>3. /\ matchIndex' = [matchIndex EXCEPT ![n] = zero]
      /\ nextIndex' = [nextIndex EXCEPT ![n] = next]
  BY DEF becomeLeader
<1> HIDE DEF zero, next
<1>4. state' \in [Server -> State] /\ votes' \in [Server -> SUBSET Server]
  BY DEF TypeOK, becomeLeader, State
<1>5. /\ matchIndex' \in [Server -> [Server -> Nat]]
      /\ nextIndex' \in [Server -> [Server -> Nat]]
  BY <1>2, <1>3 DEF TypeOK
<1>6. ASSUME NEW k \in Server, state'[k] = Leader, NEW p \in peers(k)
      PROVE  nextIndex'[k][p] >= 1
  <2>1. CASE k = n
    BY <1>2, <1>3, <2>1 DEF TypeOK, peers
  <2>2. CASE k # n
    BY <1>3, <1>6, <2>2 DEF TypeOK, IndexInv, becomeLeader
  <2> QED BY <2>1, <2>2
<1> QED BY <1>4, <1>5, <1>6

LEMMA CampaignInv ==
    ASSUME TypeOK, IndexInv, NEW n \in Server, Campaign(n)
    PROVE  TypeOK' /\ IndexInv'
<1> DEFINE t == currentTerm[n] + 1
           out == {[type |-> "MSG_VOTE", from |-> n, to |-> p, term |-> t] : p \in peers(n)}
<1>1. t \in Term /\ 0 \in 0 .. ElectionTimeout - 1
  BY BoundAssumption DEF TypeOK, Campaign, Term
<1>2. /\ currentTerm' \in [Server -> Term]
      /\ votedFor' \in [Server -> [Term -> Server \cup {None}]]
      /\ electionTick' \in [Server -> 0 .. ElectionTimeout - 1]
      /\ log' = log /\ commitIndex' = commitIndex /\ stableIndex' = stableIndex
      /\ requested' = requested
  <2>1. votedFor' = [votedFor EXCEPT ![n] = [votedFor[n] EXCEPT ![t] = n]]
    BY DEF Campaign
  <2> HIDE DEF t
  <2> QED BY <1>1, <2>1 DEF TypeOK, Campaign, logVars, t
<1>3. CASE Cardinality(Server) = 1
  <2>1. becomeLeader(n) /\ net' = net
    BY <1>3 DEF Campaign
  <2>2. TypeOK'
    BY <1>2, <2>1, BecomeLeaderFacts DEF TypeOK
  <2>3. IndexInv'
    BY <1>2, <2>1, BecomeLeaderFacts DEF IndexInv
  <2> QED BY <2>2, <2>3
<1>4. CASE Cardinality(Server) # 1
  <2>1. /\ state' = [state EXCEPT ![n] = Candidate]
        /\ votes' = [votes EXCEPT ![n] = {n}]
        /\ Transmit(EmptyBag, out)
        /\ matchIndex' = matchIndex /\ nextIndex' = nextIndex
    BY <1>4 DEF Campaign, leaderVars
  <2>2. \A m \in out : m \in Message /\ MsgBounded(m)
    BY <1>1 DEF Message, VoteMsg, MsgBounded, peers
  <2>3. DOMAIN net' \subseteq Message /\ \A m \in DOMAIN net' : MsgBounded(m)
    BY <2>1, <2>2, TransmitGood
  <2>4. TypeOK'
    BY <1>2, <2>1, <2>3 DEF TypeOK, State
  <2>5. IndexInv'
    BY <1>2, <2>1, <2>3 DEF TypeOK, IndexInv, Candidate, Leader
  <2> QED BY <2>4, <2>5
<1> QED BY <1>3, <1>4

LEMMA BroadcastHeartbeatInv ==
    ASSUME TypeOK, IndexInv, NEW n \in Server, BroadcastHeartbeat(n)
    PROVE  TypeOK' /\ IndexInv'
<1> DEFINE hb(p) == [type |-> "MSG_APP", from |-> n, to |-> p, term |-> currentTerm[n],
                     prevLogIdx |-> matchIndex[n][p],
                     prevLogTerm |-> term(log[n], matchIndex[n][p]),
                     entries |-> << >>, leaderCommitIdx |-> commitIndex[n]]
<1>1. ASSUME NEW p \in peers(n)
      PROVE  hb(p) \in Message /\ MsgBounded(hb(p))
  <2>1. term(log[n], matchIndex[n][p]) \in Term
    BY TermFacts DEF TypeOK, IndexInv, peers
  <2>2. hb(p) \in AppMsg
    BY <2>1 DEF TypeOK, AppMsg, peers
  <2>3. MsgBounded(hb(p))
    BY DEF MsgBounded
  <2> QED BY <2>2, <2>3 DEF Message
<1>2. Transmit(EmptyBag, {hb(p) : p \in peers(n)})
  BY DEF BroadcastHeartbeat
<1>3. DOMAIN net' \subseteq Message /\ \A m \in DOMAIN net' : MsgBounded(m)
  <2> HIDE DEF hb
  <2> QED BY <1>1, <1>2, TransmitGood
<1>4. UNCHANGED <<serverVars, logVars, leaderVars, requested>>
  BY DEF BroadcastHeartbeat
<1> QED BY <1>3, <1>4 DEF TypeOK, IndexInv, serverVars, logVars, leaderVars

LEMMA BecomeFollowerFacts ==
    ASSUME TypeOK, IndexInv, NEW n \in Server, NEW t \in Term, becomeFollower(n, t)
    PROVE  /\ state' \in [Server -> State]
           /\ currentTerm' \in [Server -> Term]
           /\ votes' \in [Server -> SUBSET Server]
           /\ electionTick' \in [Server -> 0 .. ElectionTimeout - 1]
           /\ \A k \in Server : state'[k] = Leader => state[k] = Leader
BY BoundAssumption DEF TypeOK, becomeFollower, State, Follower, Leader

LEMMA HandleVoteRequestInv ==
    ASSUME TypeOK, IndexInv, NEW m \in Message, NEW rcvd,
           HandleVoteRequest(m.to, m, rcvd)
    PROVE  TypeOK' /\ IndexInv'
<1> DEFINE n == m.to
           grant == grantVote(n, m)
           resp == [type |-> "MSG_VOTE_RESP", from |-> n, to |-> m.from,
                    term |-> max(m.term, currentTerm[n]), granted |-> grant]
<1>1. m \in VoteMsg /\ n \in Server /\ m.from \in Server /\ m.term \in Term
  BY DEF HandleVoteRequest, Message, VoteMsg, VoteRespMsg, AppMsg, AppRespMsg
<1>2. Transmit(rcvd, {resp})
  BY DEF HandleVoteRequest
<1>3. resp \in Message /\ MsgBounded(resp)
  BY <1>1 DEF Message, VoteRespMsg, MsgBounded, max, TypeOK, grantVote, Term
<1>4. UNCHANGED <<logVars, leaderVars, requested>>
  BY DEF HandleVoteRequest
<1>5. votedFor' \in [Server -> [Term -> Server \cup {None}]]
  <2>1. CASE grant
    <3>1. votedFor' = [votedFor EXCEPT ![n] = [votedFor[n] EXCEPT ![m.term] = m.from]]
      BY <2>1 DEF HandleVoteRequest
    <3> QED BY <1>1, <3>1 DEF TypeOK
  <2>2. CASE ~grant
    BY <2>2 DEF HandleVoteRequest, TypeOK
  <2> QED BY <2>1, <2>2
<1>6. \/ becomeFollower(n, m.term)
      \/ UNCHANGED <<state, currentTerm, votes, electionTick>>
  BY DEF HandleVoteRequest
<1> HIDE DEF n, grant, resp
<1>7. DOMAIN net' \subseteq Message /\ \A k \in DOMAIN net' : MsgBounded(k)
  BY <1>2, <1>3, TransmitGood
<1>8. /\ state' \in [Server -> State]
      /\ currentTerm' \in [Server -> Term]
      /\ votes' \in [Server -> SUBSET Server]
      /\ electionTick' \in [Server -> 0 .. ElectionTimeout - 1]
      /\ \A k \in Server : state'[k] = Leader => state[k] = Leader
  BY <1>1, <1>6, BecomeFollowerFacts DEF TypeOK
<1> QED BY <1>4, <1>5, <1>7, <1>8 DEF TypeOK, IndexInv, logVars, leaderVars

LEMMA HandleVoteResponseInv ==
    ASSUME TypeOK, IndexInv, NEW m \in Message, NEW rcvd,
           HandleVoteResponse(m.to, m, rcvd)
    PROVE  TypeOK' /\ IndexInv'
<1> DEFINE n == m.to
           granted == IF m.granted THEN votes[n] \cup {m.from} ELSE votes[n] \ {m.from}
<1>1. m \in VoteRespMsg /\ n \in Server /\ m.from \in Server /\ m.term \in Term
  BY DEF HandleVoteResponse, Message, VoteMsg, VoteRespMsg, AppMsg, AppRespMsg
<1>2. Transmit(rcvd, {})
  BY DEF HandleVoteResponse
<1>3. DOMAIN net' \subseteq Message /\ \A k \in DOMAIN net' : MsgBounded(k)
  BY <1>2, TransmitGood
<1>4. UNCHANGED <<votedFor, logVars, requested>>
  BY DEF HandleVoteResponse
<1>5. granted \in SUBSET Server
  BY <1>1 DEF TypeOK
<1>6. \/ UNCHANGED <<state, currentTerm, votes, electionTick, leaderVars>>
      \/ becomeFollower(n, m.term) /\ UNCHANGED leaderVars
      \/ becomeLeader(n) /\ UNCHANGED <<currentTerm, electionTick>>
      \/ /\ votes' = [votes EXCEPT ![n] = granted]
         /\ UNCHANGED <<state, currentTerm, electionTick, leaderVars>>
  BY DEF HandleVoteResponse
<1> HIDE DEF n, granted
<1>7. CASE UNCHANGED <<state, currentTerm, votes, electionTick, leaderVars>>
  BY <1>3, <1>4, <1>7 DEF TypeOK, IndexInv, logVars, leaderVars
<1>8. CASE becomeFollower(n, m.term) /\ UNCHANGED leaderVars
  <2>1. /\ state' \in [Server -> State]
        /\ currentTerm' \in [Server -> Term]
        /\ votes' \in [Server -> SUBSET Server]
        /\ electionTick' \in [Server -> 0 .. ElectionTimeout - 1]
        /\ \A k \in Server : state'[k] = Leader => state[k] = Leader
    BY <1>1, <1>8, BecomeFollowerFacts
  <2> QED BY <1>3, <1>4, <1>8, <2>1 DEF TypeOK, IndexInv, logVars, leaderVars
<1>9. CASE becomeLeader(n) /\ UNCHANGED <<currentTerm, electionTick>>
  BY <1>1, <1>3, <1>4, <1>9, BecomeLeaderFacts DEF TypeOK, IndexInv, logVars
<1>10. CASE /\ votes' = [votes EXCEPT ![n] = granted]
            /\ UNCHANGED <<state, currentTerm, electionTick, leaderVars>>
  BY <1>1, <1>3, <1>4, <1>5, <1>10 DEF TypeOK, IndexInv, logVars, leaderVars
<1> QED BY <1>6, <1>7, <1>8, <1>9, <1>10

LEMMA AdvanceFacts ==
    ASSUME TypeOK, NEW n \in Server, NEW l \in Seq(Entry), Advance(n, l)
    PROVE  stableIndex' \in [Server -> Nat]
<1>1. lastIndex(l) \in Nat
  BY LastIndexFacts
<1>2. markStableTill(l, stableIndex[n], lastIndex(l)) \in Nat
  BY <1>1 DEF TypeOK, markStableTill
<1>3. stableIndex' = [stableIndex EXCEPT ![n] = markStableTill(l, stableIndex[n], lastIndex(l))]
  BY DEF Advance
<1> QED BY <1>2, <1>3 DEF TypeOK

LEMMA HandleAppendEntriesInv ==
    ASSUME TypeOK, IndexInv, NEW m \in AppMsg, MsgBounded(m), NEW rcvd,
           HandleAppendEntries(m.to, m, rcvd), requested' \subseteq Value
    PROVE  TypeOK' /\ IndexInv'
<1> DEFINE n      == m.to
           t      == max(m.term, currentTerm[n])
           reject == m.term < currentTerm[n] \/ ~logConsistent(n, m)
           l      == IF reject THEN log[n] ELSE append(log[n], m.entries)
           resp   == [type |-> "MSG_APP_RESP", from |-> n, to |-> m.from,
                      term |-> t, success |-> ~reject]
           c      == IF reject THEN commitIndex[n]
                     ELSE maybeCommit(l, commitIndex[n], min(m.leaderCommitIdx, lastIndex(l)))
<1>1. /\ n \in Server /\ m.term \in Term /\ m.prevLogIdx \in Nat
      /\ m.entries \in Seq(Entry) /\ m.leaderCommitIdx \in Nat
      /\ m.from \in Server \cup {None} /\ m.type = "MSG_APP"
  BY DEF AppMsg
<1>2. log[n] \in Seq(Entry) /\ IdsBounded(log[n]) /\ commitIndex[n] \in Nat
      /\ commitIndex[n] <= Len(log[n])
  BY <1>1 DEF TypeOK, IndexInv
<1>3. l \in Seq(Entry) /\ IdsBounded(l) /\ Len(l) >= Len(log[n])
  <2>1. CASE reject
    BY <1>2, <2>1
  <2>2. CASE ~reject
    <3>1. m.prevLogIdx <= Len(log[n])
      BY <1>1, <1>2, <2>2, LastIndexFacts DEF logConsistent
    <3>2. \A k \in 1 .. Len(m.entries) : m.entries[k].id <= m.prevLogIdx + k
      BY <1>1 DEF MsgBounded
    <3>3. /\ append(log[n], m.entries) \in Seq(Entry)
          /\ IdsBounded(append(log[n], m.entries))
          /\ Len(append(log[n], m.entries)) >= Len(log[n])
      BY <1>1, <1>2, <3>1, <3>2, AppendFacts
    <3> QED BY <2>2, <3>3
  <2> QED BY <2>1, <2>2
<1>4. /\ log' = [log EXCEPT ![n] = l]
      /\ commitIndex' = [commitIndex EXCEPT ![n] = c]
      /\ Advance(n, l)
      /\ Transmit(rcvd, IF answered(m, reject) THEN {resp} ELSE {})
      /\ UNCHANGED <<votedFor, leaderVars>>
      /\ \/ becomeFollower(n, m.term)
         \/ /\ electionTick' = [electionTick EXCEPT ![n] = 0]
            /\ UNCHANGED <<state, currentTerm, votes>>
  BY DEF HandleAppendEntries
<1>5. resp.to # None => resp \in Message /\ MsgBounded(resp)
  BY <1>1 DEF Message, AppRespMsg, MsgBounded, max, TypeOK, Term
<1> HIDE DEF l
<1>6. c \in Nat /\ c <= Len(l)
  BY <1>1, <1>2, <1>3, LastIndexFacts DEF maybeCommit, min
<1> HIDE DEF c, resp, reject, t, n
<1>7. DOMAIN net' \subseteq Message /\ \A k \in DOMAIN net' : MsgBounded(k)
  BY <1>4, <1>5, TransmitGood
<1>8. /\ state' \in [Server -> State]
      /\ currentTerm' \in [Server -> Term]
      /\ votes' \in [Server -> SUBSET Server]
      /\ electionTick' \in [Server -> 0 .. ElectionTimeout - 1]
      /\ \A k \in Server : state'[k] = Leader => state[k] = Leader
  <2>1. CASE becomeFollower(n, m.term)
    BY <1>1, <2>1, BecomeFollowerFacts
  <2>2. CASE /\ electionTick' = [electionTick EXCEPT ![n] = 0]
             /\ UNCHANGED <<state, currentTerm, votes>>
    <3>1. 0 \in 0 .. ElectionTimeout - 1
      BY BoundAssumption
    <3>2. electionTick' \in [Server -> 0 .. ElectionTimeout - 1]
      BY <2>2, <3>1 DEF TypeOK
    <3> QED BY <2>2, <3>2 DEF TypeOK
  <2> QED BY <1>4, <2>1, <2>2
<1>9. stableIndex' \in [Server -> Nat]
  BY <1>1, <1>3, <1>4, AdvanceFacts
<1>10. TypeOK'
  BY <1>1, <1>3, <1>4, <1>6, <1>7, <1>8, <1>9 DEF TypeOK, leaderVars
<1>11. IndexInv'
  <2>1. ASSUME NEW k \in Server
        PROVE  IdsBounded(log'[k]) /\ commitIndex'[k] <= Len(log'[k])
    BY <1>1, <1>3, <1>4, <1>6 DEF TypeOK, IndexInv
  <2>2. \A k \in Server : state'[k] = Leader => \A p \in peers(k) : nextIndex'[k][p] >= 1
    BY <1>4, <1>8 DEF IndexInv, leaderVars
  <2> QED BY <1>7, <2>1, <2>2 DEF IndexInv
<1> QED BY <1>10, <1>11

LEMMA HandleAppendResponseInv ==
    ASSUME TypeOK, IndexInv, NEW m \in Message, NEW rcvd,
           HandleAppendResponse(m.to, m, rcvd)
    PROVE  TypeOK' /\ IndexInv'
<1> DEFINE n     == m.to
           p     == m.from
           last  == lastIndex(log[n])
           match == [matchIndex[n] EXCEPT ![p] = last]
<1>1. n \in Server /\ p \in Server /\ m.term \in Term
  BY DEF HandleAppendResponse, Message, VoteMsg, VoteRespMsg, AppMsg, AppRespMsg
<1>2. last \in Nat /\ last <= Len(log[n])
  BY <1>1, LastIndexFacts DEF TypeOK, IndexInv
<1>3. /\ Transmit(rcvd, {})
      /\ UNCHANGED <<votedFor, log, stableIndex, requested>>
      /\ \/ becomeFollower(n, m.term) /\ UNCHANGED <<leaderVars, commitIndex>>
         \/ UNCHANGED <<state, currentTerm, votes, electionTick, leaderVars, commitIndex>>
         \/ /\ matchIndex' = [matchIndex EXCEPT ![n] = match]
            /\ nextIndex'  = [nextIndex EXCEPT ![n] = [nextIndex[n] EXCEPT ![p] = last + 1]]
            /\ \E c \in {commitIndex[n]} \cup Replicated(n, match) :
                  commitIndex' = [commitIndex EXCEPT ![n] = c]
            /\ UNCHANGED <<state, currentTerm, votes, electionTick>>
         \/ /\ nextIndex' = [nextIndex EXCEPT ![n] = [nextIndex[n] EXCEPT ![p] =
                   IF nextIndex[n][p] > 1 THEN nextIndex[n][p] - 1 ELSE nextIndex[n][p]]]
            /\ UNCHANGED <<state, currentTerm, votes, electionTick, matchIndex, commitIndex>>
  BY DEF HandleAppendResponse
<1>4. DOMAIN net' \subseteq Message /\ \A k \in DOMAIN net' : MsgBounded(k)
  BY <1>3, TransmitGood
<1>5. \A c \in {commitIndex[n]} \cup Replicated(n, match) : c \in Nat /\ c <= Len(log[n])
  BY <1>1, <1>2 DEF TypeOK, IndexInv, Replicated
<1> HIDE DEF n, p, last
<1>6. CASE becomeFollower(n, m.term) /\ UNCHANGED <<leaderVars, commitIndex>>
  <2>1. /\ state' \in [Server -> State]
        /\ currentTerm' \in [Server -> Term]
        /\ votes' \in [Server -> SUBSET Server]
        /\ electionTick' \in [Server -> 0 .. ElectionTimeout - 1]
        /\ \A k \in Server : state'[k] = Leader => state[k] = Leader
    BY <1>1, <1>6, BecomeFollowerFacts
  <2> QED BY <1>3, <1>4, <1>6, <2>1 DEF TypeOK, IndexInv, leaderVars
<1>7. CASE UNCHANGED <<state, currentTerm, votes, electionTick, leaderVars, commitIndex>>
  BY <1>3, <1>4, <1>7 DEF TypeOK, IndexInv, leaderVars
<1>8. CASE /\ matchIndex' = [matchIndex EXCEPT ![n] = match]
           /\ nextIndex'  = [nextIndex EXCEPT ![n] = [nextIndex[n] EXCEPT ![p] = last + 1]]
           /\ \E c \in {commitIndex[n]} \cup Replicated(n, match) :
                 commitIndex' = [commitIndex EXCEPT ![n] = c]
           /\ UNCHANGED <<state, currentTerm, votes, electionTick>>
  <2>1. match \in [Server -> Nat]
    BY <1>1, <1>2 DEF TypeOK
  <2>2. [nextIndex[n] EXCEPT ![p] = last + 1] \in [Server -> Nat]
    BY <1>1, <1>2 DEF TypeOK
  <2>3. PICK c \in Nat : c <= Len(log[n]) /\ commitIndex' = [commitIndex EXCEPT ![n] = c]
    BY <1>5, <1>8
  <2> HIDE DEF match
  <2>4. TypeOK'
    BY <1>1, <1>3, <1>4, <1>8, <2>1, <2>2, <2>3 DEF TypeOK
  <2>5. \A k \in Server : commitIndex'[k] <= Len(log'[k])
    BY <1>3, <2>3 DEF TypeOK, IndexInv
  <2>6. ASSUME NEW k \in Server, state'[k] = Leader, NEW q \in peers(k)
        PROVE  nextIndex'[k][q] >= 1
    BY <1>1, <1>2, <1>8, <2>6 DEF TypeOK, IndexInv, peers
  <2> QED BY <1>3, <1>4, <2>4, <2>5, <2>6 DEF IndexInv
<1>9. CASE /\ nextIndex' = [nextIndex EXCEPT ![n] = [nextIndex[n] EXCEPT ![p] =
                  IF nextIndex[n][p] > 1 THEN nextIndex[n][p] - 1 ELSE nextIndex[n][p]]]
           /\ UNCHANGED <<state, currentTerm, votes, electionTick, matchIndex, commitIndex>>
  <2> DEFINE next == IF nextIndex[n][p] > 1 THEN nextIndex[n][p] - 1 ELSE nextIndex[n][p]
  <2>1. next \in Nat /\ (nextIndex[n][p] >= 1 => next >= 1)
    BY <1>1 DEF TypeOK
  <2>2. nextIndex' = [nextIndex EXCEPT ![n] = [nextIndex[n] EXCEPT ![p] = next]]
    BY <1>9
  <2> HIDE DEF next
  <2>3. TypeOK'
    <3>1. [nextIndex[n] EXCEPT ![p] = next] \in [Server -> Nat]
      BY <1>1, <2>1 DEF TypeOK
    <3>2. nextIndex' \in [Server -> [Server -> Nat]]
      BY <1>1, <2>2, <3>1 DEF TypeOK
    <3> QED BY <1>3, <1>4, <1>9, <3>2 DEF TypeOK
  <2>4. ASSUME NEW k \in Server, state'[k] = Leader, NEW q \in peers(k)
        PROVE  nextIndex'[k][q] >= 1
    BY <1>1, <1>9, <2>1, <2>2, <2>4 DEF TypeOK, IndexInv, peers
  <2> QED BY <1>3, <1>4, <1>9, <2>3, <2>4 DEF IndexInv
<1> QED BY <1>3, <1>6, <1>7, <1>8, <1>9

LEMMA ReplicateInv ==
    ASSUME TypeOK, IndexInv, NEW m \in AppMsg, NEW rcvd,
           Replicate(m.to, m, rcvd), requested' \subseteq Value
    PROVE  TypeOK' /\ IndexInv'
<1> DEFINE n   == m.to
           last == lastIndex(log[n])
           new == [k \in 1 .. Len(m.entries) |->
                      [term |-> currentTerm[n], id |-> last + k,
                       data |-> m.entries[k].data]]
           l   == append(log[n], new)
           app(p) == [type |-> "MSG_APP", from |-> n, to |-> p, term |-> currentTerm[n],
                      prevLogIdx |-> nextIndex[n][p] - 1,
                      prevLogTerm |-> term(l, nextIndex[n][p] - 1),
                      entries |-> slice(l, nextIndex[n][p], lastIndex(l)),
                      leaderCommitIdx |-> commitIndex[n]]
<1>1. n \in Server /\ m.entries \in Seq(Entry)
  BY DEF AppMsg
<1>2. log[n] \in Seq(Entry) /\ IdsBounded(log[n]) /\ currentTerm[n] \in Term
      /\ commitIndex[n] \in Nat /\ commitIndex[n] <= Len(log[n])
  BY <1>1 DEF TypeOK, IndexInv
<1>3. last \in Nat /\ last <= Len(log[n])
  BY <1>2, LastIndexFacts
<1>4. /\ state[n] = Leader
      /\ log' = [log EXCEPT ![n] = l]
      /\ Advance(n, l)
      /\ Transmit(rcvd, IF m.entries = << >> THEN {} ELSE {app(p) : p \in peers(n)})
      /\ UNCHANGED <<serverVars, commitIndex, leaderVars>>
  BY DEF Replicate
<1> HIDE DEF last
<1>5. new \in Seq(Entry) /\ \A k \in 1 .. Len(new) : new[k].id <= last + k
  <2>1. ASSUME NEW k \in 1 .. Len(m.entries)
        PROVE  [term |-> currentTerm[n], id |-> last + k, data |-> m.entries[k].data] \in Entry
    <3>1. m.entries[k] \in Entry
      BY <1>1
    <3> QED BY <1>2, <1>3, <3>1 DEF Entry
  <2>2. Len(m.entries) \in Nat
    BY <1>1
  <2>3. new \in Seq(Entry) /\ Len(new) = Len(m.entries)
    BY <2>1, <2>2
  <2> QED BY <1>3, <2>3
<1>6. l \in Seq(Entry) /\ IdsBounded(l) /\ Len(l) >= Len(log[n])
  <2> HIDE DEF new
  <2> QED BY <1>2, <1>3, <1>5, AppendFacts
<1> HIDE DEF l, new
<1>7. ASSUME NEW p \in peers(n)
      PROVE  app(p) \in Message /\ MsgBounded(app(p))
  <2>1. nextIndex[n][p] \in Nat \ {0}
    BY <1>1, <1>4, <1>7 DEF TypeOK, IndexInv, peers
  <2>2. lastIndex(l) \in Nat
    BY <1>6, LastIndexFacts
  <2>3. term(l, nextIndex[n][p] - 1) \in Term
    BY <1>6, <2>1, TermFacts
  <2> DEFINE es == slice(l, nextIndex[n][p], lastIndex(l))
  <2>4. /\ es \in Seq(Entry)
        /\ \A k \in 1 .. Len(es) : /\ nextIndex[n][p] - 1 + k \in 1 .. Len(l)
                                   /\ es[k] = l[nextIndex[n][p] - 1 + k]
    BY <1>6, <2>1, <2>2, SliceFacts
  <2>5. \A k \in 1 .. Len(es) : es[k].id <= nextIndex[n][p] - 1 + k
    BY <1>6, <2>1, <2>4 DEF IdsBounded
  <2> HIDE DEF es
  <2>6. app(p) = [type |-> "MSG_APP", from |-> n, to |-> p, term |-> currentTerm[n],
                  prevLogIdx |-> nextIndex[n][p] - 1,
                  prevLogTerm |-> term(l, nextIndex[n][p] - 1),
                  entries |-> es, leaderCommitIdx |-> commitIndex[n]]
    BY DEF es
  <2>7. app(p) \in AppMsg
    BY <1>1, <1>2, <2>1, <2>3, <2>4, <2>6 DEF AppMsg, peers
  <2>8. MsgBounded(app(p))
    BY <2>5, <2>6 DEF MsgBounded
  <2> QED BY <2>7, <2>8 DEF Message
<1> HIDE DEF app, n
<1>8. DOMAIN net' \subseteq Message /\ \A k \in DOMAIN net' : MsgBounded(k)
  BY <1>4, <1>7, TransmitGood
<1>9. stableIndex' \in [Server -> Nat]
  BY <1>1, <1>4, <1>6, AdvanceFacts
<1>10. TypeOK'
  BY <1>1, <1>4, <1>6, <1>8, <1>9 DEF TypeOK, serverVars, leaderVars
<1>11. IndexInv'
  <2>1. ASSUME NEW k \in Server
        PROVE  IdsBounded(log'[k]) /\ commitIndex'[k] <= Len(log'[k])
    BY <1>1, <1>2, <1>4, <1>6 DEF TypeOK, IndexInv
  <2> QED BY <1>4, <1>8, <2>1 DEF IndexInv, serverVars, leaderVars
<1> QED BY <1>10, <1>11

LEMMA ReceiveInv ==
    ASSUME TypeOK, IndexInv, NEW m \in DOMAIN net, Receive(m)
    PROVE  TypeOK' /\ IndexInv'
<1> DEFINE rcvd == SetToBag({m})
<1>1. m \in Message /\ MsgBounded(m) /\ m.to \in Server
  BY DEF TypeOK, IndexInv, Message, VoteMsg, VoteRespMsg, AppMsg, AppRespMsg
<1>2. requested \subseteq Value
  BY DEF TypeOK
<1>3. CASE HandleVoteRequest(m.to, m, rcvd)
  BY <1>1, <1>3, HandleVoteRequestInv
<1>4. CASE HandleVoteResponse(m.to, m, rcvd)
  BY <1>1, <1>4, HandleVoteResponseInv
<1>5. CASE HandleAppendEntries(m.to, m, rcvd) /\ UNCHANGED requested
  <2>1. m \in AppMsg
    BY <1>1, <1>5, AppMsgType DEF HandleAppendEntries
  <2> QED BY <1>1, <1>2, <1>5, <2>1, HandleAppendEntriesInv
<1>6. CASE HandleAppendResponse(m.to, m, rcvd)
  BY <1>1, <1>6, HandleAppendResponseInv
<1>7. CASE Replicate(m.to, m, rcvd) /\ UNCHANGED requested
  <2>1. m \in AppMsg
    BY <1>1, <1>7, AppMsgType DEF Replicate
  <2> QED BY <1>2, <1>7, <2>1, ReplicateInv
<1>8. CASE Ignore(m.to, m, rcvd)
  <2>1. Transmit(rcvd, {}) /\ UNCHANGED <<serverVars, logVars, leaderVars, requested>>
    BY <1>8 DEF Ignore
  <2>2. DOMAIN net' \subseteq Message /\ \A k \in DOMAIN net' : MsgBounded(k)
    BY <2>1, TransmitGood
  <2> QED BY <2>1, <2>2 DEF TypeOK, IndexInv, serverVars, logVars, leaderVars
<1> QED BY <1>3, <1>4, <1>5, <1>6, <1>7, <1>8 DEF Receive

LEMMA PutInv ==
    ASSUME TypeOK, IndexInv, NEW n \in Server, NEW v \in Value, Put(n, v)
    PROVE  TypeOK' /\ IndexInv'
<1> DEFINE m == Proposal(n, v)
           e == [term |-> 0, id |-> 0, data |-> v]
<1>1. e \in Entry /\ 0 \in Term
  BY BoundAssumption DEF Entry, Term
<1> HIDE DEF e
<1>2. <<e>> \in Seq(Entry)
  BY <1>1
<1>3. m = [type |-> "MSG_APP", from |-> None, to |-> n, term |-> 0,
           prevLogIdx |-> 0, prevLogTerm |-> 0,
           entries |-> <<e>>, leaderCommitIdx |-> 0]
  BY DEF Proposal, e
<1>4. m \in AppMsg /\ m.to = n
  BY <1>1, <1>2, <1>3 DEF AppMsg
<1>5. MsgBounded(m)
  <2>1. e.id = 0
    BY DEF e
  <2> QED BY <1>3, <2>1 DEF MsgBounded
<1>6. requested' \subseteq Value
  BY DEF Put, TypeOK
<1>7. HandleAppendEntries(m.to, m, EmptyBag) \/ Replicate(m.to, m, EmptyBag)
  BY <1>4 DEF Put
<1> HIDE DEF m
<1> QED BY <1>4, <1>5, <1>6, <1>7, HandleAppendEntriesInv, ReplicateInv

LEMMA NextInv ==
    ASSUME TypeOK, IndexInv, [Next]_vars
    PROVE  TypeOK' /\ IndexInv'
<1>1. ASSUME NEW n \in Server, TickWait(n) PROVE TypeOK' /\ IndexInv'
  BY <1>1, TickWaitInv
<1>2. ASSUME NEW n \in Server, Campaign(n) PROVE TypeOK' /\ IndexInv'
  BY <1>2, CampaignInv
<1>3. ASSUME NEW n \in Server, BroadcastHeartbeat(n) PROVE TypeOK' /\ IndexInv'
  BY <1>3, BroadcastHeartbeatInv
<1>4. ASSUME NEW n \in Server, NEW v \in Value, Put(n, v) PROVE TypeOK' /\ IndexInv'
  BY <1>4, PutInv
<1>5. ASSUME NEW m \in DOMAIN net, Receive(m) PROVE TypeOK' /\ IndexInv'
  BY <1>5, ReceiveInv
<1>6. ASSUME NEW m \in DOMAIN net, Lose(m) PROVE TypeOK' /\ IndexInv'
  <2>1. DOMAIN net' \subseteq DOMAIN net
    BY <1>6, LoseDomain
  <2>2. UNCHANGED <<serverVars, logVars, leaderVars, requested>>
    BY <1>6 DEF Lose
  <2> QED BY <2>1, <2>2 DEF TypeOK, IndexInv, serverVars, logVars, leaderVars
<1>7. CASE UNCHANGED vars
  BY <1>7 DEF TypeOK, IndexInv, vars, serverVars, logVars, leaderVars
<1> QED BY <1>1, <1>2, <1>3, <1>4, <1>5, <1>6, <1>7 DEF Next

LEMMA InitInv ==
    ASSUME Init
    PROVE  TypeOK /\ IndexInv
<1>1. /\ 0 \in Term /\ << >> \in Seq(Entry) /\ IdsBounded(<< >>)
      /\ DOMAIN EmptyBag = {}
      /\ \A n \in Server : ID[n] % ElectionTimeout \in 0 .. ElectionTimeout - 1
  <2>1. DOMAIN EmptyBag = {}
    BY DEF EmptyBag, SetToBag
  <2>2. \A n \in Server : ID[n] % ElectionTimeout \in 0 .. ElectionTimeout - 1
    BY BoundAssumption, IDAssumption
  <2> QED BY <2>1, <2>2, BoundAssumption DEF Term, IdsBounded
<1>2. TypeOK
  BY <1>1 DEF Init, TypeOK, State
<1>3. IndexInv
  BY <1>1 DEF Init, IndexInv, Follower, Leader
<1> QED BY <1>2, <1>3

LEMMA RestartInv ==
    ASSUME TypeOK, IndexInv, NEW n \in Server, Restart(n)
    PROVE  TypeOK' /\ IndexInv'
<1>1. /\ 0 \in Term /\ << >> \in Seq(Entry) /\ IdsBounded(<< >>)
      /\ ID[n] % ElectionTimeout \in 0 .. ElectionTimeout - 1
      /\ [t \in Term |-> None] \in [Term -> Server \cup {None}]
      /\ [p \in Server |-> 0] \in [Server -> Nat]
  BY BoundAssumption, IDAssumption DEF Term, IdsBounded
<1>2. TypeOK'
  BY <1>1 DEF TypeOK, Restart, State
<1>3. IndexInv'
  BY <1>1 DEF TypeOK, IndexInv, Restart, Follower, Leader
<1> QED BY <1>2, <1>3

LEMMA IndexInvFacts ==
    ASSUME TypeOK, IndexInv
    PROVE  NoIndexPanic
BY LastIndexFacts DEF TypeOK, IndexInv, NoIndexPanic

\* With any number of restarts, every variable keeps its type.
THEOREM TypeCorrect == CrashSpec => []TypeOK
<1>1. CrashInit => TypeOK /\ IndexInv
  BY InitInv DEF CrashInit
<1>2. TypeOK /\ IndexInv /\ [CrashNext]_crashVars => (TypeOK /\ IndexInv)'
  BY NextInv, RestartInv DEF CrashNext, crashVars
<1> QED BY <1>1, <1>2, PTL DEF CrashSpec

\* No node, whatever is restarted, lost or reordered, indexes its log outside
\* the slice or sends entries from index 0: the run loop does not panic there.
THEOREM NoPanic == CrashSpec => []NoIndexPanic
<1>1. CrashInit => TypeOK /\ IndexInv
  BY InitInv DEF CrashInit
<1>2. TypeOK /\ IndexInv /\ [CrashNext]_crashVars => (TypeOK /\ IndexInv)'
  BY NextInv, RestartInv DEF CrashNext, crashVars
<1>3. TypeOK /\ IndexInv => NoIndexPanic
  BY IndexInvFacts
<1> QED BY <1>1, <1>2, <1>3, PTL DEF CrashSpec
=============================================================================
