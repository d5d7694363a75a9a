-------------------------------- MODULE Raft --------------------------------
(***************************************************************************)
(* The consensus state machine of HarmonyDB (repl/sm.go, repl/log.go) run  *)
(* by every node of a cluster, and the network between the nodes.          *)
(*                                                                         *)
(* One action is one call of Step or Tick by a node's run loop, followed   *)
(* by the Ready it produces: its entries are saved, its messages are sent  *)
(* and Advance is called.  Node.run evaluates Ready() before it can take   *)
(* the next event, and module RunLoop models that loop in detail: a Ready  *)
(* that carries data is either consumed before the next event or the loop  *)
(* stops for ever.                                                         *)
(*                                                                         *)
(* A message is sent by a goroutine of its own with a one second timeout:  *)
(* the network is a bag, messages are received in any order or are lost.   *)
(***************************************************************************)
EXTENDS Integers, FiniteSets, Sequences, Bags, RaftLog

CONSTANTS
    Server,           \* the nodes of the cluster configuration
    ID,               \* their numeric ids; only "id % electionTimeout" is read
    Value,            \* client commands (a PUT with its request id)
    None,             \* no node: To/From of a client proposal, no vote
    ElectionTimeout,  \* ticks without a leader before a campaign (10 in NewRaft)
    MaxTerm,          \* bound: no campaign beyond this term
    MaxLog,           \* bound: no append that makes a log longer than this
    MaxInFlight       \* bound: messages in flight at once

ASSUME ServerAssumption == IsFiniteSet(Server) /\ None \notin Server
ASSUME IDAssumption == ID \in [Server -> Nat]
ASSUME BoundAssumption ==
    /\ ElectionTimeout \in Nat \ {0}
    /\ MaxTerm \in Nat
    /\ MaxLog \in Nat
    /\ MaxInFlight \in Nat

VARIABLES
    state, currentTerm, votedFor, votes, electionTick,  \* per node
    log, commitIndex, stableIndex,                      \* per node: raftLog
    matchIndex, nextIndex,                              \* per node: progress
    net,                                                \* bag of messages
    requested                                           \* values put so far

serverVars == <<state, currentTerm, votedFor, votes, electionTick>>
logVars    == <<log, commitIndex, stableIndex>>
leaderVars == <<matchIndex, nextIndex>>
vars       == <<serverVars, logVars, leaderVars, net, requested>>
-----------------------------------------------------------------------------
Term     == 0 .. MaxTerm
Follower  == "StateFollower"
Candidate == "StateCandidate"
Leader    == "StateLeader"
State     == {Follower, Candidate, Leader}
peers(n)  == Server \ {n}
quorum    == Cardinality(Server) \div 2 + 1

Entry == [term : Term, id : Nat, data : Value]

\* raft.proto, without the fields no handler reads (leader_id, last_log_index
\* and last_log_term; candidate_id is the sender).
VoteMsg     == [type : {"MSG_VOTE"}, from : Server, to : Server, term : Term]
VoteRespMsg == [type : {"MSG_VOTE_RESP"}, from : Server, to : Server,
                term : Term, granted : BOOLEAN]
AppMsg      == [type : {"MSG_APP"}, from : Server \cup {None}, to : Server,
                term : Term, prevLogIdx : Nat, prevLogTerm : Term,
                entries : Seq(Entry), leaderCommitIdx : Nat]
AppRespMsg  == [type : {"MSG_APP_RESP"}, from : Server, to : Server,
                term : Term, success : BOOLEAN]
Message     == VoteMsg \cup VoteRespMsg \cup AppMsg \cup AppRespMsg

\* The network after rcvd is taken out of it and out is sent.  send() skips a
\* message without a destination.
Transmit(rcvd, out) ==
    /\ net' = (net (-) rcvd) (+) SetToBag({m \in out : m.to # None})
    /\ BagCardinality(net') <= MaxInFlight

\* Ready and Advance after a call that left the log at l: the entries up to
\* its lastIndex are saved to the WAL and marked stable.
Advance(n, l) ==
    stableIndex' = [stableIndex EXCEPT ![n] = markStableTill(l, @, lastIndex(l))]
-----------------------------------------------------------------------------
\* NewRaft on every node.
Init ==
    /\ state        = [n \in Server |-> Follower]
    /\ currentTerm  = [n \in Server |-> 0]
    /\ votedFor     = [n \in Server |-> [t \in Term |-> None]]
    /\ votes        = [n \in Server |-> {}]
    /\ electionTick = [n \in Server |-> ID[n] % ElectionTimeout]
    /\ log          = [n \in Server |-> << >>]
    /\ commitIndex  = [n \in Server |-> 0]
    /\ stableIndex  = [n \in Server |-> 0]
    /\ matchIndex   = [n \in Server |-> [p \in Server |-> 0]]
    /\ nextIndex    = [n \in Server |-> [p \in Server |-> 0]]
    /\ net          = EmptyBag
    /\ requested    = {}

\* "If term is higher, update and step down", in every handler.
newerTerm(n, t) == t > currentTerm[n]

becomeFollower(n, t) ==
    /\ state'        = [state EXCEPT ![n] = Follower]
    /\ currentTerm'  = [currentTerm EXCEPT ![n] = t]
    /\ votes'        = [votes EXCEPT ![n] = {}]
    /\ electionTick' = [electionTick EXCEPT ![n] = 0]

becomeLeader(n) ==
    /\ state'      = [state EXCEPT ![n] = Leader]
    /\ votes'      = [votes EXCEPT ![n] = {}]
    /\ matchIndex' = [matchIndex EXCEPT ![n] = [p \in Server |-> 0]]
    /\ nextIndex'  = [nextIndex EXCEPT ![n] = [p \in Server |-> lastIndex(log[n]) + 1]]
-----------------------------------------------------------------------------
\* tickFollower and tickCandidate.  randomizedTimeout is computed right after
\* electionTick is set to 0, so it always equals electionTimeout.
randomizedTimeout == ElectionTimeout + (0 % ElectionTimeout)

\* Mutant: the timeout is compared before the tick is counted, and strictly.
timedOutLate(n) == electionTick[n] > randomizedTimeout

timedOut(n) == electionTick[n] + 1 >= randomizedTimeout

TickWait(n) ==
    /\ state[n] # Leader
    /\ ~timedOut(n)
    /\ electionTick' = [electionTick EXCEPT ![n] = @ + 1]
    /\ UNCHANGED <<state, currentTerm, votedFor, votes, logVars, leaderVars, net, requested>>

\* The tick that reaches the timeout steps the internal MSG_VOTE: campaign().
Campaign(n) ==
    LET t == currentTerm[n] + 1 IN
    /\ state[n] # Leader
    /\ timedOut(n)
    /\ t <= MaxTerm
    /\ currentTerm'  = [currentTerm EXCEPT ![n] = t]
    /\ votedFor'     = [votedFor EXCEPT ![n][t] = n]
    /\ electionTick' = [electionTick EXCEPT ![n] = 0]
    /\ IF Cardinality(Server) = 1
       THEN becomeLeader(n) /\ UNCHANGED net
       ELSE /\ state' = [state EXCEPT ![n] = Candidate]
            /\ votes' = [votes EXCEPT ![n] = {n}]
            /\ Transmit(EmptyBag,
                        {[type |-> "MSG_VOTE", from |-> n, to |-> p, term |-> t] : p \in peers(n)})
            /\ UNCHANGED leaderVars
    /\ UNCHANGED <<logVars, requested>>

\* tickLeader with heartbeatTimeout 1: every tick broadcasts a heartbeat, an
\* AppendEntries without entries.
BroadcastHeartbeat(n) ==
    /\ state[n] = Leader
    /\ Transmit(EmptyBag,
                {[type |-> "MSG_APP", from |-> n, to |-> p, term |-> currentTerm[n],
                  prevLogIdx |-> matchIndex[n][p],
                  prevLogTerm |-> term(log[n], matchIndex[n][p]),
                  entries |-> << >>, leaderCommitIdx |-> commitIndex[n]] : p \in peers(n)})
    /\ UNCHANGED <<serverVars, logVars, leaderVars, requested>>
-----------------------------------------------------------------------------
\* Mutant: the map of votes is not consulted.
grantAnyVote(n, m) == m.term >= currentTerm[n]

\* A vote is granted unless the term is stale or has gone to another
\* candidate; there is no check that the candidate's log is up to date.
grantVote(n, m) ==
    m.term >= currentTerm[n] /\ votedFor[n][m.term] \in {None, m.from}

\* handleVoteRequest, reached from stepFollower and stepCandidate.
HandleVoteRequest(n, m, rcvd) ==
    LET grant == grantVote(n, m) IN
    /\ m.type = "MSG_VOTE"
    /\ state[n] # Leader
    /\ IF newerTerm(n, m.term)
       THEN becomeFollower(n, m.term)
       ELSE UNCHANGED <<state, currentTerm, votes, electionTick>>
    /\ votedFor' = IF grant THEN [votedFor EXCEPT ![n][m.term] = m.from] ELSE votedFor
    /\ Transmit(rcvd, {[type |-> "MSG_VOTE_RESP", from |-> n, to |-> m.from,
                        term |-> max(m.term, currentTerm[n]), granted |-> grant]})
    /\ UNCHANGED <<logVars, leaderVars, requested>>

\* handleVoteResponse, reached from stepCandidate only.
HandleVoteResponse(n, m, rcvd) ==
    LET granted == IF m.granted THEN votes[n] \cup {m.from} ELSE votes[n] \ {m.from}
    IN
    /\ m.type = "MSG_VOTE_RESP"
    /\ state[n] = Candidate
    /\ \/ /\ m.term < currentTerm[n]
          /\ UNCHANGED <<state, currentTerm, votes, electionTick, leaderVars>>
       \/ /\ newerTerm(n, m.term)
          /\ becomeFollower(n, m.term)
          /\ UNCHANGED leaderVars
       \/ /\ m.term = currentTerm[n]
          /\ Cardinality(granted) >= quorum
          /\ becomeLeader(n)
          /\ UNCHANGED <<currentTerm, electionTick>>
       \/ /\ m.term = currentTerm[n]
          /\ Cardinality(granted) < quorum
          /\ votes' = [votes EXCEPT ![n] = granted]
          /\ UNCHANGED <<state, currentTerm, electionTick, leaderVars>>
    /\ Transmit(rcvd, {})
    /\ UNCHANGED <<votedFor, logVars, requested>>
-----------------------------------------------------------------------------
\* Mutant: a gap before the new entries is not noticed.
logConsistentWithGap(n, m) ==
    m.prevLogIdx \in 1 .. lastIndex(log[n])
        => term(log[n], m.prevLogIdx) = m.prevLogTerm

\* "log doesn't contain entry at prevLogIndex with prevLogTerm", negated.
logConsistent(n, m) ==
    m.prevLogIdx > 0 => /\ m.prevLogIdx <= lastIndex(log[n])
                        /\ term(log[n], m.prevLogIdx) = m.prevLogTerm

\* Mutant: a heartbeat is not answered, not even to reject it.
entriesAnswered(m, reject) == m.entries # << >>

\* A rejection is answered at once, accepted entries after they are saved; an
\* accepted heartbeat is not answered.
answered(m, reject) == reject \/ m.entries # << >>

\* handleAppendEntries, reached from stepFollower and stepCandidate, for a
\* leader's message and for a client's proposal alike (whose term is 0).  The
\* election timer is reset before anything is checked; a candidate steps down
\* only for a higher term.
HandleAppendEntries(n, m, rcvd) ==
    LET t      == max(m.term, currentTerm[n])
        reject == m.term < currentTerm[n] \/ ~logConsistent(n, m)
        l      == IF reject THEN log[n] ELSE append(log[n], m.entries)
        resp   == [type |-> "MSG_APP_RESP", from |-> n, to |-> m.from,
                   term |-> t, success |-> ~reject]
    IN
    /\ m.type = "MSG_APP"
    /\ state[n] # Leader
    /\ Len(l) <= MaxLog
    /\ IF newerTerm(n, m.term)
       THEN becomeFollower(n, m.term)
       ELSE /\ electionTick' = [electionTick EXCEPT ![n] = 0]
            /\ UNCHANGED <<state, currentTerm, votes>>
    /\ log' = [log EXCEPT ![n] = l]
    /\ commitIndex' = [commitIndex EXCEPT ![n] =
           IF reject THEN @
           ELSE maybeCommit(l, @, min(m.leaderCommitIdx, lastIndex(l)))]
    /\ Advance(n, l)
    /\ Transmit(rcvd, IF answered(m, reject) THEN {resp} ELSE {})
    /\ UNCHANGED <<votedFor, leaderVars>>

\* maybeCommit: the positions above commitIndex that the leader counts as
\* stored by a quorum and that hold an entry of its own term.
Replicated(n, match) ==
    {i \in commitIndex[n] + 1 .. lastIndex(log[n]) :
        /\ Cardinality({p \in peers(n) : match[p] >= i}) + 1 >= quorum
        /\ term(log[n], i) = currentTerm[n]}

\* handleAppendResponse, reached from stepLeader only.  A success response
\* does not say what was stored: the leader takes it for its whole log.
HandleAppendResponse(n, m, rcvd) ==
    LET p     == m.from
        match == [matchIndex[n] EXCEPT ![p] = lastIndex(log[n])]
    IN
    /\ m.type = "MSG_APP_RESP"
    /\ state[n] = Leader
    /\ \/ /\ m.term > currentTerm[n]
          /\ becomeFollower(n, m.term)
          /\ UNCHANGED <<leaderVars, commitIndex>>
       \/ /\ m.term < currentTerm[n]
          /\ UNCHANGED <<state, currentTerm, votes, electionTick, leaderVars, commitIndex>>
       \/ /\ m.term = currentTerm[n] /\ m.success
          /\ matchIndex' = [matchIndex EXCEPT ![n] = match]
          /\ nextIndex'  = [nextIndex EXCEPT ![n][p] = lastIndex(log[n]) + 1]
          /\ \E c \in {commitIndex[n]} \cup Replicated(n, match) :
                /\ \A i \in Replicated(n, match) : i <= c
                /\ commitIndex' = [commitIndex EXCEPT ![n] = c]
          /\ UNCHANGED <<state, currentTerm, votes, electionTick>>
       \/ /\ m.term = currentTerm[n] /\ ~m.success
          /\ nextIndex' = [nextIndex EXCEPT ![n][p] = IF @ > 1 THEN @ - 1 ELSE @]
          /\ UNCHANGED <<state, currentTerm, votes, electionTick, matchIndex, commitIndex>>
    /\ Transmit(rcvd, {})
    /\ UNCHANGED <<votedFor, log, stableIndex, requested>>

\* replicate: what a leader does with ANY MSG_APP, a client's proposal or the
\* AppendEntries of another leader.  The entries are given its own term and
\* the next Ids, appended, and sent to every peer from its nextIndex on.
Replicate(n, m, rcvd) ==
    LET new == [k \in 1 .. Len(m.entries) |->
                   [term |-> currentTerm[n], id |-> lastIndex(log[n]) + k,
                    data |-> m.entries[k].data]]
        l   == append(log[n], new)
    IN
    /\ m.type = "MSG_APP"
    /\ state[n] = Leader
    /\ Len(l) <= MaxLog
    /\ log' = [log EXCEPT ![n] = l]
    /\ Advance(n, l)
    /\ Transmit(rcvd,
          IF m.entries = << >> THEN {}
          ELSE {[type |-> "MSG_APP", from |-> n, to |-> p, term |-> currentTerm[n],
                 prevLogIdx |-> nextIndex[n][p] - 1,
                 prevLogTerm |-> term(l, nextIndex[n][p] - 1),
                 entries |-> slice(l, nextIndex[n][p], lastIndex(l)),
                 leaderCommitIdx |-> commitIndex[n]] : p \in peers(n)})
    /\ UNCHANGED <<serverVars, commitIndex, leaderVars>>

\* The step functions drop the messages they have no case for.
Ignore(n, m, rcvd) ==
    /\ m.type \in CASE state[n] = Leader    -> {"MSG_VOTE", "MSG_VOTE_RESP"}
                    [] state[n] = Candidate -> {"MSG_APP_RESP"}
                    [] state[n] = Follower  -> {"MSG_VOTE_RESP", "MSG_APP_RESP"}
    /\ Transmit(rcvd, {})
    /\ UNCHANGED <<serverVars, logVars, leaderVars, requested>>
-----------------------------------------------------------------------------
\* Process and run: a message of a peer reaches Step.
Receive(m) ==
    LET n == m.to  rcvd == SetToBag({m}) IN
    \/ HandleVoteRequest(n, m, rcvd)
    \/ HandleVoteResponse(n, m, rcvd)
    \/ HandleAppendEntries(n, m, rcvd) /\ UNCHANGED requested
    \/ HandleAppendResponse(n, m, rcvd)
    \/ Replicate(n, m, rcvd) /\ UNCHANGED requested
    \/ Ignore(n, m, rcvd)

\* The RPC of send() fails or times out: it is logged and not repeated.
Lose(m) ==
    /\ net' = net (-) SetToBag({m})
    /\ UNCHANGED <<serverVars, logVars, leaderVars, requested>>

\* DB.Put on node n: a MSG_APP without sender, term or Ids.
Proposal(n, v) ==
    [type |-> "MSG_APP", from |-> None, to |-> n, term |-> 0,
     prevLogIdx |-> 0, prevLogTerm |-> 0,
     entries |-> <<[term |-> 0, id |-> 0, data |-> v]>>, leaderCommitIdx |-> 0]

Put(n, v) ==
    /\ v \notin requested
    /\ requested' = requested \cup {v}
    /\ \/ HandleAppendEntries(n, Proposal(n, v), EmptyBag)
       \/ Replicate(n, Proposal(n, v), EmptyBag)

Next ==
    \/ \E n \in Server : TickWait(n) \/ Campaign(n) \/ BroadcastHeartbeat(n)
    \/ \E n \in Server, v \in Value : Put(n, v)
    \/ \E m \in DOMAIN net : Receive(m) \/ Lose(m)

Spec == Init /\ [][Next]_vars
-----------------------------------------------------------------------------
TypeOK ==
    /\ state \in [Server -> State]
    /\ currentTerm \in [Server -> Term]
    /\ votedFor \in [Server -> [Term -> Server \cup {None}]]
    /\ votes \in [Server -> SUBSET Server]
    /\ electionTick \in [Server -> 0 .. ElectionTimeout - 1]
    /\ log \in [Server -> Seq(Entry)]
    /\ commitIndex \in [Server -> Nat]
    /\ stableIndex \in [Server -> Nat]
    /\ matchIndex \in [Server -> [Server -> Nat]]
    /\ nextIndex \in [Server -> [Server -> Nat]]
    /\ DOMAIN net \subseteq Message
    /\ requested \subseteq Value

\* At most one node leads a term: handleVoteRequest, campaign and
\* handleVoteResponse together never let two candidates of one term reach a
\* quorum, whatever the order of requests, grants and new campaigns.
ElectionSafety ==
    \A a, b \in Server :
        /\ state[a] = Leader /\ state[b] = Leader
        /\ currentTerm[a] = currentTerm[b]
        => a = b

votedBy(t, n) == {v \in Server : votedFor[v][t] = n}

\* The node a term is decided for by a quorum of votes, and the term each
\* leader leads.
quorate(t, n) == Cardinality(votedBy(t, n)) >= quorum
Elected ==
    [t \in Term |-> IF \E n \in Server : quorate(t, n)
                    THEN CHOOSE n \in Server : quorate(t, n) ELSE None]
Leading == [n \in Server |-> IF state[n] = Leader THEN currentTerm[n] ELSE 0]

Office == INSTANCE Elections WITH elected <- Elected, leading <- Leading

\* The votes, requests and responses of the nodes implement the decision of
\* each term: a quorum that voted for a node in a term never moves to another,
\* and a node leads a term only after a quorum voted for it.
ImplementsElections == Office!Spec

\* raftLog.term indexes the slice at any i up to lastIndex, which is the Id of
\* the last entry and not the length of the slice.  The two differ once a
\* follower appended an entry twice, a client's proposal reached a node of
\* term 0, or a leader took another leader's entries for proposals; the Id
\* must never run ahead of the slice, or the run loop panics.  The commit index
\* stays within the slice too, so committedEntries never skips an entry.
NoIndexPanic ==
    \A n \in Server :
        /\ lastIndex(log[n]) <= Len(log[n])
        /\ commitIndex[n] <= Len(log[n])
        /\ state[n] = Leader => \A p \in peers(n) : nextIndex[n][p] >= 1

EntriesOf(S) == UNION {{m.entries[k] : k \in 1 .. Len(m.entries)} : m \in S}
LogEntries   == UNION {{log[n][k] : k \in 1 .. Len(log[n])} : n \in Server}
SentEntries  == EntriesOf({m \in DOMAIN net : m.type = "MSG_APP"})
Entries      == LogEntries \cup SentEntries

\* A leader's term and the Id it gives name one command for ever: no two
\* entries with the same term and Id, in any log or message, differ in their
\* command, although logs hold duplicates, Ids are not positions, leaders
\* change and a leader re-tags entries another leader sent.  (Proposals that a
\* node of term 0 appends without a leader all carry term 0 and Id 0.)
EntryIdentity ==
    \A e, f \in Entries :
        e.term = f.term /\ e.id = f.id /\ e.term > 0 => e.data = f.data

\* What ToApply promises of the entries a leader hands to its database: each
\* of them is in the log of a majority of the nodes.
CommittedOnMajority ==
    \A n \in Server : state[n] = Leader =>
        \A i \in 1 .. min(commitIndex[n], Len(log[n])) :
            Cardinality({p \in Server : \E k \in 1 .. Len(log[p]) : log[p][k] = log[n][i]})
                >= quorum

\* A vote, once cast for a term, is never given to another candidate: neither
\* a repeated request nor a later campaign of the voter itself overwrites it.
VoteOnce ==
    [][\A n \in Server, t \in Term :
          votedFor[n][t] # None => votedFor'[n][t] = votedFor[n][t]]_vars

\* A node's term and commit index never go backwards, and a leader leaves
\* office only for a higher term, also when late messages of older terms
\* arrive after newer ones.
Monotonic ==
    [][\A n \in Server :
          /\ currentTerm'[n] >= currentTerm[n]
          /\ commitIndex'[n] >= commitIndex[n]
          /\ state[n] = Leader /\ state'[n] # Leader => currentTerm'[n] > currentTerm[n]]_vars
=============================================================================
