---------------------------- MODULE EntryProofs ----------------------------
(***************************************************************************)
(* A term and an Id name one command, for nodes that are not restarted.    *)
(*                                                                         *)
(* EntryIdentity is not inductive: it does not say where entries come      *)
(* from.  Created does: an entry of a term above 0 was made by the one     *)
(* node a quorum elected for that term, which is past that term or still   *)
(* leads it with a last Id at least as high.  So the Ids that a leader     *)
(* gives out next are new.                                                 *)
(***************************************************************************)
EXTENDS ElectionProofs

\* Node a has made e: it was elected for the term of e and will not use the
\* Id of e again.
CreatedBy(e, a) ==
    /\ quorate(e.term, a)
    /\ \/ currentTerm[a] > e.term
       \/ currentTerm[a] = e.term /\ state[a] = Leader /\ e.id <= lastIndex(log[a])

Created == \A e \in Entries : e.term > 0 => \E a \in Server : CreatedBy(e, a)

InLog(e, l) == \E k \in 1 .. Len(l) : e = l[k]
InMsg(e, m) == m.type = "MSG_APP" /\ InLog(e, m.entries)

LEMMA InLogs ==
    ASSUME NEW L, NEW e
    PROVE  e \in UNION {{L[n][k] : k \in 1 .. Len(L[n])} : n \in Server}
              <=> \E n \in Server : InLog(e, L[n])
<1> DEFINE held(n) == {L[n][k] : k \in 1 .. Len(L[n])}
<1>1. \A n : e \in held(n) <=> InLog(e, L[n])
  BY DEF InLog
<1>2. e \in UNION {held(n) : n \in Server} <=> \E n \in Server : e \in held(n)
  <2> HIDE DEF held
  <2> QED OBVIOUS
<1> HIDE DEF held
<1>3. e \in UNION {held(n) : n \in Server} <=> \E n \in Server : InLog(e, L[n])
  BY <1>1, <1>2
<1> QED BY <1>3 DEF held

LEMMA InMsgs ==
    ASSUME NEW M, NEW e
    PROVE  e \in EntriesOf({m \in M : m.type = "MSG_APP"}) <=> \E m \in M : InMsg(e, m)
<1> DEFINE held(m) == {m.entries[k] : k \in 1 .. Len(m.entries)}
           A == {m \in M : m.type = "MSG_APP"}
<1>1. \A m \in A : e \in held(m) <=> InMsg(e, m)
  BY DEF InLog, InMsg
<1>2. e \in UNION {held(m) : m \in A} <=> \E m \in A : e \in held(m)
  <2> HIDE DEF held, A
  <2> QED OBVIOUS
<1>3. EntriesOf(A) = UNION {held(m) : m \in A}
  BY DEF EntriesOf
<1> HIDE DEF held
<1> QED BY <1>1, <1>2, <1>3 DEF InMsg

LEMMA EntriesFacts ==
    ASSUME NEW e
    PROVE  e \in Entries <=> \/ \E n \in Server : InLog(e, log[n])
                             \/ \E m \in DOMAIN net : InMsg(e, m)
<1>1. e \in Entries <=> e \in LogEntries \/ e \in SentEntries
  BY DEF Entries
<1>2. e \in LogEntries <=> \E n \in Server : InLog(e, log[n])
  BY InLogs, Zenon DEF LogEntries
<1>3. e \in SentEntries <=> \E m \in DOMAIN net : InMsg(e, m)
  BY InMsgs, Zenon DEF SentEntries
<1> QED BY <1>1, <1>2, <1>3

LEMMA EntriesFactsNext ==
    ASSUME NEW e
    PROVE  e \in Entries' <=> \/ \E n \in Server : InLog(e, log'[n])
                              \/ \E m \in DOMAIN net' : InMsg(e, m)
<1>1. e \in Entries' <=> e \in LogEntries' \/ e \in SentEntries'
  BY DEF Entries
<1>2. e \in LogEntries' <=> \E n \in Server : InLog(e, log'[n])
  BY InLogs, Zenon DEF LogEntries
<1>3. e \in SentEntries' <=> \E m \in DOMAIN net' : InMsg(e, m)
  BY InMsgs, Zenon DEF SentEntries, EntriesOf
<1> QED BY <1>1, <1>2, <1>3

LEMMA AppendType ==
    ASSUME NEW S, NEW l \in Seq(S), NEW new \in Seq(S)
    PROVE  append(l, new) \in Seq(S) /\ Len(append(l, new)) = Len(l) + Len(new)
BY DEF append

LEMMA InAppend ==
    ASSUME NEW S, NEW l \in Seq(S), NEW new \in Seq(S), NEW e, InLog(e, append(l, new))
    PROVE  InLog(e, l) \/ InLog(e, new)
<1>1. PICK k \in 1 .. Len(append(l, new)) : e = append(l, new)[k]
  BY DEF InLog
<1>2. Len(append(l, new)) = Len(l) + Len(new) /\ Len(l) \in Nat /\ Len(new) \in Nat
  BY DEF append
<1>3. CASE k <= Len(l)
  BY <1>1, <1>2, <1>3 DEF append, InLog
<1>4. CASE k > Len(l)
  <2>1. k - Len(l) \in 1 .. Len(new) /\ e = new[k - Len(l)]
    BY <1>1, <1>2, <1>4 DEF append
  <2> QED BY <2>1 DEF InLog
<1> QED BY <1>1, <1>2, <1>3, <1>4

LEMMA EntriesTyped ==
    ASSUME TypeOK, NEW e \in Entries
    PROVE  e.term \in Nat /\ e.id \in Nat /\ e.term \in Term
<1>1. e \in Entry
  <2>1. CASE \E n \in Server : InLog(e, log[n])
    BY <2>1 DEF TypeOK, InLog
  <2>2. CASE \E m \in DOMAIN net : InMsg(e, m)
    <3>1. PICK m \in DOMAIN net : InMsg(e, m)
      BY <2>2
    <3>2. m \in AppMsg
      BY <3>1, AppMsgType DEF TypeOK, InMsg
    <3>3. m.entries \in Seq(Entry)
      BY <3>2 DEF AppMsg
    <3> QED BY <3>1, <3>3 DEF InMsg, InLog
  <2> QED BY <2>1, <2>2, EntriesFacts
<1> QED BY <1>1 DEF Entry, Term

\* A quorum has voted for a leader.
LEMMA LeaderQuorate ==
    ASSUME TypeOK, VoteInv, NEW n \in Server, state[n] = Leader
    PROVE  quorate(currentTerm[n], n)
<1> DEFINE V == votedBy(currentTerm[n], n)
<1>1. PICK Q : IsQuorum(Q) /\ \A v \in Q : votedFor[v][currentTerm[n]] = n
  BY DEF VoteInv, LeaderElected
<1>2. Q \subseteq V /\ V \subseteq Server
  BY <1>1 DEF IsQuorum, votedBy
<1>3. IsFiniteSet(V) /\ IsFiniteSet(Q)
  BY <1>2, ServerAssumption, FS_Subset
<1>4. /\ Cardinality(Q) <= Cardinality(V) /\ Cardinality(Q) \in Nat /\ Cardinality(V) \in Nat
      /\ Cardinality(Server) \in Nat
  BY <1>2, <1>3, ServerAssumption, FS_Subset, FS_CardinalityType
<1> QED BY <1>1, <1>4 DEF quorate, IsQuorum, quorum

\* The maker of an entry stays its maker as long as a leader's last Id grows.
LEMMA MakerStays ==
    ASSUME TypeOK, TypeOK', VotesKept, Forward, NEW e \in Entries, NEW a \in Server,
           CreatedBy(e, a),
           state[a] = Leader => lastIndex(log[a]) <= lastIndex(log'[a])
    PROVE  CreatedBy(e, a)'
<1>1. /\ currentTerm[a] \in Nat /\ currentTerm'[a] \in Nat
      /\ lastIndex(log[a]) \in Nat /\ lastIndex(log'[a]) \in Nat
  BY LastIndexFacts DEF TypeOK, Term
<1>2. e.term \in Nat /\ e.id \in Nat /\ e.term \in Term
  BY EntriesTyped
<1>3. quorate(e.term, a)'
  BY <1>2, QuorateKept DEF CreatedBy
<1>4. currentTerm'[a] >= currentTerm[a]
      /\ (state[a] = Leader /\ state'[a] # Leader => currentTerm'[a] > currentTerm[a])
  BY DEF Forward
<1> QED BY <1>1, <1>2, <1>3, <1>4 DEF CreatedBy

\* A step that makes no entry of a term above 0 and leaves the logs of the
\* leaders alone.
LEMMA NothingCreated ==
    ASSUME TypeOK, TypeOK', VotesKept, Forward, Created, EntryIdentity,
           \A e \in Entries' : e \in Entries \/ e.term = 0,
           \A n \in Server : state[n] = Leader => log'[n] = log[n]
    PROVE  Created' /\ EntryIdentity'
<1>1. EntryIdentity'
  BY DEF EntryIdentity
<1>2. ASSUME NEW e \in Entries', e.term > 0 PROVE \E a \in Server : CreatedBy(e, a)'
  <2>1. e \in Entries
    BY <1>2
  <2>2. PICK a \in Server : CreatedBy(e, a)
    BY <1>2, <2>1 DEF Created
  <2>3. lastIndex(log[a]) \in Nat
    BY LastIndexFacts DEF TypeOK
  <2>4. CreatedBy(e, a)'
    BY <2>1, <2>2, <2>3, MakerStays
  <2> QED BY <2>4
<1> QED BY <1>1, <1>2 DEF Created

\* Logs are kept, and messages with entries are not sent.
LEMMA NoEntriesSent ==
    ASSUME TypeOK, TypeOK', VotesKept, Forward, Created, EntryIdentity, log' = log,
           \A m \in DOMAIN net' : m \in DOMAIN net \/ m.type # "MSG_APP" \/ m.entries = << >>
    PROVE  Created' /\ EntryIdentity'
<1>1. \A e \in Entries' : e \in Entries
  <2> SUFFICES ASSUME NEW e \in Entries' PROVE e \in Entries
    OBVIOUS
  <2>1. CASE \E n \in Server : InLog(e, log'[n])
    BY <2>1, EntriesFacts
  <2>2. CASE \E m \in DOMAIN net' : InMsg(e, m)
    <3>1. PICK m \in DOMAIN net' : InMsg(e, m)
      BY <2>2
    <3>2. m.entries # << >> /\ m.type = "MSG_APP"
      BY <3>1 DEF InMsg, InLog
    <3> QED BY <3>1, <3>2, EntriesFacts
  <2> QED BY <2>1, <2>2, EntriesFactsNext
<1> QED BY <1>1, NothingCreated

LEMMA AppendEntriesCreated ==
    ASSUME TypeOK, TypeOK', VotesKept, Forward, Created, EntryIdentity,
           NEW m \in AppMsg, NEW rcvd, HandleAppendEntries(m.to, m, rcvd),
           \A e : InLog(e, m.entries) => e \in Entries \/ e.term = 0
    PROVE  Created' /\ EntryIdentity'
<1> DEFINE n == m.to
<1>1. n \in Server /\ m.entries \in Seq(Entry) /\ log \in [Server -> Seq(Entry)]
  BY DEF AppMsg, TypeOK
<1>2. /\ state[n] # Leader
      /\ \/ log' = [log EXCEPT ![n] = log[n]]
         \/ log' = [log EXCEPT ![n] = append(log[n], m.entries)]
  BY DEF HandleAppendEntries
<1>3. \A k \in DOMAIN net' : k \in DOMAIN net \/ k.type = "MSG_APP_RESP"
  BY AppendEntriesSends
<1> HIDE DEF n
<1>4. ASSUME NEW e \in Entries' PROVE e \in Entries \/ e.term = 0
  <2>1. CASE \E p \in Server : InLog(e, log'[p])
    <3>1. PICK p \in Server : InLog(e, log'[p])
      BY <2>1
    <3>2. log'[p] = log[p] \/ (p = n /\ log'[p] = append(log[n], m.entries))
      BY <1>1, <1>2
    <3>3. InLog(e, log[p]) \/ InLog(e, m.entries)
      BY <1>1, <3>1, <3>2, InAppend
    <3> QED BY <3>3, EntriesFacts
  <2>2. CASE \E k \in DOMAIN net' : InMsg(e, k)
    BY <1>3, <2>2, EntriesFacts DEF InMsg
  <2> QED BY <2>1, <2>2, EntriesFactsNext
<1>5. \A p \in Server : state[p] = Leader => log'[p] = log[p]
  BY <1>1, <1>2
<1> QED BY <1>4, <1>5, NothingCreated

\* A leader gives its entries Ids that no entry of its term has.
LEMMA ReplicateCreated ==
    ASSUME TypeOK, TypeOK', IndexInv, VoteInv, VotesKept, Forward, Created, EntryIdentity,
           NEW m \in AppMsg, NEW rcvd, Replicate(m.to, m, rcvd)
    PROVE  Created' /\ EntryIdentity'
<1> DEFINE n    == m.to
           t    == currentTerm[n]
           last == lastIndex(log[n])
           new  == [k \in 1 .. Len(m.entries) |->
                      [term |-> t, id |-> last + k, data |-> m.entries[k].data]]
           l    == append(log[n], new)
           app(p) == [type |-> "MSG_APP", from |-> n, to |-> p, term |-> t,
                      prevLogIdx |-> nextIndex[n][p] - 1,
                      prevLogTerm |-> term(l, nextIndex[n][p] - 1),
                      entries |-> slice(l, nextIndex[n][p], lastIndex(l)),
                      leaderCommitIdx |-> commitIndex[n]]
<1>1. /\ n \in Server /\ m.entries \in Seq(Entry) /\ log \in [Server -> Seq(Entry)]
      /\ log[n] \in Seq(Entry) /\ t \in Term /\ t \in Nat /\ Len(m.entries) \in Nat
  <2>1. n \in Server /\ m.entries \in Seq(Entry)
    BY DEF AppMsg
  <2>2. log \in [Server -> Seq(Entry)] /\ t \in Term
    BY <2>1 DEF TypeOK
  <2> QED BY <2>1, <2>2 DEF Term
<1>2. last \in Nat
  BY <1>1, LastIndexFacts
<1>3. /\ state[n] = Leader /\ state' = state /\ currentTerm' = currentTerm
      /\ log' = [log EXCEPT ![n] = l]
      /\ Transmit(rcvd, IF m.entries = << >> THEN {} ELSE {app(p) : p \in peers(n)})
  BY DEF Replicate, serverVars
<1>4. quorate(t, n) /\ quorate(t, n)'
  <2>1. PICK u \in Term : u = t /\ quorate(u, n)
    BY <1>1, <1>3, LeaderQuorate
  <2>2. quorate(u, n)'
    BY <1>1, <2>1, QuorateKept
  <2>3. t' = t
    BY <1>3
  <2> QED BY <2>1, <2>2, <2>3 DEF quorate, votedBy, quorum
<1> HIDE DEF last
<1>5. /\ new \in Seq(Entry) /\ Len(new) = Len(m.entries)
      /\ \A k \in 1 .. Len(new) : new[k].term = t /\ new[k].id = last + k
  <2>1. \A k \in 1 .. Len(m.entries) : m.entries[k] \in Entry
    BY <1>1
  <2>2. \A k \in 1 .. Len(m.entries) :
           [term |-> t, id |-> last + k, data |-> m.entries[k].data] \in Entry
    BY <1>1, <1>2, <2>1 DEF Entry
  <2> QED BY <1>1, <2>2
<1> HIDE DEF t, new, n
<1>6. l \in Seq(Entry) /\ Len(l) = Len(log[n]) + Len(new)
  BY <1>1, <1>5, AppendType
<1>7. lastIndex(l) = last + Len(new)
  <2>1. CASE Len(new) = 0
    <3>1. l = log[n]
      BY <1>1, <1>5, <2>1 DEF append
    <3> QED BY <1>2, <2>1, <3>1 DEF last
  <2>2. CASE Len(new) # 0
    <3>1. Len(new) \in 1 .. Len(new) /\ l[Len(l)] = new[Len(new)]
      BY <1>1, <1>5, <1>6, <2>2 DEF append
    <3>2. l[Len(l)].id = last + Len(new)
      BY <1>5, <3>1
    <3> QED BY <1>1, <1>5, <1>6, <2>2, <3>2 DEF lastIndex
  <2> QED BY <2>1, <2>2
<1>8. \A e : InLog(e, l) => e \in Entries \/ InLog(e, new)
  BY <1>1, <1>5, <1>6, InAppend, EntriesFacts
<1>9. ASSUME NEW p \in peers(n), NEW e, InLog(e, app(p).entries) PROVE InLog(e, l)
  <2>1. nextIndex[n][p] \in Nat \ {0}
    BY <1>1, <1>3 DEF TypeOK, IndexInv, peers
  <2>2. lastIndex(l) \in Nat
    BY <1>6, LastIndexFacts
  <2>3. app(p).entries = slice(l, nextIndex[n][p], lastIndex(l))
    OBVIOUS
  <2>4. PICK k \in 1 .. Len(app(p).entries) : e = app(p).entries[k]
    BY <1>9 DEF InLog
  <2>5. nextIndex[n][p] - 1 + k \in 1 .. Len(l) /\ e = l[nextIndex[n][p] - 1 + k]
    <3> DEFINE lo == nextIndex[n][p]
               es == slice(l, lo, lastIndex(l))
    <3> HIDE DEF l, lo
    <3>1. \A i \in 1 .. Len(es) : lo - 1 + i \in 1 .. Len(l) /\ es[i] = l[lo - 1 + i]
      BY <1>6, <2>1, <2>2, SliceFacts DEF lo
    <3>2. es = app(p).entries
      BY <2>3 DEF lo
    <3> HIDE DEF es, app
    <3>3. k \in 1 .. Len(es) /\ e = es[k]
      BY <2>4, <3>2
    <3> QED BY <3>1, <3>3 DEF lo
  <2> QED BY <2>5 DEF InLog
<1> HIDE DEF app, l
<1>10. ASSUME NEW e \in Entries' PROVE e \in Entries \/ InLog(e, new)
  <2>1. CASE \E p \in Server : InLog(e, log'[p])
    <3>1. PICK p \in Server : InLog(e, log'[p])
      BY <2>1
    <3>2. log'[p] = log[p] \/ log'[p] = l
      BY <1>1, <1>3
    <3> QED BY <1>8, <3>1, <3>2, EntriesFacts
  <2>2. CASE \E k \in DOMAIN net' : InMsg(e, k)
    <3>1. PICK k \in DOMAIN net' : InMsg(e, k)
      BY <2>2
    <3>2. k \in DOMAIN net \/ \E p \in peers(n) : k = app(p)
      BY <1>3, TransmitDomain
    <3>3. CASE k \in DOMAIN net
      BY <3>1, <3>3, EntriesFacts
    <3>4. CASE \E p \in peers(n) : k = app(p)
      BY <1>8, <1>9, <3>1, <3>4 DEF InMsg
    <3> QED BY <3>2, <3>3, <3>4
  <2> QED BY <2>1, <2>2, EntriesFactsNext
<1>11. ASSUME NEW e, InLog(e, new)
       PROVE  e.term = t /\ e.id \in Nat /\ e.id > last /\ e.id <= last + Len(new)
  BY <1>1, <1>2, <1>5, <1>11 DEF InLog
<1>12. ASSUME NEW e \in Entries, e.term = t, t > 0 PROVE e.id <= last
  <2>1. PICK a \in Server : CreatedBy(e, a)
    BY <1>12 DEF Created
  <2>2. a = n
    BY <1>4, <1>12, <2>1, QuorateUnique DEF CreatedBy
  <2>3. ~(t > t)
    BY <1>1
  <2> QED BY <1>12, <2>1, <2>2, <2>3 DEF CreatedBy, last, t
<1>13. EntryIdentity'
  <2> SUFFICES ASSUME NEW e \in Entries', NEW f \in Entries',
                      e.term = f.term, e.id = f.id, e.term > 0
               PROVE  e.data = f.data
    BY DEF EntryIdentity
  <2>1. CASE e \in Entries /\ f \in Entries
    BY <2>1 DEF EntryIdentity
  <2>2. CASE InLog(e, new) /\ InLog(f, new)
    <3>1. PICK i \in 1 .. Len(new), j \in 1 .. Len(new) : e = new[i] /\ f = new[j]
      BY <2>2 DEF InLog
    <3>2. last + i = last + j
      BY <1>5, <3>1
    <3>3. i = j
      BY <1>2, <3>2
    <3> QED BY <3>1, <3>3
  <2>3. CASE InLog(e, new) /\ f \in Entries
    <3>1. e.term = t /\ e.id \in Nat /\ e.id > last
      BY <1>11, <2>3
    <3>2. f.id <= last
      BY <1>12, <2>3, <3>1
    <3> QED BY <1>2, <3>1, <3>2
  <2>4. CASE e \in Entries /\ InLog(f, new)
    <3>1. f.term = t /\ f.id \in Nat /\ f.id > last
      BY <1>11, <2>4
    <3>2. e.id <= last
      BY <1>12, <2>4, <3>1
    <3> QED BY <1>2, <3>1, <3>2
  <2> QED BY <1>10, <2>1, <2>2, <2>3, <2>4
<1>14. Created'
  <2> SUFFICES ASSUME NEW e \in Entries', e.term > 0 PROVE \E a \in Server : CreatedBy(e, a)'
    BY DEF Created
  <2>1. log'[n] = l /\ \A a \in Server : a # n => log'[a] = log[a]
    BY <1>1, <1>3
  <2>2. \A a \in Server : lastIndex(log[a]) <= lastIndex(log'[a])
    <3>1. \A a \in Server : lastIndex(log[a]) \in Nat
      BY LastIndexFacts DEF TypeOK
    <3>2. lastIndex(log[n]) <= lastIndex(l)
      BY <1>1, <1>2, <1>5, <1>7 DEF last
    <3> QED BY <2>1, <3>1, <3>2
  <2>3. CASE e \in Entries
    <3>1. PICK a \in Server : CreatedBy(e, a)
      BY <2>3 DEF Created
    <3> QED BY <2>2, <2>3, <3>1, MakerStays
  <2>4. CASE InLog(e, new)
    <3>1. e.term = t /\ e.id <= lastIndex(log'[n]) /\ currentTerm'[n] = t /\ state'[n] = Leader
      BY <1>3, <1>7, <1>11, <2>1, <2>4 DEF t
    <3>2. quorate(e.term, n)'
      BY <1>3, <1>4, <3>1 DEF quorate, votedBy, quorum, t
    <3>3. CreatedBy(e, n)'
      BY <3>1, <3>2 DEF CreatedBy
    <3> QED BY <1>1, <3>3
  <2> QED BY <1>10, <2>3, <2>4
<1> QED BY <1>13, <1>14
-----------------------------------------------------------------------------
LEMMA NextCreated ==
    ASSUME TypeOK, TypeOK', IndexInv, VoteInv, VotesKept, Created, EntryIdentity, [Next]_vars
    PROVE  Created' /\ EntryIdentity'
<1> USE NextForward
<1>1. CASE UNCHANGED <<log, net>>
  BY <1>1, NoEntriesSent
<1>2. ASSUME NEW n \in Server, TickWait(n) PROVE Created' /\ EntryIdentity'
  BY <1>1, <1>2 DEF TickWait, logVars
<1>3. ASSUME NEW n \in Server, Campaign(n) PROVE Created' /\ EntryIdentity'
  <2> DEFINE out == {[type |-> "MSG_VOTE", from |-> n, to |-> p,
                      term |-> currentTerm[n] + 1] : p \in peers(n)}
  <2>1. log' = log /\ (net' = net \/ Transmit(EmptyBag, out))
    BY <1>3 DEF Campaign, logVars
  <2>2. \A m \in out : m.type # "MSG_APP"
    OBVIOUS
  <2> HIDE DEF out
  <2>3. \A m \in DOMAIN net' : m \in DOMAIN net \/ m.type # "MSG_APP"
    BY <2>1, <2>2, TransmitDomain
  <2> QED BY <2>1, <2>3, NoEntriesSent
<1>4. ASSUME NEW n \in Server, BroadcastHeartbeat(n) PROVE Created' /\ EntryIdentity'
  <2> DEFINE out == {[type |-> "MSG_APP", from |-> n, to |-> p, term |-> currentTerm[n],
                      prevLogIdx |-> matchIndex[n][p],
                      prevLogTerm |-> term(log[n], matchIndex[n][p]),
                      entries |-> << >>, leaderCommitIdx |-> commitIndex[n]] : p \in peers(n)}
  <2>1. log' = log /\ Transmit(EmptyBag, out)
    BY <1>4 DEF BroadcastHeartbeat, logVars
  <2>2. \A m \in out : m.entries = << >>
    OBVIOUS
  <2> HIDE DEF out
  <2>3. \A m \in DOMAIN net' : m \in DOMAIN net \/ m.entries = << >>
    BY <2>1, <2>2, TransmitDomain
  <2> QED BY <2>1, <2>3, NoEntriesSent
<1>5. ASSUME NEW n \in Server, NEW v \in Value, Put(n, v) PROVE Created' /\ EntryIdentity'
  <2> DEFINE m == Proposal(n, v)
  <2>1. m \in AppMsg /\ m.to = n
    BY ProposalType
  <2>2. HandleAppendEntries(m.to, m, EmptyBag) \/ Replicate(m.to, m, EmptyBag)
    BY <1>5, <2>1 DEF Put
  <2>3. \A e : InLog(e, m.entries) => e.term = 0
    BY DEF InLog, Proposal
  <2> HIDE DEF m
  <2> QED BY <2>1, <2>2, <2>3, AppendEntriesCreated, ReplicateCreated
<1>6. ASSUME NEW m \in DOMAIN net, Receive(m) PROVE Created' /\ EntryIdentity'
  <2> DEFINE rcvd == SetToBag({m})
  <2>1. m \in Message
    BY DEF TypeOK
  <2> HIDE DEF rcvd
  <2>2. CASE HandleVoteRequest(m.to, m, rcvd)
    <3>1. PICK r : r.type = "MSG_VOTE_RESP" /\ Transmit(rcvd, {r}) /\ log' = log
      BY <2>2 DEF HandleVoteRequest, logVars
    <3>2. \A k \in DOMAIN net' : k \in DOMAIN net \/ k.type # "MSG_APP"
      BY <3>1, TransmitDomain
    <3> QED BY <3>1, <3>2, NoEntriesSent
  <2>3. CASE log' = log /\ Transmit(rcvd, {})
    <3>1. DOMAIN net' \subseteq DOMAIN net
      BY <2>3, TransmitDomain
    <3> QED BY <2>3, <3>1, NoEntriesSent
  <2>4. CASE HandleVoteResponse(m.to, m, rcvd) \/ HandleAppendResponse(m.to, m, rcvd)
             \/ Ignore(m.to, m, rcvd)
    BY <2>3, <2>4 DEF HandleVoteResponse, HandleAppendResponse, Ignore, logVars
  <2>5. CASE HandleAppendEntries(m.to, m, rcvd)
    <3>1. m.type = "MSG_APP" /\ m \in AppMsg
      BY <2>1, <2>5, AppMsgType DEF HandleAppendEntries
    <3>2. \A e : InLog(e, m.entries) => e \in Entries
      BY <3>1, EntriesFacts DEF InMsg
    <3> QED BY <2>5, <3>1, <3>2, AppendEntriesCreated
  <2>6. CASE Replicate(m.to, m, rcvd)
    <3>1. m \in AppMsg
      BY <2>1, <2>6, AppMsgType DEF Replicate
    <3> QED BY <2>6, <3>1, ReplicateCreated
  <2> QED BY <1>6, <2>2, <2>4, <2>5, <2>6 DEF Receive, rcvd
<1>7. ASSUME NEW m \in DOMAIN net, Lose(m) PROVE Created' /\ EntryIdentity'
  <2>1. DOMAIN net' \subseteq DOMAIN net /\ log' = log
    BY <1>7, LoseDomain DEF Lose, logVars
  <2> QED BY <2>1, NoEntriesSent
<1> QED BY <1>1, <1>2, <1>3, <1>4, <1>5, <1>6, <1>7 DEF Next, vars, logVars

LEMMA InitCreated ==
    ASSUME Init
    PROVE  Created /\ EntryIdentity
<1>1. \A e : e \notin Entries
  <2>1. \A n \in Server : log[n] = << >>
    BY DEF Init
  <2>2. DOMAIN net = {}
    BY DEF Init, EmptyBag, SetToBag
  <2> QED BY <2>1, <2>2, EntriesFacts DEF InLog
<1> QED BY <1>1 DEF Created, EntryIdentity

\* A leader's term and the Id it gives name one command for ever, in every log
\* and message: neither duplicates appended to a log, Ids that are not
\* positions, elections nor entries re-tagged by another leader give the pair
\* to a second command.
THEOREM OneCommandPerId == Spec => []EntryIdentity
<1> DEFINE Inv == TypeOK /\ IndexInv /\ VoteInv /\ Created /\ EntryIdentity
<1>1. Init => Inv
  BY InitInv, InitVotes, InitCreated
<1>2. Inv /\ [Next]_vars => Inv'
  BY NextInv, NextVotes, NextCreated
<1>3. Inv => EntryIdentity
  OBVIOUS
<1> HIDE DEF Inv
<1> QED BY <1>1, <1>2, <1>3, PTL DEF Spec
=============================================================================
