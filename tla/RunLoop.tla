------------------------------ MODULE RunLoop ------------------------------
(***************************************************************************)
(* Node.run (repl/raft.go): the goroutine that drives the state machine of *)
(* one node, and the channels it shares with the gRPC handlers, the ticker *)
(* and the apply loop of the database.                                     *)
(*                                                                         *)
(* Go evaluates the channel operands of a select on every entry, so        *)
(* Raft.Ready() runs once per iteration, whichever case is then taken.     *)
(* Ready() itself sends on readyc (capacity 1), which nobody else drains.  *)
(*                                                                         *)
(* The state machine is reduced to what Ready reads: the log, its indices  *)
(* and the two message buffers, filled as the handlers of repl/sm.go fill  *)
(* them for a node of term 1 or more.  Entries are kept as their Ids.      *)
(***************************************************************************)
EXTENDS RaftLog, SequencesExt

CONSTANTS
    PropCap,    \* capacity of propc (256 in bootstrapRaftNode)
    TickCap,    \* capacity of tickc (128)
    ApplyCap,   \* capacity of applyc (256)
    MaxLog      \* bound: no append that makes the log longer than this

ASSUME RunLoopAssumption ==
    /\ {PropCap, TickCap, ApplyCap} \subseteq Nat \ {0}
    /\ MaxLog \in Nat

VARIABLES
    pc,                              \* where run() is
    propc, tickc, readyc, applyc,    \* the channels
    rd,                              \* the Ready being processed
    state,                           \* the node's role
    entries, commitIndex, stableIndex, lastApplied,   \* raftLog
    msgs, msgsAfterAppend,           \* message buffers of Raft
    wal,                             \* entries saved, in order
    sent,                            \* log length the messages sent after
                                     \* an append speak for
    applied                          \* entries the database has received

logVars  == <<entries, commitIndex, stableIndex, lastApplied>>
outVars  == <<wal, sent>>
smVars   == <<state, logVars, msgs, msgsAfterAppend>>
vars     == <<pc, propc, tickc, readyc, applyc, rd, smVars, outVars, applied>>

Follower  == "StateFollower"
Candidate == "StateCandidate"
Leader    == "StateLeader"

Entry(i) == [id |-> i, term |-> 1]
\* The entries with Ids first .. last.
Run(first, last) == [k \in 1 .. last - first + 1 |-> Entry(first + k - 1)]

\* What propc carries: AppendEntries with the entries first .. last after
\* first - 1 (a heartbeat when last < first); a leader re-sends entries that
\* are not acknowledged yet, so first may lie anywhere up to its next Id.  Or
\* a client's proposal, an acknowledgement, a vote request, the vote that
\* completes a quorum, or a response of a newer term.
Input ==
    [kind : {"append"}, first : 1 .. MaxLog, last : 0 .. MaxLog, commit : 0 .. MaxLog]
    \cup [kind : {"proposal", "ack", "vote", "elected", "newerTerm"},
          first : {0}, last : {0}, commit : {0}]

Init ==
    /\ pc = "loop"
    /\ propc = << >> /\ tickc = 0 /\ readyc = << >> /\ applyc = << >>
    /\ rd = << >> /\ state = Follower
    /\ entries = << >> /\ commitIndex = 0 /\ stableIndex = 0 /\ lastApplied = 0
    /\ msgs = FALSE /\ msgsAfterAppend = 0
    /\ wal = << >> /\ sent = 0 /\ applied = << >>
-----------------------------------------------------------------------------
\* stepSM: blocks while propc is full; the caller may give up instead.
Process(in) ==
    /\ Len(propc) < PropCap
    /\ propc' = Append(propc, in)
    /\ UNCHANGED <<pc, tickc, readyc, applyc, rd, smVars, outVars, applied>>

\* Mutant: a tick that finds tickc full is queued all the same.
TickAlways ==
    /\ tickc' = min(tickc + 1, TickCap + 1)
    /\ UNCHANGED <<pc, propc, readyc, applyc, rd, smVars, outVars, applied>>

\* Node.Tick: a tick that finds tickc full is dropped.
Tick ==
    /\ tickc' = min(tickc + 1, TickCap)
    /\ UNCHANGED <<pc, propc, readyc, applyc, rd, smVars, outVars, applied>>

\* The database's apply loop takes the next batch.
Apply ==
    /\ applyc # << >>
    /\ applied' = applied \o Head(applyc)
    /\ applyc' = Tail(applyc)
    /\ UNCHANGED <<pc, propc, tickc, readyc, rd, smVars, outVars>>
-----------------------------------------------------------------------------
\* Mutant: committed entries alone are not worth a Ready.
hasReadyButCommits ==
    msgs \/ msgsAfterAppend > 0 \/ stableIndex < lastIndex(entries)

\* Ready(): is there anything to report?
hasReady ==
    \/ msgs \/ msgsAfterAppend > 0
    \/ stableIndex < lastIndex(entries)
    \/ commitIndex > lastApplied

\* Mutant: a second Ready is queued behind the first.
readyFitsTwo == Len(readyc) < 2

\* The capacity of readyc.
readyFits == Len(readyc) < 1

\* An iteration starts: the operands of the select are evaluated.
EnterSelect ==
    /\ pc = "loop"
    /\ ~hasReady \/ readyFits
    /\ pc' = "select"
    /\ readyc' = IF hasReady
                 THEN Append(readyc, [save  |-> volatileEntries(entries, stableIndex),
                                      after |-> msgsAfterAppend,
                                      apply |-> committedEntries(entries, lastApplied, commitIndex)])
                 ELSE readyc
    /\ msgs' = FALSE /\ msgsAfterAppend' = 0
    /\ UNCHANGED <<propc, tickc, applyc, rd, state, logVars, outVars, applied>>

\* ... or "r.readyc <- rd" waits for a receiver, which is run() itself.
Stuck == pc = "loop" /\ hasReady /\ ~readyFits
-----------------------------------------------------------------------------
\* case msg := <-propc: what Step does to the log and the buffers.
\* A leader appends k proposals, or the k entries another leader sent it.
StepReplicate(k) ==
    /\ Len(entries) + k <= MaxLog
    /\ entries' = append(entries, Run(lastIndex(entries) + 1, lastIndex(entries) + k))
    /\ msgsAfterAppend' = IF k = 0 THEN msgsAfterAppend ELSE Len(entries')
    /\ UNCHANGED <<state, commitIndex, stableIndex, lastApplied, msgs>>

StepAck ==
    /\ commitIndex' \in {commitIndex} \cup commitIndex + 1 .. lastIndex(entries)
    /\ UNCHANGED <<state, entries, stableIndex, lastApplied, msgs, msgsAfterAppend>>

\* Another node accepts entries, or rejects a gap; a newer term makes it a
\* follower first.
StepAppend(in) ==
    LET new == Run(in.first, in.last) IN
    /\ state' \in {state, Follower}
    /\ \/ /\ in.first - 1 <= lastIndex(entries)
          /\ Len(entries) + Len(new) <= MaxLog
          /\ entries' = append(entries, new)
          /\ commitIndex' = maybeCommit(entries', commitIndex, min(in.commit, lastIndex(entries')))
          /\ msgsAfterAppend' = IF new = << >> THEN msgsAfterAppend ELSE Len(entries')
          /\ UNCHANGED <<stableIndex, lastApplied, msgs>>
       \/ /\ in.first - 1 > lastIndex(entries)
          /\ msgs' = TRUE
          /\ UNCHANGED <<logVars, msgsAfterAppend>>

\* A vote request is answered, and a proposal rejected: its term is 0.
StepVote == msgs' = TRUE /\ state' \in {state, Follower} /\ UNCHANGED <<logVars, msgsAfterAppend>>
StepReject == msgs' = TRUE /\ UNCHANGED <<state, logVars, msgsAfterAppend>>

\* A response that only changes the role.
StepRole(role) == state' = role /\ UNCHANGED <<logVars, msgs, msgsAfterAppend>>

StepLeader(in) ==
    \/ in.kind = "proposal" /\ StepReplicate(1)
    \/ in.kind = "append" /\ StepReplicate(Len(Run(in.first, in.last)))
    \/ in.kind = "ack" /\ StepAck
    \/ in.kind = "newerTerm" /\ StepRole(Follower)
    \/ in.kind \in {"vote", "elected"} /\ UNCHANGED smVars

StepOther(in) ==
    \/ in.kind = "append" /\ StepAppend(in)
    \/ in.kind = "vote" /\ StepVote
    \/ in.kind = "proposal" /\ StepReject
    \/ in.kind = "elected" /\ StepRole(IF state = Candidate THEN Leader ELSE state)
    \/ in.kind = "newerTerm" /\ StepRole(Follower)
    \/ in.kind = "ack" /\ UNCHANGED smVars

TakeProp ==
    /\ pc = "select" /\ propc # << >>
    /\ pc' = "loop" /\ propc' = Tail(propc)
    /\ \/ state = Leader /\ StepLeader(Head(propc))
       \/ state # Leader /\ StepOther(Head(propc))
    /\ UNCHANGED <<tickc, readyc, applyc, rd, outVars, applied>>

\* case <-tickc: a leader's tick buffers heartbeats; another node's does
\* nothing until it campaigns.
TakeTick ==
    /\ pc = "select" /\ tickc > 0
    /\ pc' = "loop" /\ tickc' = tickc - 1
    /\ \/ state = Leader /\ msgs' = TRUE /\ UNCHANGED state
       \/ state # Leader /\ UNCHANGED <<state, msgs>>
       \/ state # Leader /\ state' = Candidate /\ msgs' = TRUE
    /\ UNCHANGED <<propc, readyc, applyc, rd, logVars, msgsAfterAppend, outVars, applied>>

\* default: nothing to receive.
Spin ==
    /\ pc = "select" /\ propc = << >> /\ tickc = 0 /\ readyc = << >>
    /\ pc' = "loop"
    /\ UNCHANGED <<propc, tickc, readyc, applyc, rd, smVars, outVars, applied>>

\* case rd := <-Ready(): save the entries, send the messages, ...
TakeReady ==
    /\ pc = "select" /\ readyc # << >>
    /\ pc' = "apply"
    /\ rd' = Head(readyc).apply /\ readyc' = Tail(readyc)
    /\ wal' = wal \o Head(readyc).save
    /\ sent' = max(sent, Head(readyc).after)
    /\ UNCHANGED <<propc, tickc, applyc, smVars, applied>>

\* ... hand over the committed entries once applyc has room, and Advance.
HandOver ==
    /\ pc = "apply"
    /\ rd # << >> => Len(applyc) < ApplyCap
    /\ applyc' = IF rd = << >> THEN applyc ELSE Append(applyc, rd)
    /\ rd' = << >> /\ pc' = "loop"
    /\ stableIndex' = markStableTill(entries, stableIndex, lastIndex(entries))
    /\ lastApplied' = markAppliedTill(lastApplied, commitIndex)
    /\ UNCHANGED <<propc, tickc, readyc, state, entries, commitIndex, msgs, msgsAfterAppend, outVars,
                   applied>>

Loop == EnterSelect \/ TakeProp \/ TakeTick \/ Spin \/ TakeReady \/ HandOver

Next == (\E in \in Input : Process(in)) \/ Tick \/ Apply \/ Loop

\* The loop goroutine and the apply loop keep running.
Spec == Init /\ [][Next]_vars /\ WF_vars(Loop) /\ WF_vars(Apply)
-----------------------------------------------------------------------------
TypeOK ==
    /\ pc \in {"loop", "select", "apply"}
    /\ propc \in Seq(Input) /\ Len(propc) <= PropCap
    /\ tickc \in 0 .. TickCap
    /\ Len(applyc) <= ApplyCap
    /\ {commitIndex, stableIndex, lastApplied} \subseteq 0 .. Len(entries)
    /\ state \in {Follower, Candidate, Leader} /\ msgs \in BOOLEAN /\ msgsAfterAppend \in 0 .. MaxLog

\* applyc holds the log from position lo + 1 to hi, cut into consecutive batches.
Queued(lo, hi) ==
    \E cut \in [0 .. Len(applyc) -> 0 .. hi] :
        /\ cut[0] = lo /\ cut[Len(applyc)] = hi
        /\ \A k \in 1 .. Len(applyc) :
              cut[k - 1] <= cut[k] /\ applyc[k] = SubSeq(entries, cut[k - 1] + 1, cut[k])

\* The database receives exactly the entries up to lastApplied, each once and
\* in log order, although Advance marks everything that is committed by then
\* as applied, and not what the Ready it ends has carried.
AppliedInOrder ==
    Queued(Len(applied), lastApplied) /\ applied = SubSeq(entries, 1, Len(applied))

\* Seen from outside, the loop delivers the committed part of the log to the
\* database: in order, each entry once, whatever it does in between.
Committed == INSTANCE Delivery
    WITH log <- SubSeq(entries, 1, commitIndex), delivered <- applied
ImplementsDelivery == Committed!SafeSpec

\* "Send response AFTER entries are persisted": every entry a node has told
\* others it stores, or has sent them, is in its WAL.
SavedBeforeSent ==
    ToSet(SubSeq(entries, 1, sent)) \subseteq ToSet(wal)

\* The same while every entry lies at its Id, that is, until entries arrive a
\* second time: events between a Ready and its Advance never leave an entry out.
SavedUnlessRepeated ==
    (\A k \in DOMAIN entries : entries[k].id = k) => SavedBeforeSent

\* "Send on channel (buffered, won't block)".
NeverBlocks == ~Stuck

\* What is committed reaches the database, unless the loop has blocked.
CommittedEventuallyApplied ==
    \A k \in 1 .. MaxLog : commitIndex >= k ~> (Len(applied) >= k \/ Stuck)
=============================================================================
