--------------------------- MODULE RunLoopProofs ---------------------------
(***************************************************************************)
(* Theorems about Node.run, checked by TLAPS.                              *)
(*                                                                         *)
(* The heart of the argument is what a Ready carries when the loop takes   *)
(* it.  Events may come between Ready() and its Advance, but an event that *)
(* leaves something to report blocks the loop for ever: a Ready that is    *)
(* taken therefore speaks for the log as it is then (ReadyCurrent).        *)
(***************************************************************************)
EXTENDS RunLoop, SequenceTheorems, TLAPS

LogEntry == [id : Nat, term : {1}]
ReadyRec == [save : Seq(LogEntry), after : Nat, apply : Seq(LogEntry)]

Types ==
    /\ entries \in Seq(LogEntry) /\ Len(entries) <= MaxLog
    /\ {commitIndex, stableIndex, lastApplied} \subseteq 0 .. Len(entries)
    /\ applied \in Seq(LogEntry) /\ applyc \in Seq(Seq(LogEntry)) /\ rd \in Seq(LogEntry)
    /\ readyc \in Seq(ReadyRec) /\ Len(readyc) <= 1
    /\ wal \in Seq(LogEntry) /\ sent \in Nat

\* Ids never run ahead of positions, and what is applied is committed.
Bounded ==
    /\ \A k \in 1 .. Len(entries) : entries[k].id <= k
    /\ lastApplied <= commitIndex
    /\ msgsAfterAppend <= Len(entries) /\ sent <= Len(entries)
    /\ readyc # << >> => readyc[1].after <= Len(entries)

Pending == SubSeq(entries, lastApplied + 1, commitIndex)

ReadyCurrent ==
    /\ readyc # << >> /\ commitIndex = lastApplied => readyc[1].apply = << >>
    /\ readyc # << >> /\ pc = "select" => readyc[1].apply = Pending
    /\ pc = "apply" => readyc = << >> /\ rd = Pending

AtIds == \A k \in 1 .. Len(entries) : entries[k].id = k
InWal(lo, hi) == \A k \in lo .. hi : entries[k] \in ToSet(wal)

SavedInv ==
    AtIds =>
        /\ InWal(1, stableIndex) /\ InWal(1, sent)
        /\ readyc # << >> /\ pc = "select" =>
              \A k \in stableIndex + 1 .. Len(entries) : entries[k] \in ToSet(readyc[1].save)
        /\ pc = "apply" => InWal(1, Len(entries))

Inv == TypeOK /\ Types /\ Bounded /\ ReadyCurrent /\ SavedInv /\ AppliedInOrder
-----------------------------------------------------------------------------
(* The operators of RaftLog on this module's entries. *)

LEMMA LastIndexFacts ==
    ASSUME NEW l \in Seq(LogEntry), \A k \in 1 .. Len(l) : l[k].id <= k
    PROVE  lastIndex(l) \in 0 .. Len(l)
<1>1. CASE Len(l) = 0
  BY <1>1 DEF lastIndex
<1>2. CASE Len(l) # 0
  <2>1. Len(l) \in 1 .. Len(l)
    BY <1>2
  <2>2. l[Len(l)] \in LogEntry
    BY <2>1
  <2> QED BY <1>2, <2>1, <2>2 DEF lastIndex, LogEntry
<1> QED BY <1>1, <1>2

LEMMA RunFacts ==
    ASSUME NEW first \in Nat \ {0}, NEW last \in Nat
    PROVE  /\ Run(first, last) \in Seq(LogEntry)
           /\ Len(Run(first, last)) = IF first <= last THEN last - first + 1 ELSE 0
           /\ \A k \in 1 .. Len(Run(first, last)) : Run(first, last)[k].id = first + k - 1
<1> DEFINE n == IF first <= last THEN last - first + 1 ELSE 0
           r == [k \in 1 .. n |-> Entry(first + k - 1)]
<1>1. n \in Nat /\ 1 .. last - first + 1 = 1 .. n
  OBVIOUS
<1>2. Run(first, last) = r
  BY <1>1 DEF Run
<1> HIDE DEF n
<1>3. \A k \in 1 .. n : r[k] \in LogEntry /\ r[k].id = first + k - 1
  BY <1>1 DEF Entry, LogEntry
<1>4. r \in Seq(LogEntry) /\ Len(r) = n
  BY <1>1, <1>3
<1> HIDE DEF r
<1> QED BY <1>2, <1>3, <1>4 DEF n

\* A log that only grows keeps what it holds.
LEMMA GrownSubSeq ==
    ASSUME NEW S, NEW s \in Seq(S), NEW t \in Seq(S), NEW a \in Nat \ {0}, NEW b \in 0 .. Len(s)
    PROVE  SubSeq(s \o t, a, b) = SubSeq(s, a, b)
<1>1. CASE b < a
  BY <1>1, SubSeqEmpty
<1>2. CASE a <= b
  BY <1>2, SubSeqOfConcat1
<1> QED BY <1>1, <1>2
-----------------------------------------------------------------------------
(* The batches in applyc. *)

LEMMA QueuedBounds ==
    ASSUME NEW lo \in Nat, NEW hi \in Nat, applyc \in Seq(Seq(LogEntry)), Queued(lo, hi)
    PROVE  lo <= hi
<1>1. PICK cut \in [0 .. Len(applyc) -> 0 .. hi] : cut[0] = lo
  BY DEF Queued
<1>2. 0 \in 0 .. Len(applyc)
  OBVIOUS
<1>3. cut[0] \in 0 .. hi
  BY <1>1, <1>2
<1> QED BY <1>1, <1>3

LEMMA QueuedGrown ==
    ASSUME NEW lo \in Nat, NEW hi \in Nat, entries \in Seq(LogEntry), hi <= Len(entries),
           NEW new \in Seq(LogEntry), entries' = entries \o new,
           applyc \in Seq(Seq(LogEntry)), applyc' = applyc, Queued(lo, hi)
    PROVE  Queued(lo, hi)'
<1>1. PICK cut \in [0 .. Len(applyc) -> 0 .. hi] :
        /\ cut[0] = lo /\ cut[Len(applyc)] = hi
        /\ \A k \in 1 .. Len(applyc) :
              cut[k - 1] <= cut[k] /\ applyc[k] = SubSeq(entries, cut[k - 1] + 1, cut[k])
  BY DEF Queued
<1>2. ASSUME NEW k \in 1 .. Len(applyc)
      PROVE  SubSeq(entries', cut[k - 1] + 1, cut[k]) = SubSeq(entries, cut[k - 1] + 1, cut[k])
  <2>1. k - 1 \in 0 .. Len(applyc) /\ k \in 0 .. Len(applyc) /\ Len(applyc) \in Nat
    OBVIOUS
  <2>3. cut[k - 1] \in 0 .. hi /\ cut[k] \in 0 .. hi
    BY <1>1, <2>1
  <2>2. cut[k - 1] + 1 \in Nat \ {0} /\ cut[k] \in 0 .. Len(entries)
    BY <2>3
  <2> QED BY <2>2, GrownSubSeq
<1>3. \A k \in 1 .. Len(applyc) :
         cut[k - 1] <= cut[k] /\ applyc[k] = SubSeq(entries', cut[k - 1] + 1, cut[k])
  BY <1>1, <1>2
<1> QED BY <1>1, <1>3 DEF Queued

LEMMA QueuedAppend ==
    ASSUME NEW lo \in Nat, NEW hi \in Nat, NEW c \in Nat, hi <= c, c <= Len(entries),
           entries \in Seq(LogEntry), entries' = entries,
           applyc \in Seq(Seq(LogEntry)), applyc' = Append(applyc, SubSeq(entries, hi + 1, c)),
           Queued(lo, hi)
    PROVE  Queued(lo, c)'
<1> DEFINE n == Len(applyc)
<1>1. PICK cut \in [0 .. n -> 0 .. hi] :
        /\ cut[0] = lo /\ cut[n] = hi
        /\ \A k \in 1 .. n :
              cut[k - 1] <= cut[k] /\ applyc[k] = SubSeq(entries, cut[k - 1] + 1, cut[k])
  BY DEF Queued
<1>2. n \in Nat /\ SubSeq(entries, hi + 1, c) \in Seq(LogEntry)
  OBVIOUS
<1>3. /\ Len(applyc') = n + 1 /\ applyc'[n + 1] = SubSeq(entries, hi + 1, c)
      /\ \A k \in 1 .. n : applyc'[k] = applyc[k]
  BY <1>2
<1> DEFINE cut2 == [k \in 0 .. n + 1 |-> IF k = n + 1 THEN c ELSE cut[k]]
<1> HIDE DEF n
<1>4. cut2 \in [0 .. n + 1 -> 0 .. c]
  <2>1. ASSUME NEW k \in 0 .. n + 1 PROVE (IF k = n + 1 THEN c ELSE cut[k]) \in 0 .. c
    <3>1. CASE k \in 0 .. n
      <4>1. cut[k] \in 0 .. hi
        BY <1>1, <3>1
      <4> QED BY <1>2, <3>1, <4>1
    <3> QED BY <1>2, <3>1
  <2> QED BY <2>1
<1>5. cut2[n + 1] = c /\ \A k \in 0 .. n : cut2[k] = cut[k]
  BY <1>2
<1> HIDE DEF cut2
<1>6. ASSUME NEW k \in 1 .. n + 1
      PROVE  cut2[k - 1] <= cut2[k] /\ applyc'[k] = SubSeq(entries, cut2[k - 1] + 1, cut2[k])
  <2>1. CASE k = n + 1
    <3>1. cut2[k - 1] = hi /\ cut2[k] = c
      BY <1>1, <1>2, <1>5, <2>1
    <3> QED BY <1>3, <2>1, <3>1
  <2>2. CASE k \in 1 .. n
    <3>1. cut2[k - 1] = cut[k - 1] /\ cut2[k] = cut[k]
      BY <1>2, <1>5, <2>2
    <3>2. cut[k - 1] <= cut[k] /\ applyc[k] = SubSeq(entries, cut[k - 1] + 1, cut[k])
      BY <1>1, <2>2
    <3>3. applyc'[k] = applyc[k]
      BY <1>3, <2>2
    <3>4. applyc'[k] = SubSeq(entries, cut2[k - 1] + 1, cut2[k])
      BY <3>1, <3>2, <3>3, Zenon
    <3>5. cut2[k - 1] <= cut2[k]
      BY <3>1, <3>2, Zenon
    <3> QED BY <3>4, <3>5, Zenon
  <2>3. k = n + 1 \/ k \in 1 .. n
    BY <1>2
  <2> QED BY <2>1, <2>2, <2>3, Zenon
<1>7. cut2[0] = lo
  BY <1>1, <1>2, <1>5
<1> DEFINE q == applyc'
           es == entries'
<1>8. \E f \in [0 .. Len(q) -> 0 .. c] :
        /\ f[0] = lo /\ f[Len(q)] = c
        /\ \A k \in 1 .. Len(q) : f[k - 1] <= f[k] /\ q[k] = SubSeq(es, f[k - 1] + 1, f[k])
  <2>1. Len(q) = n + 1
    BY <1>3
  <2> HIDE DEF q, es
  <2>2. cut2 \in [0 .. Len(q) -> 0 .. c]
    BY <1>4, <2>1, Zenon
  <2>3. cut2[0] = lo /\ cut2[Len(q)] = c
    BY <1>5, <1>7, <2>1, Zenon
  <2>4. \A k \in 1 .. Len(q) :
           cut2[k - 1] <= cut2[k] /\ q[k] = SubSeq(es, cut2[k - 1] + 1, cut2[k])
    <3>1. es = entries
      BY DEF es
    <3> QED BY <1>6, <2>1, <3>1, Zenon DEF q
  <2> QED BY <2>2, <2>3, <2>4, Zenon
<1> QED BY <1>8 DEF Queued

LEMMA QueuedTake ==
    ASSUME NEW lo \in Nat, NEW hi \in Nat, applyc \in Seq(Seq(LogEntry)), applyc # << >>,
           applyc' = Tail(applyc), entries' = entries, Queued(lo, hi)
    PROVE  \E c \in lo .. hi : Head(applyc) = SubSeq(entries, lo + 1, c) /\ Queued(c, hi)'
<1> DEFINE n == Len(applyc)
<1>1. PICK cut \in [0 .. n -> 0 .. hi] :
        /\ cut[0] = lo /\ cut[n] = hi
        /\ \A k \in 1 .. n :
              cut[k - 1] <= cut[k] /\ applyc[k] = SubSeq(entries, cut[k - 1] + 1, cut[k])
  BY DEF Queued
<1>2. n \in Nat \ {0} /\ Head(applyc) = applyc[1]
  OBVIOUS
<1>3. Len(applyc') = n - 1 /\ \A k \in 1 .. n - 1 : applyc'[k] = applyc[k + 1]
  BY <1>2
<1> DEFINE cut2 == [k \in 0 .. n - 1 |-> cut[k + 1]]
<1> HIDE DEF n
<1>4. /\ cut2 \in [0 .. n - 1 -> 0 .. hi]
      /\ \A k \in 0 .. n - 1 : cut2[k] = cut[k + 1]
  <2>1. \A k \in 0 .. n - 1 : k + 1 \in 0 .. n
    BY <1>2
  <2>2. \A k \in 0 .. n - 1 : cut[k + 1] \in 0 .. hi
    BY <1>1, <2>1
  <2> QED BY <2>2
<1> HIDE DEF cut2
<1>5. cut2[0] = cut[1] /\ cut2[n - 1] = hi
  BY <1>1, <1>2, <1>4
<1>6. ASSUME NEW k \in 1 .. n - 1
      PROVE  cut2[k - 1] <= cut2[k] /\ applyc'[k] = SubSeq(entries', cut2[k - 1] + 1, cut2[k])
  <2>1. cut2[k - 1] = cut[k] /\ cut2[k] = cut[k + 1]
    BY <1>2, <1>4
  <2>2. k + 1 \in 1 .. n /\ (k + 1) - 1 = k
    BY <1>2
  <2>3. cut[k] <= cut[k + 1] /\ applyc[k + 1] = SubSeq(entries, cut[k] + 1, cut[k + 1])
    BY <1>1, <2>2
  <2> QED BY <1>3, <2>1, <2>3
<1>7. PICK c : c = cut[1]
  OBVIOUS
<1>8. c \in lo .. hi /\ Head(applyc) = SubSeq(entries, lo + 1, c)
  <2>1. cut[1] \in 0 .. hi /\ 1 \in 1 .. n /\ 1 - 1 = 0
    BY <1>1, <1>2
  <2>2. cut[0] <= cut[1] /\ applyc[1] = SubSeq(entries, cut[0] + 1, cut[1])
    BY <1>1, <2>1
  <2> QED BY <1>1, <1>2, <1>7, <2>1, <2>2
<1>9. Queued(c, hi)'
  <2> DEFINE q == applyc'
             es == entries'
  <2>1. \E f \in [0 .. Len(q) -> 0 .. hi] :
          /\ f[0] = c /\ f[Len(q)] = hi
          /\ \A k \in 1 .. Len(q) : f[k - 1] <= f[k] /\ q[k] = SubSeq(es, f[k - 1] + 1, f[k])
    <3>1. Len(q) = n - 1
      BY <1>3
    <3> HIDE DEF q, es
    <3> QED BY <1>4, <1>5, <1>6, <1>7, <3>1 DEF q, es
  <2> QED BY <2>1 DEF Queued
<1> QED BY <1>8, <1>9
-----------------------------------------------------------------------------
(* The steps of the loop. *)

\* What a call of Step or Tick may do to the log and the buffers.
LogStep ==
    /\ \E new \in Seq(LogEntry) : entries' = entries \o new
    /\ Len(entries') <= MaxLog
    /\ \A k \in 1 .. Len(entries') : entries'[k].id <= k
    /\ commitIndex' \in commitIndex .. Len(entries')
    /\ msgsAfterAppend' \in 0 .. Len(entries')
    /\ state' \in {Follower, Candidate, Leader} /\ msgs' \in BOOLEAN
    /\ UNCHANGED <<stableIndex, lastApplied>>

LEMMA QuietStep ==
    ASSUME Inv, UNCHANGED <<logVars, msgsAfterAppend>>,
           state' \in {Follower, Candidate, Leader}, msgs' \in BOOLEAN
    PROVE  LogStep
<1>1. /\ entries \in Seq(LogEntry) /\ Len(entries) <= MaxLog /\ Len(entries) \in Nat
      /\ commitIndex \in 0 .. Len(entries) /\ msgsAfterAppend \in 0 .. Len(entries)
      /\ \A k \in 1 .. Len(entries) : entries[k].id <= k
  BY DEF Inv, Types, Bounded, TypeOK
<1>2. << >> \in Seq(LogEntry) /\ entries' = entries \o << >>
  BY <1>1, ConcatEmptySeq DEF logVars
<1>3. \E new \in Seq(LogEntry) : entries' = entries \o new
  BY <1>2, Zenon
<1>4. entries' = entries /\ commitIndex' = commitIndex /\ msgsAfterAppend' = msgsAfterAppend
      /\ UNCHANGED <<stableIndex, lastApplied>>
  BY DEF logVars
<1>5. commitIndex' \in commitIndex .. Len(entries')
  BY <1>1, <1>4
<1> QED BY <1>1, <1>3, <1>4, <1>5 DEF LogStep

LEMMA AppendRun ==
    ASSUME Inv, NEW first \in Nat \ {0}, NEW last \in Nat, first - 1 <= lastIndex(entries),
           Len(entries) + Len(Run(first, last)) <= MaxLog,
           entries' = append(entries, Run(first, last))
    PROVE  /\ \E new \in Seq(LogEntry) : entries' = entries \o new
           /\ Len(entries') <= MaxLog /\ Len(entries') \in Nat /\ Len(entries) <= Len(entries')
           /\ \A k \in 1 .. Len(entries') : entries'[k].id <= k
           /\ lastIndex(entries') \in 0 .. Len(entries')
<1> DEFINE new == Run(first, last)
<1>1. new \in Seq(LogEntry) /\ \A k \in 1 .. Len(new) : new[k].id = first + k - 1
  BY RunFacts
<1>2. /\ entries \in Seq(LogEntry) /\ MaxLog \in Nat
      /\ \A k \in 1 .. Len(entries) : entries[k].id <= k
  BY RunLoopAssumption DEF Inv, Types, Bounded
<1>3. lastIndex(entries) \in 0 .. Len(entries)
  BY <1>2, LastIndexFacts
<1> HIDE DEF new
<1>4. entries' = entries \o new
  BY DEF append, new
<1>5. entries' \in Seq(LogEntry) /\ Len(entries') = Len(entries) + Len(new)
  BY <1>1, <1>2, <1>4
<1>6. ASSUME NEW k \in 1 .. Len(entries') PROVE entries'[k].id <= k
  <2>1. CASE k <= Len(entries)
    <3>1. entries'[k] = entries[k] /\ k \in 1 .. Len(entries)
      BY <1>1, <1>2, <1>4, <2>1
    <3> QED BY <1>2, <3>1
  <2>2. CASE k > Len(entries)
    <3>1. k - Len(entries) \in 1 .. Len(new) /\ entries'[k] = new[k - Len(entries)]
      BY <1>1, <1>2, <1>4, <1>5, <2>2
    <3>2. entries'[k].id = first + (k - Len(entries)) - 1
      BY <1>1, <3>1
    <3> QED BY <1>2, <1>3, <3>2
  <2> QED BY <1>2, <2>1, <2>2
<1>7. lastIndex(entries') \in 0 .. Len(entries')
  <2> DEFINE l == entries'
  <2>1. l \in Seq(LogEntry) /\ \A k \in 1 .. Len(l) : l[k].id <= k
    BY <1>5, <1>6
  <2> HIDE DEF l
  <2>2. lastIndex(l) \in 0 .. Len(l)
    BY <2>1, LastIndexFacts
  <2> QED BY <2>2 DEF l
<1>8. Len(entries') <= MaxLog /\ Len(entries') \in Nat /\ Len(entries) <= Len(entries')
  BY <1>1, <1>2, <1>5 DEF new
<1> QED BY <1>1, <1>4, <1>6, <1>7, <1>8

LEMMA ReplicateStep ==
    ASSUME Inv, NEW k \in Nat, StepReplicate(k)
    PROVE  LogStep
<1> DEFINE i == lastIndex(entries)
<1>1. /\ entries \in Seq(LogEntry) /\ i \in 0 .. Len(entries)
      /\ commitIndex \in 0 .. Len(entries) /\ msgsAfterAppend \in 0 .. Len(entries)
      /\ state \in {Follower, Candidate, Leader} /\ msgs \in BOOLEAN
  BY LastIndexFacts DEF Inv, Types, Bounded, TypeOK
<1> HIDE DEF i
<1>2. Len(Run(i + 1, i + k)) = k /\ i + 1 \in Nat \ {0} /\ i + k \in Nat
  <2>1. i \in Nat /\ i + 1 \in Nat \ {0} /\ i + k \in Nat
    BY <1>1
  <2>2. Len(Run(i + 1, i + k)) = IF i + 1 <= i + k THEN (i + k) - (i + 1) + 1 ELSE 0
    BY <2>1, RunFacts
  <2> QED BY <2>1, <2>2
<1>3. /\ \E new \in Seq(LogEntry) : entries' = entries \o new
      /\ Len(entries') <= MaxLog /\ Len(entries') \in Nat /\ Len(entries) <= Len(entries')
      /\ \A j \in 1 .. Len(entries') : entries'[j].id <= j
  <2>1. /\ (i + 1) - 1 <= lastIndex(entries)
        /\ Len(entries) + Len(Run(i + 1, i + k)) <= MaxLog
        /\ entries' = append(entries, Run(i + 1, i + k))
    BY <1>1, <1>2 DEF StepReplicate, i
  <2> QED BY <1>2, <2>1, AppendRun
<1>4. msgsAfterAppend' \in {msgsAfterAppend, Len(entries')}
  BY DEF StepReplicate
<1>5. msgsAfterAppend' \in 0 .. Len(entries') /\ commitIndex \in commitIndex .. Len(entries')
  BY <1>1, <1>3, <1>4
<1> QED BY <1>1, <1>3, <1>5 DEF StepReplicate, LogStep

LEMMA AppendStep ==
    ASSUME Inv, NEW in \in Input, in.kind = "append", StepAppend(in)
    PROVE  LogStep
<1>1. in.first \in Nat \ {0} /\ in.last \in Nat /\ in.commit \in Nat
  BY RunLoopAssumption DEF Input
<1>2. /\ entries \in Seq(LogEntry) /\ commitIndex \in 0 .. Len(entries)
      /\ msgsAfterAppend \in 0 .. Len(entries) /\ msgs \in BOOLEAN
      /\ state' \in {Follower, Candidate, Leader}
  BY DEF Inv, Types, Bounded, TypeOK, StepAppend
<1>3. CASE /\ in.first - 1 <= lastIndex(entries)
           /\ Len(entries) + Len(Run(in.first, in.last)) <= MaxLog
           /\ entries' = append(entries, Run(in.first, in.last))
           /\ commitIndex' = maybeCommit(entries', commitIndex,
                                         min(in.commit, lastIndex(entries')))
           /\ msgsAfterAppend' \in {msgsAfterAppend, Len(entries')}
           /\ UNCHANGED <<stableIndex, lastApplied, msgs>>
  <2>1. /\ \E new \in Seq(LogEntry) : entries' = entries \o new
        /\ Len(entries') <= MaxLog /\ Len(entries') \in Nat /\ Len(entries) <= Len(entries')
        /\ \A j \in 1 .. Len(entries') : entries'[j].id <= j
        /\ lastIndex(entries') \in 0 .. Len(entries')
    BY <1>1, <1>3, AppendRun
  <2>2. commitIndex' \in commitIndex .. Len(entries')
    BY <1>1, <1>2, <1>3, <2>1 DEF maybeCommit, min
  <2>3. msgsAfterAppend' \in 0 .. Len(entries')
    BY <1>2, <1>3, <2>1
  <2> QED BY <1>2, <1>3, <2>1, <2>2, <2>3 DEF LogStep
<1>4. CASE msgs' = TRUE /\ UNCHANGED <<logVars, msgsAfterAppend>>
  BY <1>2, <1>4, QuietStep
<1> QED BY <1>3, <1>4 DEF StepAppend

LEMMA TakePropStep ==
    ASSUME Inv, TakeProp
    PROVE  LogStep
<1> DEFINE in == Head(propc)
<1>1. in \in Input /\ state \in {Follower, Candidate, Leader} /\ msgs \in BOOLEAN
  BY DEF Inv, TypeOK, TakeProp
<1>2. CASE state = Leader /\ StepLeader(in)
  <2> HIDE DEF in
  <2>1. CASE in.kind = "proposal" /\ StepReplicate(1)
    BY <2>1, ReplicateStep
  <2>2. CASE in.kind = "append" /\ StepReplicate(Len(Run(in.first, in.last)))
    <3>1. in.first \in Nat \ {0} /\ in.last \in Nat
      BY <1>1, <2>2, RunLoopAssumption DEF Input
    <3>2. Len(Run(in.first, in.last)) \in Nat
      BY <3>1, RunFacts
    <3> QED BY <2>2, <3>2, ReplicateStep
  <2>3. CASE StepAck
    <3>1. /\ entries \in Seq(LogEntry) /\ lastIndex(entries) \in 0 .. Len(entries)
          /\ commitIndex \in 0 .. Len(entries)
      BY LastIndexFacts DEF Inv, Types, Bounded
    <3>2. commitIndex' \in commitIndex .. Len(entries)
      BY <2>3, <3>1 DEF StepAck
    <3>3. /\ << >> \in Seq(LogEntry) /\ entries \o << >> = entries
          /\ Len(entries) <= MaxLog /\ msgsAfterAppend \in 0 .. Len(entries)
          /\ \A k \in 1 .. Len(entries) : entries[k].id <= k
      BY <3>1, ConcatEmptySeq DEF Inv, Types, Bounded, TypeOK
    <3>4. \E new \in Seq(LogEntry) : entries = entries \o new
      BY <3>3, Zenon
    <3>5. UNCHANGED <<state, entries, stableIndex, lastApplied, msgs, msgsAfterAppend>>
      BY <2>3 DEF StepAck
    <3> QED BY <1>1, <3>2, <3>3, <3>4, <3>5 DEF LogStep
  <2>4. CASE StepRole(Follower)
    BY <1>1, <2>4, QuietStep DEF StepRole
  <2>5. CASE UNCHANGED smVars
    BY <1>1, <2>5, QuietStep DEF smVars
  <2> QED BY <1>2, <2>1, <2>2, <2>3, <2>4, <2>5 DEF StepLeader
<1>3. CASE state # Leader /\ StepOther(in)
  <2> HIDE DEF in
  <2>1. CASE in.kind = "append" /\ StepAppend(in)
    BY <1>1, <2>1, AppendStep
  <2>2. CASE StepVote \/ StepReject \/ StepRole(Follower) \/ UNCHANGED smVars
             \/ StepRole(IF state = Candidate THEN Leader ELSE state)
    BY <1>1, <2>2, QuietStep DEF StepVote, StepReject, StepRole, smVars
  <2> QED BY <1>3, <2>1, <2>2 DEF StepOther
<1> QED BY <1>2, <1>3 DEF TakeProp

LEMMA ReadyFacts ==
    ASSUME Inv, readyc # << >>
    PROVE  /\ readyc[1] \in ReadyRec /\ Head(readyc) = readyc[1]
           /\ Tail(readyc) = << >>
<1>1. readyc \in Seq(ReadyRec) /\ Len(readyc) <= 1
  BY DEF Inv, Types
<1>2. Len(readyc) \in Nat \ {0}
  BY <1>1, EmptySeq
<1>3. Len(readyc) = 1 /\ 1 \in 1 .. Len(readyc)
  <2>1. \A k \in Nat \ {0} : k <= 1 => k = 1
    OBVIOUS
  <2>2. Len(readyc) = 1
    BY <1>1, <1>2, <2>1, Zenon
  <2>3. 1 \in 1 .. 1
    OBVIOUS
  <2> QED BY <2>2, <2>3, Zenon
<1>4. readyc[1] \in ReadyRec /\ Head(readyc) = readyc[1]
  BY <1>1, <1>3, ElementOfSeq
<1>5. Tail(readyc) \in Seq(ReadyRec) /\ Len(Tail(readyc)) = 0
  BY <1>1, <1>3, HeadTailProperties
<1>6. Tail(readyc) = << >>
  BY <1>5, EmptySeq
<1> QED BY <1>4, <1>6

\* A log that has grown by new still holds what it held.
LEMMA LogStepKeeps ==
    ASSUME Inv, LogStep
    PROVE  /\ entries' \in Seq(LogEntry) /\ Len(entries') \in Nat
           /\ Len(entries) \in Nat /\ Len(entries) <= Len(entries')
           /\ \A k \in 1 .. Len(entries) : entries'[k] = entries[k]
<1>1. PICK new \in Seq(LogEntry) : entries' = entries \o new
  BY DEF LogStep
<1>2. entries \in Seq(LogEntry)
  BY DEF Inv, Types
<1> QED BY <1>1, <1>2

LEMMA LogStepInv ==
    ASSUME Inv, LogStep, pc = "select", pc' = "loop",
           UNCHANGED <<readyc, applyc, rd, wal, sent, applied>>,
           propc' \in Seq(Input), Len(propc') <= PropCap, tickc' \in 0 .. TickCap
    PROVE  Inv'
<1>1. /\ entries' \in Seq(LogEntry) /\ Len(entries') \in Nat
      /\ Len(entries) \in Nat /\ Len(entries) <= Len(entries')
      /\ \A k \in 1 .. Len(entries) : entries'[k] = entries[k]
  BY LogStepKeeps
<1>2. /\ entries \in Seq(LogEntry) /\ sent \in Nat /\ sent <= Len(entries)
      /\ commitIndex \in 0 .. Len(entries) /\ stableIndex \in 0 .. Len(entries)
      /\ lastApplied \in 0 .. Len(entries) /\ lastApplied <= commitIndex
  BY DEF Inv, Types, Bounded
<1>3. /\ commitIndex' \in 0 .. Len(entries') /\ commitIndex <= commitIndex'
      /\ stableIndex' = stableIndex /\ lastApplied' = lastApplied
      /\ stableIndex \in 0 .. Len(entries') /\ lastApplied \in 0 .. Len(entries')
      /\ lastApplied <= commitIndex'
  BY <1>1, <1>2 DEF LogStep
<1>4. MaxLog \in Nat /\ Len(entries') <= MaxLog /\ msgsAfterAppend' \in 0 .. Len(entries')
  BY RunLoopAssumption DEF LogStep
<1>5. TypeOK'
  <2>1. Len(applyc) <= ApplyCap
    BY DEF Inv, TypeOK
  <2>2. msgsAfterAppend' \in 0 .. MaxLog
    BY <1>1, <1>4
  <2> QED BY <1>3, <2>1, <2>2 DEF LogStep, TypeOK
<1>6. Types'
  BY <1>1, <1>3, <1>4 DEF Inv, Types
<1>7. Bounded'
  <2>1. readyc # << >> => readyc[1].after <= Len(entries')
    <3>1. readyc # << >> => readyc[1].after \in Nat /\ readyc[1].after <= Len(entries)
      BY ReadyFacts DEF Inv, Bounded, ReadyRec
    <3> QED BY <1>1, <3>1
  <2>2. sent <= Len(entries') /\ msgsAfterAppend' <= Len(entries')
    BY <1>1, <1>2, <1>4
  <2> QED BY <1>3, <2>1, <2>2 DEF Bounded, LogStep
<1>8. ReadyCurrent'
  <2>1. readyc # << >> /\ commitIndex' = lastApplied => readyc[1].apply = << >>
    <3>1. commitIndex' = lastApplied => commitIndex = lastApplied
      BY <1>1, <1>2, <1>3
    <3> QED BY <3>1 DEF Inv, ReadyCurrent
  <2> QED BY <1>3, <2>1 DEF ReadyCurrent
<1>9. SavedInv'
  <2> SUFFICES ASSUME AtIds' PROVE InWal(1, stableIndex)' /\ InWal(1, sent)'
    BY DEF SavedInv
  <2>1. AtIds
    BY <1>1 DEF AtIds
  <2>2. InWal(1, stableIndex) /\ InWal(1, sent)
    BY <2>1 DEF Inv, SavedInv
  <2>3. \A k \in 1 .. stableIndex : k \in 1 .. Len(entries)
    BY <1>2
  <2>4. \A k \in 1 .. sent : k \in 1 .. Len(entries)
    BY <1>2
  <2> QED BY <1>1, <1>3, <2>2, <2>3, <2>4 DEF InWal
<1>10. AppliedInOrder'
  <2>1. PICK new \in Seq(LogEntry) : entries' = entries \o new
    BY DEF LogStep
  <2>2. PICK lo \in Nat, hi \in Nat : lo = Len(applied) /\ hi = lastApplied
    BY <1>2 DEF Inv, Types
  <2>3. Queued(lo, hi) /\ applied = SubSeq(entries, 1, lo) /\ applyc \in Seq(Seq(LogEntry))
    BY <2>2 DEF Inv, AppliedInOrder, Types
  <2>4. lo <= hi /\ hi <= Len(entries)
    BY <1>2, <2>2, <2>3, QueuedBounds
  <2>5. Queued(lo, hi)'
    <3>1. applyc' = applyc
      OBVIOUS
    <3> QED BY <1>2, <2>1, <2>3, <2>4, <3>1, QueuedGrown
  <2>6. applied = SubSeq(entries', 1, lo)
    BY <1>2, <2>1, <2>2, <2>3, <2>4, GrownSubSeq
  <2>7. lo = Len(applied') /\ hi = lastApplied'
    BY <1>3, <2>2
  <2> QED BY <2>5, <2>6, <2>7 DEF AppliedInOrder
<1> QED BY <1>5, <1>6, <1>7, <1>8, <1>9, <1>10 DEF Inv

LEMMA TakePropInv ==
    ASSUME Inv, TakeProp
    PROVE  Inv'
<1>1. LogStep
  BY TakePropStep
<1>2. propc \in Seq(Input) /\ Len(propc) <= PropCap /\ tickc \in 0 .. TickCap /\ propc # << >>
      /\ PropCap \in Nat
  BY RunLoopAssumption DEF Inv, TypeOK, TakeProp
<1>3. Tail(propc) \in Seq(Input) /\ Len(Tail(propc)) <= PropCap
  BY <1>2
<1> QED BY <1>1, <1>2, <1>3, LogStepInv DEF TakeProp, outVars

LEMMA TakeTickInv ==
    ASSUME Inv, TakeTick
    PROVE  Inv'
<1>1. /\ propc \in Seq(Input) /\ Len(propc) <= PropCap /\ tickc \in 0 .. TickCap
      /\ state \in {Follower, Candidate, Leader} /\ msgs \in BOOLEAN
  BY DEF Inv, TypeOK
<1>2. LogStep
  BY <1>1, QuietStep DEF TakeTick
<1>3. tickc' \in 0 .. TickCap
  BY <1>1, RunLoopAssumption DEF TakeTick
<1> QED BY <1>1, <1>2, <1>3, LogStepInv DEF TakeTick, outVars

\* The log of a node whose entries lie at their Ids ends at its length.
LEMMA AtIdsFacts ==
    ASSUME Inv, AtIds
    PROVE  lastIndex(entries) = Len(entries)
<1>1. entries \in Seq(LogEntry)
  BY DEF Inv, Types
<1>2. CASE Len(entries) = 0
  BY <1>1, <1>2 DEF lastIndex
<1>3. CASE Len(entries) # 0
  <2>1. Len(entries) \in 1 .. Len(entries)
    BY <1>1, <1>3
  <2> QED BY <1>3, <2>1 DEF lastIndex, AtIds
<1> QED BY <1>2, <1>3

LEMMA EnterSelectInv ==
    ASSUME Inv, EnterSelect
    PROVE  Inv'
<1> DEFINE r == [save  |-> volatileEntries(entries, stableIndex),
                 after |-> msgsAfterAppend,
                 apply |-> committedEntries(entries, lastApplied, commitIndex)]
<1>1. /\ entries \in Seq(LogEntry) /\ Len(entries) \in Nat
      /\ commitIndex \in 0 .. Len(entries) /\ stableIndex \in 0 .. Len(entries)
      /\ lastApplied \in 0 .. Len(entries) /\ lastApplied <= commitIndex
      /\ msgsAfterAppend \in 0 .. Len(entries)
      /\ readyc \in Seq(ReadyRec)
      /\ lastIndex(entries) \in 0 .. Len(entries)
  BY LastIndexFacts DEF Inv, Types, Bounded, TypeOK
<1>2. /\ pc' = "select"
      /\ \/ hasReady /\ readyc = << >> /\ readyc' = <<r>>
         \/ ~hasReady /\ readyc' = readyc
      /\ UNCHANGED <<propc, tickc, applyc, rd, state, logVars, outVars, applied>>
      /\ msgs' = FALSE /\ msgsAfterAppend' = 0
  <2>1. readyFits => readyc = << >>
    BY <1>1 DEF readyFits
  <2>2. readyc = << >> => Append(readyc, r) = <<r>>
    OBVIOUS
  <2> QED BY <2>1, <2>2 DEF EnterSelect
<1>3. r.save = SubSeq(entries, stableIndex + 1, lastIndex(entries)) /\ r.apply = Pending
  BY <1>1 DEF volatileEntries, committedEntries, slice, min, Pending
<1>4. r \in ReadyRec
  <2>1. /\ SubSeq(entries, stableIndex + 1, lastIndex(entries)) \in Seq(LogEntry)
        /\ Pending \in Seq(LogEntry)
    BY <1>1 DEF Pending
  <2>2. r = [save |-> r.save, after |-> msgsAfterAppend, apply |-> r.apply]
    OBVIOUS
  <2> HIDE DEF r
  <2>3. msgsAfterAppend \in Nat
    BY <1>1
  <2>4. r.save \in Seq(LogEntry) /\ r.apply \in Seq(LogEntry)
    BY <1>3, <2>1, Zenon
  <2> QED BY <2>2, <2>3, <2>4 DEF ReadyRec
<1>5. r.after = msgsAfterAppend
  OBVIOUS
<1> HIDE DEF r
<1>6. readyc' = <<r>> => readyc' \in Seq(ReadyRec) /\ Len(readyc') = 1 /\ readyc'[1] = r
  BY <1>4
<1>7. TypeOK'
  <2>1. 0 \in 0 .. MaxLog /\ FALSE \in BOOLEAN
    BY RunLoopAssumption
  <2>2. UNCHANGED <<propc, tickc, applyc, state, entries, commitIndex, stableIndex, lastApplied>>
    BY <1>2 DEF logVars
  <2> QED BY <1>2, <2>1, <2>2 DEF Inv, TypeOK
<1>8. Types' /\ Bounded'
  <2>1. readyc' \in Seq(ReadyRec) /\ Len(readyc') <= 1
    <3>1. Len(readyc) <= 1
      BY DEF Inv, Types
    <3>2. CASE readyc' = readyc
      BY <1>1, <3>1, <3>2
    <3>3. CASE readyc' = <<r>>
      BY <1>6, <3>3
    <3> QED BY <1>2, <3>2, <3>3
  <2>2. readyc' # << >> => readyc'[1].after <= Len(entries)
    BY <1>1, <1>2, <1>5, <1>6 DEF Inv, Bounded
  <2>3. 0 <= Len(entries)
    BY <1>1
  <2> QED BY <1>2, <2>1, <2>2, <2>3 DEF Inv, Types, Bounded, logVars, outVars
<1>9. ReadyCurrent'
  <2>1. Pending' = Pending /\ (commitIndex = lastApplied => Pending = << >>)
    BY <1>1, <1>2 DEF Pending, logVars
  <2>2. CASE hasReady /\ readyc' = <<r>>
    BY <1>2, <1>3, <1>6, <2>1, <2>2 DEF ReadyCurrent, logVars
  <2>3. CASE ~hasReady /\ readyc' = readyc
    <3>1. commitIndex = lastApplied
      BY <1>1, <2>3 DEF hasReady
    <3> QED BY <1>2, <2>1, <2>3, <3>1 DEF Inv, ReadyCurrent, logVars
  <2> QED BY <1>2, <2>2, <2>3
<1>10. SavedInv'
  <2> SUFFICES ASSUME AtIds'
               PROVE  /\ InWal(1, stableIndex)' /\ InWal(1, sent)'
                      /\ readyc' # << >> =>
                           \A k \in stableIndex + 1 .. Len(entries) :
                              entries[k] \in ToSet(readyc'[1].save)
    BY <1>2 DEF SavedInv, logVars
  <2>1. AtIds
    BY <1>2 DEF AtIds, logVars
  <2>2. lastIndex(entries) = Len(entries)
    BY <2>1, AtIdsFacts
  <2>3. InWal(1, stableIndex)' /\ InWal(1, sent)'
    BY <1>2, <2>1 DEF Inv, SavedInv, InWal, logVars, outVars
  <2>4. CASE hasReady /\ readyc' = <<r>>
    <3> DEFINE new == SubSeq(entries, stableIndex + 1, Len(entries))
    <3>1. ASSUME NEW k \in stableIndex + 1 .. Len(entries)
          PROVE  entries[k] \in ToSet(new)
      <4>1. k - stableIndex \in DOMAIN new /\ new[k - stableIndex] = entries[k]
        BY <1>1
      <4> QED BY <4>1 DEF ToSet
    <3>2. readyc'[1].save = new
      BY <1>3, <1>6, <2>2, <2>4
    <3> QED BY <2>3, <3>1, <3>2
  <2>5. CASE ~hasReady /\ readyc' = readyc
    <3>1. stableIndex = Len(entries)
      BY <1>1, <2>2, <2>5 DEF hasReady
    <3>2. \A k \in stableIndex + 1 .. Len(entries) : FALSE
      BY <1>1, <3>1
    <3> QED BY <2>3, <3>2
  <2> QED BY <1>2, <2>4, <2>5
<1>11. AppliedInOrder'
  BY <1>2 DEF Inv, AppliedInOrder, Queued, logVars
<1> QED BY <1>7, <1>8, <1>9, <1>10, <1>11 DEF Inv

LEMMA TakeReadyInv ==
    ASSUME Inv, TakeReady
    PROVE  Inv'
<1> DEFINE r == readyc[1]
<1>1. /\ pc = "select" /\ pc' = "apply" /\ readyc # << >> /\ readyc' = << >>
      /\ rd' = r.apply /\ wal' = wal \o r.save /\ sent' = max(sent, r.after)
      /\ UNCHANGED <<propc, tickc, applyc, state, entries, commitIndex, stableIndex, lastApplied,
                     msgs, msgsAfterAppend, applied>>
  BY ReadyFacts DEF TakeReady, smVars, logVars
<1>2. r \in ReadyRec /\ r.apply = Pending /\ r.after <= Len(entries)
  BY <1>1, ReadyFacts DEF Inv, ReadyCurrent, Bounded
<1>3. /\ r.apply \in Seq(LogEntry) /\ r.save \in Seq(LogEntry) /\ r.after \in Nat
      /\ wal \in Seq(LogEntry) /\ sent \in Nat /\ sent <= Len(entries)
      /\ entries \in Seq(LogEntry) /\ stableIndex \in 0 .. Len(entries)
  BY <1>2 DEF ReadyRec, Inv, Types, Bounded
<1> HIDE DEF r
<1>4. TypeOK'
  BY <1>1 DEF Inv, TypeOK
<1>5. wal' \in Seq(LogEntry) /\ sent' \in Nat /\ sent' <= Len(entries)
  BY <1>1, <1>2, <1>3 DEF max
<1>6. Types'
  <2>1. << >> \in Seq(ReadyRec) /\ Len(<< >>) = 0
    OBVIOUS
  <2> QED BY <1>1, <1>3, <1>5, <2>1 DEF Inv, Types
<1>7. Bounded'
  BY <1>1, <1>5 DEF Inv, Bounded
<1>8. ReadyCurrent'
  <2>1. Pending' = Pending
    BY <1>1 DEF Pending
  <2> QED BY <1>1, <1>2, <2>1 DEF ReadyCurrent
<1>9. SavedInv'
  <2> SUFFICES ASSUME AtIds' PROVE InWal(1, Len(entries))'
    <3>1. \A k \in 1 .. stableIndex : k \in 1 .. Len(entries)
      BY <1>3
    <3>2. \A k \in 1 .. sent' : k \in 1 .. Len(entries)
      BY <1>3, <1>5
    <3> QED BY <1>1, <3>1, <3>2 DEF SavedInv, InWal
  <2>1. AtIds
    BY <1>1 DEF AtIds
  <2>2. /\ \A k \in 1 .. stableIndex : entries[k] \in ToSet(wal)
        /\ \A k \in stableIndex + 1 .. Len(entries) : entries[k] \in ToSet(r.save)
    BY <1>1, <2>1 DEF Inv, SavedInv, InWal, r
  <2>3. ToSet(wal) \subseteq ToSet(wal') /\ ToSet(r.save) \subseteq ToSet(wal')
    <3>1. \A k \in DOMAIN wal : k \in DOMAIN wal' /\ wal'[k] = wal[k]
      BY <1>1, <1>3
    <3>2. \A k \in DOMAIN r.save :
             k + Len(wal) \in DOMAIN wal' /\ wal'[k + Len(wal)] = r.save[k]
      BY <1>1, <1>3
    <3> QED BY <3>1, <3>2 DEF ToSet
  <2>4. \A k \in 1 .. Len(entries) : k \in 1 .. stableIndex \/ k \in stableIndex + 1 .. Len(entries)
    BY <1>3
  <2>5. \A k \in 1 .. Len(entries) : entries[k] \in ToSet(wal')
    BY <2>2, <2>3, <2>4
  <2> QED BY <1>1, <2>5 DEF InWal
<1>10. AppliedInOrder'
  BY <1>1 DEF Inv, AppliedInOrder, Queued
<1> QED BY <1>4, <1>6, <1>7, <1>8, <1>9, <1>10 DEF Inv

LEMMA HandOverInv ==
    ASSUME Inv, HandOver
    PROVE  Inv'
<1>1. /\ pc = "apply" /\ pc' = "loop" /\ rd' = << >> /\ rd = Pending /\ readyc = << >>
      /\ UNCHANGED <<propc, tickc, readyc, state, entries, commitIndex, msgs, msgsAfterAppend,
                     wal, sent, applied>>
  BY DEF HandOver, outVars, Inv, ReadyCurrent
<1>2. /\ entries \in Seq(LogEntry) /\ Len(entries) \in Nat
      /\ commitIndex \in 0 .. Len(entries) /\ stableIndex \in 0 .. Len(entries)
      /\ lastApplied \in 0 .. Len(entries) /\ lastApplied <= commitIndex
      /\ lastIndex(entries) \in 0 .. Len(entries)
      /\ applyc \in Seq(Seq(LogEntry)) /\ applied \in Seq(LogEntry)
      /\ Len(applyc) <= ApplyCap /\ ApplyCap \in Nat
  BY LastIndexFacts, RunLoopAssumption DEF Inv, Types, Bounded, TypeOK
<1>3. stableIndex' \in 0 .. Len(entries) /\ lastApplied' = commitIndex
  BY <1>2 DEF HandOver, markStableTill, markAppliedTill, max
<1>4. \/ rd = << >> /\ applyc' = applyc
      \/ rd # << >> /\ Len(applyc) < ApplyCap /\ applyc' = Append(applyc, rd)
  BY DEF HandOver
<1>5. rd \in Seq(LogEntry)
  BY DEF Inv, Types
<1>6. applyc' \in Seq(Seq(LogEntry)) /\ Len(applyc') <= ApplyCap
  <2>1. Append(applyc, rd) \in Seq(Seq(LogEntry)) /\ Len(Append(applyc, rd)) = Len(applyc) + 1
    BY <1>2, <1>5, AppendProperties
  <2>2. Len(applyc) \in Nat
    BY <1>2
  <2>3. \A i, j \in Nat : i < j => i + 1 <= j
    OBVIOUS
  <2>4. Len(applyc) < ApplyCap => Len(applyc) + 1 <= ApplyCap
    BY <1>2, <2>2, <2>3, Zenon
  <2> QED BY <1>2, <1>4, <2>1, <2>4, Zenon
<1>7. TypeOK'
  BY <1>1, <1>2, <1>3, <1>6 DEF Inv, TypeOK
<1>8. Types' /\ Bounded'
  BY <1>1, <1>2, <1>3, <1>6 DEF Inv, Types, Bounded
<1>9. ReadyCurrent'
  BY <1>1 DEF ReadyCurrent
<1>10. SavedInv'
  <2> SUFFICES ASSUME AtIds' PROVE InWal(1, stableIndex)' /\ InWal(1, sent)'
    BY <1>1 DEF SavedInv
  <2>1. AtIds
    BY <1>1 DEF AtIds
  <2>2. InWal(1, Len(entries)) /\ InWal(1, sent)
    BY <1>1, <2>1 DEF Inv, SavedInv
  <2>3. \A k \in 1 .. stableIndex' : k \in 1 .. Len(entries)
    BY <1>2, <1>3
  <2> QED BY <1>1, <2>2, <2>3 DEF InWal
<1>11. AppliedInOrder'
  <2>1. PICK lo \in Nat, hi \in Nat, c \in Nat :
           lo = Len(applied) /\ hi = lastApplied /\ c = commitIndex
    BY <1>2
  <2>2. Queued(lo, hi) /\ applied = SubSeq(entries, 1, lo)
    BY <2>1 DEF Inv, AppliedInOrder
  <2>3. Queued(lo, c)'
    <3>1. CASE rd = << >>
      <4>1. hi = c
        <5>1. Len(Pending) = IF hi + 1 <= c THEN c - (hi + 1) + 1 ELSE 0
          BY <1>2, <2>1 DEF Pending
        <5> QED BY <1>1, <1>2, <2>1, <3>1, <5>1
      <4> QED BY <1>1, <1>4, <2>2, <3>1, <4>1 DEF Queued
    <3>2. CASE rd # << >>
      <4>1. applyc' = Append(applyc, SubSeq(entries, hi + 1, c))
        BY <1>1, <1>4, <2>1, <3>2 DEF Pending
      <4>2. hi <= c /\ c <= Len(entries) /\ entries' = entries
        BY <1>1, <1>2, <2>1
      <4> QED BY <1>2, <2>2, <4>1, <4>2, QueuedAppend
    <3> QED BY <3>1, <3>2
  <2>4. lo = Len(applied') /\ c = lastApplied'
    BY <1>1, <1>3, <2>1
  <2> QED BY <1>1, <2>2, <2>3, <2>4 DEF AppliedInOrder
<1> QED BY <1>7, <1>8, <1>9, <1>10, <1>11 DEF Inv

\* The database takes the piece of the log that follows what it has.
LEMMA ApplyPiece ==
    ASSUME Inv, Apply
    PROVE  \E c \in Len(applied) .. lastApplied :
              /\ applied = SubSeq(entries, 1, Len(applied)) /\ Len(applied) \in Nat
              /\ applied' = SubSeq(entries, 1, c) /\ Len(applied') = c /\ Queued(c, lastApplied)'
<1>1. /\ applyc # << >> /\ applied' = applied \o Head(applyc) /\ applyc' = Tail(applyc)
      /\ UNCHANGED <<entries, lastApplied>>
  BY DEF Apply, smVars, logVars
<1>2. /\ entries \in Seq(LogEntry) /\ Len(entries) \in Nat /\ lastApplied \in 0 .. Len(entries)
      /\ applyc \in Seq(Seq(LogEntry)) /\ applied \in Seq(LogEntry)
  BY DEF Inv, Types
<1>3. PICK lo \in Nat, hi \in Nat : lo = Len(applied) /\ hi = lastApplied
  BY <1>2
<1>4. Queued(lo, hi) /\ applied = SubSeq(entries, 1, lo)
  BY <1>3 DEF Inv, AppliedInOrder
<1>5. PICK c \in lo .. hi : Head(applyc) = SubSeq(entries, lo + 1, c) /\ Queued(c, hi)'
  BY <1>1, <1>2, <1>4, QueuedTake
<1>6. lo <= hi /\ c \in 0 .. Len(entries) /\ lo \in 0 .. Len(entries)
  BY <1>2, <1>3, <1>5
<1>7. SubSeq(entries, 1, lo) \o SubSeq(entries, lo + 1, c) = SubSeq(entries, 1, c)
  <2>1. 1 \in 1 .. Len(entries) + 1 /\ lo \in 1 - 1 .. Len(entries) /\ c \in lo .. Len(entries)
    BY <1>2, <1>3, <1>5, <1>6
  <2> QED BY <1>2, <2>1, ConcatAdjacentSubSeq
<1>8. applied' = SubSeq(entries, 1, c)
  BY <1>1, <1>4, <1>5, <1>7
<1>9. Len(SubSeq(entries, 1, c)) = c
  BY <1>2, <1>6
<1>10. Queued(c, lastApplied)'
  BY <1>1, <1>3, <1>5
<1>11. c \in Len(applied) .. lastApplied /\ Len(applied) \in Nat
  BY <1>3, <1>5, <1>6
<1> QED BY <1>3, <1>4, <1>8, <1>9, <1>10, <1>11

LEMMA ApplyInv ==
    ASSUME Inv, Apply
    PROVE  Inv'
<1>1. /\ UNCHANGED <<pc, propc, tickc, readyc, rd, state, entries, commitIndex, stableIndex,
                     lastApplied, msgs, msgsAfterAppend, wal, sent>>
      /\ applyc # << >> /\ applyc' = Tail(applyc)
  BY DEF Apply, smVars, logVars, outVars
<1>2. PICK c \in Nat : /\ c <= lastApplied /\ applied' = SubSeq(entries, 1, c)
                       /\ Len(applied') = c /\ Queued(c, lastApplied)'
  <2>1. lastApplied \in Nat
    BY DEF Inv, Types
  <2> QED BY <2>1, ApplyPiece
<1>3. /\ entries \in Seq(LogEntry) /\ lastApplied \in 0 .. Len(entries)
      /\ applyc \in Seq(Seq(LogEntry)) /\ Len(applyc) <= ApplyCap /\ ApplyCap \in Nat
  BY RunLoopAssumption DEF Inv, Types, TypeOK
<1>4. applyc' \in Seq(Seq(LogEntry)) /\ Len(applyc') <= ApplyCap
  <2>1. Tail(applyc) \in Seq(Seq(LogEntry)) /\ Len(Tail(applyc)) = Len(applyc) - 1
    BY <1>1, <1>3, HeadTailProperties
  <2>2. Len(applyc) \in Nat
    BY <1>3
  <2> QED BY <1>1, <1>3, <2>1, <2>2
<1>5. applied' \in Seq(LogEntry)
  BY <1>2, <1>3
<1>6. TypeOK'
  BY <1>1, <1>4 DEF Inv, TypeOK
<1>7. Types'
  BY <1>1, <1>4, <1>5 DEF Inv, Types
<1>8. Bounded' /\ ReadyCurrent' /\ SavedInv'
  BY <1>1 DEF Inv, Bounded, ReadyCurrent, Pending, SavedInv, AtIds, InWal
<1>9. AppliedInOrder'
  BY <1>1, <1>2 DEF AppliedInOrder
<1> QED BY <1>6, <1>7, <1>8, <1>9 DEF Inv

LEMMA OutsideInv ==
    ASSUME Inv, (\E in \in Input : Process(in)) \/ Tick \/ Spin \/ UNCHANGED vars
    PROVE  Inv'
<1>1. /\ UNCHANGED <<readyc, applyc, rd, state, entries, commitIndex, stableIndex,
                     lastApplied, msgs, msgsAfterAppend, wal, sent, applied>>
      /\ pc' = pc \/ pc' = "loop"
  BY DEF Process, Tick, Spin, vars, smVars, logVars, outVars
<1>2. propc \in Seq(Input) /\ Len(propc) <= PropCap /\ tickc \in 0 .. TickCap
      /\ PropCap \in Nat /\ TickCap \in Nat
  BY RunLoopAssumption DEF Inv, TypeOK
<1>3. propc' \in Seq(Input) /\ Len(propc') <= PropCap
  <2>1. CASE \E in \in Input : Process(in)
    <3>1. PICK in \in Input : Len(propc) < PropCap /\ propc' = Append(propc, in)
      BY <2>1 DEF Process
    <3>2. Append(propc, in) \in Seq(Input) /\ Len(Append(propc, in)) = Len(propc) + 1
      BY <1>2, AppendProperties
    <3>3. Len(propc) \in Nat
      BY <1>2
    <3> QED BY <1>2, <3>1, <3>2, <3>3
  <2>2. CASE propc' = propc
    BY <1>2, <2>2
  <2> QED BY <2>1, <2>2 DEF Tick, Spin, vars
<1>4. tickc' \in 0 .. TickCap
  BY <1>2 DEF Process, Tick, Spin, vars, min
<1>5. TypeOK'
  BY <1>1, <1>3, <1>4 DEF Inv, TypeOK
<1>6. Types' /\ Bounded'
  BY <1>1 DEF Inv, Types, Bounded
<1>7. ReadyCurrent' /\ SavedInv'
  BY <1>1 DEF Inv, ReadyCurrent, Pending, SavedInv, AtIds, InWal
<1>8. AppliedInOrder'
  BY <1>1 DEF Inv, AppliedInOrder, Queued
<1> QED BY <1>5, <1>6, <1>7, <1>8 DEF Inv

LEMMA NextInv ==
    ASSUME Inv, [Next]_vars
    PROVE  Inv'
BY EnterSelectInv, TakePropInv, TakeTickInv, TakeReadyInv, HandOverInv, ApplyInv, OutsideInv
   DEF Next, Loop

LEMMA InitInv ==
    ASSUME Init
    PROVE  Inv
<1>1. << >> \in Seq(LogEntry) /\ << >> \in Seq(Seq(LogEntry)) /\ << >> \in Seq(ReadyRec)
      /\ << >> \in Seq(Input) /\ Len(<< >>) = 0
  OBVIOUS
<1>2. TypeOK
  <2>1. 0 \in 0 .. TickCap /\ 0 \in 0 .. MaxLog /\ 0 <= PropCap /\ 0 <= ApplyCap
    BY RunLoopAssumption
  <2>2. {commitIndex, stableIndex, lastApplied} \subseteq 0 .. Len(entries)
    BY DEF Init
  <2> QED BY <1>1, <2>1, <2>2 DEF Init, TypeOK
<1>3. Types
  BY <1>1, RunLoopAssumption DEF Init, Types
<1>4. Bounded /\ ReadyCurrent /\ SavedInv
  BY DEF Init, Bounded, ReadyCurrent, SavedInv, InWal
<1>5. AppliedInOrder
  <2> DEFINE cut == [k \in 0 .. 0 |-> 0]
  <2>1. Len(applyc) = 0
    BY DEF Init
  <2>2. cut \in [0 .. 0 -> 0 .. 0] /\ cut[0] = 0 /\ \A k \in 1 .. 0 : FALSE
    OBVIOUS
  <2> HIDE DEF cut
  <2>3. Queued(0, 0)
    BY <2>1, <2>2, Zenon DEF Queued
  <2> QED BY <1>1, <2>3 DEF Init, AppliedInOrder
<1> QED BY <1>2, <1>3, <1>4, <1>5 DEF Inv

LEMMA SavedFacts ==
    ASSUME Inv
    PROVE  SavedUnlessRepeated
<1> SUFFICES ASSUME \A k \in DOMAIN entries : entries[k].id = k PROVE SavedBeforeSent
  BY DEF SavedUnlessRepeated
<1>1. entries \in Seq(LogEntry) /\ sent \in Nat /\ sent <= Len(entries)
  BY DEF Inv, Types, Bounded
<1>2. InWal(1, sent)
  BY <1>1 DEF Inv, SavedInv, AtIds
<1>3. \A k \in DOMAIN SubSeq(entries, 1, sent) :
         k \in 1 .. sent /\ SubSeq(entries, 1, sent)[k] = entries[k]
  BY <1>1
<1> QED BY <1>2, <1>3 DEF SavedBeforeSent, ToSet, InWal
-----------------------------------------------------------------------------
\* Every channel stays within its capacity, and the commit, stable and applied
\* indices stay within the log, for any capacities.
THEOREM TypeCorrect == Spec => []TypeOK
<1>1. Inv => TypeOK
  BY DEF Inv
<1> QED BY InitInv, NextInv, <1>1, PTL DEF Spec

\* The database receives the log up to lastApplied, in order and each entry
\* once, although Advance marks as applied what is committed by then: no event
\* that comes between a Ready and its Advance makes it skip or repeat entries.
THEOREM DeliveredInOrder == Spec => []AppliedInOrder
<1>1. Inv => AppliedInOrder
  BY DEF Inv
<1> QED BY InitInv, NextInv, <1>1, PTL DEF Spec

\* As long as no entry is appended a second time, a node tells others only of
\* entries that its WAL holds.
THEOREM SavedFirst == Spec => []SavedUnlessRepeated
BY InitInv, NextInv, SavedFacts, PTL DEF Spec
-----------------------------------------------------------------------------
(* The refinement of Delivery. *)

\* What is committed is only ever extended.
LEMMA CommittedGrows ==
    ASSUME Inv, LogStep, applied' = applied
    PROVE  [Committed!Extend]_<<SubSeq(entries, 1, commitIndex), applied>>
<1> DEFINE c == commitIndex
           d == commitIndex'
           l == SubSeq(entries, 1, c)
           k == SubSeq(entries', 1, d)
<1>1. PICK new \in Seq(LogEntry) : entries' = entries \o new
  BY DEF LogStep
<1>2. /\ entries \in Seq(LogEntry) /\ c \in 0 .. Len(entries)
      /\ entries' \in Seq(LogEntry) /\ d \in c .. Len(entries')
      /\ \A i \in 1 .. Len(entries) : entries'[i] = entries[i]
  BY LogStepKeeps DEF Inv, Types, LogStep
<1> HIDE DEF c, d
<1>3. l \in Seq(LogEntry) /\ Len(l) = c /\ Len(k) = d /\ k \in Seq(LogEntry) /\ c \in Nat
  BY <1>2
<1>4. l = SubSeq(entries', 1, c)
  BY <1>1, <1>2, GrownSubSeq
<1>5. SubSeq(k, 1, c) = l
  <2>1. SubSeq(k, 1, c) \in Seq(LogEntry) /\ Len(SubSeq(k, 1, c)) = c
    BY <1>2, <1>3
  <2>2. \A i \in 1 .. c : SubSeq(k, 1, c)[i] = entries'[i] /\ l[i] = entries[i]
    BY <1>2, <1>3
  <2>3. \A i \in 1 .. c : i \in 1 .. Len(entries)
    BY <1>2
  <2> HIDE DEF l, k
  <2> QED BY <1>2, <1>3, <2>1, <2>2, <2>3, SeqEqual
<1>6. CASE d = c
  BY <1>4, <1>6 DEF c, d
<1>7. CASE d > c
  BY <1>3, <1>5, <1>7 DEF Committed!Extend, c, d
<1>8. d = c \/ d > c
  BY <1>2
<1> QED BY <1>6, <1>7, <1>8, Zenon

LEMMA StepDelivers ==
    ASSUME Inv, [Next]_vars
    PROVE  [Committed!Extend \/ Committed!Deliver \/ Committed!Restart
              ]_<<SubSeq(entries, 1, commitIndex), applied>>
<1>1. CASE TakeProp
  BY <1>1, TakePropStep, CommittedGrows DEF TakeProp
<1>2. CASE Apply
  <2>1. PICK c \in Len(applied) .. lastApplied :
           /\ applied = SubSeq(entries, 1, Len(applied)) /\ Len(applied) \in Nat
           /\ applied' = SubSeq(entries, 1, c)
    BY <1>2, ApplyPiece
  <2>2. /\ entries \in Seq(LogEntry) /\ lastApplied \in 0 .. Len(entries)
        /\ commitIndex \in 0 .. Len(entries) /\ lastApplied <= commitIndex
        /\ entries' = entries /\ commitIndex' = commitIndex
    BY <1>2 DEF Inv, Types, Bounded, Apply, smVars, logVars
  <2>3. CASE c = Len(applied)
    BY <2>1, <2>2, <2>3
  <2>4. CASE c > Len(applied)
    <3> DEFINE l == SubSeq(entries, 1, commitIndex)
    <3>1. l \in Seq(LogEntry) /\ Len(l) = commitIndex
      BY <2>2
    <3>2. SubSeq(l, 1, c) = SubSeq(entries, 1, c)
      <4>1. c \in 1 .. commitIndex /\ c <= Len(entries)
        BY <2>1, <2>2, <2>4
      <4>2. SubSeq(l, 1, c) \in Seq(LogEntry) /\ Len(SubSeq(l, 1, c)) = c
            /\ \A i \in 1 .. c : SubSeq(l, 1, c)[i] = l[i]
        <5> HIDE DEF l
        <5> QED BY <2>2, <3>1, <4>1
      <4>3. SubSeq(entries, 1, c) \in Seq(LogEntry) /\ Len(SubSeq(entries, 1, c)) = c
            /\ \A i \in 1 .. c : SubSeq(entries, 1, c)[i] = entries[i] /\ l[i] = entries[i]
        BY <2>2, <4>1
      <4> HIDE DEF l
      <4> QED BY <4>2, <4>3, SeqEqual
    <3>3. c \in Len(applied) + 1 .. Len(l)
      BY <2>1, <2>2, <2>4, <3>1
    <3>4. l' = l
      BY <2>2
    <3>5. Committed!Deliver
      BY <2>1, <3>2, <3>3, <3>4 DEF Committed!Deliver
    <3> QED BY <3>5
  <2>5. c = Len(applied) \/ c > Len(applied)
    <3>1. \A n \in Nat : \A i \in n .. lastApplied : i = n \/ i > n
      OBVIOUS
    <3> QED BY <2>1, <3>1, Zenon
  <2> QED BY <2>3, <2>4, <2>5, Zenon
<1>3. CASE UNCHANGED <<entries, commitIndex, applied>>
  BY <1>3
<1> QED BY <1>1, <1>2, <1>3
   DEF Next, Loop, Process, Tick, EnterSelect, TakeTick, Spin, TakeReady, HandOver, vars,
       smVars, logVars

\* Seen from outside, the loop delivers the committed log to the database in
\* order and each entry once; nothing committed is ever taken back.
THEOREM DeliversCommitted == Spec => ImplementsDelivery
<1>1. Init => Committed!Init
  BY DEF Init, Committed!Init
<1> QED BY <1>1, InitInv, NextInv, StepDelivers, PTL
   DEF Spec, ImplementsDelivery, Committed!SafeSpec
=============================================================================
