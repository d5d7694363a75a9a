--------------------------- MODULE RecoveryProofs ---------------------------
(***************************************************************************)
(* Theorems about the crashes and restarts of a node, checked by TLAPS.    *)
(*                                                                         *)
(* WalInv says how the raft log of the current life relates to the file:   *)
(* the entries at the positions up to stableIndex + saved are in it,       *)
(* although Ids decide what is saved, and no record has an Id above its    *)
(* position.  FirstLog and FirstPage say what the file and the page keep   *)
(* of the first life until they are replayed.                              *)
(***************************************************************************)
EXTENDS Recovery, SequenceTheorems, WellFoundedInduction, TLAPS

LogEntry == [id : 0 .. MaxLog, cmd : Command, requestId : {0, 1}]
Batch    == [entries : Seq(LogEntry), commit : Nat]
Page     == [commit : Nat, applied : Nat]

Types ==
    /\ logs \in Seq(LogEntry) /\ entries \in Seq(LogEntry) /\ Len(entries) <= MaxLog
    /\ kv \in Seq(LogEntry) /\ queue \in Seq(Batch)
    /\ job \in [todo : Seq(LogEntry), applied : Nat, commit : Nat]
    /\ meta \in Page /\ metaSynced \in Page

\* The records of the entries of s are in the file, and no Id is above i.
Filed(s, i) == \A k \in 1 .. Len(s) : encodeLog(s[k]) \in ToSet(file) /\ s[k].id <= i

WalInv ==
    alive =>
        /\ lastApplied = commitIndex /\ commitIndex <= stableIndex
        /\ saved > 0 => stableIndex + saved < lastIndex(entries)
        /\ stableIndex + saved <= Len(file)
        /\ \A k \in 1 .. Len(entries) : entries[k].id <= k
        /\ \A k \in 1 .. stableIndex + saved : encodeLog(entries[k]) \in ToSet(file)
        /\ \A k \in 1 .. Len(queue) : Filed(queue[k].entries, stableIndex)
        /\ Filed(job.todo, stableIndex) /\ job.applied <= Len(file)

FileInv == \A k \in 1 .. Len(file) : file[k].id <= k

PageInv ==
    /\ meta.applied <= synced + SyncThreshold
    /\ metaSynced.applied <= synced + SyncThreshold

\* A node that is down has lost all but its file and its page.
Quiet ==
    ~alive =>
        /\ entries = << >> /\ commitIndex = 0 /\ stableIndex = 0 /\ lastApplied = 0 /\ saved = 0
        /\ queue = << >> /\ job = Idle /\ stage = "idle" /\ kv = << >>

\* What the first life has saved is its log, what it has committed a prefix of
\* it, and what is to be written to the page was committed.
FirstLog ==
    life = 1 /\ alive =>
        /\ Len(file) = stableIndex + saved
        /\ \A k \in 1 .. Len(file) : encodeLog(entries[k]) = file[k]
        /\ Len(committed) = commitIndex
        /\ \A k \in 1 .. Len(queue) : queue[k].commit <= commitIndex
        /\ job.commit <= commitIndex

Unreplayed == life = 1 \/ (life = 2 /\ status = "replay" /\ stage = "idle")

\* The records of the first life that the file still has.
First == IF life = 1 THEN Len(file) ELSE old

FirstPage ==
    Unreplayed =>
        /\ meta.commit <= Len(committed) /\ metaSynced.commit <= Len(committed)
        /\ First <= Len(file)
        /\ \A k \in 1 .. First : k <= Len(committed) => file[k] = committed[k]

Inv ==
    /\ TypeOK /\ Types /\ MemoryOnFile /\ LossBounded
    /\ WalInv /\ FileInv /\ AppliedInWal /\ PageInv /\ Quiet /\ FirstLog /\ FirstPage
-----------------------------------------------------------------------------
(* The operators. *)

LEMMA SameRange == \A i, j \in Nat : 1 .. i = 1 .. j => i = j
<1>1. ASSUME NEW i \in Nat, NEW j \in Nat, 1 .. i = 1 .. j, i > j PROVE FALSE
  <2>1. i \in 1 .. i /\ i \notin 1 .. j
    BY <1>1
  <2> QED BY <1>1, <2>1
<1>2. \A i, j \in Nat : i = j \/ i > j \/ j > i
  OBVIOUS
<1> QED BY <1>1, <1>2

LEMMA PrefixFacts ==
    ASSUME NEW S, NEW s \in Seq(S), NEW n \in 0 .. Len(s)
    PROVE  /\ SubSeq(s, 1, n) \in Seq(S) /\ Len(SubSeq(s, 1, n)) = n
           /\ \A j \in 1 .. n : SubSeq(s, 1, n)[j] = s[j]
OBVIOUS

LEMMA MemoryFacts ==
    ASSUME NEW l \in Seq(LogEntry), NEW f \in Seq(Record)
    PROVE  [k \in DOMAIN l |-> encodeLog(l[k])] = f
              <=> Len(l) = Len(f) /\ \A k \in 1 .. Len(f) : encodeLog(l[k]) = f[k]
<1>1. DOMAIN l = 1 .. Len(l) /\ DOMAIN f = 1 .. Len(f) /\ Len(l) \in Nat /\ Len(f) \in Nat
  OBVIOUS
<1>2. f = [k \in 1 .. Len(f) |-> f[k]]
  OBVIOUS
<1>3. ASSUME [k \in DOMAIN l |-> encodeLog(l[k])] = f
      PROVE  Len(l) = Len(f) /\ \A k \in 1 .. Len(f) : encodeLog(l[k]) = f[k]
  <2>1. 1 .. Len(l) = 1 .. Len(f)
    BY <1>1, <1>3
  <2>2. Len(l) = Len(f)
    BY <1>1, <2>1, SameRange, Zenon
  <2> QED BY <1>1, <1>3, <2>2
<1>4. ASSUME Len(l) = Len(f), \A k \in 1 .. Len(f) : encodeLog(l[k]) = f[k]
      PROVE  [k \in DOMAIN l |-> encodeLog(l[k])] = f
  BY <1>1, <1>2, <1>4
<1> QED BY <1>3, <1>4

LEMMA EncodeFacts ==
    ASSUME NEW e \in LogEntry
    PROVE  encodeLog(e) \in Record /\ encodeLog(e).id = e.id /\ encodeLog(e).cmd = e.cmd
BY DEF encodeLog, LogEntry, Record

LEMMA MinFacts ==
    ASSUME NEW S \in SUBSET Nat, S # {}
    PROVE  Min(S) \in S /\ \A y \in S : Min(S) <= y
<1>1. PICK x \in S : \A y \in S : ~ (<<y, x>> \in OpToRel(<, Nat))
  BY NatLessThanWellFounded, WFMin
<1>2. OpToRel(<, Nat) = {ss \in Nat \X Nat : ss[1] < ss[2]}
  BY DEF OpToRel
<1>3. ASSUME NEW y \in S PROVE x <= y
  <2>1. x \in Nat /\ y \in Nat /\ <<y, x>> \in Nat \X Nat
    OBVIOUS
  <2>2. ~(y < x)
    BY <1>1, <1>2, <2>1
  <2> QED BY <2>1, <2>2
<1> QED BY <1>3 DEF Min

\* The entries to replay are a run of the entries in memory that starts after
\* the applied index.
LEMMA ReplayFacts ==
    ASSUME logs \in Seq(LogEntry), meta \in Page
    PROVE  \E n \in Nat :
              /\ entriesToReplay \in Seq(LogEntry) /\ Len(entriesToReplay) = n
              /\ \A j \in 1 .. n : /\ meta.applied + j \in 1 .. Len(logs)
                                   /\ entriesToReplay[j] = logs[meta.applied + j]
              /\ meta.applied >= meta.commit => n = 0
              /\ meta.applied < meta.commit =>
                    /\ \A j \in 1 .. n : logs[meta.applied + j].id <= meta.commit
                    /\ meta.applied + n < Len(logs) => logs[meta.applied + n + 1].id > meta.commit
<1> DEFINE a == meta.applied
           after == GetLogsAfter(a + 1)
           beyond == {k \in 1 .. Len(after) : after[k].id > meta.commit}
           n == IF a >= meta.commit THEN 0
                ELSE IF beyond = {} THEN Len(after) ELSE Min(beyond) - 1
<1>1. a \in Nat /\ meta.commit \in Nat /\ Len(logs) \in Nat
  BY DEF Page
<1>2. entriesToReplay = IF a >= meta.commit THEN << >>
                        ELSE IF beyond = {} THEN after ELSE SubSeq(after, 1, Min(beyond) - 1)
  BY DEF entriesToReplay
<1>3. after = IF a >= Len(logs) THEN << >> ELSE SubSeq(logs, a + 1, Len(logs))
  <2>1. sliceIndex(a + 1) = a
    BY <1>1 DEF sliceIndex
  <2> QED BY <2>1 DEF GetLogsAfter
<1> HIDE DEF after, a
<1>4. /\ after \in Seq(LogEntry) /\ Len(after) = IF a >= Len(logs) THEN 0 ELSE Len(logs) - a
      /\ \A j \in 1 .. Len(after) : a + j \in 1 .. Len(logs) /\ after[j] = logs[a + j]
  <2>1. CASE a >= Len(logs)
    BY <1>3, <2>1
  <2>2. CASE a < Len(logs)
    BY <1>1, <1>3, <2>2
  <2> QED BY <1>1, <2>1, <2>2
<1>5. Len(after) \in Nat
  BY <1>4
<1>6. beyond # {} => Min(beyond) \in beyond /\ \A y \in beyond : Min(beyond) <= y
  <2>1. beyond \in SUBSET Nat
    OBVIOUS
  <2> HIDE DEF beyond
  <2> QED BY <2>1, MinFacts
<1>7. n \in 0 .. Len(after) /\ entriesToReplay \in Seq(LogEntry) /\ Len(entriesToReplay) = n
      /\ \A j \in 1 .. n : entriesToReplay[j] = after[j]
  <2>1. CASE a >= meta.commit
    BY <1>2, <1>5, <2>1
  <2>2. CASE ~(a >= meta.commit) /\ beyond = {}
    BY <1>2, <1>4, <1>5, <2>2
  <2>3. CASE ~(a >= meta.commit) /\ beyond # {}
    <3>1. n = Min(beyond) - 1 /\ entriesToReplay = SubSeq(after, 1, n)
      BY <1>2, <2>3
    <3>2. n \in 0 .. Len(after)
      BY <1>5, <1>6, <2>3, <3>1
    <3> HIDE DEF n
    <3>3. /\ SubSeq(after, 1, n) \in Seq(LogEntry) /\ Len(SubSeq(after, 1, n)) = n
          /\ \A j \in 1 .. n : SubSeq(after, 1, n)[j] = after[j]
      BY <1>4, <3>2, PrefixFacts
    <3> QED BY <3>1, <3>2, <3>3, Zenon
  <2> QED BY <2>1, <2>2, <2>3
<1>8. ASSUME a < meta.commit
      PROVE  /\ \A j \in 1 .. n : after[j].id <= meta.commit
             /\ n < Len(after) => after[n + 1].id > meta.commit
  <2>1. \A j \in 1 .. Len(after) : after[j].id \in Nat
    <3>1. \A j \in 1 .. Len(after) : after[j] \in LogEntry
      BY <1>4, ElementOfSeq
    <3>2. \A e \in LogEntry : e.id \in Nat
      BY DEF LogEntry
    <3> QED BY <3>1, <3>2, Zenon
  <2>2. CASE beyond = {}
    BY <1>1, <1>5, <1>8, <2>1, <2>2
  <2>3. CASE beyond # {}
    <3>1. n = Min(beyond) - 1
      BY <1>1, <1>8, <2>3
    <3>2. \A j \in 1 .. n : j \in 1 .. Len(after) /\ j \notin beyond
      BY <1>5, <1>6, <2>3, <3>1
    <3>3. n + 1 \in beyond
      BY <1>6, <2>3, <3>1
    <3> HIDE DEF n
    <3> QED BY <1>1, <2>1, <3>2, <3>3
  <2> QED BY <2>2, <2>3
<1>9. a >= meta.commit => n = 0
  OBVIOUS
<1> HIDE DEF n, beyond
<1>10. /\ n \in Nat
       /\ \A j \in 1 .. n : a + j \in 1 .. Len(logs) /\ entriesToReplay[j] = logs[a + j]
  BY <1>4, <1>5, <1>7
<1>11. ASSUME a < meta.commit
       PROVE  /\ \A j \in 1 .. n : logs[a + j].id <= meta.commit
              /\ a + n < Len(logs) => logs[a + n + 1].id > meta.commit
  <2>1. \A j \in 1 .. n : logs[a + j].id <= meta.commit
    BY <1>4, <1>5, <1>7, <1>8, <1>11
  <2>2. ASSUME a + n < Len(logs) PROVE logs[a + n + 1].id > meta.commit
    <3>1. n < Len(after) /\ n + 1 \in 1 .. Len(after) /\ a + (n + 1) = a + n + 1
      BY <1>1, <1>4, <1>5, <1>10, <2>2
    <3> QED BY <1>4, <1>8, <1>11, <3>1
  <2> QED BY <2>1, <2>2
<1> QED BY <1>7, <1>9, <1>10, <1>11 DEF a
-----------------------------------------------------------------------------
(* A step of raft. *)

LEMMA LastIndexFacts ==
    ASSUME NEW l \in Seq(LogEntry)
    PROVE  lastIndex(l) \in Nat /\ (Len(l) > 0 => lastIndex(l) = l[Len(l)].id)
<1>1. CASE Len(l) = 0
  BY <1>1 DEF lastIndex
<1>2. CASE Len(l) # 0
  <2>1. Len(l) \in 1 .. Len(l)
    BY <1>2
  <2>2. l[Len(l)] \in LogEntry
    BY <2>1, ElementOfSeq
  <2> QED BY <1>2, <2>2 DEF lastIndex, LogEntry
<1> QED BY <1>1, <1>2

LEMMA LastIndexBound ==
    ASSUME NEW l \in Seq(LogEntry), \A k \in 1 .. Len(l) : l[k].id <= k
    PROVE  lastIndex(l) \in Nat /\ lastIndex(l) <= Len(l)
<1>1. lastIndex(l) \in Nat /\ (Len(l) > 0 => lastIndex(l) = l[Len(l)].id) /\ Len(l) \in Nat
  BY LastIndexFacts
<1>2. CASE Len(l) = 0
  BY <1>2 DEF lastIndex
<1>3. CASE Len(l) > 0
  <2>1. Len(l) \in 1 .. Len(l)
    BY <1>1, <1>3
  <2> QED BY <1>1, <1>3, <2>1
<1> QED BY <1>1, <1>2, <1>3

\* The record of e is added to the file.
LEMMA AppendLogFacts ==
    ASSUME TypeOK, Types, MemoryOnFile, LossBounded, alive, NEW e \in LogEntry, AppendLog(e)
    PROVE  /\ file' \in Seq(Record) /\ Len(file') = Len(file) + 1
           /\ \A k \in 1 .. Len(file) : file'[k] = file[k]
           /\ file'[Len(file) + 1] = encodeLog(e)
           /\ ToSet(file) \subseteq ToSet(file') /\ encodeLog(e) \in ToSet(file')
           /\ synced' \in 0 .. Len(file') /\ synced <= synced' /\ torn' = torn
           /\ logs' \in Seq(LogEntry) /\ [k \in DOMAIN logs' |-> encodeLog(logs'[k])] = file'
           /\ Len(file') - synced' <= SyncThreshold
<1>1. /\ file \in Seq(Record) /\ synced \in 0 .. Len(file) /\ logs \in Seq(LogEntry)
      /\ Len(file) - synced <= SyncThreshold /\ SyncThreshold \in Nat
  BY WalAssumption DEF TypeOK, Types, LossBounded
<1>2. Len(logs) = Len(file) /\ \A k \in 1 .. Len(file) : encodeLog(logs[k]) = file[k]
  BY <1>1, MemoryFacts DEF MemoryOnFile
<1>3. PICK r \in Record : r = encodeLog(e)
  BY EncodeFacts
<1>4. /\ file' = Append(file, r) /\ logs' = Append(logs, e) /\ torn' = torn
      /\ synced' = IF Len(logs) >= SyncThreshold THEN Len(file') ELSE synced
  BY <1>3 DEF AppendLog, Write, syncDue
<1>5. /\ file' \in Seq(Record) /\ Len(file') = Len(file) + 1
      /\ \A k \in 1 .. Len(file) : file'[k] = file[k]
      /\ file'[Len(file) + 1] = r /\ Len(file) \in Nat
  BY <1>1, <1>4
<1>6. /\ logs' \in Seq(LogEntry) /\ Len(logs') = Len(logs) + 1
      /\ \A k \in 1 .. Len(logs) : logs'[k] = logs[k]
      /\ logs'[Len(logs) + 1] = e
  BY <1>1, <1>4
<1>7. ToSet(file) \subseteq ToSet(file') /\ r \in ToSet(file')
  <2>1. DOMAIN file = 1 .. Len(file) /\ DOMAIN file' = 1 .. Len(file) + 1
    BY <1>1, <1>5
  <2>2. Len(file) + 1 \in DOMAIN file' /\ \A k \in DOMAIN file : k \in DOMAIN file'
    BY <1>5, <2>1
  <2> QED BY <1>5, <2>1, <2>2 DEF ToSet
<1>8. synced' \in 0 .. Len(file') /\ synced <= synced' /\ Len(file') - synced' <= SyncThreshold
  BY <1>1, <1>2, <1>4, <1>5
<1>9. [k \in DOMAIN logs' |-> encodeLog(logs'[k])] = file'
  <2>1. ASSUME NEW k \in 1 .. Len(file') PROVE encodeLog(logs'[k]) = file'[k]
    <3>1. k \in 1 .. Len(file) \/ k = Len(file) + 1
      BY <1>5
    <3>2. CASE k \in 1 .. Len(file)
      <4>1. logs'[k] = logs[k] /\ file'[k] = file[k] /\ encodeLog(logs[k]) = file[k]
        BY <1>2, <1>5, <1>6, <3>2
      <4> QED BY <4>1
    <3>3. CASE k = Len(file) + 1
      BY <1>2, <1>3, <1>5, <1>6, <3>3
    <3> QED BY <3>1, <3>2, <3>3
  <2>2. Len(logs') = Len(file')
    BY <1>2, <1>5, <1>6
  <2> DEFINE l == logs'
             f == file'
  <2>3. l \in Seq(LogEntry) /\ f \in Seq(Record) /\ Len(l) = Len(f)
        /\ \A k \in 1 .. Len(f) : encodeLog(l[k]) = f[k]
    BY <1>5, <1>6, <2>1, <2>2
  <2> HIDE DEF l, f
  <2>4. [k \in DOMAIN l |-> encodeLog(l[k])] = f
    BY <2>3, MemoryFacts
  <2> QED BY <2>4 DEF l, f
<1> QED BY <1>3, <1>4, <1>5, <1>6, <1>7, <1>8, <1>9

LEMMA StepInv ==
    ASSUME Inv, NEW id \in 0 .. lastIndex(entries) + 1, NEW cmd \in Command, Step(id, cmd)
    PROVE  Inv'
<1> DEFINE e == [id |-> id, cmd |-> cmd, requestId |-> 1]
<1>1. /\ alive /\ saved = 0 /\ Len(entries) < MaxLog /\ entries' = entries \o <<e>>
      /\ UNCHANGED <<logs, file, synced, torn, status, life, commitIndex, stableIndex, lastApplied,
                     saved, queue, job, stage, kv, meta, metaSynced, old, committed>>
  BY DEF Step, append, walVars, jobVars, pageVars, history
<1>2. /\ entries \in Seq(LogEntry) /\ Len(entries) \in Nat /\ MaxLog \in Nat
      /\ commitIndex \in 0 .. Len(entries) /\ stableIndex \in 0 .. Len(entries)
      /\ lastApplied \in 0 .. Len(entries)
  BY RecoveryAssumption DEF Inv, TypeOK, Types
<1>3. id \in Nat /\ id <= Len(entries) + 1
  BY <1>1, <1>2, LastIndexBound DEF Inv, WalInv
<1>4. e \in LogEntry /\ e.id = id
  BY <1>1, <1>2, <1>3 DEF LogEntry
<1> HIDE DEF e
<1>5. /\ entries' \in Seq(LogEntry) /\ Len(entries') = Len(entries) + 1
      /\ entries'[Len(entries) + 1] = e
      /\ \A k \in 1 .. Len(entries) : entries'[k] = entries[k]
  BY <1>1, <1>2, <1>4
<1>6. TypeOK'
  <2>1. /\ {commitIndex, stableIndex, lastApplied} \subseteq 0 .. Len(entries')
        /\ 0 \in 0 .. Len(entries') - stableIndex
    BY <1>2, <1>5
  <2> QED BY <1>1, <2>1 DEF Inv, TypeOK
<1>7. Types'
  <2>1. Len(entries') <= MaxLog
    BY <1>1, <1>2, <1>5
  <2> QED BY <1>1, <1>5, <2>1 DEF Inv, Types
<1>8. MemoryOnFile' /\ LossBounded' /\ FileInv' /\ AppliedInWal' /\ PageInv'
  BY <1>1 DEF Inv, MemoryOnFile, LossBounded, FileInv, AppliedInWal, PageInv, alive
<1>9. WalInv'
  <2>1. /\ lastApplied = commitIndex /\ commitIndex <= stableIndex
        /\ stableIndex + saved <= Len(file)
        /\ \A k \in 1 .. Len(entries) : entries[k].id <= k
        /\ \A k \in 1 .. stableIndex + saved : encodeLog(entries[k]) \in ToSet(file)
        /\ \A k \in 1 .. Len(queue) : Filed(queue[k].entries, stableIndex)
        /\ Filed(job.todo, stableIndex) /\ job.applied <= Len(file)
    BY <1>1 DEF Inv, WalInv
  <2>2. \A k \in 1 .. Len(entries') : entries'[k].id <= k
    <3>1. \A k \in 1 .. Len(entries') : k \in 1 .. Len(entries) \/ k = Len(entries) + 1
      BY <1>2, <1>5
    <3> QED BY <1>3, <1>4, <1>5, <2>1, <3>1
  <2>3. \A k \in 1 .. stableIndex + saved : encodeLog(entries'[k]) \in ToSet(file)
    <3>1. \A k \in 1 .. stableIndex + saved : k \in 1 .. Len(entries)
      BY <1>1, <1>2
    <3> QED BY <1>5, <2>1, <3>1
  <2>4. (\A k \in 1 .. Len(queue) : Filed(queue[k].entries, stableIndex))'
        /\ Filed(job.todo, stableIndex)'
    BY <1>1, <2>1 DEF Filed
  <2>5. saved' = 0 /\ ~(saved' > 0)
    BY <1>1
  <2>6. stableIndex' + saved' = stableIndex + saved
    BY <1>1
  <2>7. /\ lastApplied' = commitIndex' /\ commitIndex' <= stableIndex'
        /\ stableIndex' + saved' <= Len(file') /\ job'.applied <= Len(file')
    BY <1>1, <2>1
  <2>8. \A k \in 1 .. stableIndex' + saved' : encodeLog(entries'[k]) \in ToSet(file')
    BY <1>1, <2>3, <2>6
  <2> QED BY <2>2, <2>4, <2>5, <2>7, <2>8 DEF WalInv
<1>10. Quiet'
  BY <1>1 DEF Quiet, alive
<1>11. FirstLog'
  <2> SUFFICES ASSUME life = 1
               PROVE  \A k \in 1 .. Len(file) : encodeLog(entries'[k]) = file[k]
    BY <1>1 DEF Inv, FirstLog, alive
  <2>1. /\ Len(file) = stableIndex + saved
        /\ \A k \in 1 .. Len(file) : encodeLog(entries[k]) = file[k]
    BY <1>1 DEF Inv, FirstLog
  <2>2. \A k \in 1 .. Len(file) : k \in 1 .. Len(entries)
    BY <1>1, <1>2, <2>1
  <2> QED BY <1>5, <2>1, <2>2
<1>12. FirstPage'
  BY <1>1 DEF Inv, FirstPage, First, Unreplayed
<1> QED BY <1>6, <1>7, <1>8, <1>9, <1>10, <1>11, <1>12 DEF Inv

\* The entry at the next position is saved, whatever its Id.
LEMMA SaveFacts ==
    ASSUME Inv, SaveToWAL
    PROVE  /\ stableIndex + saved + 1 \in 1 .. Len(entries)
           /\ entries[stableIndex + saved + 1] \in LogEntry
           /\ AppendLog(entries[stableIndex + saved + 1])
           /\ saved' \in Nat /\ stableIndex' \in Nat
           /\ stableIndex' + saved' = stableIndex + saved + 1 /\ stableIndex <= stableIndex'
           /\ saved' > 0 => stableIndex' + saved' < lastIndex(entries)
<1> DEFINE new == volatileEntries(entries, stableIndex)
           last == lastIndex(entries)
<1>1. /\ alive /\ saved < Len(new) /\ AppendLog(new[saved + 1])
      /\ \/ saved + 1 < Len(new) /\ saved' = saved + 1 /\ stableIndex' = stableIndex
         \/ /\ saved + 1 = Len(new) /\ saved' = 0
            /\ stableIndex' = markStableTill(entries, stableIndex, last)
  BY DEF SaveToWAL
<1>2. /\ entries \in Seq(LogEntry) /\ Len(entries) \in Nat /\ stableIndex \in 0 .. Len(entries)
      /\ saved \in 0 .. Len(entries) - stableIndex /\ saved \in Nat /\ stableIndex \in Nat
  BY DEF Inv, TypeOK, Types
<1>3. last \in Nat /\ last <= Len(entries)
  BY <1>1, <1>2, LastIndexBound DEF Inv, WalInv
<1>4. new = SubSeq(entries, stableIndex + 1, last)
  BY <1>2, <1>3 DEF volatileEntries, slice, min
<1> HIDE DEF last
<1>5. /\ stableIndex < last /\ Len(new) = last - stableIndex
      /\ new[saved + 1] = entries[stableIndex + saved + 1]
  <2>1. CASE last <= stableIndex
    <3>1. new = << >>
      BY <1>2, <1>3, <1>4, <2>1, SubSeqEmpty
    <3> HIDE DEF new
    <3>2. Len(new) = 0
      BY <3>1
    <3> QED BY <1>1, <1>2, <3>2
  <2>2. CASE stableIndex < last
    <3>1. /\ Len(new) = last - stableIndex
          /\ \A j \in 1 .. last - stableIndex : new[j] = entries[stableIndex + j]
      BY <1>2, <1>3, <1>4, <2>2
    <3> HIDE DEF new
    <3>2. saved + 1 \in 1 .. last - stableIndex /\ stableIndex + (saved + 1) = stableIndex + saved + 1
      BY <1>1, <1>2, <1>3, <3>1
    <3> QED BY <2>2, <3>1, <3>2
  <2> QED BY <1>2, <1>3, <2>1, <2>2
<1> HIDE DEF new
<1>6. stableIndex + saved + 1 \in 1 .. Len(entries)
  BY <1>1, <1>2, <1>3, <1>5
<1>7. entries[stableIndex + saved + 1] \in LogEntry
  BY <1>2, <1>6, ElementOfSeq
<1>8. AppendLog(entries[stableIndex + saved + 1])
  BY <1>1, <1>5
<1>9. CASE saved + 1 < Len(new) /\ saved' = saved + 1 /\ stableIndex' = stableIndex
  <2>1. /\ saved' \in Nat /\ stableIndex' \in Nat /\ stableIndex' + saved' = stableIndex + saved + 1
        /\ stableIndex <= stableIndex' /\ stableIndex' + saved' < last
    BY <1>2, <1>3, <1>5, <1>9
  <2> QED BY <1>6, <1>7, <1>8, <2>1 DEF last
<1>10. CASE /\ saved + 1 = Len(new) /\ saved' = 0
            /\ stableIndex' = markStableTill(entries, stableIndex, last)
  <2>1. stableIndex' = last
    BY <1>3, <1>5, <1>10 DEF markStableTill, last
  <2>2. /\ saved' \in Nat /\ stableIndex' \in Nat /\ stableIndex' + saved' = stableIndex + saved + 1
        /\ stableIndex <= stableIndex' /\ ~(saved' > 0)
    BY <1>2, <1>3, <1>5, <1>10, <2>1
  <2> QED BY <1>6, <1>7, <1>8, <2>2
<1> QED BY <1>1, <1>9, <1>10

LEMMA SaveToWALInv == Inv /\ SaveToWAL => Inv'
<1> SUFFICES ASSUME Inv, SaveToWAL PROVE Inv'
  OBVIOUS
<1> DEFINE p == stableIndex + saved + 1
<1>1. /\ p \in 1 .. Len(entries) /\ entries[p] \in LogEntry /\ AppendLog(entries[p])
      /\ saved' \in Nat /\ stableIndex' \in Nat
      /\ stableIndex' + saved' = p /\ stableIndex <= stableIndex'
      /\ saved' > 0 => stableIndex' + saved' < lastIndex(entries)
  BY SaveFacts
<1>2. /\ alive
      /\ UNCHANGED <<status, life, entries, commitIndex, lastApplied, queue, job, stage, kv, meta,
                     metaSynced, old, committed>>
  BY DEF SaveToWAL, jobVars, pageVars, history
<1>3. /\ file \in Seq(Record) /\ Len(file) \in Nat /\ synced \in 0 .. Len(file) /\ synced \in Nat
      /\ Len(entries) \in Nat /\ stableIndex \in Nat /\ saved \in Nat
      /\ commitIndex \in 0 .. Len(entries) /\ SyncThreshold \in Nat
      /\ meta \in Page /\ metaSynced \in Page /\ job.applied \in Nat
  BY WalAssumption DEF Inv, TypeOK, Types
<1>4. p \in Nat /\ p = stableIndex + saved + 1 /\ p - 1 = stableIndex + saved
  BY <1>3
<1> HIDE DEF p
<1>5. PICK e \in LogEntry : e = entries[p] /\ AppendLog(e)
  BY <1>1
<1>6. /\ file' \in Seq(Record) /\ Len(file') = Len(file) + 1
      /\ \A k \in 1 .. Len(file) : file'[k] = file[k]
      /\ file'[Len(file) + 1] = encodeLog(e)
      /\ ToSet(file) \subseteq ToSet(file') /\ encodeLog(e) \in ToSet(file')
      /\ synced' \in 0 .. Len(file') /\ synced <= synced' /\ torn' = torn
      /\ logs' \in Seq(LogEntry) /\ [k \in DOMAIN logs' |-> encodeLog(logs'[k])] = file'
      /\ Len(file') - synced' <= SyncThreshold
  BY <1>2, <1>5, AppendLogFacts DEF Inv
<1>7. alive'
  BY <1>2 DEF alive
<1>8. /\ lastApplied = commitIndex /\ commitIndex <= stableIndex
      /\ stableIndex + saved <= Len(file)
      /\ \A k \in 1 .. Len(entries) : entries[k].id <= k
      /\ \A k \in 1 .. stableIndex + saved : encodeLog(entries[k]) \in ToSet(file)
      /\ \A k \in 1 .. Len(queue) : Filed(queue[k].entries, stableIndex)
      /\ Filed(job.todo, stableIndex) /\ job.applied <= Len(file)
  BY <1>2 DEF Inv, WalInv
<1>9. \A k \in 1 .. Len(file') : k \in 1 .. Len(file) \/ k = Len(file) + 1
  BY <1>3, <1>6
<1>10. TypeOK'
  <2>1. /\ {commitIndex, stableIndex', lastApplied} \subseteq 0 .. Len(entries)
        /\ saved' \in 0 .. Len(entries) - stableIndex'
    <3>1. \A i, j, n \in Nat : i + j \in 1 .. n => i \in 0 .. n /\ j \in 0 .. n - i
      OBVIOUS
    <3>2. stableIndex' \in Nat /\ saved' \in Nat /\ stableIndex' + saved' \in 1 .. Len(entries)
      BY <1>1
    <3>3. stableIndex' \in 0 .. Len(entries) /\ saved' \in 0 .. Len(entries) - stableIndex'
      BY <1>3, <3>1, <3>2, Zenon
    <3> QED BY <1>3, <1>8, <3>3, Zenon
  <2>2. torn' \in BOOLEAN /\ old \in Nat /\ committed \in Seq(Record)
    BY <1>6 DEF Inv, TypeOK
  <2> QED BY <1>2, <1>6, <2>1, <2>2 DEF Inv, TypeOK
<1>11. Types'
  BY <1>2, <1>6 DEF Inv, Types
<1>12. MemoryOnFile' /\ LossBounded'
  BY <1>6 DEF MemoryOnFile, LossBounded
<1>13. FileInv'
  <2>1. \A k \in 1 .. Len(file) : file[k].id <= k
    BY DEF Inv, FileInv
  <2>2. encodeLog(e).id <= Len(file) + 1
    <3>1. e.id <= p /\ e.id \in Nat
      BY <1>1, <1>5, <1>8 DEF LogEntry
    <3>2. e.id <= Len(file) + 1
      BY <1>3, <1>4, <1>8, <3>1
    <3> QED BY <3>2, EncodeFacts
  <2> QED BY <1>6, <1>9, <2>1, <2>2 DEF FileInv
<1>14. WalInv'
  <2>1. \A k \in 1 .. p : encodeLog(entries[k]) \in ToSet(file')
    <3>1. \A k \in 1 .. p : k \in 1 .. stableIndex + saved \/ k = p
      BY <1>3, <1>4
    <3> QED BY <1>5, <1>6, <1>8, <3>1
  <2>2. p <= Len(file') /\ commitIndex <= stableIndex' /\ job.applied <= Len(file')
    <3>1. stableIndex + saved <= Len(file) /\ job.applied <= Len(file)
      BY <1>8
    <3>2. p <= Len(file') /\ job.applied <= Len(file')
      BY <1>3, <1>4, <1>6, <3>1
    <3>3. commitIndex <= stableIndex'
      BY <1>1, <1>3, <1>8
    <3> QED BY <3>2, <3>3
  <2>3. \A i \in Nat : i <= stableIndex => i <= stableIndex'
    BY <1>1, <1>3
  <2>4. ASSUME NEW s \in Seq(LogEntry), Filed(s, stableIndex)
        PROVE  \A k \in 1 .. Len(s) : encodeLog(s[k]) \in ToSet(file') /\ s[k].id <= stableIndex'
    <3>1. \A k \in 1 .. Len(s) : s[k] \in LogEntry
      BY ElementOfSeq
    <3>2. \A x \in LogEntry : x.id \in Nat
      BY DEF LogEntry
    <3> QED BY <1>6, <2>3, <2>4, <3>1, <3>2, Zenon DEF Filed
  <2>5. Filed(job.todo, stableIndex)'
    <3>1. job.todo \in Seq(LogEntry)
      BY DEF Inv, Types
    <3> QED BY <1>2, <1>8, <2>4, <3>1 DEF Filed
  <2>6. (\A k \in 1 .. Len(queue) : Filed(queue[k].entries, stableIndex))'
    <3>1. \A k \in 1 .. Len(queue) : queue[k] \in Batch
      BY ElementOfSeq DEF Inv, Types
    <3>2. \A b \in Batch : b.entries \in Seq(LogEntry)
      BY DEF Batch
    <3>3. ASSUME NEW k \in 1 .. Len(queue)
          PROVE  \A j \in 1 .. Len(queue[k].entries) :
                     encodeLog(queue[k].entries[j]) \in ToSet(file')
                     /\ queue[k].entries[j].id <= stableIndex'
      <4>1. queue[k].entries \in Seq(LogEntry) /\ Filed(queue[k].entries, stableIndex)
        BY <1>8, <3>1, <3>2
      <4> QED BY <2>4, <4>1, Zenon
    <3> QED BY <1>2, <3>3 DEF Filed
  <2> QED BY <1>1, <1>2, <1>8, <2>1, <2>2, <2>5, <2>6 DEF WalInv
<1>15. AppliedInWal'
  BY <1>2, <1>6 DEF Inv, AppliedInWal
<1>16. PageInv'
  <2>1. meta.applied \in Nat /\ metaSynced.applied \in Nat
    BY <1>3 DEF Page
  <2>2. meta.applied <= synced + SyncThreshold /\ metaSynced.applied <= synced + SyncThreshold
    BY DEF Inv, PageInv
  <2>3. synced' \in Nat /\ synced <= synced'
    BY <1>3, <1>6
  <2>4. \A a, b, c, d \in Nat : a <= b + d /\ b <= c => a <= c + d
    OBVIOUS
  <2> QED BY <1>2, <1>3, <2>1, <2>2, <2>3, <2>4, Zenon DEF PageInv
<1>17. Quiet'
  BY <1>7 DEF Quiet
<1>18. FirstLog'
  <2> SUFFICES ASSUME life = 1
               PROVE  /\ Len(file') = p
                      /\ \A k \in 1 .. Len(file') : encodeLog(entries[k]) = file'[k]
    BY <1>1, <1>2 DEF Inv, FirstLog
  <2>1. /\ Len(file) = stableIndex + saved
        /\ \A k \in 1 .. Len(file) : encodeLog(entries[k]) = file[k]
    BY <1>2 DEF Inv, FirstLog
  <2> QED BY <1>4, <1>5, <1>6, <1>9, <2>1
<1>19. FirstPage'
  <2> SUFFICES ASSUME Unreplayed
               PROVE  /\ First' <= Len(file')
                      /\ \A k \in 1 .. First' : k <= Len(committed) => file'[k] = committed[k]
    BY <1>2 DEF Inv, FirstPage, Unreplayed
  <2>1. /\ First <= Len(file)
        /\ \A k \in 1 .. First : k <= Len(committed) => file[k] = committed[k]
    BY DEF Inv, FirstPage
  <2>2. CASE life = 1
    <3>1. First' = Len(file') /\ First = Len(file)
      BY <1>2, <2>2 DEF First
    <3>2. Len(committed) <= Len(file) /\ Len(committed) \in Nat
      <4>1. Len(committed) = commitIndex
        BY <1>2, <2>2 DEF Inv, FirstLog
      <4> QED BY <1>3, <1>8, <4>1
    <3>3. \A k \in 1 .. Len(file') : k <= Len(committed) => k \in 1 .. Len(file)
      BY <1>3, <1>6, <3>2
    <3>4. Len(file') <= Len(file')
      BY <1>3, <1>6
    <3> QED BY <1>6, <2>1, <3>1, <3>3, <3>4
  <2>3. CASE life # 1
    <3>1. First' = old /\ First = old /\ old \in Nat
      BY <1>2, <2>3 DEF First, Inv, TypeOK
    <3>2. old <= Len(file') /\ \A k \in 1 .. old : k \in 1 .. Len(file)
      BY <1>3, <1>6, <2>1, <3>1
    <3> QED BY <1>6, <2>1, <3>1, <3>2
  <2> QED BY <2>2, <2>3
<1> QED BY <1>10, <1>11, <1>12, <1>13, <1>14, <1>15, <1>16, <1>17, <1>18, <1>19 DEF Inv
-----------------------------------------------------------------------------
(* A step of the database. *)

\* What is handed over is what the WAL holds up to the new commit index.
LEMMA CommitInv ==
    ASSUME Inv, NEW c \in 1 .. lastIndex(entries), Commit(c)
    PROVE  Inv'
<1> DEFINE batch == committedEntries(entries, lastApplied, c)
<1>1. /\ alive /\ c > commitIndex /\ volatileEntries(entries, stableIndex) = << >>
      /\ commitIndex' = maybeCommit(entries, commitIndex, c)
      /\ lastApplied' = markAppliedTill(lastApplied, commitIndex')
      /\ queue' = Append(queue, [entries |-> batch, commit |-> c])
      /\ committed' = IF life = 1
                      THEN committed \o [k \in DOMAIN batch |-> encodeLog(batch[k])]
                      ELSE committed
      /\ UNCHANGED <<walVars, status, life, entries, stableIndex, saved, job, stage, kv, meta,
                     metaSynced, old>>
  BY DEF Commit, jobVars, pageVars
<1>2. /\ entries \in Seq(LogEntry) /\ Len(entries) \in Nat
      /\ commitIndex \in 0 .. Len(entries) /\ stableIndex \in 0 .. Len(entries)
      /\ queue \in Seq(Batch) /\ lastApplied = commitIndex
      /\ lastIndex(entries) \in Nat /\ lastIndex(entries) <= Len(entries)
      /\ saved \in 0 .. Len(entries) - stableIndex
  <2>1. /\ entries \in Seq(LogEntry) /\ queue \in Seq(Batch) /\ lastApplied = commitIndex
        /\ \A k \in 1 .. Len(entries) : entries[k].id <= k
    BY <1>1 DEF Inv, Types, WalInv
  <2>2. lastIndex(entries) \in Nat /\ lastIndex(entries) <= Len(entries)
    BY <2>1, LastIndexBound
  <2> QED BY <2>1, <2>2 DEF Inv, TypeOK
<1>20. lastIndex(entries) <= stableIndex
  <2> DEFINE last == lastIndex(entries)
             new  == SubSeq(entries, stableIndex + 1, last)
  <2>1. volatileEntries(entries, stableIndex) = new
    BY <1>2 DEF volatileEntries, slice, min
  <2>2. last \in Nat /\ last <= Len(entries)
    BY <1>2
  <2> HIDE DEF last
  <2>3. stableIndex < last => Len(new) > 0
    BY <1>2, <2>2
  <2>4. Len(new) = 0
    <3> HIDE DEF new
    <3> QED BY <1>1, <2>1
  <2> HIDE DEF new
  <2> QED BY <1>2, <2>2, <2>3, <2>4 DEF last
<1>3. c \in Nat /\ commitIndex < c /\ c <= stableIndex /\ c <= Len(entries) /\ c <= lastIndex(entries)
  BY <1>1, <1>2, <1>20
<1>4. commitIndex' = c /\ lastApplied' = c
  BY <1>1, <1>2, <1>3 DEF maybeCommit, markAppliedTill, max
<1>5. batch = SubSeq(entries, commitIndex + 1, c)
  BY <1>2, <1>3 DEF committedEntries, slice, min
<1>6. /\ batch \in Seq(LogEntry) /\ Len(batch) = c - commitIndex
      /\ \A j \in 1 .. Len(batch) : batch[j] = entries[commitIndex + j]
  BY <1>2, <1>3, <1>5
<1> HIDE DEF batch
<1>7. PICK b \in Batch : b = [entries |-> batch, commit |-> c]
  BY <1>3, <1>6 DEF Batch
<1>8. b.entries = batch /\ b.commit = c
  BY <1>7
<1>9. /\ queue' \in Seq(Batch) /\ Len(queue') = Len(queue) + 1 /\ Len(queue) \in Nat
      /\ queue'[Len(queue) + 1] = b /\ \A k \in 1 .. Len(queue) : queue'[k] = queue[k]
  <2>1. queue' = Append(queue, b)
    BY <1>1, <1>7
  <2> QED BY <1>2, <2>1
<1>10. \A k \in 1 .. Len(queue') : k \in 1 .. Len(queue) \/ k = Len(queue) + 1
  BY <1>9
<1>11. \A j \in 1 .. Len(batch) : commitIndex + j \in 1 .. stableIndex
                                  /\ commitIndex + j \in 1 .. Len(entries)
  BY <1>2, <1>3, <1>6
<1>12. UNCHANGED <<logs, file, synced, torn, alive>>
  BY <1>1 DEF walVars, alive
<1> DEFINE r == [k \in 1 .. Len(batch) |-> encodeLog(batch[k])]
<1>21. /\ r \in Seq(Record) /\ Len(r) = c - commitIndex /\ committed \in Seq(Record)
       /\ \A j \in 1 .. Len(r) : r[j] = encodeLog(entries[commitIndex + j])
  <2>1. \A k \in 1 .. Len(batch) : encodeLog(batch[k]) \in Record
    <3>1. \A k \in 1 .. Len(batch) : batch[k] \in LogEntry
      BY <1>6, ElementOfSeq
    <3> QED BY <3>1, EncodeFacts
  <2>2. r \in [1 .. Len(batch) -> Record] /\ Len(batch) \in Nat
    BY <1>6, <2>1
  <2>3. \A j \in 1 .. Len(batch) : r[j] = encodeLog(entries[commitIndex + j])
    BY <1>6
  <2> HIDE DEF r
  <2>4. r \in Seq(Record) /\ Len(r) = Len(batch)
    BY <2>2
  <2> QED BY <1>6, <2>3, <2>4 DEF Inv, TypeOK
<1>22. committed' = IF life = 1 THEN committed \o r ELSE committed
  BY <1>1, <1>6
<1> HIDE DEF r
<1>23. /\ committed' \in Seq(Record) /\ (life # 1 => committed' = committed)
       /\ life = 1 =>
             /\ Len(committed') = Len(committed) + (c - commitIndex) /\ Len(committed) \in Nat
             /\ \A k \in 1 .. Len(committed) : committed'[k] = committed[k]
             /\ \A j \in 1 .. c - commitIndex :
                   committed'[Len(committed) + j] = encodeLog(entries[commitIndex + j])
  <2>1. CASE life = 1
    <3>1. committed' = committed \o r
      BY <1>22, <2>1
    <3>2. /\ committed \o r \in Seq(Record) /\ Len(committed \o r) = Len(committed) + Len(r)
          /\ \A k \in 1 .. Len(committed) : (committed \o r)[k] = committed[k]
          /\ \A j \in 1 .. Len(r) : (committed \o r)[Len(committed) + j] = r[j]
          /\ Len(committed) \in Nat
      BY <1>21
    <3> QED BY <1>21, <2>1, <3>1, <3>2
  <2>2. CASE life # 1
    BY <1>21, <1>22, <2>2
  <2> QED BY <2>1, <2>2
<1>13. TypeOK'
  <2>1. {c, stableIndex} \subseteq 0 .. Len(entries)
    BY <1>2, <1>3
  <2> QED BY <1>1, <1>4, <1>12, <1>23, <2>1 DEF Inv, TypeOK
<1>14. Types'
  BY <1>1, <1>9, <1>12 DEF Inv, Types
<1>15. MemoryOnFile' /\ LossBounded' /\ FileInv' /\ AppliedInWal' /\ PageInv'
  BY <1>1, <1>12 DEF Inv, MemoryOnFile, LossBounded, FileInv, AppliedInWal, PageInv
<1>16. WalInv'
  <2>1. /\ saved > 0 => stableIndex + saved < lastIndex(entries)
        /\ stableIndex + saved <= Len(file)
        /\ \A k \in 1 .. Len(entries) : entries[k].id <= k
        /\ \A k \in 1 .. stableIndex + saved : encodeLog(entries[k]) \in ToSet(file)
        /\ \A k \in 1 .. Len(queue) : Filed(queue[k].entries, stableIndex)
        /\ Filed(job.todo, stableIndex) /\ job.applied <= Len(file)
    BY <1>1 DEF Inv, WalInv
  <2>2. Filed(batch, stableIndex)
    <3> SUFFICES ASSUME NEW j \in 1 .. Len(batch)
                 PROVE  encodeLog(batch[j]) \in ToSet(file) /\ batch[j].id <= stableIndex
      BY DEF Filed
    <3>1. PICK i \in 1 .. stableIndex : i \in 1 .. Len(entries) /\ batch[j] = entries[i]
      BY <1>6, <1>11
    <3>2. entries[i] \in LogEntry /\ entries[i].id <= i
      BY <1>2, <2>1, <3>1, ElementOfSeq
    <3>3. entries[i].id <= stableIndex
      BY <1>2, <3>1, <3>2 DEF LogEntry
    <3>4. i \in 1 .. stableIndex + saved
      BY <1>2, <3>1
    <3> QED BY <2>1, <3>1, <3>3, <3>4
  <2>3. \A k \in 1 .. Len(queue') : Filed(queue'[k].entries, stableIndex)
    BY <1>8, <1>9, <1>10, <2>1, <2>2, Zenon
  <2>4. (\A k \in 1 .. Len(queue) : Filed(queue[k].entries, stableIndex))'
    BY <1>1, <1>12, <2>3 DEF Filed
  <2>5. Filed(job.todo, stableIndex)'
    BY <1>1, <1>12, <2>1 DEF Filed
  <2> QED BY <1>1, <1>3, <1>4, <1>12, <2>1, <2>4, <2>5 DEF WalInv
<1>17. Quiet'
  BY <1>1, <1>12 DEF Quiet
<1>18. FirstLog'
  <2> SUFFICES ASSUME life = 1
               PROVE  /\ Len(committed') = c
                      /\ \A k \in 1 .. Len(queue') : queue'[k].commit <= c
                      /\ job.commit <= c
    BY <1>1, <1>4, <1>12 DEF Inv, FirstLog
  <2>1. /\ Len(committed) = commitIndex
        /\ \A k \in 1 .. Len(queue) : queue[k].commit <= commitIndex
        /\ job.commit <= commitIndex
    BY <1>1 DEF Inv, FirstLog
  <2>2. Len(committed') = c
    BY <1>2, <1>3, <1>23, <2>1
  <2>3. job.commit \in Nat /\ \A k \in 1 .. Len(queue) : queue[k].commit \in Nat
    <3>1. \A k \in 1 .. Len(queue) : queue[k] \in Batch
      BY <1>2, ElementOfSeq
    <3>2. \A x \in Batch : x.commit \in Nat
      BY DEF Batch
    <3>3. job.commit \in Nat
      BY DEF Inv, Types
    <3> QED BY <3>1, <3>2, <3>3, Zenon
  <2>4. \A i \in Nat : i <= commitIndex => i <= c
    BY <1>2, <1>3
  <2>5. \A k \in 1 .. Len(queue') : queue'[k].commit <= c
    <3>1. c <= c
      BY <1>3
    <3> QED BY <1>8, <1>9, <1>10, <2>1, <2>3, <2>4, <3>1, Zenon
  <2> QED BY <2>1, <2>2, <2>3, <2>4, <2>5, Zenon
<1>19. FirstPage'
  <2>1. CASE life # 1
    BY <1>1, <1>12, <1>23, <2>1 DEF Inv, FirstPage, First, Unreplayed
  <2>2. CASE life = 1
    <3> SUFFICES /\ meta.commit <= Len(committed') /\ metaSynced.commit <= Len(committed')
                 /\ Len(file) <= Len(file)
                 /\ \A k \in 1 .. Len(file) : k <= Len(committed') => file[k] = committed'[k]
      BY <1>1, <1>12, <2>2 DEF FirstPage, First
    <3>1. /\ meta.commit <= Len(committed) /\ metaSynced.commit <= Len(committed)
          /\ \A k \in 1 .. Len(file) : k <= Len(committed) => file[k] = committed[k]
      BY <2>2 DEF Inv, FirstPage, First, Unreplayed
    <3>2. /\ Len(committed) = commitIndex
          /\ \A k \in 1 .. Len(file) : encodeLog(entries[k]) = file[k]
      BY <1>1, <2>2 DEF Inv, FirstLog
    <3>3. Len(committed') = c
      BY <1>2, <1>3, <1>23, <2>2, <3>2
    <3>4. /\ meta.commit \in Nat /\ metaSynced.commit \in Nat /\ Len(file) \in Nat
      BY DEF Inv, TypeOK, Types, Page
    <3>5. ASSUME NEW k \in 1 .. Len(file), k <= c PROVE file[k] = committed'[k]
      <4>1. CASE k <= commitIndex
        <5>1. k \in 1 .. Len(committed)
          BY <1>2, <3>2, <4>1
        <5> QED BY <1>23, <2>2, <3>1, <5>1
      <4>2. CASE commitIndex < k
        <5>1. PICK j \in 1 .. c - commitIndex : commitIndex + j = k
          <6>1. k - commitIndex \in 1 .. c - commitIndex /\ commitIndex + (k - commitIndex) = k
            BY <1>2, <1>3, <3>5, <4>2
          <6> QED BY <6>1
        <5> QED BY <1>23, <2>2, <3>2, <5>1
      <4> QED BY <1>2, <4>1, <4>2
    <3>6. meta.commit <= c /\ metaSynced.commit <= c /\ Len(file) <= Len(file)
      BY <1>2, <1>3, <3>1, <3>2, <3>4
    <3> QED BY <3>3, <3>5, <3>6
  <2> QED BY <2>1, <2>2
<1> QED BY <1>13, <1>14, <1>15, <1>16, <1>17, <1>18, <1>19 DEF Inv

\* The applier and the replay leave the log and the WAL alone: what is left is
\* what they do to the queue, the job, the tree and the page.
LEMMA JobStep ==
    ASSUME Inv, alive, alive', UNCHANGED <<walVars, life, logVars, history>>,
           stage' \in {"idle", "entries", "applied"}, Types', AppliedInWal', PageInv',
           (\A k \in 1 .. Len(queue) : Filed(queue[k].entries, stableIndex))',
           Filed(job.todo, stableIndex)', job'.applied <= Len(file),
           life = 1 =>
               /\ \A k \in 1 .. Len(queue') : queue'[k].commit <= commitIndex
               /\ job'.commit <= commitIndex /\ meta'.commit <= commitIndex
               /\ metaSynced'.commit <= commitIndex,
           Unreplayed' => life = 1
    PROVE  Inv'
<1>1. UNCHANGED <<logs, file, synced, torn, life, entries, commitIndex, stableIndex, lastApplied,
                  saved, old, committed>>
  BY DEF walVars, logVars, history
<1>2. TypeOK'
  BY <1>1 DEF Inv, TypeOK, alive
<1>3. MemoryOnFile' /\ LossBounded' /\ FileInv'
  BY <1>1 DEF Inv, MemoryOnFile, LossBounded, FileInv
<1>4. WalInv'
  BY <1>1 DEF Inv, WalInv
<1>5. Quiet'
  BY DEF Quiet
<1>6. FirstLog'
  BY <1>1 DEF Inv, FirstLog
<1>7. FirstPage'
  <2> SUFFICES ASSUME life = 1
               PROVE  /\ meta'.commit <= Len(committed) /\ metaSynced'.commit <= Len(committed)
                      /\ Len(file) <= Len(file)
                      /\ \A k \in 1 .. Len(file) : k <= Len(committed) => file[k] = committed[k]
    BY <1>1 DEF FirstPage, First
  <2>1. /\ Len(file) <= Len(file)
        /\ \A k \in 1 .. Len(file) : k <= Len(committed) => file[k] = committed[k]
    BY DEF Inv, FirstPage, First, Unreplayed
  <2>2. Len(committed) = commitIndex
    BY DEF Inv, FirstLog
  <2> QED BY <2>1, <2>2
<1> QED BY <1>2, <1>3, <1>4, <1>5, <1>6, <1>7 DEF Inv

LEMMA FirstPageFacts ==
    ASSUME Inv, alive, life = 1
    PROVE  /\ \A k \in 1 .. Len(queue) : queue[k].commit <= commitIndex
           /\ job.commit <= commitIndex /\ meta.commit <= commitIndex
           /\ metaSynced.commit <= commitIndex
BY DEF Inv, FirstLog, FirstPage, Unreplayed

LEMMA NextTaskInv == Inv /\ NextTask => Inv'
<1> SUFFICES ASSUME Inv, NextTask PROVE Inv'
  OBVIOUS
<1>1. /\ status = "running" /\ stage = "idle" /\ queue # << >>
      /\ job' = [todo |-> Head(queue).entries, applied |-> 0, commit |-> Head(queue).commit]
      /\ stage' = "entries" /\ queue' = Tail(queue)
      /\ UNCHANGED <<walVars, status, life, logVars, kv, pageVars, history>>
  BY DEF NextTask
<1>2. alive /\ alive' /\ (Unreplayed' => life = 1)
  BY <1>1 DEF alive, Unreplayed
<1>3. UNCHANGED <<logs, file, synced, entries, stableIndex, commitIndex, meta, metaSynced>>
  BY <1>1 DEF walVars, logVars, pageVars
<1>4. queue \in Seq(Batch) /\ Len(queue) \in Nat
  BY DEF Inv, Types
<1>5. /\ Head(queue) \in Batch /\ Head(queue) = queue[1] /\ 1 \in 1 .. Len(queue)
      /\ queue' \in Seq(Batch) /\ Len(queue') = Len(queue) - 1
      /\ \A k \in 1 .. Len(queue') : queue'[k] = queue[k + 1] /\ k + 1 \in 1 .. Len(queue)
  BY <1>1, <1>4
<1>6. PICK b \in Batch : b = Head(queue)
  BY <1>5
<1>7. b.entries \in Seq(LogEntry) /\ b.commit \in Nat
  BY DEF Batch
<1>8. /\ job' \in [todo : Seq(LogEntry), applied : Nat, commit : Nat]
      /\ job'.todo = b.entries /\ job'.applied = 0 /\ job'.commit = b.commit
  BY <1>1, <1>6, <1>7
<1>9. Types'
  BY <1>1, <1>3, <1>5, <1>8 DEF Inv, Types
<1>10. AppliedInWal' /\ PageInv'
  BY <1>1, <1>3 DEF Inv, AppliedInWal, PageInv
<1>11. \A k \in 1 .. Len(queue) : Filed(queue[k].entries, stableIndex)
  BY <1>2 DEF Inv, WalInv
<1>12. (\A k \in 1 .. Len(queue) : Filed(queue[k].entries, stableIndex))'
  <2>1. \A k \in 1 .. Len(queue') : Filed(queue'[k].entries, stableIndex)
    BY <1>5, <1>11, Zenon
  <2> QED BY <1>3, <2>1 DEF Filed
<1>13. Filed(job.todo, stableIndex)'
  <2>1. Filed(b.entries, stableIndex)
    BY <1>5, <1>6, <1>11
  <2> QED BY <1>3, <1>8, <2>1 DEF Filed
<1>14. job'.applied <= Len(file)
  <2>1. Len(file) \in Nat
    BY DEF Inv, TypeOK
  <2> QED BY <1>8, <2>1
<1>15. ASSUME life = 1
       PROVE  /\ \A k \in 1 .. Len(queue') : queue'[k].commit <= commitIndex
              /\ job'.commit <= commitIndex /\ meta'.commit <= commitIndex
              /\ metaSynced'.commit <= commitIndex
  <2>1. /\ \A k \in 1 .. Len(queue) : queue[k].commit <= commitIndex
        /\ meta.commit <= commitIndex /\ metaSynced.commit <= commitIndex
    BY <1>2, <1>15, FirstPageFacts
  <2>2. job'.commit <= commitIndex
    BY <1>5, <1>6, <1>8, <2>1
  <2> QED BY <1>3, <1>5, <2>1, <2>2, Zenon
<1> QED BY <1>1, <1>2, <1>9, <1>10, <1>12, <1>13, <1>14, <1>15, JobStep

LEMMA ApplyEntryInv == Inv /\ ApplyEntry => Inv'
<1> SUFFICES ASSUME Inv, ApplyEntry PROVE Inv'
  OBVIOUS
<1>1. /\ alive /\ stage = "entries" /\ job.todo # << >>
      /\ kv' = Append(kv, Head(job.todo))
      /\ job' = [job EXCEPT !.todo = Tail(@), !.applied = Head(job.todo).id]
      /\ UNCHANGED <<walVars, status, life, logVars, queue, stage, pageVars, history>>
  BY DEF ApplyEntry
<1>2. alive /\ alive' /\ (Unreplayed' => life = 1)
  BY <1>1 DEF alive, Unreplayed
<1>3. UNCHANGED <<logs, file, synced, entries, stableIndex, commitIndex, meta, metaSynced>>
  BY <1>1 DEF walVars, logVars, pageVars
<1>4. PICK t \in Seq(LogEntry), a \in Nat, c \in Nat : job = [todo |-> t, applied |-> a, commit |-> c]
  BY DEF Inv, Types
<1>5. job.todo = t /\ job.commit = c
  BY <1>4
<1>6. /\ t # << >> /\ Head(t) \in LogEntry /\ Head(t) = t[1] /\ 1 \in 1 .. Len(t)
      /\ Tail(t) \in Seq(LogEntry) /\ Len(Tail(t)) = Len(t) - 1 /\ Len(t) \in Nat
      /\ \A k \in 1 .. Len(Tail(t)) : Tail(t)[k] = t[k + 1] /\ k + 1 \in 1 .. Len(t)
  BY <1>1, <1>5
<1>7. PICK e \in LogEntry : e = Head(t)
  BY <1>6
<1>8. e.id \in Nat
  BY DEF LogEntry
<1>9. /\ job' = [todo |-> Tail(t), applied |-> e.id, commit |-> c]
  BY <1>1, <1>4, <1>5, <1>7
<1>10. /\ job' \in [todo : Seq(LogEntry), applied : Nat, commit : Nat]
       /\ job'.todo = Tail(t) /\ job'.applied = e.id /\ job'.commit = c
  BY <1>6, <1>8, <1>9
<1>11. /\ kv \in Seq(LogEntry) /\ kv' \in Seq(LogEntry) /\ Len(kv') = Len(kv) + 1 /\ Len(kv) \in Nat
       /\ kv'[Len(kv) + 1] = e /\ \A k \in 1 .. Len(kv) : kv'[k] = kv[k]
  <2>1. kv \in Seq(LogEntry) /\ kv' = Append(kv, e)
    BY <1>1, <1>5, <1>7 DEF Inv, Types
  <2> QED BY <2>1
<1>12. Types'
  BY <1>1, <1>3, <1>10, <1>11 DEF Inv, Types
<1>13. /\ \A k \in 1 .. Len(t) : encodeLog(t[k]) \in ToSet(file) /\ t[k].id <= stableIndex
       /\ stableIndex <= Len(file)
  <2>1. Filed(t, stableIndex) /\ stableIndex + saved <= Len(file)
    BY <1>2, <1>5 DEF Inv, WalInv
  <2>2. saved \in Nat /\ stableIndex \in Nat /\ Len(file) \in Nat
    BY DEF Inv, TypeOK
  <2>3. stableIndex <= Len(file)
    BY <2>1, <2>2
  <2> QED BY <2>1, <2>3 DEF Filed
<1>14. encodeLog(e) \in ToSet(file) /\ e.id <= stableIndex
  BY <1>6, <1>7, <1>13
<1>15. AppliedInWal'
  <2>1. {encodeLog(kv[k]) : k \in DOMAIN kv} \subseteq ToSet(file)
    BY DEF Inv, AppliedInWal
  <2>2. ASSUME NEW k \in DOMAIN kv' PROVE encodeLog(kv'[k]) \in ToSet(file)
    <3>1. (k \in DOMAIN kv /\ kv'[k] = kv[k]) \/ kv'[k] = e
      BY <1>11
    <3> QED BY <1>14, <2>1, <3>1
  <2> QED BY <1>3, <2>2 DEF AppliedInWal
<1>16. PageInv'
  BY <1>1, <1>3 DEF Inv, PageInv
<1>17. (\A k \in 1 .. Len(queue) : Filed(queue[k].entries, stableIndex))'
  <2>1. \A k \in 1 .. Len(queue) : Filed(queue[k].entries, stableIndex)
    BY <1>2 DEF Inv, WalInv
  <2> QED BY <1>1, <1>3, <2>1 DEF Filed
<1>18. Filed(job.todo, stableIndex)'
  <2>1. \A k \in 1 .. Len(Tail(t)) :
            encodeLog(Tail(t)[k]) \in ToSet(file) /\ Tail(t)[k].id <= stableIndex
    BY <1>6, <1>13, Zenon
  <2> QED BY <1>3, <1>10, <2>1 DEF Filed
<1>19. job'.applied <= Len(file)
  <2>1. Len(file) \in Nat /\ stableIndex \in Nat
    BY DEF Inv, TypeOK
  <2> QED BY <1>8, <1>10, <1>13, <1>14, <2>1
<1>20. ASSUME life = 1
       PROVE  /\ \A k \in 1 .. Len(queue') : queue'[k].commit <= commitIndex
              /\ job'.commit <= commitIndex /\ meta'.commit <= commitIndex
              /\ metaSynced'.commit <= commitIndex
  BY <1>1, <1>2, <1>3, <1>5, <1>10, <1>20, FirstPageFacts
<1>21. stage' \in {"idle", "entries", "applied"}
  BY <1>1
<1> QED BY <1>1, <1>2, <1>12, <1>15, <1>16, <1>17, <1>18, <1>19, <1>20, <1>21, JobStep

LEMMA MetaCommitInv == Inv /\ MetaCommit => Inv'
<1> SUFFICES ASSUME Inv, MetaCommit PROVE Inv'
  OBVIOUS
<1>1. /\ alive /\ stage = "entries" /\ job.todo = << >>
      /\ meta' = [meta EXCEPT !.commit = job.commit] /\ stage' = "applied"
      /\ UNCHANGED <<walVars, status, life, logVars, queue, job, kv, metaSynced, history>>
  BY DEF MetaCommit
<1>2. alive /\ alive' /\ (Unreplayed' => life = 1) /\ stage' \in {"idle", "entries", "applied"}
  BY <1>1 DEF alive, Unreplayed
<1>3. UNCHANGED <<logs, file, synced, entries, stableIndex, commitIndex>>
  BY <1>1 DEF walVars, logVars
<1>4. meta \in Page /\ job.commit \in Nat
  BY DEF Inv, Types
<1>5. meta' \in Page /\ meta'.commit = job.commit /\ meta'.applied = meta.applied
  BY <1>1, <1>4 DEF Page
<1>6. Types'
  BY <1>1, <1>3, <1>5 DEF Inv, Types
<1>7. AppliedInWal' /\ PageInv'
  BY <1>1, <1>3, <1>5 DEF Inv, AppliedInWal, PageInv
<1>8. (\A k \in 1 .. Len(queue) : Filed(queue[k].entries, stableIndex))'
      /\ Filed(job.todo, stableIndex)' /\ job'.applied <= Len(file)
  <2>1. /\ \A k \in 1 .. Len(queue) : Filed(queue[k].entries, stableIndex)
        /\ Filed(job.todo, stableIndex) /\ job.applied <= Len(file)
    BY <1>2 DEF Inv, WalInv
  <2> QED BY <1>1, <1>3, <2>1 DEF Filed
<1>9. ASSUME life = 1
      PROVE  /\ \A k \in 1 .. Len(queue') : queue'[k].commit <= commitIndex
             /\ job'.commit <= commitIndex /\ meta'.commit <= commitIndex
             /\ metaSynced'.commit <= commitIndex
  BY <1>1, <1>5, <1>9, FirstPageFacts
<1> QED BY <1>1, <1>2, <1>6, <1>7, <1>8, <1>9, JobStep

\* The applied index is that of an entry in the WAL, of which the threshold
\* bounds what is not on disk.
LEMMA MetaAppliedInv == Inv /\ MetaApplied => Inv'
<1> SUFFICES ASSUME Inv, MetaApplied PROVE Inv'
  OBVIOUS
<1>1. /\ alive /\ stage = "applied"
      /\ meta' = [meta EXCEPT !.applied = job.applied] /\ metaSynced' = meta'
      /\ job' = Idle /\ stage' = "idle" /\ status' = "running"
      /\ UNCHANGED <<walVars, life, logVars, queue, kv, history>>
  BY DEF MetaApplied
<1>2. alive /\ alive' /\ (Unreplayed' => life = 1) /\ stage' \in {"idle", "entries", "applied"}
  BY <1>1 DEF alive, Unreplayed
<1>3. UNCHANGED <<logs, file, synced, entries, stableIndex, commitIndex>>
  BY <1>1 DEF walVars, logVars
<1>4. meta \in Page /\ job.applied \in Nat
  BY DEF Inv, Types
<1>5. meta' \in Page /\ meta'.commit = meta.commit /\ meta'.applied = job.applied
  BY <1>1, <1>4 DEF Page
<1>6. /\ job' \in [todo : Seq(LogEntry), applied : Nat, commit : Nat]
      /\ job'.todo = << >> /\ job'.applied = 0 /\ job'.commit = 0
  BY <1>1 DEF Idle
<1>7. Types'
  BY <1>1, <1>3, <1>5, <1>6 DEF Inv, Types
<1>8. AppliedInWal'
  BY <1>1, <1>3 DEF Inv, AppliedInWal
<1>9. /\ Len(file) \in Nat /\ synced \in Nat /\ SyncThreshold \in Nat
      /\ Len(file) - synced <= SyncThreshold /\ job.applied <= Len(file) /\ commitIndex \in Nat
  BY <1>1, WalAssumption DEF Inv, TypeOK, LossBounded, WalInv
<1>10. PageInv'
  <2>1. job.applied <= synced + SyncThreshold
    BY <1>4, <1>9
  <2> QED BY <1>1, <1>3, <1>5, <2>1 DEF PageInv
<1>11. (\A k \in 1 .. Len(queue) : Filed(queue[k].entries, stableIndex))'
  <2>1. \A k \in 1 .. Len(queue) : Filed(queue[k].entries, stableIndex)
    BY <1>2 DEF Inv, WalInv
  <2> QED BY <1>1, <1>3, <2>1 DEF Filed
<1>12. Filed(job.todo, stableIndex)' /\ job'.applied <= Len(file)
  BY <1>6, <1>9 DEF Filed
<1>13. ASSUME life = 1
       PROVE  /\ \A k \in 1 .. Len(queue') : queue'[k].commit <= commitIndex
              /\ job'.commit <= commitIndex /\ meta'.commit <= commitIndex
              /\ metaSynced'.commit <= commitIndex
  BY <1>1, <1>5, <1>6, <1>9, <1>13, FirstPageFacts
<1> QED BY <1>1, <1>2, <1>7, <1>8, <1>10, <1>11, <1>12, <1>13, JobStep

\* What is replayed is read from the WAL.
LEMMA ReplayWALInv == Inv /\ ReplayWAL => Inv'
<1> SUFFICES ASSUME Inv, ReplayWAL PROVE Inv'
  OBVIOUS
<1>1. /\ status = "replay" /\ stage = "idle" /\ kv' = entriesToReplay
      /\ UNCHANGED <<walVars, life, logVars, queue, pageVars, history>>
  BY DEF ReplayWAL
<1>2. \/ entriesToReplay = << >> /\ status' = "running" /\ UNCHANGED <<job, stage>>
      \/ /\ entriesToReplay # << >>
         /\ job' = [todo    |-> << >>,
                    applied |-> meta.applied + Len(entriesToReplay), commit |-> meta.commit]
         /\ stage' = "entries" /\ UNCHANGED status
  BY DEF ReplayWAL
<1>3. alive /\ alive' /\ (Unreplayed' => life = 1) /\ stage' \in {"idle", "entries", "applied"}
  BY <1>1, <1>2 DEF alive, Unreplayed
<1>4. UNCHANGED <<logs, file, synced, entries, stableIndex, commitIndex, meta, metaSynced>>
  BY <1>1 DEF walVars, logVars, pageVars
<1>5. /\ logs \in Seq(LogEntry) /\ file \in Seq(Record) /\ meta \in Page /\ Len(file) \in Nat
      /\ meta.applied \in Nat /\ meta.commit \in Nat
      /\ Len(logs) = Len(file) /\ \A k \in 1 .. Len(file) : encodeLog(logs[k]) = file[k]
  <2>1. /\ logs \in Seq(LogEntry) /\ file \in Seq(Record) /\ meta \in Page
        /\ [k \in DOMAIN logs |-> encodeLog(logs[k])] = file
    BY <1>3 DEF Inv, TypeOK, Types, MemoryOnFile
  <2> QED BY <2>1, MemoryFacts DEF Page
<1>6. PICK n \in Nat :
         /\ entriesToReplay \in Seq(LogEntry) /\ Len(entriesToReplay) = n
         /\ \A j \in 1 .. n : /\ meta.applied + j \in 1 .. Len(logs)
                              /\ entriesToReplay[j] = logs[meta.applied + j]
  BY <1>5, ReplayFacts
<1>7. job \in [todo : Seq(LogEntry), applied : Nat, commit : Nat]
  BY DEF Inv, Types
<1>8. /\ job' \in [todo : Seq(LogEntry), applied : Nat, commit : Nat]
      /\ job' = job \/ (job'.todo = << >> /\ job'.commit = meta.commit)
      /\ job' = job \/ (n > 0 /\ job'.applied = meta.applied + n)
  <2>1. CASE job' = job
    BY <1>7, <2>1
  <2>2. CASE /\ entriesToReplay # << >>
             /\ job' = [todo    |-> << >>,
                        applied |-> meta.applied + Len(entriesToReplay), commit |-> meta.commit]
    <3>1. n > 0
      BY <1>6, <2>2, EmptySeq
    <3>2. job' = [todo |-> << >>, applied |-> meta.applied + n, commit |-> meta.commit]
      BY <1>6, <2>2
    <3>3. meta.applied + n \in Nat
      BY <1>5
    <3> QED BY <1>5, <3>1, <3>2, <3>3
  <2> QED BY <1>2, <2>1, <2>2
<1>9. Types'
  BY <1>1, <1>4, <1>6, <1>8 DEF Inv, Types
<1>10. AppliedInWal'
  <2>1. ASSUME NEW j \in DOMAIN entriesToReplay
        PROVE  encodeLog(entriesToReplay[j]) \in ToSet(file)
    <3>1. j \in 1 .. n
      BY <1>6
    <3>2. PICK i \in 1 .. Len(file) : entriesToReplay[j] = logs[i]
      BY <1>5, <1>6, <3>1
    <3>3. encodeLog(entriesToReplay[j]) = file[i] /\ i \in DOMAIN file
      BY <1>5, <3>2
    <3> QED BY <3>3 DEF ToSet
  <2>2. AppliedInWal' <=> {encodeLog(kv'[k]) : k \in DOMAIN kv'} \subseteq ToSet(file)
    BY <1>4 DEF AppliedInWal
  <2> QED BY <1>1, <2>1, <2>2
<1>11. PageInv'
  BY <1>1, <1>4 DEF Inv, PageInv
<1>12. /\ \A k \in 1 .. Len(queue) : Filed(queue[k].entries, stableIndex)
       /\ Filed(job.todo, stableIndex) /\ job.applied <= Len(file)
  BY <1>3 DEF Inv, WalInv
<1>13. (\A k \in 1 .. Len(queue) : Filed(queue[k].entries, stableIndex))'
  BY <1>1, <1>4, <1>12 DEF Filed
<1>14. Filed(job.todo, stableIndex)'
  <2>1. CASE job' = job
    BY <1>4, <1>12, <2>1 DEF Filed
  <2>2. CASE job'.todo = << >>
    BY <2>2 DEF Filed
  <2> QED BY <1>8, <2>1, <2>2
<1>15. job'.applied <= Len(file)
  <2>1. CASE n > 0 /\ job'.applied = meta.applied + n
    <3>1. n \in 1 .. n
      BY <2>1
    <3> QED BY <1>5, <1>6, <2>1, <3>1
  <2> QED BY <1>8, <1>12, <2>1
<1>16. ASSUME life = 1
       PROVE  /\ \A k \in 1 .. Len(queue') : queue'[k].commit <= commitIndex
              /\ job'.commit <= commitIndex /\ meta'.commit <= commitIndex
              /\ metaSynced'.commit <= commitIndex
  <2>1. /\ \A k \in 1 .. Len(queue) : queue[k].commit <= commitIndex
        /\ job.commit <= commitIndex /\ meta.commit <= commitIndex
        /\ metaSynced.commit <= commitIndex
    BY <1>3, <1>16, FirstPageFacts
  <2> QED BY <1>1, <1>4, <1>8, <2>1
<1> QED BY <1>1, <1>3, <1>9, <1>10, <1>11, <1>13, <1>14, <1>15, <1>16, JobStep
-----------------------------------------------------------------------------
(* Crash and start. *)

LEMMA CrashInv == Inv /\ Crash => Inv'
<1> SUFFICES ASSUME Inv, Crash PROVE Inv'
  OBVIOUS
<1>1. /\ alive /\ logs' = << >> /\ torn' \in BOOLEAN
      /\ status' = "down" /\ entries' = << >> /\ commitIndex' = 0 /\ stableIndex' = 0
      /\ lastApplied' = 0 /\ saved' = 0 /\ queue' = << >> /\ job' = Idle /\ stage' = "idle"
      /\ kv' = << >> /\ UNCHANGED <<life, old, committed>>
  BY DEF Crash, StopProcess, LoseUnsynced, newRaftLog, history
<1>3. /\ file \in Seq(Record) /\ Len(file) \in Nat /\ synced \in 0 .. Len(file) /\ synced \in Nat
      /\ SyncThreshold \in Nat /\ MaxLog \in Nat /\ meta \in Page /\ metaSynced \in Page
      /\ Len(file) - synced <= SyncThreshold
  BY WalAssumption, RecoveryAssumption DEF Inv, TypeOK, Types, LossBounded
\* What the two kinds of crash leave of the file and of the page.
<1>5. /\ file' \in Seq(Record) /\ Len(file') \in Nat /\ Len(file') <= Len(file)
      /\ \A j \in 1 .. Len(file') : file'[j] = file[j]
      /\ synced' \in 0 .. Len(file') /\ synced <= synced' /\ Len(file') - synced' <= SyncThreshold
      /\ meta' \in {meta, metaSynced} /\ metaSynced' \in {meta, metaSynced}
  <2>1. CASE StopProcess /\ UNCHANGED pageVars
    BY <1>3, <2>1 DEF StopProcess, pageVars
  <2>2. CASE LoseUnsynced /\ meta' \in {meta, metaSynced} /\ metaSynced' = meta'
    <3>1. PICK k \in synced .. Len(file) : file' = SubSeq(file, 1, k) /\ synced' = k
      BY <2>2 DEF LoseUnsynced
    <3>2. k \in Nat /\ synced <= k /\ k \in 0 .. Len(file)
      BY <1>3
    <3>3. file' \in Seq(Record) /\ Len(file') = k /\ \A j \in 1 .. k : file'[j] = file[j]
      BY <1>3, <3>1, <3>2, PrefixFacts
    <3> QED BY <1>3, <2>2, <3>1, <3>2, <3>3
  <2> QED BY <2>1, <2>2 DEF Crash
<1>6. ~alive'
  BY <1>1 DEF alive
<1>7. TypeOK'
  <2>1. {commitIndex', stableIndex', lastApplied'} \subseteq 0 .. Len(entries')
        /\ saved' \in 0 .. Len(entries') - stableIndex'
    BY <1>1
  <2> QED BY <1>1, <1>5, <2>1 DEF Inv, TypeOK
<1>8. Types'
  <2>1. << >> \in Seq(LogEntry) /\ << >> \in Seq(Batch) /\ Len(<< >>) <= MaxLog
    BY <1>3
  <2>2. Idle \in [todo : Seq(LogEntry), applied : Nat, commit : Nat]
    BY DEF Idle
  <2>3. meta' \in Page /\ metaSynced' \in Page
    BY <1>3, <1>5
  <2> QED BY <1>1, <2>1, <2>2, <2>3, Zenon DEF Types
<1>9. MemoryOnFile' /\ WalInv' /\ FirstLog'
  BY <1>6 DEF MemoryOnFile, WalInv, FirstLog
<1>10. LossBounded' /\ FileInv'
  <2>1. \A k \in 1 .. Len(file') : k \in 1 .. Len(file)
    BY <1>3, <1>5
  <2> QED BY <1>5, <2>1 DEF Inv, LossBounded, FileInv
<1>11. AppliedInWal'
  BY <1>1 DEF AppliedInWal
<1>12. PageInv'
  <2>1. meta.applied <= synced + SyncThreshold /\ metaSynced.applied <= synced + SyncThreshold
    BY DEF Inv, PageInv
  <2>2. meta.applied \in Nat /\ metaSynced.applied \in Nat /\ synced' \in Nat
    BY <1>3, <1>5 DEF Page
  <2>3. \A a, b, c, d \in Nat : a <= b + d /\ b <= c => a <= c + d
    OBVIOUS
  <2>4. meta.applied <= synced' + SyncThreshold /\ metaSynced.applied <= synced' + SyncThreshold
    BY <1>3, <1>5, <2>1, <2>2, <2>3, Zenon
  <2> QED BY <1>5, <2>4 DEF PageInv
<1>13. Quiet'
  BY <1>1 DEF Quiet
<1>14. FirstPage'
  <2> SUFFICES ASSUME life = 1
               PROVE  /\ meta'.commit <= Len(committed) /\ metaSynced'.commit <= Len(committed)
                      /\ Len(file') <= Len(file')
                      /\ \A k \in 1 .. Len(file') : k <= Len(committed) => file'[k] = committed[k]
    BY <1>1 DEF FirstPage, First, Unreplayed
  <2>1. /\ meta.commit <= Len(committed) /\ metaSynced.commit <= Len(committed)
        /\ \A k \in 1 .. Len(file) : k <= Len(committed) => file[k] = committed[k]
    BY DEF Inv, FirstPage, First, Unreplayed
  <2>2. \A k \in 1 .. Len(file') : k \in 1 .. Len(file)
    BY <1>3, <1>5
  <2>3. Len(file') <= Len(file')
    BY <1>5
  <2> QED BY <1>5, <2>1, <2>2, <2>3
<1> QED BY <1>7, <1>8, <1>9, <1>10, <1>11, <1>12, <1>13, <1>14 DEF Inv

LEMMA NewRaftNodeInv == Inv /\ NewRaftNode => Inv'
<1> SUFFICES ASSUME Inv, NewRaftNode PROVE Inv'
  OBVIOUS
<1>1. /\ status = "down" /\ life < MaxLives /\ life' = life + 1 /\ old' = Len(file)
      /\ UNCHANGED <<file, synced, torn, entries, commitIndex, stableIndex, lastApplied, saved,
                     queue, job, stage, kv, meta, metaSynced, committed>>
      /\ \/ logs' = decodeLogs(file) /\ status' = "replay"
         \/ logs' = logs /\ status' = "panicked"
  BY DEF NewRaftNode, readWAL, walVars, logVars, jobVars, pageVars
<1>2. /\ entries = << >> /\ commitIndex = 0 /\ stableIndex = 0 /\ lastApplied = 0 /\ saved = 0
      /\ queue = << >> /\ job = Idle /\ stage = "idle" /\ kv = << >>
  BY <1>1 DEF Inv, Quiet, alive
<1>3. /\ file \in Seq(Record) /\ Len(file) \in Nat /\ logs \in Seq(LogEntry)
      /\ life \in 1 .. MaxLives /\ MaxLives \in Nat
  BY RecoveryAssumption DEF Inv, TypeOK, Types
<1>4. life' \in 1 .. MaxLives /\ life' # 1 /\ (life' = 2 => life = 1)
  BY <1>1, <1>3
<1>5. logs' \in Seq(LogEntry) /\ (alive' => [k \in DOMAIN logs |-> encodeLog(logs[k])]' = file)
  <2> DEFINE d == decodeLogs(file)
  <2>1. /\ d \in Seq(LogEntry) /\ Len(d) = Len(file)
        /\ \A k \in 1 .. Len(file) : encodeLog(d[k]) = file[k]
    <3>1. ASSUME NEW k \in 1 .. Len(file)
          PROVE  /\ [id |-> file[k].id, cmd |-> file[k].cmd, requestId |-> 0] \in LogEntry
                 /\ [id |-> file[k].id, cmd |-> file[k].cmd] = file[k]
      <4>1. file[k] \in Record
        BY <1>3, ElementOfSeq
      <4> QED BY <4>1 DEF Record, LogEntry
    <3>2. d = [k \in 1 .. Len(file) |->
                  [id |-> file[k].id, cmd |-> file[k].cmd, requestId |-> 0]]
      BY DEF decodeLogs
    <3> HIDE DEF d
    <3>3. d \in [1 .. Len(file) -> LogEntry]
      BY <3>1, <3>2
    <3>4. d \in Seq(LogEntry) /\ Len(d) = Len(file)
      BY <1>3, <3>3
    <3>5. ASSUME NEW k \in 1 .. Len(file) PROVE encodeLog(d[k]) = file[k]
      <4>1. d[k] = [id |-> file[k].id, cmd |-> file[k].cmd, requestId |-> 0]
        BY <3>2
      <4> QED BY <3>1, <4>1 DEF encodeLog
    <3> QED BY <3>4, <3>5
  <2> HIDE DEF d
  <2>2. [k \in DOMAIN d |-> encodeLog(d[k])] = file
    BY <1>3, <2>1, MemoryFacts
  <2>3. CASE logs' = d
    BY <2>1, <2>2, <2>3
  <2>4. CASE logs' = logs /\ status' = "panicked"
    BY <1>3, <2>4 DEF alive
  <2> QED BY <1>1, <2>3, <2>4 DEF d
<1>6. TypeOK'
  BY <1>1, <1>3, <1>4 DEF Inv, TypeOK
<1>7. Types'
  BY <1>1, <1>5 DEF Inv, Types
<1>8. MemoryOnFile' /\ LossBounded' /\ FileInv' /\ AppliedInWal' /\ PageInv'
  BY <1>1, <1>5 DEF Inv, MemoryOnFile, LossBounded, FileInv, AppliedInWal, PageInv
<1>9. WalInv'
  <2>1. Idle.todo = << >> /\ Idle.applied = 0
    BY DEF Idle
  <2>2. lastIndex(<< >>) = 0 /\ Len(<< >>) = 0
    BY DEF lastIndex
  <2>3. entries' = << >> /\ queue' = << >> /\ job' = Idle /\ stableIndex' = 0 /\ commitIndex' = 0
        /\ lastApplied' = 0 /\ saved' = 0
    BY <1>1, <1>2
  <2> QED BY <1>1, <1>3, <2>1, <2>2, <2>3 DEF WalInv, Filed
<1>10. Quiet'
  BY <1>1, <1>2 DEF Quiet
<1>11. FirstLog'
  BY <1>4 DEF FirstLog
<1>12. FirstPage'
  <2> SUFFICES ASSUME life = 1
               PROVE  /\ meta.commit <= Len(committed) /\ metaSynced.commit <= Len(committed)
                      /\ Len(file) <= Len(file)
                      /\ \A k \in 1 .. Len(file) : k <= Len(committed) => file[k] = committed[k]
    BY <1>1, <1>4 DEF FirstPage, First, Unreplayed
  <2> QED BY DEF Inv, FirstPage, First, Unreplayed
<1> QED BY <1>6, <1>7, <1>8, <1>9, <1>10, <1>11, <1>12 DEF Inv
-----------------------------------------------------------------------------
LEMMA InitInv == Init => Inv
<1> SUFFICES ASSUME Init PROVE Inv
  OBVIOUS
<1>1. /\ logs = << >> /\ file = << >> /\ synced = 0 /\ torn = FALSE
      /\ status = "replay" /\ life = 1
      /\ entries = << >> /\ commitIndex = 0 /\ stableIndex = 0 /\ lastApplied = 0 /\ saved = 0
      /\ queue = << >> /\ job = Idle /\ stage = "idle" /\ kv = << >>
      /\ meta = [commit |-> 0, applied |-> 0] /\ metaSynced = meta
      /\ old = 0 /\ committed = << >>
  BY DEF Init, WalInit
<1>2. Len(<< >>) = 0 /\ << >> \in Seq(LogEntry) /\ << >> \in Seq(Record) /\ << >> \in Seq(Batch)
  OBVIOUS
<1>3. MaxLog \in Nat /\ 1 \in 1 .. MaxLives /\ SyncThreshold \in Nat
  BY RecoveryAssumption, WalAssumption
<1>4. /\ Idle \in [todo : Seq(LogEntry), applied : Nat, commit : Nat]
      /\ Idle.todo = << >> /\ Idle.applied = 0 /\ Idle.commit = 0
  BY DEF Idle
<1>5. meta \in Page /\ meta.applied = 0 /\ meta.commit = 0
  BY <1>1 DEF Page
<1>6. alive
  BY <1>1 DEF alive
<1>7. TypeOK
  <2>1. 0 \in 0 .. Len(<< >>) /\ 0 \in 0 .. Len(<< >>) - 0 /\ 0 \in Nat
    BY <1>2
  <2>2. torn \in BOOLEAN /\ status \in {"replay", "running", "down", "panicked"}
        /\ stage \in {"idle", "entries", "applied"}
    BY <1>1
  <2> QED BY <1>1, <1>2, <1>3, <2>1, <2>2, Zenon DEF TypeOK
<1>8. Types
  <2>1. Len(<< >>) <= MaxLog
    BY <1>2, <1>3
  <2> QED BY <1>1, <1>2, <1>4, <1>5, <2>1, Zenon DEF Types
<1>9. MemoryOnFile
  BY <1>1, <1>2, MemoryFacts DEF MemoryOnFile
<1>10. LossBounded /\ PageInv /\ FileInv
  BY <1>1, <1>2, <1>3, <1>5 DEF LossBounded, PageInv, FileInv
<1>11. AppliedInWal
  BY <1>1 DEF AppliedInWal
<1>12. WalInv
  <2>1. lastIndex(<< >>) = 0
    BY DEF lastIndex
  <2> QED BY <1>1, <1>2, <1>4, <2>1 DEF WalInv, Filed
<1>13. Quiet
  BY <1>6 DEF Quiet
<1>14. FirstLog /\ FirstPage
  BY <1>1, <1>2, <1>4, <1>5 DEF FirstLog, FirstPage, First
<1> QED BY <1>7, <1>8, <1>9, <1>10, <1>11, <1>12, <1>13, <1>14 DEF Inv

LEMMA StutterInv == Inv /\ UNCHANGED vars => Inv'
<1> SUFFICES ASSUME Inv, UNCHANGED vars PROVE Inv'
  OBVIOUS
<1>1. UNCHANGED <<logs, file, synced, torn, status, life, entries, commitIndex, stableIndex,
                  lastApplied, saved, queue, job, stage, kv, meta, metaSynced, old, committed>>
  BY DEF vars, walVars, logVars, jobVars, pageVars, history
<1>2. TypeOK' /\ Types' /\ MemoryOnFile' /\ LossBounded' /\ FileInv' /\ AppliedInWal' /\ PageInv'
  BY <1>1 DEF Inv, TypeOK, Types, MemoryOnFile, LossBounded, FileInv, AppliedInWal, PageInv, alive
<1>3. WalInv'
  BY <1>1 DEF Inv, WalInv, Filed, alive
<1>4. Quiet' /\ FirstLog' /\ FirstPage'
  BY <1>1 DEF Inv, Quiet, FirstLog, FirstPage, First, Unreplayed, alive
<1> QED BY <1>2, <1>3, <1>4 DEF Inv

LEMMA NextInv == Inv /\ [Next]_vars => Inv'
BY StepInv, SaveToWALInv, CommitInv, NextTaskInv, ApplyEntryInv, MetaCommitInv, MetaAppliedInv, CrashInv,
   NewRaftNodeInv, ReplayWALInv, StutterInv, Zenon DEF Next

\* The inductive invariant holds in every life of the node.
THEOREM Invariance == Spec => []Inv
<1>1. Init => Inv
  BY InitInv
<1>2. Inv /\ [Next]_vars => Inv'
  BY NextInv
<1> QED BY <1>1, <1>2, PTL DEF Spec

\* Records, positions and indices keep their types across crashes.
THEOREM TypeCorrect == Spec => []TypeOK
<1>1. Inv => TypeOK
  BY DEF Inv
<1> QED BY <1>1, Invariance, PTL

\* The entries in memory of a running node are the records of its file,
\* whatever crashes have cut off.
THEOREM MemoryIsFile == Spec => []MemoryOnFile
<1>1. Inv => MemoryOnFile
  BY DEF Inv
<1> QED BY <1>1, Invariance, PTL

\* At most SyncThreshold records are at risk, for any number of restarts, none
\* of which syncs anything.
THEOREM BoundedLoss == Spec => []LossBounded
<1>1. Inv => LossBounded
  BY DEF Inv
<1> QED BY <1>1, Invariance, PTL

\* An entry is in the WAL before it is put into the tree, whichever Ids and
\* commands the entries of the log have.
THEOREM AppliedAreSaved == Spec => []AppliedInWal
<1>1. Inv => AppliedInWal
  BY DEF Inv
<1> QED BY <1>1, Invariance, PTL

\* The metadata page runs ahead of the synced WAL by SyncThreshold at most.
THEOREM PageWithinWal == Spec => []MetaWithinWal
<1>1. Inv => MetaWithinWal
  BY DEF Inv, PageInv, MetaWithinWal
<1> QED BY <1>1, Invariance, PTL

\* A replay applies the records at the positions after the applied index, up to
\* the commit index or the end of the WAL, and beyond these only records whose Id
\* is not their position; at the first restart the records of the first life
\* among them are those of the entries committed at the same positions.  Records
\* up to the applied index are never replayed, and the tree is empty.
THEOREM ReplayOfCommitted == Spec => []ReplaysCommitted
<1>1. ASSUME Inv, status = "replay", stage = "idle"
      PROVE  LET r == entriesToReplay IN
             /\ \A k \in meta.applied + 1 .. min(meta.commit, Len(logs)) :
                   /\ k - meta.applied \in DOMAIN r /\ r[k - meta.applied] = logs[k]
                   /\ life = 2 /\ k <= old =>
                         k \in DOMAIN committed /\ encodeLog(logs[k]) = committed[k]
             /\ \A j \in DOMAIN r :
                   meta.applied + j > meta.commit => logs[meta.applied + j].id # meta.applied + j
  <2>1. /\ logs \in Seq(LogEntry) /\ file \in Seq(Record) /\ meta \in Page
        /\ meta.applied \in Nat /\ meta.commit \in Nat /\ Len(logs) \in Nat
        /\ Len(logs) = Len(file) /\ \A k \in 1 .. Len(file) : encodeLog(logs[k]) = file[k]
    <3>1. /\ logs \in Seq(LogEntry) /\ file \in Seq(Record) /\ meta \in Page
          /\ [k \in DOMAIN logs |-> encodeLog(logs[k])] = file
      BY <1>1 DEF Inv, TypeOK, Types, MemoryOnFile, alive
    <3> QED BY <3>1, MemoryFacts DEF Page
  <2> DEFINE a == meta.applied
             c == meta.commit
             r == entriesToReplay
  <2>2. PICK n \in Nat :
           /\ r \in Seq(LogEntry) /\ Len(r) = n
           /\ \A j \in 1 .. n : a + j \in 1 .. Len(logs) /\ r[j] = logs[a + j]
           /\ a >= c => n = 0
           /\ a < c => /\ \A j \in 1 .. n : logs[a + j].id <= c
                       /\ a + n < Len(logs) => logs[a + n + 1].id > c
    BY <2>1, ReplayFacts
  <2>3. \A k \in 1 .. Len(logs) : logs[k].id \in Nat /\ logs[k].id <= k
    <3>1. \A k \in 1 .. Len(logs) : logs[k] \in LogEntry
      BY <2>1, ElementOfSeq
    <3>2. \A k \in 1 .. Len(logs) : encodeLog(logs[k]).id = logs[k].id
      BY <3>1, EncodeFacts
    <3>3. \A x \in LogEntry : x.id \in Nat
      BY DEF LogEntry
    <3> QED BY <1>1, <2>1, <3>1, <3>2, <3>3 DEF Inv, FileInv
  <2>4. ASSUME life = 2, NEW k \in 1 .. Len(logs), k <= c, k <= old
        PROVE  k \in DOMAIN committed /\ encodeLog(logs[k]) = committed[k]
    <3>1. /\ c <= Len(committed)
          /\ \A i \in 1 .. old : i <= Len(committed) => file[i] = committed[i]
      BY <1>1, <2>4 DEF Inv, FirstPage, First, Unreplayed
    <3>2. committed \in Seq(Record) /\ Len(committed) \in Nat /\ old \in Nat
      BY <1>1 DEF Inv, TypeOK
    <3>3. k \in 1 .. Len(committed) /\ k \in 1 .. old
      BY <2>1, <2>4, <3>1, <3>2
    <3> QED BY <2>1, <3>1, <3>2, <3>3
  <2> HIDE DEF a, c, r
  <2>5. a \in Nat /\ c \in Nat
    BY <2>1 DEF a, c
  <2>6. ASSUME NEW k \in a + 1 .. min(c, Len(logs))
        PROVE  /\ k \in 1 .. Len(logs) /\ k <= c
               /\ k - a \in 1 .. n /\ r[k - a] = logs[k]
    <3>1. k \in 1 .. Len(logs) /\ k <= c /\ a < k
      BY <2>1, <2>5 DEF min
    <3>2. k - a \in 1 .. n
      <4> SUFFICES ASSUME a + n < k PROVE FALSE
        BY <2>5, <3>1
      <4>1. a + n + 1 \in 1 .. Len(logs) /\ a + n + 1 <= c /\ a < c /\ a + n < Len(logs)
        BY <2>1, <2>5, <3>1
      <4>2. logs[a + n + 1].id > c /\ logs[a + n + 1].id <= a + n + 1
            /\ logs[a + n + 1].id \in Nat
        BY <2>2, <2>3, <4>1
      <4> QED BY <2>5, <4>1, <4>2
    <3>3. r[k - a] = logs[a + (k - a)] /\ a + (k - a) = k
      BY <2>1, <2>2, <2>5, <3>2
    <3> QED BY <3>1, <3>2, <3>3
  <2>7. ASSUME NEW j \in 1 .. n, a + j > c PROVE logs[a + j].id # a + j
    <3>1. a < c
      BY <2>2, <2>5
    <3>2. logs[a + j].id <= c /\ a + j \in 1 .. Len(logs)
      BY <2>2, <3>1
    <3> QED BY <2>5, <2>7, <3>2
  <2>8. DOMAIN r = 1 .. n
    BY <2>2
  <2> QED BY <2>4, <2>6, <2>7, <2>8 DEF a, c, r
<1>2. Inv => ReplaysCommitted
  BY <1>1 DEF ReplaysCommitted
<1> QED BY <1>2, Invariance, PTL
=============================================================================
