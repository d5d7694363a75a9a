------------------------------ MODULE Recovery ------------------------------
(***************************************************************************)
(* What a node keeps across crashes, and how it starts again: the log of   *)
(* its raft state machine (repl/log.go), the WAL, the applier job of the   *)
(* database (db.go), the metadata page (btree.go) and ReplayWAL.           *)
(*                                                                         *)
(* Nothing of the raft log survives, so every life of the node counts Ids  *)
(* from 1 again while the WAL goes on growing.  NewRaftNode starts the run *)
(* loop before DB.Open replays the WAL: entries arrive during the replay.  *)
(*                                                                         *)
(* The tree starts empty in every life (module PageStore shows why), so    *)
(* the store is the sequence of entries put into it since Open.            *)
(*                                                                         *)
(* Which entries raft appends is module Raft's business; here only their   *)
(* Ids are limited, to what its logs have: an Id is at most one above the  *)
(* Id before it, it may go back (an entry sent twice, or one of another    *)
(* leader), it is 0 for a Put to a node in term 0, and entries with one Id *)
(* may carry different commands.                                           *)
(***************************************************************************)
EXTENDS RaftLog, Wal, SequencesExt

CONSTANTS
    Command,
    MaxLog,       \* bound: entries in the raft log
    MaxRecords,   \* bound: records in the file, beyond which no entry is taken
    MaxLives      \* bound: starts of the node

ASSUME RecoveryAssumption == MaxLog \in Nat /\ MaxRecords \in Nat /\ MaxLives \in Nat \ {0}

VARIABLES
    status,       \* "replay" and "running" (both with raft running), "down", "panicked"
    life,         \* how often the node was started
    entries, commitIndex, stableIndex, lastApplied,   \* raftLog
    saved,        \* entries of the Ready at hand that are saved already
    queue,        \* batches handed to the database and not begun
    job, stage,   \* the applier job or the replay, and its next step
    kv,           \* entries put into the tree since Open
    meta,         \* metadata page: commit and applied index
    metaSynced,   \* the same, as it is on disk for certain
    old,          \* history: records the file had when the node started
    committed     \* history: the records of the entries the first life committed

logVars  == <<entries, commitIndex, stableIndex, lastApplied, saved>>
jobVars  == <<job, stage, kv>>
pageVars == <<meta, metaSynced>>
history  == <<old, committed>>
vars     == <<walVars, status, life, logVars, queue, jobVars, pageVars, history>>

Idle  == [todo |-> << >>, applied |-> 0, commit |-> 0]
alive == status \in {"replay", "running"}

Init ==
    /\ WalInit
    /\ status = "replay" /\ life = 1
    /\ entries = << >> /\ commitIndex = 0 /\ stableIndex = 0 /\ lastApplied = 0 /\ saved = 0
    /\ queue = << >> /\ job = Idle /\ stage = "idle" /\ kv = << >>
    /\ meta = [commit |-> 0, applied |-> 0] /\ metaSynced = meta
    /\ old = 0 /\ committed = << >>
-----------------------------------------------------------------------------
(* The raft node. *)
\* An entry of a message is appended; the run loop takes the next message when
\* the Ready at hand is done.
Step(id, cmd) ==
    /\ alive /\ saved = 0 /\ Len(entries) < MaxLog /\ Len(file) < MaxRecords
    /\ entries' = append(entries, <<[id |-> id, cmd |-> cmd, requestId |-> 1]>>)
    /\ UNCHANGED <<walVars, status, life, commitIndex, stableIndex, lastApplied, saved, queue,
                   jobVars, pageVars, history>>

\* saveToWAL saves the entries of a Ready one by one; Advance follows the last.
SaveToWAL ==
    LET new == volatileEntries(entries, stableIndex) IN
    /\ alive /\ saved < Len(new)
    /\ AppendLog(new[saved + 1])
    /\ \/ /\ saved + 1 < Len(new)
          /\ saved' = saved + 1 /\ UNCHANGED stableIndex
       \/ /\ saved + 1 = Len(new)
          /\ saved' = 0
          /\ stableIndex' = markStableTill(entries, stableIndex, lastIndex(entries))
    /\ UNCHANGED <<status, life, entries, commitIndex, lastApplied, queue, jobVars, pageVars, history>>

\* The commit index moves, and the entries up to it are handed over after the
\* entries of the Ready are saved.
Commit(c) ==
    LET batch == committedEntries(entries, lastApplied, c) IN
    /\ alive /\ c > commitIndex /\ volatileEntries(entries, stableIndex) = << >>
    /\ commitIndex' = maybeCommit(entries, commitIndex, c)
    /\ lastApplied' = markAppliedTill(lastApplied, commitIndex')
    /\ queue' = Append(queue, [entries |-> batch, commit |-> c])
    /\ committed' = IF life = 1
                    THEN committed \o [k \in DOMAIN batch |-> encodeLog(batch[k])]
                    ELSE committed
    /\ UNCHANGED <<walVars, status, life, entries, stableIndex, saved, jobVars, pageVars, old>>
-----------------------------------------------------------------------------
(* The applier job.  applyLoop starts when the replay has ended. *)
NextTask ==
    /\ status = "running" /\ stage = "idle" /\ queue # << >>
    /\ job' = [todo |-> Head(queue).entries, applied |-> 0, commit |-> Head(queue).commit]
    /\ stage' = "entries" /\ queue' = Tail(queue)
    /\ UNCHANGED <<walVars, status, life, logVars, kv, pageVars, history>>

\* An entry is put into the tree and its writer is released.
ApplyEntry ==
    /\ alive /\ stage = "entries" /\ job.todo # << >>
    /\ kv' = Append(kv, Head(job.todo))
    /\ job' = [job EXCEPT !.todo = Tail(@), !.applied = Head(job.todo).id]
    /\ UNCHANGED <<walVars, status, life, logVars, queue, stage, pageVars, history>>

\* updateMeta: the commit index is written, ...
MetaCommit ==
    /\ alive /\ stage = "entries" /\ job.todo = << >>
    /\ meta' = [meta EXCEPT !.commit = job.commit]
    /\ stage' = "applied"
    /\ UNCHANGED <<walVars, status, life, logVars, queue, job, kv, metaSynced, history>>

\* ... then the applied index, and the page is synced.
MetaApplied ==
    /\ alive /\ stage = "applied"
    /\ meta' = [meta EXCEPT !.applied = job.applied] /\ metaSynced' = meta'
    /\ job' = Idle /\ stage' = "idle" /\ status' = "running"
    /\ UNCHANGED <<walVars, life, logVars, queue, kv, history>>
-----------------------------------------------------------------------------
(* Crash and start. *)
\* Mutant: the stable index survives, as if it were read from the WAL.
newRaftLogStable ==
    /\ entries' = << >> /\ commitIndex' = 0 /\ lastApplied' = 0 /\ saved' = 0
    /\ UNCHANGED stableIndex

newRaftLog ==
    entries' = << >> /\ commitIndex' = 0 /\ stableIndex' = 0 /\ lastApplied' = 0 /\ saved' = 0

\* The process ends, or the machine fails, at any point of any of the above.
Crash ==
    /\ alive
    /\ \/ StopProcess /\ UNCHANGED pageVars
       \/ LoseUnsynced /\ meta' \in {meta, metaSynced} /\ metaSynced' = meta'
    /\ status' = "down"
    /\ newRaftLog
    /\ queue' = << >> /\ job' = Idle /\ stage' = "idle" /\ kv' = << >>
    /\ UNCHANGED <<life, history>>

\* NewRaftNode: the WAL is read, raft starts from nothing and the run loop
\* with it.
NewRaftNode ==
    /\ status = "down" /\ life < MaxLives
    /\ \/ readWAL /\ status' = "replay"
       \/ torn /\ status' = "panicked" /\ UNCHANGED walVars
    /\ life' = life + 1 /\ old' = Len(file)
    /\ UNCHANGED <<logVars, queue, jobVars, pageVars, committed>>

\* ReplayWAL: the entries from position lastApplied + 1 on, up to the first
\* one with an Id beyond the commit index.
entriesToReplay ==
    LET after  == GetLogsAfter(meta.applied + 1)
        beyond == {k \in 1 .. Len(after) : after[k].id > meta.commit}
    IN  IF meta.applied >= meta.commit THEN << >>
        ELSE IF beyond = {} THEN after ELSE SubSeq(after, 1, Min(beyond) - 1)

ReplayWAL ==
    /\ status = "replay" /\ stage = "idle"
    /\ kv' = entriesToReplay
    /\ \/ /\ entriesToReplay = << >>
          /\ status' = "running" /\ UNCHANGED <<job, stage>>
       \/ /\ entriesToReplay # << >>
          /\ job' = [todo    |-> << >>,
                     applied |-> meta.applied + Len(entriesToReplay), commit |-> meta.commit]
          /\ stage' = "entries" /\ UNCHANGED status
    /\ UNCHANGED <<walVars, life, logVars, queue, pageVars, history>>

Next ==
    \/ \E id \in 0 .. lastIndex(entries) + 1, cmd \in Command : Step(id, cmd)
    \/ SaveToWAL
    \/ \E c \in 1 .. lastIndex(entries) : Commit(c)
    \/ NextTask \/ ApplyEntry \/ MetaCommit \/ MetaApplied
    \/ Crash \/ NewRaftNode \/ ReplayWAL

Spec == Init /\ [][Next]_vars
-----------------------------------------------------------------------------
Record == [id : 0 .. MaxLog, cmd : Command]

TypeOK ==
    /\ file \in Seq(Record) /\ synced \in 0 .. Len(file) /\ torn \in BOOLEAN
    /\ status \in {"replay", "running", "down", "panicked"} /\ life \in 1 .. MaxLives
    /\ stage \in {"idle", "entries", "applied"}
    /\ {commitIndex, stableIndex, lastApplied} \subseteq 0 .. Len(entries)
    /\ saved \in 0 .. Len(entries) - stableIndex
    /\ old \in Nat /\ committed \in Seq(Record)

\* Whatever crashes have cut off, a running node's entries in memory are the
\* records of its file.
MemoryOnFile == alive => [k \in DOMAIN logs |-> encodeLog(logs[k])] = file

\* A crash loses at most as many records as the threshold.  Restarts do not sync
\* anything, and the entries in memory decide when a sync is due: they must be
\* the ones of the earlier lives too.
LossBounded == Len(file) - synced <= SyncThreshold

\* Every entry in the tree is in the WAL before it is put there, although
\* volatileEntries goes by Id and leaves entries with a repeated Id out: also
\* when these carry other commands.
AppliedInWal == {encodeLog(kv[k]) : k \in DOMAIN kv} \subseteq ToSet(file)

\* The metadata page is synced at once and the WAL is not: after a crash it may
\* claim entries that the WAL has lost, but no more than the threshold, through
\* any number of crashes, torn updates of the page and replays.
MetaWithinWal == meta.applied <= synced + SyncThreshold

\* "This is the range: lastAppliedIndex < entry.Id <= lastCommitIndex".  A start
\* replays the records at these positions, in order, as far as the WAL has them,
\* whatever Ids they carry; after these, only records whose Id is not their
\* position.  At the first restart the records of the first life among them are
\* those of the entries it committed, position by position; what raft has saved
\* since the start is not among these.
ReplaysCommitted ==
    status = "replay" /\ stage = "idle" =>
        LET r == entriesToReplay IN
        /\ \A k \in meta.applied + 1 .. min(meta.commit, Len(logs)) :
              /\ k - meta.applied \in DOMAIN r /\ r[k - meta.applied] = logs[k]
              /\ life = 2 /\ k <= old =>
                    k \in DOMAIN committed /\ encodeLog(logs[k]) = committed[k]
        /\ \A j \in DOMAIN r :
              meta.applied + j > meta.commit => logs[meta.applied + j].id # meta.applied + j
=============================================================================
