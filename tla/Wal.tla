-------------------------------- MODULE Wal --------------------------------
(***************************************************************************)
(* The write-ahead log of a node (wal/wal.go): an append-only file and the *)
(* entries in memory.  A process that ends leaves its file to the          *)
(* operating system; a machine that fails keeps a prefix that holds at     *)
(* least what was synced.  Either may cut the record short that is being   *)
(* written.  On the next start NewLM reads the file back, and panics when  *)
(* it ends in an incomplete record.  Module Recovery runs it with the rest *)
(* of a node.                                                              *)
(*                                                                         *)
(* An entry is its Id, its command and the request id of its Put, which is *)
(* not encoded.                                                            *)
(***************************************************************************)
EXTENDS Integers, Sequences

CONSTANT SyncThreshold      \* 10 in NewLM

ASSUME WalAssumption == SyncThreshold \in Nat

VARIABLES
    logs,         \* entries in memory
    file,         \* records the operating system has
    synced,       \* how many of them are on disk for certain
    torn          \* an incomplete record follows them

walVars == <<logs, file, synced, torn>>

WalInit == logs = << >> /\ file = << >> /\ synced = 0 /\ torn = FALSE
-----------------------------------------------------------------------------
\* The record of an entry, and the entries of a file that ends in a complete
\* record: their request ids are 0.
encodeLog(e)  == [id |-> e.id, cmd |-> e.cmd]
decodeLogs(f) == [k \in 1 .. Len(f) |-> [id |-> f[k].id, cmd |-> f[k].cmd, requestId |-> 0]]

\* Mutant: the entries are compared with the threshold strictly.
syncDueLate == Len(logs) > SyncThreshold

\* writeToFile syncs once the entries in memory have reached the threshold.
syncDue == Len(logs) >= SyncThreshold

\* Mutant: the entry is kept in memory and its write is buffered.
WriteBuffered(e) == UNCHANGED file

\* writeToFile
Write(e) == file' = Append(file, encodeLog(e))

\* LogManager.Append: write the record, sync if due, then keep the entry.
AppendLog(e) ==
    /\ Write(e)
    /\ synced' = IF syncDue THEN Len(file') ELSE synced
    /\ logs' = Append(logs, e)
    /\ UNCHANGED torn

\* The process ends, between two calls or inside Append: what was written and
\* not synced is still so.
StopProcess == logs' = << >> /\ torn' \in BOOLEAN /\ UNCHANGED <<file, synced>>

\* The machine fails: what the file holds afterwards is on disk.
LoseUnsynced ==
    /\ \E k \in synced .. Len(file) : file' = SubSeq(file, 1, k) /\ synced' = k
    /\ logs' = << >> /\ torn' \in BOOLEAN

\* Mutant: the entries in memory are not restored.
readWALForgets ==
    /\ ~torn
    /\ logs' = << >>
    /\ UNCHANGED <<file, synced, torn>>

\* NewLM and readWAL, of a file that ends in a complete record.
readWAL ==
    /\ ~torn
    /\ logs' = decodeLogs(file)
    /\ UNCHANGED <<file, synced, torn>>
-----------------------------------------------------------------------------
\* Mutant: the Id is taken for the slice index.
sliceIndexOff(index) == index

\* The lookup of ReplayWAL goes by position.
sliceIndex(index) == IF index - 1 >= 0 THEN index - 1 ELSE 0

GetLogsAfter(index) ==
    IF sliceIndex(index) >= Len(logs) THEN << >>
    ELSE SubSeq(logs, sliceIndex(index) + 1, Len(logs))
=============================================================================
