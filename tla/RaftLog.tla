------------------------------ MODULE RaftLog ------------------------------
(***************************************************************************)
(* The in-memory log of one node (repl/log.go) as operators on sequences.  *)
(*                                                                         *)
(* The code keeps a slice whose slot 0 is unused, so position i of the     *)
(* slice is position i of the sequence.  An entry also carries an Id that  *)
(* its leader assigned.  Some methods of the code go by position, others   *)
(* by Id; nothing in the code forces the two to agree, so the operators    *)
(* below keep them apart exactly where the code does.                      *)
(***************************************************************************)
EXTENDS Integers, Sequences

min(a, b) == IF a <= b THEN a ELSE b
max(a, b) == IF a >= b THEN a ELSE b

\* Mutant: off by one at the unused slot 0 of the slice.
lastIndexOff(entries) ==
    IF Len(entries) <= 1 THEN 0 ELSE entries[Len(entries) - 1].id

\* The Id (not the position) of the last entry; 0 for an empty log.
lastIndex(entries) ==
    IF Len(entries) = 0 THEN 0 ELSE entries[Len(entries)].id

\* The term at POSITION i, guarded by the Id of the last entry.
term(entries, i) ==
    IF i = 0 \/ i > lastIndex(entries) THEN 0 ELSE entries[i].term

\* append never truncates and never looks for a conflict.
append(entries, new) == entries \o new

\* Positions lo .. hi that exist (the code's "if int(i) < len(l.entries)").
slice(entries, lo, hi) == SubSeq(entries, lo, min(hi, Len(entries)))

\* Mutant: the first entry after stableIndex is skipped.
volatileButFirst(entries, stableIndex) ==
    slice(entries, stableIndex + 2, lastIndex(entries))

volatileEntries(entries, stableIndex) ==
    slice(entries, stableIndex + 1, lastIndex(entries))

committedEntries(entries, lastApplied, commitIndex) ==
    slice(entries, lastApplied + 1, commitIndex)

\* Mutant: the index is taken over, also when it lies behind.
maybeCommitBack(entries, commitIndex, index) ==
    IF index <= lastIndex(entries) THEN index ELSE commitIndex

\* maybeCommit(index): never backwards and never past lastIndex.
maybeCommit(entries, commitIndex, index) ==
    IF index > commitIndex /\ index <= lastIndex(entries)
    THEN index ELSE commitIndex

markStableTill(entries, stableIndex, index) ==
    IF index > stableIndex /\ index <= lastIndex(entries)
    THEN index ELSE stableIndex

markAppliedTill(lastApplied, index) == max(lastApplied, index)
=============================================================================
