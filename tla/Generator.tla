----------------------------- MODULE Generator -----------------------------
(***************************************************************************)
(* Request ids (generator.go): the member id, and a counter that starts at *)
(* the milliseconds of the clock, shifted by cntLen bits, whenever the     *)
(* node starts.  The counter may run into the bits of the timestamp.  A    *)
(* field of n bits is given by the number 2^n of its values.               *)
(***************************************************************************)
EXTENDS Integers

CONSTANTS
    memberID,   \* uint16(rn.ID)
    tsSize,     \* values of the timestamp: 2^tsLen, with tsLen = 40
    cntSize     \* values of the counter: 2^cntLen, with cntLen = 8

ASSUME GeneratorAssumption == {memberID, tsSize, cntSize} \subseteq Nat \ {0}

\* 2^suffixLen, with suffixLen = tsLen + cntLen.
suffixSize == tsSize * cntSize

\* The low n bits, for a size of 2^n.
lowbit(x, size) == x % size

\* Mutant: the clock is not read.
NewGeneratorAtZero(unixMilli) == 0

\* The first suffix of a node that starts at a time.
NewGenerator(unixMilli) == lowbit(unixMilli, tsSize) * cntSize

\* The id that goes with a suffix.
idOf(suffix) == memberID * suffixSize + lowbit(suffix, suffixSize)

\* What the comment on Generator assumes of a restart: since the start the clock
\* has advanced, by at least a millisecond for every cntSize ids taken, and
\* not once around the timestamp.
clockAhead(start, suffix, unixMilli) ==
    /\ (unixMilli - start) * cntSize >= suffix - NewGenerator(start)
    /\ unixMilli > start
=============================================================================
