------------------------------ MODULE Delivery ------------------------------
(***************************************************************************)
(* What the layers between consensus and the store promise: the entries of *)
(* a growing log are delivered in its order, each once, none left out.  A  *)
(* restart begins again with an empty log.                                 *)
(*                                                                         *)
(* RunLoop implements it from the commit index to the database, and DB     *)
(* from the apply channel to the store.                                    *)
(***************************************************************************)
EXTENDS Integers, Sequences

VARIABLES log, delivered

Init == log = << >> /\ delivered = << >>

Extend ==
    /\ Len(log') > Len(log) /\ SubSeq(log', 1, Len(log)) = log
    /\ UNCHANGED delivered

Deliver ==
    /\ \E k \in Len(delivered) + 1 .. Len(log) : delivered' = SubSeq(log, 1, k)
    /\ UNCHANGED log

Restart == log' = << >> /\ delivered' = << >>

SafeSpec == Init /\ [][Extend \/ Deliver \/ Restart]_<<log, delivered>>

\* What is in the log does not wait for ever.
Spec == SafeSpec /\ WF_<<log, delivered>>(Deliver)
=============================================================================
