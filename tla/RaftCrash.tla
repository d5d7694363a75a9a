----------------------------- MODULE RaftCrash -----------------------------
(***************************************************************************)
(* Raft with nodes that crash and restart.  Node.run never writes the      *)
(* HardState of a Ready anywhere and bootstrapRaftNode builds every node   *)
(* with NewRaft: a restarted node has term 0, an empty log and has cast no *)
(* vote, whatever its WAL holds.                                           *)
(***************************************************************************)
EXTENDS Raft

CONSTANT MaxRestarts          \* bound: crashes of all nodes together

ASSUME RestartAssumption == MaxRestarts \in Nat

VARIABLE restarts

crashVars == <<vars, restarts>>

CrashInit == Init /\ restarts = 0

Restart(n) ==
    /\ restarts < MaxRestarts
    /\ restarts' = restarts + 1
    /\ state'        = [state EXCEPT ![n] = Follower]
    /\ currentTerm'  = [currentTerm EXCEPT ![n] = 0]
    /\ votes'        = [votes EXCEPT ![n] = {}]
    /\ electionTick' = [electionTick EXCEPT ![n] = ID[n] % ElectionTimeout]
    /\ votedFor'     = [votedFor EXCEPT ![n] = [t \in Term |-> None]]
    /\ log'          = [log EXCEPT ![n] = << >>]
    /\ commitIndex'  = [commitIndex EXCEPT ![n] = 0]
    /\ stableIndex'  = [stableIndex EXCEPT ![n] = 0]
    /\ matchIndex'   = [matchIndex EXCEPT ![n] = [p \in Server |-> 0]]
    /\ nextIndex'    = [nextIndex EXCEPT ![n] = [p \in Server |-> 0]]
    /\ UNCHANGED <<net, requested>>

CrashNext ==
    \/ Next /\ UNCHANGED restarts
    \/ \E n \in Server : Restart(n)

CrashSpec == CrashInit /\ [][CrashNext]_crashVars
=============================================================================
