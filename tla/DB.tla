--------------------------------- MODULE DB ---------------------------------
(***************************************************************************)
(* The database of one node (db.go) with the scheduler, the two waiters    *)
(* and the id generator it is built from (scheduler/scheduler.go, wait.go, *)
(* wait_time.go, generator.go), and the HTTP requests it serves.           *)
(*                                                                         *)
(* Put and Get are called by any number of clients; committed entries come *)
(* from the raft node through the apply channel, are queued as jobs and    *)
(* applied by the scheduler's goroutine, which wakes the clients.  Each    *)
(* locked section and each step of a job is an action of its own.          *)
(*                                                                         *)
(* The store is the sequence of puts applied since Open (module Recovery   *)
(* has what ReplayWAL adds): a Get is known by how many of them it sees.   *)
(* Of the raft node there is only the end of a Ready (repl/raft.go): it    *)
(* hands over what was proposed to it, here or on other nodes, in any      *)
(* order, or never, and an entry its log holds twice (module Raft) twice.  *)
(* After a restart it has no log and receives again, from the other nodes, *)
(* what it had before.                                                     *)
(***************************************************************************)
EXTENDS Integers, Sequences, FiniteSets, SequencesExt, Generator

CONSTANTS
    LocalPut,     \* calls of DB.Put on this node
    RemotePut,    \* puts proposed on other nodes
    Read,         \* calls of DB.Get
    FirstStart,   \* the clock, in milliseconds, when the node first starts
    MaxBatch,     \* bound: entries in one ToApply
    MaxCommitted, \* bound: entries that raft hands over in a life
    MaxStart      \* bound: the clock when the node starts for the last time

ASSUME DBAssumption ==
    /\ LocalPut \cap RemotePut = {}
    /\ MaxBatch \in Nat \ {0} /\ MaxCommitted \in Nat /\ FirstStart \in Nat
    \* "before 35 years": the timestamp does not come round again
    /\ MaxStart \in FirstStart .. FirstStart + tsSize - 2

VARIABLES
    started, suffix,  \* generator: when the node started, the counter
    requestId,        \* ids of the puts; 0 for none and for other members' ids
    put,              \* where each Put is
    chans,            \* waiter: request ids with an open channel
    proposed,         \* given to raft
    committed,        \* what raft has handed over since Open, in order
    applyc,           \* batches in the apply channel
    queue,            \* jobs of the scheduler
    job, stage,       \* the job that runs and its next step
    kv,               \* puts applied to the store, in order
    lastCommitIndex,  \* field of DB
    lastTriggered, m, \* waitTime: last deadline and the ones waited for
    get,              \* where each Get is
    deadline,         \* the commit index a Get has read
    seen,             \* how much of kv a Get has returned
    ackedAt           \* history: puts acknowledged when a Get began

idVars     == <<started, suffix, requestId>>
clientVars == <<idVars, put, chans, proposed>>
readVars   == <<get, deadline, seen, ackedAt>>
applyVars  == <<job, stage, kv, lastCommitIndex, lastTriggered, m>>
vars == <<clientVars, committed, applyc, queue, applyVars, readVars>>

Idle == [entries |-> << >>, commitIndex |-> 0]

Init ==
    /\ started = FirstStart /\ suffix = NewGenerator(FirstStart)
    /\ requestId = [p \in LocalPut \cup RemotePut |-> 0]
    /\ put = [p \in LocalPut |-> "start"]
    /\ chans = {} /\ proposed = RemotePut
    /\ committed = << >> /\ applyc = << >> /\ queue = << >>
    /\ job = Idle /\ stage = "next"
    /\ kv = << >> /\ lastCommitIndex = 0 /\ lastTriggered = 0 /\ m = {}
    /\ get = [g \in Read |-> "start"]
    /\ deadline = [g \in Read |-> 0]
    /\ seen = [g \in Read |-> 0]
    /\ ackedAt = [g \in Read |-> {}]
-----------------------------------------------------------------------------
\* handlePut turns down a wrong method, a body that is no JSON, an empty key.
RejectPut(p) ==
    /\ put[p] = "start"
    /\ put' = [put EXCEPT ![p] = "rejected"]
    /\ UNCHANGED <<idVars, chans, proposed, committed, applyc, queue, applyVars, readVars>>

\* Put: take a request id (Generator.Next) and register its channel, ...
Register(p) ==
    /\ put[p] = "start"
    /\ put' = [put EXCEPT ![p] = "propose"]
    /\ suffix' = suffix + 1
    /\ requestId' = [requestId EXCEPT ![p] = idOf(suffix')]
    /\ chans' = chans \cup {requestId'[p]}
    /\ UNCHANGED <<started, proposed, committed, applyc, queue, applyVars, readVars>>

\* ... propose, which fails when the node's inbox stays full, ...
Propose(p) ==
    /\ put[p] = "propose"
    /\ \/ put' = [put EXCEPT ![p] = "wait"] /\ proposed' = proposed \cup {p}
       \/ put' = [put EXCEPT ![p] = "failed"] /\ UNCHANGED proposed
    /\ UNCHANGED <<idVars, chans, committed, applyc, queue, applyVars, readVars>>

\* ... and wait for the channel to be closed
Acknowledge(p) ==
    /\ put[p] = "wait" /\ requestId[p] \notin chans
    /\ put' = [put EXCEPT ![p] = "acked"]
    /\ UNCHANGED <<idVars, chans, proposed, committed, applyc, queue, applyVars, readVars>>

\* or for the timeout.  The channel stays registered.
PutTimeout(p) ==
    /\ put[p] = "wait"
    /\ put' = [put EXCEPT ![p] = "failed"]
    /\ UNCHANGED <<idVars, chans, proposed, committed, applyc, queue, applyVars, readVars>>
-----------------------------------------------------------------------------
\* Node.run sends the committed entries of a Ready to the channel that Apply
\* returns, with the commit index: entries go by position.
Commit(es) ==
    /\ Len(committed) + Len(es) <= MaxCommitted
    /\ committed' = committed \o es
    /\ applyc' = Append(applyc, [entries |-> es, commitIndex |-> Len(committed')])
    /\ UNCHANGED <<clientVars, queue, applyVars, readVars>>

\* Mutant: the newest job runs first.
AddTaskFirst(task) == queue' = <<task>> \o queue

AddTask(task) == queue' = Append(queue, task)

\* applyLoop: every batch becomes a job.
ApplyLoop ==
    /\ applyc # << >>
    /\ AddTask(Head(applyc))
    /\ applyc' = Tail(applyc)
    /\ UNCHANGED <<clientVars, committed, applyVars, readVars>>

\* nextTask, in FifoScheduler.run.
NextTask ==
    /\ stage = "next" /\ queue # << >>
    /\ job' = Head(queue) /\ queue' = Tail(queue)
    /\ stage' = "put"
    /\ UNCHANGED <<clientVars, committed, applyc, kv, lastCommitIndex, lastTriggered, m, readVars>>

\* Mutant: the channel is not closed.
TriggerNone(id) == UNCHANGED chans

\* waiter.Trigger closes the channel and forgets it.
Trigger(id) == chans' = chans \ {id}

\* Mutant: the store rejects the put and the error is ignored.
JobPutFails ==
    /\ stage = "put" /\ job.entries # << >>
    /\ stage' = "trigger"
    /\ UNCHANGED <<clientVars, committed, applyc, queue, job, kv, lastCommitIndex, lastTriggered, m,
                   readVars>>

\* The applier: per entry, put it into the store and trigger its writer ...
JobPut ==
    /\ stage = "put" /\ job.entries # << >>
    /\ kv' = Append(kv, Head(job.entries))
    /\ stage' = "trigger"
    /\ UNCHANGED <<clientVars, committed, applyc, queue, job, lastCommitIndex, lastTriggered, m,
                   readVars>>

JobTrigger ==
    /\ stage = "trigger"
    /\ Trigger(requestId[Head(job.entries)])
    /\ job' = [job EXCEPT !.entries = Tail(@)]
    /\ stage' = "put"
    /\ UNCHANGED <<idVars, put, proposed, committed, applyc, queue, kv, lastCommitIndex, lastTriggered, m,
                   readVars>>

\* Mutant: the index after the last one of the batch is published.
JobNextIndex ==
    /\ stage = "put" /\ job.entries = << >>
    /\ lastCommitIndex' = job.commitIndex + 1
    /\ stage' = "wake"
    /\ UNCHANGED <<clientVars, committed, applyc, queue, job, kv, lastTriggered, m, readVars>>

\* ... then publish the commit index (after updateMeta) ...
JobCommitIndex ==
    /\ stage = "put" /\ job.entries = << >>
    /\ lastCommitIndex' = job.commitIndex
    /\ stage' = "wake"
    /\ UNCHANGED <<clientVars, committed, applyc, queue, job, kv, lastTriggered, m, readVars>>

\* Mutant: only earlier deadlines are woken.
expiredBefore(d) == {w \in m : w < d}

\* ... and wake the readers waiting for a deadline up to it.
expired(d) == {w \in m : w <= d}

JobWake ==
    /\ stage = "wake"
    /\ lastTriggered' = job.commitIndex
    /\ m' = m \ expired(job.commitIndex)
    /\ job' = Idle /\ stage' = "next"
    /\ UNCHANGED <<clientVars, committed, applyc, queue, kv, lastCommitIndex, readVars>>

Scheduler == NextTask \/ JobPut \/ JobTrigger \/ JobCommitIndex \/ JobWake
-----------------------------------------------------------------------------
\* handleGet, with the conditions of handlePut.
RejectGet(g) ==
    /\ get[g] = "start"
    /\ get' = [get EXCEPT ![g] = "rejected"]
    /\ UNCHANGED <<clientVars, committed, applyc, queue, applyVars, deadline, seen, ackedAt>>

\* Get: read lastCommitIndex, ...
GetBegin(g) ==
    /\ get[g] = "start"
    /\ get' = [get EXCEPT ![g] = "begun"]
    /\ deadline' = [deadline EXCEPT ![g] = lastCommitIndex]
    /\ ackedAt' = [ackedAt EXCEPT ![g] = {p \in LocalPut : put[p] = "acked"}]
    /\ UNCHANGED <<clientVars, committed, applyc, queue, applyVars, seen>>

\* ... wait for it: at once when it was triggered already, ...
GetWait(g) ==
    /\ get[g] = "begun"
    /\ IF deadline[g] <= lastTriggered
       THEN get' = [get EXCEPT ![g] = "read"] /\ UNCHANGED m
       ELSE get' = [get EXCEPT ![g] = "wait"] /\ m' = m \cup {deadline[g]}
    /\ UNCHANGED <<clientVars, committed, applyc, queue, job, stage, kv, lastCommitIndex,
                   lastTriggered, deadline, seen, ackedAt>>

\* ... and read the store,
GetRead(g) ==
    /\ get[g] = "read" \/ (get[g] = "wait" /\ deadline[g] \notin m)
    /\ get' = [get EXCEPT ![g] = "done"]
    /\ seen' = [seen EXCEPT ![g] = Len(kv)]
    /\ UNCHANGED <<clientVars, committed, applyc, queue, applyVars, deadline, ackedAt>>

\* or time out.  A channel that is ready loses the race at random.
GetTimeout(g) ==
    /\ get[g] \in {"read", "wait"}
    /\ get' = [get EXCEPT ![g] = "failed"]
    /\ UNCHANGED <<clientVars, committed, applyc, queue, applyVars, deadline, seen, ackedAt>>
-----------------------------------------------------------------------------
\* The process ends and Open starts it again: callers lose their connection,
\* channels, queues and the tree are gone, and the cluster still has what was
\* proposed.
Reopen(unixMilli) ==
    /\ clockAhead(started, suffix, unixMilli)
    /\ started' = unixMilli /\ suffix' = NewGenerator(unixMilli)
    /\ put' = [p \in LocalPut |-> IF put[p] \in {"propose", "wait", "acked"} THEN "past" ELSE put[p]]
    /\ get' = [g \in Read |-> IF get[g] \in {"begun", "read", "wait", "done"} THEN "past" ELSE get[g]]
    /\ chans' = {} /\ committed' = << >> /\ applyc' = << >> /\ queue' = << >>
    /\ job' = Idle /\ stage' = "next" /\ kv' = << >>
    /\ lastCommitIndex' = 0 /\ lastTriggered' = 0 /\ m' = {}
    /\ UNCHANGED <<requestId, proposed, deadline, seen, ackedAt>>
-----------------------------------------------------------------------------
\* Non-empty sequences of proposals, repeated or not.
Batch == UNION {[1 .. k -> proposed] : k \in 1 .. MaxBatch}

Next ==
    \/ \E p \in LocalPut : RejectPut(p) \/ Register(p) \/ Propose(p) \/ Acknowledge(p) \/ PutTimeout(p)
    \/ \E es \in Batch : Commit(es)
    \/ ApplyLoop
    \/ Scheduler
    \/ \E g \in Read : RejectGet(g) \/ GetBegin(g) \/ GetWait(g) \/ GetRead(g) \/ GetTimeout(g)
    \/ \E unixMilli \in FirstStart .. MaxStart : Reopen(unixMilli)

\* The apply loop and the scheduler keep running, and so do the calls, but no
\* timeout is needed for progress.
Spec ==
    /\ Init /\ [][Next]_vars
    /\ WF_vars(ApplyLoop) /\ WF_vars(Scheduler)
    /\ \A p \in LocalPut : WF_vars(Acknowledge(p))
    /\ \A g \in Read : WF_vars(GetWait(g)) /\ WF_vars(GetRead(g))
-----------------------------------------------------------------------------
TypeOK ==
    /\ put \in [LocalPut -> {"start", "rejected", "propose", "wait", "acked", "failed", "past"}]
    /\ chans \subseteq {requestId[p] : p \in LocalPut} \ {0}
    /\ proposed \subseteq LocalPut \cup RemotePut
    /\ stage \in {"next", "put", "trigger", "wake"}
    /\ get \in [Read -> {"start", "rejected", "begun", "read", "wait", "done", "failed", "past"}]
    /\ {lastCommitIndex, lastTriggered} \cup m \subseteq 0 .. Len(committed)

\* What the client of /put is told: "4xx" is 405 for a wrong method and 400 for
\* the other reasons.
response(p) ==
    CASE put[p] = "acked" -> "200"
      [] put[p] = "rejected" -> "4xx"
      [] put[p] = "failed" -> "500"
      [] OTHER -> "none"

\* Success means applied: the client of a Put is told so only when its own
\* command is in the store.  A trigger goes by request id, and entries with
\* ids of an earlier start are committed again after a restart: an id that
\* NewGenerator gives out a second time would release the wrong writer.
SuccessMeansApplied == \A p \in LocalPut : response(p) = "200" => p \in ToSet(kv)

\* The store is built in commit order, with nothing skipped or repeated,
\* although jobs are queued by one goroutine and run by another.
AppliedInCommitOrder == IsPrefix(kv, committed)

\* Read after write: a Get that begins after a Put on this node returned, with
\* no restart in between, sees it, although the commit index the Get reads is
\* published only after all the writers of the batch were released.
ReadsAckedPuts ==
    \A g \in Read : get[g] = "done" => ackedAt[g] \subseteq ToSet(SubSeq(kv, 1, seen[g]))

Store == INSTANCE Delivery WITH log <- committed, delivered <- kv

\* The apply loop, the scheduler and its jobs implement ordered delivery, with
\* its liveness: the batches of the apply channel reach the store in order, each
\* entry once, and none of them stays behind.
ImplementsDelivery == Store!Spec

\* No Get hangs until its timeout: one that reads the new commit index in the
\* gap between its publication and the wake-up is still woken.
ReadersWoken == \A g \in Read : get[g] = "wait" ~> get[g] # "wait"

\* No Put that is committed hangs until its timeout.
WritersWoken ==
    \A p \in LocalPut : (put[p] = "wait" /\ p \in ToSet(committed)) ~> put[p] # "wait"
=============================================================================
