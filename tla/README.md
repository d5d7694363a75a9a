# HarmonyDB in TLA+

HarmonyDB is a replicated key-value store: an HTTP API over a database front
end (`db.go`), a home-grown Raft (`repl/`), a write-ahead log (`wal/`), and a
B+tree on a page file (`btree.go`, `node.go`, `storage.go`). This directory
models its concurrent and distributed core, checks it with TLC on small
instances and proves the main safety results with TLAPS.

Everything is translated from the Go code. Where the code differs from Raft as
published, the model has the code's behaviour. Where it differs from what the
repository's own comments or tests say, a run shows the difference (see
*Findings*).

## Inventory

| component | state | operations | hard because |
|---|---|---|---|
| Raft state machine, `repl/sm.go` | role, term, votes, timers, log, progress per peer, two message buffers | `Step` (one handler per message type and role), `Tick`, `Ready`, `Advance` | messages of old terms and elections, two leaders, answers that do not say what they answer |
| Raft log, `repl/log.go` | slice of entries, commit, applied and stable index | append, lookups, index moves | an entry's Id and its position in the slice are different things, and nothing keeps them equal |
| Run loop and network, `repl/raft.go` | channels `propc`, `tickc`, `readyc`, `applyc`; one goroutine per message sent | `Process`, `Tick`, `run`, `send` | a select that evaluates `Ready()` each time, bounded channels, lost and reordered RPCs |
| Start-up, `repl/bootstrap.go` | configuration, connections | build and start a node | nothing of the consensus state is read back after a crash |
| Write-ahead log, `wal/wal.go` | entries in memory, file | append, recover, lookups | sync is conditional, torn records, Ids against positions |
| Database, `db.go` | `lastCommitIndex`, the tree | `Open`, `Put`, `Get`, `applyLoop`, the applier job | clients, apply loop and scheduler run concurrently; timeouts |
| Scheduler, `scheduler/` | queue of jobs | `AddTask`, `run` | producer and consumer goroutines |
| Waiters, `wait.go`, `wait_time.go` | open channels by request id, by commit index | register, wait, trigger | lost wake-ups |
| Request ids, `generator.go` | a counter seeded by the clock | `Next` | uniqueness across restarts |
| B+tree, `btree.go`, `node.go` | pages with ordered offsets and append-only cells | insert, split, lookup, encode, decode | stale cells after a split, no lock |
| Page store, `storage.go` | page cache, file, header | one-second flush, save, open | the flush shares no lock with `Put`; the header lies on the first page and is not synced |
| Replay, `replay.go`, and the metadata page, `btree.go` | commit and applied index | `updateMeta`, `readMeta`, `ReplayWAL` | a crash between the two writes; WAL and page synced at different times; raft runs beside the replay |
| API, `api/server.go` | none | `/put`, `/get` | what a client may conclude from an answer |
| command, logging | none | flags, output | - |

Interactions: `DB.Put` registers a request id with the waiter and hands a
`MSG_APP` without sender to `Node.Process`, which queues it in `propc`. The run
loop steps the state machine; `Ready` carries entries to the WAL, messages to
peers (one goroutine and one 1 s RPC each, never repeated) and committed
entries to `applyc`. `applyLoop` turns each batch into a job of the FIFO
scheduler; the job puts the entries into the tree, triggers the writers, writes
the metadata page, publishes `lastCommitIndex` and triggers the readers. A
goroutine of the page store flushes dirty pages once a second. `DB.Open` starts
the raft node first, then opens the page file, replays the WAL and starts the
apply loop.

## Modules

| module | models | composed from |
|---|---|---|
| `RaftLog` | `repl/log.go`, as operators on sequences | |
| `Raft` | `repl/sm.go` on every node, the network, proposals | `RaftLog` |
| `RaftCrash` | `Raft` plus restarts | `Raft` |
| `RaftProofs` | theorems `TypeCorrect`, `NoPanic` | `RaftCrash` |
| `ElectionProofs` | election safety, final votes, growing terms, the refinement of `Elections` | `RaftProofs` |
| `EntryProofs` | theorem `OneCommandPerId` | `ElectionProofs` |
| `Elections` | what voting promises, abstractly | implemented by `Raft` |
| `Delivery` | ordered delivery of a growing log, abstractly | implemented by `RunLoop` and by `DB` |
| `MCRaft`, `MCRaftCrash` | instances, symmetry, fairness, the liveness property | `Raft`, `RaftCrash` |
| `RunLoop` | `Node.run`, `Ready`, `Advance` and the channels of one node | `RaftLog` |
| `RunLoopProofs` | order and durability of what the loop hands over | `RunLoop` |
| `Generator` | `generator.go`, as operators | |
| `DB` | `db.go`, scheduler, both waiters, the API handlers, on one node with restarts | `Generator` |
| `DBProofs` | commit order, success means applied, read after write | `DB` |
| `Wal` | `wal/wal.go` with crashes | |
| `Recovery`, `MCRecovery` | one node across crashes: raft log, WAL, applier job, metadata page, `replay.go` | `RaftLog`, `Wal` |
| `RecoveryProofs` | all invariants of `Recovery` | `Recovery` |
| `BTree`, `MCBTree` | `put` and `get` of `btree.go` on the nodes of `node.go`, in memory | |
| `BTreeProofs` | sorted offsets, what a Get returns | `BTree` |
| `PageStore` | `storage.go`: the flush beside the puts, and the start after a crash | `BTree` |
| `StorageProofs` | theorems `CleanPagesOnDisk`, `LaterStartsOpen` | `PageStore` |

### Raft

A node's variables are the fields of `Raft` and `raftLog`. `votes` is the set
of granted votes (`nil` and an empty map are both `{}`), `votedFor` a map from
terms. Commands are model values. Each action is one `Step` or `Tick`
together with the `Ready` and `Advance` that follow it:

| action | code |
|---|---|
| `TickWait`, `Campaign` | `tickFollower`, `tickCandidate`, `campaign` |
| `BroadcastHeartbeat` | `tickLeader` (`heartbeatTimeout` is 1), `broadcastHeartbeat` |
| `HandleVoteRequest`, `HandleVoteResponse` | the handlers of the same names |
| `HandleAppendEntries` | `handleAppendEntries`, for leaders' messages and for proposals |
| `HandleAppendResponse`, `Replicated` | `handleAppendResponse`, `maybeCommit` |
| `Replicate` | `replicate`, which a leader runs for every `MSG_APP` |
| `Ignore` | the messages a step function has no case for |
| `Lose` | an RPC that fails or times out |
| `Put` | `DB.Put` on any node: on a leader `Replicate`, elsewhere `HandleAppendEntries` |

Why one action may cover a step and its Ready: `run` evaluates `Ready()` before
it can take another event. Either the Ready is received before the next event
that produces output, or the loop blocks on `readyc` for ever (see `RunLoop`).
A node that has blocked is one that takes no more steps and whose last
messages are lost; both are behaviours of `Raft`, whose specification has no
fairness. A Ready that waits while events without output are taken only delays
its messages. `lastApplied` has no effect on the state machine and is in
`RunLoop`; the fields `leader_id`, `last_log_index` and `last_log_term` are
read by no handler. A proposal goes to `Step` directly instead of through
`propc`: the order of arrival is free anyway.

Things the code does that a reader of Raft might take for modelling errors: a
follower appends without looking for duplicates or conflicts; a success answer
counts for the leader's whole log; a vote needs no up-to-date log; a proposal to
a follower resets its election timer and, while its term is 0, appends an entry
with Id 0; a leader ignores vote requests; a single-node cluster elects itself
and never commits.

### RaftCrash

`Restart(n)` is `NewRaft`: whatever the WAL holds, the state machine starts
empty with term 0 and no votes. Messages in flight survive.

### RunLoop

`pc` tells whether the loop is about to evaluate the operands of its select
(`loop`), about to choose a case (`select`), or in the middle of a Ready
(`apply`). The state machine is reduced to what `Ready` reads: the log with its
indices, and whether the message buffers hold anything. The inputs are
AppendEntries with any consecutive entries (new, repeated or after a gap),
proposals, acknowledgements (which may move the commit index anywhere up to the
last entry), vote requests, the vote that makes a candidate leader and responses
of a newer term. The node is of term 1 or more: a node of term 0 answers nobody
when it appends a proposal. Channel capacities are constants.

### Elections and Delivery

Two abstract specifications. `Elections` has no messages, timers or logs: each
term is decided for one node, once and for ever, and only that node leads in
it. Under `Raft` a term is decided for the node that a quorum has voted for, and
`ImplementsElections` says that every step of every handler is one of its steps
or none.

`Delivery` is a growing log and the part of it that was delivered. `RunLoop`
implements it from the commit index to the database (safety; that something is
delivered is `CommittedEventuallyApplied`, since a blocked loop delivers
nothing), and `DB` from the apply channel to the store, with its liveness.
`Restart` empties both and is taken by `DB` only.

### DB and Generator

Every locked section and every step of the applier job is an action, so that
clients run between any two of them. The store is the sequence of puts applied,
and a Get is known by how long a prefix it sees. Of the raft node there is the
end of a Ready in `Node.run` (`Commit`): it hands over proposals in any order, in
batches, or never. Entries are handed over by position and logs hold duplicates,
so a put may come several times, in one life and in the next. `ackedAt` is a
history variable.

`RejectPut` and `RejectGet` are what the HTTP handlers turn down; `response` is
the status of `/put` (405 and 400 are both `4xx`). `Reopen` ends the process at any moment and opens it
again: channels, queues and the store are gone, while the cluster still commits
what was proposed before, with the request ids of the earlier life. The ids are
those of `generator.go`, whose fields have `tsSize` and `cntSize` values (2^40
and 2^8 in the code) instead of bit lengths, since the provers know no powers.
The guard of `Reopen` is what the
comment of `Generator` assumes of the clock (it has moved by a millisecond per
256 ids, and not around the timestamp); the run shows what rests on it: the
mutant that starts the counter anywhere else releases the wrong writer.

### Wal and Recovery

A node stops in one of two ways. When the process ends (`StopProcess`), the
operating system still has every record: what was not synced is there on the next
start and is still not synced. When the machine fails (`LoseUnsynced`), the file
keeps a prefix that holds at least what was synced. Both may cut the last record;
`NewLM` then panics. Encoding keeps an entry's Id (with term, key, value and
operation) and loses its request id. `TruncateAfter` and the lookups other than
`GetLogsAfter` are called by tests only and left out.

`Recovery` has the steps of one node between which a crash matters: an entry is
appended (`Step`), the entries of a Ready are saved one by one (`SaveToWAL`), the
commit index moves (`Commit`), the applier takes a batch (`NextTask`), puts its
entries one by one (`ApplyEntry`) and writes the metadata page in two writes and
one sync (`MetaCommit`, `MetaApplied`). `Crash` loses memory; a failure of the
machine also loses unsynced records and may bring back the synced metadata page,
while the end of the process leaves the page as it is, half-written or not, and
unsynced. `NewRaftNode` reads the WAL and starts raft from nothing, so that
entries may be appended and committed before `ReplayWAL` runs; the batches they
make wait until `applyLoop` starts.

Which entries arrive is `Raft`'s business. `Recovery` takes any Id up to one above
the last, 0 included (a Put to a node of term 0), with any command: an Id that
comes again may be the same entry sent twice or an entry of another leader, which
a follower appends without a look at what it has. `old` (records the file had at
the start) and `committed` (the records of what the first life committed) are
history variables.

### PageStore

A `StorePut` is the whole `put`, since all puts come from one goroutine. The
flush is another goroutine and takes a step per page: `Visit` (with the encode),
`Update` (write and sync), `MarkClean`; then `Save`. A put to the page that is
being encoded may or may not be seen by it, or leave a mixture (`Torn`). The
first 16 bytes of the file are what the operating system has (`written`) and
what a failure of the machine leaves (`synced`): nothing, the start of the page
at offset 0, or a header. The start of a leaf taken for a root offset is at
least 2^40 (type, count, offsets and key size are all in its 8 bytes), so
`loadPage` fails. A failing encode (`Large` values) or a splitting root is a
panic, after which the process can only crash. Pages of earlier lives are never
read again, so `disk` has those of the current life. A page that is itself torn
by a failure of the machine is not modelled.

### BTree

A leaf is its list of cells, in the order in which they were added, and its
list of offsets, sorted by key; a split shortens the offsets and leaves the
copied cells behind, where `findLeafCell` still finds them. The internal root is
such a node too. When it overflows, `insertInternal` splits it and dereferences
a nil parent: the model ends in `panicked`. The tree therefore has one or two
levels, and no recursion is needed. Pages are numbered as they are allocated.

## Runs

Passing runs:

| run | instance | shows |
|---|---|---|
| `raft_elections` | 3 nodes, 2 terms, 3 in flight, no commands | one leader per term, votes are final; a stale leader steps down; the votes implement `Elections` |
| `raft_entries` | 3 nodes, 2 terms, timeout of 2 ticks, 2 commands, logs of 3, 2 in flight | a term and Id name one command, with duplicates, one Id under two terms in a log, Ids apart from positions and two leaders that each give out Ids 1 and 2; terms and commit indices only grow; a leader leaves only for a higher term |
| `raft_crash` | 3 nodes, 1 term, one restart, 2 commands, logs of 3, 3 in flight | Ids never run ahead of the slice, with duplicates on followers, proposals to term-0 nodes and restarts |
| `runloop` | channels of 1, logs of 3 | apply order, save before send until entries repeat, committed entries are applied; the loop implements `Delivery` |
| `db_linearizable` | 2 local puts, 1 remote, 1 read, batches of 2, 2 entries in a life, one restart | commit order, success means applied, read-your-writes on a node, no lost wake-ups; implements `Delivery` with its liveness |
| `recovery` | 2 commands, threshold 2, logs of 3, 3 lives | memory equals file; the loss is bounded by the threshold, and so is what the metadata claims beyond what is synced, whether the process ends or the machine fails; nothing is applied that was not saved; a replay puts in the records at the positions after the applied index up to the commit index, and at the first restart those of the first life are what it committed there |
| `btree` | 6 keys, 2 values, pages of 2 cells, roots of 3 | sorted offsets, lookups right as long as no key lies below the root's first |
| `page_store` | 2 keys, a value that fits and one that does not, pages of 1 cell, 3 lives | a clean page is on the disk, with three exceptions; a start fails only because of the first life |

Bounds. Three nodes are the smallest cluster in which a quorum leaves somebody
out. Two terms give a stale and a new leader side by side; one vote per node and
term is all an election needs, and a third term only repeats the second.
Three log positions are enough for an entry, its duplicate and a new one behind
them, which is where Ids and positions part. Three messages in flight let the
requests and answers of two candidates cross; two are enough for a heartbeat
or a vote request to both peers. An election timeout of 1 makes a node time out
at any tick, which covers every order of timeouts; `raft_entries` uses 2 so
that the timers themselves run. Pages of two cells split on every third key, and
six keys in every order fill a root and overflow it; the failing lookup needs a
seventh. In `page_store` two keys are a page and the one its split adds, and
three lives are one that begins at offset 0, one that does not and the start
that follows it. In `recovery` the threshold of 2 leaves room for records that
are lost together, and logs of 3 for an entry, another one with its Id and a
third behind them. Three lives let the process end once and the machine fail
once, in either order, with records that stay unsynced from one life to the next;
a node whose file has three records (`MaxRecords`) takes no more entries. In
`db_linearizable` two entries in a life are two puts, in one batch or two, or one
put twice. The guards that
implement the bounds are `MaxTerm` in `Campaign`, `MaxLog` in the appends,
`MaxInFlight` in `Transmit`, `MaxRestarts`, `MaxLives`, `MaxRecords`,
`MaxStart`, `MaxCommitted` and `MaxBatch`. They only remove behaviours; the theorems hold for every value of
them.

Symmetry is used for safety only. Nodes are symmetric where
`ElectionTimeout = 1` (`id % 1` is 0 for all), and in `raft_entries`, where all ids
are odd; commands and values always are. Deadlock checking is off where the bounds, or finished clients, stop
the system; the run loop's runs check it.

Fairness. `raft_elections`: the ticker of the node runs (strongly fair only because
the in-flight bound, which the code lacks, can disable it), an RPC ends within
its timeout, and of the AppendEntries and answers between the leader and each
peer not all are lost. Nothing is assumed of elections. `RunLoop` and `DB`: the
goroutines of the loop, the apply loop, the scheduler and the callers keep
running; no timeout is assumed to fire, so the wake-ups do not rest on
timeouts. `CommittedEventuallyApplied` excludes a loop that has blocked, which
`runloop_blocks` shows to be possible.

## Findings

Each of these runs checks one statement of the repository and TLC finds a
behaviour of the code that contradicts it.

| run | statement | what happens |
|---|---|---|
| `raft_commit_majority` | `ToApply`: "safely replicated on the majority" (`repl/raft.go:58`) | the answer for entry 1 commits entry 2, which only the leader has |
| `raft_forgotten_vote` | `HardState`: rejoining after a crash is reliable (`repl/sm.go:29`) | a restarted voter elects a second leader |
| `runloop_blocks` | `readyc` "won't block" (`repl/sm.go:163`) | the second Ready blocks the loop |
| `btree_lookup` | a separator makes the new page "searchable" (`node.go:88`) | keys put below the root's first key make a leaf split out of order; a key in it is not found |

More differences noticed on the way, stated here and not as runs:

- After entries were received twice, new ones lie beyond `lastIndex` as
  positions, never reach the WAL and are acknowledged all the same
  (`repl/sm.go:237`: "Send response AFTER entries are persisted"):
  `SavedBeforeSent` of `RunLoop` is violated, and `SavedUnlessRepeated` is what
  remains of it.
- The root offset is never saved, so no start loads a root page
  (`btree.go:91`: "Load root page from disk if it exists"), and the replay, which
  is to "recover B+tree state" (`db.go:84`), leaves out what the metadata page
  calls applied, most often everything: after a restart a node's tree is empty
  until the cluster sends the entries again.
- A crash between the flush of the page at offset 0 and the sync of the header
  leaves a file that no start can open (`up = "failed"` in `PageStore`).
- `replay.go:26` says that the replay takes `lastAppliedIndex < entry.Id <=
  lastCommitIndex`. `GetLogsAfter` goes by position, and Ids start again at 1 in
  every life: from the second restart on the replay may leave committed entries
  out, or put in entries that were never committed.
- `GetLastLogID` returns 1 for an empty log (`wal/wal.go:39` says 0);
  `TruncateAfter(index)` keeps `index + 1` entries (`wal/wal.go:35` says `index`)
  and does not touch the file.
- The first `SyncThreshold` entries are not synced when `Append` returns
  (`wal/wal.go:196` says "durably").
- `encodeLeaf` writes the cells in the order of the offsets and the offsets
  unchanged: a leaf that was decoded would have its cells in another order than
  its offsets say, or offsets without a cell. Nothing decodes one.
- A candidate stays a candidate when it hears the leader of its own term
  (`repl/progress_test.go:280`); a Get waits for the applied index and not, as
  `db.go:199` says, for all committed entries.

## Proofs

All theorems hold for every finite set of nodes, every assignment of ids, every
set of commands, puts, reads and keys, every capacity and threshold, and every
value of the bounds. The assumptions are the ASSUMEs of the modules, each of
which TLC evaluates in a run: nodes are finite in number and `None` is not one
of them, ids are natural numbers, timeouts, sizes and thresholds are positive,
bounds are natural numbers, and the clock of the last start is less than a turn
of the timestamp after the first (the generator's own "before 35 years").

Every inductive invariant below was checked by TLC on the instance of its run
before it was proved. There is one lemma per action.

**`RaftProofs`**, over `CrashSpec`, restarts included: `TypeCorrect`, `NoPanic`.
`NoIndexPanic` is not inductive: whether an append keeps Ids within the slice
depends on the message. `IndexInv` adds that in every log an entry's Id is at
most its position, and that the k-th entry of every message in flight has an Id
of at most `prevLogIdx + k`. The receiver accepts entries only if `prevLogIdx`
is at most its last Id, hence at most its length, which is the whole reason that
duplicates only ever push positions ahead of Ids and never the reverse.

**`ElectionProofs`**, over `Spec`: `OneLeaderPerTerm`, `VotesAreFinal`. `VoteInv`
says: no vote lies in a term its voter has not reached (`NoEarlyVote`), every
vote a candidate counts was cast for it in its current term
(`CountedVotesCast`), every grant in flight is recorded at its sender
(`GrantRecorded`), and every leader has a quorum of recorded votes
(`LeaderElected`). Two leaders of a term would have quorums that intersect
(`QuorumsIntersect`, from cardinalities) in a voter with two votes. The theorems
are about `Spec` and not `CrashSpec`: with restarts they are false
(`raft_forgotten_vote`).

Also in `ElectionProofs`: `TermsAndCommitsGrow` (`Monotonic`) and
`RaftImplementsElections`, from `VoteInv` and two more facts, that nobody asks
for votes or leads in term 0. A step that casts a vote may complete a quorum:
this is the step of `Elections` that decides a term, and votes being final it
cannot decide one twice. A candidate takes office only in a term that is
decided for it.

**`EntryProofs`**: `OneCommandPerId` (`EntryIdentity`). `Created` says where an entry
of a term above 0, in a log or in flight, comes from: the node a quorum elected
for its term, which has left that term since or still leads it with a last Id at
least as high. The Ids a leader gives out next are therefore new.

**`RunLoopProofs`**: `TypeCorrect`, `DeliveredInOrder` (`AppliedInOrder`),
`SavedFirst` (`SavedUnlessRepeated`), `DeliversCommitted` (`ImplementsDelivery`).
`Advance` marks what is committed by then, which need not be what its Ready
carried. `ReadyCurrent` is why the two agree: an event that changes the commit
index or the log makes `Ready` produce a second one, on which the loop blocks
for ever, so a Ready that is taken is current. `AppliedInOrder` cuts the log into
the batches of the channel by positions (`Queued`) rather than flattening the
channel.

**`RecoveryProofs`**: all six invariants of `Recovery`, for any number of lives
and whichever Ids and commands arrive. `WalInv` relates the log of the current
life to the file: the positions up to `stableIndex`, and those of the Ready at
hand that are saved already, have their record, command included, in the file,
although Ids decide what is saved; and nothing is committed beyond `stableIndex`,
which is why what is applied was saved. It also says that Ids do not exceed
positions and that the file has at least as many records as the life has saved,
from which `PageInv` bounds both copies of the metadata page by what is
synced. `FirstLog` and `FirstPage` say what file and page keep of the first life
until they are replayed; from them `ReplayOfCommitted` follows. That theorem is
about positions above the applied index only: what lies below is in the WAL, not
in the tree, and is not replayed.

**`DBProofs`**: `TypeCorrect`, `CommitOrder` and `DeliversInOrder` need no
hypothesis. `Pipeline` says that store, running job, queue and apply channel are
cut, in this order, from the sequence of committed entries, at the commit
indices that travel with the batches. `SuccessIsApplied` and `ReadAfterWrite`
also need that request ids are not given out twice (`IdsPassed`, `Unique`):
the id of a start is a position on a line that `NewGenerator` folds by
`suffixSize`, and positions only grow while the clock keeps the promise of the
guard of `Reopen`. An id does come round after `suffixSize` of them (2^48 in the
code), so these two theorems assume `[]IdsLast`, that fewer were passed since the
first start. `FewPutsLast` shows the hypothesis to hold whenever the puts of all
lives together are no more than the ids that are left between the node's last
start and the turn of the timestamp, `cntSize` per millisecond
(`(FirstStart + tsSize - MaxStart) * cntSize`, in the code 256 for each
millisecond that remains of some 35 years), however fast they come and however
they fall on the lives.

**`StorageProofs`**, over `StoreSpec`: `CleanPagesOnDisk` (`CleanOnDisk`),
`LaterStartsOpen` (`OpensAfterSynced`). `Flushed` says what the flush holds between
two of its steps: unless a put has come between, the buffer is the page
(`write`), and so is the disk (`clean`). Of a put only `PutLeaves` is used: it
changes the leaf it is routed to and may append one, so the result does not rest
on the routing, which may be wrong (`btree_lookup`). `Settled` is the state that
`LaterStartsOpen` says is never left.

**`BTreeProofs`**: `TypeCorrect`, `OffsetsStaySorted` (`OffsetsSorted`),
`GetsReturnLastPut` (`GetsLastPutAboveFirst`). First the operations on one node:
`SearchExists` shows that the recursive binary search is defined, by induction
on the length of the range (`Induction`, for sets of numbers), and `SearchFacts`
that on a sorted node it finds a place where the key belongs; `InsertSorted` and
`SplitSorted` that insertions and splits keep a node sorted. `Shape` collects
this for the whole tree and is inductive, whatever is put.
`GetsLastPutAboveFirst` needs more (`Good`), and only while no key was put below the
root's first cell: separators are strictly increasing and lead to different
pages (`Separates`), every key listed in a leaf is routed there (`Routed`), and in
the leaf a key is routed to all its cells, those no offset points to included,
are listed and have its last value (`Live`). `SplitRoutes` is the core: the new
separator moves exactly the keys from it on that were routed to the split page,
because the first key of that page lies strictly below it and not below the
page's own separator. With a key below the root's first cell this fails, and so
does the lookup (`btree_lookup`).

Model-checked only: the liveness properties, the fairness part of `DB`'s refinement
of `Delivery` included. Fairness and ENABLED are beyond the prover.

## Not modelled

`decode`, `decodeLeaf`, `decodeInternal` and `encodeInternal`: no run of the
program reaches them, because no page is ever read back and internal nodes are
never dirty. `TruncateAfter`, `GetLog`, `GetLogs`, `GetLastLogID`, `NextLogID`,
`setRoot`, `getRoot`, the scheduler's `stop` and parts of the page cache, which
nothing but tests calls. Gets that run between the assignments of a put, and the
race of the flush's loop over the page map with a split (which Go may turn into
a fatal error, for `PageStore` one more crash). Configuration, gRPC wiring, the
command and logging hold no state that matters; generated code and mocks are
left aside.

## Plan

1. `BTree` further: a Get between the steps of a put.
2. Proofs: a simulation from the puts of `PageStore` to those of `BTree`, so that
   the results about lookups carry over to the tree beside its flush.
