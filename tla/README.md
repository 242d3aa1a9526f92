# TLA+ specifications of Binarium Core

Specifications of the concurrent and distributed parts of this repository (a
Bitcoin/Dash Core descendant with masternodes, InstantSend, PrivateSend and
governance), checked with TLC on small instances and, where marked, proved
with TLAPS for every instance.

    tlc -config MCInstantSend.cfg MCInstantSend        # a model-checking run
    tlapm --stretch 1 InstantSendNetworkProofs.tla     # the proofs of a module

Modules that say `USE Zenon` make Zenon the prover of every leaf that names no other;
`SMT` marks the leaves that need arithmetic, records or sequences.

## The system and its parts

A node is one process with many threads: one message-handler thread that runs
all the `ProcessMessage` handlers, RPC threads, the script-check workers, a
scheduler thread, and a clean-up thread (`ThreadCheckPrivateSend`). They share
state under `cs_main` and one lock per component. Nodes talk over unreliable
peer connections; some nodes are masternodes, which vote.

| Part | State | Operations | Hard behaviours | Module |
| --- | --- | --- | --- | --- |
| Script check queue (`checkqueue.h`) | queue, counters, verdict | Add, Wait, worker loop | interleavings, lost wake-ups, counters that wrap | `CheckQueue` |
| InstantSend node (`instantx.cpp`) | candidates, votes, orphan votes, locked and voted outpoints | lock request, vote, own vote, conflict resolution, clean-up, block notifications | message order, timeouts, two critical sections per handler, reorganisations, restarts | `InstantSend` |
| What a node promises | votes heard, locks | hear, complete, release | | `InstantLocks` |
| InstantSend network | votes signed, every node's locks | vote, process, release | lost and reordered votes, faulty masternodes | `InstantSendNetwork` |
| Block acceptance, tx messages | | as far as they drive InstantSend | `fChecked` caching, notifications after unlock | `InstantSend` |
| Memory pool (`txmempool.cpp`, `validation.cpp`) | entries with descendant state, links, fee deltas, rolling fee | admission, replacement, blocks, reorganizations, expiry, eviction | parents that return under their children, bounded repair | `TxMemPool` |
| Headers sync and block download (`net_processing.cpp`) | state per peer, blocks in flight, three counters | inv, headers, block, SendMessages, disconnect | late, lost and unasked answers, stalling, timeouts | `BlockDownload` |
| Task scheduler (`scheduler.cpp`) | queue, thread counter, stop flags | serviceQueue, schedule, stop | lost wake-ups, drain, interruption | `Scheduler` |
| UTXO cache (`coins.cpp`, `txdb.cpp`) | entries with DIRTY and FRESH | FetchCoin, AddCoin, SpendCoin, BatchWrite, Flush, Uncache | flags of stacked caches | `CoinsCache` |
| Chain state (`validation.cpp`) | coin database, pcoinsTip, block view, undo data | connect and disconnect a block, flush, restart | crashes, failed writes, reorganisations | `ChainState` |
| Masternode sync, list and payments, PrivateSend, governance, sporks, caches, version bits, sockets, scripts, wallet, GUI | | | | not modelled |

`PROJECT.json` lists every part with its status, the hazards of the code with
the properties that guard against them, and for every definition the source
lines it stands for.

## CheckQueue

`CheckQueue.tla` models `CCheckQueue` and `CCheckQueueControl` as `ConnectBlock`
uses them. The variables are the members of the class (`queue`, `nIdle`,
`nTotal`, `nTodo`, `fAllOk`) and each thread's locals (`batch` is `vChecks`,
`fOk`), plus the block's checks (`added`) and the returned value (`fRet`).
`Loop` holds the mutex in stretches, and each stretch is an action: `Enter`
(first iteration), `Relock` (account for a finished batch, go on) and `Wake`
(`cond.wait` returned) all end in `LoopBody`, which returns, waits, or takes a
batch of `BatchLimit` checks. `Work` runs a batch without the mutex. `Add` and
`Control` are the master's calls. Condition variables may wake spuriously:
`Wake` needs no notification, only `NotifiedWake`, used for fairness, does.

Run `check_queue` has two workers, four checks (one of which fails) and batches
of at most two, enough for a batch of each size, for a failure recorded by one
thread while another works, and for several blocks one after the other. It checks
the assertion in the control's constructor (`ControlFindsIdle`), that `Wait`
returns the conjunction of all verdicts (`WaitReturnsConjunction`), and that the
counters are exact (`NTodoCountsPending`, `PoolCounters`). It also
checks that `Wait` returns, under weak fairness of each thread's work and of
wake-ups that were notified: a runnable thread eventually runs, but no spurious
wake-up is promised, so a forgotten `notify_one` shows. Workers are not assumed
to ever enter the pool.

`CheckQueueProofs.tla` proves all five invariants for any workers, checks and batch
size. The inductive invariant `IInv` adds that batches are disjoint from each
other and from the queue and belong to working threads (`BatchesDisjoint`; without
it the cardinalities cannot be subtracted), and what the local and the shared
verdicts say about the checks already finished (`VerdictsSound`). All three loop
entries reach the same intermediate state, so the preservation proof of `LoopBody`
is done once (`LoopBodyKeepsIInv`) and cited from each.

## InstantSend

`InstantSend.tla` is one node. The maps of `CInstantSend` are the fields of the
record `instantsend`; each procedure is an operator from record to record, so
that an action composes the calls its handler makes, in their order.

* `RecvLockRequest(t)` and then `AcceptLockRequest` or `RejectLockRequest`: the
  txlreg branch of `net_processing.cpp`. `ProcessTxLockRequest` runs and releases
  `cs_main`; the handler takes it again for `AcceptToMemoryPool`,
  `AcceptLockRequest` and `Vote`. `handling` remembers the request in between.
* `RecvTx`, `SendLockRequest` (sendrawtransaction with instantsend) and
  `RelayWalletTransaction`: the other ways in.
* `RecvVote(v)`: `ProcessMessage` with `ProcessTxLockVote`; the orphan branch is
  `ProcessOrphanVote`, the other `ProcessCandidateVote`.
* `CleanUp`: `CheckAndRemove` from the clean-up thread. It is also called, inside
  other actions, by `DropBoth` (two conflicting completed locks).
* `AcceptBlock`, `ConnectTip`, `NotifyTip`: the steps of `ProcessNewBlock` between
  which `cs_main` is free. `DisconnectTip` is a reorganisation.
* `Evict(t)`: `LimitMempoolSize` drops a transaction, whatever InstantSend knows of
  it. An admission ends with `AcceptToMemoryPool`'s own `SyncTransaction` (`Admitted`).
* `Tick` and `Restart`: time, and the loss of everything that is not on disk.

Left out: the orphan-vote rate limiter (it only chooses a return value no caller
uses), relaying, the wallet, spork values (both on), changes of the masternode list.
Votes are unforgeable: peers send only votes of `PeerVotes`, which is any set of other
masternodes' votes. `AcceptToMemoryPool`'s policy may refuse anything.

A vote may name an outpoint that its transaction does not spend. `IsValid` does not
look at that; `ProcessTxLockVote` records the hash in `mapVotedOutpoints` before
`AddVote` refuses the vote ("this should never happen", instantx.cpp:411), and
`CheckAndRemove` erases a candidate's hash from the candidate's own outpoints only.
The hash may so outlive the candidate, and `Vote()`, which does not compare the
iterator with `end()` (239-240), then reads behind the map. `Dangling` is the set of
inputs where it does, and the outcome is a choice: a crash (`Restart`), or it takes
any of them (`D`) for voted on already. `VotedHashesHaveCandidates` says that this is
the only way to get there.

`heard`, `cast` and `told` are history variables: valid votes processed, votes
signed, locks announced.

| Run | Instance | Shows |
| --- | --- | --- |
| `instantsend` | A spends o1, B spends o2 and o1; three masternodes of which two must sign; one votes for both on o1, and for A on o2; two blocks, kept for 0; no rare events | no block against a lock, no two conflicting locks announced, detection of double votes, release only after burial, refinement of `InstantLocks` |
| `instantsend_faults` | one signature suffices; one other masternode votes for B; one block, kept for 2; up to two rare events | two conflicting locks complete and `ResolveConflicts` drops both; quorums behind locks, whole locks, no pool entry against a lock, one vote per outpoint until a restart, clean-up keeps the votes behind locks |

Ticks of the clock, evictions, disconnected blocks and restarts are rare events, and
`RareEvents` is the set of combinations that may come together: two ticks pass both
timeouts, and every pair is there but those of a restart with a disconnected block or
a tick (the restart forgets all heights and times; with a tick after it the run also
passes, but takes twice as long).

The bounds are the smallest at which each branch is taken: two transactions for a
conflict, two inputs for partial conflicts, three masternodes so that two quorums
intersect in one of them, two blocks so that a lock expires where
`nInstantSendKeepLock` is 0. `OtherThreads` says whether RPC, miner and wallet threads
run between the critical sections of `ProcessNewBlock`; the message thread itself
never does. Run `instantsend` reaches states with a dangling hash (A is mined and
expires, o2 keeps its hash), but no `Vote()` reads it there, since B conflicts with A;
what a `Vote()` that does may do to the other properties is covered by the proofs. `LongChain` (the node starts higher than `nInstantSendKeepLock`) is what
the code needs when it sets a confirmed height to 0 so that a candidate expires.

Some properties hold with an exception, which the proofs made exact. `Shallow` says
that no more blocks were disconnected than a lock is kept for: what `CheckAndRemove`
forgot as buried may otherwise come back. `LocksAreWhole` and `VotesOnceUntilRestart`
except outpoints on which a transaction was mined (its expiry frees the inputs,
whoever holds them, and forgets the votes) or rejected (two conflicting locks that
completed are dropped). `VotesBehindLocksKept` excepts a vote that is an orphan too:
a restarted masternode that gets its own vote back before the request holds it as an
orphan, signs it again, and loses it when the orphan times out (a restart and a tick).

Three runs end in a violation, each of something the sources say of themselves
(quoted in `PROJECT.json`):

* `submitblock_race`: with blocks from another thread, a lock completes after
  `CheckBlock` has passed the block and set `fChecked`, and the block is connected.
* `votes_after_restart`: a restarted masternode votes again on an outpoint.
* `early_votes`: votes that precede their request are never counted, since
  `ProcessOrphanTxLockVotes` has no caller.

The model also shows that the node's own vote, or a repeated request, may complete
a lock after `INSTANTSEND_LOCK_TIMEOUT_SECONDS`: only votes of peers ask
`IsTimedOut`. The lock still has its quorum.

### Proofs

All hold for any transactions, outpoints, votes, quorums, timeouts, bounds and
schedules, from `ConstantsAssumption` and `LongChain`.

`InstantSendProofs.tla`: the invariant `IInv` of the maps, the memory pool and the
chain. `RInv` is its part about the record of maps: counted votes were heard and come
from the quorum; holders of locks, and hashes in `mapVotedOutpoints` whose transaction
spends the outpoint, are candidates with outpoint locks; a lock is backed by enough *counted* votes (`LocksAreBacked`: a
lock that only had been ready once could lose its votes). One lemma per procedure says
that it keeps `RInv` and changes locks only by releasing or by completing one free of
conflicts (`LockStep`); the actions compose these lemmas as they compose the calls.
It follows that the maps keep their shape (`Typed`), that pool entries respect locks
(`PoolRespectsLocks`), that `Vote()` finds a candidate for every hash but those that
a vote on a foreign outpoint left (`VotedHashesAreCandidates`), that bans are deserved (`OnlyDoubleVotersAreBanned`) and,
if not `OtherThreads`, that blocks respect locks (`BlocksRespectLocks`).

The second part of `InstantSendProofs.tla` and `InstantSendTheorems.tla`: the invariant
`SInv`, which is `Settled` as long as the chain is `Shallow`. Its parts are `VInv` about the maps (only
buried candidates are expired, `mapVotedOutpoints` knows every counted vote, counted
double votes have spoilt both candidates, locks are whole) and facts about the node:
confirmed heights are those at which the chain holds the transaction, the node's
cached height runs ahead of the chain at most by the blocks undone, this masternode's
votes are still counted, announced locks are still held. `Buried`, the transactions
that no shallow reorganisation returns, is what lets `CheckAndRemove` forget.

| Theorem | Property | Assumes |
| --- | --- | --- |
| `LocksRestOnQuorums` | `LocksHaveQuorums` | |
| `VotesOnce` | `VotesOnceUntilRestart` | |
| `LocksHeldWhole` | `LocksAreWhole` | |
| `DoubleVotesSpoil` | `DoubleVotesSpoilBoth` | majority quorums, `Shallow` |
| `VotesOnceWhileRunning` | `VotesOncePerOutpoint` | majority quorums, `Shallow`, no restart |
| `AnnouncedLocksAgree` | `NeverAnnouncesConflictingLocks` | the same, not `OtherThreads` |
| `LocksStayUntilDone` | `LocksReleasedOnlyWhenDone` | majority quorums, `Shallow`, not `OtherThreads` |
| `MapsImplementInstantLocks` | `ImplementsInstantLocks` | majority quorums, `Shallow`, no restart |

`MajorityQuorums` is 2 x `SIGNATURES_REQUIRED` > the quorum's size, as 6 of 10 is.
Without it two conflicting locks may both complete, which drops both with their votes
(run `instantsend_faults`), and the invariant speaks of rejected transactions instead.

## InstantLocks and InstantSendNetwork

`InstantLocks.tla` is what a node promises: locks complete on a quorum of votes it
has heard for every input, never over another lock; its own masternode votes once
per outpoint. Run `instantsend` checks that `InstantSend` implements it
(`ImplementsInstantLocks`: `signed` is the peers' votes and its own, `locked` is
`mapLockedOutpoints`), and `MapsImplementInstantLocks` proves it. After a restart or a
deep reorganisation the voting promise fails (`votes_after_restart`), so the theorem
excludes them and such masternodes count as faulty in the network.

`InstantSendNetwork.tla` composes nodes: `CastVote` is an honest masternode's
vote, `SignAnything` a faulty one's, `Process` the arrival of any signed vote at any
node, `Release` expiry or restart. `NodesAreInstantLocks` checks that every node is
an `InstantLocks`. `completed` remembers every transaction any node ever locked.
The run has three honest masternodes and a faulty one with three signatures of
four, and two nodes, one of them a masternode.

`InstantSendNetworkProofs.tla` proves, for all sets of nodes, masternodes,
transactions and outpoints, that two conflicting transactions are never both
locked, at any nodes and times (`LocksNeverConflict`), that nodes' locks agree
(`NodesAgree`), and that every node that is not faulty is an `InstantLocks`
(`NetworkOfInstantLocks`), which closes the chain from the maps to the network. The one assumption is `QuorumAssumption`: twice the required
signatures exceed the quorum's size plus its faulty members; 6 of 10 allows
one. The inductive invariant says that honest masternodes sign once per
outpoint, nodes hear only signed votes, and completed locks have a signed quorum;
the last must speak of `signed` rather than of a node's votes, since locks are
released and nodes restart. Agreement follows since two quorums share an honest
masternode (`QuorumsIntersect`, by counting).

## CoinsCache and ChainState

`CoinsCache.tla` has one operator per operation of `CCoinsViewCache`, on the entry
of one outpoint: a cache treats its outpoints independently, so a cache is a
function from outpoints to entries. An entry has a coin (or `Spent`) and the flags
DIRTY and FRESH. `AddThrows` and `WriteThrows` are the two `logic_error`s.

`ChainState.tla` stacks the database (`coinsdb`, `dbBest`), `pcoinsTip` (`tip`,
`tipBest`) and the view of the block in hand. `BeginConnect` and the checks of the
whole block, one `ConnectTx` per transaction (`HaveInputs`, then `UpdateCoins`) and
`FinishConnect` (undo data, `SetBestBlock`, `view.Flush`) are `ConnectTip`;
`BeginDisconnect`, `DisconnectTx` and `FinishDisconnect` are `DisconnectTip`. A block
may be refused at any point. `FetchToTip` and `UncacheFromTip` are the mempool's
lookups. `FlushStateToDisk` writes the dirty index entries and then the coins;
`WriteIndex` is the periodic write of the index alone, and a crash between the two
writes is `WriteIndex` followed by `Crash`. `LowDiskSpace`, `IndexWriteFails` and
`CoinsWriteFails` end in `AbortNode`. Whatever the code would answer with an
exception, an assertion or `DISCONNECT_UNCLEAN` sets `job.op` to `"error"`.

The BIP30 check is taken as enforced; the code skips it only past BIP34, where
coinbases cannot repeat. Between an `AbortNode` and the shutdown nothing else runs
in the model; in the code another block trips `ConnectBlock`'s assertion on the best
block, which is a crash, and another flush acts like the one of the shutdown.
Pruning, the optional indexes and undo records without a height are left out.

The reference is `CoinsAt(b)`, told from the chain without replaying it: the last
block on the chain that touches an output decides it. Run `chainstate` has two
branches that mine the same transactions at different heights, an output created
and spent in one block, a coinbase and a plain root coin (the two values of
`possible_overwrite` on undo), a double spend and a repeated coinbase. It checks
that the cache and the database hold the coins of the block each names, that undo
data reaches the disk before the coins that need it, that the flags are sound and
that no error is raised.

`chainstate_disk_error` ends in a violation: `CCoinsViewDB::BatchWrite` empties the
cache before the write; if the write fails and the flush of the shutdown succeeds,
the database names a block whose coins it does not have. The constant
`TransientErrors` says whether a failed database may accept a later write.
With it a failed write of the index has a like effect: the entries have left
`setDirtyBlockIndex`, the flush of the shutdown writes the coins, and the undo data of
their chain is not found after the restart. `UndoDataSurvives` is checked, and proved,
without such errors.

`ChainStateProofs.tla` proves first what each operation of the cache does to one
entry over any base, and then all six invariants for every block tree, from
`TreeAssumption` (heights grow along a chain), `BodyAssumption` (what `CheckBlock`
leaves) and `~TransientErrors`. The inductive invariant `IInv` pins the view to
`After(b, i, ...)`, the reference after i transactions of the block in hand, in both
directions. Undoing needs to know that the block was valid when it was connected, so
`UndoOK` keeps that with the undo data, in memory and on disk. `AfterStep` is the
heart: with BIP30 and `HaveInputs` no output of a block was spent or created
earlier in it.

## TxMemPool

`TxMemPool.tla` is `CTxMemPool` with its callers in `validation.cpp`. Everything
runs under `cs_main`, so an action is a whole call: `Accept` (a transaction
arrives), `ConnectTip`, `Reorganize` (an `ActivateBestChainStep` that leaves some
blocks and connects others), `InvalidateBlock`, `PrioritiseTransaction`. Each
procedure of the class is an operator from pool to pool, composed as the code
calls them; a failed assertion sets `failed`.

An entry has its descendant state (`count`, `size`, `fees`; a dirty one has count
0), fee delta, time and links. In a reorganization `DisconnectTip` admits the
block's transactions again without the memory limit, removes the spenders of those
that are refused, and `UpdateTransactionsFromBlock` repairs the state of parents
that came back under their children, within `maxDescendantsToVisit`.

Run `mempool` has seven transactions: a parent with two children that share a
child, which has one of its own; a replacement, a coinbase spender, one with a lock
height; four blocks, up to three deep; a pool of four entries; a visit limit of 1.
So the repair of the parent succeeds for the diamond alone, whose last entry it must
count once, and gives up with one entry more. The run checks what `check()` and
`removeForReorg` assert (`CheckPasses`), that descendant state is exact or marked
dirty (`DescendantStateExact`), and that what was evicted stays out until a block
(`TrimmedStaysOut`). After `InvalidateBlock` the code does not call `check()`, but
its assertions hold there too.

`TrimmedStaysOut` is the comment at txmempool.cpp:1140-1141, with an exception the
comment does not make. Entries are evicted in the order of max(own rate, package
rate), and the rolling fee rises by the package's rate. Where the descendants form a
tree an entry that pays more than its package always has a descendant that comes
before it, so the two agree. Where descendants meet again this fails, as the shared
ones count in the packages of all their ancestors: in the instance the parent pays 94
per 1000 bytes, its package 84, both children's packages more; the parent goes first,
the fee becomes 94, which it pays, and it may come back at once. `Trimmed`
leaves out such a transaction (`MeetBelow` and `PaysMoreThanPackage`); without this
the run fails. No size divides the fee, so both roundings (of the rate in `CFeeRate`,
of the fee in `GetFee`) happen; they are harmless as long as the relay fee is worth a
unit on the smallest transaction, (minReasonableRelayFee - 1) x Size >= 1000, as it is
in the instance and by far with the default.

Abstractions: every transaction is standard, signed and pays the relay fee; none
is a lock request (see `InstantSend`); memory usage is the number of entries; the
half-lives of the rolling fee are chosen with each arrival, and none passes within
a reorganization; only non-negative fee deltas, one per transaction at a time; no
sequence locks (BIP68). Priority, the fee estimator and the optional indexes are
left out.

## BlockDownload

`BlockDownload.tla` is the part of `net_processing.cpp` that decides whom to ask
for headers and blocks. `st` is `mapNodeState`, `mapBlocksInFlight` and the
counters `nSyncStarted`, `nPreferredDownload` and `nPeersWithValidatedDownloads`.
The handlers are `Version`, `Verack`, `Inv`, `Headers` (reached through a peer's
answer or announcement) and `Block`. None of the last four asks for more than the
VERSION message (`AfterVersion`). `ThreadMessageHandler` comes to the peers in turn.
`Serve` is `SendMessages` after the VERACK: it starts the headers sync, finds stallers
and timeouts, and asks for blocks. `PassOver` is a round in which it returns at once,
since the VERACK is missing or another thread holds `cs_vSend` or `cs_main`.
`InitializeNode` and `FinalizeNode` open and close connections. Times are kept as
ages, capped where they make no more difference.

Run `block_download` has an honest peer with a chain of three blocks and a second
peer with a branch, which may answer late or never, announce, send a block unasked,
keep its VERACK back, and leave. Two requests per peer and a window of two let a queue
hold more than its first block and one missing block hold up the window. The run
shows that queues, map and counters agree (`InFlightIsQueued`, `CountersExact`, with
which `FinalizeNode`'s assertions hold), that only a peer that owes a block is timed
as a staller (`StallersOweBlocks`), that an honest peer is never dropped
(`HonestPeersStay`), and that its chain arrives (`SyncCompletes`).

The honest peer answers headers at once, and blocks in the order they were asked for,
at least one in every tick; it is not assumed to empty its queue. `late` remembers
that it has not yet sent its block of the tick. It may be asked for a block that
meanwhile came from the other peer and send that first, so its next block can be two
ticks old when it arrives: the stalling and download timeouts are 2. A download clock
that is not started again for the next block of the queue then drops it.

Fairness: the handler thread comes to every peer again and again (its loop has no
other exit than shutdown) and does not find the locks taken every time, the socket
thread finalizes closed connections, time passes, the honest peer connects, and again
and again it has answered everything. Nothing is assumed of the other peer. The
headers timeout needs a second preferred peer, which the instance has; the honest peer
is whitelisted, as `HeadersSyncTimeout` treats such a peer differently.

`SyncCompletes` has an exception: a peer that never sends its VERACK. Its INV or
HEADERS make the node ask it for blocks near the tip, but all timeouts of requests are
in `SendMessages`, which returns before them, and the inactivity check of `net.cpp`
drops only a connection on which nothing moves. Such a peer may hold a block for as
long as it likes (`HoldsWithoutVerack`); without the exception the run fails.

Abstractions: all blocks are valid and of equal work; a block is recent or old; no
ban scores, rejects, one-shot or client-only peers, minimum chain work or limit on
blocks far ahead; other peers than the honest ones answer for blocks in any order,
all answer for headers in order.

The blocks are any tree: `PathTo` gives the chain that leads to a block, heights are
lengths and ancestors are prefixes of it (`TreeAssumption`).

### Proofs

`BlockDownloadProofs.tla` and `BlockDownloadTheorems.tla` prove the three agreements
for any peers, block tree, timeouts and limits, from `TreeAssumption`,
`PeersAssumption` and `LimitsAssumption`. The heart is `StateInv(s)`, a predicate on
the value of `st`, since `SendMessages` and the HEADERS handler compose several calls
within one step: every queue holds each block once and `mapBlocksInFlight` names its
owner, every block in flight is in its owner's queue, each counter is the number of
peers it stands for, and a staller's queue is not empty. One lemma per procedure says
that it keeps `StateInv` (`ReceivedKeeps`, `InFlightKeeps`, `RequestKeeps`,
`StartSyncKeeps`, `HeadersTimeoutKeeps`, `FetchKeeps`, ...). What
`FindNextBlocksToDownload` and the direct fetch return is typed by lemmas about
their walks (`FindType`, `DirectFetchType`); a walk is a recursive function over an
interval, for which induction on a set of numbers suffices. `FetchKeeps` needs that
the peer blamed for the window is the owner of a block in flight, so that its queue is
not empty when its clock starts. `IInv` adds that the peers with a state are those
whose connection is open.

| Theorem | Property |
| --- | --- |
| `InFlightQueued` | `InFlightIsQueued` |
| `CountersAreExact` | `CountersExact` |
| `StallersOwe` | `StallersOweBlocks` |

## Scheduler

`Scheduler.tla` is `CScheduler`. Each stretch in which `serviceQueue` holds
`newTaskMutex` is an action: `Start`, `Wake` (either wait returns without a timeout,
also spuriously), `TimeOut`, `Relock` (the task has returned) all come to `LoopHead`
or to `TakeFirst`. `schedule` and `stop` notify after they unlock, in actions of
their own, so that a notification can come late. `Interrupted` is `interrupt_all` at
shutdown, in a wait or in a task.

Run `scheduler` has two threads, a repeating task and one that runs once, and three
instants. It checks the destructor's assertion (`DestructorFindsNoThread`), that a
drain leaves nothing (`DrainLeavesNothing`), that scheduled tasks are taken
(`ScheduledTasksRun`) and that threads end when told to (`StopEndsThreads`), under
weak fairness of the clock, of callers within a call and of threads that can run: a
notified, timed-out or interrupted wait returns, a spurious wake-up never has to.
`Repeat` schedules its task again whatever `stop` was told, also at the end of the
clock: the entry then lies beyond `MaxTime` and is never due. `ScheduledTasksRun` is
therefore about the tasks due by `MaxTime`. And a drain ends the threads only when no
task repeats: with one, the queue is never empty for good and `stop(true)` leaves the
threads running, which `StopEndsThreads` states as its condition. (The node itself
ends its scheduler thread by interruption.) The notification of `stop` is what the
second half rests on; that of a thread that leaves (scheduler.cpp:82) only makes the
others leave sooner, since after a stop nobody goes back to a wait without deadline.

`SchedulerProofs.tla` proves the first two for any threads and tasks. The inductive
invariant `IInv` says that the counter is the number of threads inside
`serviceQueue`, and that when the last thread has left, it found the queue empty
unless a stop or an interruption made it leave; a task can be queued only by a caller
before the stop or by a thread that has not left. `OneThreadRunsOnTime`: with a
single thread, as `init.cpp` starts it, no task runs before its time; the invariant
`OneThread` adds that a thread that waits for a deadline will find a task due by then
(`DeadlineIsQueued`), which nobody else can take. With two threads a task may run early: a thread
whose deadline has passed takes whatever is then first.

## What is only model-checked

* Liveness (`WaitReturns`, `ScheduledTasksRun`, `StopEndsThreads`, `SyncCompletes`):
  TLAPS has no support for fairness and `ENABLED`.
* `VotesBehindLocksKept`: its proof would carry the time and height of every vote
  through all procedures.
* `HonestPeersStay`: it depends on what the honest peer's answers contain and on when
  its requests were sent, beyond `IInv`.
* `TxMemPool`: it walks transaction graphs with recursive operators, and what these
  compute for every input needs induction over data, which the provers do not do.
* The violations: TLC's counterexamples are the evidence.

## Not modelled

* The masternode list, synchronisation and payments: states depend on ranks
  computed from block hashes, on signatures and on ping times.
* PrivateSend: sessions over denominated amounts, collateral and signatures.
* Governance, sporks: maps of signed objects, each newest or most-voted one kept,
  that the modelled parts only read as settings.
* Bounded caches, version bits, difficulty: sequential code without shared state,
  with unit tests of its own.
* Address manager, sockets, RPC, wallet, GUI, mining: randomised choices, I/O or
  front ends. The wallet's and the RPC's lock requests are actions of `InstantSend`.
* Script interpreter, keys, LevelDB: computation over byte strings and libraries.
* Of modelled parts: orphan transactions, relay inventory, ban scores, pruning and
  the optional indexes.
