# A TLA+ verification of NeOx-Ghost

NeOx-Ghost is a GNU Hurd: a set of servers and libraries over the Mach
microkernel. This directory holds TLA+ models of its parts, TLC configurations
that check them on small instances, and proofs that TLAPS checks. The first
part, and so far the only one, is the metadata journal of `ext2fs`, which is the
piece with the most threads, the most state and the hardest promise to keep:
that a crash at any moment loses nothing it said was safe.

`PROJECT.json` lists, in machine-readable form, the components, the runs, the
mutants, the source lines behind each definition, the hazards, the findings and
the theorems.

## 1. Inventory

| part | state | operations | what makes it hard |
|---|---|---|---|
| **ext2fs journal** (`ext2fs/journal.c`) | `struct journal`: ring head, tail and free count, running and committing transaction, checkpoint list; the lifeboat; a thread-local queue | start, stop, dirty, commit, set_sync; notify changed and written; kjournald; forced checkpoint; quiesce; the write and read filters of the disk pager | four kinds of committers; every I/O drops the lock; crash at any moment; the journal and the pager wait for each other |
| **ext2fs disk pager, sync and shutdown** (`ext2fs/pager.c`) | pages, block references, in-flight writes | page in, page out, sync, shutdown | writes pages on the kernel's account, in between any two steps of the journal |
| ext2fs allocation, inodes, directories | bitmaps, inodes in core | allocate, free, truncate, write a disknode | clients of the journal, through handles and pokes |
| libports | port rights, buckets, classes, RPC lists, two generations of threads | begin and end an RPC, inhibit, resume, no-senders, deferred dereference, thread pool | inhibition against running RPCs; reclamation without locks; atomic thread counters |
| libpager | worker queues, page states | demux, data request and return, lock object, inhibit workers | per-object order across workers; waiting from inside a worker |
| libpipe | a queue of packets, reader and writer counts, selecting threads | send, receive, select on one or two pipes | lost wake-ups |
| auth | pending users and servers | user and server half of a rendezvous | interruption while the other half is being answered |
| libfshelp | lock boxes, record locks, transboxes | flock, upgrade, record locks, start a translator | waiters and upgrades |
| libdiskfs | node cache, name cache, hard and soft references | look up, drop, lock nodes | references taken while a node is dropped |
| libihash, libhurd-slab | hash tables, slabs | insert, remove, locate; allocate, free | pure algorithms with a simple reference |
| proc | processes, groups, sessions, waiters | wait, exit, setpgrp | a parent waiting while children change |
| other servers, translators, utilities | | | listed in `PROJECT.json` with the reason they are left out |

The journal is reached in four ways. RPC threads of libdiskfs run file system
operations, change blocks through the mapping of the disk pager and report them
(`record_global_poke` calls `journal_notify_block_changed`). kjournald wakes
every five seconds or on demand and commits. The worker of the disk pager passes
every page through `journal_store_write` and `journal_store_read`. Sync and
unmount go through `journal_sync_everything` and `diskfs_shutdown_pager`.

## 2. Modules

| module | models | extends |
|---|---|---|
| `JournalRing` | arithmetic of the ring: next block, the two computations of `j_free`, space needed, `tid_gt` | |
| `Journal` | the journal with its threads, the store and the page cache | `JournalRing` |
| `JournalCrash` | what a crash may leave on the store, JBD2 replay of it, and the properties about both | `Journal` |
| `TransactionPipeline` | the abstract specification of the order of transactions | |
| `BlockMap` | the Robin Hood hash map of a transaction's buffers | |
| `MCJournal` | programs of the clients, for TLC | `JournalCrash` |
| `JournalRingProofs` | theorems on the ring | `JournalRing` |
| `JournalOperatorProofs` | the six moves of the pipeline; typing and effect of every operator of `Journal` | `Journal` |
| `JournalClientProofs` | each action of an operation keeps the types and makes one move | `JournalOperatorProofs` |
| `JournalCommitProofs` | the same for forced checkpoints and commits | `JournalClientProofs` |
| `JournalProofs` | the same for kjournald and the pager; the theorems | `JournalCommitProofs` |

### State of `Journal`

* `J` is `struct journal` and what hangs off it. `J.txn[x]` is the transaction
  with tid `x` (`t_state`, `t_updates`, `t_log_start`, `t_outstanding_io`,
  `t_sync_needed`, the freed extents), `J.buf[x][b]` its buffer for block `b`
  (`jb_is_written`, `jb_needs_copy`, `jb_is_flushing`, the lifeboat slot, the
  shadow copy), `J.mask` and `J.payload` the lifeboat.
* `D` is the store: the journal superblock, the ring, the home blocks. A cell
  has what a read returns (`now`) and the set of what a crash may leave (`may`).
* `M` is the page cache of the disk pager: contents, dirty and absent pages,
  the global pokel (the pages that the next sync asks for), inode changes still
  in core, and the node locks.
* `th[t]` holds the locals of thread `t`. `th[t].stack` lists the steps it has
  left, innermost first: a call pushes the steps of the callee, so that for
  example a forced checkpoint can run inside a start, a commit or a drain, as in
  the code.
* `faulting` is the thread stuck in a page fault with `j_state_lock` held.
* `durable` is a history variable: for each block the updates that finished
  commits have promised (`kept`), and those that went with a freed block (`gone`).

The content of a block is the set of updates it holds, each one the client and
the position of the call in its program, so two updates of one block by one
client are told apart. Contents only grow, so a lost update is a smaller set and
every property about data is a subset or an equality.

### Actions

One action is what a thread does between taking `j_state_lock` and dropping it,
or one I/O between two such sections. The critical sections are composed of pure
operators named after the functions (`Join`, `StopHandle`, `DirtyBlocks`,
`NotifyWritten`, `ClearCheckpoint`, `BeginCommit`, ...), so an action that calls
several functions under one lock applies them all.

* *Operations:* `StartTransaction`, `WriteBlock`, `NotifyBlockChanged` and then
  `PokelAdd` (the two halves of `record_global_poke`), `DirtyBlock`, `RecordFreedBlocks`, `SetSync`, `StopTransaction`,
  `CommitTransaction`, the waits, node locks, and the steps of unmounting.
* *Checkpoints:* arming the thread-local breaker, writing the nodes held in core
  (their blocks go to the deferred queue), taking the pokel and syncing its
  pages, clearing the list, draining the queue.
* *Commits:* waiting for the slot and for handles, descriptors and data one log
  block at a time, flush, commit record, flush, the lifeboat pass with its
  unlocked writes, finishing, forgetting freed extents, or aborting. A log write
  that fails may leave the block as it was, as it should be, or torn.
* *kjournald* and *the pager:* page-out, the write hazard filter with its four
  outcomes, the home write, the notification, page-in with the overlay,
  eviction.

The order of operations inside one client comes from the constant `Program`, a
sequence of calls. `MCJournal` defines the programs after the real call
sequences: an asynchronous or O_SYNC update of a block, two blocks in one
operation, an inode written under its node lock, a block freed and reused, an
unmount.

### The environment

Switches select what the surroundings may do, so that each question is asked in
the smallest world in which it is interesting: `WriteCache` (the device has a
volatile cache), `Writeback` (the kernel writes pages when it likes), `Evicts`
(it drops them), `WriteErrors` (log writes may fail), `InCore` (inodes with
changes not yet in their block).

Recovery is external. `ext2fs` refuses to write to a file system whose journal has
`s_start` other than 0 and leaves replay to `e2fsck`; `JournalCrash` defines the JBD2 replay of the
format `journal.c` writes. A crash is not an action: the properties quantify over
every image each reachable state may leave, which covers a crash at any moment.

## 3. Runs

`tlc -config <run>.cfg <module>`; sizes are distinct states.

### What holds

| run | states | question |
|---|---|---|
| `pipeline` | 233 000 | Two operations share a block that the pager writes, with two lifeboat slots: order of transactions, counters, slots, waiters; `Journal` implements `TransactionPipeline`. |
| `durability` | 167 000 | Two operations on two blocks, free write-back: any crash recovers whole transactions and everything promised. |
| `lifecycle` | 840 | A whole mount on a ring of seven blocks that wraps, a block freed, an unmount: every synchronous update survives from its return on, nothing reclaimed is replayed, clean at the end. |
| `checkpoint` | 155 000 | Ring short of space, inodes in core: the deferred queue loses no block, and no commit runs over the log of another. |
| `small_ring` | 150 000 | A nested operation, checkpoints inside commits and drains, failing log writes, an unmount: handles, commit slot and waiters stay right. |
| `barriers` | 100 000 | Volatile write cache, transactions of two descriptors that wrap, pages dropped and read again: the two flushes keep replay whole and the log intact. |
| `progress` | 2 600 | Under fairness operations return, and kjournald commits what they leave. |
| `block_map` | 303 000 | Lookup, iteration and probe distances agree with a set, for all patterns of collisions. |

The properties are stated, with the code they are about, where they are defined:
at the end of `Journal`, `JournalCrash` and `BlockMap`. For each of them
`PROJECT.json` names a mutant, an operator next to the one it replaces, with which
TLC finds the property violated.

Deadlock is not checked: a client's program ends, and a finished file system
with a clean journal has nothing to do. That waiting threads are served is
stated as properties instead (`WaitersServed`, `OperationsFinish`,
`NoCommitCycle`, `PagerNotBlocked`, `NoSelfLock`, `PagerNotSelfWaiting`).

### What does not hold

In these runs TLC finds a behaviour of the code that a comment or a header says
cannot happen. `PROJECT.json` quotes the line.

| run | what TLC shows |
|---|---|
| `split_sync` | kjournald locks a transaction in the middle of an operation. Blocks join the transaction that is running, not the one of the handle, so the rest of the operation is in the next one, and a synchronous operation returns with half of it logged. |
| `forced_clear_sequence` | A checkpoint forced in the middle of a commit writes the next tid as the sequence number of a log that starts with an earlier one; replay finds nothing. |
| `incoherent_read` | A page intercepted after the lifeboat pass of a commit stays with a transaction on the checkpoint list, where the overlay does not look: a page-in returns the older block. |
| `nested_sync` | A nested operation that is flagged synchronous waits for the commit slot, whose owner waits for the outer handle of the same thread. |

### Further behaviours

The passing runs keep some situations out by their environment and programs,
never by changing the code: `durability`, for example, has a ring large enough
that no checkpoint is forced, and one writer per block. These are the situations,
as changes to `durability.cfg`. TLC shows the property violated in each; "2, 2"
stands for `MinBatchBlocks = 2, MetadataOverhead = 2`.

| property | program | other changes | what happens |
|---|---|---|---|
| `OperationAtomic` | `TwoBlocks` | one client, no write-back | A split operation is half there after a crash (1890). |
| `ReclaimedAreHome` | `SharedAsync` | one block | A page captured before a change and written after its commit marks the change as written (2303). |
| `ReclaimedAreHome` | `Crowded` | 2, 2, `MaxTid = 5`, no write-back | A forced checkpoint frees a transaction whose block its sync left in the lifeboat (1434). |
| `ReclaimedAreHome` | `Reused` | one block, no write-back | A block freed and reused in one transaction is forgotten with its new content (1264). |
| `LifeboatAlwaysAfterLog` | `SharedAsync` | one block | In the first commit on an empty log, intercepted pages go home while `s_start` is 0 (1924). |
| `NoSlotLeak` | `WrittenThrice` | one block | Two page-outs during one lifeboat write leak a slot (2178). |
| `FreeIsHonest` | `Disjoint` | none | `j_free` is one too high (1064). |
| `PendingReplays` | `ThreeSync` | one client, no write-back, `WriteErrors` | A failed commit leaves a gap in the sequence that replay does not cross (1969). |
| `ReplayedAreLive` | `ThreeSync` | one client, no write-back, `WriteErrors` | A commit record whose write was reported failed is on the medium: recovery replays a transaction that was aborted (1916). |
| `SyncSurvives` | `TwoSync` | one client, `WriteCache` | The superblock may be on the medium before the home block it relies on (1246). |
| `SyncSurvives` | `BothSync` | no write-back, `WriteCache` | Waiters are woken before the superblock they rely on is flushed (1954). |
| `WriteAhead` | `SharedAsync` | one block | A page changed but not yet reported goes home unlogged (2189). |
| `NodesJournaled` | `Crowded` | 2, 2, `MaxTid = 5`, no write-back, both blocks in core, `MaxDeferred = 1` | A block that does not fit in the deferred queue is dropped (2416). |
| `NodesJournaled` | `BothSync` | 2, 2, `JLast = 6`, `MaxTid = 5`, no write-back, both blocks in core | A checkpoint forced while the queue is drained empties it first (1426). |
| `CommittedSurvives` | `AsyncThenUnmount` | one client | Unmounting while kjournald commits marks the journal clean with a block in the lifeboat only (2048). |
| `PagerNotBlocked` | `SharedAsync` | one block, `Evicts` | The last handle copies from a dropped page with the lock that its page-in needs (1116). |
| `NoSelfLock` | `NodeLocked` | 2, 2, `JLast = 10`, `MaxTid = 5`, no write-back | A thread with a node lock forces a checkpoint that wants it (1551). |
| `PagerNotSelfWaiting` | `ThreeAsync` | one client, `JLast = 7`, `MaxTid = 4` | The pager commits, and the checkpoint waits for pages only the pager writes (2195). |

### Bounds

* *Ring:* 12 blocks where space should not matter, 6 or 7 where it should. A
  transaction of one block takes three (descriptor, data, commit record), so six
  blocks wrap after two commits; the two-block transactions of `barriers` take
  five, and the second one wraps a ring of seven. `CommitMargin`, `MinBatchBlocks` and the ratios
  are scaled down with it; they enter the code only through comparisons.
* *Transactions:* `MaxTid` is 3 to 5: one on the checkpoint list, one committing,
  one running, and one or two after a reclaim; 7 in `lifecycle`. A start beyond the bound is not
  taken.
* *Blocks and clients:* two of each at most. One block is enough for a page
  captured before and written after a change; two for anything about order.
* *Lifeboat:* 4 slots where it should not fill (two blocks in two
  transactions), 2 where it should (`pipeline`).
* *Descriptors:* 2 tags each, and 1 in `barriers`, so that a transaction of two
  blocks has two; `DescriptorRatio` is 1 there, so that the space reserved for
  descriptors fits their number as it does in the code.
* *`BlockMap`:* 6 keys, every non-decreasing hash into 8 values, a table of 4
  that doubles at 60% instead of one of 32 at 85%: in both the table never
  fills, and here it doubles twice within the bound.

### Fairness

`FairSpec` is weak fairness of each thread's next step. Threads of the Hurd are
scheduled preemptively by Mach, and a thread that can take a step keeps being
able to until it does, apart from lock contention, which the model's steps
(whole critical sections) leave out. kjournald's timed wait always ends, so its
step needs no signal. No fairness is assumed of the kernel's own write-back or
evictions.

## 4. Proofs

| theorem | for every value of the constants |
|---|---|
| `JournalProofs!TypeCorrect` | `Spec => []TypeOK` |
| `JournalProofs!PipelineHolds` | `Spec => []Pipeline` |
| `JournalProofs!JournalImplementsPipeline` | `Spec => P!Spec`, the abstract `TransactionPipeline` |
| `JournalRingProofs!FreeComputationsAgree` | the two computations of `j_free` agree |
| `JournalRingProofs!FreeInRange` | `j_free` after an advance is within the ring |
| `JournalRingProofs!TidGtOrders` | `tid_gt` orders nearby tids across the wrap |

*Assumptions.* `RingAssumption` (the ring starts at 1, has two blocks or more and
fits the word; the ratios are positive) and `JournalAssumption` (programs are
sequences of calls; the threads are different; blocks are finite). TLC evaluates
both in every run.

*Argument.* The inductive invariant is `Inv == TypeOK /\ Ordered(J)`, where
`Ordered` is `Pipeline` as a predicate of the record. The two need each other:
the types of an interception hold because a committing transaction is not on
the checkpoint list as well. Instead of one proof per pair of action and
conjunct, every action is shown to make one of six *moves* on `J`:

* `Kept`: list, slots, states and sequence stay;
* `Opened`: a running transaction with the next tid;
* `Locked`: the running one becomes the committing one;
* `Flushed`: its state becomes flushing;
* `Left`: it goes to the end of the list, or nowhere if it failed;
* `Reclaimed`: a prefix of the list is freed.

Each move keeps `Ordered` (`MovesOrdered`) and is a step or a stutter of
`TransactionPipeline` (`MovesRefine`), so both theorems rest on one case
analysis of the forty-odd actions (`NextMoves`).

*Only model-checked.* Liveness. Everything about crashes, since replay is a
recursive definition over the log. `BlockMap`, whose probe loops are recursive.
`OutstandingExact`, `HandleCount`, `SlotsOwned` and `OneCommitter`, whose
inductive strengthenings are next in the plan.

## 5. What the models leave out

In the journal:

* a page is one block: coalescing in `journal_store_write`, and its
  `flush_needed` being overwritten by a later chunk, need pages of several;
* failed writes of home blocks and of the journal superblock; running out of
  memory; the pool of buffers;
* the freed extents of a transaction are one set, and forgetting them writes the
  superblock once rather than once per extent;
* a sync takes the pokel and asks for all of its pages in one step, where the
  code asks for one range after another; the indirect-block pokels of single
  nodes and the file pagers are absent;
* waits on condition variables are guards of actions: what is checked is that the
  condition comes true, and a broadcast missing from the code would not show;
* a full lifeboat lets a page go home before its transaction, as the message
  logged there says ("Bypassing WAL", 2157); no property is claimed of that case;
* log blocks are allocated and written in one step: only the committer does
  either;
* escaping of the JBD2 magic number, checksums, UUIDs and log messages;
* tids do not wrap in the model; `TidGtOrders` covers the comparison;
* waking kjournald because a transaction is large has no effect of its own, as
  its timer may fire at any moment;
* mounting with a journal in use, `diskfs_readonly`, and stopping kjournald.

Outside it: everything `PROJECT.json` lists as not modelled.

## 6. Plan

In this order; each step has its run, its mutants and its map entries before the
next begins.

1. `Ports`: RPC counts, inhibition at the levels of port, class and bucket,
   no-senders with stale counts. Safety: no RPC runs while inhibited. Liveness:
   an inhibition ends when the RPCs do.
2. `DerefDeferred`: the two-generation reclamation of libports, against an
   abstract specification in which an object is freed only when no thread that
   could have seen it has yet to pass a quiescent point. Refinement and proof.
3. `PagerWorkers`: libpager's queues and delegation. Safety: requests to one
   object are served in order, by one worker. Liveness: inhibition ends.
   Composition with `Journal`'s pager thread, which assumes exactly this.
4. `Pipe` and `Select`: wake-ups of readers, writers and selecting threads.
5. `AuthRendezvous`: both halves with interruption.
6. `FileLocks` and `RecordLocks`: lock boxes; record locks against a reference
   function from bytes to owners.
7. `NodeCache`: hard and soft references of libdiskfs nodes.
8. `IHash` and `Slab`: pure algorithms against references, like `BlockMap`.
9. `ProcWait`: wait and exit.
10. Journal: pages of several blocks, failed home writes, allocation failure.

Theorems, in this order: `HandleCount` and `OneCommitter` (the labels of a
thread's stack against the commit slot), `SlotsOwned`, `OutstandingExact`; then
for each new module its type invariant and main safety invariant, and the
refinement of step 2.
