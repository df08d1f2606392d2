------------------------------ MODULE Journal ------------------------------
(***************************************************************************)
(* The JBD2-style metadata journal of ext2fs (ext2fs/journal.c) with the   *)
(* threads that drive it: filesystem operations (libdiskfs RPC threads),   *)
(* the background committer kjournald and the worker that serves the disk  *)
(* pager.                                                                  *)
(*                                                                         *)
(* State.  J is struct journal with its transactions and the lifeboat, D   *)
(* the store (journal superblock, log ring, home blocks), M the page cache *)
(* of the disk pager and th the locals of every thread.  A step is what a  *)
(* thread does while it holds j_state_lock, or one I/O between two such    *)
(* critical sections; th[t].stack lists the steps it still has to do,      *)
(* innermost first, so that a call pushes the steps of the callee.         *)
(*                                                                         *)
(* Data.  The content of a block is the set of updates it holds.  Every    *)
(* write of an operation is an update of its own, <<client, call>>, so a   *)
(* lost update shows as a smaller set, the second one of a client too.     *)
(***************************************************************************)
EXTENDS JournalRing, Sequences, FiniteSets, Functions

CONSTANTS
  Blocks,               \* metadata blocks; each also stands for the node in it
  Clients,              \* RPC threads, one filesystem operation each
  Program,              \* [Clients -> Seq(Call)]: the calls an operation makes
  Kjournald, Pager,     \* the two service threads
  NodeWriter,           \* the update that an inode change still held in core is
  InCore,               \* blocks with such a change at the start
  MaxTid,               \* bound: transactions created in one mount
  LifeboatCapacity,     \* JRNL_LIFEBOAT_CAPACITY
  MaxDeferred,          \* MAX_DEFERRED_BLOCKS
  TagsPerDescriptor,    \* tags that fit in one descriptor block
  WriteCache,           \* the device has a volatile write cache
  Writeback,            \* the kernel writes pages back on its own account
  Evicts,               \* the kernel drops pages of the disk pager
  WriteErrors           \* writes to the log may fail

None == 0
NoSlot == -1
Tids == 1 .. MaxTid
Slots == 0 .. LifeboatCapacity - 1
Threads == Clients \cup {Kjournald, Pager}
Updates == (Clients \X (Nat \ {0})) \cup {NodeWriter}
Content == SUBSET Updates
CallNames == {"start", "write", "poke", "dirty", "free", "setsync", "stop",
              "commit", "commit_running", "lock", "unlock", "sync_pages",
              "store_sync", "quiesce"}
Calls == [op : CallNames, blk : Blocks]

ASSUME JournalAssumption ==
  /\ Program \in [Clients -> Seq(Calls)]
  /\ Kjournald \notin Clients /\ Pager \notin Clients /\ Kjournald # Pager
  /\ NodeWriter \notin Clients
  /\ InCore \subseteq Blocks /\ IsFiniteSet(Blocks)
  /\ MaxTid \in Nat /\ LifeboatCapacity \in Nat /\ MaxDeferred \in Nat
  /\ TagsPerDescriptor \in Nat \ {0}
  /\ {WriteCache, Writeback, Evicts, WriteErrors} \subseteq BOOLEAN

VARIABLES J, D, M, th,
  faulting,   \* the thread stuck on a page fault with j_state_lock held
  durable     \* history: what finished commits have promised, and released
vars == <<J, D, M, th, faulting, durable>>

-----------------------------------------------------------------------------
(* Transactions and their buffers. *)

NoBuffer == [in |-> FALSE, shadow |-> {}, written |-> FALSE, copy |-> FALSE,
             slot |-> NoSlot, flushing |-> FALSE]
NoTransaction == [state |-> "none", updates |-> 0, logStart |-> 0,
                  outstanding |-> 0, sync |-> FALSE, freed |-> {}]

BuffersOf(j, x) == {b \in Blocks : j.buf[x][b].in}
In(j, x, b) == x # None /\ j.buf[x][b].in
\* A loop over the map meets the blocks in an order that nothing relies on.
InSomeOrder(S) == CHOOSE f \in [1 .. Cardinality(S) -> S] : IsInjective(f)

\* lifeboat_release_buffer, on the buffers of blocks S of transaction x.
SlotsOf(j, x, S) == {j.buf[x][b].slot : b \in S} \ {NoSlot}
Release(mask, gone) == [s \in Slots |-> mask[s] /\ s \notin gone]

\* journal_dirty_block_locked for every block of S: (re)join the
\* transaction, ask for a fresh copy, and drop a payload of the lifeboat.
DirtyBlocks(j, x, S) ==
  LET Joined(b) == [(IF j.buf[x][b].in THEN j.buf[x][b] ELSE NoBuffer)
                      EXCEPT !.in = TRUE, !.copy = TRUE, !.written = FALSE,
                             !.slot = NoSlot]
      fresh == {b \in S : ~j.buf[x][b].in \/ j.buf[x][b].written}
  IN  [j EXCEPT
         !.buf[x] = [b \in Blocks |-> IF b \in S THEN Joined(b) ELSE @[b]],
         !.mask = Release(@, SlotsOf(j, x, S)),
         !.txn[x].outstanding = @ + Cardinality(fresh)]

\* Mutants of Join: a second handle is not counted; the sweep is forgotten.
Join_NotCounted(j, deferred) ==
  LET k == IF j.running # None THEN j
           ELSE [j EXCEPT !.running = j.seq, !.seq = @ + 1,
                          !.txn[j.seq] = [NoTransaction EXCEPT
                                            !.state = "running", !.updates = 1]]
  IN  DirtyBlocks(k, k.running, Range(deferred))
Join_NoSweep(j, deferred) ==
  IF j.running # None
  THEN [j EXCEPT !.txn[j.running].updates = @ + 1]
  ELSE [j EXCEPT !.running = j.seq, !.seq = @ + 1,
                 !.txn[j.seq] = [NoTransaction EXCEPT
                                   !.state = "running", !.updates = 1]]

\* Joining the running transaction or creating it, and the sweep of the
\* thread's deferred blocks: diskfs_journal_start_transaction_locked after
\* its space check.
Join(j, deferred) ==
  LET k == IF j.running # None
           THEN [j EXCEPT !.txn[j.running].updates = @ + 1]
           ELSE [j EXCEPT !.running = j.seq, !.seq = @ + 1,
                          !.txn[j.seq] = [NoTransaction EXCEPT
                                            !.state = "running", !.updates = 1]]
  IN  DirtyBlocks(k, k.running, Range(deferred))

\* journal_stop_transaction_locked: the last handle out copies every buffer
\* that changed, from the lifeboat or else from the page cache.
StopHandle(j, x, cache) ==
  LET last == j.txn[x].updates = 1
      Hydrated(b) ==
        LET jb == j.buf[x][b]
        IN  IF jb.in /\ jb.copy
            THEN [jb EXCEPT !.copy = FALSE,
                            !.shadow = IF jb.slot # NoSlot
                                       THEN j.payload[jb.slot] ELSE cache[b]]
            ELSE jb
  IN  IF j.txn[x].updates = 0 THEN j
      ELSE [j EXCEPT !.txn[x].updates = @ - 1,
                     !.buf[x] = IF last THEN [b \in Blocks |-> Hydrated(b)]
                                ELSE @]

\* The page faults that copy takes, with j_state_lock held.
Faults(j, x) ==
  {b \in Blocks : /\ j.txn[x].updates = 1
                  /\ j.buf[x][b].in /\ j.buf[x][b].copy
                  /\ j.buf[x][b].slot = NoSlot /\ b \in M.absent}

\* journal_free_transaction, for a set of transactions.
FreeTransactions(j, X) ==
  [j EXCEPT !.txn = [x \in Tids |-> IF x \in X THEN NoTransaction ELSE @[x]],
            !.buf = [x \in Tids |-> IF x \in X THEN [b \in Blocks |-> NoBuffer]
                                    ELSE @[x]],
            !.mask = Release(@, UNION {SlotsOf(j, x, Blocks) : x \in X})]

\* journal_get_oldest_transaction_locked
Oldest(j) == IF j.ckpt # <<>> THEN Head(j.ckpt)
             ELSE IF j.committing # None THEN j.committing ELSE j.running
TailOf(j) == IF Oldest(j) = None THEN 0 ELSE j.txn[Oldest(j)].logStart

\* journal_try_advance_tail_locked: free the checkpoint transactions at the
\* head of the list, up to the first that has blocks left to write.
Lowest(S) == CHOOSE s \in S : \A r \in S : s <= r
Busy(j) == {i \in 1 .. Len(j.ckpt) : j.txn[j.ckpt[i]].outstanding > 0}
\* Mutant of Drained: outstanding writes are not looked at.
Drained_Eager(j) == Len(j.ckpt)
Drained(j) == IF Busy(j) = {} THEN Len(j.ckpt) ELSE Lowest(Busy(j)) - 1
AdvanceTail(j) ==
  LET n == Drained(j)
      k == [FreeTransactions(j, {j.ckpt[i] : i \in 1 .. n})
              EXCEPT !.ckpt = SubSeq(@, n + 1, Len(@))]
  IN  IF n = 0 THEN j
      ELSE [k EXCEPT !.tail = TailOf(k),
                     !.free = FreeAfterAdvance(k.head, TailOf(k))]

\* journal_notify_txn_locked and the marking half of
\* journal_notify_blocks_written_locked: every live transaction learns that
\* the blocks S have reached their home.
Live(j) == Range(j.ckpt) \cup ({j.running, j.committing} \ {None})
Unwritten(j, x, S) == {b \in S : j.buf[x][b].in /\ ~j.buf[x][b].written}
Told(j) == {x \in Live(j) : j.txn[x].outstanding > 0}
\* journal_notify_txn_locked stops when the counter reaches zero, and leaves
\* the buffers it has not come to unwritten (it goes by block number).
Fewer(n, m) == IF m < n THEN n - m ELSE 0
Marked(j, x, S) ==
  LET U == Unwritten(j, x, S)
  IN  IF Cardinality(U) <= j.txn[x].outstanding THEN U
      ELSE CHOOSE T \in SUBSET U : Cardinality(T) = j.txn[x].outstanding
\* Mutant of MarkWritten: the counter goes down, jb_is_written stays 0.
MarkWritten_CounterOnly(j, S) ==
  [j EXCEPT
     !.txn = [x \in Tids |-> IF x \in Told(j)
                THEN [@[x] EXCEPT !.outstanding =
                        Fewer(j.txn[x].outstanding, Cardinality(Unwritten(j, x, S)))]
                ELSE @[x]]]
MarkWritten(j, S) ==
  [j EXCEPT
     !.txn = [x \in Tids |-> IF x \in Told(j)
                THEN [@[x] EXCEPT !.outstanding =
                        Fewer(j.txn[x].outstanding, Cardinality(Unwritten(j, x, S)))]
                ELSE @[x]],
     !.buf = [x \in Tids |-> [b \in Blocks |->
                IF x \in Told(j) /\ b \in Marked(j, x, S)
                THEN [@[x][b] EXCEPT !.written = TRUE] ELSE @[x][b]]]]
NotifyWritten(j, S) == AdvanceTail(MarkWritten(j, S))

\* Mutant of ClearCheckpoint: j_tail is left where it was.
ClearCheckpoint_KeepTail(j) ==
  LET k == [FreeTransactions(j, Range(j.ckpt)) EXCEPT !.ckpt = <<>>]
  IN  [k EXCEPT !.free = FreeAfterClear(k.head, k.tail)]

\* journal_clear_checkpoint_list_locked
ClearCheckpoint(j) ==
  LET k == [FreeTransactions(j, Range(j.ckpt)) EXCEPT !.ckpt = <<>>]
  IN  [k EXCEPT !.tail = TailOf(k), !.free = FreeAfterClear(k.head, TailOf(k))]

-----------------------------------------------------------------------------
(* The store.  A cell holds what a read returns (now) and everything a     *)
(* crash may leave in it (may): with a volatile write cache, the writes    *)
(* since the last flush reach the medium in any order or not at all.       *)

Cell(v) == [now |-> v, may |-> {v}]
Put(cell, v) == [now |-> v, may |-> (IF WriteCache THEN cell.may ELSE {}) \cup {v}]
Settle(cell) == [cell EXCEPT !.may = {cell.now}]

Record(kind, x, tags, val) == [kind |-> kind, tid |-> x, tags |-> tags, val |-> val]
Blank == Record("blank", None, <<>>, {})

\* flush_to_disk, and the store_sync of journal_sync_everything
FlushToDisk(d) == [sb |-> Settle(d.sb),
                   log |-> [p \in Ring |-> Settle(d.log[p])],
                   home |-> [b \in Blocks |-> Settle(d.home[b])]]

\* journal_update_superblock
UpdateSuperblock(d, seq, tail) ==
  [d EXCEPT !.sb = Put(@, [seq |-> seq, start |-> tail])]

\* Mutant of SuperblockAfterNotify: the new tail stays in memory.
SuperblockAfterNotify_Never(d, j, k) == d

\* The superblock update that ends journal_notify_blocks_written_locked, for
\* a notification that turned journal state j into k.
SuperblockAfterNotify(d, j, k) ==
  IF k.ckpt = j.ckpt THEN d
  ELSE UpdateSuperblock(d, IF Oldest(k) = None THEN k.seq ELSE Oldest(k), k.tail)

-----------------------------------------------------------------------------
(* Commit, up to the point where it first releases the lock to do I/O.     *)
(* Each operator returns the journal and the steps still to be done.       *)

ForceCheckpoint == <<"arm", "sync_nodes", "sync_pages", "sync_wait", "flush", "clear", "flush">>
\* Mutants of CommitSteps: the commit record comes first; the lifeboat goes
\* home before it; neither write is flushed.
CommitSteps_RecordFirst == <<"commit_record", "flush", "payload", "write_log",
                             "flush", "lifeboat", "finish", "forget", "drain">>
CommitSteps_LifeboatFirst == <<"payload", "write_log", "flush", "lifeboat",
                               "commit_record", "flush", "finish", "forget", "drain">>
CommitSteps_NoBarrier == <<"payload", "write_log", "commit_record",
                           "lifeboat", "finish", "forget", "drain">>
CommitSteps == <<"payload", "write_log", "flush", "commit_record", "flush",
                 "lifeboat", "finish", "forget", "drain">>
Then(j, k) == [j |-> j, k |-> k]

\* Mutant of SetLogStart: the last block allocated, not the next one.
SetLogStart_Behind(j) == [j EXCEPT !.txn[j.committing].logStart = j.head]
SetLogStart(j) == [j EXCEPT !.txn[j.committing].logStart = NextBlock(j.head)]

\* From T_FLUSHING on: journal_ensure_commit_space_locked, t_log_start.
BeginFlush(j) ==
  LET f == [j EXCEPT !.txn[j.committing].state = "flushing"]
  IN  IF NeedsSpace(f.free, Cardinality(BuffersOf(f, f.committing)))
      THEN Then(f, ForceCheckpoint \o <<"log_start">> \o CommitSteps)
      ELSE Then(SetLogStart(f), CommitSteps)

\* Mutants of BeginCommit: no wait for the commit in progress; no wait for
\* the handles of the transaction.
BeginCommit_Overtake(j) ==
  LET l == [j EXCEPT !.committing = j.running, !.running = None,
                     !.txn[j.running].state = "locked"]
  IN  IF j.running = None THEN Then(j, <<>>)
      ELSE IF j.txn[j.running].updates > 0 THEN Then(l, <<"commit_updates">>)
      ELSE BeginFlush(l)
BeginCommit_Impatient(j) ==
  LET l == [j EXCEPT !.committing = j.running, !.running = None,
                     !.txn[j.running].state = "locked"]
  IN  IF j.committing # None THEN Then(j, <<"commit_wait">>)
      ELSE IF j.running = None THEN Then(j, <<>>) ELSE BeginFlush(l)

\* journal_commit_running_transaction_locked, entered with the lock held.
BeginCommit(j) ==
  LET l == [j EXCEPT !.committing = j.running, !.running = None,
                     !.txn[j.running].state = "locked"]
  IN  IF j.committing # None THEN Then(j, <<"commit_wait">>)
      ELSE IF j.running = None THEN Then(j, <<>>)
      ELSE IF j.txn[j.running].updates > 0 THEN Then(l, <<"commit_updates">>)
      ELSE BeginFlush(l)

\* journal_commit_running_transaction
CommitRunning(j) ==
  IF j.running = None \/ (j.running # None /\ BuffersOf(j, j.running) = {})
  THEN Then(j, <<>>) ELSE BeginCommit(j)

\* The auto-commit of diskfs_journal_stop_transaction_locked, once the
\* handle on x is dropped.
AutoCommit(j, x) ==
  IF j.txn[x].updates > 0 \/ ~j.txn[x].sync THEN Then(j, <<>>)
  ELSE IF j.running = x THEN BeginCommit(j) ELSE Then(j, <<"wait">>)

-----------------------------------------------------------------------------
(* Threads. *)

IdleThread(base) ==
  [stack |-> <<base>>, ip |-> 1, handles |-> <<>>, target |-> None,
   deferred |-> <<>>, drain |-> None, todo |-> <<>>, batch |-> 0,
   slot |-> NoSlot, freed |-> {}, need |-> {}, blk |-> None, data |-> {},
   serves |-> {}]

\* A journal that was clean when journal_create loaded it.
CleanJournal ==
  [head |-> 0, tail |-> 0, free |-> TotalLen, seq |-> 1, committed |-> 0,
   running |-> None, committing |-> None, ckpt |-> <<>>,
   txn |-> [x \in Tids |-> NoTransaction],
   buf |-> [x \in Tids |-> [b \in Blocks |-> NoBuffer]],
   mask |-> [s \in Slots |-> FALSE], payload |-> [s \in Slots |-> {}]]

Init ==
  /\ J = CleanJournal
  /\ D = [sb |-> Cell([seq |-> 1, start |-> 0]),
          log |-> [p \in Ring |-> Cell(Blank)],
          home |-> [b \in Blocks |-> Cell({})]]
  /\ M = [cache |-> [b \in Blocks |-> {}], dirty |-> {}, absent |-> {},
          pokel |-> {}, incore |-> InCore, lock |-> [b \in Blocks |-> None]]
  /\ th = [t \in Threads |-> IdleThread(IF t = Kjournald THEN "sleep"
                                        ELSE IF t = Pager THEN "idle" ELSE "run")]
  /\ faulting = None
  /\ durable = [b \in Blocks |-> [kept |-> {}, gone |-> {}]]

LockFree == faulting = None
At(t, label) == th[t].stack # <<>> /\ Head(th[t].stack) = label
Return(t) == th' = [th EXCEPT ![t].stack = Tail(@)]
Goto(t, steps) == th' = [th EXCEPT ![t].stack = steps \o Tail(@)]

\* The call that client t makes next.
Pending(t) == t \in Clients /\ th[t].ip <= Len(Program[t])
Call(t) == Program[t][th[t].ip]
Calling(t, op) == At(t, "run") /\ Pending(t) /\ Call(t).op = op
Holding(t, op) == Calling(t, op) /\ th[t].handles # <<>>
NeedsCheckpoint == J.free < MinFree

-----------------------------------------------------------------------------
(* Operations of the filesystem: a client runs its program call by call.   *)

\* Both calls that start a transaction first force a checkpoint when the
\* ring is short of space; the check is made once, not again afterwards.
StartForcesCheckpoint(t) ==
  /\ Calling(t, "start") \/ Calling(t, "poke")
  /\ LockFree /\ NeedsCheckpoint
  /\ th' = [th EXCEPT ![t].stack = ForceCheckpoint \o <<"forced">> \o @]
  /\ UNCHANGED <<J, D, M, faulting, durable>>

Starting(t, op) ==
  /\ Pending(t) /\ Call(t).op = op /\ LockFree
  /\ At(t, "forced") \/ (At(t, "run") /\ ~NeedsCheckpoint)
  /\ J.running = None => J.seq \in Tids
AfterForced(stack) == IF Head(stack) = "forced" THEN Tail(stack) ELSE stack

\* diskfs_journal_start_transaction
StartTransaction(t) ==
  /\ Starting(t, "start")
  /\ J' = Join(J, th[t].deferred)
  /\ th' = [th EXCEPT ![t].stack = AfterForced(@), ![t].ip = @ + 1,
                      ![t].deferred = <<>>, ![t].handles = <<J'.running>> \o @]
  /\ UNCHANGED <<D, M, faulting, durable>>

\* A modification of the mapped block, before the journal is told of it.
WriteBlock(t) ==
  /\ Calling(t, "write") /\ Call(t).blk \notin M.absent
  /\ M' = [M EXCEPT !.cache[Call(t).blk] = @ \cup {<<t, th[t].ip>>},
                    !.dirty = @ \cup {Call(t).blk}]
  /\ th' = [th EXCEPT ![t].ip = @ + 1]
  /\ UNCHANGED <<J, D, faulting, durable>>

\* record_global_poke: journal_notify_block_changed joins, dirties and stops
\* in one critical section; the block is in global_pokel only after it.
NotifyBlockChanged(t) ==
  LET j == DirtyBlocks(Join(J, th[t].deferred),
                       Join(J, th[t].deferred).running, {Call(t).blk})
      r == AutoCommit(StopHandle(j, j.running, M.cache), j.running)
  IN  /\ Starting(t, "poke")
      /\ Faults(j, j.running) = {}
      /\ J' = r.j
      /\ th' = [th EXCEPT ![t].stack = r.k \o <<"pokel_add">> \o AfterForced(@),
                          ![t].ip = @ + 1, ![t].deferred = <<>>]
      /\ UNCHANGED <<D, M, faulting, durable>>
PokelAdd(t) ==
  /\ At(t, "pokel_add") /\ th[t].ip - 1 \in DOMAIN Program[t]
  /\ M' = [M EXCEPT !.pokel = @ \cup {Program[t][th[t].ip - 1].blk}]
  /\ Return(t)
  /\ UNCHANGED <<J, D, faulting, durable>>

\* journal_dirty_block, on the caller's own handle
DirtyBlock(t) ==
  /\ Holding(t, "dirty") /\ LockFree
  /\ J' = DirtyBlocks(J, Head(th[t].handles), {Call(t).blk})
  /\ th' = [th EXCEPT ![t].ip = @ + 1]
  /\ UNCHANGED <<D, M, faulting, durable>>

\* journal_record_freed_blocks
RecordFreedBlocks(t) ==
  /\ Calling(t, "free") /\ LockFree
  /\ J' = IF J.running = None THEN J
          ELSE [J EXCEPT !.txn[J.running].freed = @ \cup {Call(t).blk}]
  /\ th' = [th EXCEPT ![t].ip = @ + 1]
  /\ UNCHANGED <<D, M, faulting, durable>>

\* diskfs_journal_set_sync, which takes no lock
SetSync(t) ==
  /\ Holding(t, "setsync")
  /\ J' = [J EXCEPT !.txn[Head(th[t].handles)].sync = TRUE]
  /\ th' = [th EXCEPT ![t].ip = @ + 1]
  /\ UNCHANGED <<D, M, faulting, durable>>

\* Mutant of Leave: the thread waits for the transaction after its own.
Leave_NextTid(t, r, x) ==
  /\ J' = r.j
  /\ th' = [th EXCEPT ![t].stack = r.k \o <<"drain">> \o @, ![t].ip = @ + 1,
                      ![t].handles = Tail(@), ![t].target = J.seq]
  /\ UNCHANGED <<D, M, faulting, durable>>

\* Both ways to give up a handle end with journal_drain_deferred_blocks.
Leave(t, r, x) ==
  /\ J' = r.j
  /\ th' = [th EXCEPT ![t].stack = r.k \o <<"drain">> \o @, ![t].ip = @ + 1,
                      ![t].handles = Tail(@), ![t].target = x]
  /\ UNCHANGED <<D, M, faulting, durable>>

\* diskfs_journal_stop_transaction
StopTransaction(t) ==
  LET x == Head(th[t].handles)
  IN  /\ Holding(t, "stop") /\ LockFree
      /\ Faults(J, x) = {}
      /\ Leave(t, AutoCommit(StopHandle(J, x, M.cache), x), x)

\* diskfs_journal_commit_transaction
CommitTransaction(t) ==
  LET x == Head(th[t].handles)
      j == StopHandle(J, x, M.cache)
  IN  /\ Holding(t, "commit") /\ LockFree
      /\ Faults(J, x) = {}
      /\ Leave(t, IF j.running = x THEN BeginCommit(j) ELSE Then(j, <<"wait">>), x)

\* The copy made by the last handle touches a page that is not in memory:
\* the thread faults while it holds j_state_lock.
Stopping(t) ==
  IF Holding(t, "stop") \/ Holding(t, "commit")
  THEN [j |-> J, x |-> Head(th[t].handles)]
  ELSE IF At(t, "drain_stop") THEN [j |-> J, x |-> th[t].drain]
  ELSE LET k == Join(J, th[t].deferred)
       IN  [j |-> DirtyBlocks(k, k.running, {Call(t).blk}), x |-> k.running]
HydrationFaults(t) ==
  /\ LockFree
  /\ \/ Holding(t, "stop") \/ Holding(t, "commit") \/ At(t, "drain_stop")
     \/ Starting(t, "poke")
  /\ Faults(Stopping(t).j, Stopping(t).x) # {}
  /\ faulting' = t
  /\ UNCHANGED <<J, D, M, th, durable>>

\* The node lock an operation holds around its work on a node.
LockNode(t) ==
  /\ Calling(t, "lock") /\ M.lock[Call(t).blk] = None
  /\ M' = [M EXCEPT !.lock[Call(t).blk] = t]
  /\ th' = [th EXCEPT ![t].ip = @ + 1]
  /\ UNCHANGED <<J, D, faulting, durable>>
UnlockNode(t) ==
  /\ Calling(t, "unlock")
  /\ M' = [M EXCEPT !.lock[Call(t).blk] = None]
  /\ th' = [th EXCEPT ![t].ip = @ + 1]
  /\ UNCHANGED <<J, D, faulting, durable>>

-----------------------------------------------------------------------------
(* Steps any thread may have on its stack. *)

\* flush_to_disk
Flush(t) ==
  /\ At(t, "flush")
  /\ D' = FlushToDisk(D) /\ Return(t)
  /\ UNCHANGED <<J, M, faulting, durable>>

\* journal_wait_on_tid_locked
WaitOnTid(t) ==
  /\ At(t, "wait") /\ LockFree /\ ~TidGt(th[t].target, J.committed)
  /\ Return(t)
  /\ UNCHANGED <<J, D, M, faulting, durable>>

\* journal_drain_deferred_blocks: a transaction is started for the deferred
\* blocks, which the start sweeps in, and stopped without auto-commit.
DrainForcesCheckpoint(t) ==
  /\ At(t, "drain") /\ th[t].deferred # <<>>
  /\ LockFree /\ NeedsCheckpoint
  /\ Goto(t, ForceCheckpoint \o <<"drain_start">>)
  /\ UNCHANGED <<J, D, M, faulting, durable>>
DrainStart(t) ==
  /\ \/ At(t, "drain_start")
     \/ At(t, "drain") /\ th[t].deferred # <<>> /\ ~NeedsCheckpoint
  /\ LockFree /\ (J.running = None => J.seq \in Tids)
  /\ J' = Join(J, th[t].deferred)
  /\ th' = [th EXCEPT ![t].stack = <<"drain_stop">> \o Tail(@),
                      ![t].deferred = <<>>, ![t].drain = J'.running]
  /\ UNCHANGED <<D, M, faulting, durable>>
DrainStop(t) ==
  /\ At(t, "drain_stop") /\ LockFree
  /\ Faults(J, th[t].drain) = {}
  /\ J' = StopHandle(J, th[t].drain, M.cache)
  /\ th' = [th EXCEPT ![t].stack = Tail(@), ![t].drain = None]
  /\ UNCHANGED <<D, M, faulting, durable>>
DrainNothing(t) ==
  /\ At(t, "drain") /\ th[t].deferred = <<>>
  /\ Return(t)
  /\ UNCHANGED <<J, D, M, faulting, durable>>

\* journal_force_checkpoint_locked arms the thread's circuit breaker and
\* empties its queue of deferred blocks ...
ArmCheckpoint(t) ==
  /\ At(t, "arm")
  /\ th' = [th EXCEPT ![t].stack = Tail(@), ![t].deferred = <<>>,
                      ![t].todo = InSomeOrder(Blocks)]
  /\ UNCHANGED <<J, D, M, faulting, durable>>

\* ... journal_sync_everything then visits every node under its lock
\* (write_all_disknodes).  An inode changed in core is written into its
\* block, whose notification is deferred, or dropped when the queue is full.
SyncNode(t) ==
  LET b == Head(th[t].todo)
      queued == IF Len(th[t].deferred) < MaxDeferred
                THEN Append(th[t].deferred, b) ELSE th[t].deferred
  IN  /\ At(t, "sync_nodes") /\ th[t].todo # <<>>
      /\ M.lock[b] = None
      /\ b \in M.incore => b \notin M.absent
      /\ M' = IF b \in M.incore
              THEN [M EXCEPT !.cache[b] = @ \cup {NodeWriter},
                             !.dirty = @ \cup {b}, !.incore = @ \ {b},
                             !.pokel = @ \cup {b}]
              ELSE M
      /\ th' = [th EXCEPT ![t].todo = Tail(@),
                          ![t].deferred = IF b \in M.incore THEN queued ELSE @]
      /\ UNCHANGED <<J, D, faulting, durable>>
SyncNodesDone(t) ==
  /\ At(t, "sync_nodes") /\ th[t].todo = <<>>
  /\ Return(t)
  /\ UNCHANGED <<J, D, M, faulting, durable>>

\* ... and takes the whole pokel, asks the pager for those of its pages that
\* are dirty and waits (sync_global (1)), an unfinished write of a page that
\* is clean again included.
Writing == "written" \in Range(th[Pager].stack)
SyncPages(t) ==
  LET inflight == IF Writing THEN M.pokel \cap {th[Pager].blk} ELSE {}
  IN  /\ At(t, "sync_pages")
      /\ M' = [M EXCEPT !.pokel = {}]
      /\ th' = [th EXCEPT ![t].stack = Tail(@),
                          ![t].need = (M.pokel \cap M.dirty) \cup inflight,
                          ![Pager].serves = IF inflight \subseteq M.dirty THEN @
                                            ELSE @ \cup {t}]
      /\ UNCHANGED <<J, D, faulting, durable>>
SyncWait(t) ==
  /\ At(t, "sync_wait") /\ th[t].need = {}
  /\ Return(t)
  /\ UNCHANGED <<J, D, M, faulting, durable>>

\* The checkpoint list is cleared under the lock, whatever it now holds.
ClearList(t) ==
  /\ At(t, "clear") /\ LockFree
  /\ J' = ClearCheckpoint(J)
  /\ D' = UpdateSuperblock(D, J'.seq, J'.tail)
  /\ Return(t)
  /\ UNCHANGED <<M, faulting, durable>>

-----------------------------------------------------------------------------
(* journal_commit_running_transaction_locked, after BeginCommit.  The txn  *)
(* of that function is j_committing_transaction until it finishes.         *)

Committing(t, label) == At(t, label) /\ J.committing # None

CommitRetry(t) ==
  /\ At(t, "commit_wait") /\ LockFree /\ J.committing = None
  /\ J' = BeginCommit(J).j /\ Goto(t, BeginCommit(J).k)
  /\ UNCHANGED <<D, M, faulting, durable>>

UpdatesDone(t) ==
  /\ Committing(t, "commit_updates") /\ LockFree /\ J.txn[J.committing].updates = 0
  /\ J' = BeginFlush(J).j /\ Goto(t, BeginFlush(J).k)
  /\ UNCHANGED <<D, M, faulting, durable>>

LogStart(t) ==
  /\ Committing(t, "log_start") /\ LockFree
  /\ J' = SetLogStart(J) /\ Return(t)
  /\ UNCHANGED <<D, M, faulting, durable>>

\* journal_write_payload: nothing for an empty map, else the buffers in
\* the order of the map, in batches headed by a descriptor block.
WritePayload(t) ==
  LET c == BuffersOf(J, J.committing)
  IN  /\ Committing(t, "payload")
      /\ th' = [th EXCEPT ![t].todo = InSomeOrder(c), ![t].batch = 0,
                          ![t].stack = SubSeq(@, IF c = {} THEN 3 ELSE 2, Len(@))]
      /\ UNCHANGED <<J, D, M, faulting, durable>>

\* journal_next_log_block_safe
AllocLogBlock(j) == [j EXCEPT !.head = NextBlock(@), !.free = Decrement(@)]
Append1(d, p, rec) == [d EXCEPT !.log[p] = Put(@, rec)]

\* The next block of the payload: a descriptor, or the buffer it is up to.
Tagged(t) == LET n == Len(th[t].todo)
             IN  IF n < TagsPerDescriptor THEN n ELSE TagsPerDescriptor
PayloadRecord(t) ==
  IF th[t].batch = 0
  THEN Record("descriptor", J.committing, SubSeq(th[t].todo, 1, Tagged(t)), {})
  ELSE Record("data", None, <<>>, J.buf[J.committing][Head(th[t].todo)].shadow)
CommitRecord == Record("commit", J.committing, <<>>, {})

WriteLogBlock(t) ==
  LET todo == th[t].todo
      descriptor == th[t].batch = 0
  IN  /\ Committing(t, "write_log") /\ todo # <<>> /\ LockFree
      /\ J' = AllocLogBlock(J) /\ D' = Append1(D, J'.head, PayloadRecord(t))
      /\ th' = [th EXCEPT
                  ![t].batch = IF descriptor THEN Tagged(t) ELSE @ - 1,
                  ![t].todo = IF descriptor THEN @ ELSE Tail(@),
                  ![t].stack = IF ~descriptor /\ Len(todo) = 1 THEN Tail(@) ELSE @]
      /\ UNCHANGED <<M, faulting, durable>>

\* journal_write_commit_record
WriteCommitRecord(t) ==
  /\ Committing(t, "commit_record") /\ LockFree
  /\ J' = AllocLogBlock(J)
  /\ D' = Append1(D, J'.head, CommitRecord)
  /\ Return(t)
  /\ UNCHANGED <<M, faulting, durable>>

\* A write to the log fails: abort_commit.  The block may be on the store as
\* it was, as it should be, or torn.
LogWriteFails(t) ==
  LET payload == At(t, "write_log")
      rest == IF payload THEN 9 ELSE 7
  IN  /\ WriteErrors /\ LockFree
      /\ \/ Committing(t, "write_log") /\ th[t].todo # <<>>
         \/ Committing(t, "commit_record")
      /\ J' = AllocLogBlock(J)
      /\ \/ UNCHANGED D
         \/ \E rec \in {IF payload THEN PayloadRecord(t) ELSE CommitRecord, Blank} :
              D' = Append1(D, J'.head, rec)
      /\ th' = [th EXCEPT ![t].stack = <<"drain", "abort">>
                                         \o SubSeq(@, rest, Len(@))]
      /\ UNCHANGED <<M, faulting, durable>>
AbortCommit(t) ==
  /\ Committing(t, "abort") /\ LockFree
  /\ J' = [FreeTransactions(J, {J.committing})
             EXCEPT !.committing = None, !.committed = J.committing]
  /\ Return(t)
  /\ UNCHANGED <<D, M, faulting, durable>>

\* journal_flush_lifeboat_payloads visits the buffers one by one ...
LifeboatStart(t) ==
  /\ Committing(t, "lifeboat")
  /\ th' = [th EXCEPT ![t].todo = InSomeOrder(BuffersOf(J, J.committing)),
                      ![t].stack = <<"lifeboat_next">> \o Tail(@)]
  /\ UNCHANGED <<J, D, M, faulting, durable>>
\* ... takes the payload of one over, under the lock ...
LifeboatCapture(t) ==
  LET c == J.committing
      b == Head(th[t].todo)
  IN  /\ Committing(t, "lifeboat_next") /\ th[t].todo # <<>> /\ LockFree
      /\ IF J.buf[c][b].slot = NoSlot
         THEN /\ th' = [th EXCEPT ![t].todo = Tail(@)]
              /\ UNCHANGED J
         ELSE /\ J' = [J EXCEPT !.buf[c][b].flushing = TRUE]
              /\ th' = [th EXCEPT ![t].slot = J.buf[c][b].slot,
                                  ![t].stack = <<"lifeboat_write", "lifeboat_done">> \o @]
      /\ UNCHANGED <<D, M, faulting, durable>>
\* ... writes it to its home without the lock ...
LifeboatWrite(t) ==
  /\ At(t, "lifeboat_write") /\ th[t].slot # NoSlot
  /\ D' = [D EXCEPT !.home[Head(th[t].todo)] = Put(@, J.payload[th[t].slot])]
  /\ Return(t)
  /\ UNCHANGED <<J, M, faulting, durable>>
\* ... and lets go of the slot it took, replaced meanwhile or not.
LifeboatDone(t) ==
  LET c == J.committing
      b == Head(th[t].todo)
      s == th[t].slot
      jb == J.buf[c][b]
  IN  /\ Committing(t, "lifeboat_done") /\ th[t].todo # <<>> /\ LockFree
      /\ J' = [J EXCEPT
                 !.buf[c][b] = [jb EXCEPT !.flushing = FALSE, !.written = TRUE,
                                          !.slot = IF jb.slot = s THEN NoSlot ELSE jb.slot],
                 !.mask[s] = FALSE,
                 !.txn[c].outstanding = IF ~jb.written /\ @ > 0 THEN @ - 1 ELSE @]
      /\ th' = [th EXCEPT ![t].stack = Tail(@), ![t].todo = Tail(@),
                          ![t].slot = NoSlot]
      /\ UNCHANGED <<D, M, faulting, durable>>
LifeboatEnd(t) ==
  /\ At(t, "lifeboat_next") /\ th[t].todo = <<>>
  /\ Return(t)
  /\ UNCHANGED <<J, D, M, faulting, durable>>

\* What a commit promises about a block, given what earlier ones did: its
\* shadow copy, and no more what they promised of a block it has freed.
Promised(p, txn, jb, b) ==
  LET gone == IF b \in txn.freed THEN p.gone \cup p.kept ELSE p.gone
      new == IF jb.in THEN jb.shadow ELSE {}
  IN  [kept |-> (p.kept \cup new) \ gone, gone |-> gone]

\* The transaction is committed: it joins the checkpoint list, and becomes
\* the tail of the log if the log was empty.
FinishCommit(t) ==
  LET c == J.committing
      empty == J.tail = 0
      tail == IF empty THEN J.txn[c].logStart ELSE J.tail
  IN  /\ Committing(t, "finish") /\ LockFree
      /\ J' = [J EXCEPT !.tail = tail, !.committed = c, !.committing = None,
                        !.txn[c] = [J.txn[c] EXCEPT !.state = "finished", !.freed = {}],
                        !.ckpt = Append(@, c)]
      /\ D' = IF empty THEN UpdateSuperblock(D, c, tail) ELSE D
      /\ th' = [th EXCEPT ![t].freed = J.txn[c].freed,
                          ![t].stack = (IF empty THEN <<"flush">> ELSE <<>>) \o Tail(@)]
      /\ durable' = [b \in Blocks |-> Promised(durable[b], J.txn[c], J.buf[c][b], b)]
      /\ UNCHANGED <<M, faulting>>

\* journal_forget_freed_blocks: blocks the transaction freed count as written.
ForgetFreedBlocks(t) ==
  LET j == IF th[t].freed = {} THEN J ELSE NotifyWritten(J, th[t].freed)
  IN  /\ At(t, "forget") /\ LockFree
      /\ J' = j /\ D' = SuperblockAfterNotify(D, J, j)
      /\ th' = [th EXCEPT ![t].freed = {},
                          ![t].stack = (IF j.ckpt = J.ckpt THEN <<>> ELSE <<"flush">>)
                                       \o Tail(@)]
      /\ UNCHANGED <<M, faulting, durable>>

-----------------------------------------------------------------------------
(* kjournald, the barrier of sync and unmount, and quiesce. *)

\* Mutant of KjournaldWakes: woken by the size of the transaction only.
KjournaldWakes_SizeOnly ==
  /\ At(Kjournald, "sleep") /\ LockFree /\ J.running # None
  /\ Cardinality(BuffersOf(J, J.running)) >= MaxTransactionBuffers
  /\ th' = [th EXCEPT ![Kjournald].stack = <<"commit_running">> \o @]
  /\ UNCHANGED <<J, D, M, faulting, durable>>

\* kjournald_thread wakes on its timer, and commits if there is anything.
KjournaldWakes ==
  /\ At(Kjournald, "sleep") /\ LockFree /\ J.running # None
  /\ th' = [th EXCEPT ![Kjournald].stack = <<"commit_running">> \o @]
  /\ UNCHANGED <<J, D, M, faulting, durable>>
KjournaldCommits ==
  /\ At(Kjournald, "commit_running") /\ LockFree
  /\ J' = CommitRunning(J).j /\ Goto(Kjournald, CommitRunning(J).k)
  /\ UNCHANGED <<D, M, faulting, durable>>

\* journal_commit_running_transaction, called by a client
CommitBarrier(t) ==
  /\ Calling(t, "commit_running") /\ LockFree
  /\ J' = CommitRunning(J).j
  /\ th' = [th EXCEPT ![t].stack = CommitRunning(J).k \o @, ![t].ip = @ + 1]
  /\ UNCHANGED <<D, M, faulting, durable>>

\* sync_global (1) and store_sync, called by a client
SyncGlobal(t) ==
  /\ Calling(t, "sync_pages") \/ Calling(t, "store_sync")
  /\ th' = [th EXCEPT ![t].stack = (IF Call(t).op = "store_sync" THEN <<"flush">>
                                    ELSE <<"sync_pages", "sync_wait">>) \o @,
                      ![t].ip = @ + 1]
  /\ UNCHANGED <<J, D, M, faulting, durable>>

\* journal_quiesce_checkpoints waits for the commit in progress, or gives
\* up after ten seconds.
Quiesce(t) ==
  /\ Calling(t, "quiesce") /\ LockFree /\ J.committing = None
  /\ J' = ClearCheckpoint(J)
  /\ D' = UpdateSuperblock(D, J'.seq, J'.tail)
  /\ th' = [th EXCEPT ![t].ip = @ + 1]
  /\ UNCHANGED <<M, faulting, durable>>
QuiesceTimesOut(t) ==
  /\ Calling(t, "quiesce") /\ LockFree /\ J.committing # None
  /\ th' = [th EXCEPT ![t].ip = @ + 1]
  /\ UNCHANGED <<J, D, M, faulting, durable>>

-----------------------------------------------------------------------------
(* The worker of the disk pager.  libpager hands the requests on one pager  *)
(* to one worker at a time, so a single thread serves every block.  The     *)
(* kernel (external) decides when a page is written back or dropped.        *)

\* The kernel returns a dirty page, on its own account or because a thread
\* asked for it, and may drop it from memory.
PageOut(b) ==
  /\ At(Pager, "idle") /\ b \in M.dirty
  /\ Writeback \/ \E t \in Threads : b \in th[t].need
  /\ \E drop \in (IF Evicts THEN BOOLEAN ELSE {FALSE}) :
       M' = [M EXCEPT !.dirty = @ \ {b},
                      !.absent = IF drop THEN @ \cup {b} ELSE @]
  /\ th' = [th EXCEPT ![Pager].stack = <<"hazard", "written">> \o @,
                      ![Pager].blk = b, ![Pager].data = M.cache[b],
                      ![Pager].serves = {t \in Threads : b \in th[t].need}]
  /\ UNCHANGED <<J, D, faulting, durable>>
PageDrop(b) ==
  /\ Evicts /\ b \notin M.dirty \cup M.absent
  /\ M' = [M EXCEPT !.absent = @ \cup {b}]
  /\ UNCHANGED <<J, D, th, faulting, durable>>

\* lifeboat_alloc_slot takes the lowest free slot.
FreeSlots(j) == {s \in Slots : ~j.mask[s]}

\* The hazard of journal_handle_write_hazard_locked, and the interception:
\* one copy of the page for each of the two transactions that hold the block.
IsHazard(j, b) ==
  \/ In(j, j.running, b) /\ (j.txn[j.running].updates > 0 \/ j.committing # None)
  \/ In(j, j.committing, b)
Holders(j, b) == {x \in {j.running, j.committing} : In(j, x, b)}
HasRoom(j, b) == Cardinality(FreeSlots(j)) >= Cardinality(Holders(j, b))
\* The slots the interception gives back; the one that is being flushed
\* belongs to the committer.
Replaced_Flushing(j, b) == {j.buf[x][b].slot : x \in Holders(j, b)}
Replaced(j, b) ==
  {j.buf[x][b].slot : x \in {y \in Holders(j, b) :
                               y = j.committing => ~j.buf[y][b].flushing}}
Intercept(j, b, data) ==
  LET run == In(j, j.running, b)
      com == In(j, j.committing, b)
      forRun == Lowest(FreeSlots(j))
      forCom == Lowest(FreeSlots(j) \ (IF run THEN {forRun} ELSE {}))
      new == (IF run THEN {forRun} ELSE {}) \cup (IF com THEN {forCom} ELSE {})
  IN  [j EXCEPT
         !.mask = [s \in Slots |-> (@[s] \/ s \in new) /\ s \notin Replaced(j, b)],
         !.payload = [s \in Slots |-> IF s \in new THEN data ELSE @[s]],
         !.buf = [x \in Tids |->
                    IF x = j.running /\ run THEN [@[x] EXCEPT ![b].slot = forRun]
                    ELSE IF x = j.committing /\ com
                    THEN [@[x] EXCEPT ![b].slot = forCom] ELSE @[x]]]

\* journal_store_write, for a page of one block: under the lock, intercept
\* the write, or first commit the running transaction, or go ahead.
WriteHazard ==
  LET b == th[Pager].blk
      r == IF In(J, J.running, b) THEN BeginCommit(J) ELSE Then(J, <<>>)
  IN  /\ At(Pager, "hazard") /\ LockFree
      /\ \/ /\ IsHazard(J, b) /\ HasRoom(J, b)
            /\ J' = Intercept(J, b, th[Pager].data)
            /\ Return(Pager)
         \/ /\ IsHazard(J, b) /\ ~HasRoom(J, b)
            /\ Goto(Pager, <<"store_write", "notify">>)
            /\ UNCHANGED J
         \/ /\ ~IsHazard(J, b)
            /\ J' = r.j /\ Goto(Pager, r.k \o <<"store_write", "notify">>)
      /\ UNCHANGED <<D, M, faulting, durable>>
\* ... the write itself, outside the lock ...
StoreWrite ==
  /\ At(Pager, "store_write")
  /\ D' = [D EXCEPT !.home[th[Pager].blk] = Put(@, th[Pager].data)]
  /\ Return(Pager)
  /\ UNCHANGED <<J, M, faulting, durable>>
\* ... and the notification.
NotifyStored ==
  LET j == NotifyWritten(J, {th[Pager].blk})
  IN  /\ At(Pager, "notify") /\ LockFree
      /\ J' = j /\ D' = SuperblockAfterNotify(D, J, j)
      /\ Goto(Pager, IF j.ckpt = J.ckpt THEN <<>> ELSE <<"flush">>)
      /\ UNCHANGED <<M, faulting, durable>>
\* The page is done with: threads that waited for this write may go on.
PageWritten ==
  LET p == th[Pager]
  IN  /\ At(Pager, "written")
      /\ th' = [t \in Threads |->
                  LET l == IF t \in p.serves
                           THEN [th[t] EXCEPT !.need = @ \ {p.blk}] ELSE th[t]
                  IN  IF t = Pager
                      THEN [l EXCEPT !.stack = Tail(@), !.serves = {},
                                     !.blk = None, !.data = {}]
                      ELSE l]
      /\ UNCHANGED <<J, D, M, faulting, durable>>

\* journal_store_read: the store's copy, then the lifeboat's laid over it.
Wanted(b) ==
  \/ \E t \in Clients : Calling(t, "write") /\ Call(t).blk = b
  \/ \E t \in Threads : At(t, "sync_nodes") /\ th[t].todo # <<>> /\ Head(th[t].todo) = b
  \/ faulting # None
PageIn(b) ==
  /\ At(Pager, "idle") /\ b \in M.absent /\ Wanted(b)
  /\ th' = [th EXCEPT ![Pager].stack = <<"overlay">> \o @, ![Pager].blk = b,
                      ![Pager].data = D.home[b].now]
  /\ UNCHANGED <<J, D, M, faulting, durable>>
OverlayLifeboat ==
  LET b == th[Pager].blk
      x == IF In(J, J.running, b) THEN J.running ELSE J.committing
      boat == In(J, x, b) /\ J.buf[x][b].slot # NoSlot
  IN  /\ At(Pager, "overlay") /\ LockFree
      /\ M' = [M EXCEPT !.absent = @ \ {b},
                        !.cache[b] = IF boat THEN J.payload[J.buf[x][b].slot]
                                     ELSE th[Pager].data]
      /\ th' = [th EXCEPT ![Pager].stack = Tail(@), ![Pager].blk = None,
                          ![Pager].data = {}]
      /\ UNCHANGED <<J, D, faulting, durable>>

-----------------------------------------------------------------------------
ClientStep(t) ==
  \/ StartForcesCheckpoint(t) \/ StartTransaction(t) \/ WriteBlock(t)
  \/ NotifyBlockChanged(t) \/ PokelAdd(t) \/ DirtyBlock(t)
  \/ RecordFreedBlocks(t) \/ SetSync(t)
  \/ StopTransaction(t) \/ CommitTransaction(t) \/ LockNode(t) \/ UnlockNode(t)
  \/ CommitBarrier(t) \/ SyncGlobal(t) \/ Quiesce(t) \/ QuiesceTimesOut(t)
CheckpointStep(t) ==
  \/ Flush(t) \/ WaitOnTid(t) \/ DrainForcesCheckpoint(t) \/ DrainStart(t)
  \/ DrainStop(t) \/ DrainNothing(t) \/ ArmCheckpoint(t) \/ SyncNode(t)
  \/ SyncNodesDone(t) \/ SyncPages(t) \/ SyncWait(t) \/ ClearList(t)
  \/ HydrationFaults(t)
CommitStep(t) ==
  \/ CommitRetry(t) \/ UpdatesDone(t) \/ LogStart(t) \/ WritePayload(t)
  \/ WriteLogBlock(t) \/ WriteCommitRecord(t) \/ LogWriteFails(t) \/ AbortCommit(t)
  \/ LifeboatStart(t) \/ LifeboatCapture(t) \/ LifeboatWrite(t) \/ LifeboatDone(t)
  \/ LifeboatEnd(t) \/ FinishCommit(t) \/ ForgetFreedBlocks(t)
PagerStep ==
  \/ \E b \in Blocks : PageOut(b) \/ PageIn(b)
  \/ WriteHazard \/ StoreWrite \/ NotifyStored \/ PageWritten \/ OverlayLifeboat

Next ==
  \/ \E t \in Clients : ClientStep(t)
  \/ \E t \in Threads : CheckpointStep(t) \/ CommitStep(t)
  \/ KjournaldWakes \/ KjournaldCommits
  \/ PagerStep \/ \E b \in Blocks : PageDrop(b)

Spec == Init /\ [][Next]_vars

-----------------------------------------------------------------------------
(* Type correctness. *)

Labels == {"run", "sleep", "idle", "forced", "pokel_add", "flush", "wait", "drain",
           "drain_start", "drain_stop", "arm", "sync_nodes", "sync_pages",
           "sync_wait", "clear", "commit_running", "commit_wait",
           "commit_updates", "log_start", "payload", "write_log",
           "commit_record", "abort", "lifeboat", "lifeboat_next",
           "lifeboat_write", "lifeboat_done", "finish", "forget", "hazard",
           "store_write", "notify", "written", "overlay"}
States == {"none", "running", "locked", "flushing", "finished"}
Words == 0 .. Word - 1

BufferType == [in : BOOLEAN, shadow : Content, written : BOOLEAN, copy : BOOLEAN,
               slot : Slots \cup {NoSlot}, flushing : BOOLEAN]
TransactionType == [state : States, updates : Nat, logStart : Ring \cup {0},
                    outstanding : Int, sync : BOOLEAN, freed : SUBSET Blocks]
JournalType ==
  [head : Ring \cup {0}, tail : Ring \cup {0}, free : Words, seq : 1 .. MaxTid + 1,
   committed : Tids \cup {0}, running : Tids \cup {None},
   committing : Tids \cup {None}, ckpt : Seq(Tids),
   txn : [Tids -> TransactionType], buf : [Tids -> [Blocks -> BufferType]],
   mask : [Slots -> BOOLEAN], payload : [Slots -> Content]]
RecordType == [kind : {"blank", "descriptor", "data", "commit"},
               tid : Tids \cup {None}, tags : Seq(Blocks), val : Content]
CellType(S) == [now : S, may : SUBSET S]
DiskType == [sb : CellType([seq : 1 .. MaxTid + 1, start : Ring \cup {0}]),
             log : [Ring -> CellType(RecordType)],
             home : [Blocks -> CellType(Content)]]
MemoryType == [cache : [Blocks -> Content], dirty : SUBSET Blocks,
               absent : SUBSET Blocks, pokel : SUBSET Blocks, incore : SUBSET Blocks,
               lock : [Blocks -> Clients \cup {None}]]
ThreadType ==
  [stack : Seq(Labels), ip : Nat \ {0}, handles : Seq(Tids), target : Tids \cup {None},
   deferred : Seq(Blocks), drain : Tids \cup {None}, todo : Seq(Blocks),
   batch : Int, slot : Slots \cup {NoSlot}, freed : SUBSET Blocks,
   need : SUBSET (Blocks \cup {None}), blk : Blocks \cup {None}, data : Content,
   serves : SUBSET Threads]

TypeOK ==
  /\ J \in JournalType
  /\ D \in DiskType
  /\ M \in MemoryType
  /\ th \in [Threads -> ThreadType]
  /\ faulting \in Threads \cup {None}
  /\ durable \in [Blocks -> [kept : Content, gone : Content]]

-----------------------------------------------------------------------------
(* Safety. *)

\* The life cycle T_RUNNING -> T_LOCKED -> T_FLUSHING -> T_FINISHED is the
\* place a transaction has in the journal: it is in one slot or on the
\* checkpoint list, and transaction ids grow from the head of that list
\* through the committing to the running transaction.
Pipeline ==
  /\ \A x \in Tids :
       /\ J.txn[x].state = "running" <=> x = J.running
       /\ J.txn[x].state \in {"locked", "flushing"} <=> x = J.committing
       /\ J.txn[x].state = "finished" <=> x \in Range(J.ckpt)
  /\ \A i, k \in 1 .. Len(J.ckpt) : i < k => J.ckpt[i] < J.ckpt[k]
  /\ \A x \in Range(J.ckpt) : x <= J.committed
  /\ J.committing # None => J.committed < J.committing
  /\ J.running # None => J.running = J.seq - 1
  /\ J.committed < J.seq /\ J.committing < J.seq
  /\ J.running # None => J.committing < J.running /\ J.committed < J.running

\* t_outstanding_io is "how many buffers in the t_buffer_map have
\* jb_is_written == 0", whatever mix of dirtying, pager notifications and
\* lifeboat flushes led there.
OutstandingExact ==
  \A x \in Tids :
    J.txn[x].outstanding =
      Cardinality({b \in Blocks : J.buf[x][b].in /\ ~J.buf[x][b].written})

\* t_updates counts the handles that threads really hold, so a handle never
\* outlives its transaction and a transaction being written has none.
Handles(x) ==
  UNION {{<<t, i>> : i \in {k \in 1 .. Len(th[t].handles) : th[t].handles[k] = x}}
         \cup (IF th[t].drain = x THEN {<<t, 0>>} ELSE {}) : t \in Threads}
HandleCount ==
  \A x \in Tids :
    /\ J.txn[x].updates = Cardinality(Handles(x))
    /\ J.txn[x].updates > 0 => J.txn[x].state \in {"running", "locked"}

\* When a transaction is written to the log every buffer of it has been
\* copied: the assertion of journal_write_payload.
FlushingHydrated ==
  J.committing # None /\ J.txn[J.committing].state = "flushing" =>
    \A b \in BuffersOf(J, J.committing) : ~J.buf[J.committing][b].copy

\* A slot of the lifeboat that a buffer refers to, or that the committer is
\* writing from, is allocated, and two buffers never share one.
SlotsOwned ==
  /\ \A x \in Tids, b \in Blocks :
       J.buf[x][b].slot # NoSlot => J.mask[J.buf[x][b].slot]
  /\ \A t \in Threads : th[t].slot # NoSlot => J.mask[th[t].slot]
  /\ \A x, y \in Tids, b, c \in Blocks :
       (<<x, b>> # <<y, c>> /\ J.buf[x][b].slot # NoSlot)
         => J.buf[x][b].slot # J.buf[y][c].slot

\* The commit slot is taken exactly while one thread is inside the commit,
\* and never by two: what j_committing_transaction is for.
CommitLabels == {"commit_updates", "log_start", "payload", "write_log",
                 "commit_record", "lifeboat", "lifeboat_next", "lifeboat_write",
                 "lifeboat_done", "finish", "abort"}
Committers == {t \in Threads : Range(th[t].stack) \cap CommitLabels # {}}
OneCommitter == Cardinality(Committers) = IF J.committing = None THEN 0 ELSE 1

\* A thread sleeping in journal_wait_on_tid_locked waits for a transaction
\* that is committed or in the commit slot: its wake-up is on the way.
WaitersServed ==
  \A t \in Threads :
    At(t, "wait") => th[t].target \in {J.committing} \cup 1 .. J.committed

\* The space of a transaction "cannot be safely reclaimed" before its blocks
\* are home: a transaction leaves the checkpoint list only then.
ReclaimedAreHome ==
  [][\A x \in Range(J.ckpt) \ Range(J'.ckpt) : \A b \in BuffersOf(J, x) :
       J.buf[x][b].shadow \subseteq D.home[b].now]_vars

\* Reads through the pager "return the most up-to-date data": paging a block
\* in never brings back an older content than memory held before.
CacheCoherent == [][\A b \in Blocks : M.cache[b] \subseteq M'.cache[b]]_vars

\* An allocated slot of the lifeboat belongs to a buffer or to the committer
\* that is writing from it; replacing one "must free it to avoid a leak".
NoSlotLeak ==
  \A s \in Slots : J.mask[s] =>
    \/ \E x \in Tids, b \in Blocks : J.buf[x][b].slot = s
    \/ \E t \in Threads : th[t].slot = s

\* The lifeboat "prevents the VM pager from deadlocking the filesystem": the
\* pager never waits for j_state_lock while its holder waits for the pager.
PagerNotBlocked == faulting # None => ~At(Pager, "overlay")

\* The deferred queue "safely bypasses the lock inversion": the flush of the
\* nodes in a forced checkpoint never waits for a node lock of its own thread.
NoSelfLock ==
  \A t \in Clients : At(t, "sync_nodes") /\ th[t].todo # <<>> =>
    M.lock[Head(th[t].todo)] # t

\* j_free answers "How many blocks left?": never more than the ring has
\* outside the live part of the log.
FreeBlocks == IF J.tail \in {0, NextBlock(J.head)} THEN Capacity
              ELSE Capacity - ((J.head - J.tail) % Capacity) - 1
FreeIsHonest == J.free <= FreeBlocks

\* Nested operations must not wait for a commit that waits for them: a thread
\* that sleeps until the commit slot is free holds no handle on the
\* transaction in it ("cannot safely block", says diskfs_journal_set_sync).
NoCommitCycle ==
  \A t \in Threads : At(t, "commit_wait") => J.committing \notin Range(th[t].handles)

\* The worker of the disk pager never waits for a page that only it can write.
PagerNotSelfWaiting == At(Pager, "sync_wait") => th[Pager].need = {}

\* A node written out by a forced checkpoint is journaled: its block is
\* queued, or in a live transaction, or committed.
NodesJournaled ==
  \A b \in Blocks : NodeWriter \in M.cache[b] =>
    \/ \E t \in Threads : b \in Range(th[t].deferred)
    \/ \E x \in Live(J) : In(J, x, b)
    \/ NodeWriter \in durable[b].kept

\* Metadata reaches its home only after the log: "this preserves the
\* Write-Ahead Log (WAL) ordering".
WriteAhead ==
  \A b \in Blocks : D.home[b].now \subseteq durable[b].kept \cup durable[b].gone \cup
    (IF In(J, J.committing, b) THEN J.buf[J.committing][b].shadow ELSE {})

\* A client whose program has ended
Finished(t) == At(t, "run") /\ ~Pending(t)

\* The journal implements the abstract pipeline of transactions: they open,
\* lock, finish or abort, and are reclaimed oldest first, one at a time and
\* in no other way.
P == INSTANCE TransactionPipeline WITH
       running <- J.running, committing <- J.committing,
       finished <- Range(J.ckpt), last <- J.committed, next <- J.seq
ImplementsPipeline == P!Spec

-----------------------------------------------------------------------------
(* Liveness.  Every thread is scheduled; kjournald's timer expires and the  *)
(* kernel and the disk serve requests.                                      *)

ThreadStep(t) ==
  \/ t \in Clients /\ ClientStep(t)
  \/ CheckpointStep(t) \/ CommitStep(t)
  \/ t = Kjournald /\ (KjournaldWakes \/ KjournaldCommits)
  \/ t = Pager /\ PagerStep
Fairness == \A t \in Threads : WF_vars(ThreadStep(t))
FairSpec == Spec /\ Fairness

\* Every operation returns: no commit, wait or checkpoint it needs is starved
\* by the others, when every thread is scheduled.
OperationsFinish == \A t \in Clients : <>Finished(t)

\* Whatever is in the running transaction is committed in the end.
EventuallyCommitted ==
  \A x \in Tids : (J.running = x /\ BuffersOf(J, x) # {}) ~> (J.committed >= x)
=============================================================================
