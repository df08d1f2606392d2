----------------------------- MODULE MCJournal -----------------------------
(***************************************************************************)
(* Instances of the journal for TLC: the calls that the operations of      *)
(* libdiskfs and ext2fs make, with one or two threads and blocks.          *)
(***************************************************************************)
EXTENDS JournalCrash, TLC

CONSTANTS b1, b2, c1, c2

On(op, b) == <<[op |-> op, blk |-> b]>>
Do(op) == On(op, CHOOSE b \in Blocks : TRUE)

\* A block changed through its mapping and reported: record_global_poke
Update(b) == On("write", b) \o On("poke", b)
\* An operation on one block, asynchronous or O_SYNC
Async(b) == Do("start") \o Update(b) \o Do("stop")
Sync(b) == Do("start") \o Update(b) \o Do("commit")
\* diskfs_shutdown_pager, after write_all_disknodes
Unmount == Do("commit_running") \o Do("sync_pages") \o Do("quiesce") \o Do("store_sync")

Alone(calls) == [c \in {c1} |-> calls]
Both(calls1, calls2) == c1 :> calls1 @@ c2 :> calls2

\* Two operations share a block: one dirties it through its handle and asks
\* for a commit with set_sync; the other reports its change with no
\* transaction of its own, as diskfs_set_hypermetadata does.
SharedBlock == Both(Do("start") \o On("write", b1) \o On("dirty", b1)
                      \o Do("setsync") \o Do("stop"), Update(b1))
SharedAsync == Both(Async(b1), Sync(b1))
Disjoint == Both(Async(b1), Sync(b2))
BothSync == Both(Sync(b1), Sync(b2))
TwoSync == Alone(Sync(b2) \o Sync(b1))
ThreeSync == Alone(Sync(b1) \o Sync(b2) \o Sync(b1))
ThreeAsync == Alone(Async(b1) \o Async(b2) \o Async(b1))
SyncBoth == Do("start") \o Update(b1) \o Update(b2) \o Do("commit")
TwoBlocks == Alone(SyncBoth)
\* Two transactions of two blocks, the first brought home in between
TwiceTwoBlocks == Alone(SyncBoth \o Do("sync_pages") \o SyncBoth)
\* The whole life of a mount: the ring wraps while blocks go home on request
\* between the operations, a committed block is freed, and the last operation
\* before the unmount changes nothing.
Round(b) == Sync(b) \o Do("sync_pages")
Lifetime == Alone(Round(b1) \o Round(b2) \o Sync(b1)
                    \o Do("start") \o On("free", b1) \o Update(b2) \o Do("commit")
                    \o Do("sync_pages") \o Do("start") \o Do("commit") \o Unmount)
\* Enough commits to run the ring short of space
Crowded == Both(Sync(b1) \o Sync(b1) \o Sync(b1), Sync(b2))
\* A nested operation inside one on two blocks, then an unmount
NestedThenUnmount == Alone(Do("start") \o Do("start") \o Update(b1) \o Do("stop")
                             \o Update(b2) \o Do("commit") \o Unmount)
\* Two operations on one node, under its lock
Locked(b, end) ==
  Do("start") \o On("lock", b) \o Update(b) \o On("unlock", b) \o Do(end)
LockedBoth == Both(Locked(b1, "stop"), Locked(b1, "commit"))
NodeLocked == Both(Sync(b1) \o Sync(b1), Locked(b2, "commit"))
\* A synchronous update nested in an operation with a transaction of its own
NestedSync == Alone(Do("start") \o Update(b1) \o Do("start") \o Update(b2)
                      \o Do("setsync") \o Do("stop") \o Do("stop"))
\* A block freed and used again
Reused == Both(Do("start") \o On("free", b1) \o Do("commit"), Sync(b1))
WrittenThrice == Both(Do("start") \o On("write", b1) \o Update(b1) \o Do("stop"), Sync(b1))
AsyncThenUnmount == Alone(Async(b1) \o Unmount)
=============================================================================
