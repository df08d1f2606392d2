----------------------- MODULE JournalOperatorProofs ------------------------
(***************************************************************************)
(* The operators on struct journal and on the store, for all journals:     *)
(* each keeps its argument well formed and moves transactions in one of the*)
(* six ways defined here, and each of those ways keeps the pipeline of     *)
(* transactions in order.  JournalProofs rests on these lemmas.            *)
(***************************************************************************)
EXTENDS Journal, JournalRingProofs, FiniteSetTheorems, SequenceTheorems,
        WellFoundedInduction, TLAPS

\* The empty slot of a buffer map (NoBuffer) is a well-formed buffer.
LEMMA NoBufferType == NoBuffer \in BufferType
BY DEF NoBuffer, BufferType, Content

\* The empty transaction (NoTransaction) is well formed.
LEMMA NoTransactionType == NoTransaction \in TransactionType
BY DEF NoTransaction, TransactionType, States

-----------------------------------------------------------------------------
(* Moves of the pipeline. *)

\* A step that moves no transaction: what dirtying, copying, the lifeboat and
\* the log writes do.
Kept(j, k) ==
  /\ k.running = j.running /\ k.committing = j.committing /\ k.ckpt = j.ckpt
  /\ k.committed = j.committed /\ k.seq = j.seq
  /\ \A x \in Tids : k.txn[x].state = j.txn[x].state

\* The committing transaction goes from T_LOCKED to T_FLUSHING.
Flushed(j, k) ==
  /\ j.committing # None
  /\ k.running = j.running /\ k.committing = j.committing /\ k.ckpt = j.ckpt
  /\ k.committed = j.committed /\ k.seq = j.seq
  /\ \A x \in Tids : k.txn[x].state = IF x = j.committing THEN "flushing"
                                      ELSE j.txn[x].state

\* diskfs_journal_start_transaction_locked creates the running transaction.
Opened(j, k) ==
  /\ j.running = None /\ k.running = j.seq /\ k.seq = j.seq + 1
  /\ k.committing = j.committing /\ k.ckpt = j.ckpt /\ k.committed = j.committed
  /\ \A x \in Tids : k.txn[x].state = IF x = j.seq THEN "running" ELSE j.txn[x].state
  /\ j.seq \in Tids

\* The running transaction takes the commit slot.
Locked(j, k) ==
  /\ j.running # None /\ j.committing = None
  /\ k.running = None /\ k.committing = j.running
  /\ k.ckpt = j.ckpt /\ k.committed = j.committed /\ k.seq = j.seq
  /\ \A x \in Tids : IF x = j.running THEN k.txn[x].state \in {"locked", "flushing"}
                     ELSE k.txn[x].state = j.txn[x].state

\* The commit slot is left, for the checkpoint list or, after abort_commit,
\* for good.
Left(j, k) ==
  /\ j.committing # None /\ k.committing = None /\ k.committed = j.committing
  /\ k.running = j.running /\ k.seq = j.seq
  /\ \/ k.ckpt = Append(j.ckpt, j.committing)
     \/ k.ckpt = j.ckpt
  /\ \A x \in Tids : k.txn[x].state = IF x # j.committing THEN j.txn[x].state
                                      ELSE IF k.ckpt = j.ckpt THEN "none" ELSE "finished"

\* A prefix of the checkpoint list is freed: try_advance_tail and
\* clear_checkpoint_list.
Reclaimed(j, k) ==
  /\ k.running = j.running /\ k.committing = j.committing
  /\ k.committed = j.committed /\ k.seq = j.seq
  /\ \E n \in 1 .. Len(j.ckpt) :
       /\ k.ckpt = SubSeq(j.ckpt, n + 1, Len(j.ckpt))
       /\ \A x \in Tids : k.txn[x].state = IF \E i \in 1 .. n : x = j.ckpt[i] THEN "none"
                                           ELSE j.txn[x].state

\* Pipeline, as a predicate of a journal record.
Ordered(j) ==
  /\ \A x \in Tids :
       /\ j.txn[x].state = "running" <=> x = j.running
       /\ j.txn[x].state \in {"locked", "flushing"} <=> x = j.committing
       /\ j.txn[x].state = "finished" <=> x \in Range(j.ckpt)
  /\ \A i, k \in 1 .. Len(j.ckpt) : i < k => j.ckpt[i] < j.ckpt[k]
  /\ \A x \in Range(j.ckpt) : x <= j.committed
  /\ j.committing # None => j.committed < j.committing
  /\ j.running # None => j.running = j.seq - 1
  /\ j.committed < j.seq /\ j.committing < j.seq
  /\ j.running # None => j.committing < j.running /\ j.committed < j.running

\* A step that moves no transaction keeps the pipeline in order.
LEMMA KeptOrdered ==
  ASSUME NEW j \in JournalType, NEW k \in JournalType, Ordered(j), Kept(j, k)
  PROVE  Ordered(k)
BY DEF Kept, Ordered

\* The step to T_FLUSHING keeps the pipeline in order.
LEMMA FlushedOrdered ==
  ASSUME NEW j \in JournalType, NEW k \in JournalType, Ordered(j), Flushed(j, k)
  PROVE  Ordered(k)
<1>1. \A x \in Tids :
       /\ k.txn[x].state = "running" <=> x = k.running
       /\ k.txn[x].state \in {"locked", "flushing"} <=> x = k.committing
       /\ k.txn[x].state = "finished" <=> x \in Range(k.ckpt)
  BY DEF Ordered, Flushed
<1> QED BY <1>1 DEF Ordered, Flushed

\* A new running transaction is later than every other one.
LEMMA OpenedOrdered ==
  ASSUME NEW j \in JournalType, NEW k \in JournalType, Ordered(j), Opened(j, k)
  PROVE  Ordered(k)
<1>1. j.seq \notin Range(j.ckpt)
  BY DEF Ordered, JournalType, Tids
<1>2. \A x \in Tids : x # j.running
  BY DEF Opened, Tids, None
<1>3. j.committing # j.seq /\ j.committing <= MaxTid /\ j.committed <= MaxTid
  BY JournalAssumption DEF Ordered, JournalType, Tids, None
<1>4. \A x \in Tids :
       /\ k.txn[x].state = "running" <=> x = k.running
       /\ k.txn[x].state \in {"locked", "flushing"} <=> x = k.committing
       /\ k.txn[x].state = "finished" <=> x \in Range(k.ckpt)
  BY <1>1, <1>2, <1>3 DEF Ordered, Opened
<1>5. j.seq \in Int /\ j.committing \in Int /\ j.committed \in Int /\ j.committed < j.seq
  BY <1>3 DEF Ordered, JournalType, Tids, None
<1>6. k.committed < k.seq /\ k.committing < k.seq /\ k.running = k.seq - 1
  BY <1>5 DEF Ordered, Opened
<1>7. k.committing < k.running /\ k.committed < k.running
  BY <1>5 DEF Ordered, Opened
<1> QED BY <1>4, <1>6, <1>7 DEF Ordered, Opened

\* Locking the running transaction keeps the pipeline in order.
LEMMA LockedOrdered ==
  ASSUME NEW j \in JournalType, NEW k \in JournalType, Ordered(j), Locked(j, k)
  PROVE  Ordered(k)
<1>1. \A x \in Tids : x # None
  BY DEF Tids, None
<1>2. j.running \in Tids
  BY DEF Locked, JournalType
<1>3. \A x \in Tids :
       /\ k.txn[x].state = "running" <=> x = k.running
       /\ k.txn[x].state \in {"locked", "flushing"} <=> x = k.committing
       /\ k.txn[x].state = "finished" <=> x \in Range(k.ckpt)
  BY <1>1, <1>2 DEF Ordered, Locked
<1> QED BY <1>3, <1>2 DEF Ordered, Locked, JournalType, Tids, None

\* A commit that ends, well or not, keeps the pipeline in order: the new
\* entry of the checkpoint list is its latest.
LEMMA LeftOrdered ==
  ASSUME NEW j \in JournalType, NEW k \in JournalType, Ordered(j), Left(j, k)
  PROVE  Ordered(k)
<1>1. \A x \in Tids : x # None
  BY DEF Tids, None
<1>2. j.committing \in Tids /\ j.ckpt \in Seq(Tids)
  BY DEF Left, JournalType
<1>3. j.committing \notin Range(j.ckpt) /\ j.committing # j.running
  BY <1>2 DEF Ordered, Left, JournalType, Tids, None
<1>4. CASE k.ckpt = j.ckpt
  <2>1. \A x \in Tids :
       /\ k.txn[x].state = "running" <=> x = k.running
       /\ k.txn[x].state \in {"locked", "flushing"} <=> x = k.committing
       /\ k.txn[x].state = "finished" <=> x \in Range(k.ckpt)
    BY <1>1, <1>2, <1>3, <1>4 DEF Ordered, Left
  <2>2. \A x \in Range(j.ckpt) : x \in Tids
    BY <1>2 DEF Range
  <2> QED BY <2>1, <2>2, <1>2, <1>4 DEF Ordered, Left, JournalType, Tids, None
<1>5. CASE k.ckpt = Append(j.ckpt, j.committing) /\ k.ckpt # j.ckpt
  <2> DEFINE c == j.ckpt
             n == Len(c)
  <2>1. /\ n \in Nat /\ Len(k.ckpt) = n + 1
        /\ \A i \in 1 .. n : k.ckpt[i] = c[i] /\ c[i] \in Tids
        /\ k.ckpt[n + 1] = j.committing
        /\ DOMAIN c = 1 .. n /\ DOMAIN k.ckpt = 1 .. n + 1
    BY <1>2, <1>5
  <2> HIDE DEF c, n
  <2>2. Range(k.ckpt) = Range(c) \cup {j.committing}
    BY <2>1 DEF Range
  <2>3. \A x \in Tids :
       /\ k.txn[x].state = "running" <=> x = k.running
       /\ k.txn[x].state \in {"locked", "flushing"} <=> x = k.committing
       /\ k.txn[x].state = "finished" <=> x \in Range(k.ckpt)
    <3> TAKE x \in Tids
    <3>1. CASE x = j.committing
      BY <1>1, <1>3, <1>5, <2>2, <3>1 DEF Left
    <3>2. CASE x # j.committing
      BY <1>1, <1>5, <2>2, <3>2 DEF Ordered, Left, c
    <3> QED BY <3>1, <3>2
  <2>4. \A x \in Range(c) : x \in Tids /\ x <= j.committed
    <3>1. \A x \in Range(c) : x \in Tids
      BY <2>1 DEF Range
    <3> QED BY <3>1 DEF Ordered, c
  <2>5. \A x \in Range(k.ckpt) : x <= k.committed
    <3>1. j.committed \in Int /\ j.committed < j.committing /\ k.committed = j.committing
      BY <1>2 DEF Left, Ordered, JournalType, Tids, None
    <3> QED BY <2>2, <2>4, <3>1, <1>2 DEF Tids
  <2>6. \A i \in 1 .. n : c[i] < j.committing
    <3>1. j.committed \in Int /\ j.committed < j.committing
      BY <1>2 DEF Left, Ordered, JournalType, Tids, None
    <3>2. \A i \in 1 .. n : c[i] \in Range(c)
      BY <2>1 DEF Range
    <3> QED BY <2>4, <3>1, <3>2, <1>2 DEF Tids
  <2>7. \A i, m \in 1 .. n + 1 : i < m => k.ckpt[i] < k.ckpt[m]
    <3> TAKE i, m \in 1 .. n + 1
    <3> HAVE i < m
    <3>1. CASE m = n + 1
      BY <2>1, <2>6, <3>1
    <3>2. CASE m # n + 1
      <4>1. i \in 1 .. n /\ m \in 1 .. n
        BY <2>1, <3>2
      <4> QED BY <2>1, <4>1 DEF Ordered, n, c
    <3> QED BY <3>1, <3>2
  <2> QED BY <2>1, <2>3, <2>5, <2>7, <1>2 DEF Ordered, Left, JournalType, Tids, None
<1> QED BY <1>4, <1>5 DEF Left

\* Freeing a prefix of the checkpoint list keeps the pipeline in order; the
\* ids of that prefix are not on the rest of the list, which is sorted.
LEMMA ReclaimedOrdered ==
  ASSUME NEW j \in JournalType, NEW k \in JournalType, Ordered(j), Reclaimed(j, k)
  PROVE  Ordered(k)
<1> DEFINE c == j.ckpt
<1>1. PICK n \in 1 .. Len(c) :
       /\ k.ckpt = SubSeq(c, n + 1, Len(c))
       /\ \A x \in Tids : k.txn[x].state = IF \E i \in 1 .. n : x = c[i] THEN "none"
                                           ELSE j.txn[x].state
  BY DEF Reclaimed
<1> DEFINE m == Len(c) - n
<1>2. c \in Seq(Tids) /\ Len(c) \in Nat /\ n \in Nat /\ m \in Nat /\ DOMAIN c = 1 .. Len(c)
  BY DEF JournalType
<1>3. Len(k.ckpt) = m /\ DOMAIN k.ckpt = 1 .. m /\ \A i \in 1 .. m : k.ckpt[i] = c[i + n]
  BY <1>1, <1>2, SubSeqProperties
<1>4. /\ \A i \in 1 .. Len(c) : c[i] \in Tids
      /\ \A i \in 1 .. m : i + n \in 1 .. Len(c)
  BY <1>2
<1>5. \A i, l \in 1 .. Len(c) : i < l => c[i] < c[l]
  BY DEF Ordered
<1> HIDE DEF c, m
<1>6. \A x \in Tids : x \in Range(k.ckpt) <=> x \in Range(c) /\ ~\E i \in 1 .. n : x = c[i]
  <2> TAKE x \in Tids
  <2>1. ASSUME x \in Range(k.ckpt) PROVE x \in Range(c) /\ ~\E i \in 1 .. n : x = c[i]
    <3>1. PICK i \in 1 .. m : x = k.ckpt[i]
      BY <1>3, <2>1 DEF Range
    <3>0. x = c[i + n] /\ i + n \in 1 .. Len(c)
      BY <1>4, <1>3, <3>1
    <3>2. \A l \in 1 .. n : l \in 1 .. Len(c) /\ l < i + n
      BY <1>1, <1>2, <3>1
    <3>3. \A l \in 1 .. n : c[l] # x
      BY <3>0, <3>2, <1>4, <1>5 DEF Tids
    <3> QED BY <3>0, <3>3, <1>2 DEF Range
  <2>2. ASSUME x \in Range(c), ~\E i \in 1 .. n : x = c[i] PROVE x \in Range(k.ckpt)
    <3>1. PICK i \in 1 .. Len(c) : x = c[i]
      BY <1>2, <2>2 DEF Range
    <3>2. i - n \in 1 .. m /\ (i - n) + n = i
      BY <1>2, <2>2, <3>1 DEF m
    <3> QED BY <1>3, <3>1, <3>2 DEF Range
  <2> QED BY <2>1, <2>2
<1>7. \A i \in 1 .. n : c[i] \in Range(c)
  BY <1>1, <1>2 DEF Range
<1>8. \A x \in Tids :
       /\ k.txn[x].state = "running" <=> x = k.running
       /\ k.txn[x].state \in {"locked", "flushing"} <=> x = k.committing
       /\ k.txn[x].state = "finished" <=> x \in Range(k.ckpt)
  <2> TAKE x \in Tids
  <2>1. CASE \E i \in 1 .. n : x = c[i]
    <3>1. x \in Range(c) /\ k.txn[x].state = "none"
      BY <1>1, <1>7, <2>1
    <3>2. j.txn[x].state = "finished" /\ x # j.running /\ x # j.committing
      BY <3>1 DEF Ordered, c
    <3> QED BY <1>6, <2>1, <3>1, <3>2 DEF Reclaimed
  <2>2. CASE ~\E i \in 1 .. n : x = c[i]
    <3>1. k.txn[x].state = j.txn[x].state /\ (x \in Range(k.ckpt) <=> x \in Range(c))
      BY <1>1, <1>6, <2>2
    <3> QED BY <3>1 DEF Ordered, Reclaimed, c
  <2> QED BY <2>1, <2>2
<1>9. \A i, l \in 1 .. Len(k.ckpt) : i < l => k.ckpt[i] < k.ckpt[l]
  <2> TAKE i, l \in 1 .. Len(k.ckpt)
  <2> HAVE i < l
  <2>1. i \in 1 .. m /\ l \in 1 .. m
    BY <1>3
  <2>2. i + n \in 1 .. Len(c) /\ l + n \in 1 .. Len(c) /\ i + n < l + n
    <3>1. i \in Int /\ l \in Int /\ n \in Int
      BY <1>2, <2>1
    <3>2. i + n < l + n
      BY <3>1
    <3> QED BY <1>4, <2>1, <3>2
  <2> QED BY <2>1, <2>2, <1>3, <1>5
<1>10. \A x \in Range(k.ckpt) : x \in Tids
  BY <1>3, <1>4 DEF Range
<1>11. \A x \in Range(k.ckpt) : x <= k.committed
  BY <1>6, <1>10 DEF Ordered, Reclaimed, c
<1> QED BY <1>8, <1>9, <1>11 DEF Ordered, Reclaimed

-----------------------------------------------------------------------------
(* Handles and buffers. *)

\* The buffer maps of all transactions.
BufferMaps == [Tids -> [Blocks -> BufferType]]

\* The types of the fields of a journal.
LEMMA Fields ==
  ASSUME NEW j \in JournalType
  PROVE  /\ j.buf \in BufferMaps /\ j.txn \in [Tids -> TransactionType]
         /\ j.mask \in [Slots -> BOOLEAN] /\ j.payload \in [Slots -> Content]
         /\ j.running \in Tids \cup {None} /\ j.committing \in Tids \cup {None}
         /\ j.seq \in 1 .. MaxTid + 1 /\ j.ckpt \in Seq(Tids)
         /\ j.head \in Ring \cup {0} /\ j.tail \in Ring \cup {0} /\ j.free \in Words
BY DEF JournalType, BufferMaps

\* New buffer maps, lifeboat mask and counters move no transaction.
LEMMA KeptByUpdate ==
  ASSUME NEW j \in JournalType, NEW buf \in BufferMaps, NEW mask \in [Slots -> BOOLEAN],
         NEW txn \in [Tids -> TransactionType],
         \A y \in Tids : txn[y].state = j.txn[y].state,
         NEW k, k = [j EXCEPT !.buf = buf, !.mask = mask, !.txn = txn]
  PROVE  k \in JournalType /\ Kept(j, k)
BY DEF JournalType, Kept, BufferMaps

\* Two steps in a row that move no transaction.
LEMMA KeptTransitive ==
  ASSUME NEW i, NEW j, NEW k, Kept(i, j), Kept(j, k)
  PROVE  Kept(i, k)
BY DEF Kept

\* Changing t_updates leaves the state of a transaction alone.
LEMMA UpdatesSet ==
  ASSUME NEW r \in TransactionType, NEW n \in Nat
  PROVE  /\ [r EXCEPT !.updates = n] \in TransactionType
         /\ [r EXCEPT !.updates = n].state = r.state
         /\ [r EXCEPT !.updates = n].sync = r.sync
BY DEF TransactionType

\* Changing t_outstanding_io leaves the state and the sync flag of a
\* transaction alone.
LEMMA OutstandingSet ==
  ASSUME NEW r \in TransactionType, NEW n \in Int
  PROVE  /\ [r EXCEPT !.outstanding = n] \in TransactionType
         /\ [r EXCEPT !.outstanding = n].state = r.state
         /\ [r EXCEPT !.outstanding = n].sync = r.sync
BY DEF TransactionType

\* journal_dirty_block_locked moves no transaction.
LEMMA DirtyBlocksKeeps ==
  ASSUME NEW j \in JournalType, NEW x \in Tids, NEW S \in SUBSET Blocks
  PROVE  /\ DirtyBlocks(j, x, S) \in JournalType
         /\ Kept(j, DirtyBlocks(j, x, S))
         /\ \A y \in Tids : DirtyBlocks(j, x, S).txn[y].sync = j.txn[y].sync
<1> DEFINE Joined(b) == [(IF j.buf[x][b].in THEN j.buf[x][b] ELSE NoBuffer)
                           EXCEPT !.in = TRUE, !.copy = TRUE, !.written = FALSE,
                                  !.slot = NoSlot]
           fresh == {b \in S : ~j.buf[x][b].in \/ j.buf[x][b].written}
           buf == [j.buf EXCEPT ![x] = [b \in Blocks |-> IF b \in S THEN Joined(b) ELSE @[b]]]
           mask == Release(j.mask, SlotsOf(j, x, S))
           txn == [j.txn EXCEPT ![x].outstanding = @ + Cardinality(fresh)]
           k == DirtyBlocks(j, x, S)
<1>1. Cardinality(fresh) \in Nat
  <2>1. IsFiniteSet(fresh)
    BY JournalAssumption, FS_Subset
  <2> QED BY <2>1, FS_CardinalityType
<1>2. k = [j EXCEPT !.buf = buf, !.mask = mask, !.txn = txn]
  BY DEF DirtyBlocks, JournalType
<1>3. \A b \in Blocks : Joined(b) \in BufferType
  <2> TAKE b \in Blocks
  <2>1. (IF j.buf[x][b].in THEN j.buf[x][b] ELSE NoBuffer) \in BufferType
    BY Fields, NoBufferType DEF BufferMaps
  <2> QED BY <2>1 DEF BufferType
<1> HIDE DEF Joined, fresh
<1>4. buf \in BufferMaps
  BY Fields, <1>3 DEF BufferMaps
<1>5. mask \in [Slots -> BOOLEAN]
  BY DEF Release
<1>6. txn \in [Tids -> TransactionType]
      /\ \A y \in Tids : txn[y].state = j.txn[y].state /\ txn[y].sync = j.txn[y].sync
  <2> DEFINE r == [j.txn[x] EXCEPT !.outstanding = @ + Cardinality(fresh)]
  <2>1. j.txn[x] \in TransactionType /\ j.txn[x].outstanding + Cardinality(fresh) \in Int
    BY <1>1, Fields DEF TransactionType
  <2>2. r \in TransactionType /\ r.state = j.txn[x].state /\ r.sync = j.txn[x].sync
    BY <2>1, OutstandingSet
  <2> QED BY <2>2, Fields
<1> HIDE DEF buf, mask, txn, k
<1>7. k.txn = txn
  BY <1>2 DEF JournalType
<1>8. k \in JournalType /\ Kept(j, k)
  BY <1>2, <1>4, <1>5, <1>6, KeptByUpdate
<1> QED BY <1>6, <1>7, <1>8 DEF k

\* journal_stop_transaction_locked, its copy of the buffers included, moves
\* no transaction.
LEMMA StopHandleKeeps ==
  ASSUME NEW j \in JournalType, NEW x, NEW cache \in [Blocks -> Content]
  PROVE  /\ StopHandle(j, x, cache) \in JournalType
         /\ Kept(j, StopHandle(j, x, cache))
         /\ \A y \in Tids : StopHandle(j, x, cache).txn[y].sync = j.txn[y].sync
<1> DEFINE last == j.txn[x].updates = 1
           Hydrated(b) ==
             LET jb == j.buf[x][b]
             IN  IF jb.in /\ jb.copy
                 THEN [jb EXCEPT !.copy = FALSE,
                                 !.shadow = IF jb.slot # NoSlot
                                            THEN j.payload[jb.slot] ELSE cache[b]]
                 ELSE jb
           buf == [j.buf EXCEPT ![x] = IF last THEN [b \in Blocks |-> Hydrated(b)] ELSE @]
           txn == [j.txn EXCEPT ![x].updates = @ - 1]
           k == StopHandle(j, x, cache)
<1>1. CASE j.txn[x].updates = 0
  <2>1. k = j
    BY <1>1 DEF StopHandle
  <2> QED BY <2>1 DEF Kept
<1>2. CASE j.txn[x].updates # 0
  <2>1. k = [j EXCEPT !.buf = buf, !.mask = j.mask, !.txn = txn]
    BY <1>2 DEF StopHandle, JournalType
  <2>2. CASE x \notin Tids
    <3>1. buf = j.buf /\ txn = j.txn
      BY <2>2, Fields DEF BufferMaps
    <3> HIDE DEF buf, txn
    <3>2. k = j
      BY <2>1, <3>1 DEF JournalType
    <3> QED BY <3>2 DEF Kept
  <2>3. CASE x \in Tids
    <3>1. \A b \in Blocks : Hydrated(b) \in BufferType
      <4> TAKE b \in Blocks
      <4>1. j.buf[x][b] \in BufferType
        BY <2>3, Fields DEF BufferMaps
      <4>2. (IF j.buf[x][b].slot # NoSlot THEN j.payload[j.buf[x][b].slot] ELSE cache[b])
            \in Content
        BY <4>1, Fields DEF BufferType
      <4> QED BY <4>1, <4>2 DEF BufferType
    <3> HIDE DEF Hydrated
    <3>2. buf \in BufferMaps
      BY <2>3, <3>1, Fields DEF BufferMaps
    <3>3. txn \in [Tids -> TransactionType]
          /\ \A y \in Tids : txn[y].state = j.txn[y].state /\ txn[y].sync = j.txn[y].sync
      <4> DEFINE r == [j.txn[x] EXCEPT !.updates = @ - 1]
      <4>1. j.txn[x] \in TransactionType /\ j.txn[x].updates - 1 \in Nat
        BY <1>2, <2>3, Fields DEF TransactionType
      <4>2. r \in TransactionType /\ r.state = j.txn[x].state /\ r.sync = j.txn[x].sync
        BY <4>1, UpdatesSet
      <4> QED BY <2>3, <4>2, Fields
    <3> HIDE DEF buf, txn, k
    <3>4. k.txn = txn
      BY <2>1 DEF JournalType
    <3>5. k \in JournalType /\ Kept(j, k)
      BY <2>1, <3>2, <3>3, Fields, KeptByUpdate
    <3> QED BY <3>3, <3>4, <3>5 DEF k
  <2> QED BY <2>2, <2>3
<1> QED BY <1>1, <1>2

\* Joining moves no transaction, or opens the running one.
LEMMA JoinSteps ==
  ASSUME NEW j \in JournalType, NEW deferred \in Seq(Blocks),
         j.running = None => j.seq \in Tids
  PROVE  /\ Join(j, deferred) \in JournalType
         /\ Join(j, deferred).running \in Tids
         /\ \/ Kept(j, Join(j, deferred))
            \/ /\ Opened(j, Join(j, deferred))
               /\ ~Join(j, deferred).txn[Join(j, deferred).running].sync
<1> DEFINE S == Range(deferred)
           joined == [j EXCEPT !.txn[j.running].updates = @ + 1]
           opened == [j EXCEPT !.running = j.seq, !.seq = @ + 1,
                               !.txn[j.seq] = [NoTransaction EXCEPT
                                                 !.state = "running", !.updates = 1]]
<1>1. S \in SUBSET Blocks
  BY DEF Range
<1> HIDE DEF S
<1>2. CASE j.running # None
  <2> DEFINE txn == [j.txn EXCEPT ![j.running].updates = @ + 1]
             r == [j.txn[j.running] EXCEPT !.updates = @ + 1]
  <2>1. j.running \in Tids
    BY <1>2, Fields
  <2>2. joined = [j EXCEPT !.buf = j.buf, !.mask = j.mask, !.txn = txn]
    BY DEF JournalType
  <2>0. j.txn[j.running] \in TransactionType /\ j.txn[j.running].updates + 1 \in Nat
    BY <2>1, Fields DEF TransactionType
  <2>3. r \in TransactionType /\ r.state = j.txn[j.running].state
    BY <2>0, UpdatesSet
  <2>4. txn \in [Tids -> TransactionType] /\ \A y \in Tids : txn[y].state = j.txn[y].state
    BY <2>1, <2>3, Fields
  <2> HIDE DEF txn
  <2> HIDE DEF joined
  <2>5. joined \in JournalType /\ Kept(j, joined)
    BY <2>2, <2>4, Fields, KeptByUpdate
  <2>6. joined.running = j.running
    BY <2>5 DEF Kept
  <2>7. Join(j, deferred) = DirtyBlocks(joined, joined.running, S)
    BY <1>2 DEF Join, S, joined
  <2> QED BY <1>1, <2>1, <2>5, <2>6, <2>7, DirtyBlocksKeeps, KeptTransitive DEF Kept
<1>3. CASE j.running = None
  <2> DEFINE r == [NoTransaction EXCEPT !.state = "running", !.updates = 1]
             txn == [j.txn EXCEPT ![j.seq] = r]
  <2>1. r \in TransactionType /\ r.state = "running" /\ ~r.sync
    <3>1. r \in TransactionType
      BY NoTransactionType DEF TransactionType, States
    <3>2. r.state = "running" /\ ~r.sync
      BY DEF NoTransaction
    <3> QED BY <3>1, <3>2
  <2> HIDE DEF r
  <2>2. j.seq \in Tids /\ j.seq + 1 \in 1 .. MaxTid + 1
    BY <1>3, JournalAssumption DEF Tids
  <2>3. txn \in [Tids -> TransactionType]
        /\ txn[j.seq] = r /\ \A y \in Tids : y # j.seq => txn[y] = j.txn[y]
    BY <2>1, <2>2, Fields
  <2>4. opened = [j EXCEPT !.running = j.seq, !.seq = @ + 1, !.txn = txn]
    BY DEF JournalType, r
  <2> HIDE DEF txn, opened
  <2>5. opened \in JournalType
    BY <2>2, <2>3, <2>4 DEF JournalType
  <2>6. opened.running = j.seq /\ opened.txn = txn /\ Opened(j, opened)
    BY <1>3, <2>1, <2>2, <2>3, <2>4 DEF JournalType, Opened
  <2>7. Join(j, deferred) = DirtyBlocks(opened, opened.running, S)
    BY <1>3 DEF Join, S, opened
  <2> DEFINE k == Join(j, deferred)
  <2>8. k \in JournalType /\ Kept(opened, k) /\ ~k.txn[j.seq].sync
    BY <1>1, <2>1, <2>2, <2>3, <2>5, <2>6, <2>7, DirtyBlocksKeeps
  <2> HIDE DEF k
  <2>9. Opened(j, k) /\ k.running = j.seq
    <3>1. k.running = j.seq
      BY <2>6, <2>8 DEF Kept
    <3>2. ASSUME NEW x \in Tids
          PROVE  k.txn[x].state = IF x = j.seq THEN "running" ELSE j.txn[x].state
      BY <2>6, <2>8 DEF Kept, Opened
    <3> QED BY <2>6, <2>8, <3>1, <3>2 DEF Opened, Kept
  <2> QED BY <2>2, <2>8, <2>9 DEF k
<1> QED BY <1>2, <1>3

-----------------------------------------------------------------------------
(* The tail of the log. *)

\* A non-empty set of numbers has a lowest one.
LEMMA LowestIn ==
  ASSUME NEW S \in SUBSET Nat, S # {}
  PROVE  Lowest(S) \in S
<1>1. PICK s \in S : \A r \in S : ~(<<r, s>> \in OpToRel(<, Nat))
  BY NatLessThanWellFounded, WFMin
<1>2. \A r \in S : s <= r
  <2> TAKE r \in S
  <2>1. r \in Nat /\ s \in Nat
    OBVIOUS
  <2>2. ~(r < s)
    BY <1>1, <2>1, Zenon DEF OpToRel
  <2> QED BY <2>1, <2>2
<1> QED BY <1>2 DEF Lowest

\* journal_try_advance_tail_locked frees a prefix of the checkpoint list.
LEMMA DrainedRange ==
  ASSUME NEW j \in JournalType
  PROVE  Drained(j) \in 0 .. Len(j.ckpt)
<1>1. Len(j.ckpt) \in Nat
  BY Fields
<1>2. Busy(j) \subseteq 1 .. Len(j.ckpt)
  BY DEF Busy
<1>3. CASE Busy(j) = {}
  BY <1>1, <1>3 DEF Drained
<1>4. CASE Busy(j) # {}
  <2>1. Lowest(Busy(j)) \in 1 .. Len(j.ckpt)
    BY <1>1, <1>2, <1>4, LowestIn
  <2> QED BY <1>1, <1>4, <2>1 DEF Drained
<1> QED BY <1>3, <1>4

\* The oldest live transaction and its first log block, where they exist.
LEMMA TailType ==
  ASSUME NEW j \in JournalType
  PROVE  Oldest(j) \in Tids \cup {None} /\ TailOf(j) \in Ring \cup {0}
<1>1. Oldest(j) \in Tids \cup {None}
  BY Fields DEF Oldest
<1>2. \A x \in Tids : j.txn[x].logStart \in Ring \cup {0}
  BY Fields DEF TransactionType
<1> QED BY <1>1, <1>2 DEF TailOf

\* journal_free_transaction touches the freed transactions only.
LEMMA FreeTransactionsFrees ==
  ASSUME NEW j \in JournalType, NEW X
  PROVE  LET k == FreeTransactions(j, X)
         IN  /\ k \in JournalType /\ k.ckpt = j.ckpt /\ k.running = j.running
             /\ k.committing = j.committing /\ k.committed = j.committed
             /\ k.seq = j.seq
             /\ \A x \in Tids : k.txn[x].state = IF x \in X THEN "none" ELSE j.txn[x].state
<1> DEFINE txn == [x \in Tids |-> IF x \in X THEN NoTransaction ELSE j.txn[x]]
           buf == [x \in Tids |-> IF x \in X THEN [b \in Blocks |-> NoBuffer] ELSE j.buf[x]]
           mask == Release(j.mask, UNION {SlotsOf(j, x, Blocks) : x \in X})
           k == FreeTransactions(j, X)
<1>1. k = [j EXCEPT !.txn = txn, !.buf = buf, !.mask = mask]
  BY DEF FreeTransactions, JournalType
<1>2. txn \in [Tids -> TransactionType]
  BY Fields, NoTransactionType
<1>3. buf \in BufferMaps
  BY Fields, NoBufferType DEF BufferMaps
<1>4. mask \in [Slots -> BOOLEAN]
  BY DEF Release
<1>5. \A x \in Tids : txn[x].state = IF x \in X THEN "none" ELSE j.txn[x].state
  BY DEF NoTransaction
<1> HIDE DEF txn, buf, mask, k
<1>6. k \in JournalType
  BY <1>1, <1>2, <1>3, <1>4 DEF JournalType, BufferMaps
<1>7. /\ k.ckpt = j.ckpt /\ k.running = j.running
      /\ k.committing = j.committing /\ k.committed = j.committed
      /\ k.seq = j.seq /\ k.txn = txn
  BY <1>1 DEF JournalType
<1> QED BY <1>5, <1>6, <1>7 DEF k

\* A suffix of a sequence is a sequence over the same set.
LEMMA SuffixType ==
  ASSUME NEW S, NEW s \in Seq(S), NEW n \in Nat, n > 0
  PROVE  SubSeq(s, n, Len(s)) \in Seq(S)
<1>1. \A i \in n .. Len(s) : s[i] \in S
  BY LenProperties, ElementOfSeq
<1> QED BY <1>1, LenProperties, SubSeqProperties

\* The journal without the first n checkpoint transactions, before the tail
\* is set.
Shortened(j, n) == [FreeTransactions(j, {j.ckpt[i] : i \in 1 .. n})
                      EXCEPT !.ckpt = SubSeq(@, n + 1, Len(@))]

\* Freeing the first n checkpoint transactions leaves a well-formed journal.
LEMMA ShortenedType ==
  ASSUME NEW j \in JournalType, NEW n \in 0 .. Len(j.ckpt)
  PROVE  LET k == Shortened(j, n)
             X == {j.ckpt[i] : i \in 1 .. n}
         IN  /\ k \in JournalType
             /\ k.ckpt = SubSeq(j.ckpt, n + 1, Len(j.ckpt)) /\ k.running = j.running
             /\ k.committing = j.committing /\ k.committed = j.committed /\ k.seq = j.seq
             /\ \A x \in Tids : k.txn[x].state = IF x \in X THEN "none" ELSE j.txn[x].state
<1> DEFINE X == {j.ckpt[i] : i \in 1 .. n}
           f == FreeTransactions(j, X)
           k == Shortened(j, n)
<1>1. f \in JournalType /\ f.ckpt = j.ckpt /\ f.running = j.running
      /\ f.committing = j.committing /\ f.committed = j.committed
      /\ f.seq = j.seq
      /\ \A x \in Tids : f.txn[x].state = IF x \in X THEN "none" ELSE j.txn[x].state
  BY FreeTransactionsFrees
<1>2. Len(j.ckpt) \in Nat
  BY Fields
<1>3. SubSeq(j.ckpt, n + 1, Len(j.ckpt)) \in Seq(Tids)
  BY <1>2, Fields, SuffixType
<1>4. k = [f EXCEPT !.ckpt = SubSeq(f.ckpt, n + 1, Len(f.ckpt))]
  BY DEF Shortened
<1> HIDE DEF f, k, X
<1>5. k \in JournalType
  BY <1>1, <1>3, <1>4 DEF JournalType
<1>6. /\ k.ckpt = SubSeq(j.ckpt, n + 1, Len(j.ckpt)) /\ k.running = f.running
      /\ k.committing = f.committing /\ k.committed = f.committed
      /\ k.seq = f.seq /\ k.txn = f.txn
  BY <1>1, <1>4 DEF JournalType
<1> QED BY <1>1, <1>5, <1>6 DEF k, X

\* Freeing a prefix of the checkpoint list and setting tail and free is a
\* Reclaimed step, or moves nothing if the prefix is empty.
LEMMA Reclaiming ==
  ASSUME NEW j \in JournalType, NEW n \in 0 .. Len(j.ckpt),
         NEW tail \in Ring \cup {0}, NEW free \in Words,
         NEW l, l = [Shortened(j, n) EXCEPT !.tail = tail, !.free = free]
  PROVE  /\ l \in JournalType
         /\ n = 0 => Kept(j, l)
         /\ n > 0 => Reclaimed(j, l)
<1> DEFINE k == Shortened(j, n)
<1>1. /\ k \in JournalType
      /\ k.ckpt = SubSeq(j.ckpt, n + 1, Len(j.ckpt)) /\ k.running = j.running
      /\ k.committing = j.committing /\ k.committed = j.committed /\ k.seq = j.seq
      /\ \A x \in Tids : k.txn[x].state = IF \E i \in 1 .. n : x = j.ckpt[i] THEN "none"
                                          ELSE j.txn[x].state
  BY ShortenedType
<1> HIDE DEF k
<1>2. l = [k EXCEPT !.tail = tail, !.free = free]
  BY DEF k
<1>3. l \in JournalType
  BY <1>1, <1>2 DEF JournalType
<1>4. /\ l.ckpt = k.ckpt /\ l.running = k.running /\ l.committing = k.committing
      /\ l.committed = k.committed /\ l.seq = k.seq /\ l.txn = k.txn
  BY <1>1, <1>2 DEF JournalType
<1>5. Len(j.ckpt) \in Nat
  BY Fields
<1>6. CASE n = 0
  <2>1. SubSeq(j.ckpt, n + 1, Len(j.ckpt)) = j.ckpt
    BY <1>6, Fields, SubSeqFull
  <2>2. \A x \in Tids : l.txn[x].state = j.txn[x].state
    BY <1>1, <1>4, <1>6
  <2> QED BY <1>1, <1>3, <1>4, <1>6, <2>1, <2>2 DEF Kept
<1>7. CASE n > 0
  <2>1. n \in 1 .. Len(j.ckpt)
    BY <1>5, <1>7
  <2>2. /\ l.ckpt = SubSeq(j.ckpt, n + 1, Len(j.ckpt))
        /\ \A x \in Tids : l.txn[x].state = IF \E i \in 1 .. n : x = j.ckpt[i] THEN "none"
                                            ELSE j.txn[x].state
    BY <1>1, <1>4
  <2>3. /\ l.running = j.running /\ l.committing = j.committing
        /\ l.committed = j.committed /\ l.seq = j.seq
    BY <1>1, <1>4
  <2>4. Reclaimed(j, l)
    BY <2>1, <2>2, <2>3, Zenon DEF Reclaimed
  <2> QED BY <1>3, <1>7, <2>4
<1> QED BY <1>5, <1>6, <1>7

\* journal_try_advance_tail_locked reclaims a prefix of the list or moves
\* nothing.
LEMMA AdvanceTailSteps ==
  ASSUME NEW j \in JournalType
  PROVE  /\ AdvanceTail(j) \in JournalType
         /\ Kept(j, AdvanceTail(j)) \/ Reclaimed(j, AdvanceTail(j))
<1> DEFINE n == Drained(j)
           k == Shortened(j, n)
           free == FreeAfterAdvance(k.head, TailOf(k))
           l == [k EXCEPT !.tail = TailOf(k), !.free = free]
<1>1. n \in 0 .. Len(j.ckpt) /\ Len(j.ckpt) \in Nat
  BY DrainedRange, Fields
<1>2. AdvanceTail(j) = IF n = 0 THEN j ELSE l
  BY DEF AdvanceTail, Shortened
<1> HIDE DEF n
<1>3. k \in JournalType
  BY <1>1, ShortenedType
<1> HIDE DEF k
<1>4. TailOf(k) \in Ring \cup {0} /\ k.head \in Ring \cup {0}
  BY <1>3, TailType, Fields
<1>5. free \in Words
  <2>1. free \in 1 .. Capacity
    BY <1>4, FreeInRange
  <2> QED BY <2>1, RingAssumption DEF Words, Capacity
<1> HIDE DEF free, l
<1>6. l \in JournalType /\ (n > 0 => Reclaimed(j, l))
  BY <1>1, <1>4, <1>5, Reclaiming DEF k, l
<1>7. Kept(j, j)
  BY DEF Kept
<1> QED BY <1>1, <1>2, <1>6, <1>7

-----------------------------------------------------------------------------
(* Notifications and commits. *)

\* A subset of a finite set has a natural number of elements.
LEMMA SubsetCardinality ==
  ASSUME NEW S, IsFiniteSet(S), NEW T \in SUBSET S
  PROVE  Cardinality(T) \in Nat
BY FS_Subset, FS_CardinalityType

\* Marking blocks written moves no transaction.
LEMMA MarkWrittenKeeps ==
  ASSUME NEW j \in JournalType, NEW S, IsFiniteSet(S)
  PROVE  /\ MarkWritten(j, S) \in JournalType
         /\ Kept(j, MarkWritten(j, S))
<1> DEFINE hit(x) == Unwritten(j, x, S)
           mark(x) == Marked(j, x, S)
           told == Told(j)
           txn == [x \in Tids |-> IF x \in told
                     THEN [j.txn[x] EXCEPT !.outstanding =
                             Fewer(j.txn[x].outstanding, Cardinality(hit(x)))]
                     ELSE j.txn[x]]
           buf == [x \in Tids |-> [b \in Blocks |->
                     IF x \in told /\ b \in mark(x)
                     THEN [j.buf[x][b] EXCEPT !.written = TRUE] ELSE j.buf[x][b]]]
           k == MarkWritten(j, S)
<1>1. \A x \in Tids : Cardinality(hit(x)) \in Nat
  BY SubsetCardinality DEF Unwritten
<1>2. k = [j EXCEPT !.buf = buf, !.mask = j.mask, !.txn = txn]
  <2>1. k = [j EXCEPT !.txn = txn, !.buf = buf]
    BY DEF MarkWritten
  <2> HIDE DEF txn, buf, k
  <2> QED BY <2>1 DEF JournalType
<1> HIDE DEF hit, mark, told
<1>3. buf \in BufferMaps
  <2>1. ASSUME NEW x \in Tids, NEW b \in Blocks
        PROVE  j.buf[x][b] \in BufferType /\ [j.buf[x][b] EXCEPT !.written = TRUE] \in BufferType
    <3>1. j.buf[x][b] \in BufferType
      BY Fields DEF BufferMaps
    <3> QED BY <3>1 DEF BufferType
  <2> QED BY <2>1 DEF BufferMaps
<1>4. txn \in [Tids -> TransactionType] /\ \A y \in Tids : txn[y].state = j.txn[y].state
  <2>1. ASSUME NEW x \in Tids
        PROVE  txn[x] \in TransactionType /\ txn[x].state = j.txn[x].state
    <3>1. j.txn[x] \in TransactionType
          /\ Fewer(j.txn[x].outstanding, Cardinality(hit(x))) \in Int
      BY <1>1, Fields DEF TransactionType, Fewer
    <3> QED BY <3>1, OutstandingSet
  <2> QED BY <2>1
<1> HIDE DEF buf, txn, k
<1>5. k \in JournalType /\ Kept(j, k)
  BY <1>2, <1>3, <1>4, Fields, KeptByUpdate
<1> QED BY <1>5 DEF k

\* A reclaiming step stays one when a step that moves nothing comes before
\* it.
LEMMA KeptReclaimed ==
  ASSUME NEW i, NEW j, NEW k, Kept(i, j), Reclaimed(j, k)
  PROVE  Reclaimed(i, k)
BY DEF Kept, Reclaimed

\* journal_notify_blocks_written_locked reclaims a prefix or moves nothing.
LEMMA NotifyWrittenSteps ==
  ASSUME NEW j \in JournalType, NEW S, IsFiniteSet(S)
  PROVE  /\ NotifyWritten(j, S) \in JournalType
         /\ Kept(j, NotifyWritten(j, S)) \/ Reclaimed(j, NotifyWritten(j, S))
BY MarkWrittenKeeps, AdvanceTailSteps, KeptTransitive, KeptReclaimed DEF NotifyWritten

\* journal_clear_checkpoint_list_locked reclaims the whole list or moves
\* nothing.
LEMMA ClearCheckpointSteps ==
  ASSUME NEW j \in JournalType
  PROVE  /\ ClearCheckpoint(j) \in JournalType
         /\ Kept(j, ClearCheckpoint(j)) \/ Reclaimed(j, ClearCheckpoint(j))
<1> DEFINE n == Len(j.ckpt)
           k == Shortened(j, n)
           free == FreeAfterClear(k.head, TailOf(k))
           l == [k EXCEPT !.tail = TailOf(k), !.free = free]
<1>1. n \in Nat /\ n \in 0 .. n
  BY Fields
<1>2. k = [FreeTransactions(j, Range(j.ckpt)) EXCEPT !.ckpt = <<>>]
  <2>1. {j.ckpt[i] : i \in 1 .. n} = Range(j.ckpt)
    BY Fields, LenProperties DEF Range
  <2>2. SubSeq(j.ckpt, n + 1, n) = <<>>
    BY <1>1, SubSeqEmpty
  <2>3. FreeTransactions(j, Range(j.ckpt)).ckpt = j.ckpt
    BY FreeTransactionsFrees
  <2> QED BY <2>1, <2>2, <2>3 DEF Shortened
<1>3. ClearCheckpoint(j) = l
  BY <1>2 DEF ClearCheckpoint
<1>4. k \in JournalType
  BY <1>1, ShortenedType
<1> HIDE DEF k
<1>5. TailOf(k) \in Ring \cup {0} /\ k.head \in Ring \cup {0}
  BY <1>4, TailType, Fields
<1>6. free \in Words
  <2>1. free \in 1 .. Capacity
    BY <1>5, FreeInRange, FreeComputationsAgree
  <2> QED BY <2>1, RingAssumption DEF Words, Capacity
<1> HIDE DEF free, l
<1>7. l \in JournalType /\ (n = 0 => Kept(j, l)) /\ (n > 0 => Reclaimed(j, l))
  BY <1>1, <1>5, <1>6, Reclaiming DEF k, l
<1> QED BY <1>1, <1>3, <1>7

\* journal_next_log_block_safe moves the head within the ring.
LEMMA AllocLogBlockKeeps ==
  ASSUME NEW j \in JournalType
  PROVE  /\ AllocLogBlock(j) \in JournalType /\ Kept(j, AllocLogBlock(j))
         /\ AllocLogBlock(j).head \in Ring
<1>1. NextBlock(j.head) \in Ring
  BY Fields, NextInRing
<1>2. Decrement(j.free) \in Words
  BY Fields, DecrementType DEF Words
<1> QED BY <1>1, <1>2 DEF AllocLogBlock, JournalType, Kept

\* Setting the state of a transaction keeps it well formed.
LEMMA StateSet ==
  ASSUME NEW r \in TransactionType, NEW s \in States
  PROVE  [r EXCEPT !.state = s] \in TransactionType /\ [r EXCEPT !.state = s].state = s
BY DEF TransactionType

\* Setting t_log_start keeps a transaction well formed.
LEMMA LogStartSet ==
  ASSUME NEW r \in TransactionType, NEW p \in Ring
  PROVE  /\ [r EXCEPT !.logStart = p] \in TransactionType
         /\ [r EXCEPT !.logStart = p].state = r.state
BY DEF TransactionType

\* Recording t_log_start moves no transaction.
LEMMA SetLogStartKeeps ==
  ASSUME NEW j \in JournalType
  PROVE  SetLogStart(j) \in JournalType /\ Kept(j, SetLogStart(j))
<1> DEFINE c == j.committing
           txn == [j.txn EXCEPT ![c].logStart = NextBlock(j.head)]
           k == SetLogStart(j)
<1>1. k = [j EXCEPT !.buf = j.buf, !.mask = j.mask, !.txn = txn]
  BY DEF SetLogStart, JournalType
<1>2. txn \in [Tids -> TransactionType] /\ \A y \in Tids : txn[y].state = j.txn[y].state
  <2>1. NextBlock(j.head) \in Ring
    BY Fields, NextInRing
  <2>2. CASE c \in Tids
    <3>1. [j.txn[c] EXCEPT !.logStart = NextBlock(j.head)] \in TransactionType
          /\ [j.txn[c] EXCEPT !.logStart = NextBlock(j.head)].state = j.txn[c].state
      BY <2>1, <2>2, Fields, LogStartSet
    <3> QED BY <2>2, <3>1, Fields
  <2>3. CASE c \notin Tids
    BY <2>3, Fields
  <2> QED BY <2>2, <2>3
<1> HIDE DEF txn, k
<1>3. k \in JournalType /\ Kept(j, k)
  BY <1>1, <1>2, Fields, KeptByUpdate
<1> QED BY <1>3 DEF k

\* Labels make continuations.
LEMMA LabelSeqs ==
  /\ <<>> \in Seq(Labels)
  /\ \A l \in Labels : <<l>> \in Seq(Labels)
  /\ {"commit_wait", "commit_updates", "wait", "log_start"} \subseteq Labels
  /\ {<<"commit_wait">>, <<"commit_updates">>, <<"wait">>} \subseteq Seq(Labels)
<1>1. <<>> \in Seq(Labels) /\ \A l \in Labels : <<l>> \in Seq(Labels)
  OBVIOUS
<1>2. {"commit_wait", "commit_updates", "wait", "log_start"} \subseteq Labels
  BY DEF Labels
<1> HIDE DEF Labels
<1> QED BY <1>1, <1>2

\* The steps of a forced checkpoint and of a commit are continuations.
LEMMA StepsType ==
  /\ ForceCheckpoint \in Seq(Labels) /\ CommitSteps \in Seq(Labels)
  /\ ForceCheckpoint \o <<"log_start">> \o CommitSteps \in Seq(Labels)
<1>1. ForceCheckpoint \in Seq(Labels)
  BY DEF ForceCheckpoint, Labels
<1>2. CommitSteps \in Seq(Labels)
  BY DEF CommitSteps, Labels
<1>3. <<"log_start">> \in Seq(Labels)
  BY DEF Labels
<1> QED BY <1>1, <1>2, <1>3, ConcatProperties

\* From T_FLUSHING on, the commit keeps the slot.
LEMMA BeginFlushSteps ==
  ASSUME NEW j \in JournalType, j.committing # None
  PROVE  /\ BeginFlush(j).j \in JournalType /\ Flushed(j, BeginFlush(j).j)
         /\ BeginFlush(j).k \in Seq(Labels)
<1> DEFINE c == j.committing
           txn == [j.txn EXCEPT ![c].state = "flushing"]
           f == [j EXCEPT !.txn[c].state = "flushing"]
           r == BeginFlush(j)
<1>1. c \in Tids
  BY Fields
<1>2. txn \in [Tids -> TransactionType]
      /\ \A x \in Tids : txn[x].state = IF x = c THEN "flushing" ELSE j.txn[x].state
  <2> DEFINE t == [j.txn[c] EXCEPT !.state = "flushing"]
  <2>1. t \in TransactionType /\ t.state = "flushing"
    BY <1>1, Fields, StateSet DEF States
  <2> HIDE DEF t
  <2>2. txn = [j.txn EXCEPT ![c] = t]
    BY DEF t
  <2> QED BY <1>1, <2>1, <2>2, Fields
<1>3. f = [j EXCEPT !.txn = txn]
  BY DEF JournalType
<1> HIDE DEF txn, f
<1>4. f \in JournalType
  BY <1>2, <1>3 DEF JournalType
<1>5. Flushed(j, f)
  BY <1>2, <1>3 DEF JournalType, Flushed
<1>6. /\ r.j \in {f, SetLogStart(f)}
      /\ r.k \in {ForceCheckpoint \o <<"log_start">> \o CommitSteps, CommitSteps}
  BY DEF BeginFlush, Then, f
<1>7. Flushed(j, SetLogStart(f))
  BY <1>4, <1>5, SetLogStartKeeps DEF Flushed, Kept
<1> QED BY <1>4, <1>5, <1>6, <1>7, StepsType, SetLogStartKeeps

\* Entering a commit locks the running transaction, or moves nothing and
\* waits.
LEMMA BeginCommitSteps ==
  ASSUME NEW j \in JournalType
  PROVE  /\ BeginCommit(j).j \in JournalType /\ BeginCommit(j).k \in Seq(Labels)
         /\ BeginCommit(j).j = j \/ Locked(j, BeginCommit(j).j)
<1> DEFINE x == j.running
           txn == [j.txn EXCEPT ![x].state = "locked"]
           l == [j EXCEPT !.committing = x, !.running = None, !.txn[x].state = "locked"]
           r == BeginCommit(j)
<1>1. CASE j.committing # None \/ x = None
  <2>1. r.j = j /\ r.k \in {<<"commit_wait">>, <<>>}
    BY <1>1 DEF BeginCommit, Then
  <2> QED BY <2>1, LabelSeqs
<1>2. CASE j.committing = None /\ x # None
  <2>1. x \in Tids
    BY <1>2, Fields
  <2>2. txn \in [Tids -> TransactionType]
        /\ \A y \in Tids : txn[y].state = IF y = x THEN "locked" ELSE j.txn[y].state
    <3> DEFINE t == [j.txn[x] EXCEPT !.state = "locked"]
    <3>1. t \in TransactionType /\ t.state = "locked"
      BY <2>1, Fields, StateSet DEF States
    <3> HIDE DEF t
    <3>2. txn = [j.txn EXCEPT ![x] = t]
      BY DEF t
    <3> QED BY <2>1, <3>1, <3>2, Fields
  <2>3. l = [j EXCEPT !.committing = x, !.running = None, !.txn = txn]
    BY DEF JournalType
  <2> HIDE DEF txn, l
  <2>4. l \in JournalType
    BY <2>1, <2>2, <2>3 DEF JournalType
  <2>5. Locked(j, l) /\ l.committing = x
    BY <1>2, <2>2, <2>3 DEF JournalType, Locked
  <2>6. r \in {Then(l, <<"commit_updates">>), BeginFlush(l)}
    BY <1>2 DEF BeginCommit, l
  <2>7. CASE r = Then(l, <<"commit_updates">>)
    <3>1. <<"commit_updates">> \in Seq(Labels)
      BY DEF Labels
    <3> QED BY <2>4, <2>5, <2>7, <3>1 DEF Then
  <2>8. CASE r = BeginFlush(l)
    <3>1. r.j \in JournalType /\ Flushed(l, r.j) /\ r.k \in Seq(Labels)
      BY <1>2, <2>4, <2>5, <2>8, BeginFlushSteps
    <3>2. Locked(j, r.j)
      BY <2>5, <3>1 DEF Locked, Flushed
    <3> QED BY <3>1, <3>2
  <2> QED BY <2>6, <2>7, <2>8
<1> QED BY <1>1, <1>2

\* journal_commit_running_transaction locks the running transaction or moves
\* nothing.
LEMMA CommitRunningSteps ==
  ASSUME NEW j \in JournalType
  PROVE  /\ CommitRunning(j).j \in JournalType /\ CommitRunning(j).k \in Seq(Labels)
         /\ CommitRunning(j).j = j \/ Locked(j, CommitRunning(j).j)
<1>1. CommitRunning(j) \in {Then(j, <<>>), BeginCommit(j)}
  BY DEF CommitRunning
<1>2. CASE CommitRunning(j) = Then(j, <<>>)
  BY <1>2, LabelSeqs DEF Then
<1>3. CASE CommitRunning(j) = BeginCommit(j)
  BY <1>3, BeginCommitSteps
<1> QED BY <1>1, <1>2, <1>3

\* The auto-commit of a stop locks the running transaction or moves nothing.
LEMMA AutoCommitSteps ==
  ASSUME NEW j \in JournalType, NEW x
  PROVE  /\ AutoCommit(j, x).j \in JournalType /\ AutoCommit(j, x).k \in Seq(Labels)
         /\ AutoCommit(j, x).j = j \/ Locked(j, AutoCommit(j, x).j)
         /\ ~j.txn[x].sync => AutoCommit(j, x).j = j
<1>1. AutoCommit(j, x) \in {Then(j, <<>>), BeginCommit(j), Then(j, <<"wait">>)}
      /\ (~j.txn[x].sync => AutoCommit(j, x) = Then(j, <<>>))
  BY DEF AutoCommit
<1>2. CASE AutoCommit(j, x) = Then(j, <<>>)
  BY <1>2, LabelSeqs DEF Then
<1>3. CASE AutoCommit(j, x) = Then(j, <<"wait">>)
  BY <1>3, LabelSeqs DEF Then
<1>4. CASE AutoCommit(j, x) = BeginCommit(j) /\ j.txn[x].sync
  BY <1>4, BeginCommitSteps
<1> QED BY <1>1, <1>2, <1>3, <1>4

-----------------------------------------------------------------------------
(* The lifeboat, the store and continuations. *)

\* The interception of a pager write moves no transaction, and finds its
\* slots when there is room.
LEMMA InterceptKeeps ==
  ASSUME NEW j \in JournalType, Ordered(j), NEW b, NEW data \in Content, HasRoom(j, b)
  PROVE  Intercept(j, b, data) \in JournalType /\ Kept(j, Intercept(j, b, data))
<1> DEFINE run == In(j, j.running, b)
           com == In(j, j.committing, b)
           F == FreeSlots(j)
           forRun == Lowest(F)
           rest == F \ (IF run THEN {forRun} ELSE {})
           forCom == Lowest(rest)
           new == (IF run THEN {forRun} ELSE {}) \cup (IF com THEN {forCom} ELSE {})
           mask == [s \in Slots |-> (j.mask[s] \/ s \in new) /\ s \notin Replaced(j, b)]
           payload == [s \in Slots |-> IF s \in new THEN data ELSE j.payload[s]]
           buf == [x \in Tids |->
                     IF x = j.running /\ run THEN [j.buf[x] EXCEPT ![b].slot = forRun]
                     ELSE IF x = j.committing /\ com
                     THEN [j.buf[x] EXCEPT ![b].slot = forCom] ELSE j.buf[x]]
           k == Intercept(j, b, data)
           H == Holders(j, b)
<1>1. F \in SUBSET Slots /\ Slots \in SUBSET Nat /\ IsFiniteSet(F)
  <2>1. F \in SUBSET Slots
    BY DEF FreeSlots
  <2>2. Slots \in SUBSET Nat /\ IsFiniteSet(Slots)
    BY JournalAssumption, FS_Interval DEF Slots
  <2> QED BY <2>1, <2>2, FS_Subset
<1>2. Cardinality(F) >= Cardinality(H) /\ Cardinality(F) \in Nat
  BY <1>1, FS_CardinalityType DEF HasRoom
<1>3. run => j.running \in H /\ j.running # None
  BY DEF Holders, In
<1>4. com => j.committing \in H /\ j.committing # None
  BY DEF Holders, In
<1>5. run /\ com => j.running # j.committing
  BY <1>3, <1>4, Fields DEF Ordered, Tids, None
<1>6. H \in SUBSET {j.running, j.committing}
  BY DEF Holders
<1>7. IsFiniteSet(H) /\ Cardinality(H) \in Nat
  <2>1. IsFiniteSet({j.running, j.committing})
    <3>1. IsFiniteSet({j.running} \cup {j.committing})
      BY FS_Singleton, FS_AddElement
    <3>2. {j.running, j.committing} = {j.running} \cup {j.committing}
      OBVIOUS
    <3> QED BY <3>1, <3>2
  <2> QED BY <1>6, <2>1, FS_Subset, FS_CardinalityType
<1> HIDE DEF H, F
<1>8. run => forRun \in F
  <2> SUFFICES ASSUME run PROVE forRun \in F
    OBVIOUS
  <2>1. Cardinality(H) # 0
    BY <1>3, <1>7, FS_EmptySet
  <2>2. F # {}
    BY <1>2, <1>7, <2>1, FS_EmptySet
  <2> QED BY <1>1, <2>2, LowestIn
<1>9. com => forCom \in rest
  <2> SUFFICES ASSUME com PROVE forCom \in rest
    OBVIOUS
  <2>1. CASE run
    <3>1. Cardinality(H \ {j.running}) = Cardinality(H) - 1 /\ IsFiniteSet(H \ {j.running})
      BY <1>3, <1>7, <2>1, FS_RemoveElement
    <3>2. j.committing \in H \ {j.running}
      BY <1>4, <1>5, <2>1
    <3>3. Cardinality(H \ {j.running}) # 0 /\ Cardinality(H \ {j.running}) \in Nat
      BY <3>1, <3>2, FS_EmptySet, FS_CardinalityType
    <3>4. forRun \in F
      BY <1>8, <2>1
    <3> HIDE DEF forRun
    <3>5. Cardinality(F \ {forRun}) = Cardinality(F) - 1 /\ IsFiniteSet(F \ {forRun})
      BY <1>1, <3>4, FS_RemoveElement
    <3>6. Cardinality(F \ {forRun}) # 0
      BY <1>2, <1>7, <3>1, <3>3, <3>5
    <3>7. F \ {forRun} # {}
      BY <3>6, FS_EmptySet
    <3> QED BY <1>1, <2>1, <3>7, LowestIn
  <2>2. CASE ~run
    <3>1. Cardinality(H) # 0
      BY <1>4, <1>7, FS_EmptySet
    <3>2. F # {}
      BY <1>2, <1>7, <3>1, FS_EmptySet
    <3> QED BY <1>1, <2>2, <3>2, LowestIn
  <2> QED BY <2>1, <2>2
<1>10. k = [j EXCEPT !.mask = mask, !.payload = payload, !.buf = buf]
  BY DEF Intercept, F
<1>11. (run => forRun \in Slots) /\ (com => forCom \in Slots)
  BY <1>1, <1>8, <1>9
<1> HIDE DEF run, com, forRun, forCom, new
<1>12. mask \in [Slots -> BOOLEAN] /\ payload \in [Slots -> Content]
  BY Fields
<1>13. buf \in BufferMaps
  <2>1. ASSUME NEW x \in Tids, NEW s \in Slots
        PROVE  [j.buf[x] EXCEPT ![b].slot = s] \in [Blocks -> BufferType]
    <3>1. j.buf[x] \in [Blocks -> BufferType]
      BY Fields DEF BufferMaps
    <3>2. CASE b \in Blocks
      <4>1. [j.buf[x][b] EXCEPT !.slot = s] \in BufferType
        BY <3>1, <3>2 DEF BufferType
      <4> QED BY <3>1, <4>1
    <3>3. CASE b \notin Blocks
      BY <3>1, <3>3
    <3> QED BY <3>2, <3>3
  <2>2. \A x \in Tids : buf[x] \in [Blocks -> BufferType]
    BY <1>11, <2>1, Fields DEF BufferMaps
  <2> QED BY <2>2 DEF BufferMaps
<1> HIDE DEF mask, payload, buf, k
<1>14. k \in JournalType
  BY <1>10, <1>12, <1>13 DEF JournalType, BufferMaps
<1>15. Kept(j, k)
  BY <1>10 DEF JournalType, Kept
<1> QED BY <1>14, <1>15 DEF k

\* A write, and a flush, keep a cell of the store well formed.
LEMMA PutType ==
  ASSUME NEW S, NEW cell \in CellType(S), NEW v \in S
  PROVE  Put(cell, v) \in CellType(S) /\ Settle(cell) \in CellType(S)
BY DEF Put, Settle, CellType

\* The types of the fields of the store.
LEMMA DiskFields ==
  ASSUME NEW d \in DiskType
  PROVE  /\ d.sb \in CellType([seq : 1 .. MaxTid + 1, start : Ring \cup {0}])
         /\ d.log \in [Ring -> CellType(RecordType)]
         /\ d.home \in [Blocks -> CellType(Content)]
BY DEF DiskType

\* A flush keeps the store well formed.
LEMMA FlushToDiskType ==
  ASSUME NEW d \in DiskType
  PROVE  FlushToDisk(d) \in DiskType
<1>1. Settle(d.sb) \in CellType([seq : 1 .. MaxTid + 1, start : Ring \cup {0}])
  BY DiskFields DEF Settle, CellType
<1>2. \A p \in Ring : Settle(d.log[p]) \in CellType(RecordType)
  BY DiskFields DEF Settle, CellType
<1>3. \A b \in Blocks : Settle(d.home[b]) \in CellType(Content)
  BY DiskFields DEF Settle, CellType
<1> QED BY <1>1, <1>2, <1>3 DEF FlushToDisk, DiskType

\* A superblock update keeps the store well formed.
LEMMA UpdateSuperblockType ==
  ASSUME NEW d \in DiskType, NEW seq \in 1 .. MaxTid + 1, NEW tail \in Ring \cup {0}
  PROVE  UpdateSuperblock(d, seq, tail) \in DiskType
<1> DEFINE sb == Put(d.sb, [seq |-> seq, start |-> tail])
<1>1. sb \in CellType([seq : 1 .. MaxTid + 1, start : Ring \cup {0}])
  BY DiskFields, PutType
<1> HIDE DEF sb
<1>2. UpdateSuperblock(d, seq, tail) = [d EXCEPT !.sb = sb]
  BY DEF UpdateSuperblock, sb
<1> QED BY <1>1, <1>2 DEF DiskType

\* A write to the log keeps the store well formed.
LEMMA Append1Type ==
  ASSUME NEW d \in DiskType, NEW p \in Ring, NEW rec \in RecordType
  PROVE  Append1(d, p, rec) \in DiskType
<1> DEFINE cell == Put(d.log[p], rec)
<1>1. cell \in CellType(RecordType)
  BY DiskFields, PutType
<1> HIDE DEF cell
<1>2. Append1(d, p, rec) = [d EXCEPT !.log[p] = cell]
  BY DEF Append1, cell
<1> QED BY <1>1, <1>2 DEF DiskType

\* A write to the home of a block keeps the store well formed.
LEMMA HomeWriteType ==
  ASSUME NEW d \in DiskType, NEW b, NEW v \in Content
  PROVE  [d EXCEPT !.home[b] = Put(@, v)] \in DiskType
<1> DEFINE cell == Put(d.home[b], v)
<1>1. CASE b \in Blocks
  <2>1. cell \in CellType(Content)
    BY <1>1, DiskFields, PutType
  <2> HIDE DEF cell
  <2>2. [d EXCEPT !.home[b] = cell] \in DiskType
    BY <2>1 DEF DiskType
  <2> QED BY <2>2 DEF cell
<1>2. CASE b \notin Blocks
  <2>1. [d.home EXCEPT ![b] = cell] = d.home
    BY <1>2, DiskFields
  <2> QED BY <2>1 DEF DiskType
<1> QED BY <1>1, <1>2

\* The superblock update after a notification keeps the store well formed.
LEMMA SuperblockAfterNotifyType ==
  ASSUME NEW d \in DiskType, NEW j, NEW k \in JournalType
  PROVE  SuperblockAfterNotify(d, j, k) \in DiskType
<1>1. (IF Oldest(k) = None THEN k.seq ELSE Oldest(k)) \in 1 .. MaxTid + 1
  BY TailType, Fields, JournalAssumption DEF Tids
<1>2. k.tail \in Ring \cup {0}
  BY Fields
<1> QED BY <1>1, <1>2, UpdateSuperblockType DEF SuperblockAfterNotify

\* Pushing and popping steps of a continuation.
LEMMA StackOps ==
  ASSUME NEW r \in Seq(Labels), NEW s \in Seq(Labels)
  PROVE  /\ r \o s \in Seq(Labels)
         /\ s # <<>> => Tail(s) \in Seq(Labels) /\ r \o Tail(s) \in Seq(Labels)
         /\ s # <<>> => AfterForced(s) \in Seq(Labels) /\ r \o AfterForced(s) \in Seq(Labels)
<1>1. r \o s \in Seq(Labels)
  BY ConcatProperties
<1>2. ASSUME s # <<>>
      PROVE  Tail(s) \in Seq(Labels) /\ r \o Tail(s) \in Seq(Labels)
  BY <1>2, HeadTailProperties, ConcatProperties
<1> QED BY <1>1, <1>2 DEF AfterForced

\* The buffers of a transaction, listed in some order.
LEMMA InSomeOrderType ==
  ASSUME NEW S, IsFiniteSet(S)
  PROVE  InSomeOrder(S) \in Seq(S)
<1>1. Cardinality(S) \in Nat
  BY FS_CardinalityType
<1>2. PICK f : f \in Bijection(1 .. Cardinality(S), S)
  BY FS_CardinalityType DEF ExistsBijection
<1>3. f \in [1 .. Cardinality(S) -> S] /\ IsInjective(f)
  BY <1>2 DEF Bijection, Injection, IsInjective
<1>4. InSomeOrder(S) \in [1 .. Cardinality(S) -> S]
  BY <1>3 DEF InSomeOrder
<1> QED BY <1>1, <1>4
=============================================================================
