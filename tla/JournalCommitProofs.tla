------------------------ MODULE JournalCommitProofs -------------------------
(***************************************************************************)
(* Every step of a checkpoint and of a commit keeps the types and makes one*)
(* move of the pipeline of transactions.                                   *)
(***************************************************************************)
EXTENDS JournalClientProofs

\* A thread done with a step.
LEMMA ReturnType ==
  ASSUME TypeOK, NEW t \in Threads, th[t].stack # <<>>, Return(t)
  PROVE  th' \in ThreadMap
<1>1. Tail(th[t].stack) \in Seq(Labels)
  BY ThreadFields, HeadTailProperties
<1> QED BY <1>1, ThreadFields, SetStack DEF Return, ThreadMap

\* A thread that replaces a step by others.
LEMMA GotoType ==
  ASSUME TypeOK, NEW t \in Threads, th[t].stack # <<>>, NEW steps \in Seq(Labels),
         Goto(t, steps)
  PROVE  th' \in ThreadMap
<1>1. steps \o Tail(th[t].stack) \in Seq(Labels)
  BY ThreadFields, StackOps
<1> QED BY <1>1, ThreadFields, SetStack DEF Goto, ThreadMap

\* flush_to_disk leaves the journal alone.
LEMMA FlushStep ==
  ASSUME TypeOK, NEW t \in Threads, Flush(t)
  PROVE  TypeOK' /\ Moves(J, J')
<1>1. th' \in ThreadMap
  BY ReturnType DEF Flush, At
<1>2. D' \in DiskType
  BY AllTyped, FlushToDiskType DEF Flush
<1> QED BY <1>1, <1>2, KeptSelf DEF Flush, TypeOK, Moves, ThreadMap

\* Steps that only end a wait or a loop.
LEMMA ReturnSteps ==
  ASSUME TypeOK, NEW t \in Threads,
         WaitOnTid(t) \/ DrainNothing(t) \/ SyncNodesDone(t) \/ SyncWait(t) \/ LifeboatEnd(t)
  PROVE  TypeOK' /\ Moves(J, J')
<1>1. th' \in ThreadMap
  BY ReturnType DEF WaitOnTid, DrainNothing, SyncNodesDone, SyncWait, LifeboatEnd, At
<1> QED BY <1>1, OnlyThreads DEF WaitOnTid, DrainNothing, SyncNodesDone, SyncWait, LifeboatEnd

\* The drain of the deferred queue that forces a checkpoint first.
LEMMA DrainForcesCheckpointStep ==
  ASSUME TypeOK, NEW t \in Threads, DrainForcesCheckpoint(t)
  PROVE  TypeOK' /\ Moves(J, J')
<1>1. ForceCheckpoint \o <<"drain_start">> \in Seq(Labels)
  <2>1. <<"drain_start">> \in Seq(Labels)
    BY DEF Labels
  <2> QED BY <2>1, StepsType, ConcatProperties
<1>2. th' \in ThreadMap
  BY <1>1, GotoType DEF DrainForcesCheckpoint, At
<1> QED BY <1>2, OnlyThreads DEF DrainForcesCheckpoint

\* The drain of the deferred queue joins or opens the running transaction.
LEMMA DrainStartStep ==
  ASSUME TypeOK, NEW t \in Threads, DrainStart(t)
  PROVE  TypeOK' /\ Moves(J, J')
<1> DEFINE stack == <<"drain_stop">> \o Tail(th[t].stack)
           drain == J'.running
<1>1. J' \in JournalType /\ drain \in Tids /\ Moves(J, J')
  BY AllTyped, ThreadFields, JoinSteps DEF DrainStart, Moves
<1>2. stack \in Seq(Labels)
  <2>1. <<"drain_stop">> \in Seq(Labels)
    BY DEF Labels
  <2> QED BY <2>1, ThreadFields, StackOps DEF DrainStart, At
<1>3. th' = [th EXCEPT ![t].stack = stack, ![t].deferred = <<>>, ![t].drain = drain]
  BY DEF DrainStart
<1>4. <<>> \in Seq(Blocks) /\ th \in [Threads -> ThreadType]
  BY AllTyped DEF ThreadMap
<1> HIDE DEF stack, drain
<1>5. th' \in ThreadMap
  BY <1>1, <1>2, <1>3, <1>4, SetStackDeferredDrain DEF ThreadMap
<1> QED BY <1>1, <1>5, JournalAndThreads DEF DrainStart

\* The stop of the drain moves no transaction.
LEMMA DrainStopStep ==
  ASSUME TypeOK, NEW t \in Threads, DrainStop(t)
  PROVE  TypeOK' /\ Moves(J, J')
<1>1. J' \in JournalType /\ Moves(J, J')
  BY AllTyped, StopHandleKeeps DEF DrainStop, Moves
<1>2. Tail(th[t].stack) \in Seq(Labels) /\ th \in [Threads -> ThreadType]
  BY ThreadFields, HeadTailProperties DEF DrainStop, At, ThreadMap
<1>3. th' \in ThreadMap
  BY <1>2, SetStackDrain DEF DrainStop, ThreadMap
<1> QED BY <1>1, <1>3, JournalAndThreads DEF DrainStop

\* Arming a forced checkpoint leaves the journal alone.
LEMMA ArmCheckpointStep ==
  ASSUME TypeOK, NEW t \in Threads, ArmCheckpoint(t)
  PROVE  TypeOK' /\ Moves(J, J')
<1>1. Tail(th[t].stack) \in Seq(Labels) /\ th \in [Threads -> ThreadType]
  BY ThreadFields, HeadTailProperties DEF ArmCheckpoint, At, ThreadMap
<1>2. InSomeOrder(Blocks) \in Seq(Blocks)
  BY JournalAssumption, InSomeOrderType
<1>3. <<>> \in Seq(Blocks)
  OBVIOUS
<1>4. th' \in ThreadMap
  BY <1>1, <1>2, <1>3, SetStackDeferredTodo DEF ArmCheckpoint, ThreadMap
<1> QED BY <1>4, OnlyThreads DEF ArmCheckpoint

\* A thread's list of blocks, first and rest.
LEMMA TodoType ==
  ASSUME TypeOK, NEW t \in Threads, th[t].todo # <<>>
  PROVE  Head(th[t].todo) \in Blocks /\ Tail(th[t].todo) \in Seq(Blocks)
BY ThreadFields, HeadTailProperties

\* Writing one node out in a forced checkpoint leaves the journal alone.
LEMMA SyncNodeStep ==
  ASSUME TypeOK, NEW t \in Threads, SyncNode(t)
  PROVE  TypeOK' /\ Moves(J, J')
<1> DEFINE b == Head(th[t].todo)
           queued == IF Len(th[t].deferred) < MaxDeferred
                     THEN Append(th[t].deferred, b) ELSE th[t].deferred
           deferred == IF b \in M.incore THEN queued ELSE th[t].deferred
           todo == Tail(th[t].todo)
<1>1. b \in Blocks /\ todo \in Seq(Blocks)
  BY TodoType DEF SyncNode
<1>2. deferred \in Seq(Blocks) /\ th \in [Threads -> ThreadType]
  BY <1>1, ThreadFields, AppendProperties DEF ThreadMap
<1>3. th' = [th EXCEPT ![t].todo = todo, ![t].deferred = deferred]
  BY DEF SyncNode
<1>4. M' \in MemoryType
  <2>1. CASE b \notin M.incore
    BY <2>1, AllTyped DEF SyncNode
  <2>2. CASE b \in M.incore
    <3> DEFINE v == M.cache[b] \cup {NodeWriter}
               dirty == M.dirty \cup {b}
               incore == M.incore \ {b}
               pokel == M.pokel \cup {b}
    <3>1. v \in Content
      BY <1>1, AllTyped DEF Content, Updates
    <3>2. dirty \in SUBSET Blocks /\ incore \in SUBSET Blocks /\ pokel \in SUBSET Blocks
      BY <1>1, AllTyped DEF MemoryType
    <3>3. M' = [M EXCEPT !.cache[b] = v, !.dirty = dirty, !.incore = incore, !.pokel = pokel]
      BY <2>2 DEF SyncNode
    <3> HIDE DEF v, dirty, incore, pokel, b
    <3> QED BY <3>1, <3>2, <3>3, AllTyped DEF MemoryType
  <2> QED BY <2>1, <2>2
<1> HIDE DEF deferred, todo
<1>5. th' \in ThreadMap
  BY <1>1, <1>2, <1>3, SetTodoDeferred DEF ThreadMap
<1> QED BY <1>4, <1>5, KeptSelf DEF SyncNode, TypeOK, Moves, ThreadMap

\* Taking the pokel and asking for its dirty pages leaves the journal alone.
LEMMA SyncPagesStep ==
  ASSUME TypeOK, NEW t \in Threads, SyncPages(t)
  PROVE  TypeOK' /\ Moves(J, J')
<1> DEFINE inflight == IF Writing THEN M.pokel \cap {th[Pager].blk} ELSE {}
           stack == Tail(th[t].stack)
           need == (M.pokel \cap M.dirty) \cup inflight
           serves == IF inflight \subseteq M.dirty THEN th[Pager].serves
                     ELSE th[Pager].serves \cup {t}
           f == [th EXCEPT ![t].stack = stack, ![t].need = need]
<1>1. stack \in Seq(Labels) /\ th \in [Threads -> ThreadType]
  BY ThreadFields, HeadTailProperties DEF SyncPages, At, ThreadMap
<1>2. serves \in SUBSET Threads
  BY AllTyped, ThreadFields
<1>3. need \in SUBSET (Blocks \cup {None})
  BY AllTyped, ThreadFields DEF MemoryType
<1>4. f \in [Threads -> ThreadType]
  BY <1>1, <1>3, SetStackNeed
<1>5. th' = [f EXCEPT ![Pager].serves = serves]
  BY <1>1, AllTyped DEF SyncPages
<1> HIDE DEF f, serves
<1>6. th' \in ThreadMap
  BY <1>2, <1>4, <1>5, AllTyped, SetServes DEF ThreadMap
<1>7. M' \in MemoryType
  BY AllTyped DEF SyncPages, MemoryType
<1> QED BY <1>6, <1>7, KeptSelf DEF SyncPages, TypeOK, Moves, ThreadMap

\* The clear at the end of a forced checkpoint reclaims the list.
LEMMA ClearListStep ==
  ASSUME TypeOK, NEW t \in Threads, ClearList(t)
  PROVE  TypeOK' /\ Moves(J, J')
<1>1. th' \in ThreadMap
  BY ReturnType DEF ClearList, At
<1> QED BY <1>1, ClearSteps DEF ClearList, TypeOK, ThreadMap

\* A page fault under the lock leaves the journal alone.
LEMMA HydrationFaultsStep ==
  ASSUME TypeOK, NEW t \in Threads, HydrationFaults(t)
  PROVE  TypeOK' /\ Moves(J, J')
BY KeptSelf DEF HydrationFaults, TypeOK, Moves

\* Every checkpoint step makes one move of the pipeline.
LEMMA CheckpointSteps ==
  ASSUME TypeOK, NEW t \in Threads, CheckpointStep(t)
  PROVE  TypeOK' /\ Moves(J, J')
BY FlushStep, ReturnSteps, DrainForcesCheckpointStep, DrainStartStep, DrainStopStep,
   ArmCheckpointStep, SyncNodeStep, SyncPagesStep, ClearListStep, HydrationFaultsStep
   DEF CheckpointStep

\* A committer that finds the slot free at last locks the running
\* transaction.
LEMMA CommitRetryStep ==
  ASSUME TypeOK, NEW t \in Threads, CommitRetry(t)
  PROVE  TypeOK' /\ Moves(J, J')
<1> DEFINE r == BeginCommit(J)
<1>1. r.j \in JournalType /\ r.k \in Seq(Labels) /\ (r.j = J \/ Locked(J, r.j))
  BY AllTyped, BeginCommitSteps
<1>2. J' = r.j /\ Goto(t, r.k)
  BY DEF CommitRetry
<1> HIDE DEF r
<1>3. th' \in ThreadMap
  BY <1>1, <1>2, GotoType DEF CommitRetry, At
<1>4. Moves(J, J')
  BY <1>1, <1>2, KeptSelf DEF Moves
<1> QED BY <1>1, <1>2, <1>3, <1>4, JournalAndThreads DEF CommitRetry

\* The last handle gone, the committing transaction goes to T_FLUSHING.
LEMMA UpdatesDoneStep ==
  ASSUME TypeOK, NEW t \in Threads, UpdatesDone(t)
  PROVE  TypeOK' /\ Moves(J, J')
<1> DEFINE r == BeginFlush(J)
<1>1. r.j \in JournalType /\ r.k \in Seq(Labels) /\ Flushed(J, r.j)
  BY AllTyped, BeginFlushSteps DEF UpdatesDone, Committing
<1>2. J' = r.j /\ Goto(t, r.k)
  BY DEF UpdatesDone
<1> HIDE DEF r
<1>3. th' \in ThreadMap
  BY <1>1, <1>2, GotoType DEF UpdatesDone, Committing, At
<1> QED BY <1>1, <1>2, <1>3, JournalAndThreads DEF UpdatesDone, Moves

\* The commit resumes after a forced checkpoint and records where it starts.
LEMMA LogStartStep ==
  ASSUME TypeOK, NEW t \in Threads, LogStart(t)
  PROVE  TypeOK' /\ Moves(J, J')
<1>1. J' \in JournalType /\ Moves(J, J')
  BY AllTyped, SetLogStartKeeps DEF LogStart, Moves
<1>2. th' \in ThreadMap
  BY ReturnType DEF LogStart, Committing, At
<1> QED BY <1>1, <1>2, JournalAndThreads DEF LogStart

\* The buffers of the committing transaction in the order they are written.
LEMMA BufferSeqType ==
  ASSUME NEW j, NEW x
  PROVE  InSomeOrder(BuffersOf(j, x)) \in Seq(Blocks)
<1>1. IsFiniteSet(BuffersOf(j, x)) /\ BuffersOf(j, x) \subseteq Blocks
  BY JournalAssumption, FS_Subset DEF BuffersOf
<1>2. InSomeOrder(BuffersOf(j, x)) \in Seq(BuffersOf(j, x))
  BY <1>1, InSomeOrderType
<1> QED BY <1>1, <1>2, SeqDef

\* The start of journal_write_payload leaves the journal alone.
LEMMA WritePayloadStep ==
  ASSUME TypeOK, NEW t \in Threads, WritePayload(t)
  PROVE  TypeOK' /\ Moves(J, J')
<1> DEFINE c == BuffersOf(J, J.committing)
           n == IF c = {} THEN 3 ELSE 2
           todo == InSomeOrder(c)
           stack == SubSeq(th[t].stack, n, Len(th[t].stack))
<1>1. todo \in Seq(Blocks)
  BY BufferSeqType
<1>2. stack \in Seq(Labels) /\ th \in [Threads -> ThreadType]
  BY ThreadFields, SuffixType DEF ThreadMap
<1>3. th' = [th EXCEPT ![t].todo = todo, ![t].batch = 0, ![t].stack = stack]
  BY DEF WritePayload
<1> HIDE DEF todo, stack
<1>4. 0 \in Int
  OBVIOUS
<1>5. th' \in ThreadMap
  BY <1>1, <1>2, <1>3, <1>4, SetTodoBatchStack DEF ThreadMap
<1> QED BY <1>5, OnlyThreads DEF WritePayload

\* The number of tags of a descriptor.
LEMMA TaggedType ==
  ASSUME TypeOK, NEW t \in Threads
  PROVE  /\ th[t].todo \in Seq(Blocks) /\ Len(th[t].todo) \in Nat
         /\ Tagged(t) \in 0 .. Len(th[t].todo)
<1>1. th[t].todo \in Seq(Blocks) /\ Len(th[t].todo) \in Nat
  BY ThreadFields
<1> QED BY <1>1, JournalAssumption DEF Tagged

\* The next block of the payload is a record.
LEMMA PayloadRecordType ==
  ASSUME TypeOK, NEW t \in Threads, th[t].todo # <<>>, J.committing # None
  PROVE  PayloadRecord(t) \in RecordType
<1> DEFINE rest == th[t].todo
           n == Tagged(t)
<1>1. rest \in Seq(Blocks) /\ Len(rest) \in Nat /\ Head(rest) \in Blocks
      /\ n \in 0 .. Len(rest)
  BY TaggedType, TodoType
<1>2. J.committing \in Tids
  BY AllTyped, Fields
<1> HIDE DEF n
<1>3. SubSeq(rest, 1, n) \in Seq(Blocks)
  <2>1. \A i \in 1 .. n : rest[i] \in Blocks
    BY <1>1
  <2> QED BY <1>1, <2>1, SubSeqProperties
<1>4. J.buf[J.committing][Head(rest)].shadow \in Content
  BY <1>1, <1>2, AllTyped, Fields DEF BufferMaps, BufferType
<1>5. {} \in Content /\ <<>> \in Seq(Blocks)
  BY DEF Content
<1>6. CASE th[t].batch = 0
  BY <1>2, <1>3, <1>5, <1>6 DEF PayloadRecord, Record, RecordType, n
<1>7. CASE th[t].batch # 0
  BY <1>4, <1>5, <1>7 DEF PayloadRecord, Record, RecordType
<1> QED BY <1>6, <1>7

\* So are a commit record and a torn block.
LEMMA OtherRecordsType ==
  ASSUME TypeOK
  PROVE  Blank \in RecordType /\ (J.committing # None => CommitRecord \in RecordType)
<1>1. {} \in Content /\ <<>> \in Seq(Blocks)
  BY DEF Content
<1>2. Blank \in RecordType
  BY <1>1 DEF Blank, Record, RecordType
<1>3. J.committing # None => J.committing \in Tids
  BY AllTyped, Fields
<1> QED BY <1>1, <1>2, <1>3 DEF CommitRecord, Record, RecordType

\* Writing a descriptor or a payload block moves no transaction.
LEMMA WriteLogBlockStep ==
  ASSUME TypeOK, NEW t \in Threads, WriteLogBlock(t)
  PROVE  TypeOK' /\ Moves(J, J')
<1> DEFINE rest == th[t].todo
           descriptor == th[t].batch = 0
           rec == PayloadRecord(t)
           batch == IF descriptor THEN Tagged(t) ELSE th[t].batch - 1
           todo == IF descriptor THEN rest ELSE Tail(rest)
           stack == IF ~descriptor /\ Len(rest) = 1 THEN Tail(th[t].stack) ELSE th[t].stack
<1>1. J' \in JournalType /\ Kept(J, J') /\ J'.head \in Ring
  BY AllTyped, AllocLogBlockKeeps DEF WriteLogBlock
<1>2. rest # <<>> /\ J.committing # None
  BY DEF WriteLogBlock, Committing
<1>3. todo \in Seq(Blocks) /\ batch \in Int
  BY <1>2, TaggedType, TodoType, ThreadFields
<1>4. rec \in RecordType
  BY <1>2, PayloadRecordType
<1>5. D' = Append1(D, J'.head, rec)
  BY DEF WriteLogBlock
<1> HIDE DEF rec
<1>6. D' \in DiskType
  BY <1>1, <1>4, <1>5, AllTyped, Append1Type
<1>7. stack \in Seq(Labels) /\ th \in [Threads -> ThreadType]
  BY ThreadFields, HeadTailProperties DEF WriteLogBlock, Committing, At, ThreadMap
<1>8. th' = [th EXCEPT ![t].batch = batch, ![t].todo = todo, ![t].stack = stack]
  BY DEF WriteLogBlock
<1> HIDE DEF batch, todo, stack
<1>9. th' \in ThreadMap
  BY <1>3, <1>7, <1>8, SetBatchTodoStack DEF ThreadMap
<1> QED BY <1>1, <1>6, <1>9 DEF WriteLogBlock, TypeOK, Moves, ThreadMap

\* Writing the commit record moves no transaction.
LEMMA WriteCommitRecordStep ==
  ASSUME TypeOK, NEW t \in Threads, WriteCommitRecord(t)
  PROVE  TypeOK' /\ Moves(J, J')
<1>1. J' \in JournalType /\ Kept(J, J') /\ J'.head \in Ring
  BY AllTyped, AllocLogBlockKeeps DEF WriteCommitRecord
<1>2. CommitRecord \in RecordType
  BY OtherRecordsType DEF WriteCommitRecord, Committing
<1>3. D' = Append1(D, J'.head, CommitRecord)
  BY DEF WriteCommitRecord
<1>4. D' \in DiskType
  BY <1>1, <1>2, <1>3, AllTyped, Append1Type
<1>5. th' \in ThreadMap
  BY ReturnType DEF WriteCommitRecord, Committing, At
<1> QED BY <1>1, <1>4, <1>5 DEF WriteCommitRecord, TypeOK, Moves, ThreadMap

\* A failed log write moves no transaction before the abort.
LEMMA LogWriteFailsStep ==
  ASSUME TypeOK, NEW t \in Threads, LogWriteFails(t)
  PROVE  TypeOK' /\ Moves(J, J')
<1> DEFINE payload == At(t, "write_log")
           rest == IF payload THEN 9 ELSE 7
           suffix == SubSeq(th[t].stack, rest, Len(th[t].stack))
           stack == <<"drain", "abort">> \o suffix
           rec == IF payload THEN PayloadRecord(t) ELSE CommitRecord
<1>1. J' \in JournalType /\ Kept(J, J') /\ J'.head \in Ring
  BY AllTyped, AllocLogBlockKeeps DEF LogWriteFails
<1>2. suffix \in Seq(Labels) /\ th \in [Threads -> ThreadType]
  BY ThreadFields, SuffixType DEF ThreadMap
<1>3. stack \in Seq(Labels)
  <2>1. <<"drain", "abort">> \in Seq(Labels)
    BY DEF Labels
  <2> HIDE DEF suffix
  <2> QED BY <1>2, <2>1, ConcatProperties
<1>4. th' = [th EXCEPT ![t].stack = stack]
  BY DEF LogWriteFails
<1>5. J.committing # None /\ (payload => th[t].todo # <<>>)
  BY DEF LogWriteFails, Committing, At
<1>6. rec \in RecordType /\ Blank \in RecordType
  BY <1>5, PayloadRecordType, OtherRecordsType
<1>7. D' = D \/ D' = Append1(D, J'.head, rec) \/ D' = Append1(D, J'.head, Blank)
  BY DEF LogWriteFails
<1> HIDE DEF rec, stack
<1>8. D' \in DiskType
  BY <1>1, <1>6, <1>7, AllTyped, Append1Type
<1>9. th' \in ThreadMap
  BY <1>2, <1>3, <1>4, SetStack DEF ThreadMap
<1> QED BY <1>1, <1>8, <1>9 DEF LogWriteFails, TypeOK, Moves, ThreadMap

\* abort_commit leaves the slot without joining the checkpoint list.
LEMMA AbortCommitStep ==
  ASSUME TypeOK, NEW t \in Threads, AbortCommit(t)
  PROVE  TypeOK' /\ Moves(J, J')
<1> DEFINE c == J.committing
           f == FreeTransactions(J, {c})
<1>1. c \in Tids /\ c # None
  BY AllTyped, Fields DEF AbortCommit, Committing
<1>2. /\ f \in JournalType /\ f.ckpt = J.ckpt /\ f.running = J.running
      /\ f.committing = c /\ f.committed = J.committed /\ f.seq = J.seq
      /\ \A x \in Tids : f.txn[x].state = IF x \in {c} THEN "none" ELSE J.txn[x].state
  BY AllTyped, FreeTransactionsFrees
<1>3. J' = [f EXCEPT !.committing = None, !.committed = c]
  BY DEF AbortCommit
<1> HIDE DEF f, c
<1>4. J' \in JournalType
  BY <1>1, <1>2, <1>3 DEF JournalType
<1>5. /\ J'.ckpt = f.ckpt /\ J'.running = f.running /\ J'.committing = None
      /\ J'.committed = c /\ J'.seq = f.seq /\ J'.txn = f.txn
  BY <1>2, <1>3 DEF JournalType
<1>6. Left(J, J')
  BY <1>1, <1>2, <1>5 DEF Left, c
<1>7. th' \in ThreadMap
  BY ReturnType DEF AbortCommit, Committing, At
<1> QED BY <1>4, <1>6, <1>7, JournalAndThreads DEF AbortCommit, Moves

\* Starting the flush of the lifeboat leaves the journal alone.
LEMMA LifeboatStartStep ==
  ASSUME TypeOK, NEW t \in Threads, LifeboatStart(t)
  PROVE  TypeOK' /\ Moves(J, J')
<1> DEFINE todo == InSomeOrder(BuffersOf(J, J.committing))
           stack == <<"lifeboat_next">> \o Tail(th[t].stack)
<1>1. todo \in Seq(Blocks) /\ th \in [Threads -> ThreadType]
  BY BufferSeqType, AllTyped DEF ThreadMap
<1>2. stack \in Seq(Labels)
  <2>1. <<"lifeboat_next">> \in Seq(Labels)
    BY DEF Labels
  <2> QED BY <2>1, ThreadFields, StackOps DEF LifeboatStart, Committing, At
<1>3. th' = [th EXCEPT ![t].todo = todo, ![t].stack = stack]
  BY DEF LifeboatStart
<1> HIDE DEF todo, stack
<1>4. th' \in ThreadMap
  BY <1>1, <1>2, <1>3, SetTodoStack DEF ThreadMap
<1> QED BY <1>4, OnlyThreads DEF LifeboatStart

\* Replacing one buffer keeps the maps well formed.
LEMMA BufferSet ==
  ASSUME NEW j \in JournalType, NEW x \in Tids, NEW b \in Blocks, NEW r \in BufferType
  PROVE  [j.buf EXCEPT ![x][b] = r] \in BufferMaps
<1>1. [j.buf[x] EXCEPT ![b] = r] \in [Blocks -> BufferType]
  BY Fields DEF BufferMaps
<1> QED BY <1>1, Fields DEF BufferMaps

\* Taking over a payload moves no transaction.
LEMMA LifeboatCaptureStep ==
  ASSUME TypeOK, NEW t \in Threads, LifeboatCapture(t)
  PROVE  TypeOK' /\ Moves(J, J')
<1> DEFINE c == J.committing
           b == Head(th[t].todo)
           r == [J.buf[c][b] EXCEPT !.flushing = TRUE]
           buf == [J.buf EXCEPT ![c][b] = r]
           stack == <<"lifeboat_write", "lifeboat_done">> \o th[t].stack
           slot == J.buf[c][b].slot
<1>1. th[t].todo # <<>> /\ c # None
  BY DEF LifeboatCapture, Committing
<1>2. c \in Tids /\ b \in Blocks /\ Tail(th[t].todo) \in Seq(Blocks)
  BY <1>1, AllTyped, Fields, TodoType
<1>3. th \in [Threads -> ThreadType]
  BY AllTyped DEF ThreadMap
<1>4. J.buf[c][b] \in BufferType
  BY <1>2, AllTyped, Fields DEF BufferMaps
<1>5. CASE slot = NoSlot
  <2>1. J' = J /\ th' = [th EXCEPT ![t].todo = Tail(@)]
    BY <1>5 DEF LifeboatCapture
  <2>2. th' \in ThreadMap
    BY <1>2, <1>3, <2>1, SetTodo DEF ThreadMap
  <2> QED BY <2>1, <2>2, OnlyThreads DEF LifeboatCapture
<1>6. CASE slot # NoSlot
  <2>1. J' = [J EXCEPT !.buf[c][b].flushing = TRUE]
        /\ th' = [th EXCEPT ![t].slot = slot, ![t].stack = stack]
    BY <1>6 DEF LifeboatCapture
  <2>2. J' = [J EXCEPT !.buf = buf, !.mask = J.mask, !.txn = J.txn]
    BY <2>1, AllTyped DEF JournalType
  <2>3. r \in BufferType /\ slot \in Slots \cup {NoSlot}
    BY <1>4 DEF BufferType
  <2> HIDE DEF r
  <2>4. buf \in BufferMaps
    BY <1>2, <2>3, AllTyped, BufferSet
  <2> HIDE DEF buf
  <2>5. J' \in JournalType /\ Moves(J, J')
    BY <2>2, <2>4, AllTyped, Fields, KeptByUpdate DEF Moves
  <2>6. stack \in Seq(Labels)
    <3>1. <<"lifeboat_write", "lifeboat_done">> \in Seq(Labels)
      BY DEF Labels
    <3> QED BY <3>1, ThreadFields, StackOps
  <2> HIDE DEF stack, slot
  <2>7. th' \in ThreadMap
    BY <1>3, <2>1, <2>3, <2>6, SetSlotStack DEF ThreadMap
  <2> QED BY <2>5, <2>7, JournalAndThreads DEF LifeboatCapture
<1> QED BY <1>5, <1>6

\* Writing a payload home leaves the journal alone.
LEMMA LifeboatWriteStep ==
  ASSUME TypeOK, NEW t \in Threads, LifeboatWrite(t)
  PROVE  TypeOK' /\ Moves(J, J')
<1>1. J.payload[th[t].slot] \in Content
  <2>1. th[t].slot \in Slots
    BY ThreadFields DEF LifeboatWrite
  <2> QED BY <2>1, AllTyped, Fields
<1>2. D' \in DiskType
  BY <1>1, AllTyped, HomeWriteType DEF LifeboatWrite
<1>3. th' \in ThreadMap
  BY ReturnType DEF LifeboatWrite, At
<1> QED BY <1>2, <1>3, KeptSelf DEF LifeboatWrite, TypeOK, Moves, ThreadMap

\* Giving a slot back moves no transaction.
LEMMA LifeboatDoneStep ==
  ASSUME TypeOK, NEW t \in Threads, LifeboatDone(t)
  PROVE  TypeOK' /\ Moves(J, J')
<1> DEFINE c == J.committing
           b == Head(th[t].todo)
           s == th[t].slot
           jb == J.buf[c][b]
           r == [jb EXCEPT !.flushing = FALSE, !.written = TRUE,
                           !.slot = IF jb.slot = s THEN NoSlot ELSE jb.slot]
           buf == [J.buf EXCEPT ![c][b] = r]
           mask == [J.mask EXCEPT ![s] = FALSE]
           n == IF ~jb.written /\ J.txn[c].outstanding > 0 THEN J.txn[c].outstanding - 1
                ELSE J.txn[c].outstanding
           x == [J.txn[c] EXCEPT !.outstanding = n]
           txn == [J.txn EXCEPT ![c] = x]
           stack == Tail(th[t].stack)
           todo == Tail(th[t].todo)
<1>1. th[t].todo # <<>> /\ c # None /\ th[t].stack # <<>>
  BY DEF LifeboatDone, Committing, At
<1>2. c \in Tids /\ b \in Blocks /\ todo \in Seq(Blocks)
  BY <1>1, AllTyped, Fields, TodoType
<1>3. stack \in Seq(Labels) /\ NoSlot \in Slots \cup {NoSlot} /\ th \in [Threads -> ThreadType]
  BY <1>1, AllTyped, ThreadFields, HeadTailProperties DEF ThreadMap
<1>4. jb \in BufferType /\ J.txn[c] \in TransactionType
  BY <1>2, AllTyped, Fields DEF BufferMaps
<1>5. r \in BufferType
  <2>1. (IF jb.slot = s THEN NoSlot ELSE jb.slot) \in Slots \cup {NoSlot}
    BY <1>4 DEF BufferType
  <2> HIDE DEF jb
  <2> QED BY <1>4, <2>1 DEF BufferType
<1>6. n \in Int
  <2>1. J.txn[c].outstanding \in Int
    BY <1>4 DEF TransactionType
  <2> QED BY <2>1, SMTT(30)
<1>7. J' = [J EXCEPT !.buf[c][b] = r, !.mask[s] = FALSE, !.txn[c].outstanding = n]
      /\ th' = [th EXCEPT ![t].stack = stack, ![t].todo = todo, ![t].slot = NoSlot]
  BY DEF LifeboatDone
<1> HIDE DEF r, n
<1>8. J' = [J EXCEPT !.buf = buf, !.mask = mask, !.txn = txn]
  BY <1>7, AllTyped DEF JournalType
<1>9. buf \in BufferMaps
  BY <1>2, <1>5, AllTyped, BufferSet
<1>10. mask \in [Slots -> BOOLEAN]
  BY AllTyped, Fields
<1>11. txn \in [Tids -> TransactionType] /\ \A y \in Tids : txn[y].state = J.txn[y].state
  <2>1. x \in TransactionType /\ x.state = J.txn[c].state
    BY <1>4, <1>6, OutstandingSet
  <2> HIDE DEF x
  <2> QED BY <1>2, <2>1, AllTyped, Fields
<1> HIDE DEF buf, mask, txn
<1>12. J' \in JournalType /\ Moves(J, J')
  BY <1>8, <1>9, <1>10, <1>11, AllTyped, KeptByUpdate DEF Moves
<1> HIDE DEF stack, todo
<1>13. th' \in ThreadMap
  BY <1>2, <1>3, <1>7, SetStackTodoSlot DEF ThreadMap
<1> QED BY <1>12, <1>13, JournalAndThreads DEF LifeboatDone

\* The end of a commit moves its transaction to the end of the checkpoint
\* list.
LEMMA FinishCommitStep ==
  ASSUME TypeOK, NEW t \in Threads, FinishCommit(t)
  PROVE  TypeOK' /\ Moves(J, J')
<1> DEFINE c == J.committing
           empty == J.tail = 0
           tail == IF empty THEN J.txn[c].logStart ELSE J.tail
           r == [J.txn[c] EXCEPT !.state = "finished", !.freed = {}]
           txn == [J.txn EXCEPT ![c] = r]
           ckpt == Append(J.ckpt, c)
           freed == J.txn[c].freed
           stack == (IF empty THEN <<"flush">> ELSE <<>>) \o Tail(th[t].stack)
<1>1. c # None /\ c \in Tids /\ th[t].stack # <<>>
  BY AllTyped, Fields DEF FinishCommit, Committing, At
<1>2. J.txn[c] \in TransactionType /\ J.tail \in Ring \cup {0}
  BY <1>1, AllTyped, Fields
<1>3. tail \in Ring \cup {0} /\ freed \in SUBSET Blocks
  BY <1>2 DEF TransactionType
<1>4. D' = IF empty THEN UpdateSuperblock(D, c, tail) ELSE D
  BY DEF FinishCommit
<1>17. th' = [th EXCEPT ![t].freed = freed, ![t].stack = stack]
  BY DEF FinishCommit
<1>18. J' = [J EXCEPT !.tail = tail, !.committed = c, !.committing = None,
                     !.txn[c] = r, !.ckpt = ckpt]
  BY DEF FinishCommit
<1> HIDE DEF tail, r, ckpt
<1>5. J' = [J EXCEPT !.tail = tail, !.committed = c, !.committing = None,
                     !.txn = txn, !.ckpt = ckpt]
  BY <1>18, AllTyped DEF JournalType
<1>6. r \in TransactionType /\ r.state = "finished"
  BY <1>2 DEF TransactionType, States, r
<1>7. txn \in [Tids -> TransactionType]
      /\ \A x \in Tids : txn[x].state = IF x # c THEN J.txn[x].state ELSE "finished"
  BY <1>1, <1>6, AllTyped, Fields
<1>8. ckpt \in Seq(Tids) /\ ckpt # J.ckpt
  <2>1. J.ckpt \in Seq(Tids) /\ Len(J.ckpt) \in Nat
    BY AllTyped, Fields
  <2>2. ckpt \in Seq(Tids) /\ Len(ckpt) = Len(J.ckpt) + 1
    BY <1>1, <2>1, AppendProperties DEF ckpt
  <2> QED BY <2>1, <2>2
<1> HIDE DEF txn
<1>9. J' \in JournalType
  BY <1>1, <1>3, <1>5, <1>7, <1>8, AllTyped DEF JournalType
<1>10. /\ J'.ckpt = ckpt /\ J'.running = J.running /\ J'.committing = None
       /\ J'.committed = c /\ J'.seq = J.seq /\ J'.txn = txn
  BY <1>5, AllTyped DEF JournalType
<1>11. Left(J, J')
  BY <1>1, <1>7, <1>8, <1>10 DEF Left, ckpt
<1>12. D' \in DiskType
  <2>1. c \in 1 .. MaxTid + 1
    BY <1>1, JournalAssumption DEF Tids
  <2> QED BY <1>3, <1>4, <2>1, AllTyped, UpdateSuperblockType
<1>13. stack \in Seq(Labels) /\ th \in [Threads -> ThreadType]
  <2>1. (IF empty THEN <<"flush">> ELSE <<>>) \in Seq(Labels)
    <3>1. <<"flush">> \in Seq(Labels)
      BY DEF Labels
    <3> QED BY <3>1, LabelSeqs
  <2> QED BY <1>1, <2>1, AllTyped, ThreadFields, StackOps DEF ThreadMap
<1> HIDE DEF stack, freed
<1>14. th' \in ThreadMap
  BY <1>3, <1>17, <1>13, SetFreedStack DEF ThreadMap
<1>15. durable' \in [Blocks -> [kept : Content, gone : Content]]
  <2>1. ASSUME NEW b \in Blocks
        PROVE  Promised(durable[b], J.txn[c], J.buf[c][b], b) \in [kept : Content, gone : Content]
    <3>1. J.buf[c][b].shadow \in Content
      BY <1>1, AllTyped, Fields DEF BufferMaps, BufferType
    <3>2. durable[b].kept \in Content /\ durable[b].gone \in Content
      BY DEF TypeOK
    <3> QED BY <3>1, <3>2 DEF Content, Promised
  <2>2. durable' = [b \in Blocks |-> Promised(durable[b], J.txn[c], J.buf[c][b], b)]
    BY DEF FinishCommit
  <2> QED BY <2>1, <2>2
<1>16. M' = M /\ faulting' = faulting
  BY DEF FinishCommit
<1> QED BY <1>9, <1>11, <1>12, <1>14, <1>15, <1>16 DEF TypeOK, Moves, ThreadMap
=============================================================================
