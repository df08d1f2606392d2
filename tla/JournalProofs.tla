--------------------------- MODULE JournalProofs ----------------------------
(***************************************************************************)
(* The journal, for every value of its constants: types, the order of the  *)
(* pipeline of transactions, and the refinement of TransactionPipeline.    *)
(* The inductive invariant is Inv; every action makes one of the six moves *)
(* of JournalOperatorProofs (NextMoves), and each of these keeps the order *)
(* (MovesOrdered) and is a step of the abstract pipeline (MovesRefine).    *)
(***************************************************************************)
EXTENDS JournalCommitProofs

\* A superblock update is followed by a flush.
LEMMA FlushIfReclaimed ==
  ASSUME NEW p
  PROVE  (IF p THEN <<>> ELSE <<"flush">>) \in Seq(Labels)
<1>1. <<"flush">> \in Seq(Labels)
  BY DEF Labels
<1> QED BY <1>1, LabelSeqs

\* journal_forget_freed_blocks reclaims a prefix or moves nothing.
LEMMA ForgetFreedBlocksStep ==
  ASSUME TypeOK, NEW t \in Threads, ForgetFreedBlocks(t)
  PROVE  TypeOK' /\ Moves(J, J')
<1> DEFINE stack == (IF J'.ckpt = J.ckpt THEN <<>> ELSE <<"flush">>) \o Tail(th[t].stack)
<1>1. IsFiniteSet(th[t].freed)
  BY ThreadFields, FS_Subset, JournalAssumption
<1>2. J' \in JournalType /\ (Kept(J, J') \/ Reclaimed(J, J'))
  <2>1. J' = IF th[t].freed = {} THEN J ELSE NotifyWritten(J, th[t].freed)
    BY DEF ForgetFreedBlocks
  <2> QED BY <1>1, <2>1, AllTyped, NotifyWrittenSteps, KeptSelf
<1>3. D' = SuperblockAfterNotify(D, J, J')
  BY DEF ForgetFreedBlocks
<1>4. D' \in DiskType
  BY <1>2, <1>3, AllTyped, SuperblockAfterNotifyType
<1>5. th[t].stack # <<>> /\ UNCHANGED <<M, faulting, durable>>
  BY DEF ForgetFreedBlocks, At
<1>6. th' = [th EXCEPT ![t].freed = {}, ![t].stack = stack]
  BY DEF ForgetFreedBlocks
<1>7. stack \in Seq(Labels) /\ th \in [Threads -> ThreadType]
  BY <1>5, AllTyped, ThreadFields, FlushIfReclaimed, StackOps DEF ThreadMap
<1> HIDE DEF stack
<1>8. th' \in ThreadMap
  BY <1>6, <1>7, SetFreedStack DEF ThreadMap
<1> QED BY <1>2, <1>4, <1>5, <1>8 DEF TypeOK, Moves, ThreadMap

\* Every step of a commit makes one move of the pipeline.
LEMMA CommitThreadSteps ==
  ASSUME TypeOK, NEW t \in Threads, CommitStep(t)
  PROVE  TypeOK' /\ Moves(J, J')
BY CommitRetryStep, UpdatesDoneStep, LogStartStep, WritePayloadStep,
   WriteLogBlockStep, WriteCommitRecordStep, LogWriteFailsStep, AbortCommitStep,
   LifeboatStartStep, LifeboatCaptureStep, LifeboatWriteStep, LifeboatDoneStep,
   ReturnSteps, FinishCommitStep, ForgetFreedBlocksStep DEF CommitStep

\* kjournald locks the running transaction or moves nothing.
LEMMA KjournaldStep ==
  ASSUME TypeOK, KjournaldWakes \/ KjournaldCommits
  PROVE  TypeOK' /\ Moves(J, J')
<1>1. CASE KjournaldWakes
  <2> DEFINE stack == <<"commit_running">> \o th[Kjournald].stack
  <2>1. stack \in Seq(Labels)
    <3>1. <<"commit_running">> \in Seq(Labels)
      BY DEF Labels
    <3> QED BY <3>1, AllTyped, ThreadFields, StackOps
  <2>2. th' = [th EXCEPT ![Kjournald].stack = stack]
    BY <1>1 DEF KjournaldWakes
  <2> HIDE DEF stack
  <2>3. th' \in ThreadMap
    BY <2>1, <2>2, AllTyped, SetStack DEF ThreadMap
  <2> QED BY <1>1, <2>3, OnlyThreads DEF KjournaldWakes
<1>2. CASE KjournaldCommits
  <2> DEFINE r == CommitRunning(J)
  <2>1. r.j \in JournalType /\ r.k \in Seq(Labels) /\ (r.j = J \/ Locked(J, r.j))
    BY AllTyped, CommitRunningSteps
  <2>2. J' = r.j /\ Goto(Kjournald, r.k) /\ th[Kjournald].stack # <<>>
    BY <1>2 DEF KjournaldCommits, At
  <2> HIDE DEF r
  <2>3. th' \in ThreadMap
    BY <2>1, <2>2, AllTyped, GotoType
  <2>4. Moves(J, J')
    BY <2>1, <2>2, KeptSelf DEF Moves
  <2> QED BY <1>2, <2>1, <2>2, <2>3, <2>4, JournalAndThreads DEF KjournaldCommits
<1> QED BY <1>1, <1>2

\* A page-out request leaves the journal alone.
LEMMA PageOutStep ==
  ASSUME TypeOK, NEW b \in Blocks, PageOut(b)
  PROVE  TypeOK' /\ Moves(J, J')
<1> DEFINE stack == <<"hazard", "written">> \o th[Pager].stack
           data == M.cache[b]
           serves == {t \in Threads : b \in th[t].need}
<1>1. th' = [th EXCEPT ![Pager].stack = stack, ![Pager].blk = b, ![Pager].data = data,
                       ![Pager].serves = serves]
  BY DEF PageOut
<1>2. stack \in Seq(Labels) /\ data \in Content /\ serves \in SUBSET Threads
      /\ b \in Blocks \cup {None}
  <2>1. <<"hazard", "written">> \in Seq(Labels)
    BY DEF Labels
  <2>2. stack \in Seq(Labels)
    BY <2>1, AllTyped, ThreadFields, StackOps
  <2> QED BY <2>2, AllTyped
<1> HIDE DEF stack, data, serves
<1>3. th' \in ThreadMap
  BY <1>1, <1>2, AllTyped, SetStackBlkDataServes DEF ThreadMap
<1>4. M' \in MemoryType
  <2>1. PICK drop : M' = [M EXCEPT !.dirty = @ \ {b},
                                   !.absent = IF drop THEN @ \cup {b} ELSE @]
    BY DEF PageOut
  <2> QED BY <2>1, AllTyped DEF MemoryType
<1>5. UNCHANGED <<J, D, faulting, durable>>
  BY DEF PageOut
<1> QED BY <1>3, <1>4, <1>5, KeptSelf DEF TypeOK, Moves, ThreadMap

\* A dropped page leaves the journal alone.
LEMMA PageDropStep ==
  ASSUME TypeOK, NEW b \in Blocks, PageDrop(b)
  PROVE  TypeOK' /\ Moves(J, J')
<1>1. M' \in MemoryType
  <2>1. M' = [M EXCEPT !.absent = @ \cup {b}]
    BY DEF PageDrop
  <2> QED BY <2>1, AllTyped DEF MemoryType
<1>2. UNCHANGED <<J, D, th, faulting, durable>>
  BY DEF PageDrop
<1> QED BY <1>1, <1>2, KeptSelf DEF TypeOK, Moves

\* A page-in request leaves the journal alone.
LEMMA PageInStep ==
  ASSUME TypeOK, NEW b \in Blocks, PageIn(b)
  PROVE  TypeOK' /\ Moves(J, J')
<1> DEFINE stack == <<"overlay">> \o th[Pager].stack
           data == D.home[b].now
<1>1. th' = [th EXCEPT ![Pager].stack = stack, ![Pager].blk = b, ![Pager].data = data]
  BY DEF PageIn
<1>2. stack \in Seq(Labels) /\ data \in Content /\ b \in Blocks \cup {None}
  <2>1. <<"overlay">> \in Seq(Labels)
    BY DEF Labels
  <2>2. stack \in Seq(Labels)
    BY <2>1, AllTyped, ThreadFields, StackOps
  <2>3. data \in Content
    BY AllTyped, DiskFields DEF CellType
  <2> QED BY <2>2, <2>3
<1> HIDE DEF stack, data
<1>3. th' \in ThreadMap
  BY <1>1, <1>2, AllTyped, SetStackBlkData DEF ThreadMap
<1> QED BY <1>3, OnlyThreads DEF PageIn

\* journal_store_write under the lock intercepts, goes ahead or locks the
\* running transaction. The interception needs the order of the pipeline: the
\* two transactions that hold a block are different ones.
LEMMA WriteHazardStep ==
  ASSUME TypeOK, Ordered(J), WriteHazard
  PROVE  TypeOK' /\ Moves(J, J')
<1> DEFINE b == th[Pager].blk
           after == <<"store_write", "notify">>
<1>1. th[Pager].stack # <<>> /\ UNCHANGED <<D, M, faulting, durable>>
  BY DEF WriteHazard, At
<1>2. after \in Seq(Labels)
  BY DEF Labels
<1>3. CASE IsHazard(J, b) /\ HasRoom(J, b)
  <2>1. J' = Intercept(J, b, th[Pager].data) /\ Return(Pager)
    BY <1>3 DEF WriteHazard
  <2>2. th[Pager].data \in Content
    BY AllTyped, ThreadFields
  <2>3. J' \in JournalType /\ Kept(J, J')
    BY <1>3, <2>1, <2>2, AllTyped, InterceptKeeps
  <2>4. th' \in ThreadMap
    BY <1>1, <2>1, AllTyped, ReturnType
  <2> QED BY <1>1, <2>3, <2>4, JournalAndThreads DEF Moves
<1>4. CASE IsHazard(J, b) /\ ~HasRoom(J, b)
  <2>1. J' = J /\ Goto(Pager, after)
    BY <1>4 DEF WriteHazard
  <2>2. th' \in ThreadMap
    BY <1>1, <1>2, <2>1, AllTyped, GotoType
  <2> QED BY <1>1, <2>1, <2>2, OnlyThreads
<1>5. CASE ~IsHazard(J, b)
  <2> DEFINE r == IF In(J, J.running, b) THEN BeginCommit(J) ELSE Then(J, <<>>)
  <2>1. J' = r.j /\ Goto(Pager, r.k \o after)
    BY <1>5 DEF WriteHazard
  <2>2. r.j \in JournalType /\ r.k \in Seq(Labels) /\ (r.j = J \/ Locked(J, r.j))
    <3>1. CASE In(J, J.running, b)
      BY <3>1, AllTyped, BeginCommitSteps
    <3>2. CASE ~In(J, J.running, b)
      BY <3>2, AllTyped, LabelSeqs DEF Then
    <3> QED BY <3>1, <3>2
  <2> HIDE DEF r, after
  <2>3. r.k \o after \in Seq(Labels)
    BY <1>2, <2>2, StackOps
  <2>4. th' \in ThreadMap
    BY <1>1, <2>1, <2>3, AllTyped, GotoType
  <2>5. Moves(J, J')
    BY <2>1, <2>2, KeptSelf DEF Moves
  <2> QED BY <1>1, <2>1, <2>2, <2>4, <2>5, JournalAndThreads
<1> QED BY <1>3, <1>4, <1>5

\* The pager's write leaves the journal alone.
LEMMA StoreWriteStep ==
  ASSUME TypeOK, StoreWrite
  PROVE  TypeOK' /\ Moves(J, J')
<1>1. th[Pager].data \in Content
  BY AllTyped, ThreadFields
<1>2. D' \in DiskType
  BY <1>1, AllTyped, HomeWriteType DEF StoreWrite
<1>3. th' \in ThreadMap
  BY AllTyped, ReturnType DEF StoreWrite, At
<1> QED BY <1>2, <1>3, KeptSelf DEF StoreWrite, TypeOK, Moves, ThreadMap

\* The notification after a pager write reclaims a prefix or moves nothing.
LEMMA NotifyStoredStep ==
  ASSUME TypeOK, NotifyStored
  PROVE  TypeOK' /\ Moves(J, J')
<1> DEFINE steps == IF J'.ckpt = J.ckpt THEN <<>> ELSE <<"flush">>
<1>1. J' = NotifyWritten(J, {th[Pager].blk}) /\ D' = SuperblockAfterNotify(D, J, J')
      /\ Goto(Pager, steps)
  BY DEF NotifyStored
<1>2. J' \in JournalType /\ (Kept(J, J') \/ Reclaimed(J, J'))
  BY <1>1, AllTyped, NotifyWrittenSteps, FS_Singleton
<1>3. D' \in DiskType
  BY <1>1, <1>2, AllTyped, SuperblockAfterNotifyType
<1>4. steps \in Seq(Labels)
  BY FlushIfReclaimed
<1>5. th[Pager].stack # <<>> /\ UNCHANGED <<M, faulting, durable>>
  BY DEF NotifyStored, At
<1> HIDE DEF steps
<1>6. th' \in ThreadMap
  BY <1>1, <1>4, <1>5, AllTyped, GotoType
<1> QED BY <1>2, <1>3, <1>5, <1>6 DEF TypeOK, Moves, ThreadMap

\* The end of a page-out leaves the journal alone.
LEMMA PageWrittenStep ==
  ASSUME TypeOK, PageWritten
  PROVE  TypeOK' /\ Moves(J, J')
<1> DEFINE p == th[Pager]
           Served(t) == IF t \in p.serves
                        THEN [th[t] EXCEPT !.need = @ \ {p.blk}] ELSE th[t]
           Idle(l) == [l EXCEPT !.stack = Tail(@), !.serves = {}, !.blk = None, !.data = {}]
<1>1. p.stack # <<>> /\ UNCHANGED <<J, D, M, faulting, durable>>
  BY DEF PageWritten, At
<1>2. th' = [t \in Threads |-> IF t = Pager THEN Idle(Served(t)) ELSE Served(t)]
  BY DEF PageWritten
<1>3. ASSUME NEW t \in Threads
      PROVE  Served(t) \in ThreadType /\ Served(t).stack = th[t].stack
  <2>1. th[t] \in ThreadType
    BY ThreadFields
  <2> HIDE DEF p
  <2> QED BY <2>1 DEF ThreadType
<1> HIDE DEF Served
<1>4. Idle(Served(Pager)) \in ThreadType
  <2> DEFINE l == Served(Pager)
             tail == Tail(l.stack)
  <2>1. l \in ThreadType /\ l.stack = p.stack
    BY <1>3, AllTyped
  <2>2. tail \in Seq(Labels)
    BY <1>1, <2>1, AllTyped, ThreadFields, HeadTailProperties
  <2>3. Idle(l) = [l EXCEPT !.stack = tail, !.serves = {}, !.blk = None, !.data = {}]
    OBVIOUS
  <2>4. {} \in Content
    BY DEF Content
  <2> HIDE DEF l, tail, Idle
  <2>5. [l EXCEPT !.stack = tail, !.serves = {}, !.blk = None, !.data = {}] \in ThreadType
    BY <2>1, <2>2, <2>4 DEF ThreadType
  <2> QED BY <2>3, <2>5 DEF l
<1> HIDE DEF Idle
<1>5. th' \in ThreadMap
  BY <1>2, <1>3, <1>4 DEF ThreadMap
<1> QED BY <1>1, <1>5, OnlyThreads

\* The overlay of the lifeboat over a read leaves the journal alone.
LEMMA OverlayLifeboatStep ==
  ASSUME TypeOK, OverlayLifeboat
  PROVE  TypeOK' /\ Moves(J, J')
<1> DEFINE b == th[Pager].blk
           x == IF In(J, J.running, b) THEN J.running ELSE J.committing
           boat == In(J, x, b) /\ J.buf[x][b].slot # NoSlot
           data == IF boat THEN J.payload[J.buf[x][b].slot] ELSE th[Pager].data
           stack == Tail(th[Pager].stack)
<1>1. th[Pager].stack # <<>> /\ UNCHANGED <<J, D, faulting, durable>>
  BY DEF OverlayLifeboat, At
<1>2. M' = [M EXCEPT !.absent = @ \ {b}, !.cache[b] = data]
  BY DEF OverlayLifeboat
<1>3. th' = [th EXCEPT ![Pager].stack = stack, ![Pager].blk = None, ![Pager].data = {}]
  BY DEF OverlayLifeboat
<1>4. stack \in Seq(Labels) /\ None \in Blocks \cup {None} /\ {} \in Content
  BY <1>1, AllTyped, ThreadFields, HeadTailProperties DEF Content
<1> HIDE DEF stack
<1>5. th' \in ThreadMap
  BY <1>3, <1>4, AllTyped, SetStackBlkData DEF ThreadMap
<1>6. b \in Blocks => data \in Content
  <2>1. SUFFICES ASSUME b \in Blocks PROVE data \in Content
    OBVIOUS
  <2>2. th[Pager].data \in Content
    BY AllTyped, ThreadFields
  <2>3. CASE boat
    <3>1. x \in Tids
      BY <2>3, AllTyped, Fields DEF In
    <3>2. J.buf[x][b] \in BufferType
      BY <2>1, <3>1, AllTyped, Fields DEF BufferMaps
    <3>3. J.buf[x][b].slot \in Slots
      BY <2>3, <3>2 DEF BufferType
    <3> QED BY <2>3, <3>3, AllTyped, Fields
  <2> QED BY <2>2, <2>3
<1> HIDE DEF data
<1>7. M' \in MemoryType
  <2>1. [M.cache EXCEPT ![b] = data] \in [Blocks -> Content]
    BY <1>6, AllTyped
  <2>2. M' = [M EXCEPT !.absent = M.absent \ {b}, !.cache = [M.cache EXCEPT ![b] = data]]
    BY <1>2, AllTyped DEF MemoryType
  <2> QED BY <2>1, <2>2, AllTyped DEF MemoryType
<1> QED BY <1>1, <1>5, <1>7, KeptSelf DEF TypeOK, Moves, ThreadMap

\* Every step of the pager makes one move of the pipeline.
LEMMA PagerSteps ==
  ASSUME TypeOK, Ordered(J), PagerStep
  PROVE  TypeOK' /\ Moves(J, J')
BY PageOutStep, PageInStep, WriteHazardStep, StoreWriteStep, NotifyStoredStep,
   PageWrittenStep, OverlayLifeboatStep DEF PagerStep

-----------------------------------------------------------------------------

\* Every move keeps the pipeline in order.
LEMMA MovesOrdered ==
  ASSUME NEW j \in JournalType, NEW k \in JournalType, Ordered(j), Moves(j, k)
  PROVE  Ordered(k)
BY KeptOrdered, FlushedOrdered, OpenedOrdered, LockedOrdered, LeftOrdered,
   ReclaimedOrdered DEF Moves

\* Every step of the system is typed and makes one move of the pipeline.
LEMMA NextMoves ==
  ASSUME Inv, Next
  PROVE  TypeOK' /\ Moves(J, J')
BY ClientSteps, CheckpointSteps, CommitThreadSteps, KjournaldStep, PagerSteps,
   PageDropStep DEF Inv, Next

\* A thread with nothing to do is a thread.
LEMMA IdleThreadType ==
  ASSUME NEW l \in {"sleep", "idle", "run"}
  PROVE  IdleThread(l) \in ThreadType
<1>1. <<l>> \in Seq(Labels)
  BY DEF Labels
<1>2. <<>> \in Seq(Tids) /\ <<>> \in Seq(Blocks) /\ {} \in Content
  BY DEF Content
<1> QED BY <1>1, <1>2, SMTT(30) DEF IdleThread, ThreadType

\* The journal just mounted is well typed.
LEMMA InitTyped == Init => TypeOK
<1> SUFFICES ASSUME Init PROVE TypeOK
  OBVIOUS
<1>1. NoBuffer \in BufferType /\ NoTransaction \in TransactionType
  BY NoBufferType, NoTransactionType
<1>2. J \in JournalType
  <2>1. TotalLen \in Words /\ 1 \in 1 .. MaxTid + 1
    BY RingAssumption, JournalAssumption DEF TotalLen, Words
  <2>2. [x \in Tids |-> NoTransaction] \in [Tids -> TransactionType]
        /\ [x \in Tids |-> [b \in Blocks |-> NoBuffer]] \in [Tids -> [Blocks -> BufferType]]
    BY <1>1
  <2>3. [s \in Slots |-> {}] \in [Slots -> Content] /\ <<>> \in Seq(Tids)
    BY DEF Content
  <2>4. CleanJournal \in JournalType
    BY <2>1, <2>2, <2>3 DEF CleanJournal, JournalType
  <2> QED BY <2>4 DEF Init
<1>3. D \in DiskType
  <2>1. Blank \in RecordType
    <3>1. <<>> \in Seq(Blocks) /\ {} \in Content
      BY DEF Content
    <3> QED BY <3>1 DEF Blank, Record, RecordType
  <2>2. Cell(Blank) \in CellType(RecordType) /\ Cell({}) \in CellType(Content)
    BY <2>1 DEF Cell, CellType, Content
  <2>3. Cell([seq |-> 1, start |-> 0]) \in CellType([seq : 1 .. MaxTid + 1, start : Ring \cup {0}])
    BY JournalAssumption DEF Cell, CellType
  <2> QED BY <2>2, <2>3 DEF Init, DiskType
<1>4. M \in MemoryType
  BY JournalAssumption DEF Init, MemoryType, Content
<1>5. th \in ThreadMap
  BY IdleThreadType DEF Init, ThreadMap
<1> QED BY <1>2, <1>3, <1>4, <1>5 DEF Init, TypeOK, ThreadMap, Content

\* The journal just mounted is in order.
LEMMA InitOrdered == Init => Ordered(J)
<1> SUFFICES ASSUME Init PROVE Ordered(J)
  OBVIOUS
<1>1. /\ J.running = None /\ J.committing = None /\ J.committed = 0 /\ J.seq = 1
      /\ J.ckpt = <<>> /\ \A x \in Tids : J.txn[x].state = "none"
  <2>1. J = CleanJournal
    BY DEF Init
  <2> QED BY <2>1 DEF CleanJournal, NoTransaction
<1>2. Range(J.ckpt) = {} /\ Len(J.ckpt) = 0
  BY <1>1 DEF Range
<1> QED BY <1>1, <1>2 DEF Ordered, None, Tids

\* The invariant is inductive.
LEMMA InvInductive == Inv /\ [Next]_vars => Inv'
<1> SUFFICES ASSUME Inv, [Next]_vars PROVE Inv'
  OBVIOUS
<1>1. CASE Next
  BY <1>1, NextMoves, MovesOrdered DEF Inv, TypeOK
<1>2. CASE UNCHANGED vars
  BY <1>2 DEF vars, Inv, TypeOK, Ordered
<1> QED BY <1>1, <1>2

\* The invariant holds at mount.
LEMMA InitInv == Init => Inv
BY InitTyped, InitOrdered DEF Inv

\* Every variable keeps its type, for rings, programs, lifeboats and numbers
\* of threads, blocks and transactions of any size: j_head and j_tail stay
\* within the ring, j_free stays a uint32_t, slots stay within the lifeboat.
THEOREM TypeCorrect == Spec => []TypeOK
<1>1. Inv => TypeOK
  BY DEF Inv
<1> QED BY <1>1, InitInv, InvInductive, PTL DEF Spec

\* The state of a transaction is its place in struct journal, at most one
\* transaction commits, and ids grow from the head of the checkpoint list to
\* the running transaction. kjournald, the commits of clients, of the pager
\* and of forced checkpoints, aborts, and both ways of reclaiming never break
\* this.
THEOREM PipelineHolds == Spec => []Pipeline
<1>1. Inv => Pipeline
  BY DEF Inv, Ordered, Pipeline
<1> QED BY <1>1, InitInv, InvInductive, PTL DEF Spec

\* The elements of a list after an append.
LEMMA Appended ==
  ASSUME NEW S, NEW s \in Seq(S), NEW e \in S
  PROVE  Range(Append(s, e)) = Range(s) \cup {e}
<1> DEFINE a == Append(s, e)
<1>1. Len(s) \in Nat /\ Range(s) = {s[i] : i \in 1 .. Len(s)}
  BY DEF Range
<1>2. /\ Len(a) = Len(s) + 1 /\ a \in Seq(S)
      /\ \A i \in 1 .. Len(s) : a[i] = s[i]
      /\ a[Len(s) + 1] = e
  BY AppendProperties
<1> HIDE DEF a
<1>3. Range(a) = {a[i] : i \in 1 .. Len(a)}
  BY <1>2 DEF Range
<1>4. ASSUME NEW v \in Range(a) PROVE v \in Range(s) \cup {e}
  <2>1. PICK i \in 1 .. Len(a) : v = a[i]
    BY <1>3
  <2> QED BY <1>1, <1>2, <2>1
<1>5. ASSUME NEW v \in Range(s) PROVE v \in Range(a)
  <2>1. PICK i \in 1 .. Len(s) : v = s[i]
    BY <1>1
  <2>2. i \in 1 .. Len(a) /\ v = a[i]
    BY <1>1, <1>2, <2>1
  <2> QED BY <1>3, <2>2
<1>6. e \in Range(a)
  <2>1. Len(s) + 1 \in 1 .. Len(a)
    BY <1>1, <1>2
  <2> QED BY <1>2, <1>3, <2>1
<1> QED BY <1>4, <1>5, <1>6 DEF a

\* Dropping a prefix of a sorted list removes elements below all that stay.
LEMMA Dropped ==
  ASSUME NEW s \in Seq(Tids), NEW n \in 1 .. Len(s),
         \A i, k \in 1 .. Len(s) : i < k => s[i] < s[k]
  PROVE  LET r == SubSeq(s, n + 1, Len(s))
         IN  /\ Range(r) \subseteq Range(s)
             /\ \A x \in Range(s) \ Range(r), y \in Range(r) : x < y
<1> DEFINE r == SubSeq(s, n + 1, Len(s))
<1>1. Len(s) \in Nat /\ DOMAIN s = 1 .. Len(s)
  OBVIOUS
<1>2. DOMAIN r = 1 .. Len(s) - n /\ \A i \in 1 .. Len(s) - n : r[i] = s[n + i]
  BY <1>1
<1>3. Range(r) = {s[k] : k \in n + 1 .. Len(s)}
  <2>1. Range(r) = {s[n + i] : i \in 1 .. Len(s) - n}
    BY <1>2 DEF Range
  <2>2. \A k \in n + 1 .. Len(s) : k - n \in 1 .. Len(s) - n /\ n + (k - n) = k
    BY <1>1
  <2>3. \A i \in 1 .. Len(s) - n : n + i \in n + 1 .. Len(s)
    BY <1>1
  <2> HIDE DEF r
  <2>4. ASSUME NEW v \in Range(r) PROVE v \in {s[k] : k \in n + 1 .. Len(s)}
    BY <2>1, <2>3
  <2>5. ASSUME NEW v \in {s[k] : k \in n + 1 .. Len(s)} PROVE v \in Range(r)
    <3>1. PICK k \in n + 1 .. Len(s) : v = s[k]
      OBVIOUS
    <3>2. v = s[n + (k - n)]
      BY <2>2, <3>1
    <3> QED BY <2>1, <2>2, <3>2
  <2> QED BY <2>4, <2>5
<1>4. Range(s) = {s[k] : k \in 1 .. Len(s)}
  BY <1>1 DEF Range
<1> HIDE DEF r
<1>5. Range(r) \subseteq Range(s)
  BY <1>1, <1>3, <1>4
<1>6. ASSUME NEW x \in Range(s) \ Range(r), NEW y \in Range(r) PROVE x < y
  <2>1. PICK i \in 1 .. Len(s) : x = s[i]
    BY <1>4
  <2>2. PICK k \in n + 1 .. Len(s) : y = s[k]
    BY <1>3
  <2>3. i <= n
    BY <1>1, <1>3, <1>6, <2>1
  <2> QED BY <1>1, <2>1, <2>2, <2>3
<1> QED BY <1>5, <1>6 DEF r

\* Every move is a step of TransactionPipeline, or leaves its state alone.
LEMMA MovesRefine ==
  ASSUME J \in JournalType, J' \in JournalType, Ordered(J), Moves(J, J')
  PROVE  [P!Next]_(P!vars)
<1>1. CASE Kept(J, J') \/ Flushed(J, J')
  BY <1>1 DEF Kept, Flushed, P!vars
<1>2. CASE Opened(J, J')
  BY <1>2 DEF Opened, P!Next, P!Open, None
<1>3. CASE Locked(J, J')
  BY <1>3 DEF Locked, P!Next, P!Lock, None
<1>4. CASE Left(J, J')
  <2>1. J.committing \in Tids /\ J.ckpt \in Seq(Tids)
    BY <1>4, Fields DEF Left
  <2>2. CASE J'.ckpt = Append(J.ckpt, J.committing)
    <3>1. Range(J'.ckpt) = Range(J.ckpt) \cup {J.committing}
      BY <2>1, <2>2, Appended
    <3> QED BY <1>4, <3>1 DEF Left, P!Next, P!Finish, None
  <2>3. CASE J'.ckpt = J.ckpt
    BY <1>4, <2>3 DEF Left, P!Next, P!Abort, None
  <2> QED BY <1>4, <2>2, <2>3 DEF Left
<1>5. CASE Reclaimed(J, J')
  <2>1. PICK n \in 1 .. Len(J.ckpt) : J'.ckpt = SubSeq(J.ckpt, n + 1, Len(J.ckpt))
    BY <1>5 DEF Reclaimed
  <2>2. J.ckpt \in Seq(Tids)
    BY Fields
  <2>3. \A i, k \in 1 .. Len(J.ckpt) : i < k => J.ckpt[i] < J.ckpt[k]
    BY DEF Ordered
  <2>4. /\ Range(J'.ckpt) \subseteq Range(J.ckpt)
        /\ \A x \in Range(J.ckpt) \ Range(J'.ckpt), y \in Range(J'.ckpt) : x < y
    BY <2>1, <2>2, <2>3, Dropped
  <2> QED BY <1>5, <2>4 DEF Reclaimed, P!Next, P!Reclaim
<1> QED BY <1>1, <1>2, <1>3, <1>4, <1>5 DEF Moves

\* ext2fs/journal.c implements TransactionPipeline: transactions open, lock,
\* finish or abort one at a time, and the checkpoint list gives up its oldest
\* entries first.
THEOREM JournalImplementsPipeline == Spec => ImplementsPipeline
<1>1. Init => P!Init
  <2>1. Range(<<>>) = {}
    BY DEF Range
  <2>2. Init => J = CleanJournal
    BY DEF Init
  <2>3. /\ CleanJournal.running = None /\ CleanJournal.committing = None
        /\ CleanJournal.ckpt = <<>> /\ CleanJournal.committed = 0
        /\ CleanJournal.seq = 1
    BY DEF CleanJournal
  <2> QED BY <2>1, <2>2, <2>3 DEF P!Init, None
<1>2. Inv /\ [Next]_vars => [P!Next]_(P!vars)
  <2> SUFFICES ASSUME Inv, [Next]_vars PROVE [P!Next]_(P!vars)
    OBVIOUS
  <2>1. CASE Next
    BY <2>1, NextMoves, MovesRefine DEF Inv, TypeOK
  <2>2. CASE UNCHANGED vars
    BY <2>2 DEF vars, P!vars
  <2> QED BY <2>1, <2>2
<1> QED BY <1>1, <1>2, InitInv, InvInductive, PTL DEF Spec, ImplementsPipeline, P!Spec
=============================================================================
