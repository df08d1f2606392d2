------------------------ MODULE JournalClientProofs -------------------------
(***************************************************************************)
(* Every step of a client keeps the types and makes one move of the        *)
(* pipeline of transactions.  The lemmas named Set... say that new values  *)
(* of some locals of a thread, of their types, leave th well typed.        *)
(***************************************************************************)
EXTENDS JournalOperatorProofs

\* th with a new value of stack of one thread.
LEMMA SetStack ==
  ASSUME NEW f \in [Threads -> ThreadType], NEW t \in Threads,
         NEW stack \in Seq(Labels)
  PROVE  [f EXCEPT ![t].stack = stack]
         \in [Threads -> ThreadType]
<1>1. f[t] \in ThreadType
  OBVIOUS
<1>2. [f[t] EXCEPT !.stack = stack] \in ThreadType
  BY <1>1 DEF ThreadType
<1> QED BY <1>2

\* th with a new value of ip of one thread.
LEMMA SetIp ==
  ASSUME NEW f \in [Threads -> ThreadType], NEW t \in Threads,
         NEW ip \in Nat \ {0}
  PROVE  [f EXCEPT ![t].ip = ip]
         \in [Threads -> ThreadType]
<1>1. f[t] \in ThreadType
  OBVIOUS
<1>2. [f[t] EXCEPT !.ip = ip] \in ThreadType
  BY <1>1 DEF ThreadType
<1> QED BY <1>2

\* th with new values of stack and ip of one thread.
LEMMA SetStackIp ==
  ASSUME NEW f \in [Threads -> ThreadType], NEW t \in Threads,
         NEW stack \in Seq(Labels), NEW ip \in Nat \ {0}
  PROVE  [f EXCEPT ![t].stack = stack, ![t].ip = ip]
         \in [Threads -> ThreadType]
<1>1. f[t] \in ThreadType
  OBVIOUS
<1>2. [f[t] EXCEPT !.stack = stack, !.ip = ip] \in ThreadType
  BY <1>1 DEF ThreadType
<1> QED BY <1>2

\* th with new values of stack, ip and deferred of one thread.
LEMMA SetStackIpDeferred ==
  ASSUME NEW f \in [Threads -> ThreadType], NEW t \in Threads,
         NEW stack \in Seq(Labels), NEW ip \in Nat \ {0},
         NEW deferred \in Seq(Blocks)
  PROVE  [f EXCEPT ![t].stack = stack, ![t].ip = ip, ![t].deferred = deferred]
         \in [Threads -> ThreadType]
<1>1. f[t] \in ThreadType
  OBVIOUS
<1>2. [f[t] EXCEPT !.stack = stack, !.ip = ip, !.deferred = deferred] \in ThreadType
  BY <1>1 DEF ThreadType
<1> QED BY <1>2

\* th with new values of stack, ip, deferred and handles of one thread.
LEMMA SetStackIpDeferredHandles ==
  ASSUME NEW f \in [Threads -> ThreadType], NEW t \in Threads,
         NEW stack \in Seq(Labels), NEW ip \in Nat \ {0},
         NEW deferred \in Seq(Blocks), NEW handles \in Seq(Tids)
  PROVE  [f EXCEPT ![t].stack = stack, ![t].ip = ip, ![t].deferred = deferred,
                  ![t].handles = handles]
         \in [Threads -> ThreadType]
<1>1. f[t] \in ThreadType
  OBVIOUS
<1>2. [f[t] EXCEPT !.stack = stack, !.ip = ip, !.deferred = deferred,
                  !.handles = handles] \in ThreadType
  BY <1>1 DEF ThreadType
<1> QED BY <1>2

\* th with new values of stack, ip, handles and target of one thread.
LEMMA SetStackIpHandlesTarget ==
  ASSUME NEW f \in [Threads -> ThreadType], NEW t \in Threads,
         NEW stack \in Seq(Labels), NEW ip \in Nat \ {0},
         NEW handles \in Seq(Tids), NEW target \in Tids \cup {None}
  PROVE  [f EXCEPT ![t].stack = stack, ![t].ip = ip, ![t].handles = handles,
                  ![t].target = target]
         \in [Threads -> ThreadType]
<1>1. f[t] \in ThreadType
  OBVIOUS
<1>2. [f[t] EXCEPT !.stack = stack, !.ip = ip, !.handles = handles,
                  !.target = target] \in ThreadType
  BY <1>1 DEF ThreadType
<1> QED BY <1>2

\* th with new values of stack, deferred and drain of one thread.
LEMMA SetStackDeferredDrain ==
  ASSUME NEW f \in [Threads -> ThreadType], NEW t \in Threads,
         NEW stack \in Seq(Labels), NEW deferred \in Seq(Blocks),
         NEW drain \in Tids \cup {None}
  PROVE  [f EXCEPT ![t].stack = stack, ![t].deferred = deferred, ![t].drain = drain]
         \in [Threads -> ThreadType]
<1>1. f[t] \in ThreadType
  OBVIOUS
<1>2. [f[t] EXCEPT !.stack = stack, !.deferred = deferred,
                  !.drain = drain] \in ThreadType
  BY <1>1 DEF ThreadType
<1> QED BY <1>2

\* th with new values of stack and drain of one thread.
LEMMA SetStackDrain ==
  ASSUME NEW f \in [Threads -> ThreadType], NEW t \in Threads,
         NEW stack \in Seq(Labels), NEW drain \in Tids \cup {None}
  PROVE  [f EXCEPT ![t].stack = stack, ![t].drain = drain]
         \in [Threads -> ThreadType]
<1>1. f[t] \in ThreadType
  OBVIOUS
<1>2. [f[t] EXCEPT !.stack = stack, !.drain = drain] \in ThreadType
  BY <1>1 DEF ThreadType
<1> QED BY <1>2

\* th with new values of stack, deferred and todo of one thread.
LEMMA SetStackDeferredTodo ==
  ASSUME NEW f \in [Threads -> ThreadType], NEW t \in Threads,
         NEW stack \in Seq(Labels), NEW deferred \in Seq(Blocks),
         NEW todo \in Seq(Blocks)
  PROVE  [f EXCEPT ![t].stack = stack, ![t].deferred = deferred, ![t].todo = todo]
         \in [Threads -> ThreadType]
<1>1. f[t] \in ThreadType
  OBVIOUS
<1>2. [f[t] EXCEPT !.stack = stack, !.deferred = deferred,
                  !.todo = todo] \in ThreadType
  BY <1>1 DEF ThreadType
<1> QED BY <1>2

\* th with new values of todo and deferred of one thread.
LEMMA SetTodoDeferred ==
  ASSUME NEW f \in [Threads -> ThreadType], NEW t \in Threads,
         NEW todo \in Seq(Blocks), NEW deferred \in Seq(Blocks)
  PROVE  [f EXCEPT ![t].todo = todo, ![t].deferred = deferred]
         \in [Threads -> ThreadType]
<1>1. f[t] \in ThreadType
  OBVIOUS
<1>2. [f[t] EXCEPT !.todo = todo, !.deferred = deferred] \in ThreadType
  BY <1>1 DEF ThreadType
<1> QED BY <1>2

\* th with new values of stack and need of one thread.
LEMMA SetStackNeed ==
  ASSUME NEW f \in [Threads -> ThreadType], NEW t \in Threads,
         NEW stack \in Seq(Labels), NEW need \in SUBSET (Blocks \cup {None})
  PROVE  [f EXCEPT ![t].stack = stack, ![t].need = need]
         \in [Threads -> ThreadType]
<1>1. f[t] \in ThreadType
  OBVIOUS
<1>2. [f[t] EXCEPT !.stack = stack, !.need = need] \in ThreadType
  BY <1>1 DEF ThreadType
<1> QED BY <1>2

\* th with new values of todo, batch and stack of one thread.
LEMMA SetTodoBatchStack ==
  ASSUME NEW f \in [Threads -> ThreadType], NEW t \in Threads,
         NEW todo \in Seq(Blocks), NEW batch \in Int, NEW stack \in Seq(Labels)
  PROVE  [f EXCEPT ![t].todo = todo, ![t].batch = batch, ![t].stack = stack]
         \in [Threads -> ThreadType]
<1>1. f[t] \in ThreadType
  OBVIOUS
<1>2. [f[t] EXCEPT !.todo = todo, !.batch = batch, !.stack = stack] \in ThreadType
  BY <1>1 DEF ThreadType
<1> QED BY <1>2

\* th with new values of batch, todo and stack of one thread.
LEMMA SetBatchTodoStack ==
  ASSUME NEW f \in [Threads -> ThreadType], NEW t \in Threads,
         NEW batch \in Int, NEW todo \in Seq(Blocks), NEW stack \in Seq(Labels)
  PROVE  [f EXCEPT ![t].batch = batch, ![t].todo = todo, ![t].stack = stack]
         \in [Threads -> ThreadType]
<1>1. f[t] \in ThreadType
  OBVIOUS
<1>2. [f[t] EXCEPT !.batch = batch, !.todo = todo, !.stack = stack] \in ThreadType
  BY <1>1 DEF ThreadType
<1> QED BY <1>2

\* th with new values of todo and stack of one thread.
LEMMA SetTodoStack ==
  ASSUME NEW f \in [Threads -> ThreadType], NEW t \in Threads,
         NEW todo \in Seq(Blocks), NEW stack \in Seq(Labels)
  PROVE  [f EXCEPT ![t].todo = todo, ![t].stack = stack]
         \in [Threads -> ThreadType]
<1>1. f[t] \in ThreadType
  OBVIOUS
<1>2. [f[t] EXCEPT !.todo = todo, !.stack = stack] \in ThreadType
  BY <1>1 DEF ThreadType
<1> QED BY <1>2

\* th with a new value of todo of one thread.
LEMMA SetTodo ==
  ASSUME NEW f \in [Threads -> ThreadType], NEW t \in Threads,
         NEW todo \in Seq(Blocks)
  PROVE  [f EXCEPT ![t].todo = todo]
         \in [Threads -> ThreadType]
<1>1. f[t] \in ThreadType
  OBVIOUS
<1>2. [f[t] EXCEPT !.todo = todo] \in ThreadType
  BY <1>1 DEF ThreadType
<1> QED BY <1>2

\* th with new values of slot and stack of one thread.
LEMMA SetSlotStack ==
  ASSUME NEW f \in [Threads -> ThreadType], NEW t \in Threads,
         NEW slot \in Slots \cup {NoSlot}, NEW stack \in Seq(Labels)
  PROVE  [f EXCEPT ![t].slot = slot, ![t].stack = stack]
         \in [Threads -> ThreadType]
<1>1. f[t] \in ThreadType
  OBVIOUS
<1>2. [f[t] EXCEPT !.slot = slot, !.stack = stack] \in ThreadType
  BY <1>1 DEF ThreadType
<1> QED BY <1>2

\* th with new values of stack, todo and slot of one thread.
LEMMA SetStackTodoSlot ==
  ASSUME NEW f \in [Threads -> ThreadType], NEW t \in Threads,
         NEW stack \in Seq(Labels), NEW todo \in Seq(Blocks),
         NEW slot \in Slots \cup {NoSlot}
  PROVE  [f EXCEPT ![t].stack = stack, ![t].todo = todo, ![t].slot = slot]
         \in [Threads -> ThreadType]
<1>1. f[t] \in ThreadType
  OBVIOUS
<1>2. [f[t] EXCEPT !.stack = stack, !.todo = todo, !.slot = slot] \in ThreadType
  BY <1>1 DEF ThreadType
<1> QED BY <1>2

\* th with new values of freed and stack of one thread.
LEMMA SetFreedStack ==
  ASSUME NEW f \in [Threads -> ThreadType], NEW t \in Threads,
         NEW freed \in SUBSET Blocks, NEW stack \in Seq(Labels)
  PROVE  [f EXCEPT ![t].freed = freed, ![t].stack = stack]
         \in [Threads -> ThreadType]
<1>1. f[t] \in ThreadType
  OBVIOUS
<1>2. [f[t] EXCEPT !.freed = freed, !.stack = stack] \in ThreadType
  BY <1>1 DEF ThreadType
<1> QED BY <1>2

\* th with new values of stack, blk, data and serves of one thread.
LEMMA SetStackBlkDataServes ==
  ASSUME NEW f \in [Threads -> ThreadType], NEW t \in Threads,
         NEW stack \in Seq(Labels), NEW blk \in Blocks \cup {None},
         NEW data \in Content, NEW serves \in SUBSET Threads
  PROVE  [f EXCEPT ![t].stack = stack, ![t].blk = blk, ![t].data = data,
                  ![t].serves = serves]
         \in [Threads -> ThreadType]
<1>1. f[t] \in ThreadType
  OBVIOUS
<1>2. [f[t] EXCEPT !.stack = stack, !.blk = blk, !.data = data,
                  !.serves = serves] \in ThreadType
  BY <1>1 DEF ThreadType
<1> QED BY <1>2

\* th with new values of stack, blk and data of one thread.
LEMMA SetStackBlkData ==
  ASSUME NEW f \in [Threads -> ThreadType], NEW t \in Threads,
         NEW stack \in Seq(Labels), NEW blk \in Blocks \cup {None},
         NEW data \in Content
  PROVE  [f EXCEPT ![t].stack = stack, ![t].blk = blk, ![t].data = data]
         \in [Threads -> ThreadType]
<1>1. f[t] \in ThreadType
  OBVIOUS
<1>2. [f[t] EXCEPT !.stack = stack, !.blk = blk, !.data = data] \in ThreadType
  BY <1>1 DEF ThreadType
<1> QED BY <1>2

\* th with a new value of serves of one thread.
LEMMA SetServes ==
  ASSUME NEW f \in [Threads -> ThreadType], NEW t \in Threads,
         NEW serves \in SUBSET Threads
  PROVE  [f EXCEPT ![t].serves = serves]
         \in [Threads -> ThreadType]
<1>1. f[t] \in ThreadType
  OBVIOUS
<1>2. [f[t] EXCEPT !.serves = serves] \in ThreadType
  BY <1>1 DEF ThreadType
<1> QED BY <1>2

-----------------------------------------------------------------------------

\* The ways a step of the system may move the transactions of journal j.
Moves(j, k) == Kept(j, k) \/ Flushed(j, k) \/ Opened(j, k) \/ Locked(j, k)
               \/ Left(j, k) \/ Reclaimed(j, k)

\* The inductive invariant: Ordered alone is not inductive, since where a
\* transaction goes depends on the types of the slots and of the list.
Inv == TypeOK /\ Ordered(J)

\* The locals of all threads.
ThreadMap == [Threads -> ThreadType]

\* A step that leaves the journal alone moves no transaction.
LEMMA KeptSelf == ASSUME NEW j PROVE Kept(j, j)
BY DEF Kept

\* The types of the locals of a thread.
LEMMA ThreadFields ==
  ASSUME TypeOK, NEW t \in Threads
  PROVE  /\ th \in ThreadMap /\ th[t] \in ThreadType
         /\ th[t].stack \in Seq(Labels) /\ th[t].ip \in Nat \ {0}
         /\ th[t].handles \in Seq(Tids) /\ th[t].target \in Tids \cup {None}
         /\ th[t].deferred \in Seq(Blocks) /\ th[t].drain \in Tids \cup {None}
         /\ th[t].todo \in Seq(Blocks) /\ th[t].batch \in Int
         /\ th[t].slot \in Slots \cup {NoSlot} /\ th[t].freed \in SUBSET Blocks
         /\ th[t].need \in SUBSET (Blocks \cup {None}) /\ th[t].blk \in Blocks \cup {None}
         /\ th[t].data \in Content /\ th[t].serves \in SUBSET Threads
BY DEF TypeOK, ThreadType, ThreadMap

\* The call a client makes next is one of its program.
LEMMA CallType ==
  ASSUME TypeOK, NEW t, Pending(t)
  PROVE  t \in Clients /\ t \in Threads /\ Call(t) \in Calls /\ Call(t).blk \in Blocks
<1>1. t \in Clients /\ t \in Threads /\ th[t].ip <= Len(Program[t])
  BY DEF Pending, Threads
<1>2. Program[t] \in Seq(Calls)
  BY <1>1, JournalAssumption
<1>3. th[t].ip \in 1 .. Len(Program[t])
  BY <1>1, <1>2, ThreadFields
<1>4. Call(t) \in Calls
  BY <1>2, <1>3 DEF Call
<1> QED BY <1>1, <1>4 DEF Calls

\* The types of the variables, and the threads among Threads.
LEMMA AllTyped ==
  ASSUME TypeOK
  PROVE  J \in JournalType /\ D \in DiskType /\ M \in MemoryType /\ th \in ThreadMap
         /\ M.cache \in [Blocks -> Content]
         /\ Pager \in Threads /\ Kjournald \in Threads /\ Clients \subseteq Threads
BY DEF TypeOK, MemoryType, Threads, ThreadMap

\* A step of the locals of threads alone.
LEMMA OnlyThreads ==
  ASSUME TypeOK, UNCHANGED <<J, D, M, faulting, durable>>, th' \in ThreadMap
  PROVE  TypeOK' /\ Moves(J, J')
BY KeptSelf DEF TypeOK, Moves, ThreadMap

\* A step of the journal and of the locals of threads.
LEMMA JournalAndThreads ==
  ASSUME TypeOK, UNCHANGED <<D, M, faulting, durable>>, th' \in ThreadMap,
         J' \in JournalType, Moves(J, J')
  PROVE  TypeOK' /\ Moves(J, J')
BY DEF TypeOK, ThreadMap

\* A client goes on to its next call.
LEMMA NextCall ==
  ASSUME TypeOK, NEW t \in Threads
  PROVE  /\ th[t].ip + 1 \in Nat \ {0}
         /\ [th EXCEPT ![t].ip = @ + 1] \in ThreadMap
<1>1. th[t].ip + 1 \in Nat \ {0}
  BY ThreadFields
<1> QED BY <1>1, ThreadFields, SetIp DEF ThreadMap

\* A start that forces a checkpoint moves no transaction.
LEMMA StartForcesCheckpointStep ==
  ASSUME TypeOK, NEW t \in Clients, StartForcesCheckpoint(t)
  PROVE  TypeOK' /\ Moves(J, J')
<1>1. t \in Threads
  BY DEF Threads
<1>2. <<"forced">> \in Seq(Labels)
  BY DEF Labels
<1>3. ForceCheckpoint \o <<"forced">> \o th[t].stack \in Seq(Labels)
  BY <1>1, <1>2, ThreadFields, StackOps, StepsType
<1>4. th' \in ThreadMap
  BY <1>1, <1>3, ThreadFields, SetStack DEF StartForcesCheckpoint, ThreadMap
<1> QED BY <1>4, OnlyThreads DEF StartForcesCheckpoint

\* diskfs_journal_start_transaction joins or opens the running transaction.
LEMMA StartTransactionStep ==
  ASSUME TypeOK, NEW t \in Clients, StartTransaction(t)
  PROVE  TypeOK' /\ Moves(J, J')
<1>1. t \in Threads /\ (J.running = None => J.seq \in Tids)
  BY DEF Threads, StartTransaction, Starting
<1>2. J' \in JournalType /\ J'.running \in Tids /\ Moves(J, J')
  BY <1>1, AllTyped, ThreadFields, JoinSteps DEF StartTransaction, Moves
<1>3. <<J'.running>> \o th[t].handles \in Seq(Tids)
  <2>1. <<J'.running>> \in Seq(Tids)
    BY <1>2
  <2> QED BY <1>1, <2>1, ThreadFields, ConcatProperties
<1>4. AfterForced(th[t].stack) \in Seq(Labels)
  BY <1>1, ThreadFields, StackOps DEF StartTransaction, Starting, At
<1>5. <<>> \in Seq(Blocks)
  OBVIOUS
<1>6. th' \in ThreadMap
  <2> DEFINE stack == AfterForced(th[t].stack)
             ip == th[t].ip + 1
             handles == <<J'.running>> \o th[t].handles
  <2>1. th' = [th EXCEPT ![t].stack = stack, ![t].ip = ip, ![t].deferred = <<>>,
                         ![t].handles = handles]
    BY DEF StartTransaction
  <2>2. ip \in Nat \ {0} /\ th \in [Threads -> ThreadType]
    BY <1>1, NextCall, AllTyped DEF ThreadMap
  <2> HIDE DEF stack, ip, handles
  <2> QED BY <1>1, <1>3, <1>4, <1>5, <2>1, <2>2, SetStackIpDeferredHandles
          DEF ThreadMap, stack, handles
<1> QED BY <1>2, <1>6, JournalAndThreads DEF StartTransaction

\* A write to a mapped block leaves the journal alone.
LEMMA WriteBlockStep ==
  ASSUME TypeOK, NEW t \in Clients, WriteBlock(t)
  PROVE  TypeOK' /\ Moves(J, J')
<1>1. t \in Threads /\ Call(t).blk \in Blocks
  BY CallType DEF WriteBlock, Calling
<1>2. th' \in ThreadMap
  BY <1>1, NextCall DEF WriteBlock
<1>3. M' \in MemoryType
  <2> DEFINE b == Call(t).blk
             u == <<t, th[t].ip>>
             v == M.cache[b] \cup {u}
             S == M.dirty \cup {b}
  <2>1. v \in Content
    <3>1. u \in Updates
      BY <1>1, ThreadFields DEF Updates
    <3> HIDE DEF u
    <3> QED BY <1>1, <3>1, AllTyped DEF Content
  <2>2. S \in SUBSET Blocks
    BY <1>1, AllTyped DEF MemoryType
  <2>3. M' = [M EXCEPT !.cache[b] = v, !.dirty = S]
    BY DEF WriteBlock
  <2> HIDE DEF b, u, v, S
  <2> QED BY <2>1, <2>2, <2>3, AllTyped DEF MemoryType
<1> QED BY <1>2, <1>3, KeptSelf DEF WriteBlock, TypeOK, Moves, ThreadMap

\* A step after one that moves nothing.
LEMMA KeptThen ==
  ASSUME NEW i, NEW j, NEW k, Kept(i, j)
  PROVE  /\ Locked(j, k) => Locked(i, k)
         /\ Reclaimed(j, k) => Reclaimed(i, k)
         /\ Kept(j, k) => Kept(i, k)
BY DEF Kept, Locked, Reclaimed

\* A transaction opened stays so over a step that moves nothing.
LEMMA OpenedThenKept ==
  ASSUME NEW i, NEW j, NEW k, Opened(i, j), Kept(j, k)
  PROVE  Opened(i, k)
BY DEF Kept, Opened

\* journal_notify_block_changed makes one move at most; its stop cannot lock
\* a transaction that it has just opened, for that one is not synchronous.
LEMMA NotifyBlockChangedStep ==
  ASSUME TypeOK, NEW t \in Clients, NotifyBlockChanged(t)
  PROVE  TypeOK' /\ Moves(J, J')
<1> DEFINE a == Join(J, th[t].deferred)
           x == a.running
           d == DirtyBlocks(a, x, {Call(t).blk})
           s == StopHandle(d, d.running, M.cache)
           r == AutoCommit(s, d.running)
<1>1. t \in Threads /\ (J.running = None => J.seq \in Tids) /\ Call(t).blk \in Blocks
  BY CallType DEF Threads, NotifyBlockChanged, Starting
<1>2. a \in JournalType /\ x \in Tids /\ (Kept(J, a) \/ (Opened(J, a) /\ ~a.txn[x].sync))
  BY <1>1, AllTyped, ThreadFields, JoinSteps
<1>3. J' = r.j /\ th' = [th EXCEPT ![t].stack = r.k \o <<"pokel_add">> \o AfterForced(@),
                                  ![t].ip = @ + 1, ![t].deferred = <<>>]
  BY DEF NotifyBlockChanged
<1> HIDE DEF a
<1>4. d \in JournalType /\ Kept(a, d) /\ d.running = x /\ d.txn[x].sync = a.txn[x].sync
  BY <1>1, <1>2, DirtyBlocksKeeps DEF Kept
<1> HIDE DEF x, d
<1>5. s \in JournalType /\ Kept(d, s) /\ s.txn[x].sync = d.txn[x].sync
  BY <1>2, <1>4, AllTyped, StopHandleKeeps
<1> HIDE DEF s
<1>6. r.j \in JournalType /\ r.k \in Seq(Labels) /\ (r.j = s \/ Locked(s, r.j))
      /\ (~s.txn[x].sync => r.j = s)
  BY <1>4, <1>5, AutoCommitSteps
<1> HIDE DEF r
<1>7. Kept(a, s)
  BY <1>4, <1>5, KeptTransitive
<1>8. Moves(J, J')
  <2>1. CASE Kept(J, a)
    <3>1. Kept(J, s)
      BY <1>7, <2>1, KeptTransitive
    <3> QED BY <1>3, <1>6, <3>1, KeptThen DEF Moves
  <2>2. CASE Opened(J, a) /\ ~a.txn[x].sync
    <3>1. Opened(J, s) /\ r.j = s
      BY <1>4, <1>5, <1>6, <1>7, <2>2, OpenedThenKept
    <3> QED BY <1>3, <3>1 DEF Moves
  <2> QED BY <1>2, <2>1, <2>2 DEF x
<1>9. r.k \o <<"pokel_add">> \o AfterForced(th[t].stack) \in Seq(Labels)
  <2>1. AfterForced(th[t].stack) \in Seq(Labels)
    BY <1>1, ThreadFields, StackOps DEF NotifyBlockChanged, Starting, At
  <2>2. <<"pokel_add">> \in Seq(Labels)
    BY DEF Labels
  <2>3. r.k \o <<"pokel_add">> \in Seq(Labels)
    BY <1>6, <2>2, ConcatProperties
  <2> QED BY <2>1, <2>3, ConcatProperties
<1>10. <<>> \in Seq(Blocks)
  OBVIOUS
<1>11. th' \in ThreadMap
  <2> DEFINE stack == r.k \o <<"pokel_add">> \o AfterForced(th[t].stack)
             ip == th[t].ip + 1
  <2>1. th' = [th EXCEPT ![t].stack = stack, ![t].ip = ip, ![t].deferred = <<>>]
    BY <1>3
  <2>2. ip \in Nat \ {0} /\ th \in [Threads -> ThreadType]
    BY <1>1, NextCall, AllTyped DEF ThreadMap
  <2> HIDE DEF stack, ip
  <2> QED BY <1>1, <1>9, <1>10, <2>1, <2>2, SetStackIpDeferred DEF ThreadMap, stack
<1> QED BY <1>3, <1>6, <1>8, <1>11, JournalAndThreads DEF NotifyBlockChanged

\* pokel_add leaves the journal alone.
LEMMA PokelAddStep ==
  ASSUME TypeOK, NEW t \in Clients, PokelAdd(t)
  PROVE  TypeOK' /\ Moves(J, J')
<1> DEFINE b == Program[t][th[t].ip - 1].blk
           S == M.pokel \cup {b}
           stack == Tail(th[t].stack)
<1>1. t \in Threads /\ th[t].stack # <<>>
  BY DEF Threads, PokelAdd, At
<1>2. b \in Blocks
  <2>1. Program[t] \in Seq(Calls) /\ th[t].ip - 1 \in DOMAIN Program[t]
    BY JournalAssumption DEF PokelAdd
  <2>2. Program[t][th[t].ip - 1] \in Calls
    BY <2>1
  <2> QED BY <2>2 DEF Calls
<1>3. M' = [M EXCEPT !.pokel = S] /\ th' = [th EXCEPT ![t].stack = stack]
  BY DEF PokelAdd, Return
<1> HIDE DEF b
<1>4. M' \in MemoryType
  BY <1>2, <1>3, AllTyped DEF MemoryType
<1>5. stack \in Seq(Labels)
  BY <1>1, ThreadFields, HeadTailProperties
<1> HIDE DEF stack
<1>6. th' \in ThreadMap
  BY <1>1, <1>3, <1>5, ThreadFields, SetStack DEF ThreadMap
<1> QED BY <1>4, <1>6, KeptSelf DEF PokelAdd, TypeOK, Moves, ThreadMap

\* The innermost handle of a thread is a transaction id.
LEMMA HandleType ==
  ASSUME TypeOK, NEW t \in Threads, th[t].handles # <<>>
  PROVE  Head(th[t].handles) \in Tids /\ Tail(th[t].handles) \in Seq(Tids)
BY ThreadFields, HeadTailProperties

\* journal_dirty_block moves no transaction.
LEMMA DirtyBlockStep ==
  ASSUME TypeOK, NEW t \in Clients, DirtyBlock(t)
  PROVE  TypeOK' /\ Moves(J, J')
<1>1. t \in Threads /\ Call(t).blk \in Blocks /\ Head(th[t].handles) \in Tids
  BY CallType, HandleType DEF DirtyBlock, Holding, Calling
<1>2. J' \in JournalType /\ Moves(J, J')
  BY <1>1, AllTyped, DirtyBlocksKeeps DEF DirtyBlock, Moves
<1>3. th' \in ThreadMap
  BY <1>1, NextCall DEF DirtyBlock
<1> QED BY <1>2, <1>3, JournalAndThreads DEF DirtyBlock

\* Replacing a transaction by one in the same state moves nothing.
LEMMA TransactionSet ==
  ASSUME NEW j \in JournalType, NEW x \in Tids, NEW r \in TransactionType,
         r.state = j.txn[x].state
  PROVE  /\ [j EXCEPT !.txn[x] = r] \in JournalType
         /\ Kept(j, [j EXCEPT !.txn[x] = r])
<1> DEFINE txn == [j.txn EXCEPT ![x] = r]
           k == [j EXCEPT !.txn[x] = r]
<1>1. txn \in [Tids -> TransactionType] /\ \A y \in Tids : txn[y].state = j.txn[y].state
  BY Fields
<1>2. k = [j EXCEPT !.buf = j.buf, !.mask = j.mask, !.txn = txn]
  BY DEF JournalType
<1> HIDE DEF k, txn
<1>3. k \in JournalType /\ Kept(j, k)
  BY <1>1, <1>2, Fields, KeptByUpdate
<1> QED BY <1>3 DEF k

\* journal_record_freed_blocks moves no transaction.
LEMMA RecordFreedBlocksStep ==
  ASSUME TypeOK, NEW t \in Clients, RecordFreedBlocks(t)
  PROVE  TypeOK' /\ Moves(J, J')
<1>1. t \in Threads /\ Call(t).blk \in Blocks
  BY CallType DEF RecordFreedBlocks, Calling
<1>2. J' \in JournalType /\ Moves(J, J')
  <2>1. CASE J.running = None
    BY <2>1, AllTyped, KeptSelf DEF RecordFreedBlocks, Moves
  <2>2. CASE J.running # None
    <3> DEFINE x == J.running
               r == [J.txn[x] EXCEPT !.freed = @ \cup {Call(t).blk}]
    <3>1. x \in Tids /\ J.txn[x] \in TransactionType
      BY <2>2, AllTyped, Fields
    <3>2. r \in TransactionType /\ r.state = J.txn[x].state
      BY <1>1, <3>1 DEF TransactionType
    <3>3. J' = [J EXCEPT !.txn[x] = r]
      BY <2>2 DEF RecordFreedBlocks
    <3> HIDE DEF r, x
    <3> QED BY <3>1, <3>2, <3>3, AllTyped, TransactionSet DEF Moves
  <2> QED BY <2>1, <2>2
<1>3. th' \in ThreadMap
  BY <1>1, NextCall DEF RecordFreedBlocks
<1> QED BY <1>2, <1>3, JournalAndThreads DEF RecordFreedBlocks

\* diskfs_journal_set_sync moves no transaction.
LEMMA SetSyncStep ==
  ASSUME TypeOK, NEW t \in Clients, SetSync(t)
  PROVE  TypeOK' /\ Moves(J, J')
<1> DEFINE x == Head(th[t].handles)
           r == [J.txn[x] EXCEPT !.sync = TRUE]
<1>1. t \in Threads /\ x \in Tids
  BY CallType, HandleType DEF SetSync, Holding, Calling
<1>2. J.txn[x] \in TransactionType
  BY <1>1, AllTyped, Fields
<1>3. r \in TransactionType /\ r.state = J.txn[x].state
  BY <1>2 DEF TransactionType
<1>4. J' = [J EXCEPT !.txn[x] = r]
  BY DEF SetSync
<1>5. th' \in ThreadMap
  BY <1>1, NextCall DEF SetSync
<1> HIDE DEF x, r
<1>6. J' \in JournalType /\ Moves(J, J')
  BY <1>1, <1>3, <1>4, AllTyped, TransactionSet DEF Moves
<1> QED BY <1>5, <1>6, JournalAndThreads DEF SetSync

\* A client that drops its handle goes on with the steps of the commit.
LEMMA LeaveStep ==
  ASSUME TypeOK, NEW t \in Threads, NEW r, NEW x \in Tids, Leave(t, r, x),
         th[t].handles # <<>>, r.j \in JournalType, r.k \in Seq(Labels), Moves(J, r.j)
  PROVE  TypeOK' /\ Moves(J, J')
<1> DEFINE stack == r.k \o <<"drain">> \o th[t].stack
           ip == th[t].ip + 1
           handles == Tail(th[t].handles)
<1>1. stack \in Seq(Labels)
  <2>1. <<"drain">> \in Seq(Labels)
    BY DEF Labels
  <2> QED BY <2>1, ThreadFields, ConcatProperties
<1>2. ip \in Nat \ {0} /\ handles \in Seq(Tids) /\ th \in [Threads -> ThreadType]
  BY NextCall, HandleType, AllTyped DEF ThreadMap
<1>3. th' = [th EXCEPT ![t].stack = stack, ![t].ip = ip, ![t].handles = handles,
                       ![t].target = x]
  BY DEF Leave
<1> HIDE DEF stack, ip, handles
<1>4. th' \in ThreadMap
  BY <1>1, <1>2, <1>3, SetStackIpHandlesTarget DEF ThreadMap
<1> QED BY <1>4, JournalAndThreads DEF Leave

\* diskfs_journal_stop_transaction locks the running transaction or moves
\* nothing.
LEMMA StopTransactionStep ==
  ASSUME TypeOK, NEW t \in Clients, StopTransaction(t)
  PROVE  TypeOK' /\ Moves(J, J')
<1> DEFINE x == Head(th[t].handles)
           s == StopHandle(J, x, M.cache)
           r == AutoCommit(s, x)
<1>1. t \in Threads /\ x \in Tids /\ th[t].handles # <<>>
  BY CallType, HandleType DEF StopTransaction, Holding, Calling
<1>2. Leave(t, r, x)
  BY DEF StopTransaction
<1> HIDE DEF x
<1>3. s \in JournalType /\ Kept(J, s)
  BY <1>1, AllTyped, StopHandleKeeps
<1> HIDE DEF s
<1>4. r.j \in JournalType /\ r.k \in Seq(Labels) /\ (r.j = s \/ Locked(s, r.j))
  BY <1>3, AutoCommitSteps
<1>5. Moves(J, r.j)
  BY <1>3, <1>4, KeptThen DEF Moves
<1> HIDE DEF r
<1> QED BY <1>1, <1>2, <1>4, <1>5, LeaveStep

\* diskfs_journal_commit_transaction locks the running transaction or moves
\* nothing.
LEMMA CommitTransactionStep ==
  ASSUME TypeOK, NEW t \in Clients, CommitTransaction(t)
  PROVE  TypeOK' /\ Moves(J, J')
<1> DEFINE x == Head(th[t].handles)
           s == StopHandle(J, x, M.cache)
           r == IF s.running = x THEN BeginCommit(s) ELSE Then(s, <<"wait">>)
<1>1. t \in Threads /\ x \in Tids /\ th[t].handles # <<>>
  BY CallType, HandleType DEF CommitTransaction, Holding, Calling
<1>2. Leave(t, r, x)
  BY DEF CommitTransaction
<1> HIDE DEF x
<1>3. s \in JournalType /\ Kept(J, s)
  BY <1>1, AllTyped, StopHandleKeeps
<1> HIDE DEF s
<1>4. r.j \in JournalType /\ r.k \in Seq(Labels) /\ (r.j = s \/ Locked(s, r.j))
  <2>1. CASE s.running = x
    BY <1>3, <2>1, BeginCommitSteps
  <2>2. CASE s.running # x
    <3>1. r.j = s /\ r.k = <<"wait">>
      BY <2>2 DEF Then
    <3> QED BY <1>3, <3>1, LabelSeqs
  <2> QED BY <2>1, <2>2
<1>5. Moves(J, r.j)
  BY <1>3, <1>4, KeptThen DEF Moves
<1> HIDE DEF r
<1> QED BY <1>1, <1>2, <1>4, <1>5, LeaveStep

\* Taking and releasing a node lock leaves the journal alone.
LEMMA LockStep ==
  ASSUME TypeOK, NEW t \in Clients, LockNode(t) \/ UnlockNode(t)
  PROVE  TypeOK' /\ Moves(J, J')
<1>1. t \in Threads /\ Call(t).blk \in Blocks
  BY CallType DEF LockNode, UnlockNode, Calling
<1>2. th' \in ThreadMap
  BY <1>1, NextCall DEF LockNode, UnlockNode
<1>3. M' \in MemoryType
  <2>1. M' = [M EXCEPT !.lock[Call(t).blk] = t] \/ M' = [M EXCEPT !.lock[Call(t).blk] = None]
    BY DEF LockNode, UnlockNode
  <2> QED BY <1>1, <2>1, AllTyped DEF MemoryType
<1> QED BY <1>2, <1>3, KeptSelf DEF LockNode, UnlockNode, TypeOK, Moves, ThreadMap

\* A barrier of sync or unmount locks the running transaction or moves
\* nothing.
LEMMA CommitBarrierStep ==
  ASSUME TypeOK, NEW t \in Clients, CommitBarrier(t)
  PROVE  TypeOK' /\ Moves(J, J')
<1> DEFINE r == CommitRunning(J)
           stack == r.k \o th[t].stack
           ip == th[t].ip + 1
<1>1. t \in Threads
  BY DEF Threads
<1>2. r.j \in JournalType /\ r.k \in Seq(Labels) /\ (r.j = J \/ Locked(J, r.j))
  BY AllTyped, CommitRunningSteps
<1>3. J' = r.j /\ th' = [th EXCEPT ![t].stack = stack, ![t].ip = ip]
  BY DEF CommitBarrier
<1> HIDE DEF r
<1>4. stack \in Seq(Labels) /\ ip \in Nat \ {0} /\ th \in [Threads -> ThreadType]
  BY <1>1, <1>2, ThreadFields, StackOps, NextCall, AllTyped DEF ThreadMap
<1> HIDE DEF stack, ip
<1>5. th' \in ThreadMap
  BY <1>1, <1>3, <1>4, SetStackIp DEF ThreadMap
<1>6. Moves(J, J')
  BY <1>2, <1>3, KeptSelf DEF Moves
<1> QED BY <1>2, <1>3, <1>5, <1>6, JournalAndThreads DEF CommitBarrier

\* sync_global and store_sync leave the journal alone.
LEMMA SyncGlobalStep ==
  ASSUME TypeOK, NEW t \in Clients, SyncGlobal(t)
  PROVE  TypeOK' /\ Moves(J, J')
<1> DEFINE steps == IF Call(t).op = "store_sync" THEN <<"flush">>
                    ELSE <<"sync_pages", "sync_wait">>
           stack == steps \o th[t].stack
           ip == th[t].ip + 1
<1>1. t \in Threads
  BY DEF Threads
<1>2. steps \in Seq(Labels)
  <2>1. <<"flush">> \in Seq(Labels)
    BY DEF Labels
  <2>2. <<"sync_pages", "sync_wait">> \in Seq(Labels)
    BY DEF Labels
  <2> QED BY <2>1, <2>2
<1>3. th' = [th EXCEPT ![t].stack = stack, ![t].ip = ip]
  BY DEF SyncGlobal
<1> HIDE DEF steps
<1>4. stack \in Seq(Labels) /\ ip \in Nat \ {0} /\ th \in [Threads -> ThreadType]
  BY <1>1, <1>2, ThreadFields, StackOps, NextCall, AllTyped DEF ThreadMap
<1> HIDE DEF stack, ip
<1>5. th' \in ThreadMap
  BY <1>1, <1>3, <1>4, SetStackIp DEF ThreadMap
<1> QED BY <1>5, OnlyThreads DEF SyncGlobal

\* Clearing the checkpoint list with its superblock update reclaims the list.
LEMMA ClearSteps ==
  ASSUME TypeOK, J' = ClearCheckpoint(J), D' = UpdateSuperblock(D, J'.seq, J'.tail)
  PROVE  J' \in JournalType /\ D' \in DiskType /\ Moves(J, J')
<1>1. J' \in JournalType /\ Moves(J, J')
  BY AllTyped, ClearCheckpointSteps DEF Moves
<1>2. J'.seq \in 1 .. MaxTid + 1 /\ J'.tail \in Ring \cup {0}
  BY <1>1, Fields
<1> QED BY <1>1, <1>2, AllTyped, UpdateSuperblockType

\* journal_quiesce_checkpoints reclaims the checkpoint list or times out.
LEMMA QuiesceStep ==
  ASSUME TypeOK, NEW t \in Clients, Quiesce(t) \/ QuiesceTimesOut(t)
  PROVE  TypeOK' /\ Moves(J, J')
<1>1. th' \in ThreadMap
  BY NextCall DEF Quiesce, QuiesceTimesOut, Threads
<1>2. CASE Quiesce(t)
  BY <1>1, <1>2, ClearSteps DEF Quiesce, TypeOK, ThreadMap
<1>3. CASE QuiesceTimesOut(t)
  BY <1>1, <1>3, OnlyThreads DEF QuiesceTimesOut
<1> QED BY <1>2, <1>3

\* Every step of a client makes one move of the pipeline.
LEMMA ClientSteps ==
  ASSUME TypeOK, NEW t \in Clients, ClientStep(t)
  PROVE  TypeOK' /\ Moves(J, J')
BY StartForcesCheckpointStep, StartTransactionStep, WriteBlockStep,
   NotifyBlockChangedStep, PokelAddStep, DirtyBlockStep, RecordFreedBlocksStep, SetSyncStep,
   StopTransactionStep, CommitTransactionStep, LockStep, CommitBarrierStep,
   SyncGlobalStep, QuiesceStep DEF ClientStep
=============================================================================
