---------------------------- MODULE JournalCrash ----------------------------
(***************************************************************************)
(* What a crash leaves of the journal.  A crash may come at any moment, so *)
(* the properties quantify over the images that the store may hold in each *)
(* reachable state, and over what recovery makes of them.                  *)
(*                                                                         *)
(* Recovery is external: ext2fs mounts a journal with s_start # 0 read-    *)
(* only and leaves the replay to e2fsck.  It is the JBD2 replay for the    *)
(* format that journal.c writes: from s_start, with s_sequence, as long as *)
(* descriptors and commit records carry the expected sequence number.      *)
(***************************************************************************)
EXTENDS Journal

\* The logs a crash may leave: a choice for each cell that is not settled.
Logs ==
  LET loose == {p \in Ring : Cardinality(D.log[p].may) > 1}
      picks == {f \in [loose -> UNION {D.log[p].may : p \in loose}] :
                  \A p \in loose : f[p] \in D.log[p].may}
  IN  {[p \in Ring |-> IF p \in loose THEN f[p] ELSE D.log[p].now] : f \in picks}

Skip(p, n) == LET q == p + n IN IF q > JLast THEN q - Capacity ELSE q

\* The transaction that starts at block p of the log: its buffers and the
\* block after its commit record, or nothing if it is not complete.
NotThere == [ok |-> FALSE, data |-> << >>, end |-> JFirst]
RECURSIVE Scan(_, _, _, _, _)
Scan(log, p, x, data, fuel) ==
  LET rec == log[p]
      n == Len(rec.tags)
      tagged == [b \in Range(rec.tags) |->
                   log[Skip(p, CHOOSE i \in 1 .. n : rec.tags[i] = b)].val]
  IN  IF fuel = 0 \/ rec.tid # x THEN NotThere
      ELSE IF rec.kind = "commit" THEN [ok |-> TRUE, data |-> data, end |-> Skip(p, 1)]
      ELSE IF rec.kind = "descriptor"
      THEN Scan(log, Skip(p, n + 1), x,
                [b \in DOMAIN data \cup DOMAIN tagged |->
                   IF b \in DOMAIN tagged THEN tagged[b] ELSE data[b]], fuel - 1)
      ELSE NotThere

\* The transactions that replay applies, oldest first, as <<tid, buffers>>.
RECURSIVE ReplayFrom(_, _, _)
ReplayFrom(log, p, x) ==
  LET txn == Scan(log, p, x, << >>, Capacity)
  IN  IF x > MaxTid \/ ~txn.ok THEN << >>
      ELSE << <<x, txn.data>> >> \o ReplayFrom(log, txn.end, x + 1)
Replay(sb, log) == IF sb.start = 0 THEN << >> ELSE ReplayFrom(log, sb.start, sb.seq)
Replays == {Replay(sb, log) : sb \in D.sb.may, log \in Logs}

Replayed(r) == {r[i][1] : i \in 1 .. Len(r)}

\* What block b may hold after replay r: the last transaction that has it,
\* or what the crash left at its home.
Recovered(r, b) ==
  LET with == {i \in 1 .. Len(r) : b \in DOMAIN r[i][2]}
  IN  IF with = {} THEN D.home[b].may
      ELSE {r[CHOOSE i \in with : \A k \in with : k <= i][2][b]}

-----------------------------------------------------------------------------
\* Replay never applies half a transaction: what it applies of a live one is
\* its map of shadow copies, whole.  The flush between payload and commit
\* record is there for this.
ReplayFaithful ==
  \A r \in Replays : \A i \in 1 .. Len(r) :
    r[i][1] \in Live(J) =>
      r[i][2] = [b \in BuffersOf(J, r[i][1]) |-> J.buf[r[i][1]][b].shadow]

\* An update that a finished commit has promised to keep is there after any
\* crash, from the log or at its home.
CommittedSurvives ==
  \A r \in Replays, b \in Blocks : \A v \in Recovered(r, b) : durable[b].kept \subseteq v

\* A payload of the lifeboat goes home only once a crash would replay its
\* transaction, if the log on disk is in use at all.
LifeboatAfterLog ==
  \A t \in Threads : At(t, "lifeboat_write") /\ D.sb.now.start # 0 =>
    \A r \in Replays : J.committing \in Replayed(r)

\* The same without that condition: journal_flush_lifeboat_payloads is
\* "called immediately after a transaction is safely committed to the WAL".
LifeboatAlwaysAfterLog ==
  \A t \in Threads : At(t, "lifeboat_write") =>
    \A r \in Replays : J.committing \in Replayed(r)

\* The writes of the operation of client t that call i ends.
Writes(t, i) ==
  {k \in 1 .. i : Program[t][k].op = "write"
                  /\ \A m \in k .. i : Program[t][m].op # "start"}
Ends(t, ops) == {i \in 1 .. Len(Program[t]) : Program[t][i].op \in ops}
Survives(r, t, k) == \A v \in Recovered(r, Program[t][k].blk) : <<t, k>> \in v
Lost(r, t, k) == \A v \in Recovered(r, Program[t][k].blk) : <<t, k>> \notin v

\* An operation is "recorded atomically": after a crash all the blocks it
\* wrote hold its change, or none of them does.
OperationAtomic ==
  \A r \in Replays, t \in Clients : \A i \in Ends(t, {"stop", "commit"}) :
    \/ \A k \in Writes(t, i) : Survives(r, t, k)
    \/ \A k \in Writes(t, i) : Lost(r, t, k)

\* diskfs_journal_commit_transaction "guarantees a synchronous commit to
\* disk": from each of its returns on, every update of the operation
\* survives a crash, unless a committed operation has freed the block since.
Returned(t, i) == i < th[t].ip - 1 \/ (i = th[t].ip - 1 /\ At(t, "run"))
SyncSurvives ==
  \A r \in Replays, t \in Clients : \A i \in Ends(t, {"commit"}) :
    Returned(t, i) => \A k \in Writes(t, i) :
      Survives(r, t, k) \/ <<t, k>> \in durable[Program[t][k].blk].gone

\* A committed transaction that still has blocks to bring home is within
\* reach of replay: the superblock points at or before it, no sequence
\* number on the way is missing, and the head has not run over it.
PendingReplays ==
  \A r \in Replays, x \in Range(J.ckpt) :
    J.txn[x].outstanding > 0 => x \in Replayed(r)

\* The head never runs over a transaction whose blocks are not all home: its
\* descriptors, buffers and commit record are in the log as they were written,
\* whatever commits and forced checkpoints found of space since.
LogIntact ==
  \A log \in Logs, x \in Range(J.ckpt) : J.txn[x].outstanding > 0 =>
    LET txn == Scan(log, J.txn[x].logStart, x, << >>, Capacity)
    IN  txn.ok /\ txn.data = [b \in BuffersOf(J, x) |-> J.buf[x][b].shadow]

\* Without a volatile cache and write errors, replay applies live transactions
\* only: never one that was reclaimed, whose old copies would go over newer
\* blocks at home.
ReplayedAreLive == \A r \in Replays : Replayed(r) \subseteq Live(J)

\* An unmount after a synchronous operation leaves a clean journal, s_start
\* 0, and everything at home (quiesce did not time out).
Unmounts(t) == \E i \in 1 .. Len(Program[t]) : Program[t][i].op = "quiesce"
CleanUnmount ==
  \A t \in Clients : Finished(t) /\ Unmounts(t) /\ J.committing = None =>
    D.sb.may = {[seq |-> J.seq, start |-> 0]}
    /\ \A b \in Blocks : D.home[b].may = {M.cache[b]}
=============================================================================
