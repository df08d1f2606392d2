---------------------------- MODULE JournalRing ----------------------------
(***************************************************************************)
(* The arithmetic of the journal's ring of log blocks: ext2fs/journal.c.   *)
(*                                                                         *)
(* Log blocks are numbered JFirst .. JLast (j_first .. j_last); block 0 of *)
(* the journal file is its superblock.  j_head is the last block allocated *)
(* (0 in a journal that was clean at mount), j_tail the first block of the *)
(* oldest live transaction (0 when the log is empty), and j_free a counter *)
(* the code keeps beside them.  The counter is a uint32_t; Word is the     *)
(* modulus of that type, a parameter so that its wrap-around is within     *)
(* reach of a small model.                                                 *)
(***************************************************************************)
EXTENDS Integers

CONSTANTS
  JFirst, JLast,        \* j_first, j_last
  Word,                 \* 2^32: the modulus of uint32_t
  MaxTransRatio,        \* JRNL_MAX_TRANS_RATIO
  MinBatchBlocks,       \* JRNL_MIN_BATCH_BLOCKS
  MetadataOverhead,     \* JRNL_METADATA_OVERHEAD
  DescriptorRatio,      \* JRNL_DESCRIPTOR_RATIO
  CommitMargin,         \* JRNL_COMMIT_MARGIN
  LowWaterRatio         \* JRNL_LOW_WATER_RATIO

ASSUME RingAssumption ==
  /\ JFirst = 1 /\ JLast \in Nat /\ JFirst < JLast
  /\ Word \in Nat /\ JLast < Word
  /\ MaxTransRatio \in Nat \ {0} /\ DescriptorRatio \in Nat \ {0}
  /\ LowWaterRatio \in Nat \ {0}
  /\ MinBatchBlocks \in Nat /\ MetadataOverhead \in Nat /\ CommitMargin \in Nat

Ring == JFirst .. JLast
Capacity == JLast - JFirst + 1
TotalLen == JLast - JFirst

\* The tunables computed once, in journal_create.
MaxTransactionBuffers ==
  LET quarter == TotalLen \div MaxTransRatio
  IN  IF quarter < MinBatchBlocks THEN MinBatchBlocks ELSE quarter
MinFree == MaxTransactionBuffers + MetadataOverhead

\* Mutant of NextBlock: the last block is passed before the ring wraps.
NextBlock_PastEnd(head) == IF head > JLast THEN JFirst ELSE head + 1

\* journal_next_block_would_be
NextBlock(head) == IF head + 1 > JLast THEN JFirst ELSE head + 1

\* The j_free-- of journal_next_log_block_safe, on a uint32_t.
Decrement(free) == (free - 1) % Word

\* The used_len of journal_try_advance_tail_locked.
UsedLen(head, tail) ==
  IF tail = 0 THEN 0
  ELSE IF head >= tail THEN head - tail
  ELSE (JLast - tail + 1) + (head - JFirst)

FreeAfterAdvance(head, tail) == Capacity - UsedLen(head, tail)

\* The same quantity as journal_clear_checkpoint_list_locked computes it.
FreeAfterClear(head, tail) ==
  IF tail = 0 THEN Capacity
  ELSE IF head >= tail THEN Capacity - (head - tail)
  ELSE tail - head

\* journal_ensure_commit_space_locked: what a commit of `size' buffers wants.
CommitNeeds(size) == size + size \div DescriptorRatio + CommitMargin
LowWater == TotalLen \div LowWaterRatio
\* Mutant of NeedsSpace: the commit record is not counted.
NeedsSpace_Payload(free, size) == free < size
NeedsSpace(free, size) == free < CommitNeeds(size) \/ free < LowWater

\* Mutant of TidGt: equal counts as later.
TidGt_OrEqual(t1, t2) == 2 * ((t1 - t2) % Word) < Word

\* tid_gt: t1 is later than t2, on a sequence number that wraps.
TidGt(t1, t2) ==
  LET d == (t1 - t2) % Word IN d > 0 /\ 2 * d < Word
=============================================================================
