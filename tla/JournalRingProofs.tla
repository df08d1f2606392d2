------------------------- MODULE JournalRingProofs -------------------------
(***************************************************************************)
(* Facts about the ring arithmetic of journal.c, for every ring size.      *)
(***************************************************************************)
EXTENDS JournalRing, TLAPS

\* journal_next_block_would_be never leaves the ring, and from 0 (a journal
\* that was clean at mount) it is the first block.
LEMMA NextInRing ==
  ASSUME NEW head \in Ring \cup {0}
  PROVE  NextBlock(head) \in Ring
BY RingAssumption DEF NextBlock, Ring

\* The two computations of j_free, in journal_try_advance_tail_locked and in
\* journal_clear_checkpoint_list_locked, agree in every position.
THEOREM FreeComputationsAgree ==
  ASSUME NEW head \in Ring \cup {0}, NEW tail \in Ring \cup {0}
  PROVE  FreeAfterAdvance(head, tail) = FreeAfterClear(head, tail)
BY RingAssumption DEF FreeAfterAdvance, FreeAfterClear, UsedLen, Capacity, Ring

\* The uint32_t arithmetic of j_free does not wrap when it is recomputed, and
\* the result is never 0 nor more than the ring holds.
THEOREM FreeInRange ==
  ASSUME NEW head \in Ring \cup {0}, NEW tail \in Ring \cup {0}
  PROVE  FreeAfterAdvance(head, tail) \in 1 .. Capacity
BY RingAssumption DEF FreeAfterAdvance, UsedLen, Capacity, Ring

\* A decremented uint32_t stays one.
LEMMA DecrementType ==
  ASSUME NEW free \in 0 .. Word - 1
  PROVE  Decrement(free) \in 0 .. Word - 1
<1>1. Word \in Nat /\ Word > 0
  BY RingAssumption
<1>2. CASE free = 0
  <2>1. (free - 1) % Word \in 0 .. Word - 1
    BY <1>1
  <2> QED BY <2>1 DEF Decrement
<1>3. CASE free # 0
  <2>1. (free - 1) % Word \in 0 .. Word - 1
    BY <1>1
  <2> QED BY <2>1 DEF Decrement
<1> QED BY <1>2, <1>3

\* tid_gt orders transaction ids that are less than half the number space
\* apart, also when the sequence number has wrapped between them: n steps
\* after tid t the counter is later than t, and t is not later than it.
THEOREM TidGtOrders ==
  ASSUME NEW t \in 0 .. Word - 1, NEW n \in Nat, 0 < n, 2 * n < Word
  PROVE  TidGt((t + n) % Word, t) /\ ~TidGt(t, (t + n) % Word)
<1>1. Word \in Nat /\ Word > 1
  BY RingAssumption
<1>2. CASE t + n < Word
  <2>1. (t + n) % Word = t + n
    BY <1>1, <1>2
  <2>2. (t + n - t) % Word = n
    BY <1>1, <1>2
  <2>3. (t - (t + n)) % Word = Word - n
    BY <1>1, <1>2
  <2> QED BY <2>1, <2>2, <2>3, <1>1 DEF TidGt
<1>3. CASE t + n >= Word
  <2>1. (t + n) % Word = t + n - Word
    BY <1>1, <1>3
  <2>2. (t + n - Word - t) % Word = n
    BY <1>1, <1>3
  <2>3. (t - (t + n - Word)) % Word = Word - n
    BY <1>1, <1>3
  <2> QED BY <2>1, <2>2, <2>3, <1>1 DEF TidGt
<1> QED BY <1>1, <1>2, <1>3
=============================================================================
