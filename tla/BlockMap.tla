------------------------------ MODULE BlockMap ------------------------------
(***************************************************************************)
(* The Robin Hood hash map from block numbers to journal buffers that each *)
(* transaction owns (journal_block_map_t in ext2fs/journal.c).  Buckets    *)
(* are numbered from 0; an empty one has no key.  The buffer itself plays  *)
(* no part, so a bucket holds the block number and its probe distance.     *)
(*                                                                         *)
(* The hash of a block is any number below HashRange, fixed at the start.  *)
(* The algorithm only compares keys for equality, so taking the hash as a  *)
(* non-decreasing function of the key loses no case.                       *)
(***************************************************************************)
EXTENDS Integers, Sequences, SequencesExt, FiniteSets

CONSTANTS
  NumKeys,        \* bound: distinct blocks put into one map
  HashRange,      \* bound: values of journal_hash_block
  InitCapacity,   \* JRNL_MAP_INIT_CAPACITY
  LoadPercent     \* 85: the load at which the map doubles

Keys == 1 .. NumKeys
NoKey == 0

ASSUME MapAssumption ==
  /\ NumKeys \in Nat /\ HashRange \in Nat \ {0} /\ LoadPercent \in 1 .. 99
  /\ InitCapacity \in {2, 4, 8, 16, 32}

VARIABLES
  hash,      \* journal_hash_block
  map,       \* [buckets, size, capacity]
  err,       \* EEXIST was returned
  members    \* history: the blocks inserted so far
mapVars == <<hash, map, err, members>>

Bucket(key, dist) == [key |-> key, dist |-> dist]
EmptyTable(cap) == [i \in 0 .. cap - 1 |-> Bucket(NoKey, 0)]
Home(key, cap) == hash[key] % cap

\* The probe loop: walk on until an empty bucket, taking the place of an item
\* that is closer to its home and carrying that one further.  With `strict'
\* (insertion, not rehashing) a bucket with the same key is an error, and
\* what was moved until then stays moved.
\* Mutants of Place: the displaced item is lost; it goes on with the probe
\* distance of the item that took its bucket.
RECURSIVE Place_DropDisplaced(_, _, _, _)
Place_DropDisplaced(table, item, pos, strict) ==
  LET here == table[pos]
      next == (pos + 1) % Cardinality(DOMAIN table)
  IN  IF here.key = NoKey \/ here.dist < item.dist
      THEN [table |-> [table EXCEPT ![pos] = item], dup |-> FALSE]
      ELSE IF strict /\ here.key = item.key THEN [table |-> table, dup |-> TRUE]
      ELSE Place_DropDisplaced(table, [item EXCEPT !.dist = @ + 1], next, strict)
RECURSIVE Place_StaleDistance(_, _, _, _)
Place_StaleDistance(table, item, pos, strict) ==
  LET here == table[pos]
      next == (pos + 1) % Cardinality(DOMAIN table)
  IN  IF here.key = NoKey
      THEN [table |-> [table EXCEPT ![pos] = item], dup |-> FALSE]
      ELSE IF strict /\ here.key = item.key THEN [table |-> table, dup |-> TRUE]
      ELSE IF here.dist < item.dist
      THEN Place_StaleDistance([table EXCEPT ![pos] = item],
                               Bucket(here.key, item.dist + 1), next, strict)
      ELSE Place_StaleDistance(table, [item EXCEPT !.dist = @ + 1], next, strict)
RECURSIVE Place(_, _, _, _)
Place(table, item, pos, strict) ==
  LET here == table[pos]
      next == (pos + 1) % Cardinality(DOMAIN table)
      Further(it) == [it EXCEPT !.dist = @ + 1]
  IN  IF here.key = NoKey
      THEN [table |-> [table EXCEPT ![pos] = item], dup |-> FALSE]
      ELSE IF strict /\ here.key = item.key THEN [table |-> table, dup |-> TRUE]
      ELSE IF here.dist < item.dist
      THEN Place([table EXCEPT ![pos] = item], Further(here), next, strict)
      ELSE Place(table, Further(item), next, strict)

\* journal_map_iterate, run to the end: the keys in the order of the buckets
Iterate(m) ==
  SelectSeq([i \in 1 .. m.capacity |-> m.buckets[i - 1].key], LAMBDA k : k # NoKey)

\* journal_map_resize: a table of twice the capacity, filled in that order
Resize(m) ==
  LET cap == 2 * m.capacity
      Rehash(table, key) == Place(table, Bucket(key, 0), Home(key, cap), FALSE).table
  IN  [m EXCEPT !.capacity = cap,
                !.buckets = FoldLeft(Rehash, EmptyTable(cap), Iterate(m))]

\* journal_map_lookup: is there a buffer for the key?  The search gives up at
\* an item nearer to its home than the key would be.
RECURSIVE Probe(_, _, _, _)
Probe(m, key, pos, dist) ==
  LET here == m.buckets[pos]
  IN  IF here.key = NoKey THEN FALSE
      ELSE IF here.key = key THEN TRUE
      ELSE IF dist > here.dist THEN FALSE
      ELSE Probe(m, key, (pos + 1) % m.capacity, dist + 1)
\* Mutant of Lookup: only the home bucket is looked at.
Lookup_First(m, key) == m.buckets[Home(key, m.capacity)].key = key
Lookup(m, key) == Probe(m, key, Home(key, m.capacity), 0)

Init ==
  /\ hash \in {h \in [Keys -> 0 .. HashRange - 1] :
                 \A k, l \in Keys : k < l => h[k] <= h[l]}
  /\ map = [buckets |-> EmptyTable(InitCapacity), size |-> 0,
            capacity |-> InitCapacity]
  /\ err = FALSE
  /\ members = {}

\* journal_map_insert, for a block that journal_dirty_block_locked has looked
\* up before and not found
Insert(key) ==
  LET m == IF map.size * 100 >= map.capacity * LoadPercent THEN Resize(map) ELSE map
      r == Place(m.buckets, Bucket(key, 0), Home(key, m.capacity), TRUE)
  IN  /\ ~Lookup(map, key)
      /\ map' = [m EXCEPT !.buckets = r.table, !.size = IF r.dup THEN @ ELSE @ + 1]
      /\ err' = r.dup
      /\ members' = members \cup {key}
      /\ UNCHANGED hash

Next == \E key \in Keys : Insert(key)
MapSpec == Init /\ [][Next]_mapVars

-----------------------------------------------------------------------------
\* Lookup finds exactly the blocks that were inserted, whatever collided,
\* was displaced or was rehashed on the way: giving up early misses nothing,
\* and the "logic bug" EEXIST of journal_map_insert is never returned.
MapFaithful == ~err /\ \A key \in Keys : Lookup(map, key) <=> key \in members

\* Iterating visits every block of the transaction exactly once, which is
\* what the tags of a commit and the release of its buffers count on.
IterationExact ==
  LET visit == Iterate(map)
  IN  ToSet(visit) = members /\ Len(visit) = Cardinality(members)
      /\ map.size = Len(visit)

\* The stored probe distances are the real ones, and rise by at most one from
\* a bucket to the next: the order that lets a lookup give up early.
ProbeDistances ==
  \A i \in 0 .. map.capacity - 1 :
    LET here == map.buckets[i]
        before == map.buckets[(i - 1) % map.capacity]
    IN  here.key # NoKey =>
          /\ here.dist = (i - Home(here.key, map.capacity)) % map.capacity
          /\ here.dist > 0 => before.key # NoKey /\ before.dist >= here.dist - 1
=============================================================================
