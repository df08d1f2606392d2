------------------------ MODULE TransactionPipeline ------------------------
(***************************************************************************)
(* What the journal promises about the order of transactions, without     *)
(* blocks, threads or disk: one transaction fills, at most one commits,    *)
(* and committed ones are reclaimed oldest first.  Journal implements it.  *)
(***************************************************************************)
EXTENDS Naturals

VARIABLES running, committing, finished, last, next
vars == <<running, committing, finished, last, next>>

Init == running = 0 /\ committing = 0 /\ finished = {} /\ last = 0 /\ next = 1

Open ==
  /\ running = 0 /\ running' = next /\ next' = next + 1
  /\ UNCHANGED <<committing, finished, last>>
Lock ==
  /\ running # 0 /\ committing = 0
  /\ committing' = running /\ running' = 0
  /\ UNCHANGED <<finished, last, next>>
Finish ==
  /\ committing # 0
  /\ finished' = finished \cup {committing} /\ last' = committing
  /\ committing' = 0
  /\ UNCHANGED <<running, next>>
Abort ==
  /\ committing # 0 /\ committing' = 0 /\ last' = committing
  /\ UNCHANGED <<running, finished, next>>
Reclaim ==
  /\ finished' \subseteq finished
  /\ \A x \in finished \ finished', y \in finished' : x < y
  /\ UNCHANGED <<running, committing, last, next>>

Next == Open \/ Lock \/ Finish \/ Abort \/ Reclaim
Spec == Init /\ [][Next]_vars
=============================================================================
