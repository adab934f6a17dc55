------------------------ MODULE MCStoreTransaction ------------------------
(* Five batches over one genesis (batch 1).  Batch 2 has two records in one  *)
(* new directory.  Batch 3 claims a record path of batch 2 and has a causal  *)
(* parent in batch 4.  Batch 4 has the idempotency key of batch 2 and        *)
(* another request.  Batch 0 has no builtin record and sorts before the      *)
(* genesis, so only a legacy store accepts it.                               *)
EXTENDS StoreTransaction, TLC

MCBatch   == 0 .. 4
MCRecord  == {"r0", "r1", "r2", "r3"}
MCEntity  == {"e1", "e2"}
MCMember  == (0 :> {"r0"}) @@ (1 :> {"r1"}) @@ (2 :> {"r2", "r3"}) @@ (3 :> {"r3"})
             @@ (4 :> {"r2"})
MCHome    == [r \in MCRecord |-> IF r \in {"r0", "r1"} THEN "e1" ELSE "e2"]
MCKey     == [b \in MCBatch |-> IF b = 4 THEN 2 ELSE b]
MCRequest == [b \in MCBatch |-> b]
MCBuiltin == {1, 2}
MCGenesis == {1}
MCParents == [b \in MCBatch |-> IF b = 3 THEN {4} ELSE {}]
===========================================================================
