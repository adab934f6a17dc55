--------------------------- MODULE MCProofCache ---------------------------
(* Two stores, two processes and a cache with room for one entry.  Callers    *)
(* pass every list of one or two labels, confused and aliased ones included.  *)
EXTENDS ProofCache, TLC

MCAuthorities == UNION {[L -> Store] : L \in (SUBSET Store) \ {{}}}
MCSymmetry == Permutations(Client)
===========================================================================
