---------------------------- MODULE AtomicJournal ----------------------------
(* What a Wayjournal store promises about its batches, with no files, stages *)
(* or journals: a batch enters the store whole, never leaves it, and nobody  *)
(* is shown a batch that is not in it.                                       *)
EXTENDS FiniteSets

CONSTANTS Batch,            \* batch identities
          Compatible(_)     \* the sets of batches that form one valid store

VARIABLES committed,        \* batches in the store
          observed          \* batches some caller has been told are in the store

journalVars == <<committed, observed>>

JournalInit == committed = {} /\ observed = {}

Commit(b) ==
    /\ b \notin committed
    /\ Compatible(committed \cup {b})
    /\ committed' = committed \cup {b}
    /\ UNCHANGED observed

\* A reply to an append, or the result of a read.
Observe(S) ==
    /\ S \subseteq committed
    /\ observed' = observed \cup S
    /\ UNCHANGED committed

JournalNext ==
    \/ \E b \in Batch : Commit(b)
    \/ \E S \in SUBSET Batch : Observe(S)

JournalSpec == JournalInit /\ [][JournalNext]_journalVars
=============================================================================
