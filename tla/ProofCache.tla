------------------------------ MODULE ProofCache ------------------------------
(* The disposable proof cache: lookup, insert and invalidate_store of several *)
(* processes on one cache root, against dependency stores whose checkpoints   *)
(* move.  A call locks the stores it depends on in the order of the caller's  *)
(* labels, reads their checkpoints, compares the labels with the identities   *)
(* of the stores, locks the cache root, and answers while it holds all.       *)
(*                                                                            *)
(* The revision of a store is the number of its checkpoints; a tree that is   *)
(* ahead of its checkpoint is dirty.  A proof names a store and the           *)
(* checkpoint it was made at.  A caller's list of DependencyStore is a        *)
(* function from its labels (expected_store) to the stores opened for them:   *)
(* a label may be of another store than the one it names.                     *)
EXTENDS Integers, FiniteSets

CONSTANTS
    Store,          \* logical stores, in their order
    Client,         \* processes, one cache handle each
    Subjects,       \* the stores that callers hold proofs of
    Authorities,    \* the lists of dependencies that callers pass: label -> store
    MaxRev,         \* bound on checkpoints of one store
    MaxEntries,     \* MAX_PROOF_CACHE_ENTRIES
    None

\* DependencyStore lists in strict order of expected_store; any other list is refused
\* with InvalidAuthorityOrder before a lock is taken.
Labellings == UNION {[L -> Store] : L \in SUBSET Store}

ASSUME CacheAssumption ==
    /\ Store \subseteq Nat /\ Subjects \subseteq Store /\ Authorities \subseteq Labellings
    /\ IsFiniteSet(Client) /\ None \notin Client /\ MaxRev \in Nat /\ MaxEntries \in Nat

VARIABLES
    cp,             \* store -> revision accepted by its checkpoint
    dirty,          \* store -> its canonical tree is ahead of the checkpoint
    pend,           \* store -> a sync operation is pending
    owner,          \* store -> client that holds its root lock, or None
    entries,        \* proof -> dependency vector of its entry, or NoEntry
    temps,          \* clients whose temporary file is in the cache root
    cacheOwner,     \* client that holds the cache root's lock, or None
    ambient,        \* the cache path names the root that the handles retain
    reset,          \* client -> its handle has latched a replaced root
    pc, call        \* client -> next step and the call it makes

storeVars == <<cp, dirty, pend>>
cacheVars == <<entries, temps>>
vars == <<storeVars, owner, cacheVars, cacheOwner, ambient, reset, pc, call>>

Proof == Subjects \X (0 .. MaxRev)
Vectors == UNION {[A -> 0 .. MaxRev] : A \in SUBSET Store}
NoEntry == [s \in {} |-> 0]
Finals == {p \in Proof : entries[p] # NoEntry}

NoCall == [op |-> "none", proof |-> None, auth |-> NoEntry, vec |-> NoEntry, ans |-> "none"]

Init ==
    /\ cp = [s \in Store |-> 0]
    /\ dirty = [s \in Store |-> FALSE] /\ pend = dirty
    /\ owner = [s \in Store |-> None]
    /\ entries = [p \in Proof |-> NoEntry] /\ temps = {}
    /\ cacheOwner = None /\ ambient = TRUE
    /\ reset = [c \in Client |-> FALSE]
    /\ pc = [c \in Client |-> "idle"] /\ call = [c \in Client |-> NoCall]

---------------------------------------------------------------------------
(* The stores: appends and syncs, each whole under the root lock *)

clientVars == <<owner, cacheVars, cacheOwner, ambient, reset, pc, call>>

\* Store::append; the gate refuses it while a sync is pending.
append(s) ==
    /\ owner[s] = None /\ ~pend[s] /\ ~dirty[s]
    /\ dirty' = [dirty EXCEPT ![s] = TRUE]
    /\ UNCHANGED <<cp, pend, clientVars>>

\* A sync, or the recovery of a pending one, accepts the local or a remote advance.
sync(s) ==
    /\ owner[s] = None /\ cp[s] < MaxRev
    /\ cp' = [cp EXCEPT ![s] = @ + 1]
    /\ dirty' = [dirty EXCEPT ![s] = FALSE]
    /\ pend' = [pend EXCEPT ![s] = FALSE]
    /\ UNCHANGED clientVars

\* A sync that ends or dies with its operation pending, which will accept the tree.
sync_interrupted(s) ==
    /\ owner[s] = None /\ ~pend[s] /\ cp[s] < MaxRev
    /\ pend' = [pend EXCEPT ![s] = TRUE]
    /\ dirty' = [dirty EXCEPT ![s] = FALSE]
    /\ UNCHANGED <<cp, clientVars>>

\* Somebody replaces the directory at the cache path, or puts it back.
ReplaceRoot ==
    /\ ambient' = ~ambient
    /\ UNCHANGED <<storeVars, owner, cacheVars, cacheOwner, reset, pc, call>>

---------------------------------------------------------------------------
(* Calls *)

\* Mutant: a mismatch is not remembered.
BindingUnlatched(c) == ambient

binding_matches(c) == ~reset[c] /\ ambient

\* The latch that every use of binding_matches sets.
Latch(c) == reset' = [reset EXCEPT ![c] = ~binding_matches(c)]

Goto(c, step) == pc' = [pc EXCEPT ![c] = step]

\* Drops the guards: cache lock and dependency locks.
Release(c) ==
    /\ owner' = [s \in Store |-> IF owner[s] = c THEN None ELSE owner[s]]
    /\ cacheOwner' = IF cacheOwner = c THEN None ELSE cacheOwner

\* The call returns: an answer, an error, or Reset when the binding check before it
\* fails.  Dropping the operation checks the binding too.
Return(c) ==
    /\ Latch(c) /\ Release(c) /\ Goto(c, "idle")
    /\ call' = [call EXCEPT ![c] = NoCall]

\* validate_authority_inputs: no two labels for one root (AliasedAuthorityRoots).
Unaliased(A) == \A l, k \in DOMAIN A : A[l] = A[k] => l = k

\* The entry of lookup and prepare_insert: the binding and the list of authorities are
\* checked before any lock.
Begin(c, op, p, A) ==
    /\ pc[c] = "idle" /\ p[2] <= cp[p[1]]
    /\ IF binding_matches(c) /\ Unaliased(A)
       THEN /\ call' = [call EXCEPT ![c] = [NoCall EXCEPT !.op = op, !.proof = p, !.auth = A]]
            /\ Goto(c, "lock") /\ Latch(c) /\ UNCHANGED <<owner, cacheOwner>>
       ELSE Return(c)
    /\ UNCHANGED <<storeVars, cacheVars, ambient>>

lookup(c, p, A) == Begin(c, "lookup", p, A)
insert(c, p, A) == Begin(c, "insert", p, A)

\* invalidate_store(store, old, new) with old # new; it locks no store.
invalidate_store(c, s, old) ==
    /\ pc[c] = "idle" /\ old < cp[s]
    /\ call' = [call EXCEPT ![c] = [NoCall EXCEPT !.op = "invalidate", !.proof = <<s, old>>]]
    /\ Goto(c, "begin")
    /\ UNCHANGED <<storeVars, owner, cacheVars, cacheOwner, ambient, reset>>

---------------------------------------------------------------------------
(* lock_authorities *)

\* The labels whose stores are not locked yet.
Unlocked(c) == {l \in DOMAIN call[c].auth : owner[call[c].auth[l]] # c}

\* Mutant: insert locks the stores in the reverse order of the labels.
NextLabelUnsorted(c) ==
    CHOOSE l \in Unlocked(c) : \A k \in Unlocked(c) : IF call[c].op = "insert" THEN k <= l ELSE l <= k

NextLabel(c) == CHOOSE l \in Unlocked(c) : \A k \in Unlocked(c) : l <= k

NextAuthority(c) == call[c].auth[NextLabel(c)]

\* The root lock is obtained and the gate allows the call.
LockAuthority(c) ==
    /\ pc[c] = "lock" /\ Unlocked(c) # {}
    /\ owner[NextAuthority(c)] = None /\ ~pend[NextAuthority(c)]
    /\ owner' = [owner EXCEPT ![NextAuthority(c)] = c]
    /\ UNCHANGED <<storeVars, cacheVars, cacheOwner, ambient, reset, pc, call>>

\* The root lock is obtained and the gate does not allow the call.
AuthorityPending(c) ==
    /\ pc[c] = "lock" /\ Unlocked(c) # {}
    /\ owner[NextAuthority(c)] = None /\ pend[NextAuthority(c)]
    /\ Return(c)
    /\ UNCHANGED <<storeVars, cacheVars, ambient>>

\* What is compared once every lock is held: the label with the identity of the store,
\* and the checkpoint with the canonical snapshot.
Agreed(c) == \A l \in DOMAIN call[c].auth : call[c].auth[l] = l /\ ~dirty[call[c].auth[l]]

AuthorityDisagrees(c) ==
    /\ pc[c] = "lock" /\ Unlocked(c) = {} /\ ~Agreed(c)
    /\ Return(c)
    /\ UNCHANGED <<storeVars, cacheVars, ambient>>

Vector(c) == [l \in DOMAIN call[c].auth |-> cp[call[c].auth[l]]]

\* validate_current_source_dependency, which only insert makes.
SourceCurrent(c) ==
    LET p == call[c].proof IN p[1] \in DOMAIN Vector(c) /\ Vector(c)[p[1]] = p[2]

\* Mutant: the dependency locks are dropped once the vector is read.
VectorReadUnlocks(c) ==
    /\ pc[c] = "lock" /\ Unlocked(c) = {} /\ Agreed(c)
    /\ call[c].op = "insert" => SourceCurrent(c)
    /\ call' = [call EXCEPT ![c].vec = Vector(c)]
    /\ Goto(c, "begin") /\ Release(c)
    /\ UNCHANGED <<storeVars, cacheVars, ambient, reset>>

VectorRead(c) ==
    /\ pc[c] = "lock" /\ Unlocked(c) = {} /\ Agreed(c)
    /\ call[c].op = "insert" => SourceCurrent(c)
    /\ call' = [call EXCEPT ![c].vec = Vector(c)]
    /\ Goto(c, "begin")
    /\ UNCHANGED <<storeVars, owner, cacheVars, cacheOwner, ambient, reset>>

\* prepare_insert returns StaleProof or InvalidSourceDependency.
InsertStale(c) ==
    /\ pc[c] = "lock" /\ Unlocked(c) = {} /\ Agreed(c)
    /\ call[c].op = "insert" /\ ~SourceCurrent(c)
    /\ Return(c)
    /\ UNCHANGED <<storeVars, cacheVars, ambient>>

---------------------------------------------------------------------------
(* begin_operation: the cache lock, and cleanup between two binding checks *)

BeginLock(c) ==
    /\ pc[c] = "begin" /\ cacheOwner = None
    /\ IF binding_matches(c)
       THEN /\ cacheOwner' = c /\ Goto(c, "clean") /\ Latch(c)
            /\ UNCHANGED <<owner, call>>
       ELSE Return(c)
    /\ UNCHANGED <<storeVars, cacheVars, ambient>>

\* Mutant: temporary files of dead processes are left alone.
BeginUncleaned(c) ==
    /\ pc[c] = "clean"
    /\ IF binding_matches(c)
       THEN Goto(c, "visit") /\ Latch(c) /\ UNCHANGED <<owner, cacheOwner, call>>
       ELSE Return(c)
    /\ UNCHANGED <<storeVars, cacheVars, ambient>>

cleanup_temporaries(c) ==
    /\ pc[c] = "clean"
    /\ temps' = {}
    /\ IF binding_matches(c)
       THEN Goto(c, "visit") /\ Latch(c) /\ UNCHANGED <<owner, cacheOwner, call>>
       ELSE Return(c)
    /\ UNCHANGED <<storeVars, entries, ambient>>

---------------------------------------------------------------------------
(* The work under the cache lock *)

\* visit_entries accepts the directory: final entries only, and not too many.
\* LayoutReadable says that it does.  Its check of each entry's source dependency always
\* passes (EntriesNameProof in ProofCacheProofs).
LayoutValid == temps = {} /\ Cardinality(Finals) <= MaxEntries

Finish(c, answer) ==
    /\ call' = [call EXCEPT ![c].ans = answer]
    /\ Goto(c, "post")
    /\ UNCHANGED <<storeVars, owner, cacheVars, cacheOwner, ambient, reset>>

Found(c) == entries[call[c].proof]

LookupVisit(c) ==
    /\ pc[c] = "visit" /\ call[c].op = "lookup" /\ LayoutValid
    /\ Finish(c, IF Found(c) = NoEntry THEN "Miss"
                 ELSE IF DOMAIN Found(c) # DOMAIN call[c].vec THEN "Unavailable"
                 ELSE IF Found(c) # call[c].vec THEN "Stale"
                 ELSE "Hit")

InsertPresent(c) ==
    /\ pc[c] = "visit" /\ call[c].op = "insert" /\ LayoutValid
    /\ Found(c) = call[c].vec
    /\ Finish(c, "AlreadyPresent")

HasRoom(c) == Found(c) # NoEntry \/ Cardinality(Finals) # MaxEntries

InsertFull(c) ==
    /\ pc[c] = "visit" /\ call[c].op = "insert" /\ LayoutValid
    /\ Found(c) # call[c].vec /\ ~HasRoom(c)
    /\ Return(c)
    /\ UNCHANGED <<storeVars, cacheVars, ambient>>

\* The temporary file is created, written and verified.
InsertTemp(c) ==
    /\ pc[c] = "visit" /\ call[c].op = "insert" /\ LayoutValid
    /\ Found(c) # call[c].vec /\ HasRoom(c)
    /\ temps' = temps \cup {c}
    /\ Goto(c, "rename")
    /\ UNCHANGED <<storeVars, owner, entries, cacheOwner, ambient, reset, call>>

\* rename_file replaces an entry with other dependencies; then the post-validation.
InsertRename(c) ==
    /\ pc[c] = "rename"
    /\ entries' = [entries EXCEPT ![call[c].proof] = call[c].vec]
    /\ temps' = temps \ {c}
    /\ call' = [call EXCEPT ![c].ans = "Inserted"]
    /\ Goto(c, "post")
    /\ UNCHANGED <<storeVars, owner, cacheOwner, ambient, reset>>

\* Publication fails; removing the temporary file is best effort.
InsertFails(c) ==
    /\ pc[c] = "rename"
    /\ temps' \in {temps, temps \ {c}}
    /\ Return(c)
    /\ UNCHANGED <<storeVars, entries, ambient>>

Outdated(c) ==
    LET t == call[c].proof IN
    {p \in Finals : t[1] \in DOMAIN entries[p] /\ entries[p][t[1]] = t[2]}

\* invalidate_store unlinks the entries that contain exactly store@old.
InvalidateVisit(c) ==
    /\ pc[c] = "visit" /\ call[c].op = "invalidate" /\ LayoutValid
    /\ IF Outdated(c) = {} THEN Finish(c, "Unchanged")
       ELSE /\ Goto(c, "unlink")
            /\ UNCHANGED <<storeVars, owner, cacheVars, cacheOwner, ambient, reset, call>>

InvalidateUnlink(c) ==
    /\ pc[c] = "unlink"
    /\ \E p \in Outdated(c) : entries' = [entries EXCEPT ![p] = NoEntry]
    /\ UNCHANGED <<storeVars, owner, temps, cacheOwner, ambient, reset, pc, call>>

InvalidateFails(c) ==
    /\ pc[c] = "unlink" /\ Outdated(c) # {}
    /\ Return(c)
    /\ UNCHANGED <<storeVars, cacheVars, ambient>>

InvalidateDone(c) ==
    /\ pc[c] = "unlink" /\ Outdated(c) = {} /\ LayoutValid
    /\ Finish(c, "Invalidated")

\* The last binding check, still under every lock, decides between answer and Reset.
PostCheck(c) ==
    /\ pc[c] = "post"
    /\ Return(c)
    /\ UNCHANGED <<storeVars, cacheVars, ambient>>

---------------------------------------------------------------------------
(* Processes die anywhere and start again with a new handle *)

Kill(c) ==
    /\ pc[c] \notin {"idle", "dead"}
    /\ Release(c) /\ Goto(c, "dead")
    /\ call' = [call EXCEPT ![c] = NoCall]
    /\ reset' = [reset EXCEPT ![c] = FALSE]
    /\ UNCHANGED <<storeVars, cacheVars, ambient>>

\* ProofCache::open while the path names the same root.
open(c) ==
    /\ pc[c] = "dead" /\ ambient
    /\ Goto(c, "idle")
    /\ UNCHANGED <<storeVars, owner, cacheVars, cacheOwner, ambient, reset, call>>

---------------------------------------------------------------------------

Work(c) ==
    \/ LockAuthority(c) \/ AuthorityPending(c) \/ BeginLock(c)
    \/ AuthorityDisagrees(c) \/ VectorRead(c) \/ InsertStale(c)
    \/ cleanup_temporaries(c) \/ LookupVisit(c) \/ InsertPresent(c) \/ InsertFull(c)
    \/ InsertTemp(c) \/ InsertRename(c) \/ InsertFails(c)
    \/ InvalidateVisit(c) \/ InvalidateUnlink(c) \/ InvalidateFails(c) \/ InvalidateDone(c)
    \/ PostCheck(c)

Next ==
    \/ \E s \in Store : append(s) \/ sync(s) \/ sync_interrupted(s)
    \/ ReplaceRoot
    \/ \E c \in Client :
         \/ \E p \in Proof, A \in Authorities : lookup(c, p, A) \/ insert(c, p, A)
         \/ \E s \in Store, old \in 0 .. MaxRev : invalidate_store(c, s, old)
         \/ Work(c) \/ Kill(c) \/ open(c)

Spec == Init /\ [][Next]_vars

---------------------------------------------------------------------------
(* Properties *)

Call == [op : {"none", "lookup", "insert", "invalidate"},
         proof : {None} \cup (Store \X (0 .. MaxRev)), auth : Labellings, vec : Vectors,
         ans : {"none", "Miss", "Unavailable", "Stale", "Hit", "AlreadyPresent", "Inserted",
                "Unchanged", "Invalidated"}]
Steps == {"idle", "dead", "lock", "begin", "clean", "visit", "rename", "unlink", "post"}

\* The variables have the shape of the stores, the cache root and the handles.
TypeOK ==
    /\ cp \in [Store -> 0 .. MaxRev]
    /\ dirty \in [Store -> BOOLEAN] /\ pend \in [Store -> BOOLEAN]
    /\ owner \in [Store -> Client \cup {None}] /\ cacheOwner \in Client \cup {None}
    /\ entries \in [Proof -> Vectors]
    /\ temps \subseteq Client /\ ambient \in BOOLEAN
    /\ reset \in [Client -> BOOLEAN] /\ pc \in [Client -> Steps] /\ call \in [Client -> Call]

\* README: freshness comes only from current durable checkpoints while all dependency
\* locks are held, and an identity-confused authority returns no hit.  When a call is
\* about to answer Hit, or to publish, the proof is of the current checkpoint of the
\* store it names, the vector is of the stores that its labels name, and none of them
\* has moved or is ahead.
AnswersCurrent ==
    \A c \in Client :
        (pc[c] = "rename" \/ (pc[c] = "post" /\ call[c].ans \in {"Hit", "Inserted"})) =>
            LET v == call[c].vec
                p == call[c].proof
            IN  /\ p[1] \in DOMAIN v /\ cp[p[1]] = p[2]
                /\ \A s \in DOMAIN v : v[s] = cp[s] /\ ~dirty[s] /\ ~pend[s]

\* Temporary files of dead processes never make the cache unavailable: whoever reads
\* the entries reads a valid directory (begin_operation has cleaned it).
LayoutReadable ==
    \A c \in Client : pc[c] \in {"visit", "unlink", "post"} => LayoutValid

\* Cache-root replacement latches the handle (binding_matches): while the process lives
\* it takes no lock and reads no entry again, even when the old directory is put back.
ResetLatched ==
    [][\A c \in Client : reset[c] =>
         pc'[c] = "dead" \/ (reset'[c] /\ pc'[c] \in {"idle", "begin"})]_vars

\* The client whose lock c waits for, or None.
WaitsFor(c) ==
    IF pc[c] = "lock" /\ Unlocked(c) # {} THEN owner[NextAuthority(c)]
    ELSE IF pc[c] = "begin" THEN cacheOwner ELSE None

\* The caller's labels are the identities of the stores it opened.
Labelled(c) == \A l \in DOMAIN call[c].auth : call[c].auth[l] = l

\* Locks are taken in the order of the labels, stores before the cache (lock_authorities,
\* begin_operation), and the labels are compared with the stores only when all locks are
\* held.  So clients that wait for each other in a circle have one among them whose
\* labels are confused; callers with true labels alone never do.
NoCircularWait ==
    \A D \in SUBSET Client :
        D # {} /\ (\A c \in D : WaitsFor(c) \in D) => \E c \in D : ~Labelled(c)

\* The same of all callers, whatever their labels.  lock_authorities does not ensure it.
NoCircleAtAll == \A D \in SUBSET Client : D # {} => \E c \in D : WaitsFor(c) \notin D
=============================================================================
