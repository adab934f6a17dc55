--------------------------- MODULE ProofCacheProofs ---------------------------
(* For every set of stores and every finite set of processes: the types of    *)
(* the proof cache, that it answers and publishes only what is current, that  *)
(* a reset is final, that the file is never left in a layout later calls      *)
(* refuse, and that processes with true labels never wait in a circle.        *)
EXTENDS ProofCache, FiniteSetTheorems, TLAPS

USE CacheAssumption

\* The vector of no entry is a vector.
LEMMA NoEntryType == NoEntry \in Vectors
  <1>1. NoEntry \in [{} -> 0 .. MaxRev]
    BY DEF NoEntry
  <1>2. {} \in SUBSET Store
    OBVIOUS
  <1>3. [{} -> 0 .. MaxRev] \in {[A -> 0 .. MaxRev] : A \in SUBSET Store}
    BY Zenon, <1>2
  <1> QED BY Zenon, <1>1, <1>3 DEF Vectors

\* The list of no dependencies is a list.
LEMMA NoLabelsType == NoEntry \in Labellings
  <1>1. NoEntry \in [{} -> Store]
    BY DEF NoEntry
  <1>2. {} \in SUBSET Store
    OBVIOUS
  <1>3. [{} -> Store] \in {[L -> Store] : L \in SUBSET Store}
    BY Zenon, <1>2
  <1> QED BY Zenon, <1>1, <1>3 DEF Labellings

\* An idle handle has a call record too.
LEMMA NoCallType == NoCall \in Call
  BY NoEntryType, NoLabelsType DEF NoCall, Call

\* What a call passes: labels are of stores, and so are the stores opened for them.
LEMMA LabelsType ==
    ASSUME TypeOK, NEW c \in Client
    PROVE  /\ DOMAIN call[c].auth \subseteq Store
           /\ \A l \in DOMAIN call[c].auth : call[c].auth[l] \in Store
  <1>1. call[c].auth \in Labellings
    BY DEF TypeOK, Call
  <1>2. PICK L \in SUBSET Store : call[c].auth \in [L -> Store]
    BY Zenon, <1>1 DEF Labellings
  <1> QED BY Zenon, <1>2

\* Return, the common end of a call, keeps the types.
LEMMA ReturnType ==
    ASSUME TypeOK, NEW c \in Client, Return(c)
    PROVE  /\ owner' \in [Store -> Client \cup {None}] /\ cacheOwner' \in Client \cup {None}
           /\ reset' \in [Client -> BOOLEAN] /\ pc' \in [Client -> Steps]
           /\ call' \in [Client -> Call]
  BY NoCallType DEF TypeOK, Return, Release, Latch, binding_matches, Goto, Steps

\* The vector a call reads has the type of a vector.
LEMMA VectorType ==
    ASSUME TypeOK, NEW c \in Client
    PROVE  Vector(c) \in Vectors
  <1>1. /\ DOMAIN call[c].auth \in SUBSET Store
        /\ \A l \in DOMAIN call[c].auth : call[c].auth[l] \in Store
    BY Zenon, LabelsType
  <1>2. Vector(c) \in [DOMAIN call[c].auth -> 0 .. MaxRev]
    BY Zenon, <1>1 DEF TypeOK, Vector
  <1> QED BY Zenon, <1>1, <1>2 DEF Vectors

\* Each record update of a call gives a call.
LEMMA CallUpdates ==
    ASSUME NEW k \in Call
    PROVE  /\ \A v \in Vectors : [k EXCEPT !.vec = v] \in Call
           /\ \A a \in {"Miss", "Unavailable", "Stale", "Hit", "AlreadyPresent", "Inserted",
                        "Unchanged", "Invalidated"} : [k EXCEPT !.ans = a] \in Call
  BY Zenon DEF Call

\* Begin, the common start of lookup and insert, keeps the types.
LEMMA BeginType ==
    ASSUME TypeOK, NEW c \in Client, NEW op \in {"lookup", "insert"},
           NEW p \in Proof, NEW A \in Authorities, Begin(c, op, p, A)
    PROVE  TypeOK'
  <1>1. [NoCall EXCEPT !.op = op, !.proof = p, !.auth = A] \in Call
    BY Zenon, NoEntryType DEF NoCall, Call, Proof
  <1>2. CASE binding_matches(c) /\ Unaliased(A)
    BY <1>1, <1>2 DEF TypeOK, Begin, Latch, binding_matches, Goto, Steps, storeVars, cacheVars
  <1>3. CASE ~(binding_matches(c) /\ Unaliased(A))
    BY <1>3, ReturnType DEF TypeOK, Begin, storeVars, cacheVars
  <1> QED BY <1>2, <1>3

\* The steps of one call keep the types.
LEMMA WorkType ==
    ASSUME TypeOK, NEW c \in Client, Work(c)
    PROVE  TypeOK'
  <1> USE DEF storeVars, cacheVars
  <1>1. CASE LockAuthority(c)
    BY Zenon, <1>1 DEF TypeOK, LockAuthority
  <1>2. CASE AuthorityPending(c)
    BY <1>2, ReturnType DEF TypeOK, AuthorityPending
  <1>3. CASE AuthorityDisagrees(c)
    BY <1>3, ReturnType DEF TypeOK, AuthorityDisagrees
  <1>4. CASE VectorRead(c)
    <2>1. [call[c] EXCEPT !.vec = Vector(c)] \in Call
      BY Zenon, CallUpdates, VectorType DEF TypeOK
    <2> QED BY <1>4, <2>1 DEF TypeOK, VectorRead, Goto, Steps
  <1>5. CASE InsertStale(c)
    BY <1>5, ReturnType DEF TypeOK, InsertStale
  <1>6. CASE BeginLock(c)
    <2>1. CASE binding_matches(c)
      BY <1>6, <2>1 DEF TypeOK, BeginLock, Latch, binding_matches, Goto, Steps
    <2>2. CASE ~binding_matches(c)
      BY <1>6, <2>2, ReturnType DEF TypeOK, BeginLock
    <2> QED BY <2>1, <2>2
  <1>7. CASE cleanup_temporaries(c)
    <2>1. CASE binding_matches(c)
      BY <1>7, <2>1 DEF TypeOK, cleanup_temporaries, Latch, binding_matches, Goto, Steps
    <2>2. CASE ~binding_matches(c)
      BY <1>7, <2>2, ReturnType DEF TypeOK, cleanup_temporaries
    <2> QED BY <2>1, <2>2
  <1>8. ASSUME NEW a \in {"Miss", "Unavailable", "Stale", "Hit", "AlreadyPresent", "Unchanged",
                          "Invalidated"}, Finish(c, a)
        PROVE  TypeOK'
    <2>1. [call[c] EXCEPT !.ans = a] \in Call
      BY Zenon, CallUpdates DEF TypeOK
    <2> QED BY <1>8, <2>1 DEF TypeOK, Finish, Goto, Steps
  <1>9. CASE LookupVisit(c)
    BY <1>8, <1>9 DEF LookupVisit
  <1>10. CASE InsertPresent(c)
    BY <1>8, <1>10 DEF InsertPresent
  <1>11. CASE InsertFull(c)
    BY <1>11, ReturnType DEF TypeOK, InsertFull
  <1>12. CASE InsertTemp(c)
    BY <1>12 DEF TypeOK, InsertTemp, Goto, Steps
  <1>13. CASE InsertRename(c)
    <2>0. call[c].vec \in Vectors
      BY DEF TypeOK, Call
    <2>1. [call[c] EXCEPT !.ans = "Inserted"] \in Call
      BY Zenon, CallUpdates DEF TypeOK
    <2>2. ASSUME NEW p PROVE [entries EXCEPT ![p] = call[c].vec] \in [Proof -> Vectors]
      BY Zenon, <2>0 DEF TypeOK
    <2>3. entries' \in [Proof -> Vectors]
      BY <1>13, <2>2, Zenon DEF InsertRename
    <2>4. temps' \subseteq Client /\ pc' \in [Client -> Steps]
      BY <1>13 DEF TypeOK, InsertRename, Goto, Steps
    <2>5. call' \in [Client -> Call]
      BY <1>13, <2>1 DEF TypeOK, InsertRename
    <2> QED BY <1>13, <2>3, <2>4, <2>5 DEF TypeOK, InsertRename
  <1>14. CASE InsertFails(c)
    BY <1>14, ReturnType DEF TypeOK, InsertFails
  <1>15. CASE InvalidateVisit(c)
    <2>1. CASE Outdated(c) = {}
      BY <1>8, <1>15, <2>1 DEF InvalidateVisit
    <2>2. CASE Outdated(c) # {}
      BY <1>15, <2>2 DEF TypeOK, InvalidateVisit, Goto, Steps
    <2> QED BY <2>1, <2>2
  <1>16. CASE InvalidateUnlink(c)
    <2>1. PICK p \in Outdated(c) : entries' = [entries EXCEPT ![p] = NoEntry]
      BY Zenon, <1>16 DEF InvalidateUnlink
    <2>2. [entries EXCEPT ![p] = NoEntry] \in [Proof -> Vectors]
      BY Zenon, NoEntryType DEF TypeOK
    <2>3. entries' \in [Proof -> Vectors]
      BY <2>1, <2>2, Zenon
    <2> QED BY <1>16, <2>3 DEF TypeOK, InvalidateUnlink
  <1>17. CASE InvalidateFails(c)
    BY <1>17, ReturnType DEF TypeOK, InvalidateFails
  <1>18. CASE InvalidateDone(c)
    BY <1>8, <1>18 DEF InvalidateDone
  <1>19. CASE PostCheck(c)
    BY <1>19, ReturnType DEF TypeOK, PostCheck
  <1> QED
    BY Zenon, <1>1, <1>2, <1>3, <1>4, <1>5, <1>6, <1>7, <1>9, <1>10, <1>11, <1>12, <1>13, <1>14,
       <1>15, <1>16, <1>17, <1>18, <1>19 DEF Work

\* Type correctness of stores, cache root and handles for every set of stores and clients.
THEOREM TypeCorrect == Spec => []TypeOK
  <1>1. Init => TypeOK
    BY NoEntryType, NoCallType DEF Init, TypeOK, Steps
  <1>2. TypeOK /\ [Next]_vars => TypeOK'
    <2> SUFFICES ASSUME TypeOK, [Next]_vars PROVE TypeOK'
      OBVIOUS
    <2>1. ASSUME NEW s \in Store, append(s) \/ sync(s) \/ sync_interrupted(s) PROVE TypeOK'
      <3>1. UNCHANGED clientVars
        BY <2>1 DEF append, sync, sync_interrupted
      <3>2. cp' \in [Store -> 0 .. MaxRev]
        BY <2>1 DEF TypeOK, append, sync, sync_interrupted
      <3>3. dirty' \in [Store -> BOOLEAN] /\ pend' \in [Store -> BOOLEAN]
        BY Zenon, <2>1 DEF TypeOK, append, sync, sync_interrupted
      <3> QED BY <3>1, <3>2, <3>3 DEF TypeOK, clientVars, cacheVars
    <2>2. CASE ReplaceRoot
      BY <2>2 DEF TypeOK, ReplaceRoot, storeVars, cacheVars
    <2>3. ASSUME NEW c \in Client, NEW p \in Proof, NEW A \in Authorities,
                 lookup(c, p, A) \/ insert(c, p, A)
          PROVE  TypeOK'
      BY <2>3, BeginType DEF lookup, insert
    <2>4. ASSUME NEW c \in Client, NEW s \in Store, NEW old \in 0 .. MaxRev,
                 invalidate_store(c, s, old)
          PROVE  TypeOK'
      <3>1. [NoCall EXCEPT !.op = "invalidate", !.proof = <<s, old>>] \in Call
        BY Zenon, NoEntryType, NoLabelsType DEF NoCall, Call
      <3> QED BY <2>4, <3>1 DEF TypeOK, invalidate_store, Goto, Steps, storeVars, cacheVars
    <2>5. ASSUME NEW c \in Client, Kill(c) PROVE TypeOK'
      BY <2>5, NoCallType DEF TypeOK, Kill, Release, Goto, Steps, storeVars, cacheVars
    <2>6. ASSUME NEW c \in Client, open(c) PROVE TypeOK'
      BY <2>6 DEF TypeOK, open, Goto, Steps, storeVars, cacheVars
    <2>7. CASE UNCHANGED vars
      BY <2>7 DEF TypeOK, vars, storeVars, cacheVars
    <2> QED BY <2>1, <2>2, <2>3, <2>4, <2>5, <2>6, <2>7, WorkType DEF Next
  <1> QED BY <1>1, <1>2, PTL DEF Spec

-----------------------------------------------------------------------------
(* Answers are current *)

\* Client c holds its dependency locks: from the reading of the vector to the answer.
Guarded(c) ==
    /\ pc[c] \in {"begin", "clean", "visit", "rename", "post"}
    /\ call[c].op \in {"lookup", "insert"}

\* What the program counter of client c implies: while the dependency locks are held
\* the labels name the stores, and the vector read is of their current checkpoints.
CallInv(c) ==
    /\ pc[c] = "lock" => call[c].op \in {"lookup", "insert"} /\ call[c].proof \in Proof
    /\ Guarded(c) => /\ call[c].proof \in Proof
                     /\ \A l \in DOMAIN call[c].auth :
                            call[c].auth[l] = l /\ owner[l] = c /\ ~dirty[l]
                     /\ call[c].vec = Vector(c)
                     /\ call[c].op = "insert" => SourceCurrent(c)
    /\ pc[c] = "rename" => call[c].op = "insert"
    /\ pc[c] = "unlink" => call[c].op = "invalidate"
    /\ pc[c] = "post" /\ call[c].ans = "Inserted" => call[c].op = "insert"
    /\ pc[c] = "post" /\ call[c].ans = "Hit" => call[c].op = "lookup" /\ SourceCurrent(c)

\* A store is locked only where the gate allowed it, and no sync starts under the lock.
LockedSettled == \A s \in Store : owner[s] # None => ~pend[s]

\* Every entry depends on the checkpoint that its proof was made at.
EntriesNameProof ==
    \A p \in Proof : entries[p] # NoEntry =>
        p[1] \in DOMAIN entries[p] /\ entries[p][p[1]] = p[2]

CacheInv == TypeOK /\ LockedSettled /\ EntriesNameProof /\ \A c \in Client : CallInv(c)

\* The steps of client c.
ClientStep(c) ==
    \/ \E p \in Proof, A \in Authorities : lookup(c, p, A) \/ insert(c, p, A)
    \/ \E s \in Store, old \in 0 .. MaxRev : invalidate_store(c, s, old)
    \/ Work(c) \/ Kill(c) \/ open(c)

\* A client moves no checkpoint, takes no lock that another one holds, and leaves the
\* calls of the others alone.
LEMMA ClientFrame ==
    ASSUME TypeOK, NEW c \in Client, ClientStep(c)
    PROVE  /\ UNCHANGED storeVars
           /\ \A d \in Client \ {c} : pc'[d] = pc[d] /\ call'[d] = call[d] /\ reset'[d] = reset[d]
           /\ \A s \in Store : owner'[s] = owner[s] \/ owner'[s] = None
                               \/ (owner[s] = None /\ ~pend[s] /\ owner'[s] = c)
           /\ \A s \in Store : owner'[s] # owner[s] => owner[s] \in {c, None}
  <1> DEFINE Frame ==
           /\ UNCHANGED storeVars
           /\ \A d \in Client \ {c} : pc'[d] = pc[d] /\ call'[d] = call[d] /\ reset'[d] = reset[d]
           /\ \A s \in Store : owner'[s] = owner[s] \/ owner'[s] = None
                               \/ (owner[s] = None /\ ~pend[s] /\ owner'[s] = c)
           /\ \A s \in Store : owner'[s] # owner[s] => owner[s] \in {c, None}
  <1> SUFFICES Frame
    OBVIOUS
  <1>1. ASSUME Return(c), UNCHANGED storeVars PROVE Frame
    BY Zenon, <1>1 DEF TypeOK, Return, Latch, Release, Goto
  <1>2. ASSUME NEW op, NEW p, NEW A, Begin(c, op, p, A) PROVE Frame
    <2>1. CASE binding_matches(c) /\ Unaliased(A)
      BY <1>2, <2>1 DEF TypeOK, Begin, Latch, Goto
    <2>2. CASE ~(binding_matches(c) /\ Unaliased(A))
      BY <1>1, <1>2, <2>2 DEF Begin
    <2> QED BY <2>1, <2>2
  <1>3. ASSUME NEW s, NEW old, invalidate_store(c, s, old) PROVE Frame
    BY <1>3 DEF TypeOK, invalidate_store, Goto
  <1>4. CASE LockAuthority(c)
    BY ZenonT(60), <1>4 DEF TypeOK, LockAuthority
  <1>5. CASE AuthorityPending(c) \/ AuthorityDisagrees(c) \/ InsertStale(c) \/ InsertFull(c)
             \/ InsertFails(c) \/ InvalidateFails(c) \/ PostCheck(c)
    BY Zenon, <1>1, <1>5 DEF AuthorityPending, AuthorityDisagrees, InsertStale, InsertFull, InsertFails,
                      InvalidateFails, PostCheck
  <1>6. CASE VectorRead(c)
    BY ZenonT(60), <1>6 DEF TypeOK, VectorRead, Goto
  <1>7. CASE BeginLock(c)
    <2>1. CASE binding_matches(c)
      BY SMTT(30), <1>7, <2>1 DEF TypeOK, BeginLock, Latch, Goto
    <2> QED BY <1>1, <1>7, <2>1 DEF BeginLock
  <1>8. CASE cleanup_temporaries(c)
    <2>1. CASE binding_matches(c)
      BY <1>8, <2>1 DEF TypeOK, cleanup_temporaries, Latch, Goto
    <2> QED BY <1>1, <1>8, <2>1 DEF cleanup_temporaries
  <1>9. ASSUME NEW a, Finish(c, a) PROVE Frame
    BY <1>9 DEF TypeOK, Finish, Goto
  <1>10. CASE LookupVisit(c) \/ InsertPresent(c) \/ InvalidateDone(c)
    BY Zenon, <1>9, <1>10 DEF LookupVisit, InsertPresent, InvalidateDone
  <1>11. CASE InsertTemp(c) \/ InsertRename(c)
    BY SMTT(30), <1>11 DEF TypeOK, InsertTemp, InsertRename, Goto
  <1>12. CASE InvalidateVisit(c)
    <2>1. CASE Outdated(c) = {}
      BY <1>9, <1>12, <2>1 DEF InvalidateVisit
    <2>2. CASE Outdated(c) # {}
      BY <1>12, <2>2 DEF TypeOK, InvalidateVisit, Goto
    <2> QED BY SMTT(30), <2>1, <2>2
  <1>13. CASE InvalidateUnlink(c)
    BY <1>13 DEF TypeOK, InvalidateUnlink
  <1>14. CASE Kill(c)
    BY <1>14 DEF TypeOK, Kill, Release, Goto
  <1>15. CASE open(c)
    BY Zenon, <1>15 DEF TypeOK, open, Goto
  <1>16. CASE Work(c)
    BY ZenonT(30), <1>4, <1>5, <1>6, <1>7, <1>8, <1>10, <1>11, <1>12, <1>13, <1>16 DEF Work
  <1>17. ASSUME NEW p \in Proof, NEW A \in Authorities, lookup(c, p, A) \/ insert(c, p, A)
         PROVE  Frame
    <2>1. CASE lookup(c, p, A)
      BY <1>2, <2>1 DEF lookup
    <2>2. CASE insert(c, p, A)
      BY <1>2, <2>2 DEF insert
    <2> QED BY Zenon, <1>17, <2>1, <2>2
  <1> HIDE DEF Frame
  <1> QED BY Zenon, <1>3, <1>14, <1>15, <1>16, <1>17 DEF ClientStep

\* What holds for a call still holds after a step of another client.
LEMMA OthersKept ==
    ASSUME TypeOK, NEW c \in Client, NEW d \in Client \ {c}, ClientStep(c), CallInv(d)
    PROVE  CallInv(d)'
  <1>1. pc'[d] = pc[d] /\ call'[d] = call[d] /\ UNCHANGED <<cp, dirty, pend>>
    BY ZenonT(60), ClientFrame DEF storeVars
  <1>2. \A s \in Store : owner[s] = d => owner'[s] = d
    BY ClientFrame, CacheAssumption
  <1>3. DOMAIN call[d].auth \subseteq Store
    BY Zenon, LabelsType
  <1>4. SourceCurrent(d)' = SourceCurrent(d) /\ Vector(d)' = Vector(d) /\ Guarded(d)' = Guarded(d)
    BY <1>1 DEF SourceCurrent, Vector, Guarded
  <1> QED BY Zenon, <1>1, <1>2, <1>3, <1>4 DEF CallInv

\* A call that has returned or died claims nothing.
LEMMA Quiet ==
    ASSUME NEW c \in Client, pc'[c] \in {"idle", "dead"}
    PROVE  CallInv(c)'
  BY DEF CallInv, Guarded

\* The step from reading the entry to the answer: a Hit is of the current checkpoint.
LEMMA FinishKept ==
    ASSUME CacheInv, NEW c \in Client, NEW a, Finish(c, a),
           pc[c] \in {"visit", "unlink"}, a # "Inserted",
           a = "Hit" => call[c].op = "lookup" /\ Found(c) = call[c].vec /\ Found(c) # NoEntry
    PROVE  CallInv(c)'
  <1> USE DEF CacheInv, TypeOK
  <1>1. pc'[c] = "post" /\ UNCHANGED <<cp, dirty, pend, owner>>
    BY DEF Finish, Goto, storeVars
  <1>2. /\ call'[c].op = call[c].op /\ call'[c].proof = call[c].proof
        /\ call'[c].auth = call[c].auth /\ call'[c].vec = call[c].vec /\ call'[c].ans = a
    BY SMTT(30) DEF Finish, Call
  <1>3. SourceCurrent(c)' = SourceCurrent(c) /\ Vector(c)' = Vector(c)
    BY Zenon, <1>1, <1>2 DEF SourceCurrent, Vector
  <1>4. ASSUME a = "Hit" PROVE SourceCurrent(c)
    <2>1. pc[c] = "visit" /\ Guarded(c)
      BY Zenon, <1>4 DEF Guarded, CallInv
    <2>2. call[c].proof \in Proof /\ call[c].vec = Vector(c)
      BY Zenon, <2>1 DEF CallInv
    <2>3. /\ call[c].proof[1] \in DOMAIN Vector(c)
          /\ Vector(c)[call[c].proof[1]] = call[c].proof[2]
      BY ZenonT(60), <1>4, <2>2 DEF EntriesNameProof, Found
    <2> QED BY Zenon, <2>3 DEF SourceCurrent
  <1>5. Guarded(c)' => Guarded(c)
    BY <1>1, <1>2 DEF Guarded, CallInv
  <1>6. CallInv(c)
    OBVIOUS
  <1> HIDE DEF CacheInv, TypeOK
  <1> QED BY <1>1, <1>2, <1>3, <1>4, <1>5, <1>6 DEF CallInv

\* The steps of client c keep what its own program counter implies.
LEMMA OwnKept ==
    ASSUME CacheInv, NEW c \in Client, ClientStep(c)
    PROVE  CallInv(c)'
  <1>0. TypeOK /\ CallInv(c)
    BY DEF CacheInv
  <1>1. ASSUME Return(c) PROVE CallInv(c)'
    <2>1. pc'[c] = "idle"
      BY <1>0, <1>1 DEF TypeOK, Return, Goto
    <2> QED BY <2>1, Quiet
  <1>2. ASSUME NEW op \in {"lookup", "insert"}, NEW p \in Proof, NEW A, Begin(c, op, p, A)
        PROVE  CallInv(c)'
    <2>1. CASE binding_matches(c) /\ Unaliased(A)
      <3>1. pc'[c] = "lock" /\ call'[c].op = op /\ call'[c].proof = p
        <4>1. call'[c] = [NoCall EXCEPT !.op = op, !.proof = p, !.auth = A]
          BY <1>0, <1>2, <2>1 DEF TypeOK, Begin
        <4>2. pc'[c] = "lock"
          BY <1>0, <1>2, <2>1 DEF TypeOK, Begin, Goto
        <4> QED BY <4>1, <4>2 DEF NoCall
      <3> QED BY <3>1 DEF CallInv, Guarded
    <2> QED BY ZenonT(60), <1>1, <1>2, <2>1 DEF Begin
  <1>3. ASSUME NEW s, NEW old, invalidate_store(c, s, old) PROVE CallInv(c)'
    <2>1. pc'[c] = "begin" /\ call'[c].op = "invalidate"
      BY <1>0, <1>3 DEF TypeOK, invalidate_store, Goto, NoCall
    <2> QED BY <2>1 DEF CallInv, Guarded
  <1>4. CASE LockAuthority(c)
    BY ZenonT(60), <1>0, <1>4 DEF LockAuthority, CallInv, Guarded
  <1>5. CASE AuthorityPending(c) \/ AuthorityDisagrees(c) \/ InsertStale(c) \/ InsertFull(c)
             \/ InsertFails(c) \/ InvalidateFails(c) \/ PostCheck(c)
    BY ZenonT(60), <1>1, <1>5 DEF AuthorityPending, AuthorityDisagrees, InsertStale, InsertFull, InsertFails,
                      InvalidateFails, PostCheck
  <1>6. CASE VectorRead(c)
    <2>1. pc'[c] = "begin" /\ UNCHANGED <<cp, dirty, owner>>
      BY <1>0, <1>6 DEF TypeOK, VectorRead, Goto, storeVars
    <2>2. /\ call'[c].op = call[c].op /\ call'[c].proof = call[c].proof
          /\ call'[c].auth = call[c].auth /\ call'[c].vec = Vector(c)
      BY SMTT(30), <1>0, <1>6 DEF TypeOK, VectorRead, Call
    <2>3. SourceCurrent(c)' = SourceCurrent(c) /\ Vector(c)' = Vector(c)
      BY <2>1, <2>2 DEF SourceCurrent, Vector
    <2>4. \A l \in DOMAIN call[c].auth : call[c].auth[l] = l /\ owner[l] = c /\ ~dirty[l]
      BY <1>6 DEF VectorRead, Unlocked, Agreed
    <2>5. call[c].op = "insert" => SourceCurrent(c)
      BY <1>6 DEF VectorRead
    <2>6. call[c].op \in {"lookup", "insert"} /\ call[c].proof \in Proof
      BY ZenonT(60), <1>0, <1>6 DEF VectorRead, CallInv
    <2> QED BY <2>1, <2>2, <2>3, <2>4, <2>5, <2>6 DEF CallInv
  <1>7. ASSUME pc[c] \in {"begin", "clean", "visit"}, pc'[c] \in {"clean", "visit", "rename", "unlink"},
               pc'[c] = "rename" => call[c].op = "insert",
               pc'[c] = "unlink" => call[c].op = "invalidate",
               UNCHANGED <<cp, dirty, owner, call>>
        PROVE  CallInv(c)'
    <2>1. SourceCurrent(c)' = SourceCurrent(c) /\ Vector(c)' = Vector(c)
      BY <1>7 DEF SourceCurrent, Vector
    <2>2. Guarded(c)' => Guarded(c)
      BY <1>7 DEF Guarded
    <2> QED BY <1>0, <1>7, <2>1, <2>2 DEF CallInv
  <1>8. CASE BeginLock(c)
    <2>1. CASE binding_matches(c)
      BY <1>0, <1>7, <1>8, <2>1 DEF TypeOK, BeginLock, Goto, storeVars
    <2> QED BY <1>1, <1>8, <2>1 DEF BeginLock
  <1>9. CASE cleanup_temporaries(c)
    <2>1. CASE binding_matches(c)
      BY Zenon, <1>0, <1>7, <1>9, <2>1 DEF TypeOK, cleanup_temporaries, Goto, storeVars
    <2> QED BY Zenon, <1>1, <1>9, <2>1 DEF cleanup_temporaries
  <1>10. CASE LookupVisit(c)
    BY <1>10, FinishKept DEF LookupVisit
  <1>11. CASE InsertPresent(c)
    BY <1>11, FinishKept DEF InsertPresent
  <1>12. CASE InsertTemp(c)
    BY ZenonT(60), <1>0, <1>7, <1>12 DEF TypeOK, InsertTemp, Goto, storeVars
  <1>13. CASE InsertRename(c)
    <2>1. pc'[c] = "post" /\ UNCHANGED <<cp, dirty, owner>>
      BY <1>0, <1>13 DEF TypeOK, InsertRename, Goto, storeVars
    <2>2. /\ call'[c].op = call[c].op /\ call'[c].proof = call[c].proof
          /\ call'[c].auth = call[c].auth /\ call'[c].vec = call[c].vec
          /\ call'[c].ans = "Inserted"
      BY SMTT(30), <1>0, <1>13 DEF TypeOK, InsertRename, Call
    <2>3. SourceCurrent(c)' = SourceCurrent(c) /\ Vector(c)' = Vector(c)
      BY <2>1, <2>2 DEF SourceCurrent, Vector
    <2>4. call[c].op = "insert" /\ Guarded(c)
      BY <1>0, <1>13 DEF InsertRename, CallInv, Guarded
    <2> QED BY <1>0, <2>1, <2>2, <2>3, <2>4 DEF CallInv
  <1>14. CASE InvalidateVisit(c)
    <2>1. CASE Outdated(c) = {}
      BY <1>14, <2>1, FinishKept DEF InvalidateVisit
    <2>2. CASE Outdated(c) # {}
      BY ZenonT(60), <1>0, <1>7, <1>14, <2>2 DEF TypeOK, InvalidateVisit, Goto, storeVars
    <2> QED BY Zenon, <2>1, <2>2
  <1>15. CASE InvalidateUnlink(c)
    BY Zenon, <1>0, <1>15 DEF InvalidateUnlink, CallInv, Guarded
  <1>16. CASE InvalidateDone(c)
    BY <1>16, FinishKept DEF InvalidateDone
  <1>17. CASE Kill(c) \/ open(c)
    <2>1. pc'[c] \in {"idle", "dead"}
      BY <1>0, <1>17 DEF TypeOK, Kill, open, Goto
    <2> QED BY <2>1, Quiet
  <1>18. CASE Work(c)
    BY Zenon, <1>4, <1>5, <1>6, <1>8, <1>9, <1>10, <1>11, <1>12, <1>13, <1>14, <1>15, <1>16, <1>18
       DEF Work
  <1>19. ASSUME NEW p \in Proof, NEW A \in Authorities, lookup(c, p, A) \/ insert(c, p, A)
         PROVE  CallInv(c)'
    BY <1>2, <1>19 DEF lookup, insert
  <1> QED BY <1>3, <1>17, <1>18, <1>19 DEF ClientStep

\* Every entry keeps naming the checkpoint of its proof, and locked stores stay settled.
LEMMA SharedKept ==
    ASSUME CacheInv, NEW c \in Client, ClientStep(c)
    PROVE  LockedSettled' /\ EntriesNameProof'
  <1>1. LockedSettled'
    BY ClientFrame DEF CacheInv, TypeOK, LockedSettled, storeVars
  <1>2. ASSUME UNCHANGED entries PROVE EntriesNameProof'
    BY <1>2 DEF CacheInv, EntriesNameProof
  <1>3. CASE InsertRename(c)
    <2>1. call[c].op = "insert" /\ Guarded(c) /\ CallInv(c)
      BY Zenon, <1>3 DEF CacheInv, InsertRename, CallInv, Guarded
    <2>2. call[c].vec = Vector(c) /\ SourceCurrent(c)
      BY ZenonT(60), <2>1 DEF CallInv
    <2>3. /\ call[c].proof[1] \in DOMAIN call[c].vec
          /\ call[c].vec[call[c].proof[1]] = call[c].proof[2]
      BY Zenon, <2>2 DEF SourceCurrent
    <2>4. /\ DOMAIN entries = Proof
          /\ entries' = [entries EXCEPT ![call[c].proof] = call[c].vec]
      BY <1>3 DEF CacheInv, TypeOK, InsertRename
    <2> QED BY <1>1, <2>3, <2>4 DEF CacheInv, EntriesNameProof
  <1>4. CASE InvalidateUnlink(c)
    <2>1. PICK q \in Outdated(c) : entries' = [entries EXCEPT ![q] = NoEntry]
      BY Zenon, <1>4 DEF InvalidateUnlink
    <2>2. DOMAIN entries = Proof
      BY DEF CacheInv, TypeOK
    <2> QED BY <1>1, <2>1, <2>2 DEF CacheInv, EntriesNameProof
  <1>5. CASE ~InsertRename(c) /\ ~InvalidateUnlink(c)
    <2>1. UNCHANGED entries
      BY Zenon, <1>5 DEF ClientStep, lookup, insert, Begin, invalidate_store, Kill, open, Work, LockAuthority,
             AuthorityPending, BeginLock, AuthorityDisagrees, VectorRead, InsertStale,
             cleanup_temporaries, LookupVisit, InsertPresent, InsertFull, InsertTemp,
             InsertFails, InvalidateVisit, InvalidateFails, InvalidateDone, PostCheck,
             Finish, cacheVars
    <2> QED BY <1>1, <1>2, <2>1
  <1> QED BY ZenonT(60), <1>1, <1>3, <1>4, <1>5

\* The inductive invariant behind AnswersCurrent.
THEOREM CacheInvariant == Spec => []CacheInv
  <1>1. Init => CacheInv
    <2> SUFFICES ASSUME Init PROVE CacheInv
      OBVIOUS
    <2>1. TypeOK
      BY NoEntryType, NoCallType DEF Init, TypeOK, Steps
    <2> QED BY <2>1 DEF Init, CacheInv, LockedSettled, EntriesNameProof, CallInv, Guarded
  <1>2. CacheInv /\ TypeOK' /\ [Next]_vars => CacheInv'
    <2> SUFFICES ASSUME CacheInv, TypeOK', [Next]_vars PROVE CacheInv'
      OBVIOUS
    <2>1. ASSUME NEW c \in Client, ClientStep(c) PROVE CacheInv'
      <3>1. ASSUME NEW d \in Client PROVE CallInv(d)'
        BY <2>1, OwnKept, OthersKept DEF CacheInv
      <3> QED BY <2>1, <3>1, SharedKept DEF CacheInv
    <2>2. ASSUME NEW s \in Store, append(s) \/ sync(s) \/ sync_interrupted(s) PROVE CacheInv'
      <3>1. UNCHANGED <<owner, entries, pc, call>> /\ owner[s] = None
        BY <2>2 DEF append, sync, sync_interrupted, clientVars, cacheVars
      <3>2. \A t \in Store \ {s} : cp'[t] = cp[t] /\ dirty'[t] = dirty[t] /\ pend'[t] = pend[t]
        BY SMTT(30), <2>2 DEF CacheInv, TypeOK, append, sync, sync_interrupted
      <3>3. LockedSettled' /\ EntriesNameProof'
        BY <3>1, <3>2 DEF CacheInv, LockedSettled, EntriesNameProof
      <3>4. ASSUME NEW d \in Client PROVE CallInv(d)'
        <4>1. CallInv(d) /\ DOMAIN call[d].auth \subseteq Store /\ None # d
          BY Zenon, CacheAssumption, LabelsType DEF CacheInv
        <4>2. CASE Guarded(d)
          <5>1. s \notin DOMAIN call[d].auth
            BY <3>1, <4>1, <4>2 DEF CallInv
          <5>2. \A t \in DOMAIN call[d].auth :
                    call[d].auth[t] = t /\ cp'[t] = cp[t] /\ dirty'[t] = dirty[t]
            BY Zenon, <3>2, <4>1, <4>2, <5>1 DEF CallInv
          <5>3. SourceCurrent(d)' = SourceCurrent(d) /\ Vector(d)' = Vector(d)
            BY ZenonT(60), <3>1, <5>2 DEF SourceCurrent, Vector
          <5> QED BY ZenonT(60), <3>1, <4>1, <4>2, <5>2, <5>3 DEF CallInv, Guarded
        <4>3. CASE ~Guarded(d)
          BY Zenon, <3>1, <4>1, <4>3 DEF CallInv, Guarded
        <4> QED BY Zenon, <4>2, <4>3
      <3> QED BY Zenon, <3>3, <3>4 DEF CacheInv
    <2>3. CASE ReplaceRoot \/ UNCHANGED vars
      <3>1. UNCHANGED <<cp, dirty, pend, owner, entries, pc, call>>
        BY <2>3 DEF ReplaceRoot, vars, storeVars, cacheVars
      <3>2. LockedSettled' /\ EntriesNameProof'
        BY ZenonT(60), <3>1 DEF CacheInv, LockedSettled, EntriesNameProof
      <3>3. ASSUME NEW d \in Client PROVE CallInv(d)'
        <4>1. Guarded(d)' = Guarded(d) /\ Vector(d)' = Vector(d)
          BY Zenon, <3>1 DEF Guarded, Vector
        <4>2. SourceCurrent(d)' = SourceCurrent(d)
          BY Zenon, <3>1, <4>1 DEF SourceCurrent
        <4>3. CallInv(d)
          BY Zenon DEF CacheInv
        <4> QED BY Zenon, <3>1, <4>1, <4>2, <4>3 DEF CallInv
      <3> QED BY <3>2, <3>3 DEF CacheInv
    <2> QED BY <2>1, <2>2, <2>3 DEF Next, ClientStep
  <1> QED BY <1>1, <1>2, TypeCorrect, PTL DEF Spec

\* A Hit or a publication is decided under the locks of all dependencies, and is of their
\* current checkpoints (ProofCache::lookup, insert), whatever stores the callers label as
\* whatever others, however many stores, processes and entries there are and wherever
\* processes die.
THEOREM AnswersStayCurrent == Spec => []AnswersCurrent
  <1>1. CacheInv => AnswersCurrent
    <2> SUFFICES ASSUME CacheInv, NEW c \in Client,
                        pc[c] = "rename" \/ (pc[c] = "post" /\ call[c].ans \in {"Hit", "Inserted"})
                 PROVE  /\ call[c].proof[1] \in DOMAIN call[c].vec
                        /\ cp[call[c].proof[1]] = call[c].proof[2]
                        /\ \A s \in DOMAIN call[c].vec :
                              call[c].vec[s] = cp[s] /\ ~dirty[s] /\ ~pend[s]
      BY Zenon DEF AnswersCurrent
    <2>1. CallInv(c) /\ DOMAIN call[c].auth \subseteq Store
      BY Zenon, LabelsType DEF CacheInv
    <2>2. Guarded(c) /\ SourceCurrent(c)
      BY <2>1 DEF CallInv, Guarded
    <2>3. /\ call[c].vec = Vector(c)
          /\ \A s \in DOMAIN call[c].auth : call[c].auth[s] = s /\ owner[s] = c /\ ~dirty[s]
      BY Zenon, <2>1, <2>2 DEF CallInv
    <2>4. \A s \in DOMAIN call[c].auth : ~pend[s]
      BY ZenonT(30), <2>1, <2>3, CacheAssumption DEF CacheInv, LockedSettled
    <2>5. DOMAIN Vector(c) = DOMAIN call[c].auth /\ \A s \in DOMAIN call[c].auth : Vector(c)[s] = cp[s]
      BY Zenon, <2>3 DEF Vector
    <2>6. call[c].proof[1] \in DOMAIN call[c].auth /\ cp[call[c].proof[1]] = call[c].proof[2]
      BY Zenon, <2>2, <2>5 DEF SourceCurrent
    <2> QED BY Zenon, <2>3, <2>4, <2>5, <2>6
  <1> QED BY <1>1, CacheInvariant, PTL

-----------------------------------------------------------------------------
(* A replaced root is never read again *)

\* A handle that has latched is between calls, or waits for the cache lock.
ResetInv == \A c \in Client : reset[c] => pc[c] \in {"idle", "begin"}

\* The same about one step: a latched handle stays latched until its process dies.
LEMMA LatchKept ==
    ASSUME TypeOK, ResetInv, NEW c \in Client, ClientStep(c)
    PROVE  /\ reset'[c] => pc'[c] \in {"idle", "begin"}
           /\ reset[c] => pc'[c] = "dead" \/ (reset'[c] /\ pc'[c] \in {"idle", "begin"})
  <1> DEFINE Latched ==
           /\ reset'[c] => pc'[c] \in {"idle", "begin"}
           /\ reset[c] => pc'[c] = "dead" \/ (reset'[c] /\ pc'[c] \in {"idle", "begin"})
  <1> SUFFICES Latched
    OBVIOUS
  <1>0. reset[c] => pc[c] \in {"idle", "begin"}
    BY DEF ResetInv
  <1>1. ASSUME Return(c) PROVE Latched
    BY <1>1 DEF TypeOK, Return, Latch, Goto, binding_matches
  <1>2. ASSUME binding_matches(c), Latch(c) PROVE Latched
    BY Zenon, <1>2 DEF TypeOK, Latch, binding_matches
  <1>3. ASSUME UNCHANGED reset, pc[c] \notin {"idle", "begin"} PROVE Latched
    BY <1>0, <1>3
  <1>4. ASSUME NEW op, NEW p, NEW A, Begin(c, op, p, A) PROVE Latched
    BY <1>1, <1>2, <1>4 DEF Begin
  <1>5. ASSUME NEW s, NEW old, invalidate_store(c, s, old) PROVE Latched
    BY Zenon, <1>5 DEF TypeOK, invalidate_store, Goto
  <1>6. CASE AuthorityPending(c) \/ AuthorityDisagrees(c) \/ InsertStale(c) \/ InsertFull(c)
             \/ InsertFails(c) \/ InvalidateFails(c) \/ PostCheck(c)
    BY Zenon, <1>1, <1>6 DEF AuthorityPending, AuthorityDisagrees, InsertStale, InsertFull, InsertFails,
                      InvalidateFails, PostCheck
  <1>7. CASE BeginLock(c) \/ cleanup_temporaries(c)
    BY Zenon, <1>1, <1>2, <1>7 DEF BeginLock, cleanup_temporaries
  <1>8. CASE LockAuthority(c) \/ VectorRead(c) \/ LookupVisit(c) \/ InsertPresent(c)
             \/ InsertTemp(c) \/ InsertRename(c) \/ InvalidateVisit(c) \/ InvalidateUnlink(c)
             \/ InvalidateDone(c)
    <2>1. UNCHANGED reset /\ pc[c] \notin {"idle", "begin"}
      BY <1>8 DEF LockAuthority, VectorRead, LookupVisit, InsertPresent, InsertTemp,
                  InsertRename, InvalidateVisit, InvalidateUnlink, InvalidateDone, Finish
    <2> QED BY Zenon, <1>3, <2>1
  <1>9. CASE Kill(c) \/ open(c)
    BY Zenon, <1>0, <1>9 DEF TypeOK, Kill, open, Goto
  <1>10. CASE Work(c)
    BY Zenon, <1>6, <1>7, <1>8, <1>10 DEF Work
  <1> HIDE DEF Latched
  <1> QED BY <1>4, <1>5, <1>9, <1>10 DEF ClientStep, lookup, insert

\* A handle that has seen its cache root replaced (binding_matches) never takes a lock or
\* reads an entry again while its process lives.
THEOREM ResetStaysLatched == Spec => ResetLatched
  <1>1. Init => ResetInv
    BY Zenon DEF Init, ResetInv
  <1>2. ASSUME TypeOK, ResetInv, [Next]_vars
        PROVE  /\ ResetInv'
               /\ [\A c \in Client : reset[c] =>
                      pc'[c] = "dead" \/ (reset'[c] /\ pc'[c] \in {"idle", "begin"})]_vars
    <2>1. ASSUME NEW c \in Client, ClientStep(c), NEW d \in Client
          PROVE  /\ reset'[d] => pc'[d] \in {"idle", "begin"}
                 /\ reset[d] => pc'[d] = "dead" \/ (reset'[d] /\ pc'[d] \in {"idle", "begin"})
      <3>1. CASE d = c
        BY Zenon, <1>2, <2>1, <3>1, LatchKept
      <3>2. CASE d # c
        BY SMTT(30), <1>2, <2>1, <3>2, ClientFrame DEF ResetInv
      <3> QED BY Zenon, <3>1, <3>2
    <2>2. CASE \E c \in Client : ClientStep(c)
      BY Zenon, <2>1, <2>2 DEF ResetInv
    <2>3. CASE UNCHANGED <<reset, pc>>
      BY <1>2, <2>3 DEF ResetInv
    <2>4. CASE ReplaceRoot \/ (\E s \in Store : append(s) \/ sync(s) \/ sync_interrupted(s))
      BY Zenon, <2>3, <2>4 DEF ReplaceRoot, append, sync, sync_interrupted, clientVars
    <2>5. CASE UNCHANGED vars
      BY <2>3, <2>5 DEF vars
    <2> QED BY Zenon, <1>2, <2>2, <2>4, <2>5 DEF Next, ClientStep
  <1> QED BY <1>1, <1>2, TypeCorrect, PTL DEF Spec, ResetLatched

-----------------------------------------------------------------------------
(* The cache directory is readable *)

\* The steps between taking and releasing the lock of the cache root.
Cached == {"clean", "visit", "rename", "unlink", "post"}

\* One client at a time works under the cache lock.  While it reads, the directory holds
\* final entries only; while it renames, its own temporary file and room for the entry.
LayoutInv ==
    /\ \A c \in Client : cacheOwner = c <=> pc[c] \in Cached
    /\ \A c \in Client : pc[c] \in {"visit", "unlink", "post"} => temps = {}
    /\ \A c \in Client : pc[c] = "rename" => temps \subseteq {c} /\ HasRoom(c)
    /\ IsFiniteSet(Finals) /\ Cardinality(Finals) <= MaxEntries

\* What a step of client c does to the cache root and to its own view of it.
LayoutKept(c) ==
    /\ \/ cacheOwner' = cacheOwner
       \/ cacheOwner = None /\ cacheOwner' = c
       \/ cacheOwner = c /\ cacheOwner' = None
    /\ cacheOwner' = c <=> pc'[c] \in Cached
    /\ pc[c] \notin Cached => UNCHANGED cacheVars
    /\ pc'[c] \in {"visit", "unlink", "post"} => temps' = {}
    /\ pc'[c] = "rename" => temps' \subseteq {c} /\ HasRoom(c)'
    /\ IsFiniteSet(Finals') /\ Cardinality(Finals') <= MaxEntries

\* A rename adds at most the entry it has room for, and an unlink only removes.
LEMMA FinalsKept ==
    ASSUME TypeOK, LayoutInv, NEW p \in Proof, NEW v, entries' = [entries EXCEPT ![p] = v],
           v = NoEntry \/ entries[p] # NoEntry \/ Cardinality(Finals) # MaxEntries
    PROVE  IsFiniteSet(Finals') /\ Cardinality(Finals') <= MaxEntries
  <1>1. \A q \in Proof : entries'[q] = IF q = p THEN v ELSE entries[q]
    BY DEF TypeOK
  <1>2. IsFiniteSet(Finals) /\ Cardinality(Finals) \in Nat /\ Cardinality(Finals) <= MaxEntries
    BY FS_CardinalityType DEF LayoutInv
  <1>3. CASE v = NoEntry \/ entries[p] # NoEntry
    <2>1. Finals' \subseteq Finals
      BY <1>1, <1>3 DEF Finals
    <2>2. IsFiniteSet(Finals') /\ Cardinality(Finals') <= Cardinality(Finals)
      BY <1>2, <2>1, FS_Subset
    <2>3. Cardinality(Finals') \in Nat
      BY <2>2, FS_CardinalityType
    <2> QED BY <1>2, <2>2, <2>3
  <1>4. CASE v # NoEntry /\ entries[p] = NoEntry
    <2>1. Finals' = Finals \cup {p} /\ p \notin Finals
      BY <1>1, <1>4 DEF Finals
    <2>2. IsFiniteSet(Finals \cup {p}) /\ Cardinality(Finals \cup {p}) = Cardinality(Finals) + 1
      BY <1>2, <2>1, FS_AddElement
    <2>3. Cardinality(Finals) < MaxEntries
      BY <1>2, <1>4, CacheAssumption
    <2> QED BY <1>2, <2>1, <2>2, <2>3, CacheAssumption
  <1> QED BY <1>3, <1>4

\* Each step of a client keeps the directory as LayoutInv says.
LEMMA OwnLayout ==
    ASSUME CacheInv, LayoutInv, NEW c \in Client, ClientStep(c)
    PROVE  LayoutKept(c)
  <1> USE DEF storeVars, cacheVars
  <1>0. /\ TypeOK /\ c # None /\ (cacheOwner = c <=> pc[c] \in Cached)
        /\ pc[c] \in {"visit", "unlink", "post"} => temps = {}
        /\ pc[c] = "rename" => temps \subseteq {c} /\ HasRoom(c)
        /\ IsFiniteSet(Finals) /\ Cardinality(Finals) <= MaxEntries
    BY CacheAssumption DEF CacheInv, LayoutInv
  <1>a. UNCHANGED entries => UNCHANGED Finals
    BY Zenon DEF Finals
  <1>1. ASSUME Return(c), UNCHANGED entries, pc[c] \notin Cached => UNCHANGED temps
        PROVE  LayoutKept(c)
    <2>1. pc'[c] = "idle"
      BY Zenon, <1>0, <1>1 DEF Return, Goto, TypeOK
    <2>2. cacheOwner' = IF cacheOwner = c THEN None ELSE cacheOwner
      BY Zenon, <1>1 DEF Return, Release
    <2> QED BY Zenon, <1>0, <1>a, <1>1, <2>1, <2>2 DEF LayoutKept, Cached
  <1>2. ASSUME UNCHANGED <<entries, temps, cacheOwner>>,
               pc'[c] \in Cached <=> pc[c] \in Cached,
               pc'[c] \in {"visit", "unlink", "post"} => pc[c] \in {"visit", "unlink", "post"},
               pc'[c] # "rename"
        PROVE  LayoutKept(c)
    BY <1>0, <1>a, <1>2 DEF LayoutKept
  <1>3. ASSUME NEW op, NEW p, NEW A, Begin(c, op, p, A) PROVE LayoutKept(c)
    <2>1. CASE binding_matches(c) /\ Unaliased(A)
      <3>1. UNCHANGED <<entries, temps, cacheOwner>> /\ pc[c] = "idle" /\ pc'[c] = "lock"
        BY Zenon, <1>0, <1>3, <2>1 DEF Begin, Goto, TypeOK
      <3> QED BY <1>2, <3>1 DEF Cached
    <2> QED BY Zenon, <1>1, <1>3, <2>1 DEF Begin
  <1>4. ASSUME NEW s, NEW old, invalidate_store(c, s, old) PROVE LayoutKept(c)
    <2>1. UNCHANGED <<entries, temps, cacheOwner>> /\ pc[c] = "idle" /\ pc'[c] = "begin"
      BY ZenonT(60), <1>0, <1>4 DEF invalidate_store, Goto, TypeOK
    <2> QED BY <1>2, <2>1 DEF Cached
  <1>5. CASE AuthorityPending(c) \/ AuthorityDisagrees(c) \/ InsertStale(c) \/ InsertFull(c)
             \/ InvalidateFails(c) \/ PostCheck(c)
    BY Zenon, <1>1, <1>5 DEF AuthorityPending, AuthorityDisagrees, InsertStale, InsertFull,
                      InvalidateFails, PostCheck
  <1>6. CASE LockAuthority(c)
    <2>1. UNCHANGED <<entries, temps, cacheOwner>> /\ pc[c] = "lock" /\ pc'[c] = "lock"
      BY Zenon, <1>6 DEF LockAuthority
    <2> QED BY <1>2, <2>1 DEF Cached
  <1>7. CASE VectorRead(c)
    <2>1. UNCHANGED <<entries, temps, cacheOwner>> /\ pc[c] = "lock" /\ pc'[c] = "begin"
      BY <1>0, <1>7 DEF VectorRead, Goto, TypeOK
    <2> QED BY <1>2, <2>1 DEF Cached
  <1>8. CASE BeginLock(c)
    <2>1. CASE binding_matches(c)
      <3>1. /\ UNCHANGED <<entries, temps>> /\ cacheOwner = None /\ cacheOwner' = c
            /\ pc[c] = "begin" /\ pc'[c] = "clean"
        BY <1>0, <1>8, <2>1 DEF BeginLock, Goto, TypeOK
      <3> QED BY Zenon, <1>0, <1>a, <3>1 DEF LayoutKept, Cached
    <2> QED BY Zenon, <1>1, <1>8, <2>1 DEF BeginLock
  <1>9. CASE cleanup_temporaries(c)
    <2>0. pc[c] = "clean" /\ UNCHANGED entries /\ temps' = {}
      BY Zenon, <1>9 DEF cleanup_temporaries
    <2>1. CASE binding_matches(c)
      <3>1. UNCHANGED cacheOwner /\ pc'[c] = "visit"
        BY <1>0, <1>9, <2>1 DEF cleanup_temporaries, Goto, TypeOK
      <3> QED BY Zenon, <1>0, <1>a, <2>0, <3>1 DEF LayoutKept, Cached
    <2>2. CASE ~binding_matches(c)
      BY ZenonT(60), <1>1, <1>9, <2>0, <2>2 DEF cleanup_temporaries, Cached
    <2> QED BY <2>1, <2>2
  <1>10. ASSUME NEW a, Finish(c, a), pc[c] \in {"visit", "unlink"} PROVE LayoutKept(c)
    <2>1. UNCHANGED <<entries, temps, cacheOwner>> /\ pc'[c] = "post"
      BY <1>0, <1>10 DEF Finish, Goto, TypeOK
    <2> QED BY <1>2, <1>10, <2>1 DEF Cached
  <1>11. CASE LookupVisit(c) \/ InsertPresent(c) \/ InvalidateDone(c)
    BY ZenonT(60), <1>10, <1>11 DEF LookupVisit, InsertPresent, InvalidateDone
  <1>12. CASE InsertTemp(c)
    <2>1. /\ UNCHANGED <<entries, cacheOwner, call>> /\ temps' = temps \cup {c} /\ HasRoom(c)
          /\ pc[c] = "visit" /\ pc'[c] = "rename"
      BY Zenon, <1>0, <1>12 DEF InsertTemp, Goto, TypeOK
    <2>2. HasRoom(c)'
      BY ZenonT(60), <1>a, <2>1 DEF HasRoom, Found
    <2> QED BY <1>0, <1>a, <2>1, <2>2 DEF LayoutKept, Cached
  <1>13. CASE InsertRename(c)
    <2>1. /\ UNCHANGED cacheOwner /\ temps' = temps \ {c} /\ pc[c] = "rename" /\ pc'[c] = "post"
          /\ entries' = [entries EXCEPT ![call[c].proof] = call[c].vec]
      BY Zenon, <1>0, <1>13 DEF InsertRename, Goto, TypeOK
    <2>2. call[c].proof \in Proof
      <3>1. CallInv(c)
        BY ZenonT(60) DEF CacheInv
      <3>2. Guarded(c)
        BY <2>1, <3>1 DEF CallInv, Guarded
      <3> QED BY Zenon, <3>1, <3>2 DEF CallInv
    <2>3. IsFiniteSet(Finals') /\ Cardinality(Finals') <= MaxEntries
      BY Zenon, <1>0, <2>1, <2>2, FinalsKept DEF HasRoom, Found
    <2> QED BY <1>0, <2>1, <2>3 DEF LayoutKept, Cached
  <1>14. CASE InsertFails(c)
    <2>1. pc[c] \in Cached
      BY <1>14 DEF InsertFails, Cached
    <2> QED BY <1>1, <1>14, <2>1 DEF InsertFails
  <1>15. CASE InvalidateVisit(c)
    <2>1. CASE Outdated(c) = {}
      BY Zenon, <1>10, <1>15, <2>1 DEF InvalidateVisit
    <2>2. CASE Outdated(c) # {}
      <3>1. UNCHANGED <<entries, temps, cacheOwner>> /\ pc[c] = "visit" /\ pc'[c] = "unlink"
        BY Zenon, <1>0, <1>15, <2>2 DEF InvalidateVisit, Goto, TypeOK
      <3> QED BY Zenon, <1>2, <3>1 DEF Cached
    <2> QED BY Zenon, <2>1, <2>2
  <1>16. CASE InvalidateUnlink(c)
    <2>1. UNCHANGED <<temps, cacheOwner, pc>> /\ pc[c] = "unlink"
      BY <1>16 DEF InvalidateUnlink
    <2>2. PICK p \in Outdated(c) : entries' = [entries EXCEPT ![p] = NoEntry]
      BY Zenon, <1>16 DEF InvalidateUnlink
    <2>3. p \in Proof
      BY <2>2 DEF Outdated, Finals
    <2>4. IsFiniteSet(Finals') /\ Cardinality(Finals') <= MaxEntries
      BY ZenonT(30), <1>0, <2>2, <2>3, FinalsKept
    <2> QED BY <1>0, <2>1, <2>4 DEF LayoutKept, Cached
  <1>17. CASE Kill(c)
    <2>1. pc'[c] = "dead" /\ UNCHANGED <<entries, temps>>
      BY <1>0, <1>17 DEF Kill, Goto, TypeOK
    <2>2. cacheOwner' = IF cacheOwner = c THEN None ELSE cacheOwner
      BY ZenonT(60), <1>17 DEF Kill, Release
    <2> QED BY Zenon, <1>0, <1>a, <2>1, <2>2 DEF LayoutKept, Cached
  <1>18. CASE open(c)
    <2>1. UNCHANGED <<entries, temps, cacheOwner>> /\ pc[c] = "dead" /\ pc'[c] = "idle"
      BY <1>0, <1>18 DEF open, Goto, TypeOK
    <2> QED BY Zenon, <1>2, <2>1 DEF Cached
  <1>19. CASE Work(c)
    BY ZenonT(60), <1>5, <1>6, <1>7, <1>8, <1>9, <1>11, <1>12, <1>13, <1>14, <1>15, <1>16, <1>19
       DEF Work
  <1> QED BY Zenon, <1>3, <1>4, <1>17, <1>18, <1>19 DEF ClientStep, lookup, insert

\* The directory a reader of the cache meets is always readable.
THEOREM LayoutInvariant == Spec => []LayoutInv
  <1>1. Init => LayoutInv
    <2> SUFFICES ASSUME Init PROVE LayoutInv
      OBVIOUS
    <2>1. Finals = {}
      BY DEF Init, Finals
    <2> QED BY <2>1, FS_EmptySet, CacheAssumption DEF Init, LayoutInv, Cached
  <1>2. CacheInv /\ LayoutInv /\ [Next]_vars => LayoutInv'
    <2> SUFFICES ASSUME CacheInv, LayoutInv, [Next]_vars PROVE LayoutInv'
      BY Zenon
    <2>1. ASSUME NEW c \in Client, ClientStep(c) PROVE LayoutInv'
      <3>1. LayoutKept(c)
        BY <2>1, OwnLayout
      <3>2. ASSUME NEW d \in Client
            PROVE  /\ cacheOwner' = d <=> pc'[d] \in Cached
                   /\ pc'[d] \in {"visit", "unlink", "post"} => temps' = {}
                   /\ pc'[d] = "rename" => temps' \subseteq {d} /\ HasRoom(d)'
        <4>1. CASE d = c
          BY Zenon, <3>1, <4>1 DEF LayoutKept
        <4>2. CASE d # c
          <5>1. pc'[d] = pc[d] /\ call'[d] = call[d]
            BY ZenonT(60), <2>1, <4>2, ClientFrame DEF CacheInv
          <5>2. cacheOwner' = d <=> cacheOwner = d
            BY <3>1, <4>2, CacheAssumption DEF LayoutKept
          <5>3. cacheOwner = d <=> pc[d] \in Cached
            BY DEF LayoutInv
          <5>4. ASSUME pc[d] \in Cached PROVE UNCHANGED cacheVars
            <6>1. pc[c] \notin Cached
              BY <4>2, <5>4 DEF LayoutInv
            <6> QED BY <3>1, <6>1 DEF LayoutKept
          <5>5. ASSUME pc[d] = "rename" PROVE temps' \subseteq {d} /\ HasRoom(d)'
            <6>1. UNCHANGED <<entries, temps>> /\ temps \subseteq {d} /\ HasRoom(d)
              BY <5>4, <5>5 DEF LayoutInv, Cached, cacheVars
            <6> QED BY <5>1, <6>1 DEF HasRoom, Found, Finals
          <5>6. ASSUME pc[d] \in {"visit", "unlink", "post"} PROVE temps' = {}
            BY Zenon, <5>4, <5>6 DEF LayoutInv, Cached, cacheVars
          <5> QED BY Zenon, <5>1, <5>2, <5>3, <5>5, <5>6
        <4> QED BY Zenon, <4>1, <4>2
      <3> QED BY <3>1, <3>2 DEF LayoutInv, LayoutKept
    <2>2. CASE UNCHANGED <<entries, temps, cacheOwner, pc, call>>
      BY Zenon, <2>2 DEF LayoutInv, HasRoom, Found, Finals
    <2>3. CASE ReplaceRoot \/ (\E s \in Store : append(s) \/ sync(s) \/ sync_interrupted(s))
      BY <2>2, <2>3 DEF ReplaceRoot, append, sync, sync_interrupted, clientVars, cacheVars
    <2>4. CASE UNCHANGED vars
      BY <2>2, <2>4 DEF vars, cacheVars
    <2> QED BY <2>1, <2>3, <2>4 DEF Next, ClientStep
  <1> QED BY <1>1, <1>2, CacheInvariant, PTL DEF Spec

\* Whoever reads the entries (visit_entries) reads final entries only, and no more than
\* MAX_PROOF_CACHE_ENTRIES, whatever temporary files dead processes have left.
THEOREM LayoutStaysReadable == Spec => []LayoutReadable
  <1>1. LayoutInv => LayoutReadable
    BY DEF LayoutInv, LayoutReadable, LayoutValid
  <1> QED BY <1>1, LayoutInvariant, PTL

-----------------------------------------------------------------------------
(* Nobody waits in a circle *)

\* A nonempty set of naturals has a least element.
LEMMA LeastNatural ==
    ASSUME NEW T \in SUBSET Nat, T # {}
    PROVE  \E m \in T : \A k \in T : m <= k
  <1> DEFINE R == {p \in Nat \X Nat : p[1] < p[2]}
  <1>1. IsWellFoundedOn(R, Nat)
    BY NatLessThanWellFounded, Zenon DEF OpToRel
  <1>2. \A x, y \in Nat : x < y => <<x, y>> \in R
    BY SMT
  <1> HIDE DEF R
  <1>3. PICK m \in T : \A y \in T : ~(<<y, m>> \in R)
    BY <1>1, WFMin, ZenonT(60)
  <1>4. \A y \in T : ~(y < m)
    BY <1>2, <1>3, Zenon
  <1> QED BY <1>4, SMT

\* The labels of the locks a call still lacks are numbers.
LEMMA UnlockedLabels ==
    ASSUME TypeOK, NEW c \in Client
    PROVE  Unlocked(c) \subseteq DOMAIN call[c].auth /\ Unlocked(c) \subseteq Store /\ Store \subseteq Nat
  <1>1. DOMAIN call[c].auth \subseteq Store
    BY Zenon, LabelsType
  <1> QED BY <1>1, CacheAssumption DEF Unlocked

\* lock_authorities goes on with the least label whose store is not locked yet.
LEMMA NextIsLeast ==
    ASSUME TypeOK, NEW c \in Client, Unlocked(c) # {}
    PROVE  NextLabel(c) \in Unlocked(c) /\ \A l \in Unlocked(c) : NextLabel(c) <= l
  <1>1. Unlocked(c) \in SUBSET Nat
    BY Zenon, UnlockedLabels
  <1>2. \E l \in Unlocked(c) : \A k \in Unlocked(c) : l <= k
    BY <1>1, LeastNatural
  <1> QED BY <1>2, Zenon DEF NextLabel

\* A store lock belongs to a call.  While a call with true labels still takes locks, the
\* ones it has are of stores before all the ones it lacks.
OrderInv ==
    \A s \in Store, c \in Client : owner[s] = c =>
        /\ pc[c] \notin {"idle", "dead"}
        /\ pc[c] = "lock" /\ Labelled(c) => \A l \in Unlocked(c) : s < l

\* A client's own steps keep the order of its locks.
LEMMA OwnOrder ==
    ASSUME TypeOK, OrderInv, NEW c \in Client, ClientStep(c), NEW s \in Store, owner'[s] = c
    PROVE  /\ pc'[c] \notin {"idle", "dead"}
           /\ pc'[c] = "lock" /\ Labelled(c)' => \A l \in Unlocked(c)' : s < l
  <1> DEFINE Kept == /\ pc'[c] \notin {"idle", "dead"}
                     /\ pc'[c] = "lock" /\ Labelled(c)' => \A l \in Unlocked(c)' : s < l
  <1> SUFFICES Kept
    OBVIOUS
  <1>0. c # None
    BY Zenon, CacheAssumption
  <1>1. ASSUME Release(c) PROVE Kept
    BY Zenon, <1>0, <1>1 DEF Release
  <1>2. ASSUME Return(c) PROVE Kept
    BY Zenon, <1>1, <1>2 DEF Return
  <1>3. ASSUME UNCHANGED owner, pc'[c] \notin {"idle", "dead", "lock"} PROVE Kept
    BY <1>3
  <1>4. ASSUME pc[c] \in {"idle", "dead"}, UNCHANGED owner PROVE Kept
    BY Zenon, <1>4 DEF OrderInv
  <1>5. ASSUME NEW op, NEW p, NEW A, Begin(c, op, p, A) PROVE Kept
    BY <1>2, <1>4, <1>5 DEF Begin
  <1>6. ASSUME NEW t, NEW old, invalidate_store(c, t, old) PROVE Kept
    BY Zenon, <1>4, <1>6 DEF invalidate_store
  <1>7. CASE LockAuthority(c)
    <2> SUFFICES ASSUME Labelled(c)' PROVE Kept
      BY <1>7 DEF LockAuthority
    <2>1. /\ UNCHANGED <<pc, call>> /\ pc[c] = "lock" /\ Unlocked(c) # {}
          /\ owner' = [owner EXCEPT ![NextAuthority(c)] = c]
      BY <1>7 DEF LockAuthority
    <2>a. \A l \in DOMAIN call[c].auth : call[c].auth[l] = l
      BY Zenon, <2>1 DEF Labelled
    <2>2. NextLabel(c) \in Unlocked(c) /\ \A l \in Unlocked(c) : NextLabel(c) <= l
      BY Zenon, <2>1, NextIsLeast
    <2>3. /\ Unlocked(c) \subseteq DOMAIN call[c].auth /\ DOMAIN call[c].auth \subseteq Store
          /\ Unlocked(c) \subseteq Store /\ Store \subseteq Nat
      BY Zenon, UnlockedLabels, LabelsType
    <2>b. NextAuthority(c) = NextLabel(c)
      BY Zenon, <2>a, <2>2, <2>3 DEF NextAuthority
    <2>4. Unlocked(c)' = Unlocked(c) \ {NextLabel(c)}
      <3>1. \A t \in Store : owner'[t] = IF t = NextLabel(c) THEN c ELSE owner[t]
        BY Zenon, <2>1, <2>b DEF TypeOK
      <3>2. \A l : l \in Unlocked(c)' <=> l \in DOMAIN call[c].auth /\ owner'[l] # c
        BY Zenon, <2>1, <2>a DEF Unlocked
      <3>3. \A l : l \in Unlocked(c) <=> l \in DOMAIN call[c].auth /\ owner[l] # c
        BY Zenon, <2>a DEF Unlocked
      <3> QED BY Zenon, <2>3, <3>1, <3>2, <3>3
    <2>5. CASE s = NextLabel(c)
      <3>1. ASSUME NEW l \in Unlocked(c)' PROVE s < l
        <4>1. l \in Unlocked(c) /\ l # s
          BY <2>4, <2>5, <3>1
        <4>2. s <= l /\ s \in Nat /\ l \in Nat
          BY Zenon, <2>2, <2>3, <2>5, <4>1
        <4> QED BY <4>1, <4>2
      <3>2. pc'[c] = "lock"
        BY Zenon, <2>1
      <3> QED BY <3>1, <3>2
    <2>6. CASE s # NextLabel(c)
      <3>1. owner[s] = c
        BY Zenon, <2>1, <2>6, <2>b DEF TypeOK
      <3>2. Labelled(c)
        BY Zenon, <2>a DEF Labelled
      <3> QED BY <2>1, <2>4, <3>1, <3>2 DEF OrderInv
    <2> QED BY Zenon, <2>5, <2>6
  <1>8. CASE AuthorityPending(c) \/ AuthorityDisagrees(c) \/ InsertStale(c) \/ InsertFull(c)
             \/ InsertFails(c) \/ InvalidateFails(c) \/ PostCheck(c)
    BY Zenon, <1>2, <1>8 DEF AuthorityPending, AuthorityDisagrees, InsertStale, InsertFull, InsertFails,
                      InvalidateFails, PostCheck
  <1>9. CASE VectorRead(c) \/ InsertTemp(c) \/ InsertRename(c)
    BY Zenon, <1>3, <1>9 DEF TypeOK, VectorRead, InsertTemp, InsertRename, Goto
  <1>10. CASE BeginLock(c) \/ cleanup_temporaries(c)
    <2>1. CASE binding_matches(c)
      BY <1>3, <1>10, <2>1 DEF TypeOK, BeginLock, cleanup_temporaries, Goto
    <2> QED BY ZenonT(60), <1>2, <1>10, <2>1 DEF BeginLock, cleanup_temporaries
  <1>11. ASSUME NEW a, Finish(c, a) PROVE Kept
    BY <1>3, <1>11 DEF TypeOK, Finish, Goto
  <1>12. CASE LookupVisit(c) \/ InsertPresent(c) \/ InvalidateDone(c)
    BY ZenonT(60), <1>11, <1>12 DEF LookupVisit, InsertPresent, InvalidateDone
  <1>13. CASE InvalidateVisit(c)
    <2>1. CASE Outdated(c) = {}
      BY ZenonT(60), <1>11, <1>13, <2>1 DEF InvalidateVisit
    <2>2. CASE Outdated(c) # {}
      BY Zenon, <1>3, <1>13, <2>2 DEF TypeOK, InvalidateVisit, Goto
    <2> QED BY ZenonT(60), <2>1, <2>2
  <1>14. CASE InvalidateUnlink(c)
    BY ZenonT(30), <1>3, <1>14 DEF InvalidateUnlink
  <1>15. CASE Kill(c) \/ open(c)
    BY Zenon, <1>1, <1>4, <1>15 DEF Kill, open
  <1>16. CASE Work(c)
    BY Zenon, <1>7, <1>8, <1>9, <1>10, <1>12, <1>13, <1>14, <1>16 DEF Work
  <1> HIDE DEF Kept
  <1> QED BY Zenon, <1>5, <1>6, <1>15, <1>16 DEF ClientStep, lookup, insert

\* A caller with true labels takes the locks in the order of the stores; one whose labels
\* are confused takes them in another (lock_authorities compares them afterwards).
THEOREM OrderInvariant == Spec => []OrderInv
  <1>1. Init => OrderInv
    BY Zenon, CacheAssumption DEF Init, OrderInv
  <1>2. TypeOK /\ OrderInv /\ [Next]_vars => OrderInv'
    <2> SUFFICES ASSUME TypeOK, OrderInv, [Next]_vars,
                        NEW s \in Store, NEW d \in Client, owner'[s] = d
                 PROVE  /\ pc'[d] \notin {"idle", "dead"}
                        /\ pc'[d] = "lock" /\ Labelled(d)' => \A l \in Unlocked(d)' : s < l
      BY Zenon DEF OrderInv
    <2>1. ASSUME NEW c \in Client, ClientStep(c), d # c
          PROVE  /\ pc'[d] \notin {"idle", "dead"}
                 /\ pc'[d] = "lock" /\ Labelled(d)' => \A l \in Unlocked(d)' : s < l
      <3>0. \A l \in DOMAIN call[d].auth : call[d].auth[l] \in Store
        BY Zenon, LabelsType
      <3>1. pc'[d] = pc[d] /\ call'[d] = call[d]
        BY <2>1, ClientFrame
      <3>2. \A t \in Store : owner'[t] = d <=> owner[t] = d
        BY <2>1, ClientFrame, CacheAssumption
      <3>3. Unlocked(d)' = Unlocked(d)
        BY ZenonT(30), <3>0, <3>1, <3>2 DEF Unlocked
      <3>4. Labelled(d)' = Labelled(d)
        BY <3>1 DEF Labelled
      <3> QED BY ZenonT(30), <3>1, <3>2, <3>3, <3>4 DEF OrderInv
    <2>2. CASE UNCHANGED <<owner, pc, call>>
      <3>1. owner' = owner /\ pc' = pc /\ call' = call
        BY Zenon, <2>2
      <3>2. Unlocked(d)' = Unlocked(d)
        BY Zenon, <3>1 DEF Unlocked
      <3>3. Labelled(d)' = Labelled(d)
        BY Zenon, <3>1 DEF Labelled
      <3> QED BY Zenon, <3>1, <3>2, <3>3 DEF OrderInv
    <2>3. CASE ReplaceRoot \/ (\E t \in Store : append(t) \/ sync(t) \/ sync_interrupted(t))
      BY Zenon, <2>2, <2>3 DEF ReplaceRoot, append, sync, sync_interrupted, clientVars
    <2>4. CASE UNCHANGED vars
      BY ZenonT(30), <2>2, <2>4 DEF vars
    <2>5. CASE \E c \in Client : ClientStep(c)
      BY Zenon, <2>1, <2>5, OwnOrder
    <2> QED BY Zenon, <2>3, <2>4, <2>5 DEF Next, ClientStep
  <1> QED BY <1>1, <1>2, TypeCorrect, PTL DEF Spec

\* No set of processes with true labels waits only for each other, and so a circle always
\* has a caller in it whose labels are confused: among those that wait for stores, the
\* one whose next store is last waits for a process outside the set (lock_authorities),
\* and the holder of the cache lock waits for nobody (begin_operation).
THEOREM NobodyWaitsInACircle == Spec => []NoCircularWait
  <1>1. TypeOK /\ LayoutInv /\ OrderInv => NoCircularWait
    <2> SUFFICES ASSUME TypeOK, LayoutInv, OrderInv, NEW D \in SUBSET Client, D # {},
                        \A c \in D : WaitsFor(c) \in D,
                        \A c \in D : Labelled(c)
                 PROVE  FALSE
      BY Zenon DEF NoCircularWait
    <2>1. None \notin D
      BY CacheAssumption
    <2>2. ASSUME NEW c \in D PROVE pc[c] # "begin"
      <3> SUFFICES ASSUME pc[c] = "begin" PROVE FALSE
        OBVIOUS
      <3>1. cacheOwner \in D
        BY DEF WaitsFor
      <3>2. pc[cacheOwner] \in Cached
        BY Zenon, <3>1 DEF LayoutInv
      <3>3. WaitsFor(cacheOwner) = None
        BY <3>2 DEF WaitsFor, Cached
      <3> QED BY <2>1, <3>1, <3>3
    <2>3. ASSUME NEW c \in D
          PROVE  /\ pc[c] = "lock" /\ Unlocked(c) # {}
                 /\ owner[NextAuthority(c)] \in D
                 /\ NextAuthority(c) \in Unlocked(c) /\ NextAuthority(c) \in Store
      <3>1. pc[c] = "lock" /\ Unlocked(c) # {} /\ owner[NextAuthority(c)] \in D
        BY <2>1, <2>2 DEF WaitsFor
      <3>2. NextLabel(c) \in Unlocked(c)
        BY <3>1, NextIsLeast
      <3>3. NextLabel(c) \in DOMAIN call[c].auth /\ NextLabel(c) \in Store
        BY Zenon, <3>2, UnlockedLabels
      <3>4. NextAuthority(c) = NextLabel(c)
        BY Zenon, <3>3 DEF NextAuthority, Labelled
      <3> QED BY Zenon, <3>1, <3>2, <3>3, <3>4
    <2> DEFINE Above(c) == {d \in D : NextAuthority(c) < NextAuthority(d)}
    <2>4. \A c \in D : IsFiniteSet(Above(c)) /\ Cardinality(Above(c)) \in Nat
      <3>1. IsFiniteSet(D)
        BY CacheAssumption, FS_Subset
      <3>2. \A c \in D : Above(c) \subseteq D
        OBVIOUS
      <3> HIDE DEF Above
      <3> QED BY <3>1, <3>2, FS_Subset, FS_CardinalityType
    <2>5. ASSUME NEW c \in D
          PROVE  \E d \in D : Cardinality(Above(d)) < Cardinality(Above(c))
      <3> DEFINE d == owner[NextAuthority(c)]
      <3>1. d \in D
        BY <2>3
      <3>2. NextAuthority(c) < NextAuthority(d)
        BY Zenon, <2>3, <3>1 DEF OrderInv
      <3>3. \A e \in D : NextAuthority(e) \in Nat
        BY Zenon, <2>3, CacheAssumption
      <3>4. Above(d) \subseteq Above(c) /\ d \in Above(c) /\ d \notin Above(d)
        BY SMTT(30), <3>1, <3>2, <3>3
      <3> HIDE DEF Above, d
      <3>5. /\ Cardinality(Above(d)) <= Cardinality(Above(c))
            /\ Cardinality(Above(d)) = Cardinality(Above(c)) => Above(d) = Above(c)
        BY Zenon, <2>4, <3>1, <3>4, FS_Subset
      <3>6. Cardinality(Above(d)) < Cardinality(Above(c))
        BY SMTT(30), <2>4, <3>1, <3>4, <3>5
      <3> QED BY Zenon, <3>1, <3>6
    <2> DEFINE Sizes == {Cardinality(Above(c)) : c \in D}
    <2> HIDE DEF Above
    <2>6. Sizes \in SUBSET Nat /\ Sizes # {}
      BY <2>4
    <2>7. PICK m \in Sizes : \A k \in Sizes : m <= k
      BY Zenon, <2>6, LeastNatural
    <2>8. PICK c \in D : m = Cardinality(Above(c))
      BY <2>7
    <2>9. PICK d \in D : Cardinality(Above(d)) < Cardinality(Above(c))
      BY <2>5
    <2> QED BY <2>4, <2>7, <2>8, <2>9
  <1> QED BY <1>1, TypeCorrect, LayoutInvariant, OrderInvariant, PTL
===============================================================================
