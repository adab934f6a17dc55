--------------------------- MODULE GitSyncProofs ---------------------------
(* Proofs about GitSync for every set of replicas and batches, every number  *)
(* of operations, and crashes at every step.                                 *)
EXTENDS GitSync, TLAPS

---------------------------------------------------------------------------
(* Commits *)

\* Ancestry, which merge-base decides in the code, is transitive.
LEMMA AncestorTransitive ==
    ASSUME NEW a, NEW b, NEW c, Ancestor(a, b), Ancestor(b, c) PROVE Ancestor(a, c)
BY DEF Ancestor

\* Part of a valid store has no clash either.
LEMMA CompatibleSubset ==
    ASSUME NEW S, NEW T, S \subseteq T, Compatible(T) PROVE Compatible(S)
BY Zenon DEF Compatible

\* The commits a store starts from, and the documents that stand for none.
LEMMA BaseType ==
    /\ Base \in Commit /\ NoRef \in Commit /\ Genesis \in Batch
    /\ NoDoc \in DocType /\ Torn \in DocType
BY SyncAssumption DEF Base, NoRef, Commit, Batch, NoDoc, Torn, DocType, Phases, Genesis

---------------------------------------------------------------------------
(* Types *)

Preparing == {"fetch", "create_root", "write_root"}
Recovering == {"files", "publish", "ref", "checkpoint", "phase", "observe"}

SlotType == [entries : SUBSET (Layout \cup {"absent"}), doc : DocType]

Typed ==
    /\ recs \in [Replica -> SUBSET Batch] /\ mans \in [Replica -> SUBSET Batch]
    /\ local \in [Replica -> Commit] /\ cp \in [Replica -> Commit] /\ remote \in Commit
    /\ slot \in [Replica -> [OpId -> SlotType]]
    /\ born \in [Replica -> 0 .. MaxOps] /\ quarantined \in [Replica -> BOOLEAN]
    /\ pc \in [Replica -> Steps] /\ act \in [Replica -> 0 .. MaxOps]
    /\ prev \in [Replica -> 0 .. MaxOps] /\ plan \in [Replica -> DocType]

\* A running call has a new operation, or the active one, to work on.
CallTyped(r) ==
    /\ pc[r] = "idle" => act[r] = 0
    /\ pc[r] \in Recovering \cup {"retire_pred", "retire_prev", "retire_act"} => act[r] \in OpId
    /\ pc[r] = "retire_prev" => prev[r] \in OpId
    /\ pc[r] \in Preparing \cup {"retire_pred"} => born[r] \in OpId
    /\ pc[r] \in Preparing /\ plan[r].pred # 0 => act[r] \in OpId

TypeInv == Typed /\ \A r \in Replica : CallTyped(r)

\* The call of one replica leaves everything of the others alone.
Others(r) ==
    \A q \in Replica \ {r} :
      /\ recs'[q] = recs[q] /\ mans'[q] = mans[q] /\ local'[q] = local[q] /\ cp'[q] = cp[q]
      /\ slot'[q] = slot[q] /\ born'[q] = born[q]
      /\ pc'[q] = pc[q] /\ act'[q] = act[q] /\ prev'[q] = prev[q] /\ plan'[q] = plan[q]

\* A document with one field changed is a document.
LEMMA DocUpdate ==
    ASSUME NEW d \in DocType
    PROVE  /\ \A p \in Phases : [d EXCEPT !.phase = p] \in DocType
           /\ \A s \in Commit : [d EXCEPT !.phase = "RemoteCasStale", !.stale = s] \in DocType
BY Zenon DEF DocType, Phases

\* Retiring the disposable slots leaves slots.
LEMMA CleanedType ==
    ASSUME Typed, NEW r \in Replica PROVE Cleaned(r) \in [OpId -> SlotType]
BY BaseType DEF Typed, Cleaned, NoSlot, SlotType

\* select_candidate returns a commit that descends both tips.
LEMMA CandidateDescends ==
    ASSUME NEW r, NEW mine, NEW tip
    PROVE  Ancestor(mine, Candidate(r, mine, tip)) /\ Ancestor(tip, Candidate(r, mine, tip))
BY DEF Candidate, Ancestor

\* select_candidate returns a commit.
LEMMA CandidateType ==
    ASSUME Typed, NEW r \in Replica, born[r] \in OpId, NEW mine \in Commit, NEW tip \in Commit
    PROVE  Candidate(r, mine, tip) \in Commit
BY DEF Candidate, Commit

\* A slot with one field changed.
LEMMA EntriesUpdate ==
    ASSUME NEW x \in SlotType, NEW e PROVE [x EXCEPT !.entries = e] = [entries |-> e, doc |-> x.doc]
BY DEF SlotType

\* The same for the document of a slot.
LEMMA DocFieldUpdate ==
    ASSUME NEW x \in SlotType, NEW d PROVE [x EXCEPT !.doc = d] = [entries |-> x.entries, doc |-> d]
BY DEF SlotType

\* One slot of one replica is replaced.
LEMMA SlotUpdate ==
    ASSUME Typed, NEW r \in Replica, NEW i \in OpId, NEW STATE x, x \in SlotType,
           slot' = [slot EXCEPT ![r][i] = x]
    PROVE  /\ slot' \in [Replica -> [OpId -> SlotType]]
           /\ slot'[r][i] = x
           /\ \A j \in OpId \ {i} : slot'[r][j] = slot[r][j]
           /\ \A q \in Replica \ {r} : slot'[q] = slot[q]
BY DEF Typed

\* The entries, or the document, of one slot are replaced.
LEMMA EntriesSet ==
    ASSUME Typed, NEW r \in Replica, NEW i \in OpId, NEW e \in SUBSET Layout
    PROVE  slot' = [slot EXCEPT ![r][i].entries = e] =>
             /\ slot' \in [Replica -> [OpId -> SlotType]]
             /\ slot'[r][i].entries = e /\ slot'[r][i].doc = slot[r][i].doc
             /\ \A j \in OpId \ {i} : slot'[r][j] = slot[r][j]
             /\ \A q \in Replica \ {r} : slot'[q] = slot[q]
<1> DEFINE x == [entries |-> e, doc |-> slot[r][i].doc]
<1>1. slot[r][i] \in SlotType /\ i \in 0 .. MaxOps
  BY SyncAssumption DEF Typed, OpId
<1>2. x \in SlotType
  BY <1>1 DEF SlotType
<1>3. [slot[r][i] EXCEPT !.entries = e] = x
  BY <1>1, EntriesUpdate
<1>4. ASSUME slot' = [slot EXCEPT ![r][i].entries = e] PROVE slot' = [slot EXCEPT ![r][i] = x]
  BY Zenon, <1>3, <1>4
<1> HIDE DEF x
<1>5. ASSUME slot' = [slot EXCEPT ![r][i] = x]
      PROVE  /\ slot' \in [Replica -> [OpId -> SlotType]] /\ slot'[r][i] = x
             /\ \A j \in OpId \ {i} : slot'[r][j] = slot[r][j]
             /\ \A q \in Replica \ {r} : slot'[q] = slot[q]
  BY <1>2, <1>5 DEF Typed
<1> QED
  BY <1>4, <1>5 DEF x

\* replace_document and publish_document replace the document of one slot.
LEMMA DocSet ==
    ASSUME Typed, NEW r \in Replica, NEW i \in OpId, NEW d \in DocType
    PROVE  slot' = [slot EXCEPT ![r][i].doc = d] =>
             /\ slot' \in [Replica -> [OpId -> SlotType]]
             /\ slot'[r][i].entries = slot[r][i].entries /\ slot'[r][i].doc = d
             /\ \A j \in OpId \ {i} : slot'[r][j] = slot[r][j]
             /\ \A q \in Replica \ {r} : slot'[q] = slot[q]
<1> DEFINE x == [entries |-> slot[r][i].entries, doc |-> d]
<1>1. slot[r][i] \in SlotType /\ i \in 0 .. MaxOps
  BY SyncAssumption DEF Typed, OpId
<1>2. x \in SlotType
  BY <1>1 DEF SlotType
<1>3. [slot[r][i] EXCEPT !.doc = d] = x
  BY <1>1, DocFieldUpdate
<1>4. ASSUME slot' = [slot EXCEPT ![r][i].doc = d] PROVE slot' = [slot EXCEPT ![r][i] = x]
  BY Zenon, <1>3, <1>4
<1> HIDE DEF x
<1>5. ASSUME slot' = [slot EXCEPT ![r][i] = x]
      PROVE  /\ slot' \in [Replica -> [OpId -> SlotType]] /\ slot'[r][i] = x
             /\ \A j \in OpId \ {i} : slot'[r][j] = slot[r][j]
             /\ \A q \in Replica \ {r} : slot'[q] = slot[q]
  BY <1>2, <1>5 DEF Typed
<1> QED
  BY <1>4, <1>5 DEF x

\* What is staged before the document.
LEMMA LayoutPart == {"additions", "repo.git"} \in SUBSET Layout
BY DEF Layout

\* One unlink of remove_contents replaces the slot.
LEMMA RetireStepIs ==
    ASSUME Typed, NEW r \in Replica, NEW i \in OpId, RetireStep(r, i)
    PROVE  /\ Unlinked(slot[r][i]) \in SlotType
           /\ slot' = [slot EXCEPT ![r][i] = Unlinked(slot[r][i])]
<1>1. slot[r][i] \in SlotType
  BY DEF Typed
<1>2. Unlinked(slot[r][i]) \in SlotType
  BY <1>1, BaseType DEF Unlinked, NoSlot, SlotType
<1>3. slot' = [slot EXCEPT ![r][i] = Unlinked(slot[r][i])]
  BY Zenon DEF RetireStep
<1> QED
  BY <1>2, <1>3

\* A call that ends forgets its operation.
LEMMA ReturnType ==
    ASSUME Typed, NEW r \in Replica, Return(r)
    PROVE  /\ pc' \in [Replica -> Steps] /\ act' \in [Replica -> 0 .. MaxOps]
           /\ prev' \in [Replica -> 0 .. MaxOps] /\ plan' \in [Replica -> DocType]
           /\ pc'[r] = "idle" /\ act'[r] = 0 /\ prev'[r] = 0 /\ plan'[r] = NoDoc
           /\ \A q \in Replica \ {r} :
                pc'[q] = pc[q] /\ act'[q] = act[q] /\ prev'[q] = prev[q] /\ plan'[q] = plan[q]
BY BaseType, SyncAssumption DEF Typed, Return, Goto, Steps

\* What the start of an operation leaves: a new slot, the document planned.
Opened(r, pred, others) ==
    /\ born'[r] = born[r] + 1 /\ born'[r] \in OpId /\ pc'[r] = "fetch"
    /\ slot'[r][born'[r]].entries = {}
    /\ \A i \in OpId : slot'[r][i].doc = others[i].doc
    /\ \A i \in OpId \ {born'[r]} : slot'[r][i].entries = others[i].entries
    /\ plan'[r].from = cp[r] /\ plan'[r].phase = "Prepared" /\ plan'[r].pred = pred
    /\ \A q \in Replica \ {r} : /\ born'[q] = born[q] /\ plan'[q] = plan[q] /\ pc'[q] = pc[q]
                                /\ slot'[q] = slot[q]
    /\ slot' \in [Replica -> [OpId -> SlotType]] /\ born' \in [Replica -> 0 .. MaxOps]
    /\ plan' \in [Replica -> DocType] /\ pc' \in [Replica -> Steps]

\* Start creates the slot of a new operation and plans its document.
LEMMA StartType ==
    ASSUME Typed, NEW r \in Replica, NEW orig \in Commit, NEW pred \in 0 .. MaxOps,
           NEW others \in [OpId -> SlotType], Start(r, orig, pred, others)
    PROVE  Opened(r, pred, others)
<1>1. born[r] + 1 \in OpId /\ born' = [born EXCEPT ![r] = born[r] + 1]
  BY SyncAssumption DEF Typed, Start, OpId
<1>2. born'[r] = born[r] + 1 /\ born' \in [Replica -> 0 .. MaxOps]
      /\ \A q \in Replica \ {r} : born'[q] = born[q]
  BY <1>1, SyncAssumption DEF Typed, OpId
<1>3. [NoDoc EXCEPT !.orig = orig, !.from = cp[r], !.pred = pred] \in DocType
  BY Zenon, BaseType DEF NoDoc, DocType, Typed
<1>4. plan' = [plan EXCEPT ![r] = [NoDoc EXCEPT !.orig = orig, !.from = cp[r], !.pred = pred]]
  BY DEF Start
<1>5. plan'[r].from = cp[r] /\ plan'[r].phase = "Prepared" /\ plan'[r].pred = pred
  BY <1>4 DEF NoDoc, Typed
<1>6. plan' \in [Replica -> DocType] /\ \A q \in Replica \ {r} : plan'[q] = plan[q]
  BY <1>3, <1>4 DEF Typed
<1>7. pc'[r] = "fetch" /\ pc' \in [Replica -> Steps] /\ \A q \in Replica \ {r} : pc'[q] = pc[q]
  BY DEF Start, Goto, Typed, Steps
<1>8. slot' = [slot EXCEPT ![r] = [others EXCEPT ![born[r] + 1].entries = {}]]
  BY DEF Start
<1>9. [others EXCEPT ![born[r] + 1].entries = {}] \in [OpId -> SlotType]
  BY <1>1 DEF SlotType
<1>10. slot' \in [Replica -> [OpId -> SlotType]] /\ \A q \in Replica \ {r} : slot'[q] = slot[q]
  BY <1>8, <1>9 DEF Typed
<1>11. /\ slot'[r][born[r] + 1].entries = {}
       /\ \A i \in OpId : slot'[r][i].doc = others[i].doc
       /\ \A i \in OpId \ {born[r] + 1} : slot'[r][i].entries = others[i].entries
  BY <1>1, <1>8 DEF Typed, SlotType
<1> QED
  BY <1>1, <1>2, <1>5, <1>6, <1>7, <1>10, <1>11 DEF Opened

\* The phases that AdvancePhase records.
LEMMA NextPhases == \A p \in DOMAIN NextPhase : NextPhase[p] \in Phases \ {"RemoteCasConfirmed"}
BY DEF NextPhase, Phases

\* Calls that end, and steps that move only the program counter.
LEMMA ReturnsTyped ==
    ASSUME TypeInv, NEW r \in Replica, Return(r),
           UNCHANGED <<recs, mans, local, cp, born, remote>>,
           slot' = slot \/ slot' = [slot EXCEPT ![r] = Cleaned(r)],
           quarantined' \in {quarantined, [quarantined EXCEPT ![r] = TRUE]}
    PROVE  Typed' /\ CallTyped(r)' /\ Others(r)
<1>1. slot' \in [Replica -> [OpId -> SlotType]] /\ \A q \in Replica \ {r} : slot'[q] = slot[q]
  BY ZenonT(30), CleanedType DEF TypeInv, Typed
<1>2. Typed'
  BY Zenon, <1>1, ReturnType DEF TypeInv, Typed
<1>3. CallTyped(r)' /\ Others(r)
  BY <1>1, ReturnType DEF TypeInv, CallTyped, Others, Recovering, Preparing
<1> QED
  BY <1>2, <1>3

\* Callers, users and crashes.
LEMMA OutsideTyped ==
    ASSUME TypeInv, NEW r \in Replica, UserCommit(r) \/ Crash(r) \/ \E b \in Batch : append(r, b)
    PROVE  Typed' /\ CallTyped(r)' /\ Others(r)
<1>1. CASE UserCommit(r)
  <2>1. local' \in [Replica -> Commit] /\ \A q \in Replica \ {r} : local'[q] = local[q]
    BY ZenonT(60), <1>1 DEF UserCommit, TypeInv, Typed, Commit
  <2> QED
    BY <1>1, <2>1 DEF UserCommit, callVars, TypeInv, Typed, CallTyped, Others
<1>2. CASE Crash(r)
  BY <1>2, ReturnsTyped DEF Crash, replicaVars
<1>3. ASSUME NEW b \in Batch, append(r, b) PROVE Typed' /\ CallTyped(r)' /\ Others(r)
  <2>1. slot' \in [Replica -> [OpId -> SlotType]] /\ \A q \in Replica \ {r} : slot'[q] = slot[q]
    BY <1>3, CleanedType DEF append, TypeInv, Typed
  <2> QED
    BY SMTT(30), <1>3, <2>1 DEF append, callVars, TypeInv, Typed, CallTyped, Others
<1> QED
  BY <1>1, <1>2, <1>3

\* Starting a call.
LEMMA StartsTyped ==
    ASSUME TypeInv, NEW r \in Replica, Starts(r) PROVE Typed' /\ CallTyped(r)' /\ Others(r)
<1> USE DEF TypeInv
<1>1. CASE SyncStart(r)
  <2>1. /\ Start(r, cp[r], 0, Cleaned(r)) /\ pc[r] = "idle"
        /\ UNCHANGED <<recs, mans, local, cp, quarantined, act, prev, remote>>
    BY <1>1 DEF SyncStart, MaySync
  <2>2. cp[r] \in Commit /\ 0 \in 0 .. MaxOps
    BY SyncAssumption DEF Typed
  <2>5. Opened(r, 0, Cleaned(r))
    BY Zenon, <2>1, <2>2, StartType, CleanedType
  <2>3. Typed' /\ Others(r)
    BY <2>1, <2>5 DEF Opened, Typed, Others
  <2>4. CallTyped(r)'
    <3>1. born'[r] \in OpId /\ pc'[r] = "fetch" /\ plan'[r].pred = 0
      BY Zenon, <2>5 DEF Opened
    <3> QED
      BY <3>1 DEF CallTyped, Recovering, Preparing
  <2> QED
    BY <2>3, <2>4
<1>2. CASE StartMissingRef(r)
  BY Zenon, <1>2, ReturnsTyped DEF StartMissingRef, Quarantine
<1>3. CASE SyncRecover(r)
  <2>1. /\ UNCHANGED <<recs, mans, local, cp, born, quarantined, plan, remote>>
        /\ slot' = [slot EXCEPT ![r] = Cleaned(r)] /\ pc' = [pc EXCEPT ![r] = "files"]
    BY <1>3 DEF SyncRecover, Goto
  <2>2. PICK i \in OpId : /\ act' = [act EXCEPT ![r] = i]
                          /\ prev' = [prev EXCEPT ![r] = IF Predecessor(r) = {} THEN 0 ELSE Doc(r, i).pred]
    BY Zenon, <1>3 DEF SyncRecover, Active, Durable, Slots
  <2>3. i \in 0 .. MaxOps /\ Doc(r, i).pred \in 0 .. MaxOps /\ 0 \in 0 .. MaxOps
    BY SyncAssumption DEF OpId, Typed, SlotType, DocType, Doc
  <2>4. Typed' /\ Others(r)
    BY <2>1, <2>2, <2>3, CleanedType DEF Typed, Others, Steps
  <2>5. CallTyped(r)'
    BY <2>1, <2>2 DEF CallTyped, Recovering, Preparing, Typed
  <2> QED
    BY <2>4, <2>5
<1> QED
  BY <1>1, <1>2, <1>3 DEF Starts

\* Preparing a document.
LEMMA PreparesTyped ==
    ASSUME TypeInv, NEW r \in Replica, Prepares(r) PROVE Typed' /\ CallTyped(r)' /\ Others(r)
<1> USE DEF TypeInv
<1>1. CASE Fetch(r)
  <2> DEFINE cand == Candidate(r, local[r], remote)
  <2>1. /\ pc[r] = "fetch" /\ pc' = [pc EXCEPT ![r] = "create_root"]
        /\ plan' = [plan EXCEPT ![r] = [@ EXCEPT !.old = local[r], !.exp = remote, !.cand = cand]]
        /\ slot' = [slot EXCEPT ![r][born[r]].entries = {"additions", "repo.git"}]
        /\ UNCHANGED <<recs, mans, local, cp, born, quarantined, act, prev, remote>>
    BY <1>1 DEF Fetch, Goto
  <2>2. born[r] \in OpId /\ local[r] \in Commit /\ remote \in Commit /\ plan[r] \in DocType
    BY <2>1 DEF CallTyped, Preparing, Typed
  <2>3. cand \in Commit
    BY <2>2, CandidateType
  <2> HIDE DEF cand
  <2>4. /\ [plan[r] EXCEPT !.old = local[r], !.exp = remote, !.cand = cand] \in DocType
        /\ [plan[r] EXCEPT !.old = local[r], !.exp = remote, !.cand = cand].pred = plan[r].pred
    BY Zenon, <2>2, <2>3 DEF DocType
  <2>5. /\ slot' \in [Replica -> [OpId -> SlotType]]
        /\ \A q \in Replica \ {r} : slot'[q] = slot[q]
    BY Zenon, <2>1, <2>2, LayoutPart, EntriesSet
  <2>6. Typed' /\ Others(r)
    BY <2>1, <2>4, <2>5 DEF Typed, Others, Steps
  <2>7. plan'[r].pred = plan[r].pred /\ pc'[r] = "create_root"
    BY <2>1, <2>4 DEF Typed
  <2>8. CallTyped(r)'
    BY Zenon, <2>1, <2>2, <2>7 DEF CallTyped, Recovering, Preparing
  <2> QED
    BY <2>6, <2>8
<1>2. CASE FetchQuarantines(r) \/ FetchFails(r)
  BY <1>2, ReturnsTyped DEF FetchQuarantines, FetchFails, Quarantine, replicaVars
<1>3. CASE CreateRoot(r)
  <2>1. /\ pc[r] = "create_root" /\ pc' = [pc EXCEPT ![r] = "write_root"]
        /\ slot' = [slot EXCEPT ![r][born[r]] = [entries |-> Layout, doc |-> Torn]]
        /\ UNCHANGED <<recs, mans, local, cp, born, quarantined, act, prev, plan, remote>>
    BY <1>3 DEF CreateRoot, Goto
  <2>2. [entries |-> Layout, doc |-> Torn] \in SlotType /\ born[r] \in 0 .. MaxOps
    BY BaseType DEF SlotType, Typed
  <2>3. Typed' /\ Others(r)
    BY ZenonT(30), <2>1, <2>2, SlotUpdate DEF Typed, Others, Steps
  <2>4. CallTyped(r)'
    BY <2>1 DEF CallTyped, Typed, Recovering, Preparing
  <2> QED
    BY <2>3, <2>4
<1>4. CASE WriteRoot(r)
  <2>1. /\ pc[r] = "write_root" /\ slot' = [slot EXCEPT ![r][born[r]].doc = plan[r]]
        /\ \/ plan[r].pred # 0 /\ pc' = [pc EXCEPT ![r] = "retire_pred"] /\ UNCHANGED <<act, prev>>
           \/ pc' = [pc EXCEPT ![r] = "files"] /\ act' = [act EXCEPT ![r] = born[r]] /\ UNCHANGED prev
        /\ UNCHANGED <<recs, mans, local, cp, born, quarantined, plan, remote>>
    BY <1>4 DEF WriteRoot, Goto
  <2>2. born[r] \in OpId /\ plan[r] \in DocType
    BY <2>1 DEF CallTyped, Preparing, Typed
  <2>3. /\ slot' \in [Replica -> [OpId -> SlotType]]
        /\ \A q \in Replica \ {r} : slot'[q] = slot[q]
    BY Zenon, <2>1, <2>2, DocSet DEF TypeInv
  <2>4. Typed' /\ Others(r)
    BY ZenonT(90), <2>1, <2>3 DEF Typed, Others, Steps
  <2>5. CallTyped(r)'
    BY <2>1, <2>2 DEF CallTyped, Typed, Recovering, Preparing
  <2> QED
    BY <2>4, <2>5
<1> QED
  BY <1>1, <1>2, <1>3, <1>4 DEF Prepares

\* Unlinking a slot.
LEMMA RetiresTyped ==
    ASSUME TypeInv, NEW r \in Replica, Retires(r) PROVE Typed' /\ CallTyped(r)' /\ Others(r)
<1> USE DEF TypeInv
<1>1. ASSUME NEW i \in OpId, RetireStep(r, i)
      PROVE  slot' \in [Replica -> [OpId -> SlotType]] /\ \A q \in Replica \ {r} : slot'[q] = slot[q]
  <2> DEFINE x == Unlinked(slot[r][i])
  <2>1. x \in SlotType /\ slot' = [slot EXCEPT ![r][i] = x]
    BY <1>1, RetireStepIs
  <2> HIDE DEF x
  <2> QED
    BY Zenon, <2>1, SlotUpdate
<1>2. Retiring(r) # 0 => Retiring(r) \in OpId
  BY DEF Retiring, CallTyped, Recovering
<1>3. CASE RetireEntry(r)
  <2>1. /\ UNCHANGED <<recs, mans, local, cp, born, quarantined, callVars, remote>>
        /\ RetireStep(r, Retiring(r))
        /\ Retiring(r) \in OpId
    BY <1>2, <1>3 DEF RetireEntry
  <2> QED
    BY <1>1, <1>2, <2>1 DEF Typed, Others, CallTyped, callVars
<1>4. CASE PredecessorRetired(r)
  <2>1. /\ UNCHANGED <<recs, mans, local, cp, born, quarantined, plan, remote>> /\ RetireStep(r, act[r])
        /\ act' = [act EXCEPT ![r] = born[r]] /\ prev' = [prev EXCEPT ![r] = 0]
        /\ pc[r] = "retire_pred" /\ pc' = [pc EXCEPT ![r] = "files"]
        /\ act[r] \in OpId
    BY ZenonT(60), <1>4 DEF PredecessorRetired, Goto, CallTyped
  <2>2. Typed' /\ Others(r)
    BY <1>1, <1>2, <2>1, SyncAssumption DEF Typed, Others, Steps
  <2>3. CallTyped(r)'
    BY ZenonT(60), <2>1 DEF CallTyped, Typed, Recovering, Preparing
  <2> QED
    BY <2>2, <2>3
<1>5. CASE PrevRetired(r)
  <2>1. /\ UNCHANGED <<recs, mans, local, cp, born, quarantined, act, prev, plan, remote>>
        /\ RetireStep(r, prev[r]) /\ pc[r] = "retire_prev" /\ pc' = [pc EXCEPT ![r] = "retire_act"]
        /\ prev[r] \in OpId
    BY SMTT(30), <1>5 DEF PrevRetired, Goto, CallTyped
  <2>2. Typed' /\ Others(r)
    BY <1>1, <1>2, <2>1 DEF Typed, Others, Steps
  <2>3. CallTyped(r)'
    BY <2>1 DEF CallTyped, Typed, Recovering, Preparing
  <2> QED
    BY <2>2, <2>3
<1>6. CASE ActiveRetired(r)
  <2>1. /\ UNCHANGED <<recs, mans, local, cp, born, quarantined, remote>>
        /\ RetireStep(r, act[r]) /\ Return(r)
        /\ act[r] \in OpId
    BY <1>6 DEF ActiveRetired, CallTyped
  <2>2. Typed' /\ Others(r)
    BY ZenonT(60), <1>1, <1>2, <2>1, ReturnType DEF Typed, Others
  <2>3. CallTyped(r)'
    BY <2>1, ReturnType DEF CallTyped, Recovering, Preparing
  <2> QED
    BY <2>2, <2>3
<1> QED
  BY <1>3, <1>4, <1>5, <1>6 DEF Retires

\* Publishing files, ref and checkpoint.
LEMMA PublishesTyped ==
    ASSUME TypeInv, NEW r \in Replica, Publishes(r) PROVE Typed' /\ CallTyped(r)' /\ Others(r)
<1> USE DEF TypeInv
<1>1. CASE AdvancePhase(r)
  <2> DEFINE d == [AD(r) EXCEPT !.phase = NextPhase[AD(r).phase]]
  <2>1. /\ pc[r] = "phase" /\ AD(r).phase \in DOMAIN NextPhase /\ pc' = [pc EXCEPT ![r] = "files"]
        /\ UNCHANGED <<recs, mans, local, cp, born, quarantined, act, prev, plan, remote>>
    BY <1>1 DEF AdvancePhase, Goto
  <2>2. act[r] \in OpId /\ AD(r) \in DocType
    BY Zenon, <2>1 DEF CallTyped, Recovering, Typed, SlotType, AD, Doc
  <2>3. d \in DocType
    <3>1. NextPhase[AD(r).phase] \in Phases
      BY Zenon, <2>1, NextPhases
    <3> QED
      BY Zenon, <2>2, <3>1, DocUpdate
  <2>4. slot' = [slot EXCEPT ![r][act[r]].doc = d]
    BY Zenon, <1>1 DEF AdvancePhase, AD, Doc
  <2>5. slot' \in [Replica -> [OpId -> SlotType]] /\ \A q \in Replica \ {r} : slot'[q] = slot[q]
    BY Zenon, <2>2, <2>3, <2>4, DocSet
  <2>6. Typed' /\ Others(r)
    BY ZenonT(30), <2>1, <2>5 DEF Typed, Others, Steps
  <2>7. CallTyped(r)'
    BY <2>1, <2>2 DEF CallTyped, Typed, Recovering, Preparing
  <2> QED
    BY <2>6, <2>7
<1>2. CASE FilesInvalid(r) \/ NeitherOldNorCandidate(r)
  BY <1>2, ReturnsTyped DEF FilesInvalid, NeitherOldNorCandidate, Quarantine, replicaVars
<1>3. CASE FilesOld(r) \/ FilesCandidate(r)
  <2>1. /\ UNCHANGED <<recs, mans, local, cp, slot, born, quarantined, act, prev, plan, remote>>
        /\ pc[r] \in Recovering /\ \E step \in {"publish", "ref"} : pc' = [pc EXCEPT ![r] = step]
    BY <1>3 DEF FilesOld, FilesCandidate, replicaVars, Goto, Recovering
  <2>2. Typed' /\ Others(r)
    BY <2>1 DEF Typed, Others, Steps
  <2>3. CallTyped(r)'
    BY <2>1 DEF CallTyped, Typed, Recovering, Preparing
  <2> QED
    BY <2>2, <2>3
<1>4. AD(r) \in DocType \/ pc[r] \notin Recovering
  BY DEF CallTyped, Recovering, Typed, SlotType, AD, Doc
<1>5. CASE PublishRecord(r) \/ PublishMarker(r)
  <2>1. AD(r).cand.files \subseteq Batch
    BY SMTT(30), <1>4, <1>5 DEF PublishRecord, PublishMarker, Recovering, DocType, Commit
  <2>2. ASSUME PublishRecord(r) PROVE Typed' /\ Others(r)
    <3>1. PICK b \in Batch : recs' = [recs EXCEPT ![r] = @ \cup {b}]
      BY Zenon, <2>1, <2>2 DEF PublishRecord
    <3>2. recs' \in [Replica -> SUBSET Batch] /\ \A q \in Replica \ {r} : recs'[q] = recs[q]
      BY ZenonT(60), <3>1 DEF Typed
    <3> QED
      BY <2>2, <3>2 DEF PublishRecord, callVars, Typed, Others
  <2>3. ASSUME PublishMarker(r) PROVE Typed' /\ Others(r)
    <3>1. PICK b \in Batch : mans' = [mans EXCEPT ![r] = @ \cup {b}]
      BY Zenon, <2>1, <2>3 DEF PublishMarker
    <3>2. mans' \in [Replica -> SUBSET Batch] /\ \A q \in Replica \ {r} : mans'[q] = mans[q]
      BY Zenon, <3>1 DEF Typed
    <3> QED
      BY <2>3, <3>2 DEF PublishMarker, callVars, Typed, Others
  <2>4. CallTyped(r)'
    BY <1>5 DEF PublishRecord, PublishMarker, callVars, CallTyped
  <2> QED
    BY <1>5, <2>2, <2>3, <2>4
<1>6. CASE advance_local_ref(r) \/ replace_checkpoint(r)
  <2>1. AD(r).cand \in Commit
    BY <1>4, <1>6 DEF advance_local_ref, replace_checkpoint, Recovering, DocType
  <2>2. Typed' /\ Others(r)
    BY ZenonT(30), <1>6, <2>1 DEF advance_local_ref, replace_checkpoint, Goto, Typed, Others, Steps
  <2>3. CallTyped(r)'
    BY <1>6 DEF advance_local_ref, replace_checkpoint, Goto, CallTyped, Typed, Recovering, Preparing
  <2> QED
    BY <2>2, <2>3
<1> QED
  BY ZenonT(60), <1>1, <1>2, <1>3, <1>5, <1>6 DEF Publishes

\* Exchanging with the remote.
LEMMA ExchangesTyped ==
    ASSUME TypeInv, NEW r \in Replica, Exchanges(r) PROVE Typed' /\ CallTyped(r)' /\ Others(r)
<1> USE DEF TypeInv
<1>1. AD(r) \in DocType /\ act[r] \in OpId
  BY ZenonT(60) DEF Exchanges, PushLands, PushFails, ObserveCandidate, ObserveExpected, ObserveStale,
     ObserveMissing, StaleStart, StaleMissingRef, Confirm, ConfirmQuarantines, AtPhase, CallTyped,
     Recovering, Typed, SlotType, AD, Doc
<1>2. CASE PushLands(r) \/ PushFails(r) \/ Confirm(r)
  <2>1. /\ UNCHANGED <<recs, mans, local, cp, slot, born, quarantined, act, prev, plan>>
        /\ remote' \in {remote, AD(r).cand}
        /\ \E step \in {"observe", "retire_prev", "retire_act"} :
             (step = "retire_prev" => prev[r] # 0) /\ pc' = [pc EXCEPT ![r] = step]
    BY <1>2 DEF PushLands, PushFails, Confirm, replicaVars, Goto
  <2>2. Typed' /\ Others(r)
    BY <1>1, <2>1 DEF Typed, Others, Steps, DocType
  <2>3. CallTyped(r)'
    BY SMTT(30), <1>1, <2>1, SyncAssumption DEF CallTyped, Typed, Recovering, Preparing, OpId
  <2> QED
    BY <2>2, <2>3
<1>3. CASE ObserveExpected(r) \/ ObserveMissing(r) \/ StaleMissingRef(r) \/ ConfirmQuarantines(r)
  BY <1>3, ReturnsTyped
     DEF ObserveExpected, ObserveMissing, StaleMissingRef, ConfirmQuarantines, Quarantine, replicaVars
<1>4. CASE ObserveCandidate(r)
  <2> DEFINE d == [AD(r) EXCEPT !.phase = "RemoteCasConfirmed"]
  <2>1. /\ pc' = [pc EXCEPT ![r] = "files"]
        /\ UNCHANGED <<recs, mans, local, cp, born, quarantined, act, prev, plan, remote>>
    BY Zenon, <1>4 DEF ObserveCandidate, Goto
  <2>2. d \in DocType
    BY Zenon, <1>1, DocUpdate DEF Phases
  <2>3. slot' = [slot EXCEPT ![r][act[r]].doc = d]
    BY Zenon, <1>4 DEF ObserveCandidate, AD, Doc
  <2>4. slot' \in [Replica -> [OpId -> SlotType]] /\ \A q \in Replica \ {r} : slot'[q] = slot[q]
    BY Zenon, <1>1, <2>2, <2>3, DocSet
  <2>5. Typed' /\ Others(r)
    BY Zenon, <2>1, <2>4 DEF Typed, Others, Steps
  <2>6. CallTyped(r)'
    BY <1>1, <2>1 DEF CallTyped, Typed, Recovering, Preparing
  <2> QED
    BY <2>5, <2>6
<1>5. CASE ObserveStale(r)
  <2> DEFINE d == [AD(r) EXCEPT !.phase = "RemoteCasStale", !.stale = remote]
  <2>1. /\ Return(r) /\ UNCHANGED <<recs, mans, local, cp, born, quarantined, remote>>
    BY Zenon, <1>5 DEF ObserveStale
  <2>2. d \in DocType
    BY Zenon, <1>1, DocUpdate DEF Typed
  <2>3. slot' = [slot EXCEPT ![r][act[r]].doc = d]
    BY Zenon, <1>5 DEF ObserveStale, AD, Doc
  <2>4. slot' \in [Replica -> [OpId -> SlotType]] /\ \A q \in Replica \ {r} : slot'[q] = slot[q]
    BY ZenonT(60), <1>1, <2>2, <2>3, DocSet
  <2>5. Typed' /\ Others(r)
    BY <2>1, <2>4, ReturnType DEF Typed, Others
  <2>6. CallTyped(r)'
    BY ZenonT(60), <2>1, ReturnType DEF CallTyped, Recovering, Preparing
  <2> QED
    BY <2>5, <2>6
<1>6. CASE StaleStart(r)
  <2>1. /\ Start(r, AD(r).orig, act[r], slot[r])
        /\ UNCHANGED <<recs, mans, local, cp, quarantined, act, prev, remote>>
    BY Zenon, <1>6 DEF StaleStart
  <2>2. AD(r).orig \in Commit /\ act[r] \in 0 .. MaxOps /\ slot[r] \in [OpId -> SlotType]
    BY Zenon, <1>1 DEF DocType, Typed
  <2>6. Opened(r, act[r], slot[r])
    BY ZenonT(60), <2>1, <2>2, StartType
  <2>3. Typed' /\ Others(r)
    BY <2>1, <2>6 DEF Opened, Typed, Others
  <2>4. born'[r] \in OpId /\ pc'[r] = "fetch"
    BY ZenonT(60), <2>6 DEF Opened
  <2>5. CallTyped(r)'
    BY Zenon, <1>1, <2>1, <2>4 DEF CallTyped, Recovering, Preparing
  <2> QED
    BY <2>3, <2>5
<1> QED
  BY Zenon, <1>2, <1>3, <1>4, <1>5, <1>6 DEF Exchanges

\* Every step of a call keeps the types and leaves the other replicas alone.
LEMMA ReplicaTyped ==
    ASSUME TypeInv, NEW r \in Replica,
           Starts(r) \/ Work(r) \/ Crash(r) \/ UserCommit(r) \/ \E b \in Batch : append(r, b)
    PROVE  TypeInv' /\ Others(r)
<1>1. Typed' /\ CallTyped(r)' /\ Others(r)
  BY ZenonT(60), StartsTyped, PreparesTyped, RetiresTyped, PublishesTyped, ExchangesTyped, OutsideTyped DEF Work
<1>2. \A q \in Replica \ {r} : CallTyped(q)'
  BY <1>1 DEF Others, CallTyped, TypeInv
<1> QED
  BY <1>1, <1>2 DEF TypeInv

\* Peers and faults of the remote leave every replica alone.
LEMMA RemoteTyped ==
    ASSUME TypeInv, RemoteFault \/ \E b \in Peer : PeerPush(b)
    PROVE  TypeInv' /\ UNCHANGED <<replicaVars, callVars>>
<1>1. UNCHANGED <<replicaVars, callVars>>
  BY Zenon DEF RemoteFault, PeerPush
<1>2. remote' \in Commit
  <2>1. CASE RemoteFault
    BY <2>1, BaseType DEF RemoteFault
  <2>2. ASSUME NEW b \in Peer, PeerPush(b) PROVE remote' \in Commit
    <3>1. b \in Batch
      BY Zenon, <2>2 DEF Batch
    <3>2. remote' = [remote EXCEPT !.files = @ \cup {b}] /\ remote \in Commit
      BY <2>2 DEF PeerPush, TypeInv, Typed
    <3> QED
      BY <3>1, <3>2 DEF Commit
  <2> QED
    BY <2>1, <2>2
<1> QED
  BY <1>1, <1>2 DEF TypeInv, Typed, CallTyped, replicaVars, callVars

\* Stores, slots, documents and calls keep their types.
THEOREM TypeCorrect == Spec => []TypeInv
<1>1. Init => TypeInv
  <2> SUFFICES ASSUME Init PROVE TypeInv
    OBVIOUS
  <2>1. NoSlot \in SlotType /\ {Genesis} \in SUBSET Batch /\ 0 \in 0 .. MaxOps
    BY BaseType, SyncAssumption DEF NoSlot, SlotType
  <2>2. Typed
    BY <2>1, BaseType DEF Init, Typed, Steps
  <2>3. \A r \in Replica : CallTyped(r)
    BY DEF Init, CallTyped, Recovering, Preparing
  <2> QED
    BY <2>2, <2>3 DEF TypeInv
<1>2. TypeInv /\ [Next]_vars => TypeInv'
  <2> SUFFICES ASSUME TypeInv, [Next]_vars PROVE TypeInv'
    BY Zenon
  <2>1. CASE UNCHANGED vars
    BY <2>1 DEF vars, replicaVars, callVars, TypeInv, Typed, CallTyped
  <2> QED
    BY <2>1, ReplicaTyped, RemoteTyped DEF Next
<1> QED
  BY <1>1, <1>2, PTL DEF Spec

---------------------------------------------------------------------------
(* The inductive invariant of publication *)

\* A candidate descends all that its document was built from, and is a valid store.
DocOk(d) ==
    /\ Ancestor(d.exp, d.cand) /\ Ancestor(d.old, d.cand) /\ Ancestor(d.from, d.cand)
    /\ Compatible(d.cand.files)

OrderAt(r) ==
    /\ Ancestor(cp[r], local[r]) /\ local[r].files \subseteq mans[r] /\ mans[r] \subseteq recs[r]
    /\ Compatible(recs[r])

DocsAt(r) == \A i \in OpId : DocOk(slot[r][i].doc)

\* The checkpoint does not move while the document that advances it is prepared.
PlanAt(r) ==
    /\ pc[r] \in Preparing \cup {"retire_pred"} => plan[r].from = cp[r] /\ plan[r].phase = "Prepared"
    /\ pc[r] \in {"create_root", "write_root", "retire_pred"} => DocOk(plan[r])

\* How far recover_sync_operation has got at each step of its loop.
StepAt(r) ==
    /\ pc[r] = "publish" => recs[r] \subseteq AD(r).cand.files
    /\ pc[r] \in {"ref", "checkpoint", "phase", "observe"} =>
         recs[r] = AD(r).cand.files /\ mans[r] = AD(r).cand.files
    /\ pc[r] \in {"checkpoint", "phase", "observe"} => local[r] = AD(r).cand
    /\ pc[r] \in {"phase", "observe"} => cp[r] = AD(r).cand

SyncAt(r) == OrderAt(r) /\ DocsAt(r) /\ PlanAt(r) /\ StepAt(r)

SyncInv == Compatible(remote.files) /\ \A r \in Replica : SyncAt(r)

\* The bootstrapped commit, and no ref at all, are valid stores.
LEMMA BaseCompatible ==
    Compatible(Base.files) /\ Compatible(NoRef.files) /\ Compatible({Genesis}) /\ DocOk(NoDoc) /\ DocOk(Torn)
BY SyncAssumption DEF Compatible, Base, NoRef, DocOk, NoDoc, Torn, Ancestor

\* A call leaves the invariant of the other replicas alone.
LEMMA OthersSync ==
    ASSUME NEW r \in Replica, Others(r), NEW q \in Replica \ {r}, SyncAt(q) PROVE SyncAt(q)'
<1>1. OrderAt(q)'
  BY Zenon DEF Others, SyncAt, OrderAt, Ancestor, Compatible
<1>2. DocsAt(q)'
  BY ZenonT(30) DEF Others, SyncAt, DocsAt, DocOk, Ancestor, Compatible
<1>3. PlanAt(q)'
  BY ZenonT(30) DEF Others, SyncAt, PlanAt, DocOk, Ancestor, Compatible
<1>4. StepAt(q)'
  BY ZenonT(30) DEF Others, SyncAt, StepAt, AD, Doc
<1> QED
  BY <1>1, <1>2, <1>3, <1>4 DEF SyncAt

\* Files, refs and slots stay as they are, and the call is at no step that says more.
LEMMA QuietSync ==
    ASSUME NEW r \in Replica, SyncAt(r), recs'[r] = recs[r], mans'[r] = mans[r],
           local'[r] = local[r], cp'[r] = cp[r],
           \A i \in OpId : slot'[r][i].doc \in {slot[r][i].doc, NoDoc, Torn},
           pc'[r] \in {"idle", "files", "retire_prev", "retire_act"}
    PROVE  SyncAt(r)'
<1>1. OrderAt(r)'
  BY ZenonT(30) DEF SyncAt, OrderAt, Ancestor, Compatible
<1>2. DocsAt(r)'
  <2> SUFFICES ASSUME NEW i \in OpId PROVE DocOk(slot[r][i].doc)'
    BY ZenonT(30) DEF DocsAt
  <2>1. DocOk(slot[r][i].doc) /\ DocOk(NoDoc) /\ DocOk(Torn)
    BY ZenonT(30), BaseCompatible DEF SyncAt, DocsAt
  <2> QED
    BY ZenonT(30), <2>1 DEF DocOk, Ancestor, Compatible
<1>3. PlanAt(r)' /\ StepAt(r)'
  BY Zenon DEF PlanAt, StepAt, Preparing
<1> QED
  BY Zenon, <1>1, <1>2, <1>3 DEF SyncAt

\* Callers and users only add valid batches, and only while nothing is pending.
LEMMA OutsideSync ==
    ASSUME TypeInv, NEW r \in Replica, SyncAt(r),
           UserCommit(r) \/ Crash(r) \/ \E b \in Batch : append(r, b)
    PROVE  SyncAt(r)'
<1>1. CASE UserCommit(r)
  <2>1. /\ pc[r] = "idle" /\ UNCHANGED <<recs, mans, cp, slot, pc, act, plan>>
        /\ local' = [local EXCEPT ![r].files = @ \cup mans[r]] /\ local[r] \in Commit
    BY <1>1 DEF UserCommit, callVars, TypeInv, Typed
  <2>2. local'[r].files = local[r].files \cup mans[r] /\ local'[r].unions = local[r].unions
    BY <2>1 DEF TypeInv, Typed, Commit
  <2>3. OrderAt(r)'
    BY Zenon, <2>1, <2>2 DEF SyncAt, OrderAt, Ancestor, Compatible
  <2>4. DocsAt(r)' /\ PlanAt(r)' /\ StepAt(r)'
    BY ZenonT(30), <2>1 DEF SyncAt, DocsAt, PlanAt, StepAt, Preparing, DocOk, Ancestor, Compatible
  <2> QED
    BY <2>3, <2>4 DEF SyncAt
<1>2. CASE Crash(r)
  BY <1>2, ReturnType, QuietSync DEF Crash, replicaVars, TypeInv
<1>3. ASSUME NEW b \in Batch, append(r, b) PROVE SyncAt(r)'
  <2>1. /\ pc[r] = "idle" /\ UNCHANGED <<local, cp, pc, act, plan>>
        /\ recs[r] = mans[r] /\ Compatible(mans[r] \cup {b})
        /\ recs'[r] = recs[r] \cup {b} /\ mans'[r] = mans[r] \cup {b} /\ slot'[r] = Cleaned(r)
    BY ZenonT(30), <1>3 DEF append, callVars, TypeInv, Typed
  <2>2. OrderAt(r)'
    BY Zenon, <2>1 DEF SyncAt, OrderAt, Ancestor, Compatible
  <2>3. DocsAt(r)'
    <3> SUFFICES ASSUME NEW i \in OpId PROVE DocOk(slot[r][i].doc)'
      BY ZenonT(60) DEF DocsAt
    <3>1. slot'[r][i].doc \in {slot[r][i].doc, NoDoc}
      BY <2>1 DEF Cleaned, NoSlot
    <3>2. DocOk(slot[r][i].doc) /\ DocOk(NoDoc)
      BY Zenon, BaseCompatible DEF SyncAt, DocsAt
    <3> QED
      BY Zenon, <3>1, <3>2 DEF DocOk, Ancestor, Compatible
  <2>4. PlanAt(r)' /\ StepAt(r)'
    BY ZenonT(60), <2>1 DEF PlanAt, StepAt, Preparing
  <2> QED
    BY Zenon, <2>2, <2>3, <2>4 DEF SyncAt
<1> QED
  BY <1>1, <1>2, <1>3

\* Starting an operation, first or succeeding.
LEMMA OpensSync ==
    ASSUME TypeInv, NEW r \in Replica, SyncAt(r), NEW STATE orig, orig \in Commit,
           NEW STATE pred, pred \in 0 .. MaxOps, NEW STATE others, others \in [OpId -> SlotType],
           \A i \in OpId : others[i].doc \in {slot[r][i].doc, NoDoc},
           Start(r, orig, pred, others), UNCHANGED <<recs, mans, local, cp>>
    PROVE  SyncAt(r)'
<1>0. Typed
  BY Zenon DEF TypeInv
<1>2. Opened(r, pred, others)
  BY Zenon, <1>0, StartType
<1>1. /\ pc'[r] = "fetch" /\ plan'[r].from = cp[r] /\ plan'[r].phase = "Prepared"
      /\ \A i \in OpId : slot'[r][i].doc = others[i].doc
  BY Zenon, <1>2 DEF Opened
<1>3. OrderAt(r)'
  BY Zenon DEF SyncAt, OrderAt, Ancestor, Compatible
<1>4. DocsAt(r)'
  <2> SUFFICES ASSUME NEW i \in OpId PROVE DocOk(slot[r][i].doc)'
    BY DEF DocsAt
  <2>1. slot'[r][i].doc \in {slot[r][i].doc, NoDoc}
    BY Zenon, <1>1
  <2>2. DocOk(slot[r][i].doc) /\ DocOk(NoDoc)
    BY ZenonT(60), BaseCompatible DEF SyncAt, DocsAt
  <2> QED
    BY ZenonT(30), <2>1, <2>2 DEF DocOk, Ancestor, Compatible
<1>5. PlanAt(r)' /\ StepAt(r)'
  BY <1>1 DEF PlanAt, StepAt, Preparing
<1> QED
  BY <1>3, <1>4, <1>5 DEF SyncAt

\* Starting a call.
LEMMA StartsSync == ASSUME TypeInv, NEW r \in Replica, SyncAt(r), Starts(r) PROVE SyncAt(r)'
<1>1. \A i \in OpId : Cleaned(r)[i].doc \in {slot[r][i].doc, NoDoc}
  BY Zenon DEF Cleaned, NoSlot
<1>2. CASE SyncStart(r)
  <2>1. Cleaned(r) \in [OpId -> SlotType] /\ cp[r] \in Commit /\ 0 \in 0 .. MaxOps
    BY CleanedType, SyncAssumption DEF TypeInv, Typed
  <2>2. Start(r, cp[r], 0, Cleaned(r)) /\ UNCHANGED <<recs, mans, local, cp>>
    BY Zenon, <1>2 DEF SyncStart
  <2> QED
    BY ZenonT(60), <1>1, <2>1, <2>2, OpensSync
<1>3. CASE StartMissingRef(r)
  <2>1. /\ Return(r) /\ UNCHANGED <<recs, mans, local, cp>> /\ slot'[r] = Cleaned(r)
    BY ZenonT(30), <1>3 DEF StartMissingRef, Quarantine, TypeInv, Typed
  <2> QED
    BY ZenonT(30), <1>1, <2>1, ReturnType, QuietSync DEF TypeInv
<1>4. CASE SyncRecover(r)
  <2>1. /\ pc'[r] = "files" /\ UNCHANGED <<recs, mans, local, cp>> /\ slot'[r] = Cleaned(r)
    BY Zenon, <1>4 DEF SyncRecover, Goto, TypeInv, Typed
  <2> QED
    BY Zenon, <1>1, <2>1, QuietSync
<1> QED
  BY <1>2, <1>3, <1>4 DEF Starts

\* The documents of one replica after one of them is replaced.
LEMMA DocReplaced ==
    ASSUME NEW r \in Replica, DocsAt(r), NEW i \in OpId, NEW d, DocOk(d), slot'[r][i].doc = d,
           \A j \in OpId \ {i} : slot'[r][j] = slot[r][j]
    PROVE  DocsAt(r)'
<1> SUFFICES ASSUME NEW j \in OpId PROVE DocOk(slot[r][j].doc)'
  BY DEF DocsAt
<1>1. DocOk(slot[r][j].doc)
  BY DEF DocsAt
<1>2. slot'[r][j].doc = d \/ slot'[r][j].doc = slot[r][j].doc
  BY Zenon
<1> QED
  BY Zenon, <1>1, <1>2 DEF DocOk, Ancestor, Compatible

\* Preparing a document: the candidate descends both tips and the checkpoint.
LEMMA PreparesSync == ASSUME TypeInv, NEW r \in Replica, SyncAt(r), Prepares(r) PROVE SyncAt(r)'
<1>1. CASE Fetch(r)
  <2> DEFINE cand == Candidate(r, local[r], remote)
  <2>1. /\ pc[r] = "fetch" /\ pc'[r] = "create_root" /\ Compatible(cand.files)
        /\ plan' = [plan EXCEPT ![r] = [@ EXCEPT !.old = local[r], !.exp = remote, !.cand = cand]]
        /\ slot' = [slot EXCEPT ![r][born[r]].entries = {"additions", "repo.git"}]
        /\ UNCHANGED <<recs, mans, local, cp>> /\ born[r] \in OpId /\ plan[r] \in DocType /\ Typed
    BY <1>1 DEF Fetch, Goto, TypeInv, Typed, CallTyped, Preparing
  <2>2. Ancestor(local[r], cand) /\ Ancestor(remote, cand)
    BY CandidateDescends
  <2> HIDE DEF cand
  <2>3. /\ plan'[r].old = local[r] /\ plan'[r].exp = remote /\ plan'[r].cand = cand
        /\ plan'[r].from = plan[r].from /\ plan'[r].phase = plan[r].phase
    BY <2>1 DEF DocType, Typed
  <2>4. Ancestor(plan[r].from, cand)
    BY <2>1, <2>2, AncestorTransitive DEF SyncAt, PlanAt, OrderAt, Preparing
  <2>5. DocOk(plan[r])'
    BY <2>1, <2>2, <2>3, <2>4 DEF DocOk, Ancestor, Compatible
  <2>6. PlanAt(r)' /\ StepAt(r)'
    BY <2>1, <2>3, <2>5 DEF SyncAt, PlanAt, StepAt, Preparing
  <2>7. \A i \in OpId : slot'[r][i].doc = slot[r][i].doc
    <3>1. /\ slot'[r][born[r]].doc = slot[r][born[r]].doc
          /\ \A j \in OpId \ {born[r]} : slot'[r][j] = slot[r][j]
      BY SMTT(60), <2>1, LayoutPart, EntriesSet
    <3> QED BY Zenon, <3>1
  <2>8. OrderAt(r)' /\ DocsAt(r)'
    BY ZenonT(60), <2>1, <2>7 DEF SyncAt, OrderAt, DocsAt, DocOk, Ancestor, Compatible
  <2> QED
    BY <2>6, <2>8 DEF SyncAt
<1>2. CASE FetchQuarantines(r) \/ FetchFails(r)
  <2>1. Return(r) /\ UNCHANGED <<recs, mans, local, cp, slot>>
    BY Zenon, <1>2 DEF FetchQuarantines, FetchFails, Quarantine, replicaVars
  <2> QED
    BY Zenon, <2>1, ReturnType, QuietSync DEF TypeInv
<1>3. CASE CreateRoot(r)
  <2>1. /\ pc[r] = "create_root" /\ pc'[r] = "write_root" /\ UNCHANGED <<recs, mans, local, cp, plan>>
        /\ slot' = [slot EXCEPT ![r][born[r]] = [entries |-> Layout, doc |-> Torn]]
        /\ born[r] \in OpId
    BY <1>3 DEF CreateRoot, Goto, TypeInv, Typed, CallTyped, Preparing
  <2>2. slot'[r][born[r]].doc = Torn /\ \A j \in OpId \ {born[r]} : slot'[r][j] = slot[r][j]
    BY <2>1 DEF TypeInv, Typed
  <2>3. DocsAt(r)'
    BY ZenonT(60), <2>1, <2>2, DocReplaced, BaseCompatible DEF SyncAt
  <2>4. OrderAt(r)' /\ PlanAt(r)' /\ StepAt(r)'
    BY Zenon, <2>1 DEF SyncAt, OrderAt, PlanAt, StepAt, Preparing, DocOk, Ancestor, Compatible
  <2> QED
    BY Zenon, <2>3, <2>4 DEF SyncAt
<1>4. CASE WriteRoot(r)
  <2>1. /\ pc[r] = "write_root" /\ pc'[r] \in {"retire_pred", "files"}
        /\ slot' = [slot EXCEPT ![r][born[r]].doc = plan[r]]
        /\ UNCHANGED <<recs, mans, local, cp, plan>> /\ born[r] \in OpId /\ plan[r] \in DocType /\ Typed
    BY <1>4 DEF WriteRoot, Goto, TypeInv, Typed, CallTyped, Preparing
  <2>2. /\ slot' \in [Replica -> [OpId -> SlotType]]
        /\ slot'[r][born[r]].entries = slot[r][born[r]].entries /\ slot'[r][born[r]].doc = plan[r]
        /\ \A j \in OpId \ {born[r]} : slot'[r][j] = slot[r][j]
        /\ \A q \in Replica \ {r} : slot'[q] = slot[q]
    BY Zenon, <2>1, DocSet
  <2>3. DocsAt(r)'
    BY <2>1, <2>2, DocReplaced DEF SyncAt, PlanAt
  <2>4. OrderAt(r)' /\ PlanAt(r)' /\ StepAt(r)'
    BY ZenonT(60), <2>1 DEF SyncAt, OrderAt, PlanAt, StepAt, Preparing, DocOk, Ancestor, Compatible
  <2> QED
    BY SMTT(30), <2>3, <2>4 DEF SyncAt
<1> QED
  BY <1>1, <1>2, <1>3, <1>4 DEF Prepares

\* One unlink leaves the documents of the other slots, and in its own at most one.
LEMMA UnlinkedDocs ==
    ASSUME TypeInv, NEW r \in Replica, NEW i \in OpId, RetireStep(r, i)
    PROVE  /\ \A j \in OpId : slot'[r][j].doc \in {slot[r][j].doc, NoDoc}
           /\ \A j \in OpId \ {i} : slot'[r][j] = slot[r][j]
<1> DEFINE x == Unlinked(slot[r][i])
<1>1. x \in SlotType /\ slot' = [slot EXCEPT ![r][i] = x] /\ Typed
  BY SMTT(30), RetireStepIs DEF TypeInv
<1>2. x.doc \in {slot[r][i].doc, NoDoc}
  BY DEF Unlinked, NoSlot
<1> HIDE DEF x
<1>3. slot'[r][i] = x /\ \A j \in OpId \ {i} : slot'[r][j] = slot[r][j]
  BY ZenonT(90), <1>1, SlotUpdate
<1> QED
  BY <1>2, <1>3

\* The slot that a step of retirement works on.
LEMMA RetiresSlot ==
    ASSUME TypeInv, NEW r \in Replica, Retires(r)
    PROVE  /\ \E i \in OpId : RetireStep(r, i) /\ i \in {act[r], prev[r]}
           /\ UNCHANGED <<recs, mans, local, cp, born, remote>>
           /\ pc'[r] \in {pc[r], "files", "retire_act", "idle"} /\ (pc'[r] = pc[r] => plan'[r] = plan[r])
           /\ pc[r] \in {"retire_pred", "retire_prev", "retire_act"}
<1>1. CASE RetireEntry(r)
  <2>1. /\ Retiring(r) \in OpId /\ Retiring(r) \in {act[r], prev[r]}
        /\ pc[r] \in {"retire_pred", "retire_prev", "retire_act"}
    BY <1>1 DEF RetireEntry, Retiring, TypeInv, CallTyped
  <2> QED
    BY <1>1, <2>1 DEF RetireEntry, callVars
<1>2. CASE PredecessorRetired(r) \/ PrevRetired(r)
  BY ZenonT(30), <1>2 DEF PredecessorRetired, PrevRetired, Goto, TypeInv, Typed, CallTyped
<1>3. CASE ActiveRetired(r)
  BY Zenon, <1>3 DEF ActiveRetired, Return, Goto, TypeInv, Typed, CallTyped
<1> QED
  BY Zenon, <1>1, <1>2, <1>3 DEF Retires

\* Retirement.
LEMMA RetiresSync == ASSUME TypeInv, NEW r \in Replica, SyncAt(r), Retires(r) PROVE SyncAt(r)'
<1>1. PICK i \in OpId : RetireStep(r, i)
  BY ZenonT(30), RetiresSlot
<1>2. \A j \in OpId : slot'[r][j].doc \in {slot[r][j].doc, NoDoc}
  BY <1>1, UnlinkedDocs
<1>3. /\ UNCHANGED <<recs, mans, local, cp>> /\ pc'[r] \in {pc[r], "files", "retire_act", "idle"}
      /\ (pc'[r] = pc[r] => plan'[r] = plan[r]) /\ pc[r] \in {"retire_pred", "retire_prev", "retire_act"}
  BY ZenonT(60), RetiresSlot
<1>4. CASE pc'[r] # "retire_pred"
  BY Zenon, <1>2, <1>3, <1>4, QuietSync
<1>5. CASE pc'[r] = "retire_pred"
  <2>1. DocsAt(r)'
    <3> SUFFICES ASSUME NEW j \in OpId PROVE DocOk(slot[r][j].doc)'
      BY DEF DocsAt
    <3>1. DocOk(slot[r][j].doc) /\ DocOk(NoDoc)
      BY Zenon, BaseCompatible DEF SyncAt, DocsAt
    <3> QED
      BY Zenon, <1>2, <3>1 DEF DocOk, Ancestor, Compatible
  <2>2. OrderAt(r)' /\ PlanAt(r)' /\ StepAt(r)'
    BY Zenon, <1>3, <1>5 DEF SyncAt, OrderAt, PlanAt, StepAt, Preparing, DocOk, Ancestor, Compatible
  <2> QED
    BY Zenon, <2>1, <2>2 DEF SyncAt
<1> QED
  BY Zenon, <1>4, <1>5

\* Publishing: files become the candidate's, then the ref, then the checkpoint.
LEMMA PublishesSync == ASSUME TypeInv, NEW r \in Replica, SyncAt(r), Publishes(r) PROVE SyncAt(r)'
<1>1. pc[r] \in Recovering => act[r] \in OpId /\ AD(r) \in DocType /\ DocOk(AD(r))
  BY SMTT(30) DEF TypeInv, Typed, CallTyped, SlotType, SyncAt, DocsAt, AD, Doc
<1>2. CASE AdvancePhase(r)
  <2> DEFINE d == [AD(r) EXCEPT !.phase = NextPhase[AD(r).phase]]
  <2>1. /\ pc[r] \in Recovering /\ pc'[r] = "files" /\ UNCHANGED <<recs, mans, local, cp>> /\ Typed
        /\ AD(r).phase \in DOMAIN NextPhase
    BY <1>2 DEF AdvancePhase, Goto, Recovering, TypeInv, Typed
  <2>2. NextPhase[AD(r).phase] \in Phases
    BY Zenon, <2>1, NextPhases
  <2>3. d \in DocType /\ DocOk(d)
    BY Zenon, <1>1, <2>1, <2>2, DocUpdate DEF DocOk, DocType
  <2>4. slot' = [slot EXCEPT ![r][act[r]].doc = d]
    BY Zenon, <1>2 DEF AdvancePhase, AD, Doc
  <2> HIDE DEF d
  <2>5. /\ slot' \in [Replica -> [OpId -> SlotType]]
        /\ slot'[r][act[r]].entries = slot[r][act[r]].entries /\ slot'[r][act[r]].doc = d
        /\ \A j \in OpId \ {act[r]} : slot'[r][j] = slot[r][j]
        /\ \A q \in Replica \ {r} : slot'[q] = slot[q]
    BY Zenon, <1>1, <2>1, <2>3, <2>4, DocSet
  <2>6. DocsAt(r)'
    BY ZenonT(30), <1>1, <2>1, <2>3, <2>5, DocReplaced DEF SyncAt
  <2>7. OrderAt(r)' /\ PlanAt(r)' /\ StepAt(r)'
    BY ZenonT(30), <2>1 DEF SyncAt, OrderAt, PlanAt, StepAt, Preparing, Ancestor, Compatible
  <2> QED
    BY SMTT(30), <2>6, <2>7 DEF SyncAt
<1>3. CASE FilesInvalid(r) \/ NeitherOldNorCandidate(r)
  <2>1. Return(r) /\ UNCHANGED <<recs, mans, local, cp, slot>>
    BY Zenon, <1>3 DEF FilesInvalid, NeitherOldNorCandidate, Quarantine, replicaVars
  <2> QED
    BY <2>1, ReturnType, QuietSync DEF TypeInv
<1>4. CASE ~AdvancePhase(r) /\ ~FilesInvalid(r) /\ ~NeitherOldNorCandidate(r)
  <2>1. pc[r] \in Recovering /\ pc'[r] \in Recovering /\ slot' = slot /\ act' = act /\ AD(r)' = AD(r)
    BY ZenonT(30), <1>4 DEF Publishes, PublishRecord, PublishMarker, FilesOld, FilesCandidate, advance_local_ref,
       replace_checkpoint, replicaVars, callVars, Goto, Recovering, TypeInv, Typed, AD, Doc
  <2>2. DocsAt(r)'
    BY ZenonT(30), <2>1 DEF SyncAt, DocsAt, DocOk, Ancestor, Compatible
  <2>3. PlanAt(r)'
    BY Zenon, <2>1 DEF PlanAt, Preparing, Recovering
  <2>4. CASE FilesOld(r) \/ FilesCandidate(r)
    <3>1. /\ UNCHANGED <<recs, mans, local, cp>> /\ recs[r] = mans[r]
          /\ \/ pc'[r] = "publish" /\ mans[r] = AD(r).old.files
             \/ pc'[r] = "ref" /\ mans[r] = AD(r).cand.files
      BY ZenonT(30), <2>4 DEF FilesOld, FilesCandidate, replicaVars, Goto, TypeInv, Typed
    <3>2. StepAt(r)'
      BY ZenonT(30), <1>1, <2>1, <3>1 DEF StepAt, DocOk, Ancestor
    <3>3. OrderAt(r)'
      BY Zenon, <3>1 DEF SyncAt, OrderAt, Ancestor, Compatible
    <3> QED
      BY Zenon, <2>2, <2>3, <3>2, <3>3 DEF SyncAt
  <2>5. CASE PublishRecord(r)
    <3>1. PICK b \in AD(r).cand.files \ recs[r] : recs' = [recs EXCEPT ![r] = @ \cup {b}]
      BY Zenon, <2>5 DEF PublishRecord
    <3>2. recs'[r] = recs[r] \cup {b} /\ UNCHANGED <<mans, local, cp, pc>> /\ pc[r] = "publish"
      BY ZenonT(30), <2>5, <3>1 DEF PublishRecord, callVars, TypeInv, Typed
    <3>3. StepAt(r)' /\ recs'[r] \subseteq AD(r).cand.files
      <4>1. recs[r] \subseteq AD(r).cand.files
        BY ZenonT(60), <3>2 DEF SyncAt, StepAt
      <4>2. recs'[r] \subseteq AD(r).cand.files
        BY <3>1, <3>2, <4>1
      <4> QED
        BY Zenon, <2>1, <3>2, <4>2 DEF StepAt
    <3>4. OrderAt(r)'
      BY ZenonT(30), <1>1, <2>1, <3>2, <3>3 DEF SyncAt, OrderAt, DocOk, Ancestor, Compatible
    <3> QED
      BY ZenonT(30), <2>2, <2>3, <3>3, <3>4 DEF SyncAt
  <2>6. CASE PublishMarker(r)
    <3>1. PICK b \in AD(r).cand.files \ mans[r] : mans' = [mans EXCEPT ![r] = @ \cup {b}]
      BY Zenon, <2>6 DEF PublishMarker
    <3>2. /\ mans'[r] = mans[r] \cup {b} /\ UNCHANGED <<recs, local, cp, pc>> /\ pc[r] = "publish"
          /\ AD(r).cand.files \subseteq recs[r]
      BY ZenonT(30), <2>6, <3>1 DEF PublishMarker, callVars, TypeInv, Typed
    <3>3. StepAt(r)'
      BY Zenon, <2>1, <3>2 DEF SyncAt, StepAt
    <3>4. OrderAt(r)'
      BY ZenonT(30), <3>1, <3>2 DEF SyncAt, OrderAt, Ancestor, Compatible
    <3> QED
      BY Zenon, <2>2, <2>3, <3>3, <3>4 DEF SyncAt
  <2>7. CASE advance_local_ref(r)
    <3>1. /\ pc[r] = "ref" /\ pc'[r] = "checkpoint" /\ local[r] \in {AD(r).old, AD(r).cand}
          /\ local'[r] = AD(r).cand /\ UNCHANGED <<recs, mans, cp>>
      BY ZenonT(30), <2>7 DEF advance_local_ref, Goto, TypeInv, Typed
    <3>2. Ancestor(cp[r], AD(r).cand)
      <4>1. Ancestor(cp[r], local[r])
        BY Zenon DEF SyncAt, OrderAt
      <4>2. Ancestor(AD(r).old, AD(r).cand)
        BY Zenon, <1>1, <2>1 DEF DocOk
      <4>3. CASE local[r] = AD(r).old
        BY Zenon, <4>1, <4>2, <4>3, AncestorTransitive
      <4>4. CASE local[r] = AD(r).cand
        BY Zenon, <4>1, <4>4
      <4> QED
        BY Zenon, <3>1, <4>3, <4>4
    <3>3. StepAt(r)'
      BY ZenonT(30), <2>1, <3>1 DEF SyncAt, StepAt
    <3>4. OrderAt(r)'
      BY ZenonT(30), <3>1, <3>2 DEF SyncAt, OrderAt, StepAt, Ancestor, Compatible
    <3> QED
      BY <2>2, <2>3, <3>3, <3>4 DEF SyncAt
  <2>8. CASE replace_checkpoint(r)
    <3>1. /\ pc[r] = "checkpoint" /\ pc'[r] = "phase" /\ cp'[r] = AD(r).cand
          /\ UNCHANGED <<recs, mans, local>>
      BY ZenonT(30), <2>8 DEF replace_checkpoint, Goto, TypeInv, Typed
    <3>2. StepAt(r)'
      BY ZenonT(30), <2>1, <3>1 DEF SyncAt, StepAt
    <3>3. OrderAt(r)'
      BY Zenon, <3>1 DEF SyncAt, OrderAt, StepAt, Ancestor, Compatible
    <3> QED
      BY <2>2, <2>3, <3>2, <3>3 DEF SyncAt
  <2> QED
    BY Zenon, <1>4, <2>4, <2>5, <2>6, <2>7, <2>8 DEF Publishes
<1> QED
  BY ZenonT(60), <1>2, <1>3, <1>4

\* Exchanging with the remote changes the phase of the active document, or starts a successor.
LEMMA ExchangesSync == ASSUME TypeInv, NEW r \in Replica, SyncAt(r), Exchanges(r) PROVE SyncAt(r)'
<1>1. act[r] \in OpId /\ AD(r) \in DocType /\ DocOk(AD(r)) /\ Typed
  BY ZenonT(30) DEF Exchanges, PushLands, PushFails, ObserveCandidate, ObserveExpected, ObserveStale,
     ObserveMissing, StaleStart, StaleMissingRef, Confirm, ConfirmQuarantines, AtPhase, TypeInv,
     CallTyped, Recovering, Typed, SlotType, SyncAt, DocsAt, AD, Doc
<1>2. CASE PushLands(r) \/ PushFails(r)
  <2>1. /\ pc[r] = "phase" /\ pc'[r] = "observe" /\ UNCHANGED <<recs, mans, local, cp, slot, act>>
    BY ZenonT(30), <1>2 DEF PushLands, PushFails, AtPhase, replicaVars, Goto, TypeInv, Typed
  <2> QED
    BY ZenonT(30), <2>1 DEF SyncAt, OrderAt, DocsAt, PlanAt, StepAt, DocOk, Ancestor, Compatible, Preparing, AD, Doc
<1>3. CASE Confirm(r)
  <2>1. pc'[r] \in {"retire_prev", "retire_act"} /\ UNCHANGED <<recs, mans, local, cp, slot>>
    BY ZenonT(60), <1>3 DEF Confirm, replicaVars, Goto, TypeInv, Typed
  <2> QED
    BY Zenon, <2>1, QuietSync
<1>4. CASE ObserveExpected(r) \/ ObserveMissing(r) \/ StaleMissingRef(r) \/ ConfirmQuarantines(r)
  <2>1. Return(r) /\ UNCHANGED <<recs, mans, local, cp, slot>>
    BY <1>4 DEF ObserveExpected, ObserveMissing, StaleMissingRef, ConfirmQuarantines, Quarantine,
       replicaVars
  <2> QED
    BY <2>1, ReturnType, QuietSync DEF TypeInv
<1>5. ASSUME NEW STATE d, d \in DocType, DocOk(d), slot' = [slot EXCEPT ![r][act[r]].doc = d],
             pc'[r] \in {"idle", "files"}, UNCHANGED <<recs, mans, local, cp>>
      PROVE  SyncAt(r)'
  <2>1. /\ slot' \in [Replica -> [OpId -> SlotType]]
        /\ slot'[r][act[r]].entries = slot[r][act[r]].entries /\ slot'[r][act[r]].doc = d
        /\ \A j \in OpId \ {act[r]} : slot'[r][j] = slot[r][j]
        /\ \A q \in Replica \ {r} : slot'[q] = slot[q]
    BY Zenon, <1>1, <1>5, DocSet
  <2>2. DocsAt(r)'
    BY ZenonT(60), <1>1, <1>5, <2>1, DocReplaced DEF SyncAt
  <2>3. OrderAt(r)' /\ PlanAt(r)' /\ StepAt(r)'
    BY <1>5 DEF SyncAt, OrderAt, PlanAt, StepAt, Preparing, Ancestor, Compatible
  <2> QED
    BY SMTT(30), <2>2, <2>3 DEF SyncAt
<1>6. CASE ObserveCandidate(r)
  <2> DEFINE d == [AD(r) EXCEPT !.phase = "RemoteCasConfirmed"]
  <2>1. d \in DocType /\ DocOk(d)
    BY ZenonT(30), <1>1, DocUpdate DEF DocOk, DocType, Phases
  <2>2. slot' = [slot EXCEPT ![r][act[r]].doc = d]
    BY Zenon, <1>6 DEF ObserveCandidate, AD, Doc
  <2>3. pc'[r] = "files" /\ UNCHANGED <<recs, mans, local, cp>>
    BY <1>1, <1>6 DEF ObserveCandidate, Goto, Typed
  <2> HIDE DEF d
  <2> QED
    BY Zenon, <1>5, <2>1, <2>2, <2>3
<1>7. CASE ObserveStale(r)
  <2> DEFINE d == [AD(r) EXCEPT !.phase = "RemoteCasStale", !.stale = remote]
  <2>1. d \in DocType /\ DocOk(d)
    BY Zenon, <1>1, DocUpdate DEF DocOk, DocType, Typed
  <2>2. slot' = [slot EXCEPT ![r][act[r]].doc = d]
    BY Zenon, <1>7 DEF ObserveStale, AD, Doc
  <2>3. pc'[r] = "idle" /\ UNCHANGED <<recs, mans, local, cp>>
    BY ZenonT(60), <1>1, <1>7, ReturnType DEF ObserveStale
  <2> HIDE DEF d
  <2> QED
    BY Zenon, <1>5, <2>1, <2>2, <2>3
<1>8. CASE StaleStart(r)
  <2>1. /\ AD(r).orig \in Commit /\ act[r] \in 0 .. MaxOps /\ slot[r] \in [OpId -> SlotType]
        /\ \A i \in OpId : slot[r][i].doc \in {slot[r][i].doc, NoDoc}
    BY Zenon, <1>1 DEF DocType, Typed
  <2>2. Start(r, AD(r).orig, act[r], slot[r]) /\ UNCHANGED <<recs, mans, local, cp>>
    BY ZenonT(30), <1>8 DEF StaleStart
  <2> QED
    BY <2>1, <2>2, OpensSync
<1> QED
  BY Zenon, <1>2, <1>3, <1>4, <1>6, <1>7, <1>8 DEF Exchanges

---------------------------------------------------------------------------
(* What no step takes back *)

Kept(r) ==
    /\ recs[r] \subseteq recs'[r] /\ mans[r] \subseteq mans'[r]
    /\ Ancestor(local[r], local'[r]) /\ Ancestor(cp[r], cp'[r])

Unmoved(r) == recs'[r] = recs[r] /\ mans'[r] = mans[r] /\ local'[r] = local[r] /\ cp'[r] = cp[r]

\* A replica that a step leaves alone keeps what it has.
LEMMA UnmovedKept == ASSUME NEW r, Unmoved(r) PROVE Kept(r)
BY Zenon DEF Unmoved, Kept, Ancestor

\* A step of a replica keeps its files, its ref and its checkpoint, and moves the remote
\* only to a descendant of the tip the candidate was built from.
LEMMA StepKeeps ==
    ASSUME TypeInv, NEW r \in Replica, SyncAt(r), Compatible(remote.files),
           Starts(r) \/ Work(r) \/ Crash(r) \/ UserCommit(r) \/ \E b \in Batch : append(r, b)
    PROVE  Kept(r) /\ Ancestor(remote, remote') /\ Compatible(remote'.files)
<1>1. CASE PushLands(r)
  <2>1. /\ remote = AD(r).exp /\ remote' = AD(r).cand /\ Unmoved(r) /\ act[r] \in OpId
    BY ZenonT(30), <1>1 DEF PushLands, AtPhase, replicaVars, Unmoved, TypeInv, CallTyped, Recovering
  <2>2. DocOk(AD(r))
    BY ZenonT(30), <2>1 DEF SyncAt, DocsAt, AD, Doc
  <2>3. Kept(r)
    BY Zenon, <2>1, UnmovedKept
  <2> QED
    BY Zenon, <2>1, <2>2, <2>3 DEF DocOk
<1>2. CASE ~PushLands(r)
  <2>1. remote' = remote
    BY ZenonT(60), <1>2 DEF Starts, SyncStart, StartMissingRef, SyncRecover, Work, Prepares, Fetch, FetchQuarantines,
       FetchFails, CreateRoot, WriteRoot, Retires, RetireEntry, PredecessorRetired, PrevRetired,
       ActiveRetired, Publishes, PublishRecord, PublishMarker, FilesOld, FilesCandidate, FilesInvalid,
       NeitherOldNorCandidate, advance_local_ref, replace_checkpoint, AdvancePhase, Exchanges,
       PushFails, ObserveCandidate, ObserveExpected, ObserveStale, ObserveMissing, StaleStart,
       StaleMissingRef, Confirm, ConfirmQuarantines, Crash, UserCommit, append
  <2>2. Ancestor(remote, remote') /\ Compatible(remote'.files)
    BY <2>1 DEF Ancestor
  <2>3. CASE UserCommit(r)
    BY Zenon, <2>2, <2>3 DEF UserCommit, TypeInv, Typed, Commit, Kept, Ancestor
  <2>4. ASSUME NEW b \in Batch, append(r, b) PROVE Kept(r)
    BY ZenonT(30), <2>4 DEF append, TypeInv, Typed, Kept, Ancestor
  <2>5. CASE PublishRecord(r) \/ PublishMarker(r)
    BY ZenonT(30), <2>2, <2>5 DEF PublishRecord, PublishMarker, TypeInv, Typed, Kept, Ancestor
  <2>6. CASE advance_local_ref(r) \/ replace_checkpoint(r)
    <3>1. act[r] \in OpId /\ DocOk(AD(r))
      BY ZenonT(30), <2>6 DEF advance_local_ref, replace_checkpoint, TypeInv, CallTyped, Recovering, SyncAt,
         DocsAt, AD, Doc
    <3>2. CASE advance_local_ref(r)
      BY ZenonT(30), <2>2, <3>1, <3>2 DEF advance_local_ref, TypeInv, Typed, Kept, DocOk, Ancestor
    <3>3. CASE replace_checkpoint(r)
      BY ZenonT(30), <2>2, <3>1, <3>3 DEF replace_checkpoint, TypeInv, Typed, Kept, DocOk, Ancestor
    <3> QED
      BY ZenonT(30), <2>6, <3>2, <3>3
  <2>7. CASE Starts(r) \/ Prepares(r) \/ Retires(r) \/ Exchanges(r) \/ Crash(r)
    <3>1. UNCHANGED <<recs, mans, local, cp>>
      BY ZenonT(30), <2>7 DEF Starts, SyncStart, StartMissingRef, SyncRecover, Prepares, Fetch, FetchQuarantines,
         FetchFails, CreateRoot, WriteRoot, Retires, RetireEntry, PredecessorRetired, PrevRetired,
         ActiveRetired, Exchanges, PushLands, PushFails, ObserveCandidate, ObserveExpected,
         ObserveStale, ObserveMissing, StaleStart, StaleMissingRef, Confirm, ConfirmQuarantines,
         Crash, replicaVars
    <3> QED
      BY ZenonT(30), <2>2, <3>1, UnmovedKept DEF Unmoved
  <2>8. CASE FilesOld(r) \/ FilesCandidate(r) \/ FilesInvalid(r) \/ NeitherOldNorCandidate(r)
             \/ AdvancePhase(r)
    <3>1. UNCHANGED <<recs, mans, local, cp>>
      BY Zenon, <2>8 DEF FilesOld, FilesCandidate, FilesInvalid, NeitherOldNorCandidate, AdvancePhase,
         replicaVars
    <3> QED
      BY ZenonT(30), <2>2, <3>1, UnmovedKept DEF Unmoved
  <2> QED
    BY ZenonT(30), <2>2, <2>3, <2>4, <2>5, <2>6, <2>7, <2>8 DEF Work, Publishes
<1> QED
  BY ZenonT(30), <1>1, <1>2

\* Peers push valid stores; a fault leaves the bootstrapped commit or no ref.
LEMMA RemoteKeeps ==
    ASSUME TypeInv, Compatible(remote.files), RemoteFault \/ \E b \in Peer : PeerPush(b)
    PROVE  /\ Compatible(remote'.files) /\ \A r \in Replica : Kept(r)
           /\ RemoteFaults = {} => Ancestor(remote, remote')
<1>1. \A r \in Replica : Kept(r)
  BY Zenon, RemoteTyped, UnmovedKept DEF replicaVars, Unmoved
<1>2. CASE RemoteFault
  BY ZenonT(60), <1>1, <1>2, BaseCompatible DEF RemoteFault
<1>3. ASSUME NEW b \in Peer, PeerPush(b)
      PROVE  Compatible(remote'.files) /\ Ancestor(remote, remote')
  <2>1. remote'.files = remote.files \cup {b} /\ remote'.unions = remote.unions
        /\ Compatible(remote.files \cup {b})
    BY <1>3 DEF PeerPush, TypeInv, Typed, Commit
  <2> QED
    BY <2>1 DEF Ancestor
<1> QED
  BY Zenon, <1>1, <1>2, <1>3

\* Candidates descend all they were built from, and publication follows them in order.
THEOREM SyncInvariant == Spec => []SyncInv
<1>1. Init => SyncInv
  <2> SUFFICES ASSUME Init PROVE SyncInv
    OBVIOUS
  <2>1. Compatible(remote.files)
    BY BaseCompatible DEF Init
  <2> SUFFICES ASSUME NEW r \in Replica PROVE SyncAt(r)
    BY Zenon, <2>1 DEF SyncInv
  <2>2. OrderAt(r)
    BY ZenonT(30), BaseCompatible DEF Init, OrderAt, Base, Ancestor
  <2>3. DocsAt(r)
    BY ZenonT(60), BaseCompatible DEF Init, DocsAt, NoSlot
  <2>4. PlanAt(r) /\ StepAt(r)
    BY Zenon DEF Init, PlanAt, StepAt, Preparing
  <2> QED
    BY ZenonT(60), <2>2, <2>3, <2>4 DEF SyncAt
<1>2. TypeInv /\ SyncInv /\ [Next]_vars => SyncInv'
  <2> SUFFICES ASSUME TypeInv, SyncInv, [Next]_vars PROVE SyncInv'
    OBVIOUS
  <2>1. ASSUME NEW r \in Replica,
               Starts(r) \/ Work(r) \/ Crash(r) \/ UserCommit(r) \/ \E b \in Batch : append(r, b)
        PROVE  SyncInv'
    <3>1. SyncAt(r)'
      BY ZenonT(60), <2>1, StartsSync, PreparesSync, RetiresSync, PublishesSync, ExchangesSync, OutsideSync
         DEF SyncInv, Work
    <3>2. \A q \in Replica \ {r} : SyncAt(q)'
      BY <2>1, ReplicaTyped, OthersSync DEF SyncInv
    <3>3. Compatible(remote.files)'
      BY Zenon, <2>1, StepKeeps DEF SyncInv, Compatible
    <3> QED
      BY Zenon, <3>1, <3>2, <3>3 DEF SyncInv
  <2>2. CASE UNCHANGED <<replicaVars, callVars>> /\ Compatible(remote'.files)
    <3>1. ASSUME NEW r \in Replica PROVE SyncAt(r)'
      BY ZenonT(90), <2>2 DEF SyncInv, SyncAt, OrderAt, DocsAt, PlanAt, StepAt, DocOk, Ancestor, Compatible, AD,
         Doc, replicaVars, callVars
    <3>2. Compatible(remote.files)'
      BY Zenon, <2>2 DEF Compatible
    <3> QED
      BY ZenonT(30), <3>1, <3>2 DEF SyncInv
  <2>3. CASE RemoteFault \/ \E b \in Peer : PeerPush(b)
    BY Zenon, <2>2, <2>3, RemoteTyped, RemoteKeeps DEF SyncInv
  <2>4. CASE UNCHANGED vars
    BY <2>2, <2>4 DEF vars, SyncInv, replicaVars, callVars
  <2> QED
    BY <2>1, <2>3, <2>4 DEF Next
<1> QED
  BY <1>1, <1>2, TypeCorrect, PTL DEF Spec

\* Files before the local ref, the ref before the checkpoint, a marker only with its
\* records: for any replicas and batches, wherever processes die and whatever the remote does.
THEOREM PublicationIsOrdered == Spec => []PublicationOrder
<1>1. SyncInv => PublicationOrder
  BY DEF SyncInv, SyncAt, OrderAt, PublicationOrder
<1> QED
  BY <1>1, SyncInvariant, PTL

\* No visible tree, ref or remote tip holds two batches that clash.
THEOREM ClashesStayApart == Spec => []NoClashAdmitted
<1>1. SyncInv => NoClashAdmitted
  BY CompatibleSubset DEF SyncInv, SyncAt, OrderAt, NoClashAdmitted
<1> QED
  BY <1>1, SyncInvariant, PTL

\* A replica never gives up what it has accepted, whatever the remote shows it.
THEOREM AcceptedIsKept == Spec => AcceptedNeverLost
<1>1. TypeInv /\ SyncInv /\ [Next]_vars =>
        [\A r \in Replica :
           /\ recs[r] \subseteq recs'[r] /\ mans[r] \subseteq mans'[r]
           /\ Ancestor(local[r], local'[r]) /\ Ancestor(cp[r], cp'[r])]_<<recs, mans, local, cp>>
  <2> SUFFICES ASSUME TypeInv, SyncInv, Next PROVE \A r \in Replica : Kept(r)
    BY ZenonT(60) DEF Kept, vars, replicaVars
  <2>1. ASSUME NEW r \in Replica,
               Starts(r) \/ Work(r) \/ Crash(r) \/ UserCommit(r) \/ \E b \in Batch : append(r, b)
        PROVE  \A q \in Replica : Kept(q)
    BY ZenonT(60), <2>1, StepKeeps, ReplicaTyped, UnmovedKept DEF SyncInv, Others, Unmoved
  <2>2. CASE RemoteFault \/ \E b \in Peer : PeerPush(b)
    BY <2>2, RemoteKeeps DEF SyncInv
  <2> QED
    BY <2>1, <2>2 DEF Next
<1> QED
  BY <1>1, TypeCorrect, SyncInvariant, PTL DEF Spec, AcceptedNeverLost

\* Nothing is taken off the remote by a push: the exact lease replaces only the tip that
\* the candidate was built from.
THEOREM RemoteIsKept ==
    ASSUME RemoteFaults = {}
    PROVE  Spec => RemoteNeverLoses
<1>1. TypeInv /\ SyncInv /\ [Next]_vars => [Ancestor(remote, remote')]_remote
  <2> SUFFICES ASSUME TypeInv, SyncInv, Next PROVE Ancestor(remote, remote')
    BY Zenon DEF vars
  <2> QED
    BY Zenon, StepKeeps, RemoteKeeps DEF SyncInv, Next
<1> QED
  BY <1>1, TypeCorrect, SyncInvariant, PTL DEF Spec, RemoteNeverLoses

---------------------------------------------------------------------------
(* The obligation to push *)

\* The slot's pending root exists: Durable, of one operation.
Rooted(r, i) == "pending.json" \in slot[r][i].entries

FreshAt(r) ==
    /\ \A i \in OpId : Rooted(r, i) => i <= born[r]
    /\ pc[r] \in {"fetch", "create_root"} => ~Rooted(r, born[r])

\* What the steps of a call rely on: the operation recovered has its root; a predecessor
\* is unlinked only when its successor is durable, the last operation only when its
\* candidate is on the remote.
RootsAt(r) ==
    /\ pc[r] \in Recovering => Rooted(r, act[r])
    /\ pc[r] = "write_root" => Rooted(r, born[r])
    /\ pc[r] \in Preparing /\ plan[r].pred # 0 => act[r] # born[r]
    /\ pc[r] = "retire_pred" =>
         act[r] # born[r] /\ Rooted(r, born[r]) /\ Ancestor(cp[r], slot[r][born[r]].doc.cand)
    /\ pc[r] \in {"retire_prev", "retire_act"} => Ancestor(cp[r], remote)

PushedOrOwed(r) ==
    Ancestor(cp[r], remote) \/ \E i \in OpId : Rooted(r, i) /\ Ancestor(cp[r], slot[r][i].doc.cand)

OwedAt(r) == FreshAt(r) /\ RootsAt(r) /\ PushedOrOwed(r)
OwedInv == \A r \in Replica : OwedAt(r)

\* No root appears, disappears or changes its candidate.
RootsKept(r) ==
    \A i \in OpId : /\ Rooted(r, i)' <=> Rooted(r, i)
                    /\ Rooted(r, i) => slot'[r][i].doc.cand = slot[r][i].doc.cand

\* With its roots kept, a replica owes what it owed, and the remote only gains.
LEMMA RootsKeptOwed ==
    ASSUME NEW r \in Replica, RootsKept(r), PushedOrOwed(r), cp'[r] = cp[r], Ancestor(remote, remote')
    PROVE  PushedOrOwed(r)'
BY ZenonT(30), AncestorTransitive DEF RootsKept, PushedOrOwed, Ancestor

\* A step that goes on recovering an operation that has its root.
LEMMA QuietOwed ==
    ASSUME NEW r \in Replica, OwedAt(r), RootsKept(r), cp'[r] = cp[r], born'[r] = born[r],
           Ancestor(remote, remote'),
           pc'[r] \in Recovering, act'[r] \in OpId, Rooted(r, act'[r])
    PROVE  OwedAt(r)'
<1>1. PushedOrOwed(r)'
  BY ZenonT(30), RootsKeptOwed DEF OwedAt
<1>2. FreshAt(r)'
  BY ZenonT(30) DEF OwedAt, FreshAt, RootsKept, Recovering
<1>3. RootsAt(r)'
  BY Zenon DEF RootsAt, RootsKept, Recovering, Preparing, Rooted
<1> QED
  BY Zenon, <1>1, <1>2, <1>3 DEF OwedAt

\* Slots that stay as they are, and the cleaning of disposable ones.
LEMMA CleanedRoots ==
    ASSUME NEW r \in Replica, slot'[r] = slot[r] \/ slot'[r] = Cleaned(r) PROVE RootsKept(r)
<1>1. CASE slot'[r] = Cleaned(r)
  <2> SUFFICES ASSUME NEW i \in OpId
               PROVE  /\ Rooted(r, i)' <=> Rooted(r, i)
                      /\ Rooted(r, i) => slot'[r][i].doc.cand = slot[r][i].doc.cand
    BY ZenonT(60) DEF RootsKept
  <2>1. CASE i \in Disposable(r)
    <3>1. slot'[r][i] = NoSlot /\ ~Rooted(r, i)
      BY Zenon, <1>1, <2>1 DEF Cleaned, Disposable, Durable, Rooted
    <3> QED
      BY SMTT(30), <3>1 DEF Rooted, NoSlot
  <2>2. CASE i \notin Disposable(r)
    BY Zenon, <1>1, <2>2 DEF Cleaned, Rooted
  <2> QED
    BY Zenon, <2>1, <2>2
<1>2. CASE slot'[r] = slot[r]
  BY <1>2 DEF RootsKept, Rooted
<1> QED
  BY ZenonT(60), <1>1, <1>2

\* A step that ends the call, with its slots as they were or cleaned.
LEMMA EndsOwed ==
    ASSUME NEW r \in Replica, OwedAt(r), slot'[r] = slot[r] \/ slot'[r] = Cleaned(r),
           cp'[r] = cp[r], born'[r] = born[r], Ancestor(remote, remote'), pc'[r] = "idle"
    PROVE  OwedAt(r)'
<1>1. RootsKept(r)
  BY CleanedRoots
<1>2. PushedOrOwed(r)'
  BY Zenon, <1>1, RootsKeptOwed DEF OwedAt
<1>3. FreshAt(r)'
  BY Zenon, <1>1 DEF OwedAt, FreshAt, RootsKept
<1>4. RootsAt(r)'
  BY ZenonT(30) DEF RootsAt, Recovering, Preparing
<1> QED
  BY ZenonT(60), <1>2, <1>3, <1>4 DEF OwedAt

\* The other replicas, and every replica when only the remote moves.
LEMMA OthersOwed ==
    ASSUME NEW q \in Replica, OwedAt(q), Ancestor(remote, remote'),
           cp'[q] = cp[q], slot'[q] = slot[q], born'[q] = born[q], pc'[q] = pc[q], act'[q] = act[q],
           plan'[q] = plan[q]
    PROVE  OwedAt(q)'
<1>1. RootsKept(q)
  BY CleanedRoots
<1>2. PushedOrOwed(q)'
  BY Zenon, <1>1, RootsKeptOwed DEF OwedAt
<1>3. FreshAt(q)'
  BY Zenon DEF OwedAt, FreshAt, Rooted
<1>4. RootsAt(q)'
  BY ZenonT(30) DEF OwedAt, RootsAt, Rooted, Ancestor
<1> QED
  BY Zenon, <1>2, <1>3, <1>4 DEF OwedAt

\* A new operation has a name of its own: its slot is not one that owes.
LEMMA OpensOwed ==
    ASSUME TypeInv, NEW r \in Replica, OwedAt(r), NEW STATE orig, orig \in Commit,
           NEW STATE pred, pred \in 0 .. MaxOps, NEW STATE others, others \in [OpId -> SlotType],
           \A i \in OpId : /\ "pending.json" \in others[i].entries <=> Rooted(r, i)
                           /\ Rooted(r, i) => others[i].doc = slot[r][i].doc,
           Start(r, orig, pred, others), UNCHANGED <<cp, act, remote>>,
           pred # 0 => act[r] \in OpId /\ Rooted(r, act[r])
    PROVE  OwedAt(r)'
<1>1. Typed /\ born[r] \in 0 .. MaxOps
  BY ZenonT(30) DEF TypeInv, Typed
<1>2. /\ born'[r] = born[r] + 1 /\ born'[r] \in OpId /\ pc'[r] = "fetch" /\ plan'[r].pred = pred
      /\ slot'[r][born'[r]].entries = {}
      /\ \A i \in OpId : slot'[r][i].doc = others[i].doc
      /\ \A i \in OpId \ {born'[r]} : slot'[r][i].entries = others[i].entries
  <2>1. Opened(r, pred, others)
    BY Zenon, <1>1, StartType
  <2> QED
    BY Zenon, <2>1 DEF Opened
<1>3. ~Rooted(r, born'[r]) /\ \A i \in OpId : Rooted(r, i) => i # born'[r] /\ i <= born'[r]
  <2>1. \A i \in OpId : Rooted(r, i) => i <= born[r]
    BY ZenonT(60) DEF OwedAt, FreshAt
  <2>2. \A i \in OpId : i <= born[r] => i # born'[r] /\ i <= born'[r]
    BY <1>1, <1>2, SyncAssumption DEF OpId
  <2> QED
    BY Zenon, <1>2, <2>1, <2>2
<1>4. RootsKept(r) /\ ~Rooted(r, born[r])'
  BY ZenonT(90), <1>2, <1>3 DEF RootsKept, Rooted
<1>5. PushedOrOwed(r)'
  BY Zenon, <1>4, RootsKeptOwed DEF OwedAt, Ancestor
<1>6. FreshAt(r)'
  BY ZenonT(30), <1>2, <1>3, <1>4 DEF FreshAt, RootsKept
<1>7. RootsAt(r)'
  BY ZenonT(30), <1>2, <1>3 DEF RootsAt, Recovering, Preparing
<1> QED
  BY ZenonT(30), <1>5, <1>6, <1>7 DEF OwedAt

\* Callers, users and crashes.
LEMMA OutsideOwed ==
    ASSUME TypeInv, NEW r \in Replica, OwedAt(r), Ancestor(remote, remote'),
           UserCommit(r) \/ Crash(r) \/ \E b \in Batch : append(r, b)
    PROVE  OwedAt(r)'
<1>1. /\ cp' = cp /\ born' = born /\ (slot'[r] = slot[r] \/ slot'[r] = Cleaned(r)) /\ pc'[r] = "idle"
  BY Zenon DEF UserCommit, Crash, append, Return, Goto, replicaVars, callVars, TypeInv, Typed
<1> QED
  BY Zenon, <1>1, EndsOwed

\* Starting a call.
LEMMA StartsOwed ==
    ASSUME TypeInv, NEW r \in Replica, OwedAt(r), Ancestor(remote, remote'), Starts(r) PROVE OwedAt(r)'
<1>1. CASE SyncStart(r)
  <2>1. Cleaned(r) \in [OpId -> SlotType] /\ cp[r] \in Commit /\ 0 \in 0 .. MaxOps
    BY CleanedType, SyncAssumption DEF TypeInv, Typed
  <2>2. Start(r, cp[r], 0, Cleaned(r)) /\ UNCHANGED <<cp, act, remote>>
    BY <1>1 DEF SyncStart
  <2>3. ASSUME NEW i \in OpId
        PROVE  /\ "pending.json" \in Cleaned(r)[i].entries <=> Rooted(r, i)
               /\ Rooted(r, i) => Cleaned(r)[i].doc = slot[r][i].doc
    <3>1. CASE i \in Disposable(r)
      <4>1. Cleaned(r)[i] = NoSlot /\ ~Rooted(r, i)
        BY Zenon, <3>1 DEF Cleaned, Disposable, Durable, Rooted
      <4> QED
        BY SMTT(30), <4>1 DEF NoSlot
    <3>2. CASE i \notin Disposable(r)
      BY <3>2 DEF Cleaned, Rooted
    <3> QED
      BY Zenon, <3>1, <3>2
  <2> QED
    BY Zenon, <2>1, <2>2, <2>3, OpensOwed
<1>2. CASE StartMissingRef(r)
  <2>1. cp' = cp /\ born' = born /\ slot'[r] = Cleaned(r) /\ pc'[r] = "idle"
    BY ZenonT(30), <1>2 DEF StartMissingRef, Quarantine, Return, Goto, TypeInv, Typed
  <2> QED
    BY Zenon, <2>1, EndsOwed
<1>3. CASE SyncRecover(r)
  <2>1. cp' = cp /\ born' = born /\ slot'[r] = Cleaned(r) /\ pc'[r] = "files"
    BY Zenon, <1>3 DEF SyncRecover, Goto, TypeInv, Typed
  <2>2. act'[r] \in OpId /\ Rooted(r, act'[r])
    BY ZenonT(60), <1>3 DEF SyncRecover, Active, Durable, Slots, Rooted, TypeInv, Typed
  <2> QED
    BY ZenonT(30), <2>1, <2>2, CleanedRoots, QuietOwed DEF Recovering
<1> QED
  BY <1>1, <1>2, <1>3 DEF Starts

\* Preparing a document: once written it owes the checkpoint it advances.
LEMMA PreparesOwed ==
    ASSUME TypeInv, NEW r \in Replica, SyncAt(r), OwedAt(r), Ancestor(remote, remote'), Prepares(r)
    PROVE  OwedAt(r)'
<1>1. CASE Fetch(r)
  <2>1. /\ pc[r] = "fetch" /\ pc'[r] = "create_root" /\ born[r] \in OpId /\ Typed
        /\ slot' = [slot EXCEPT ![r][born[r]].entries = {"additions", "repo.git"}]
        /\ UNCHANGED <<cp, born, act>>
    BY <1>1 DEF Fetch, Goto, TypeInv, Typed, CallTyped, Preparing
  <2>2. plan'[r].pred = plan[r].pred
    <3> DEFINE cand == Candidate(r, local[r], remote)
    <3>1. plan' = [plan EXCEPT ![r] = [@ EXCEPT !.old = local[r], !.exp = remote, !.cand = cand]]
      BY Zenon, <1>1 DEF Fetch
    <3> HIDE DEF cand
    <3> QED
      BY <3>1 DEF TypeInv, Typed, DocType
  <2>3. /\ slot' \in [Replica -> [OpId -> SlotType]]
        /\ slot'[r][born[r]].entries = {"additions", "repo.git"}
        /\ slot'[r][born[r]].doc = slot[r][born[r]].doc
        /\ \A j \in OpId \ {born[r]} : slot'[r][j] = slot[r][j]
        /\ \A q \in Replica \ {r} : slot'[q] = slot[q]
    <3> DEFINE e == {"additions", "repo.git"}
    <3>1. slot' = [slot EXCEPT ![r][born[r]].entries = e] /\ e \in SUBSET Layout
      BY <2>1, LayoutPart
    <3> HIDE DEF e
    <3>2. /\ slot' \in [Replica -> [OpId -> SlotType]]
          /\ slot'[r][born[r]].entries = e /\ slot'[r][born[r]].doc = slot[r][born[r]].doc
          /\ \A j \in OpId \ {born[r]} : slot'[r][j] = slot[r][j]
          /\ \A q \in Replica \ {r} : slot'[q] = slot[q]
      BY ZenonT(60), <2>1, <3>1, EntriesSet
    <3> QED
      BY Zenon, <3>2 DEF e
  <2>4. RootsKept(r) /\ ~Rooted(r, born[r])'
    BY <2>1, <2>3 DEF OwedAt, FreshAt, RootsKept, Rooted
  <2>5. PushedOrOwed(r)'
    BY <2>1, <2>4, RootsKeptOwed DEF OwedAt
  <2>6. FreshAt(r)' /\ RootsAt(r)'
    BY <2>1, <2>2, <2>4 DEF OwedAt, FreshAt, RootsAt, RootsKept, Recovering, Preparing
  <2> QED
    BY <2>5, <2>6 DEF OwedAt
<1>2. CASE FetchQuarantines(r) \/ FetchFails(r)
  <2>1. cp' = cp /\ born' = born /\ slot' = slot /\ pc'[r] = "idle"
    BY <1>2 DEF FetchQuarantines, FetchFails, Quarantine, Return, Goto, replicaVars, TypeInv, Typed
  <2> QED
    BY Zenon, <2>1, EndsOwed
<1>3. CASE CreateRoot(r)
  <2>1. /\ pc[r] = "create_root" /\ pc'[r] = "write_root" /\ born[r] \in OpId
        /\ slot' = [slot EXCEPT ![r][born[r]] = [entries |-> Layout, doc |-> Torn]]
        /\ UNCHANGED <<cp, born, act, plan>>
    BY <1>3 DEF CreateRoot, Goto, TypeInv, Typed, CallTyped, Preparing
  <2>2. /\ slot'[r][born[r]].entries = Layout
        /\ \A j \in OpId \ {born[r]} : slot'[r][j] = slot[r][j]
    BY Zenon, <2>1 DEF TypeInv, Typed
  <2>3. PushedOrOwed(r)'
    <3>1. CASE Ancestor(cp[r], remote)
      BY ZenonT(60), <2>1, <3>1, AncestorTransitive DEF PushedOrOwed, Ancestor
    <3>2. ASSUME NEW i \in OpId, Rooted(r, i), Ancestor(cp[r], slot[r][i].doc.cand)
          PROVE  PushedOrOwed(r)'
      <4>1. slot'[r][i] = slot[r][i]
        BY Zenon, <2>1, <2>2, <3>2 DEF OwedAt, FreshAt
      <4> QED
        BY <2>1, <3>2, <4>1 DEF PushedOrOwed, Rooted, Ancestor
    <3> QED
      BY ZenonT(30), <3>1, <3>2 DEF OwedAt, PushedOrOwed
  <2>4. FreshAt(r)'
    <3>1. \A i \in OpId : Rooted(r, i) => i <= born[r]
      BY Zenon DEF OwedAt, FreshAt
    <3>2. born[r] <= born[r]
      BY <2>1, SyncAssumption DEF OpId
    <3>3. \A i \in OpId : Rooted(r, i)' => i <= born'[r]
      BY ZenonT(60), <2>1, <2>2, <3>1, <3>2 DEF Rooted
    <3> QED
      BY Zenon, <2>1, <3>3 DEF FreshAt
  <2>5. RootsAt(r)'
    BY SMTT(30), <2>1, <2>2 DEF OwedAt, RootsAt, Rooted, Recovering, Preparing, Layout
  <2> QED
    BY ZenonT(60), <2>3, <2>4, <2>5 DEF OwedAt
<1>4. CASE WriteRoot(r)
  <2>1. /\ pc[r] = "write_root" /\ slot' = [slot EXCEPT ![r][born[r]].doc = plan[r]]
        /\ \/ plan[r].pred # 0 /\ pc'[r] = "retire_pred" /\ act'[r] = act[r]
           \/ pc'[r] = "files" /\ act'[r] = born[r]
        /\ UNCHANGED <<cp, born, plan>> /\ born[r] \in OpId /\ plan[r] \in DocType /\ Typed
    BY <1>4 DEF WriteRoot, Goto, TypeInv, Typed, CallTyped, Preparing
  <2>2. /\ slot' \in [Replica -> [OpId -> SlotType]]
        /\ slot'[r][born[r]].entries = slot[r][born[r]].entries /\ slot'[r][born[r]].doc = plan[r]
        /\ \A j \in OpId \ {born[r]} : slot'[r][j] = slot[r][j]
        /\ \A q \in Replica \ {r} : slot'[q] = slot[q]
    BY Zenon, <2>1, DocSet
  <2>3. Ancestor(cp[r], plan[r].cand)
    BY <2>1 DEF SyncAt, PlanAt, DocOk, Preparing
  <2>4. Rooted(r, born[r]) /\ Rooted(r, born[r])'
    BY Zenon, <2>1, <2>2 DEF OwedAt, RootsAt, Rooted
  <2>5. PushedOrOwed(r)'
    BY Zenon, <2>1, <2>2, <2>3, <2>4 DEF PushedOrOwed, Ancestor
  <2>6. \A i \in OpId : Rooted(r, i)' <=> Rooted(r, i)
    BY Zenon, <2>2 DEF Rooted
  <2>7. FreshAt(r)'
    BY <2>1, <2>6 DEF OwedAt, FreshAt
  <2>8. RootsAt(r)'
    <3>1. CASE pc'[r] = "files" /\ act'[r] = born[r]
      BY Zenon, <2>1, <2>4, <3>1 DEF RootsAt, Recovering, Preparing, Rooted
    <3>2. CASE plan[r].pred # 0 /\ pc'[r] = "retire_pred" /\ act'[r] = act[r]
      BY Zenon, <2>1, <2>2, <2>3, <2>4, <3>2 DEF OwedAt, RootsAt, Recovering, Preparing, Ancestor
    <3> QED
      BY <2>1, <3>1, <3>2
  <2> QED
    BY ZenonT(60), <2>5, <2>7, <2>8 DEF OwedAt
<1> QED
  BY <1>1, <1>2, <1>3, <1>4 DEF Prepares

\* Retirement: a predecessor while its successor owes, the last when nothing is owed.
LEMMA RetiresOwed ==
    ASSUME TypeInv, NEW r \in Replica, OwedAt(r), Ancestor(remote, remote'), Retires(r)
    PROVE  OwedAt(r)'
<1>0. /\ UNCHANGED <<cp, born>> /\ pc[r] \in {"retire_pred", "retire_prev", "retire_act"}
  BY ZenonT(30), RetiresSlot
<1>1. ASSUME NEW i \in OpId, RetireStep(r, i)
      PROVE  /\ \A j \in OpId : Rooted(r, j)' => Rooted(r, j)
             /\ \A j \in OpId \ {i} : slot'[r][j] = slot[r][j]
  <2> DEFINE x == Unlinked(slot[r][i])
  <2>1. x \in SlotType /\ slot' = [slot EXCEPT ![r][i] = x] /\ Typed
    BY ZenonT(60), <1>1, RetireStepIs DEF TypeInv
  <2>2. "pending.json" \in x.entries => Rooted(r, i)
    BY DEF Unlinked, NoSlot, Rooted
  <2> HIDE DEF x
  <2>3. slot'[r][i] = x /\ \A j \in OpId \ {i} : slot'[r][j] = slot[r][j]
    BY ZenonT(30), <2>1, SlotUpdate
  <2> QED
    BY Zenon, <2>2, <2>3 DEF Rooted
<1>2. CASE pc[r] = "retire_pred"
  <2>1. /\ RetireStep(r, act[r]) /\ act[r] \in OpId /\ born[r] \in OpId
        /\ \/ pc'[r] = "retire_pred" /\ act'[r] = act[r]
           \/ pc'[r] = "files" /\ act'[r] = born[r]
    BY <1>2 DEF Retires, RetireEntry, Retiring, PredecessorRetired, PrevRetired, ActiveRetired, Goto,
       callVars, TypeInv, Typed, CallTyped
  <2>2. /\ act[r] # born[r] /\ Rooted(r, born[r]) /\ Ancestor(cp[r], slot[r][born[r]].doc.cand)
    BY Zenon, <1>2 DEF OwedAt, RootsAt
  <2>3. slot'[r][born[r]] = slot[r][born[r]] /\ \A j \in OpId : Rooted(r, j)' => Rooted(r, j)
    BY ZenonT(30), <1>1, <2>1, <2>2
  <2>4. PushedOrOwed(r)'
    BY ZenonT(30), <1>0, <2>1, <2>2, <2>3 DEF PushedOrOwed, Rooted, Ancestor
  <2>5. FreshAt(r)'
    BY ZenonT(30), <1>0, <2>1, <2>3 DEF OwedAt, FreshAt
  <2>6. RootsAt(r)'
    BY Zenon, <1>0, <2>1, <2>2, <2>3 DEF RootsAt, Recovering, Preparing, Rooted, Ancestor
  <2> QED
    BY <2>4, <2>5, <2>6 DEF OwedAt
<1>3. CASE pc[r] \in {"retire_prev", "retire_act"}
  <2>1. Ancestor(cp[r], remote')
    BY ZenonT(60), <1>3, AncestorTransitive DEF OwedAt, RootsAt
  <2>2. PICK i \in OpId : RetireStep(r, i)
    BY RetiresSlot
  <2>3. \A j \in OpId : Rooted(r, j)' => Rooted(r, j)
    BY Zenon, <1>1, <2>2
  <2>4. pc'[r] \in {"retire_prev", "retire_act", "idle"}
    BY ZenonT(30), <1>3 DEF Retires, RetireEntry, PredecessorRetired, PrevRetired, ActiveRetired, Return, Goto,
       callVars, TypeInv, Typed
  <2>5. PushedOrOwed(r)' /\ FreshAt(r)' /\ RootsAt(r)'
    BY Zenon, <1>0, <2>1, <2>3, <2>4 DEF OwedAt, PushedOrOwed, FreshAt, RootsAt, Recovering, Preparing, Ancestor
  <2> QED
    BY Zenon, <2>5 DEF OwedAt
<1> QED
  BY Zenon, <1>0, <1>2, <1>3

\* Publishing and exchanging: the checkpoint moves to a candidate whose document is
\* durable, and retirement begins when the remote has that candidate.
LEMMA RecoversOwed ==
    ASSUME TypeInv, NEW r \in Replica, SyncAt(r), OwedAt(r), Ancestor(remote, remote'),
           Publishes(r) \/ Exchanges(r)
    PROVE  OwedAt(r)'
<1>1. /\ pc[r] \in Recovering /\ act[r] \in OpId /\ Rooted(r, act[r]) /\ AD(r) \in DocType /\ Typed
  BY ZenonT(30) DEF Publishes, PublishRecord, PublishMarker, FilesOld, FilesCandidate, FilesInvalid,
     NeitherOldNorCandidate, advance_local_ref, replace_checkpoint, AdvancePhase, Exchanges, PushLands,
     PushFails, ObserveCandidate, ObserveExpected, ObserveStale, ObserveMissing, StaleStart,
     StaleMissingRef, Confirm, ConfirmQuarantines, AtPhase, TypeInv, CallTyped, Recovering, OwedAt,
     RootsAt, Typed, SlotType, AD, Doc
<1>2. CASE \/ PublishRecord(r) \/ PublishMarker(r) \/ FilesOld(r) \/ FilesCandidate(r)
           \/ advance_local_ref(r) \/ PushLands(r) \/ PushFails(r)
  <2>1. slot' = slot /\ cp' = cp /\ born' = born /\ act' = act /\ pc'[r] \in Recovering
    BY ZenonT(30), <1>1, <1>2 DEF PublishRecord, PublishMarker, FilesOld, FilesCandidate, advance_local_ref,
       PushLands, PushFails, replicaVars, callVars, Goto, Typed, Recovering
  <2> QED
    BY ZenonT(30), <1>1, <2>1, CleanedRoots, QuietOwed
<1>3. CASE \/ FilesInvalid(r) \/ NeitherOldNorCandidate(r) \/ ObserveExpected(r) \/ ObserveMissing(r)
           \/ StaleMissingRef(r) \/ ConfirmQuarantines(r)
  <2>1. cp' = cp /\ born' = born /\ slot' = slot /\ pc'[r] = "idle"
    BY Zenon, <1>1, <1>3 DEF FilesInvalid, NeitherOldNorCandidate, ObserveExpected, ObserveMissing,
       StaleMissingRef, ConfirmQuarantines, Quarantine, Return, Goto, replicaVars, Typed
  <2> QED
    BY ZenonT(30), <2>1, EndsOwed
<1>4. CASE replace_checkpoint(r)
  <2>1. /\ slot' = slot /\ born' = born /\ act' = act /\ pc'[r] = "phase" /\ cp'[r] = AD(r).cand
    BY ZenonT(30), <1>1, <1>4 DEF replace_checkpoint, Goto, Typed
  <2>2. PushedOrOwed(r)'
    BY ZenonT(30), <1>1, <2>1 DEF PushedOrOwed, Rooted, AD, Doc, Ancestor
  <2>3. FreshAt(r)' /\ RootsAt(r)'
    BY Zenon, <1>1, <2>1 DEF OwedAt, FreshAt, RootsAt, Rooted, Recovering, Preparing
  <2> QED
    BY Zenon, <2>2, <2>3 DEF OwedAt
<1>5. CASE Confirm(r)
  <2>1. /\ slot' = slot /\ born' = born /\ cp' = cp /\ pc'[r] \in {"retire_prev", "retire_act"}
        /\ pc[r] = "phase" /\ remote = AD(r).cand
    BY Zenon, <1>1, <1>5 DEF Confirm, AtPhase, replicaVars, Goto, Typed
  <2>2. Ancestor(cp[r], remote')
    BY ZenonT(30), <2>1 DEF SyncAt, StepAt
  <2>3. PushedOrOwed(r)' /\ FreshAt(r)' /\ RootsAt(r)'
    BY Zenon, <2>1, <2>2 DEF OwedAt, PushedOrOwed, FreshAt, RootsAt, Rooted, Recovering, Preparing, Ancestor
  <2> QED
    BY <2>3 DEF OwedAt
<1>6. ASSUME NEW STATE d, d \in DocType, d.cand = AD(r).cand, slot' = [slot EXCEPT ![r][act[r]].doc = d]
      PROVE  RootsKept(r)
  <2>1. /\ slot' \in [Replica -> [OpId -> SlotType]]
        /\ slot'[r][act[r]].entries = slot[r][act[r]].entries /\ slot'[r][act[r]].doc = d
        /\ \A j \in OpId \ {act[r]} : slot'[r][j] = slot[r][j]
        /\ \A q \in Replica \ {r} : slot'[q] = slot[q]
    BY Zenon, <1>1, <1>6, DocSet
  <2> QED
    BY <1>6, <2>1 DEF RootsKept, Rooted, AD, Doc
<1>7. CASE AdvancePhase(r)
  <2> DEFINE d == [AD(r) EXCEPT !.phase = NextPhase[AD(r).phase]]
  <2>1. cp' = cp /\ born' = born /\ act' = act /\ pc'[r] = "files" /\ AD(r).phase \in DOMAIN NextPhase
    BY Zenon, <1>1, <1>7 DEF AdvancePhase, Goto, Typed
  <2>2. NextPhase[AD(r).phase] \in Phases
    BY Zenon, <2>1, NextPhases
  <2>3. d \in DocType /\ d.cand = AD(r).cand
    BY Zenon, <1>1, <2>2, DocUpdate DEF DocType
  <2>4. slot' = [slot EXCEPT ![r][act[r]].doc = d]
    BY Zenon, <1>7 DEF AdvancePhase, AD, Doc
  <2> HIDE DEF d
  <2>5. RootsKept(r)
    BY Zenon, <1>6, <2>3, <2>4
  <2> QED
    BY Zenon, <1>1, <2>1, <2>5, QuietOwed DEF Recovering
<1>8. CASE ObserveCandidate(r)
  <2> DEFINE d == [AD(r) EXCEPT !.phase = "RemoteCasConfirmed"]
  <2>1. cp' = cp /\ born' = born /\ act' = act /\ pc'[r] = "files"
    BY Zenon, <1>1, <1>8 DEF ObserveCandidate, Goto, Typed
  <2>2. d \in DocType /\ d.cand = AD(r).cand
    <3>1. "RemoteCasConfirmed" \in Phases
      BY DEF Phases
    <3> QED
      BY Zenon, <1>1, <3>1, DocUpdate DEF DocType
  <2>3. slot' = [slot EXCEPT ![r][act[r]].doc = d]
    BY Zenon, <1>8 DEF ObserveCandidate, AD, Doc
  <2> HIDE DEF d
  <2>4. RootsKept(r)
    BY Zenon, <1>6, <2>2, <2>3
  <2> QED
    BY Zenon, <1>1, <2>1, <2>4, QuietOwed DEF Recovering
<1>9. CASE ObserveStale(r)
  <2> DEFINE d == [AD(r) EXCEPT !.phase = "RemoteCasStale", !.stale = remote]
  <2>1. cp' = cp /\ born' = born /\ pc'[r] = "idle"
    BY Zenon, <1>1, <1>9, ReturnType DEF ObserveStale
  <2>2. d \in DocType /\ d.cand = AD(r).cand
    BY Zenon, <1>1, DocUpdate DEF DocType, Typed
  <2>3. slot' = [slot EXCEPT ![r][act[r]].doc = d]
    BY Zenon, <1>9 DEF ObserveStale, AD, Doc
  <2> HIDE DEF d
  <2>4. RootsKept(r)
    BY Zenon, <1>6, <2>2, <2>3
  <2>5. PushedOrOwed(r)'
    BY ZenonT(30), <2>1, <2>4, RootsKeptOwed DEF OwedAt
  <2>6. FreshAt(r)' /\ RootsAt(r)'
    BY ZenonT(30), <2>1, <2>4 DEF OwedAt, FreshAt, RootsAt, RootsKept, Recovering, Preparing
  <2> QED
    BY <2>5, <2>6 DEF OwedAt
<1>10. CASE StaleStart(r)
  <2>1. /\ AD(r).orig \in Commit /\ act[r] \in 0 .. MaxOps /\ slot[r] \in [OpId -> SlotType]
        /\ \A i \in OpId : /\ "pending.json" \in slot[r][i].entries <=> Rooted(r, i)
                           /\ Rooted(r, i) => slot[r][i].doc = slot[r][i].doc
    BY ZenonT(30), <1>1 DEF DocType, Typed, Rooted
  <2>2. Start(r, AD(r).orig, act[r], slot[r]) /\ UNCHANGED <<cp, act, remote>>
    BY Zenon, <1>10 DEF StaleStart
  <2> QED
    BY ZenonT(30), <1>1, <2>1, <2>2, OpensOwed
<1> QED
  BY ZenonT(60), <1>2, <1>3, <1>4, <1>5, <1>7, <1>8, <1>9, <1>10 DEF Publishes, Exchanges

\* Roots and names, and what is owed, on a remote that nobody resets.
THEOREM OwedInvariant ==
    ASSUME RemoteFaults = {}
    PROVE  Spec => []OwedInv
<1>1. Init => OwedInv
  <2> SUFFICES ASSUME Init, NEW r \in Replica PROVE OwedAt(r)
    BY DEF OwedInv
  <2>1. \A i \in OpId : ~Rooted(r, i)
    BY DEF Init, Rooted, NoSlot
  <2> QED
    BY Zenon, <2>1 DEF Init, OwedAt, FreshAt, RootsAt, PushedOrOwed, Recovering, Preparing, Ancestor
<1>2. TypeInv /\ SyncInv /\ OwedInv /\ [Next]_vars => OwedInv'
  <2> SUFFICES ASSUME TypeInv, SyncInv, OwedInv, [Next]_vars PROVE OwedInv'
    OBVIOUS
  <2>1. ASSUME NEW r \in Replica,
               Starts(r) \/ Work(r) \/ Crash(r) \/ UserCommit(r) \/ \E b \in Batch : append(r, b)
        PROVE  OwedInv'
    <3>1. Ancestor(remote, remote') /\ SyncAt(r) /\ OwedAt(r)
      BY Zenon, <2>1, StepKeeps DEF SyncInv, OwedInv
    <3>2. OwedAt(r)'
      BY Zenon, <2>1, <3>1, StartsOwed, PreparesOwed, RetiresOwed, RecoversOwed, OutsideOwed DEF Work
    <3>3. ASSUME NEW q \in Replica \ {r} PROVE OwedAt(q)'
      <4>1. /\ cp'[q] = cp[q] /\ slot'[q] = slot[q] /\ born'[q] = born[q] /\ pc'[q] = pc[q]
            /\ act'[q] = act[q] /\ plan'[q] = plan[q]
        BY ZenonT(30), <2>1, ReplicaTyped DEF Others
      <4> QED
        BY ZenonT(30), <3>1, <4>1, OthersOwed DEF OwedInv
    <3> QED
      BY Zenon, <3>2, <3>3 DEF OwedInv
  <2>2. CASE UNCHANGED <<replicaVars, callVars>> /\ Ancestor(remote, remote')
    BY ZenonT(30), <2>2, OthersOwed DEF OwedInv, replicaVars, callVars
  <2>3. CASE RemoteFault \/ \E b \in Peer : PeerPush(b)
    <3>1. Compatible(remote.files)
      BY Zenon DEF SyncInv
    <3>2. UNCHANGED <<replicaVars, callVars>>
      BY Zenon, <2>3, RemoteTyped
    <3>3. Ancestor(remote, remote')
      BY Zenon, <2>3, <3>1, RemoteKeeps
    <3> QED
      BY Zenon, <2>2, <3>2, <3>3
  <2>4. CASE UNCHANGED vars
    BY <2>2, <2>4 DEF vars, Ancestor
  <2> QED
    BY <2>1, <2>3, <2>4 DEF Next
<1> QED
  BY <1>1, <1>2, TypeCorrect, SyncInvariant, PTL DEF Spec

\* An accepted checkpoint is on the remote, or a durable pending document owes it, at
\* every step of every sync and whichever of them a crash interrupts.
THEOREM NothingOwedIsLost ==
    ASSUME RemoteFaults = {}
    PROVE  Spec => []AcceptedIsPushedOrOwed
<1>1. OwedInv => AcceptedIsPushedOrOwed
  <2> SUFFICES ASSUME OwedInv, NEW r \in Replica
               PROVE  Ancestor(cp[r], remote) \/ \E i \in Durable(r) : Ancestor(cp[r], Doc(r, i).cand)
    BY ZenonT(60) DEF AcceptedIsPushedOrOwed
  <2>1. \A i \in OpId : Rooted(r, i) => i \in Durable(r)
    BY DEF Rooted, Durable, Slots, NoSlot
  <2> QED
    BY Zenon, <2>1 DEF OwedInv, OwedAt, PushedOrOwed, Doc
<1> QED
  BY <1>1, OwedInvariant, PTL

---------------------------------------------------------------------------
(* Phases *)

\* The truth that the phase of a document stands for.
PhaseTrue(r, d) ==
    /\ d.phase \notin {"Prepared", "torn"} => d.cand.files \subseteq mans[r]
    /\ d.phase \notin {"Prepared", "torn", "FilesPublished"} => Ancestor(d.cand, local[r])
    /\ d.phase \in {"CheckpointPublished", "RemoteCasStale", "RemoteCasConfirmed"} =>
         Ancestor(d.cand, cp[r])
    /\ d.phase = "RemoteCasConfirmed" => Ancestor(d.cand, remote)

PhaseAt(r) == \A i \in OpId : PhaseTrue(r, slot[r][i].doc)
PhaseInv == \A r \in Replica : PhaseAt(r)

\* Every document that a step leaves is an old one, one of phase Prepared, or the active
\* one with a phase recorded after recovery has found files, ref and checkpoint in place.
LEMMA StepDocs ==
    ASSUME TypeInv, NEW r \in Replica, SyncAt(r),
           Starts(r) \/ Work(r) \/ Crash(r) \/ UserCommit(r) \/ \E b \in Batch : append(r, b),
           NEW i \in OpId
    PROVE  LET d == slot'[r][i].doc
           IN  \/ d = slot[r][i].doc
               \/ d.phase \in {"Prepared", "torn"}
               \/ /\ d.cand = AD(r).cand /\ pc[r] \in {"phase", "observe"}
                  /\ d.phase = "RemoteCasConfirmed" => remote = AD(r).cand
<1> USE DEF TypeInv
<1>0. NoDoc.phase = "Prepared" /\ Torn.phase = "torn"
  BY Zenon DEF NoDoc, Torn
<1>1. CASE slot'[r] = slot[r]
  BY ZenonT(30), <1>1
<1>2. ASSUME slot'[r] = Cleaned(r) PROVE slot'[r][i].doc \in {slot[r][i].doc, NoDoc}
  <2>1. Cleaned(r)[i].doc \in {slot[r][i].doc, NoDoc}
    BY Zenon DEF Cleaned, NoSlot
  <2> QED
    BY Zenon, <1>2, <2>1
<1>3. CASE StartMissingRef(r) \/ SyncRecover(r) \/ \E b \in Batch : append(r, b)
  <2>1. slot'[r] = Cleaned(r)
    BY ZenonT(30), <1>3 DEF StartMissingRef, SyncRecover, append, Typed
  <2> QED
    BY Zenon, <1>0, <1>2, <2>1
<1>4. CASE SyncStart(r)
  <2>1. Cleaned(r) \in [OpId -> SlotType] /\ cp[r] \in Commit /\ 0 \in 0 .. MaxOps
    BY CleanedType, SyncAssumption DEF Typed
  <2>2. Start(r, cp[r], 0, Cleaned(r))
    BY Zenon, <1>4 DEF SyncStart
  <2>3. slot'[r][i].doc = Cleaned(r)[i].doc
    <3>1. Opened(r, 0, Cleaned(r))
      BY Zenon, <2>1, <2>2, StartType
    <3> QED
      BY Zenon, <3>1 DEF Opened
  <2>4. Cleaned(r)[i].doc \in {slot[r][i].doc, NoDoc}
    BY Zenon DEF Cleaned, NoSlot
  <2> QED
    BY ZenonT(30), <1>0, <2>3, <2>4
<1>5. CASE Fetch(r)
  <2> DEFINE e == {"additions", "repo.git"}
  <2>1. slot' = [slot EXCEPT ![r][born[r]].entries = e] /\ born[r] \in OpId /\ e \in SUBSET Layout
    BY <1>5, LayoutPart DEF Fetch, CallTyped, Preparing
  <2> HIDE DEF e
  <2>2. /\ slot' \in [Replica -> [OpId -> SlotType]]
        /\ slot'[r][born[r]].entries = e /\ slot'[r][born[r]].doc = slot[r][born[r]].doc
        /\ \A j \in OpId \ {born[r]} : slot'[r][j] = slot[r][j]
        /\ \A q \in Replica \ {r} : slot'[q] = slot[q]
    BY Zenon, <2>1, EntriesSet
  <2> QED
    BY Zenon, <2>2
<1>6. CASE CreateRoot(r)
  <2>1. slot' = [slot EXCEPT ![r][born[r]] = [entries |-> Layout, doc |-> Torn]] /\ born[r] \in OpId
    BY Zenon, <1>6 DEF CreateRoot, CallTyped, Preparing
  <2>2. slot'[r][born[r]].doc = Torn /\ \A j \in OpId \ {born[r]} : slot'[r][j] = slot[r][j]
    BY Zenon, <2>1 DEF Typed
  <2> QED
    BY ZenonT(30), <1>0, <2>2
<1>7. CASE WriteRoot(r)
  <2>1. /\ pc[r] = "write_root" /\ slot' = [slot EXCEPT ![r][born[r]].doc = plan[r]]
        /\ born[r] \in OpId /\ plan[r] \in DocType
    BY <1>7 DEF WriteRoot, CallTyped, Preparing, Typed
  <2>2. /\ slot' \in [Replica -> [OpId -> SlotType]]
        /\ slot'[r][born[r]].entries = slot[r][born[r]].entries /\ slot'[r][born[r]].doc = plan[r]
        /\ \A j \in OpId \ {born[r]} : slot'[r][j] = slot[r][j]
        /\ \A q \in Replica \ {r} : slot'[q] = slot[q]
    BY Zenon, <2>1, DocSet DEF TypeInv
  <2>3. plan[r].phase = "Prepared"
    BY Zenon, <2>1 DEF SyncAt, PlanAt, Preparing
  <2> QED
    BY ZenonT(60), <2>2, <2>3
<1>8. CASE Retires(r)
  <2>1. PICK j \in OpId : RetireStep(r, j)
    BY ZenonT(30), <1>8, RetiresSlot
  <2>2. slot'[r][i].doc \in {slot[r][i].doc, NoDoc}
    BY Zenon, <2>1, UnlinkedDocs
  <2> QED
    BY ZenonT(30), <1>0, <2>2
<1>9. ASSUME NEW STATE d, d \in DocType, d.cand = AD(r).cand, act[r] \in OpId,
             pc[r] \in {"phase", "observe"}, d.phase = "RemoteCasConfirmed" => remote = AD(r).cand,
             slot' = [slot EXCEPT ![r][act[r]].doc = d]
      PROVE  \/ slot'[r][i].doc = slot[r][i].doc
             \/ /\ slot'[r][i].doc.cand = AD(r).cand /\ pc[r] \in {"phase", "observe"}
                /\ slot'[r][i].doc.phase = "RemoteCasConfirmed" => remote = AD(r).cand
  <2>1. /\ slot' \in [Replica -> [OpId -> SlotType]]
        /\ slot'[r][act[r]].entries = slot[r][act[r]].entries /\ slot'[r][act[r]].doc = d
        /\ \A j \in OpId \ {act[r]} : slot'[r][j] = slot[r][j]
        /\ \A q \in Replica \ {r} : slot'[q] = slot[q]
    BY ZenonT(60), <1>9, DocSet DEF TypeInv
  <2> QED
    BY <1>9, <2>1
<1>10. pc[r] \in {"phase", "observe"} => act[r] \in OpId /\ AD(r) \in DocType
  BY ZenonT(60) DEF CallTyped, Recovering, Typed, SlotType, AD, Doc
<1>11. CASE AdvancePhase(r)
  <2> DEFINE d == [AD(r) EXCEPT !.phase = NextPhase[AD(r).phase]]
  <2>1. AD(r).phase \in DOMAIN NextPhase /\ pc[r] = "phase"
    BY Zenon, <1>11 DEF AdvancePhase
  <2>2. NextPhase[AD(r).phase] \in Phases \ {"RemoteCasConfirmed"}
    BY Zenon, <2>1, NextPhases
  <2>3. d \in DocType /\ d.cand = AD(r).cand /\ d.phase # "RemoteCasConfirmed"
    BY Zenon, <1>10, <2>1, <2>2, DocUpdate DEF DocType
  <2>4. slot' = [slot EXCEPT ![r][act[r]].doc = d]
    BY Zenon, <1>11 DEF AdvancePhase, AD, Doc
  <2> HIDE DEF d
  <2> QED
    BY <1>9, <1>10, <2>1, <2>3, <2>4
<1>12. CASE ObserveCandidate(r)
  <2> DEFINE d == [AD(r) EXCEPT !.phase = "RemoteCasConfirmed"]
  <2>1. pc[r] = "observe" /\ remote = AD(r).cand /\ "RemoteCasConfirmed" \in Phases
    BY Zenon, <1>12 DEF ObserveCandidate, Phases
  <2>2. d \in DocType /\ d.cand = AD(r).cand
    BY Zenon, <1>10, <2>1, DocUpdate DEF DocType
  <2>3. slot' = [slot EXCEPT ![r][act[r]].doc = d]
    BY Zenon, <1>12 DEF ObserveCandidate, AD, Doc
  <2> HIDE DEF d
  <2> QED
    BY Zenon, <1>9, <1>10, <2>1, <2>2, <2>3
<1>13. CASE ObserveStale(r)
  <2> DEFINE d == [AD(r) EXCEPT !.phase = "RemoteCasStale", !.stale = remote]
  <2>1. pc[r] = "observe" /\ remote \in Commit
    BY Zenon, <1>13 DEF ObserveStale, Typed
  <2>2. d \in DocType /\ d.cand = AD(r).cand /\ d.phase # "RemoteCasConfirmed"
    BY Zenon, <1>10, <2>1, DocUpdate DEF DocType
  <2>3. slot' = [slot EXCEPT ![r][act[r]].doc = d]
    BY Zenon, <1>13 DEF ObserveStale, AD, Doc
  <2> HIDE DEF d
  <2> QED
    BY Zenon, <1>9, <1>10, <2>1, <2>2, <2>3
<1>14. CASE StaleStart(r)
  <2>1. pc[r] = "phase" /\ Start(r, AD(r).orig, act[r], slot[r])
    BY ZenonT(60), <1>14 DEF StaleStart, AtPhase
  <2>2. AD(r).orig \in Commit /\ act[r] \in 0 .. MaxOps /\ slot[r] \in [OpId -> SlotType]
    BY <1>10, <2>1 DEF DocType, Typed
  <2>3. Opened(r, act[r], slot[r])
    BY Zenon, <2>1, <2>2, StartType
  <2> QED
    BY Zenon, <2>3 DEF Opened
<1>15. CASE \/ UserCommit(r) \/ Crash(r) \/ FetchQuarantines(r) \/ FetchFails(r)
            \/ PublishRecord(r) \/ PublishMarker(r) \/ FilesOld(r) \/ FilesCandidate(r)
            \/ FilesInvalid(r) \/ NeitherOldNorCandidate(r) \/ advance_local_ref(r)
            \/ replace_checkpoint(r) \/ PushLands(r) \/ PushFails(r) \/ ObserveExpected(r)
            \/ ObserveMissing(r) \/ StaleMissingRef(r) \/ Confirm(r) \/ ConfirmQuarantines(r)
  BY ZenonT(30), <1>1, <1>15 DEF UserCommit, Crash, FetchQuarantines, FetchFails, PublishRecord, PublishMarker,
     FilesOld, FilesCandidate, FilesInvalid, NeitherOldNorCandidate, advance_local_ref,
     replace_checkpoint, PushLands, PushFails, ObserveExpected, ObserveMissing, StaleMissingRef,
     Confirm, ConfirmQuarantines, replicaVars
<1> QED
  BY ZenonT(30), <1>3, <1>4, <1>5, <1>6, <1>7, <1>8, <1>11, <1>12, <1>13, <1>14, <1>15
     DEF Starts, Work, Prepares, Publishes, Exchanges

\* Phases stand for the truth, on a remote that nobody resets.
THEOREM PhaseInvariant ==
    ASSUME RemoteFaults = {}
    PROVE  Spec => []PhaseInv
<1>1. Init => PhaseInv
  <2> SUFFICES ASSUME Init, NEW r \in Replica, NEW i \in OpId PROVE PhaseTrue(r, slot[r][i].doc)
    BY ZenonT(60) DEF PhaseInv, PhaseAt
  <2>1. slot[r][i].doc.phase = "Prepared"
    BY DEF Init, NoSlot, NoDoc
  <2> QED
    BY <2>1 DEF PhaseTrue
<1>2. TypeInv /\ SyncInv /\ PhaseInv /\ [Next]_vars => PhaseInv'
  <2> SUFFICES ASSUME TypeInv, SyncInv, PhaseInv, [Next]_vars PROVE PhaseInv'
    OBVIOUS
  <2>1. ASSUME NEW q \in Replica, Kept(q), Ancestor(remote, remote'), slot'[q] = slot[q]
        PROVE  PhaseAt(q)'
    <3> SUFFICES ASSUME NEW i \in OpId PROVE PhaseTrue(q, slot[q][i].doc)'
      BY DEF PhaseAt
    <3> DEFINE d == slot[q][i].doc
    <3>1. PhaseTrue(q, d)
      BY DEF PhaseInv, PhaseAt
    <3> QED
      BY Zenon, <2>1, <3>1 DEF PhaseTrue, Kept, Ancestor
  <2>2. ASSUME NEW r \in Replica,
               Starts(r) \/ Work(r) \/ Crash(r) \/ UserCommit(r) \/ \E b \in Batch : append(r, b)
        PROVE  PhaseInv'
    <3>1. Kept(r) /\ Ancestor(remote, remote') /\ SyncAt(r) /\ Others(r)
      BY ZenonT(30), <2>2, StepKeeps, ReplicaTyped DEF SyncInv
    <3>2. ASSUME NEW q \in Replica \ {r} PROVE PhaseAt(q)'
      BY Zenon, <2>1, <3>1, UnmovedKept DEF Others, Unmoved
    <3>3. ASSUME NEW i \in OpId PROVE PhaseTrue(r, slot[r][i].doc)'
      <4>1. CASE slot'[r][i].doc = slot[r][i].doc
        BY ZenonT(30), <3>1, <4>1 DEF PhaseInv, PhaseAt, PhaseTrue, Kept, Ancestor
      <4>2. CASE slot'[r][i].doc.phase \in {"Prepared", "torn"}
        BY ZenonT(30), <4>2 DEF PhaseTrue
      <4>3. CASE /\ slot'[r][i].doc.cand = AD(r).cand /\ pc[r] \in {"phase", "observe"}
                 /\ slot'[r][i].doc.phase = "RemoteCasConfirmed" => remote = AD(r).cand
        <5>1. mans[r] = AD(r).cand.files /\ local[r] = AD(r).cand /\ cp[r] = AD(r).cand
          BY ZenonT(30), <3>1, <4>3 DEF SyncAt, StepAt
        <5> QED
          BY ZenonT(30), <3>1, <4>3, <5>1 DEF PhaseTrue, Kept, Ancestor
      <4> QED
        BY ZenonT(30), <2>2, <3>1, <4>1, <4>2, <4>3, StepDocs
    <3> QED
      BY Zenon, <3>2, <3>3 DEF PhaseInv, PhaseAt
  <2>3. CASE RemoteFault \/ \E b \in Peer : PeerPush(b)
    BY Zenon, <2>1, <2>3, RemoteTyped, RemoteKeeps DEF SyncInv, PhaseInv, replicaVars
  <2>4. CASE UNCHANGED vars
    BY ZenonT(30), <2>1, <2>4, UnmovedKept DEF vars, replicaVars, PhaseInv, Unmoved, Ancestor
  <2> QED
    BY <2>2, <2>3, <2>4 DEF Next
<1> QED
  BY <1>1, <1>2, TypeCorrect, SyncInvariant, PTL DEF Spec

\* The phase that a pending document reports is never ahead of the files, refs and remote.
THEOREM PhasesAreTrue ==
    ASSUME RemoteFaults = {}
    PROVE  Spec => []PhaseNotAhead
<1>1. PhaseInv => PhaseNotAhead
  BY Zenon DEF PhaseInv, PhaseAt, PhaseTrue, PhaseNotAhead, Durable, Slots, Doc
<1> QED
  BY <1>1, PhaseInvariant, PTL
============================================================================
