------------------------------- MODULE GitSync -------------------------------
(* Advancing Git synchronization of several store replicas with one approved *)
(* remote ref: start_sync_operation, recover_sync_operation with its phases, *)
(* the pending slots, the checkpoint and quarantine.  A sync call holds the  *)
(* replica's root lock, so each replica runs one call at a time; a process   *)
(* may die at any step named in CrashAt.                                     *)
(*                                                                           *)
(* A commit is what its history holds: the batches committed by users, which *)
(* are its canonical tree, and the union commits made by syncs.  Ancestry is *)
(* inclusion of both.                                                        *)
EXTENDS Naturals, FiniteSets

CONSTANTS
    Replica,        \* stores with a bootstrapped checkpoint
    Own,            \* Own[r]: the batches that callers append at replica r
    Peer,           \* batches pushed by honest replicas that are not modelled
    Clash,          \* pairs of batches that no valid store may hold together
    CrashAt,        \* steps at which the syncing process may die
    MaxCrashes,     \* bound on crashes
    MaxOps,         \* bound on sync operations of one replica
    Serial,         \* TRUE when operators sync one replica at a time, and only
                    \* a replica whose ref differs from the remote's
    RemoteFaults    \* what may happen to the ref: "rollback", "delete"

Genesis == 0
Batch == {Genesis} \cup (UNION {Own[r] : r \in Replica}) \cup Peer
OpId == 1 .. MaxOps
Commit == [files : SUBSET Batch, unions : SUBSET (Replica \X OpId)]
Base == [files |-> {Genesis}, unions |-> {}]      \* the bootstrapped commit
NoRef == [files |-> {}, unions |-> {}]            \* the ref does not exist

ASSUME SyncAssumption ==
    /\ Own \in [Replica -> SUBSET (Nat \ {0})] /\ Peer \subseteq Nat \ {0}
    /\ Clash \subseteq Batch \X Batch /\ <<Genesis, Genesis>> \notin Clash
    /\ MaxCrashes \in Nat /\ MaxOps \in Nat /\ Serial \in BOOLEAN
    /\ RemoteFaults \subseteq {"rollback", "delete"}

VARIABLES
    recs, mans,     \* per replica: visible record files and manifests, by batch
    local,          \* per replica: the approved local ref
    cp,             \* per replica: the accepted commit of the checkpoint
    slot,           \* per replica: sync-pending, operation id -> slot or NoSlot
    born,           \* per replica: operation ids used so far
    quarantined,    \* per replica: an incident blocks syncs
    pc,             \* per replica: next step of the sync call, or "idle"
    act, prev,      \* per replica: active operation and predecessor of the call
    plan,           \* per replica: the document being prepared
    remote,         \* the approved remote ref
    crashes         \* history: number of crashes

replicaVars == <<recs, mans, local, cp, slot, born, quarantined>>
callVars == <<pc, act, prev, plan>>
vars == <<replicaVars, callVars, remote, crashes>>

Ancestor(a, c) == a.files \subseteq c.files /\ a.unions \subseteq c.unions
Compatible(S) == \A a, b \in S : <<a, b>> \notin Clash

Phases == {"Prepared", "FilesPublished", "LocalRefPublished", "CheckpointPublished",
           "RemoteCasStale", "RemoteCasConfirmed"}

NoDoc == [phase |-> "Prepared", orig |-> Base, from |-> Base, old |-> Base, exp |-> Base,
          cand |-> Base, pred |-> 0, stale |-> NoRef]
Torn == [NoDoc EXCEPT !.phase = "torn"]   \* pending.json created, not yet written
NoSlot == [entries |-> {"absent"}, doc |-> NoDoc]
Layout == {"additions", "pending.json", "repo.git"}

---------------------------------------------------------------------------
(* pending.rs: discovery and the gate *)

Slots(r)      == {i \in OpId : slot[r][i] # NoSlot}
Durable(r)    == {i \in Slots(r) : "pending.json" \in slot[r][i].entries}
Disposable(r) == Slots(r) \ Durable(r)
Doc(r, i)     == slot[r][i].doc

BoundSuccession(p, s) ==
    /\ p.phase = "RemoteCasStale"
    /\ s.orig = p.orig /\ s.from = p.cand /\ s.old = p.cand /\ s.exp = p.stale

DiscoverOk(r) ==
    /\ Cardinality(Slots(r)) <= 2
    /\ \A i \in Durable(r) : Doc(r, i) # Torn
    /\ \A i, j \in Durable(r) : i < j =>
         \/ Doc(r, j).pred = i /\ BoundSuccession(Doc(r, i), Doc(r, j))
         \/ Doc(r, i).pred = j /\ BoundSuccession(Doc(r, j), Doc(r, i))

\* Of two durable slots the successor is the active one.
Active(r) ==
    {i \in Durable(r) : \A j \in Durable(r) \ {i} : Doc(r, i).pred = j}
Predecessor(r) == Durable(r) \ Active(r)

\* gate_without_git lets an ordinary call proceed (after cleaning disposable slots).
GateAllows(r) == DiscoverOk(r) /\ Durable(r) = {}

Cleaned(r) == [i \in OpId |-> IF i \in Disposable(r) THEN NoSlot ELSE slot[r][i]]

---------------------------------------------------------------------------
(* Initial state: every replica bootstrapped at the genesis commit *)

Init ==
    /\ recs = [r \in Replica |-> {Genesis}] /\ mans = recs
    /\ local = [r \in Replica |-> Base] /\ cp = local
    /\ slot = [r \in Replica |-> [i \in OpId |-> NoSlot]]
    /\ born = [r \in Replica |-> 0]
    /\ quarantined = [r \in Replica |-> FALSE]
    /\ pc = [r \in Replica |-> "idle"]
    /\ act = [r \in Replica |-> 0] /\ prev = act
    /\ plan = [r \in Replica |-> NoDoc]
    /\ remote = Base /\ crashes = 0

---------------------------------------------------------------------------
(* What callers, users and peers do *)

\* Store::append, whole (StoreTransaction has its steps): gated, after disposable cleanup.
append(r, b) ==
    /\ pc[r] = "idle" /\ GateAllows(r)
    /\ b \in Own[r] \ mans[r] /\ recs[r] = mans[r] /\ Compatible(mans[r] \cup {b})
    /\ recs' = [recs EXCEPT ![r] = @ \cup {b}]
    /\ mans' = [mans EXCEPT ![r] = @ \cup {b}]
    /\ slot' = [slot EXCEPT ![r] = Cleaned(r)]
    /\ UNCHANGED <<local, cp, born, quarantined, callVars, remote, crashes>>

\* The user's git commit of the journal; none is made while a sync is pending.
UserCommit(r) ==
    /\ pc[r] = "idle" /\ GateAllows(r)
    /\ mans[r] # local[r].files
    /\ local' = [local EXCEPT ![r].files = @ \cup mans[r]]
    /\ UNCHANGED <<recs, mans, cp, slot, born, quarantined, callVars, remote, crashes>>

\* An honest replica outside the model fast-forwards the remote.
PeerPush(b) ==
    /\ remote # NoRef /\ b \in Peer \ remote.files /\ Compatible(remote.files \cup {b})
    /\ remote' = [remote EXCEPT !.files = @ \cup {b}]
    /\ UNCHANGED <<replicaVars, callVars, crashes>>

\* Somebody resets or deletes the approved ref.
RemoteFault ==
    /\ \/ "rollback" \in RemoteFaults /\ remote # Base /\ remote' = Base
       \/ "delete" \in RemoteFaults /\ remote # NoRef /\ remote' = NoRef
    /\ UNCHANGED <<replicaVars, callVars, crashes>>

---------------------------------------------------------------------------
(* sync_git_union_locked and start_sync_operation *)

Goto(r, step) == pc' = [pc EXCEPT ![r] = step]

\* The call ends: an outcome or an error, and the lock is dropped.
Return(r) ==
    /\ Goto(r, "idle")
    /\ act' = [act EXCEPT ![r] = 0] /\ prev' = [prev EXCEPT ![r] = 0]
    /\ plan' = [plan EXCEPT ![r] = NoDoc]

MaySync(r) ==
    /\ pc[r] = "idle" /\ ~quarantined[r] /\ DiscoverOk(r)
    /\ Serial => \A q \in Replica \ {r} : pc[q] = "idle" /\ Durable(q) = {}
    /\ Serial /\ Durable(r) = {} => local[r] # remote

\* Opens a new slot for a document that starts at orig and advances the checkpoint.
\* The local tree must be the visible tree, and the remote ref must exist.
Start(r, orig, pred, others) ==
    /\ recs[r] = mans[r] /\ local[r].files = mans[r]
    /\ remote # NoRef
    /\ born[r] < MaxOps
    /\ born' = [born EXCEPT ![r] = @ + 1]
    /\ slot' = [slot EXCEPT ![r] = [others EXCEPT ![born[r] + 1].entries = {}]]
    /\ plan' = [plan EXCEPT ![r] = [NoDoc EXCEPT !.orig = orig, !.from = cp[r], !.pred = pred]]
    /\ Goto(r, "fetch")

\* A sync with no pending operation.
SyncStart(r) ==
    /\ MaySync(r) /\ Durable(r) = {}
    /\ Start(r, cp[r], 0, Cleaned(r))
    /\ UNCHANGED <<recs, mans, local, cp, quarantined, act, prev, remote, crashes>>

\* A sync that finds a pending operation: disposable slots are retired if their
\* names are expected, the layout must be closed, then recovery begins.
SyncRecover(r) ==
    /\ MaySync(r)
    /\ \E i \in Active(r) :
         /\ Doc(r, i).pred # 0 => Disposable(r) \subseteq {Doc(r, i).pred}
         /\ slot[r][i].entries = Layout
         /\ act' = [act EXCEPT ![r] = i]
         /\ prev' = [prev EXCEPT ![r] = IF Predecessor(r) = {} THEN 0 ELSE Doc(r, i).pred]
    /\ slot' = [slot EXCEPT ![r] = Cleaned(r)]
    /\ Goto(r, "files")
    /\ UNCHANGED <<recs, mans, local, cp, born, quarantined, plan, remote, crashes>>

Quarantine(r) ==
    /\ quarantined' = [quarantined EXCEPT ![r] = TRUE]
    /\ Return(r)

\* observe_remote_ref before the slot is created finds no ref.
StartMissingRef(r) ==
    /\ MaySync(r) /\ Durable(r) = {} /\ local[r].files = mans[r] /\ recs[r] = mans[r]
    /\ remote = NoRef
    /\ Quarantine(r)
    /\ slot' = [slot EXCEPT ![r] = Cleaned(r)]
    /\ UNCHANGED <<recs, mans, local, cp, born, remote, crashes>>

\* select_candidate: reuse the tip that descends the other, or make a union commit.
Candidate(r, mine, tip) ==
    IF Ancestor(mine, tip) THEN tip
    ELSE IF Ancestor(tip, mine) THEN mine
    ELSE [files |-> mine.files \cup tip.files,
          unions |-> mine.unions \cup tip.unions \cup {<<r, born[r]>>}]

\* create_sync_repository and validate_histories accept the two tips.
HistoriesValid(r) ==
    Ancestor(plan[r].orig, local[r]) /\ remote # NoRef /\ Ancestor(plan[r].orig, remote)

\* Mutant: the candidate's tree is not validated.
FetchUnvalidated(r) ==
    /\ pc[r] = "fetch" /\ HistoriesValid(r)
    /\ plan' = [plan EXCEPT ![r] = [@ EXCEPT !.old = local[r], !.exp = remote,
                                            !.cand = Candidate(r, local[r], remote)]]
    /\ slot' = [slot EXCEPT ![r][born[r]].entries = {"additions", "repo.git"}]
    /\ Goto(r, "create_root")
    /\ UNCHANGED <<recs, mans, local, cp, born, quarantined, act, prev, remote, crashes>>

\* The fetched tips give a valid candidate; repository and additions are staged.
Fetch(r) ==
    /\ pc[r] = "fetch" /\ HistoriesValid(r)
    /\ LET cand == Candidate(r, local[r], remote) IN
         /\ Compatible(cand.files)
         /\ plan' = [plan EXCEPT ![r] = [@ EXCEPT !.old = local[r], !.exp = remote, !.cand = cand]]
    /\ slot' = [slot EXCEPT ![r][born[r]].entries = {"additions", "repo.git"}]
    /\ Goto(r, "create_root")
    /\ UNCHANGED <<recs, mans, local, cp, born, quarantined, act, prev, remote, crashes>>

\* Hostile history or an invalid union: an incident, and a disposable slot left behind.
FetchQuarantines(r) ==
    /\ pc[r] = "fetch" /\ remote # NoRef
    /\ HistoriesValid(r) => ~Compatible(Candidate(r, local[r], remote).files)
    /\ Quarantine(r)
    /\ UNCHANGED <<recs, mans, local, cp, slot, born, remote, crashes>>

\* The fetch fails because the ref is gone since it was observed: an error, no incident.
FetchFails(r) ==
    /\ pc[r] = "fetch" /\ remote = NoRef
    /\ Return(r)
    /\ UNCHANGED <<replicaVars, remote, crashes>>

\* publish_document, first half: pending.json exists and is still empty.
CreateRoot(r) ==
    /\ pc[r] = "create_root"
    /\ slot' = [slot EXCEPT ![r][born[r]] = [entries |-> Layout, doc |-> Torn]]
    /\ Goto(r, "write_root")
    /\ UNCHANGED <<recs, mans, local, cp, born, quarantined, act, prev, plan, remote, crashes>>

\* publish_document, second half: the document is durable.  A predecessor is
\* retired next; otherwise recovery of the new operation begins.
WriteRoot(r) ==
    /\ pc[r] = "write_root"
    /\ slot' = [slot EXCEPT ![r][born[r]].doc = plan[r]]
    /\ IF plan[r].pred # 0 THEN Goto(r, "retire_pred") /\ UNCHANGED <<act, prev>>
       ELSE Goto(r, "files") /\ act' = [act EXCEPT ![r] = born[r]] /\ UNCHANGED prev
    /\ UNCHANGED <<recs, mans, local, cp, born, quarantined, plan, remote, crashes>>

---------------------------------------------------------------------------
(* retire_operation: remove_contents unlinks the entries in name order, then *)
(* the directory is unlinked                                                 *)

FirstEntry(S) ==
    CHOOSE e \in S : \/ e = "additions"
                     \/ e = "pending.json" /\ "additions" \notin S
                     \/ S = {"repo.git"}

\* A slot after the next unlink, which is that of the directory when it is empty.
Unlinked(x) ==
    IF x.entries = {} THEN NoSlot
    ELSE LET e == FirstEntry(x.entries)
         IN  [entries |-> x.entries \ {e}, doc |-> IF e = "pending.json" THEN NoDoc ELSE x.doc]

RetireStep(r, i) == slot' = [slot EXCEPT ![r][i] = Unlinked(@)]

Retiring(r) ==
    CASE pc[r] \in {"retire_pred", "retire_act"} -> act[r]
      [] pc[r] = "retire_prev" -> prev[r]
      [] OTHER -> 0

RetireEntry(r) ==
    /\ Retiring(r) # 0 /\ slot[r][Retiring(r)].entries # {}
    /\ RetireStep(r, Retiring(r))
    /\ UNCHANGED <<recs, mans, local, cp, born, quarantined, callVars, remote, crashes>>

\* The predecessor is gone: recover the successor, with no predecessor of its own.
PredecessorRetired(r) ==
    /\ pc[r] = "retire_pred" /\ slot[r][act[r]].entries = {}
    /\ RetireStep(r, act[r])
    /\ act' = [act EXCEPT ![r] = born[r]] /\ prev' = [prev EXCEPT ![r] = 0]
    /\ Goto(r, "files")
    /\ UNCHANGED <<recs, mans, local, cp, born, quarantined, plan, remote, crashes>>

PrevRetired(r) ==
    /\ pc[r] = "retire_prev" /\ slot[r][prev[r]].entries = {}
    /\ RetireStep(r, prev[r])
    /\ Goto(r, "retire_act")
    /\ UNCHANGED <<recs, mans, local, cp, born, quarantined, act, prev, plan, remote, crashes>>

\* The operation is finished: Advanced or UpToDate.
ActiveRetired(r) ==
    /\ pc[r] = "retire_act" /\ slot[r][act[r]].entries = {}
    /\ RetireStep(r, act[r])
    /\ Return(r)
    /\ UNCHANGED <<recs, mans, local, cp, born, quarantined, remote, crashes>>

---------------------------------------------------------------------------
(* recover_sync_operation: the loop re-derives files, ref and checkpoint *)

AD(r) == Doc(r, act[r])

\* publish_addition, rank 0 before rank 1: every record, then every batch marker.
PublishRecord(r) ==
    /\ pc[r] = "publish"
    /\ \E b \in AD(r).cand.files \ recs[r] : recs' = [recs EXCEPT ![r] = @ \cup {b}]
    /\ UNCHANGED <<mans, local, cp, slot, born, quarantined, callVars, remote, crashes>>

PublishMarker(r) ==
    /\ pc[r] = "publish" /\ AD(r).cand.files \subseteq recs[r]
    /\ \E b \in AD(r).cand.files \ mans[r] : mans' = [mans EXCEPT ![r] = @ \cup {b}]
    /\ UNCHANGED <<recs, local, cp, slot, born, quarantined, callVars, remote, crashes>>

\* Mutant: the local ref is advanced without publishing the files.
FilesOldUnpublished(r) ==
    /\ pc[r] = "files" /\ recs[r] = mans[r]
    /\ mans[r] = AD(r).old.files /\ mans[r] # AD(r).cand.files
    /\ Goto(r, "ref")
    /\ UNCHANGED <<replicaVars, act, prev, plan, remote, crashes>>

\* The loop head sees the old tree and publishes, or the candidate's and goes on.
FilesOld(r) ==
    /\ pc[r] = "files" /\ recs[r] = mans[r]
    /\ mans[r] = AD(r).old.files /\ mans[r] # AD(r).cand.files
    /\ Goto(r, "publish")
    /\ UNCHANGED <<replicaVars, act, prev, plan, remote, crashes>>

FilesCandidate(r) ==
    /\ pc[r] \in {"files", "publish"}
    /\ recs[r] = mans[r] /\ mans[r] = AD(r).cand.files
    /\ Goto(r, "ref")
    /\ UNCHANGED <<replicaVars, act, prev, plan, remote, crashes>>

\* Validation of the visible tree fails: records without an owner, an error.
FilesInvalid(r) ==
    /\ pc[r] = "files" /\ recs[r] # mans[r]
    /\ Return(r)
    /\ UNCHANGED <<replicaVars, remote, crashes>>

\* A valid tree, ref or checkpoint that is neither the old nor the candidate's.
NeitherOldNorCandidate(r) ==
    /\ \/ pc[r] = "files" /\ recs[r] = mans[r] /\ mans[r] \notin {AD(r).old.files, AD(r).cand.files}
       \/ pc[r] = "ref" /\ local[r] \notin {AD(r).old, AD(r).cand}
       \/ pc[r] = "checkpoint" /\ cp[r] \notin {AD(r).from, AD(r).cand}
    /\ Quarantine(r)
    /\ UNCHANGED <<recs, mans, local, cp, slot, born, remote, crashes>>

\* Mutant: the local ref is set to the fetched remote tip instead of the candidate.
AdvanceToRemote(r) ==
    /\ pc[r] = "ref" /\ local[r] \in {AD(r).old, AD(r).cand}
    /\ local' = [local EXCEPT ![r] = AD(r).exp]
    /\ Goto(r, "checkpoint")
    /\ UNCHANGED <<recs, mans, cp, slot, born, quarantined, act, prev, plan, remote, crashes>>

advance_local_ref(r) ==
    /\ pc[r] = "ref" /\ local[r] \in {AD(r).old, AD(r).cand}
    /\ local' = [local EXCEPT ![r] = AD(r).cand]
    /\ Goto(r, "checkpoint")
    /\ UNCHANGED <<recs, mans, cp, slot, born, quarantined, act, prev, plan, remote, crashes>>

replace_checkpoint(r) ==
    /\ pc[r] = "checkpoint" /\ cp[r] \in {AD(r).from, AD(r).cand}
    /\ cp' = [cp EXCEPT ![r] = AD(r).cand]
    /\ Goto(r, "phase")
    /\ UNCHANGED <<recs, mans, local, slot, born, quarantined, act, prev, plan, remote, crashes>>

---------------------------------------------------------------------------
(* recover_sync_operation: the arms of the phase *)

AtPhase(r, p) == pc[r] = "phase" /\ AD(r).phase = p

NextPhase == [Prepared |-> "FilesPublished", FilesPublished |-> "LocalRefPublished",
              LocalRefPublished |-> "CheckpointPublished"]

\* replace_document records the phase reached; the loop starts over.
AdvancePhase(r) ==
    /\ pc[r] = "phase" /\ AD(r).phase \in DOMAIN NextPhase
    /\ slot' = [slot EXCEPT ![r][act[r]].doc.phase = NextPhase[@]]
    /\ Goto(r, "files")
    /\ UNCHANGED <<recs, mans, local, cp, born, quarantined, act, prev, plan, remote, crashes>>

\* Mutant: the push has no lease.
PushForced(r) ==
    /\ AtPhase(r, "CheckpointPublished")
    /\ remote' = AD(r).cand
    /\ Goto(r, "observe")
    /\ UNCHANGED <<replicaVars, act, prev, plan, crashes>>

\* push_candidate_exact_lease takes effect at the remote; its answer may be lost.
PushLands(r) ==
    /\ AtPhase(r, "CheckpointPublished") /\ remote = AD(r).exp
    /\ remote' = AD(r).cand
    /\ Goto(r, "observe")
    /\ UNCHANGED <<replicaVars, act, prev, plan, crashes>>

\* Mutant: the operation is retired whatever the push did.
PushUnchecked(r) ==
    /\ AtPhase(r, "CheckpointPublished")
    /\ Goto(r, "retire_act")
    /\ UNCHANGED <<replicaVars, act, prev, plan, remote, crashes>>

\* Mutant: the push is believed without observing the remote.
PushBelieved(r) ==
    /\ AtPhase(r, "CheckpointPublished")
    /\ slot' = [slot EXCEPT ![r][act[r]].doc.phase = "RemoteCasConfirmed"]
    /\ Goto(r, "files")
    /\ UNCHANGED <<recs, mans, local, cp, born, quarantined, act, prev, plan, remote, crashes>>

\* The lease is rejected, or the push does not reach the remote.
PushFails(r) ==
    /\ AtPhase(r, "CheckpointPublished")
    /\ Goto(r, "observe")
    /\ UNCHANGED <<replicaVars, act, prev, plan, remote, crashes>>

ObserveCandidate(r) ==
    /\ pc[r] = "observe" /\ remote = AD(r).cand
    /\ slot' = [slot EXCEPT ![r][act[r]].doc.phase = "RemoteCasConfirmed"]
    /\ Goto(r, "files")
    /\ UNCHANGED <<recs, mans, local, cp, born, quarantined, act, prev, plan, remote, crashes>>

\* The remote did not move: an error, the operation stays pending.
ObserveExpected(r) ==
    /\ pc[r] = "observe" /\ remote = AD(r).exp /\ remote # AD(r).cand
    /\ Return(r)
    /\ UNCHANGED <<replicaVars, remote, crashes>>

\* Somebody else moved the remote: the outcome is StaleRemoteCas.
ObserveStale(r) ==
    /\ pc[r] = "observe" /\ remote \notin {AD(r).cand, AD(r).exp, NoRef}
    /\ slot' = [slot EXCEPT ![r][act[r]].doc =
                  [@ EXCEPT !.phase = "RemoteCasStale", !.stale = remote]]
    /\ Return(r)
    /\ UNCHANGED <<recs, mans, local, cp, born, quarantined, remote, crashes>>

ObserveMissing(r) ==
    /\ pc[r] = "observe" /\ remote = NoRef
    /\ Quarantine(r)
    /\ UNCHANGED <<recs, mans, local, cp, slot, born, remote, crashes>>

\* Mutant: the stale operation is retired before its successor is durable.
StaleStartRetiresFirst(r) ==
    /\ AtPhase(r, "RemoteCasStale")
    /\ Start(r, AD(r).orig, 0, [slot[r] EXCEPT ![act[r]] = NoSlot])
    /\ UNCHANGED <<recs, mans, local, cp, quarantined, act, prev, remote, crashes>>

\* A stale operation is superseded by a successor bound to it.
StaleStart(r) ==
    /\ AtPhase(r, "RemoteCasStale")
    /\ Start(r, AD(r).orig, act[r], slot[r])
    /\ UNCHANGED <<recs, mans, local, cp, quarantined, act, prev, remote, crashes>>

StaleMissingRef(r) ==
    /\ AtPhase(r, "RemoteCasStale") /\ remote = NoRef
    /\ Quarantine(r)
    /\ UNCHANGED <<recs, mans, local, cp, slot, born, remote, crashes>>

\* Mutant: the confirmed operation is reported and never retired.
ConfirmUnretired(r) ==
    /\ AtPhase(r, "RemoteCasConfirmed") /\ remote = AD(r).cand
    /\ Return(r)
    /\ UNCHANGED <<replicaVars, remote, crashes>>

\* The confirmed operation is checked once more against the remote, then retired.
Confirm(r) ==
    /\ AtPhase(r, "RemoteCasConfirmed") /\ remote = AD(r).cand
    /\ Goto(r, IF prev[r] # 0 THEN "retire_prev" ELSE "retire_act")
    /\ UNCHANGED <<replicaVars, act, prev, plan, remote, crashes>>

ConfirmQuarantines(r) ==
    /\ AtPhase(r, "RemoteCasConfirmed") /\ remote # AD(r).cand
    /\ Quarantine(r)
    /\ UNCHANGED <<recs, mans, local, cp, slot, born, remote, crashes>>

---------------------------------------------------------------------------
(* Specification *)

\* The process dies; what it did so far is on disk and the lock is gone.
Crash(r) ==
    /\ pc[r] \in CrashAt /\ crashes < MaxCrashes
    /\ crashes' = crashes + 1
    /\ Return(r)
    /\ UNCHANGED <<replicaVars, remote>>

Starts(r) == SyncStart(r) \/ StartMissingRef(r) \/ SyncRecover(r)

Prepares(r) == Fetch(r) \/ FetchQuarantines(r) \/ FetchFails(r) \/ CreateRoot(r) \/ WriteRoot(r)

Retires(r) == RetireEntry(r) \/ PredecessorRetired(r) \/ PrevRetired(r) \/ ActiveRetired(r)

Publishes(r) ==
    \/ PublishRecord(r) \/ PublishMarker(r) \/ FilesOld(r) \/ FilesCandidate(r)
    \/ FilesInvalid(r) \/ NeitherOldNorCandidate(r)
    \/ advance_local_ref(r) \/ replace_checkpoint(r) \/ AdvancePhase(r)

Exchanges(r) ==
    \/ PushLands(r) \/ PushFails(r)
    \/ ObserveCandidate(r) \/ ObserveExpected(r) \/ ObserveStale(r) \/ ObserveMissing(r)
    \/ StaleStart(r) \/ StaleMissingRef(r) \/ Confirm(r) \/ ConfirmQuarantines(r)

\* A sync call at work.
Work(r) == Prepares(r) \/ Retires(r) \/ Publishes(r) \/ Exchanges(r)

Next ==
    \/ \E r \in Replica : Starts(r) \/ Work(r) \/ Crash(r) \/ UserCommit(r)
    \/ \E r \in Replica, b \in Batch : append(r, b)
    \/ \E b \in Peer : PeerPush(b)
    \/ RemoteFault

Spec == Init /\ [][Next]_vars

\* A running call is scheduled, a push that can land does so in the end, and
\* callers commit and sync again while they have something to exchange.
Fairness ==
    \A r \in Replica :
      /\ WF_vars(Work(r)) /\ SF_vars(PushLands(r))
      /\ WF_vars(UserCommit(r)) /\ SF_vars(Starts(r))

FairSpec == Spec /\ Fairness

---------------------------------------------------------------------------
(* Properties *)

Steps == {"idle", "fetch", "create_root", "write_root", "retire_pred", "files", "publish", "ref",
          "checkpoint", "phase", "observe", "retire_prev", "retire_act"}

DocType == [phase : Phases \cup {"torn"}, orig : Commit, from : Commit, old : Commit,
            exp : Commit, cand : Commit, pred : 0 .. MaxOps, stale : Commit]

\* Type invariant.
TypeOK ==
    /\ recs \in [Replica -> SUBSET Batch] /\ mans \in [Replica -> SUBSET Batch]
    /\ local \in [Replica -> Commit] /\ cp \in [Replica -> Commit] /\ remote \in Commit
    /\ \A r \in Replica, i \in OpId :
         slot[r][i].entries \subseteq Layout \cup {"absent"} /\ slot[r][i].doc \in DocType
    /\ born \in [Replica -> 0 .. MaxOps] /\ quarantined \in [Replica -> BOOLEAN]
    /\ pc \in [Replica -> Steps] /\ act \in [Replica -> 0 .. MaxOps] /\ prev \in [Replica -> 0 .. MaxOps]
    /\ plan \in [Replica -> DocType] /\ crashes \in 0 .. MaxCrashes

\* A sync never takes anything off the remote: whatever order replicas push in, an
\* exact-lease push only replaces the tip its candidate was built from.
RemoteNeverLoses == [][Ancestor(remote, remote')]_remote

\* A replica never gives up what it has accepted, whatever the remote shows it: visible
\* files, local ref and checkpoint only move to descendants (a rollback is not adopted).
AcceptedNeverLost ==
    [][\A r \in Replica :
         /\ recs[r] \subseteq recs'[r] /\ mans[r] \subseteq mans'[r]
         /\ Ancestor(local[r], local'[r]) /\ Ancestor(cp[r], cp'[r])]_<<recs, mans, local, cp>>

\* The publication order of recover_sync_operation: files before the local ref, the ref
\* before the checkpoint, and a marker only with its records, across any crash.
PublicationOrder ==
    \A r \in Replica :
      Ancestor(cp[r], local[r]) /\ local[r].files \subseteq mans[r] /\ mans[r] \subseteq recs[r]

\* A phase document is never ahead of the truth it stands for, although recovery does
\* not trust it: this is what lets an operator read the reported phase.
PhaseNotAhead ==
    \A r \in Replica : \A i \in Durable(r) :
      LET d == Doc(r, i) IN
        /\ d.phase \notin {"Prepared", "torn"} => d.cand.files \subseteq mans[r]
        /\ d.phase \notin {"Prepared", "torn", "FilesPublished"} => Ancestor(d.cand, local[r])
        /\ d.phase \in {"CheckpointPublished", "RemoteCasStale", "RemoteCasConfirmed"} =>
             Ancestor(d.cand, cp[r])
        /\ d.phase = "RemoteCasConfirmed" => Ancestor(d.cand, remote)

\* An accepted checkpoint is on the remote unless a pending candidate that descends it owes it:
\* no crash loses the obligation to push, at any step of succession or retirement.
AcceptedIsPushedOrOwed ==
    \A r \in Replica : Ancestor(cp[r], remote) \/ \E i \in Durable(r) : Ancestor(cp[r], Doc(r, i).cand)

\* Replicas whose batches clash (one idempotency key, two requests) never merge them:
\* no visible tree, ref or remote tip holds both.
NoClashAdmitted ==
    Compatible(remote.files) /\ \A r \in Replica : Compatible(recs[r]) /\ Compatible(local[r].files)

\* While a durable operation is pending the visible tree is either the one it started
\* from or the candidate's, apart from a publication under way.
VisibleOldOrCandidate ==
    \A r \in Replica : \A i \in Active(r) :
      pc[r] = "idle" => recs[r] = mans[r] /\ mans[r] \in {Doc(r, i).old.files, Doc(r, i).cand.files}

\* A process that dies before its pending root is durable leaves only a slot that the
\* next caller discards: no document that discovery cannot read.
PreRootDisposable ==
    \A r \in Replica : pc[r] = "idle" => \A i \in Durable(r) : Doc(r, i) # Torn

\* An operation that still gates the store has the closed layout recovery requires.
ActiveLayoutClosed ==
    \A r \in Replica : pc[r] = "idle" => \A i \in Active(r) : slot[r][i].entries = Layout

\* After a crash in a stale handoff both durable slots form a bound succession, so that
\* discovery accepts them and the successor can be recovered.
HandoffBound ==
    \A r \in Replica : pc[r] = "idle" /\ Cardinality(Durable(r)) = 2 => DiscoverOk(r)

\* An interrupted successor attempt never stands in the way of the operation it was to
\* succeed.
AttemptDisposable ==
    \A r \in Replica : pc[r] = "idle" =>
      \A i \in Active(r) : Doc(r, i).pred # 0 => Disposable(r) \subseteq {Doc(r, i).pred}

\* Replicas that only append, commit and fast-forward are never quarantined.
HonestNotQuarantined == \A r \in Replica : ~quarantined[r]

\* Every replica, the remote and every checkpoint end up at one commit with all batches.
Converges ==
    <>[](\A r \in Replica :
           /\ local[r] = remote /\ cp[r] = remote /\ Durable(r) = {}
           /\ recs[r] = remote.files /\ mans[r] = remote.files)
=============================================================================
