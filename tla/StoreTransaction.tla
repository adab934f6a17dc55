-------------------------- MODULE StoreTransaction --------------------------
(* The filesystem store's exclusive operation: staging a batch, publishing   *)
(* its recovery journal, linking records and manifest into the canonical     *)
(* tree, removing the journal, and the recovery every later operation runs   *)
(* first.  Only the holder of the root lock takes steps, so the state of one *)
(* operation is enough; how the lock is obtained is not part of this module. *)
(*                                                                           *)
(* Every directory entry has two values: what processes see now (vis, dir,   *)
(* man, jrn, stg) and what a power loss is sure to leave (the same names     *)
(* with a D).  fsync of a directory copies the first to the second.  Killing *)
(* the process, or an I/O error, keeps the first.                            *)
(*                                                                           *)
(* A revision is the set of manifests of a valid tree, which determines its  *)
(* path-byte set.  The Git-sync gate always answers Allow here.              *)
EXTENDS Naturals, FiniteSets

CONSTANTS
    Batch,      \* batch identities, ordered like the UUIDv7 of the source
    Record,     \* canonical record paths
    Entity,     \* the domain/entity directories that hold records
    Member,     \* Member[b]: the record paths of batch b
    Home,       \* Home[r]: the directory of record path r
    Key,        \* Key[b]: actor and idempotency key of b
    Request,    \* Request[b]: request digest of b
    Builtin,    \* batches with identity, profile or catalog records
    Genesis,    \* batches whose member is the identity genesis
    Parents,    \* Parents[b]: batches that hold causal parents of b's records
    Modes,      \* how stores are opened: "strict", "legacy"
    Faults,     \* what may go wrong: "fail" (kill, I/O error), "power"
    MaxFaults,  \* bound on the number of faults of a behaviour
    None        \* an absent file

ASSUME BatchAssumption ==
    /\ Batch \subseteq Nat /\ None \notin Batch
    /\ Member \in [Batch -> SUBSET Record]
    /\ \A b \in Batch : Member[b] # {}
    /\ Home \in [Record -> Entity]
    /\ Builtin \subseteq Batch /\ Genesis \subseteq Builtin
    /\ Parents \in [Batch -> SUBSET Batch]
    /\ DOMAIN Key = Batch /\ DOMAIN Request = Batch
ASSUME FaultAssumption ==
    /\ Modes \subseteq {"strict", "legacy"}
    /\ Faults \subseteq {"fail", "power"}
    /\ MaxFaults \in Nat

VARIABLES
    vis, visD,      \* record path -> batch whose bytes are there, or None
    dir, dirD,      \* domain/entity directories
    man, manD,      \* journal/batches
    jrn, jrnD,      \* recovery journals
    stg, stgD,      \* stage trees: batch -> entries of its stage
    base,           \* the base revision written in each staged journal
    pc,             \* next step of the lock holder; "idle" when there is none
    mode,           \* how the holder opened the store
    cur, rec,       \* the batch, and the record, being published
    todo, done,     \* journals still to recover; records published in this pass
    flow,           \* who runs recover_one: "append" or "recover"
    handle,         \* ExclusiveStoreOperation: recovered / invalidated flags
    snap,           \* its snapshot, the set of batches or None when absent
    observed,       \* history: batches reported by an append or a read
    faults          \* history: number of faults so far

nowVars  == <<vis, dir, man, jrn, stg>>
diskVars == <<visD, dirD, manD, jrnD, stgD>>
loopVars == <<cur, rec, todo, done, flow>>
vars == <<nowVars, diskVars, base, pc, mode, loopVars, handle, snap, observed, faults>>

---------------------------------------------------------------------------
(* Stages *)

StageEntry == {"stage", "records", "manifest", "journal"} \cup Record
FullStage(b) == {"stage", "records", "manifest", "journal"} \cup Member[b]

---------------------------------------------------------------------------
(* Scanning the canonical tree *)

\* Every record has exactly one owning manifest, every manifest all its members.
OwnershipValid(v, mf) ==
    /\ \A b \in mf : \A r \in Member[b] : v[r] = b
    /\ \A r \in Record : v[r] # None => v[r] \in mf

IdempotencyValid(mf) == \A a, b \in mf : Key[a] = Key[b] => a = b

\* No batch at all, or exactly one genesis, in the batch with the smallest id.
IdentityValid(mf) ==
    mf = {} \/ \E g \in mf : mf \cap Genesis = {g} /\ \A b \in mf : g <= b

FoldsValid(mf) == \A b \in mf : Parents[b] \subseteq mf

\* A legacy store here is open_legacy_s1_s2 with a registry that knows the builtin
\* domains, so that its records decode and the refusal is the one of the fold.
\* scan_collected: "ok", "fold" for InvalidDomainFold, "other" for any other error.
Scan(m, v, mf) ==
    IF ~OwnershipValid(v, mf) \/ ~IdempotencyValid(mf) THEN "other"
    ELSE IF m = "legacy" THEN (IF mf \cap Builtin # {} THEN "fold" ELSE "ok")
    ELSE IF ~IdentityValid(mf) THEN "other"
    ELSE IF ~FoldsValid(mf) THEN "fold" ELSE "ok"

Without(v, b) == [r \in Record |-> IF r \in Member[b] THEN None ELSE v[r]]
With(v, b)    == [r \in Record |-> IF r \in Member[b] THEN b ELSE v[r]]

validate_recovery_base(b) ==
    IF \E r \in Member[b] : vis[r] \notin {None, b} THEN "other"
    ELSE IF b \in man /\ \A r \in Member[b] : vis[r] = b THEN Scan(mode, vis, man)
    ELSE LET below == Scan(mode, Without(vis, b), man \ {b}) IN
         IF below # "ok" THEN below
         ELSE IF man \ {b} # base[b] THEN "other"
         ELSE Scan(mode, With(vis, b), man \cup {b})

---------------------------------------------------------------------------
(* Previewing an append *)

Owners(b) == {x \in snap : Key[x] = Key[b]}

\* Mutant: the candidate tree is not scanned with the batch in it.
CandidateUnscanned(b) == b \notin man /\ \A r \in Member[b] : vis[r] = None

CandidateValid(b) ==
    /\ b \notin man /\ \A r \in Member[b] : vis[r] = None
    /\ Scan(mode, With(vis, b), man \cup {b}) = "ok"

\* preview_from_snapshot, then classify_prepared, then validate_candidate.
Replays(b, expected) ==
    snap = expected /\ \E x \in Batch : Owners(b) = {x} /\ Request[x] = Request[b]
Publishes(b, expected) ==
    snap = expected /\ Owners(b) = {} /\ CandidateValid(b)

---------------------------------------------------------------------------
(* Initial state: Store::open of an empty root *)

Init ==
    /\ vis = [r \in Record |-> None] /\ visD = vis
    /\ dir = {} /\ dirD = {}
    /\ man = {} /\ manD = {}
    /\ jrn = {} /\ jrnD = {}
    /\ stg = [b \in Batch |-> {}] /\ stgD = stg
    /\ base = [b \in Batch |-> {}]
    /\ pc = "idle" /\ mode \in Modes
    /\ cur \in Batch /\ rec \in Record /\ todo = {} /\ done = {} /\ flow = "recover"
    /\ handle = "unrecovered" /\ snap = None
    /\ observed = {} /\ faults = 0

Residue == jrn # {} \/ \E b \in Batch : stg[b] # {}

---------------------------------------------------------------------------
(* Entry points *)

\* Store::open derives the reserved directories and syncs each, without a lock.
open_from_root ==
    /\ manD' = man /\ jrnD' = jrn
    /\ stgD' = [b \in Batch |-> IF stg[b] = {} THEN {} ELSE stgD[b] \cup {"stage"}]
    /\ UNCHANGED <<nowVars, visD, dirD, base, pc, mode, loopVars, handle, snap, observed, faults>>

\* Store::read under the shared lock; with residue it recovers exclusively first.
read(m) ==
    /\ pc = "idle" /\ ~Residue
    /\ Scan(m, vis, man) = "ok"
    /\ observed' = observed \cup man
    /\ UNCHANGED <<nowVars, diskVars, base, pc, mode, loopVars, handle, snap, faults>>

begin_exclusive_operation(m) ==
    /\ pc = "idle"
    /\ pc' = "held" /\ mode' = m
    /\ handle' = "unrecovered" /\ snap' = None
    /\ UNCHANGED <<nowVars, diskVars, base, loopVars, observed, faults>>

DropOperation ==
    /\ pc = "held"
    /\ pc' = "idle" /\ handle' = "unrecovered" /\ snap' = None
    /\ UNCHANGED <<nowVars, diskVars, base, mode, loopVars, observed, faults>>

recover_locked ==
    /\ pc = "held"
    /\ pc' = "journals" /\ todo' = jrn /\ flow' = "recover"
    /\ handle' = "unrecovered" /\ snap' = None
    /\ UNCHANGED <<nowVars, diskVars, base, mode, cur, rec, done, observed, faults>>

\* append_locked whose preview says Replay.
append_replay(b, expected) ==
    /\ pc = "held" /\ handle = "recovered"
    /\ Replays(b, expected)
    /\ observed' = observed \cup Owners(b)
    /\ UNCHANGED <<nowVars, diskVars, base, pc, mode, loopVars, handle, snap, faults>>

\* append_locked whose preview fails: the operation is invalidated.
append_refused(b, expected) ==
    /\ pc = "held" /\ handle = "recovered"
    /\ ~Replays(b, expected) /\ ~Publishes(b, expected)
    /\ handle' = "invalidated" /\ snap' = None
    /\ UNCHANGED <<nowVars, diskVars, base, pc, mode, loopVars, observed, faults>>

\* append_locked whose preview says Publish: the snapshot is taken away first.
append_publish(b, expected) ==
    /\ pc = "held" /\ handle = "recovered"
    /\ Publishes(b, expected)
    /\ pc' = "StageDirectory" /\ cur' = b /\ flow' = "append" /\ done' = {}
    /\ snap' = None
    /\ base' = [base EXCEPT ![b] = expected]
    /\ UNCHANGED <<nowVars, diskVars, mode, rec, todo, handle, observed, faults>>

---------------------------------------------------------------------------
(* stage_batch: the steps up to each of its crash points.  A stage without a *)
(* journal is disposable, so creating a stage directory and syncing its      *)
(* parent are one step.                                                      *)

Stage(entries) == stg' = [stg EXCEPT ![cur] = @ \cup entries]
SyncStage(entries) == stgD' = [stgD EXCEPT ![cur] = @ \cup (stg'[cur] \cap entries)]

StageStep(from, to, created, synced) ==
    /\ pc = from /\ pc' = to
    /\ Stage(created) /\ SyncStage(synced)
    /\ UNCHANGED <<vis, dir, man, jrn, visD, dirD, manD, jrnD, base, mode, loopVars,
                   handle, snap, observed, faults>>

StageDirectory ==
    stg[cur] = {} /\ StageStep("StageDirectory", "StageRecordsDirectory", {"stage"}, {"stage"})
StageRecordsDirectory ==
    StageStep("StageRecordsDirectory", "RecordFile", {"records"}, {"records"})
RecordFile ==
    \E r \in Member[cur] \ stg[cur] : StageStep("RecordFile", "RecordFile", {r}, {})
\* Mutant: the records directory is taken for complete before it is.
StageRecordsEarly == StageStep("RecordFile", "ManifestFile", {}, Record)

StageRecords ==
    Member[cur] \subseteq stg[cur] /\ StageStep("RecordFile", "ManifestFile", {}, Record)
ManifestFile == StageStep("ManifestFile", "StageManifest", {"manifest"}, {})
StageManifest ==
    StageStep("StageManifest", "JournalFile", {}, {"records", "manifest", "journal"})
JournalFile == StageStep("JournalFile", "StageJournal", {"journal"}, {})
\* Mutant: the stage is not synced before its journal is linked.
StageJournalUnsynced == StageStep("StageJournal", "JournalLink", {}, {})

StageJournal ==
    StageStep("StageJournal", "JournalLink", {}, {"records", "manifest", "journal"})

JournalLink ==
    /\ pc = "JournalLink" /\ pc' = "JournalPublished"
    /\ jrn' = jrn \cup {cur}
    /\ UNCHANGED <<vis, dir, man, stg, diskVars, base, mode, loopVars,
                   handle, snap, observed, faults>>

JournalPublished ==
    /\ pc = "JournalPublished" /\ pc' = "Validate"
    /\ jrnD' = jrn
    /\ UNCHANGED <<nowVars, visD, dirD, manD, stgD, base, mode, loopVars,
                   handle, snap, observed, faults>>

stage_batch ==
    \/ StageDirectory \/ StageRecordsDirectory \/ RecordFile \/ StageRecords
    \/ ManifestFile \/ StageManifest \/ JournalFile \/ StageJournal
    \/ JournalLink \/ JournalPublished

---------------------------------------------------------------------------
(* recover_one: validating the staged batch, publishing it, retiring it *)

Step(from, to) ==
    pc = from /\ pc' = to /\ UNCHANGED <<base, mode, observed, faults>>

\* The error return of recover_one: append invalidates its handle, recovery leaves it unrecovered.
ErrorReturn ==
    /\ handle' = IF flow = "append" THEN "invalidated" ELSE "unrecovered"
    /\ snap' = None

StagedBatchValid == cur \in jrn /\ stg[cur] = FullStage(cur)

ValidateAccepts ==
    /\ Step("Validate", "Publish")
    /\ StagedBatchValid /\ validate_recovery_base(cur) = "ok"
    /\ UNCHANGED <<nowVars, diskVars, loopVars, handle, snap>>

\* Any error but InvalidDomainFold leaves journal and stage where they are.
ValidateRefuses ==
    /\ Step("Validate", "held")
    /\ ~StagedBatchValid \/ validate_recovery_base(cur) = "other"
    /\ ErrorReturn
    /\ UNCHANGED <<nowVars, diskVars, loopVars>>

\* Mutant: the abort also unlinks the records that were already published.
ValidateAbortsUnlinks ==
    /\ Step("Validate", "AbortJournal")
    /\ StagedBatchValid /\ validate_recovery_base(cur) = "fold"
    /\ jrn' = jrn \ {cur} /\ vis' = Without(vis, cur)
    /\ UNCHANGED <<dir, man, stg, diskVars, loopVars, handle, snap>>

\* InvalidDomainFold: the journal is unlinked, the unlink synced, then the stage removed.
ValidateAborts ==
    /\ Step("Validate", "AbortJournal")
    /\ StagedBatchValid /\ validate_recovery_base(cur) = "fold"
    /\ jrn' = jrn \ {cur}
    /\ UNCHANGED <<vis, dir, man, stg, diskVars, loopVars, handle, snap>>

AbortSynced ==
    /\ Step("AbortJournal", "AbortStage")
    /\ jrnD' = jrn
    /\ UNCHANGED <<nowVars, visD, dirD, manD, stgD, loopVars, handle, snap>>

\* record_target_parent for the next staged record: ensure_dir, created or not.
EnsureDir(r) ==
    /\ Step("Publish", IF Home[r] \in dir THEN "LinkRecord" ELSE "SyncDir")
    /\ r \in Member[cur] \ done
    /\ rec' = r /\ dir' = dir \cup {Home[r]}
    /\ UNCHANGED <<vis, man, jrn, stg, diskVars, cur, todo, done, flow, handle, snap>>

\* Mutant: the parent of a new directory is not synced.
SyncDirSkipped ==
    /\ Step("SyncDir", "LinkRecord")
    /\ UNCHANGED <<nowVars, diskVars, loopVars, handle, snap>>

\* ensure_synced after it created the directory; the parent's siblings are not counted on.
SyncDir ==
    /\ Step("SyncDir", "LinkRecord")
    /\ dirD' = dirD \cup {Home[rec]}
    /\ UNCHANGED <<nowVars, visD, manD, jrnD, stgD, loopVars, handle, snap>>

\* link_fd_no_clobber: a new link, or the same bytes already there.
LinkRecord ==
    /\ Step("LinkRecord", "RecordPublished")
    /\ vis[rec] \in {None, cur}
    /\ vis' = [vis EXCEPT ![rec] = cur]
    /\ UNCHANGED <<dir, man, jrn, stg, diskVars, loopVars, handle, snap>>

RecordPublished ==
    /\ Step("RecordPublished", "Publish")
    /\ visD' = [r \in Record |-> IF Home[r] = Home[rec] THEN vis[r] ELSE visD[r]]
    /\ done' = done \cup {rec}
    /\ UNCHANGED <<nowVars, dirD, manD, jrnD, stgD, cur, rec, todo, flow, handle, snap>>

\* Mutant: the manifest is linked before all records are.
LinkManifestEarly ==
    /\ Step("Publish", "ManifestPublished")
    /\ man' = man \cup {cur}
    /\ UNCHANGED <<vis, dir, jrn, stg, diskVars, loopVars, handle, snap>>

LinkManifest ==
    /\ Step("Publish", "ManifestPublished")
    /\ Member[cur] \subseteq done
    /\ man' = man \cup {cur}
    /\ UNCHANGED <<vis, dir, jrn, stg, diskVars, loopVars, handle, snap>>

\* Mutant: the journal is removed before the manifest is durable.
ManifestPublishedUnsynced ==
    /\ Step("ManifestPublished", "RemoveJournal")
    /\ UNCHANGED <<nowVars, diskVars, loopVars, handle, snap>>

ManifestPublished ==
    /\ Step("ManifestPublished", "RemoveJournal")
    /\ manD' = man
    /\ UNCHANGED <<nowVars, visD, dirD, jrnD, stgD, loopVars, handle, snap>>

RemoveJournal ==
    /\ Step("RemoveJournal", "JournalRemoved")
    /\ jrn' = jrn \ {cur}
    /\ UNCHANGED <<vis, dir, man, stg, diskVars, loopVars, handle, snap>>

JournalRemoved ==
    /\ Step("JournalRemoved", "RemoveStage")
    /\ jrnD' = jrn
    /\ UNCHANGED <<nowVars, visD, dirD, manD, stgD, loopVars, handle, snap>>

\* remove_tree: files before their directory; each directory is synced when empty.
RemoveEntry(b, e) ==
    /\ e \in stg[b]
    /\ e = "records" => stg[b] \cap Record = {}
    /\ e = "stage" => stg[b] = {"stage"}
    /\ stg' = [stg EXCEPT ![b] = @ \ {e}]
    /\ stgD' = [stgD EXCEPT ![b] = IF e = "records" THEN @ \ Record
                                    ELSE IF e = "stage" THEN @ \cap {"stage"} ELSE @]
    /\ UNCHANGED <<vis, dir, man, jrn, visD, dirD, manD, jrnD, loopVars, handle, snap>>

remove_tree ==
    \E e \in StageEntry :
        \/ Step("RemoveStage", "RemoveStage") /\ RemoveEntry(cur, e)
        \/ Step("AbortStage", "AbortStage") /\ RemoveEntry(cur, e)
        \/ \E b \in Batch : Step("CleanStages", "CleanStages") /\ RemoveEntry(b, e)

SyncStages == stgD' = [b \in Batch |-> IF stg[b] = {} THEN {} ELSE stgD[b]]

\* Published: append scans the result, recovery goes on to the next journal.
StageRemoved ==
    /\ Step("RemoveStage", IF flow = "append" THEN "Committed" ELSE "journals")
    /\ stg[cur] = {} /\ SyncStages
    /\ UNCHANGED <<nowVars, visD, dirD, manD, jrnD, loopVars, handle, snap>>

AbortReturns ==
    /\ Step("AbortStage", "held")
    /\ stg[cur] = {} /\ SyncStages
    /\ ErrorReturn
    /\ UNCHANGED <<nowVars, visD, dirD, manD, jrnD, loopVars>>

recover_one ==
    \/ ValidateAccepts \/ ValidateRefuses \/ ValidateAborts \/ AbortSynced
    \/ \E r \in Record : EnsureDir(r)
    \/ SyncDir \/ LinkRecord \/ RecordPublished \/ LinkManifest \/ ManifestPublished
    \/ RemoveJournal \/ JournalRemoved \/ StageRemoved \/ AbortReturns

---------------------------------------------------------------------------
(* recover_locked and the end of append_locked *)

\* Listed journals are recovered in batch-id order.
NextJournal ==
    /\ Step("journals", "Validate")
    /\ \E b \in todo :
         /\ \A x \in todo : b <= x
         /\ cur' = b /\ todo' = todo \ {b}
    /\ done' = {}
    /\ UNCHANGED <<nowVars, diskVars, rec, flow, handle, snap>>

clean_unprepared_stages ==
    /\ Step("journals", "CleanStages")
    /\ todo = {}
    /\ UNCHANGED <<nowVars, diskVars, loopVars, handle, snap>>

\* Mutant: recovery goes on without removing unprepared stages.
StagesCleanedEarly ==
    /\ Step("CleanStages", "Recovered")
    /\ UNCHANGED <<nowVars, diskVars, loopVars, handle, snap>>

StagesCleaned ==
    /\ Step("CleanStages", "Recovered")
    /\ \A b \in Batch : stg[b] = {}
    /\ SyncStages
    /\ UNCHANGED <<nowVars, visD, dirD, manD, jrnD, loopVars, handle, snap>>

\* Mutant: recovery hands out the snapshot without scanning the tree.
RecoveryUnscanned ==
    /\ Step("Recovered", "held")
    /\ handle' = "recovered" /\ snap' = man
    /\ UNCHANGED <<nowVars, diskVars, loopVars>>

\* recover_locked_with_barrier ends in scan_visible, which may refuse the tree.
RecoveryScan ==
    /\ Step("Recovered", "held")
    /\ IF Scan(mode, vis, man) = "ok"
       THEN handle' = "recovered" /\ snap' = man
       ELSE handle' = "unrecovered" /\ snap' = None
    /\ UNCHANGED <<nowVars, diskVars, loopVars>>

\* append_locked scans again, hands out the new snapshot and answers Published.
CommitScan ==
    /\ pc = "Committed" /\ pc' = "held"
    /\ IF Scan(mode, vis, man) = "ok"
       THEN snap' = man /\ observed' = observed \cup {cur} /\ UNCHANGED handle
       ELSE ErrorReturn /\ UNCHANGED observed
    /\ UNCHANGED <<nowVars, diskVars, base, mode, loopVars, faults>>

---------------------------------------------------------------------------
(* Faults *)

FaultOf(kind) ==
    kind \in Faults /\ faults < MaxFaults /\ faults' = faults + 1

\* The holder dies; the kernel drops its locks and keeps its directory entries.
Kill ==
    /\ FaultOf("fail") /\ pc # "idle"
    /\ pc' = "idle" /\ handle' = "unrecovered" /\ snap' = None
    /\ UNCHANGED <<nowVars, diskVars, base, mode, loopVars, observed>>

\* A system call of the running step fails; the caller still holds the operation.
IoError ==
    /\ FaultOf("fail") /\ pc \notin {"idle", "held"}
    /\ pc' = "held" /\ ErrorReturn
    /\ UNCHANGED <<nowVars, diskVars, base, mode, loopVars, observed>>

\* Of two values of a set of directory entries, a power loss keeps what they share.
Torn(now, disk) == {S \in SUBSET (now \cup disk) : now \cap disk \subseteq S}

Unsynced == {x \in Batch \X StageEntry : (x[2] \in stg[x[1]]) # (x[2] \in stgD[x[1]])}

Reachable(S) ==
    IF "stage" \notin S THEN {} ELSE IF "records" \notin S THEN S \ Record ELSE S

PowerLoss ==
    /\ FaultOf("power")
    /\ pc' = "idle" /\ handle' = "unrecovered" /\ snap' = None
    /\ dir' \in Torn(dir, dirD) /\ man' \in Torn(man, manD) /\ jrn' \in Torn(jrn, jrnD)
    /\ \E lost \in SUBSET {r \in Record : vis[r] # visD[r]} :
         vis' = [r \in Record |-> IF Home[r] \notin dir' THEN None
                                  ELSE IF r \in lost THEN visD[r] ELSE vis[r]]
    /\ \E lost \in SUBSET Unsynced :
         stg' = [b \in Batch |-> Reachable({e \in stg[b] \cup stgD[b] : <<b, e>> \notin lost})]
    /\ visD' = vis' /\ dirD' = dir' /\ manD' = man' /\ jrnD' = jrn' /\ stgD' = stg'
    /\ UNCHANGED <<base, mode, loopVars, observed>>

---------------------------------------------------------------------------
(* The specification *)

append(b, expected) ==
    append_replay(b, expected) \/ append_refused(b, expected) \/ append_publish(b, expected)

\* The steps the holder takes by itself once a call has started.
Work ==
    \/ stage_batch \/ recover_one \/ remove_tree
    \/ NextJournal \/ clean_unprepared_stages \/ StagesCleaned
    \/ RecoveryScan \/ CommitScan

Call ==
    \/ open_from_root
    \/ \E m \in Modes : read(m) \/ begin_exclusive_operation(m)
    \/ recover_locked \/ DropOperation
    \/ \E b \in Batch, expected \in SUBSET Batch : append(b, expected)

Next == Work \/ Call \/ Kill \/ IoError \/ PowerLoss

Spec == Init /\ [][Next]_vars

\* A call that has started runs to its end; callers keep opening the store and
\* recovering it, and drop operations they hold.
Fairness ==
    /\ WF_vars(Work)
    /\ SF_vars(handle = "unrecovered" /\ recover_locked)
    /\ WF_vars(handle # "unrecovered" /\ DropOperation)
    /\ WF_vars(Residue /\ \E m \in Modes : begin_exclusive_operation(m))

FairSpec == Spec /\ Fairness

---------------------------------------------------------------------------
(* Properties *)

Steps == {"idle", "held", "journals", "CleanStages", "Recovered", "Committed",
          "StageDirectory", "StageRecordsDirectory", "RecordFile", "ManifestFile",
          "StageManifest", "JournalFile", "StageJournal", "JournalLink", "JournalPublished",
          "Validate", "AbortJournal", "AbortStage", "Publish", "SyncDir", "LinkRecord", "RecordPublished",
          "ManifestPublished", "RemoveJournal", "JournalRemoved", "RemoveStage"}

\* The variables have the shape of the files and of the operation they model.
TypeOK ==
    /\ vis \in [Record -> Batch \cup {None}] /\ visD \in [Record -> Batch \cup {None}]
    /\ dir \subseteq Entity /\ dirD \subseteq Entity
    /\ man \subseteq Batch /\ manD \subseteq Batch
    /\ jrn \subseteq Batch /\ jrnD \subseteq Batch
    /\ stg \in [Batch -> SUBSET StageEntry] /\ stgD \in [Batch -> SUBSET StageEntry]
    /\ base \in [Batch -> SUBSET Batch]
    /\ pc \in Steps /\ mode \in Modes
    /\ cur \in Batch /\ rec \in Record
    /\ todo \subseteq Batch /\ done \subseteq Record /\ flow \in {"append", "recover"}
    /\ handle \in {"unrecovered", "recovered", "invalidated"}
    /\ (pc = "held" /\ handle = "recovered") => snap \in SUBSET Batch
    /\ observed \subseteq Batch /\ faults \in Nat

\* Batch atomicity (test every_repeated_durability_barrier_recovers_old_or_complete):
\* once the lock is free and no journal or stage is left, every record in the tree
\* has its manifest and every manifest all its records, wherever operations died.
OldOrComplete == (pc = "idle" /\ ~Residue) => OwnershipValid(vis, man)

\* What recover_one asks of a journal holds of every journal it finds, whatever
\* interrupted the operation before: the stage is whole, the tree beside the batch is
\* the base the journal names, no path is taken by other bytes, and neither the base
\* nor the result fails a fold, for which recover_one would drop the journal.
JournalsRecoverable ==
    pc = "idle" => \A b \in jrn :
        /\ stg[b] = FullStage(b)
        /\ man \ {b} = base[b]
        /\ \A r \in Member[b] : vis[r] \in {None, b}
        /\ FoldsValid(base[b]) /\ FoldsValid(base[b] \cup {b})

\* A batch that an append reported or a read returned is on disk with all its
\* records and their directories: stage_batch, recover_one and ensure_synced have
\* synced everything it needs before anyone is told.
ObservedDurable ==
    \A b \in observed :
        b \in manD /\ \A r \in Member[b] : visD[r] = b /\ Home[r] \in dirD

\* A batch that an append reported or a read returned stays visible and whole.
ObservedStays ==
    \A b \in observed : b \in man /\ \A r \in Member[b] : vis[r] = b

\* The snapshot an operation hands out is the tree as it is now: every failed or
\* interrupted append has taken it away (invalidate) before anyone can use it.
SnapshotFresh ==
    (pc = "held" /\ handle = "recovered") => (snap = man /\ Scan(mode, vis, man) = "ok")

\* link_fd_no_clobber: published bytes are never replaced or removed, not even by
\* recovery or by the abort of a refused batch.
PublishedImmutable ==
    [][(\A r \in Record : vis[r] # None => vis'[r] = vis[r]) /\ man \subseteq man']_vars

\* Residue of a dead operation does not stay: somebody's recovery completes or
\* discards it, so reads are possible again.
RecoveryCompletes == Residue ~> ~Residue

\* The store as its callers may think of it: a batch is in it from the moment its
\* journal or its manifest is durable.
Compatible(S) ==
    /\ IdempotencyValid(S) /\ IdentityValid(S) /\ FoldsValid(S)
    /\ \A a, b \in S : a # b => Member[a] \cap Member[b] = {}

Journal == INSTANCE AtomicJournal WITH committed <- manD \cup jrnD

\* The staged, journalled store implements the atomic one.
ImplementsAtomicJournal == Journal!JournalSpec
=============================================================================
