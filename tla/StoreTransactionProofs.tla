----------------------- MODULE StoreTransactionProofs -----------------------
(* Proofs about StoreTransaction for every set of batches, records and       *)
(* directories, and every number of faults.                                  *)
EXTENDS StoreTransaction, TLAPS

---------------------------------------------------------------------------
(* Type correctness *)

\* Init chooses the unused loop variables from non-empty sets, or there is no behaviour.
LEMMA InitType == Init => TypeOK
BY BatchAssumption, FaultAssumption DEF Init, TypeOK, Steps, StageEntry

\* A stage step adds only stage entries.
LEMMA StageType ==
    ASSUME TypeOK, NEW from \in Steps, NEW to \in Steps,
           NEW created \in SUBSET StageEntry, NEW synced \in SUBSET StageEntry,
           to # "held", StageStep(from, to, created, synced)
    PROVE  TypeOK'
BY DEF TypeOK, StageStep, Stage, SyncStage, loopVars

\* stage_batch preserves the types.
LEMMA StageBatchType == TypeOK /\ stage_batch => TypeOK'
<1> SUFFICES ASSUME TypeOK, stage_batch PROVE TypeOK'
  BY Zenon
<1> USE BatchAssumption DEF Steps, StageEntry
<1>1. CASE StageDirectory
  BY SMTT(30), <1>1, StageType DEF StageDirectory
<1>2. CASE StageRecordsDirectory
  BY SMTT(30), <1>2, StageType DEF StageRecordsDirectory
<1>3. CASE RecordFile
  <2>1. PICK r \in Member[cur] \ stg[cur] : StageStep("RecordFile", "RecordFile", {r}, {})
    BY Zenon, <1>3 DEF RecordFile
  <2>2. r \in Record
    BY <2>1 DEF TypeOK
  <2> QED
    BY SMTT(30), <2>1, <2>2, StageType
<1>4. CASE StageRecords
  BY SMTT(30), <1>4, StageType DEF StageRecords
<1>5. CASE ManifestFile
  BY SMTT(30), <1>5, StageType DEF ManifestFile
<1>6. CASE StageManifest
  BY SMTT(30), <1>6, StageType DEF StageManifest
<1>7. CASE JournalFile
  BY SMTT(30), <1>7, StageType DEF JournalFile
<1>8. CASE StageJournal
  BY <1>8, StageType DEF StageJournal
<1>9. CASE JournalLink
  BY <1>9 DEF JournalLink, TypeOK, loopVars, diskVars
<1>10. CASE JournalPublished
  BY <1>10 DEF JournalPublished, TypeOK, loopVars, nowVars
<1> QED
  BY <1>1, <1>2, <1>3, <1>4, <1>5, <1>6, <1>7, <1>8, <1>9, <1>10 DEF stage_batch

\* recover_one preserves the types.
LEMMA RecoverOneType == TypeOK /\ recover_one => TypeOK'
<1> SUFFICES ASSUME TypeOK, recover_one PROVE TypeOK'
  OBVIOUS
<1> USE BatchAssumption DEF Steps, TypeOK, Step, loopVars, diskVars, nowVars
<1>1. CASE ValidateAccepts
  BY <1>1 DEF ValidateAccepts
<1>2. CASE ValidateRefuses
  BY <1>2 DEF ValidateRefuses, ErrorReturn
<1>3. CASE ValidateAborts
  BY <1>3 DEF ValidateAborts
<1>4. ASSUME NEW r \in Record, EnsureDir(r) PROVE TypeOK'
  BY <1>4 DEF EnsureDir
<1>5. CASE SyncDir
  BY <1>5 DEF SyncDir
<1>6. CASE LinkRecord
  BY <1>6 DEF LinkRecord
<1>7. CASE RecordPublished
  BY <1>7 DEF RecordPublished
<1>8. CASE LinkManifest
  BY <1>8 DEF LinkManifest
<1>9. CASE ManifestPublished
  BY <1>9 DEF ManifestPublished
<1>10. CASE RemoveJournal
  BY <1>10 DEF RemoveJournal
<1>11. CASE JournalRemoved
  BY <1>11 DEF JournalRemoved
<1>12. CASE StageRemoved
  BY <1>12 DEF StageRemoved, SyncStages
<1>13. CASE AbortReturns
  BY <1>13 DEF AbortReturns, SyncStages, ErrorReturn
<1>14. CASE AbortSynced
  BY ZenonT(60), <1>14 DEF AbortSynced
<1> QED
  BY Zenon, <1>1, <1>2, <1>3, <1>4, <1>5, <1>6, <1>7, <1>8, <1>9, <1>10, <1>11, <1>12, <1>13, <1>14
     DEF recover_one

\* Removing stage entries, and the steps of recovery around recover_one.
LEMMA RecoveryType ==
    TypeOK /\ (remove_tree \/ NextJournal \/ clean_unprepared_stages \/ StagesCleaned
               \/ RecoveryScan \/ CommitScan) => TypeOK'
<1> SUFFICES ASSUME TypeOK,
                    remove_tree \/ NextJournal \/ clean_unprepared_stages \/ StagesCleaned
                    \/ RecoveryScan \/ CommitScan
             PROVE  TypeOK'
  OBVIOUS
<1> USE BatchAssumption DEF Steps, TypeOK, Step, loopVars, diskVars, nowVars
<1>1. CASE remove_tree
  <2>1. ASSUME NEW b \in Batch, NEW e \in StageEntry, RemoveEntry(b, e),
               pc' \in {"RemoveStage", "AbortStage", "CleanStages"},
               UNCHANGED <<base, mode, observed, faults>>
        PROVE  TypeOK'
    BY <2>1 DEF RemoveEntry
  <2> QED
    BY <1>1, <2>1 DEF remove_tree
<1>2. CASE NextJournal
  BY <1>2 DEF NextJournal
<1>3. CASE clean_unprepared_stages
  BY <1>3 DEF clean_unprepared_stages
<1>4. CASE StagesCleaned
  BY <1>4 DEF StagesCleaned, SyncStages
<1>5. CASE RecoveryScan
  BY Zenon, <1>5 DEF RecoveryScan
<1>6. CASE CommitScan
  BY ZenonT(60), <1>6 DEF CommitScan, ErrorReturn
<1> QED
  BY <1>1, <1>2, <1>3, <1>4, <1>5, <1>6

\* The calls of a store's user preserve the types.
LEMMA CallType == TypeOK /\ Call => TypeOK'
<1> SUFFICES ASSUME TypeOK, Call PROVE TypeOK'
  OBVIOUS
<1> USE BatchAssumption DEF Steps, TypeOK, loopVars, diskVars, nowVars
<1>1. CASE open_from_root
  BY <1>1 DEF open_from_root, StageEntry
<1>2. ASSUME NEW m \in Modes, read(m) PROVE TypeOK'
  BY <1>2 DEF read
<1>3. ASSUME NEW m \in Modes, begin_exclusive_operation(m) PROVE TypeOK'
  BY <1>3 DEF begin_exclusive_operation
<1>4. CASE recover_locked
  BY <1>4 DEF recover_locked
<1>5. CASE DropOperation
  BY SMTT(30), <1>5 DEF DropOperation
<1>6. ASSUME NEW b \in Batch, NEW expected \in SUBSET Batch, append(b, expected) PROVE TypeOK'
  <2>1. CASE append_replay(b, expected)
    BY Zenon, <2>1 DEF append_replay, Owners
  <2>2. CASE append_refused(b, expected)
    BY <2>2 DEF append_refused
  <2>3. CASE append_publish(b, expected)
    BY <2>3 DEF append_publish
  <2> QED
    BY <1>6, <2>1, <2>2, <2>3 DEF append
<1> QED
  BY <1>1, <1>2, <1>3, <1>4, <1>5, <1>6 DEF Call

\* Whatever a power loss keeps is one of the two values it had.
LEMMA PowerLossType == TypeOK /\ PowerLoss => TypeOK'
<1> SUFFICES ASSUME TypeOK, PowerLoss PROVE TypeOK'
  OBVIOUS
<1>1. vis' \in [Record -> Batch \cup {None}]
  BY DEF PowerLoss, TypeOK
<1>2. stg' \in [Batch -> SUBSET StageEntry]
  BY DEF PowerLoss, TypeOK, Reachable
<1>3. dir' \subseteq Entity /\ man' \subseteq Batch /\ jrn' \subseteq Batch
  BY DEF PowerLoss, TypeOK, Torn
<1> QED
  BY <1>1, <1>2, <1>3, FaultAssumption DEF PowerLoss, TypeOK, Steps, loopVars, FaultOf

\* Every variable keeps its type: the operation's snapshot in particular is a set of
\* batches whenever append_locked or preview_append_locked may use it.
THEOREM TypeCorrect == Spec => []TypeOK
<1>1. TypeOK /\ [Next]_vars => TypeOK'
  <2> SUFFICES ASSUME TypeOK, [Next]_vars PROVE TypeOK'
    OBVIOUS
  <2>1. CASE Work
    BY <2>1, StageBatchType, RecoverOneType, RecoveryType DEF Work
  <2>2. CASE Call
    BY <2>2, CallType
  <2>3. CASE Kill
    BY <2>3, FaultAssumption DEF Kill, FaultOf, TypeOK, Steps, loopVars, diskVars, nowVars
  <2>4. CASE IoError
    BY <2>4, FaultAssumption
       DEF IoError, ErrorReturn, FaultOf, TypeOK, Steps, loopVars, diskVars, nowVars
  <2>5. CASE PowerLoss
    BY <2>5, PowerLossType
  <2>6. CASE UNCHANGED vars
    BY <2>6 DEF vars, TypeOK, loopVars, diskVars, nowVars
  <2> QED
    BY <2>1, <2>2, <2>3, <2>4, <2>5, <2>6 DEF Next
<1> QED
  BY InitType, <1>1, PTL DEF Spec

---------------------------------------------------------------------------
(* Snapshots are fresh *)

\* The snapshot of an operation is the valid tree that is there, in every open mode and
\* after every kind of fault: exclusive_snapshot and append_locked are the only steps
\* that hand one out, and each failure takes it away.
THEOREM SnapshotsFresh == Spec => []SnapshotFresh
<1>1. Init => SnapshotFresh
  BY DEF Init, SnapshotFresh
<1>2. SnapshotFresh /\ [Next]_vars => SnapshotFresh'
  <2> SUFFICES ASSUME SnapshotFresh, [Next]_vars PROVE SnapshotFresh'
    OBVIOUS
  <2> USE DEF SnapshotFresh, Step, loopVars, diskVars, nowVars
  <2>1. CASE stage_batch
    BY Zenon, <2>1 DEF stage_batch, StageStep, StageDirectory, StageRecordsDirectory, RecordFile,
       StageRecords, ManifestFile, StageManifest, JournalFile, StageJournal, JournalLink,
       JournalPublished
  <2>2. CASE recover_one
    BY Zenon, <2>2 DEF recover_one, ErrorReturn, ValidateAccepts, ValidateRefuses, ValidateAborts,
       AbortSynced, EnsureDir, SyncDir, LinkRecord, RecordPublished, LinkManifest, ManifestPublished,
       RemoveJournal, JournalRemoved, StageRemoved, AbortReturns
  <2>3. CASE remove_tree \/ NextJournal \/ clean_unprepared_stages \/ StagesCleaned
    BY Zenon, <2>3 DEF remove_tree, NextJournal, clean_unprepared_stages, StagesCleaned
  <2>4. CASE RecoveryScan \/ CommitScan
    BY ZenonT(60), <2>4 DEF RecoveryScan, CommitScan, ErrorReturn
  <2>5. CASE Call
    BY ZenonT(60), <2>5 DEF Call, open_from_root, read, begin_exclusive_operation, recover_locked,
       DropOperation, append, append_replay, append_refused, append_publish
  <2>6. CASE Kill \/ IoError \/ PowerLoss
    BY <2>6 DEF Kill, IoError, PowerLoss, ErrorReturn
  <2>7. CASE UNCHANGED vars
    BY <2>7 DEF vars
  <2> QED
    BY <2>1, <2>2, <2>3, <2>4, <2>5, <2>6, <2>7 DEF Next, Work
<1> QED
  BY <1>1, <1>2, PTL DEF Spec

---------------------------------------------------------------------------
(* Published bytes are immutable *)

\* Without a power loss nothing that is visible is ever replaced or removed: records are
\* linked without clobbering, manifests only added, and no recovery undoes either.
THEOREM NeverUnpublished ==
    ASSUME "power" \notin Faults
    PROVE  Spec => PublishedImmutable
<1>1. TypeOK /\ [Next]_vars =>
        [(\A r \in Record : vis[r] # None => vis'[r] = vis[r]) /\ man \subseteq man']_vars
  <2> SUFFICES ASSUME TypeOK, Next
               PROVE  (\A r \in Record : vis[r] # None => vis'[r] = vis[r]) /\ man \subseteq man'
    OBVIOUS
  <2> USE DEF Step, loopVars, diskVars, nowVars
  <2>1. CASE stage_batch
    BY Zenon, <2>1 DEF stage_batch, StageStep, StageDirectory, StageRecordsDirectory, RecordFile,
       StageRecords, ManifestFile, StageManifest, JournalFile, StageJournal, JournalLink,
       JournalPublished
  <2>2. CASE LinkRecord
    BY <2>2 DEF LinkRecord, TypeOK
  <2>3. CASE recover_one /\ ~LinkRecord
    BY ZenonT(60), <2>3 DEF recover_one, ValidateAccepts, ValidateRefuses, ValidateAborts,
       AbortSynced, EnsureDir, SyncDir, RecordPublished, LinkManifest, ManifestPublished,
       RemoveJournal, JournalRemoved, StageRemoved, AbortReturns
  <2>4. CASE remove_tree \/ NextJournal \/ clean_unprepared_stages \/ StagesCleaned
             \/ RecoveryScan \/ CommitScan
    <3>1. CASE remove_tree
      BY SMTT(30), <3>1 DEF remove_tree, RemoveEntry
    <3>2. CASE NextJournal \/ clean_unprepared_stages
      BY SMTT(30), <3>2 DEF NextJournal, clean_unprepared_stages
    <3>3. CASE StagesCleaned \/ RecoveryScan \/ CommitScan
      BY SMTT(30), <3>3 DEF StagesCleaned, RecoveryScan, CommitScan
    <3> QED BY Zenon, <2>4, <3>1, <3>2, <3>3
  <2>5. CASE Call
    BY <2>5 DEF Call, open_from_root, read, begin_exclusive_operation, recover_locked,
       DropOperation, append, append_replay, append_refused, append_publish
  <2>6. CASE Kill \/ IoError
    BY <2>6 DEF Kill, IoError
  <2>7. ~PowerLoss
    BY DEF PowerLoss, FaultOf
  <2> QED
    BY <2>1, <2>2, <2>3, <2>4, <2>5, <2>6, <2>7 DEF Next, Work
<1> QED
  BY <1>1, TypeCorrect, PTL DEF Spec, PublishedImmutable

---------------------------------------------------------------------------
(* The inductive invariant of batch atomicity *)

Staging == {"StageDirectory", "StageRecordsDirectory", "RecordFile", "ManifestFile",
            "StageManifest", "JournalFile", "StageJournal", "JournalLink"}
Publishing == {"JournalPublished", "Publish", "SyncDir", "LinkRecord", "RecordPublished",
               "ManifestPublished", "RemoveJournal"}
Retired == {"JournalRemoved", "RemoveStage", "CleanStages", "Recovered", "Committed"}

\* At most one journal: an operation stages only when recovery left none.
OneJournal == \A a, b \in jrn : a = b

\* A journal's stage is whole, the tree beside its batch is its base, and nobody else's
\* bytes are at its paths.
JournalStaged ==
    \A b \in jrn :
      /\ stg[b] = FullStage(b) /\ man \ {b} = base[b]
      /\ \A r \in Member[b] : vis[r] \in {None, b}

\* The folds of a journal's base and of its result were both valid when it was staged.
JournalFolds == \A b \in jrn : FoldsValid(base[b]) /\ FoldsValid(base[b] \cup {b})

\* A visible record belongs to a manifest or to a journal.
Owned == \A r \in Record : vis[r] # None => vis[r] \in man \cup jrn

Complete == \A b \in man : \A r \in Member[b] : vis[r] = b

RecoveredClean == (pc = "held" /\ handle = "recovered") => jrn = {}

\* What append has established while it stages a batch.
StagingInv ==
    pc \in Staging =>
      /\ jrn = {} /\ cur \notin man /\ base[cur] = man
      /\ \A r \in Member[cur] : vis[r] = None
      /\ FoldsValid(man) /\ FoldsValid(man \cup {cur})

StagedSoFar ==
    /\ pc = "StageRecordsDirectory" => stg[cur] = {"stage"}
    /\ pc = "RecordFile" =>
         {"stage", "records"} \subseteq stg[cur] /\ stg[cur] \subseteq {"stage", "records"} \cup Member[cur]
    /\ pc = "ManifestFile" => stg[cur] = {"stage", "records"} \cup Member[cur]
    /\ pc \in {"StageManifest", "JournalFile"} =>
         stg[cur] = {"stage", "records", "manifest"} \cup Member[cur]
    /\ pc \in {"StageJournal", "JournalLink"} => stg[cur] = FullStage(cur)

\* What recover_one has established while it publishes a batch.
PublishingInv ==
    /\ pc \in Publishing => cur \in jrn
    /\ pc \in Staging \cup {"JournalPublished", "Validate"} => done = {}
    /\ pc \in {"Publish", "SyncDir", "LinkRecord", "RecordPublished"} => \A r \in done : vis[r] = cur
    /\ pc \in {"SyncDir", "LinkRecord", "RecordPublished"} => rec \in Member[cur]
    /\ pc = "RecordPublished" => vis[rec] = cur
    /\ pc \in {"ManifestPublished", "RemoveJournal"} => cur \in man

RetiredInv ==
    /\ pc \in Retired => jrn = {}
    /\ pc = "journals" => jrn \subseteq todo
    /\ pc \notin {"AbortJournal", "AbortStage"}

AtomicityInv ==
    /\ OneJournal /\ JournalStaged /\ JournalFolds /\ Owned /\ Complete
    /\ RecoveredClean /\ StagingInv /\ StagedSoFar /\ PublishingInv /\ RetiredInv

---------------------------------------------------------------------------
(* Batch atomicity *)

\* A strict scan reports InvalidDomainFold only for a fold that fails.
LEMMA StrictFold ==
    ASSUME NEW v, NEW mf, Scan("strict", v, mf) = "fold" PROVE ~FoldsValid(mf)
BY DEF Scan

\* In a strict store recovery never meets InvalidDomainFold: the preview of the append
\* has scanned the very trees that validate_recovery_base scans again.
LEMMA NeverAborts ==
    ASSUME TypeOK, AtomicityInv, Modes \subseteq {"strict"} PROVE ~ValidateAborts
<1> SUFFICES ASSUME ValidateAborts PROVE FALSE
  OBVIOUS
<1>1. mode = "strict" /\ cur \in jrn /\ validate_recovery_base(cur) = "fold"
  BY DEF ValidateAborts, StagedBatchValid, TypeOK
<1>2. FoldsValid(man \ {cur}) /\ FoldsValid((man \ {cur}) \cup {cur})
  BY <1>1 DEF AtomicityInv, JournalStaged, JournalFolds
<1>3. (man \ {cur}) \cup {cur} = man \cup {cur} /\ (cur \in man => man \cup {cur} = man)
  OBVIOUS
<1>4. \A v : /\ cur \in man => Scan("strict", v, man) # "fold"
            /\ Scan("strict", v, man \ {cur}) # "fold"
            /\ Scan("strict", v, man \cup {cur}) # "fold"
  BY <1>2, <1>3, StrictFold
<1> QED
  BY <1>1, <1>4 DEF validate_recovery_base

\* Steps of stage_batch before the journal is linked.
LEMMA StagingAtomic ==
    ASSUME TypeOK, AtomicityInv, stage_batch, ~JournalLink, ~JournalPublished PROVE AtomicityInv'
<1> USE BatchAssumption DEF TypeOK, AtomicityInv, StageStep, Stage, loopVars, Staging, Publishing, Retired
<1>1. /\ UNCHANGED <<vis, man, jrn, base, cur, done, rec, todo, handle>>
      /\ pc \in Staging /\ pc' \in Staging /\ jrn = {}
  BY ZenonT(60) DEF stage_batch, StageDirectory, StageRecordsDirectory, RecordFile,
       StageRecords, ManifestFile, StageManifest, JournalFile, StageJournal, StagingInv
<1>2. OneJournal' /\ JournalStaged' /\ JournalFolds' /\ Owned' /\ Complete' /\ RecoveredClean'
  BY <1>1 DEF OneJournal, JournalStaged, JournalFolds, Owned, Complete, RecoveredClean
<1>3. StagingInv'
  BY <1>1 DEF StagingInv, FoldsValid
<1>4. PublishingInv' /\ RetiredInv'
  BY <1>1 DEF PublishingInv, RetiredInv
<1>5. StagedSoFar'
  <2> USE DEF StagedSoFar, FullStage
  <2>1. CASE StageDirectory
    BY Zenon, <1>1, <2>1 DEF StageDirectory
  <2>2. CASE StageRecordsDirectory
    BY ZenonT(60), <1>1, <2>2 DEF StageRecordsDirectory
  <2>3. CASE RecordFile
    BY SMTT(30), <1>1, <2>3 DEF RecordFile
  <2>4. CASE StageRecords
    BY SMTT(30), <1>1, <2>4 DEF StageRecords
  <2>5. CASE ManifestFile
    BY ZenonT(60), <1>1, <2>5 DEF ManifestFile
  <2>6. CASE StageManifest
    BY ZenonT(60), <1>1, <2>6 DEF StageManifest
  <2>7. CASE JournalFile
    BY SMTT(30), <1>1, <2>7 DEF JournalFile
  <2>8. CASE StageJournal
    BY SMTT(30), <1>1, <2>8 DEF StageJournal
  <2> QED
    BY Zenon, <2>1, <2>2, <2>3, <2>4, <2>5, <2>6, <2>7, <2>8 DEF stage_batch
<1> QED
  BY <1>2, <1>3, <1>4, <1>5

\* Linking the journal turns what staging established into facts about the journal.
LEMMA JournalLinkAtomic ==
    ASSUME TypeOK, AtomicityInv, JournalLink \/ JournalPublished PROVE AtomicityInv'
<1> USE BatchAssumption DEF TypeOK, AtomicityInv, nowVars, diskVars, loopVars, Staging, Publishing, Retired
<1>1. CASE JournalLink
  <2>1. /\ UNCHANGED <<vis, man, stg, base, cur, done>> /\ jrn = {} /\ jrn' = {cur}
        /\ pc = "JournalLink" /\ pc' = "JournalPublished"
    BY ZenonT(60), <1>1 DEF JournalLink, StagingInv
  <2>2. JournalStaged' /\ JournalFolds'
    BY <2>1 DEF JournalStaged, JournalFolds, StagingInv, StagedSoFar, FullStage, FoldsValid
  <2>3. OneJournal' /\ Complete' /\ RecoveredClean'
    BY <2>1 DEF OneJournal, Complete, RecoveredClean
  <2>4. Owned'
    BY ZenonT(60), <2>1 DEF Owned
  <2>5. StagingInv' /\ StagedSoFar' /\ PublishingInv' /\ RetiredInv'
    BY SMTT(30), <2>1 DEF StagingInv, StagedSoFar, PublishingInv, RetiredInv
  <2> QED
    BY <2>2, <2>3, <2>4, <2>5
<1>2. CASE JournalPublished
  BY ZenonT(60), <1>2 DEF JournalPublished, OneJournal, JournalStaged, JournalFolds, Owned, Complete,
     RecoveredClean, StagingInv, StagedSoFar, PublishingInv, RetiredInv
<1> QED
  BY <1>1, <1>2

\* Steps that leave the files and the batch being worked on alone.
LEMMA FilesUnchanged ==
    ASSUME AtomicityInv, UNCHANGED <<vis, man, jrn, base>>,
           \A b \in jrn : stg'[b] = stg[b]
    PROVE  OneJournal' /\ JournalStaged' /\ JournalFolds' /\ Owned' /\ Complete'
BY DEF AtomicityInv, OneJournal, JournalStaged, JournalFolds, Owned, Complete, FoldsValid, FullStage

\* The journal being worked on is the only one.
LEMMA OnlyJournal == ASSUME OneJournal, cur \in jrn PROVE jrn = {cur}
BY SMTT(30) DEF OneJournal

\* Publishing a validated batch: records, then the manifest, then the journal goes.
LEMMA PublishAtomic ==
    ASSUME TypeOK, AtomicityInv, recover_one, ~ValidateAborts PROVE AtomicityInv'
<1> USE BatchAssumption DEF TypeOK, AtomicityInv, Step, nowVars, diskVars, loopVars,
        Staging, Publishing, Retired
<1>1. CASE ValidateAccepts \/ ValidateRefuses \/ SyncDir \/ ManifestPublished \/ JournalRemoved
  <2>1. UNCHANGED <<vis, man, jrn, stg, base>>
    BY Zenon, <1>1 DEF ValidateAccepts, ValidateRefuses, SyncDir, ManifestPublished, JournalRemoved
  <2>2. OneJournal' /\ JournalStaged' /\ JournalFolds' /\ Owned' /\ Complete'
    BY <2>1, FilesUnchanged
  <2>3. RecoveredClean' /\ StagingInv' /\ StagedSoFar' /\ PublishingInv' /\ RetiredInv'
    BY ZenonT(60), <1>1 DEF ValidateAccepts, ValidateRefuses, SyncDir, ManifestPublished, JournalRemoved,
       ErrorReturn, StagedBatchValid, RecoveredClean, StagingInv, StagedSoFar, PublishingInv,
       RetiredInv
  <2> QED
    BY SMTT(30), <2>2, <2>3
<1>2. ASSUME NEW r \in Record, EnsureDir(r) PROVE AtomicityInv'
  <2>1. OneJournal' /\ JournalStaged' /\ JournalFolds' /\ Owned' /\ Complete'
    BY SMTT(30), <1>2, FilesUnchanged DEF EnsureDir
  <2>2. RecoveredClean' /\ StagingInv' /\ StagedSoFar' /\ PublishingInv' /\ RetiredInv'
    BY Zenon, <1>2 DEF EnsureDir, RecoveredClean, StagingInv, StagedSoFar, PublishingInv, RetiredInv
  <2> QED
    BY Zenon, <2>1, <2>2
<1>3. CASE LinkRecord
  <2>1. /\ cur \in jrn /\ rec \in Member[cur] /\ vis[rec] \in {None, cur}
        /\ vis' = [vis EXCEPT ![rec] = cur] /\ UNCHANGED <<man, jrn, stg, base, cur, rec, done>>
        /\ pc = "LinkRecord" /\ pc' = "RecordPublished" /\ jrn = {cur}
    BY Zenon, <1>3, OnlyJournal DEF LinkRecord, PublishingInv
  <2>2. OneJournal' /\ JournalFolds' /\ RecoveredClean' /\ StagingInv' /\ StagedSoFar' /\ RetiredInv'
    BY Zenon, <2>1 DEF OneJournal, JournalFolds, FoldsValid, RecoveredClean, StagingInv, StagedSoFar, RetiredInv
  <2>3. JournalStaged'
    BY SMTT(30), <2>1 DEF JournalStaged, FullStage
  <2>4. Owned'
    BY SMTT(30), <2>1 DEF Owned
  <2>5. Complete'
    BY SMTT(30), <2>1 DEF Complete
  <2>6. PublishingInv'
    BY SMTT(30), <2>1 DEF PublishingInv
  <2> QED
    BY Zenon, <2>2, <2>3, <2>4, <2>5, <2>6
<1>4. CASE RecordPublished
  <2>1. OneJournal' /\ JournalStaged' /\ JournalFolds' /\ Owned' /\ Complete'
    BY SMTT(30), <1>4, FilesUnchanged DEF RecordPublished
  <2>2. RecoveredClean' /\ StagingInv' /\ StagedSoFar' /\ PublishingInv' /\ RetiredInv'
    BY Zenon, <1>4 DEF RecordPublished, RecoveredClean, StagingInv, StagedSoFar, PublishingInv, RetiredInv
  <2> QED
    BY SMTT(30), <2>1, <2>2
<1>5. CASE LinkManifest
  <2>1. /\ cur \in jrn /\ jrn = {cur} /\ Member[cur] \subseteq done /\ \A r \in done : vis[r] = cur
        /\ man' = man \cup {cur} /\ UNCHANGED <<vis, jrn, stg, base, cur>>
        /\ pc = "Publish" /\ pc' = "ManifestPublished"
    BY SMTT(30), <1>5, OnlyJournal DEF LinkManifest, PublishingInv
  <2>2. OneJournal' /\ JournalFolds' /\ RecoveredClean' /\ StagingInv' /\ StagedSoFar' /\ RetiredInv'
    BY ZenonT(60), <2>1 DEF OneJournal, JournalFolds, FoldsValid, RecoveredClean, StagingInv, StagedSoFar, RetiredInv
  <2>3. JournalStaged'
    BY Zenon, <2>1 DEF JournalStaged, FullStage
  <2>4. Owned' /\ Complete' /\ PublishingInv'
    BY Zenon, <2>1 DEF Owned, Complete, PublishingInv
  <2> QED
    BY ZenonT(60), <2>2, <2>3, <2>4
<1>6. CASE RemoveJournal
  <2>1. /\ jrn = {cur} /\ jrn' = {} /\ cur \in man /\ UNCHANGED <<vis, man, stg, base>>
        /\ pc' = "JournalRemoved"
    BY Zenon, <1>6, OnlyJournal DEF RemoveJournal, PublishingInv
  <2>2. OneJournal' /\ JournalStaged' /\ JournalFolds' /\ Complete' /\ RecoveredClean'
    BY SMTT(30), <2>1 DEF OneJournal, JournalStaged, JournalFolds, Complete, RecoveredClean
  <2>3. Owned'
    BY SMTT(30), <2>1 DEF Owned
  <2>4. StagingInv' /\ StagedSoFar' /\ PublishingInv' /\ RetiredInv'
    BY SMTT(30), <2>1 DEF StagingInv, StagedSoFar, PublishingInv, RetiredInv
  <2> QED
    BY Zenon, <2>2, <2>3, <2>4
<1>7. CASE StageRemoved \/ AbortReturns \/ AbortSynced
  <2>1. OneJournal' /\ JournalStaged' /\ JournalFolds' /\ Owned' /\ Complete'
    BY <1>7, FilesUnchanged DEF StageRemoved, AbortReturns, AbortSynced
  <2>2. RecoveredClean' /\ StagingInv' /\ StagedSoFar' /\ PublishingInv' /\ RetiredInv'
    BY ZenonT(60), <1>7 DEF StageRemoved, AbortReturns, AbortSynced, RecoveredClean, StagingInv, StagedSoFar,
       PublishingInv, RetiredInv
  <2> QED
    BY SMTT(30), <2>1, <2>2
<1> QED
  BY Zenon, <1>1, <1>2, <1>3, <1>4, <1>5, <1>6, <1>7 DEF recover_one

\* Removing stages happens only when no journal is left; the scans change no file.
LEMMA RecoveryAtomic ==
    ASSUME TypeOK, AtomicityInv,
           remove_tree \/ NextJournal \/ clean_unprepared_stages \/ StagesCleaned
           \/ RecoveryScan \/ CommitScan
    PROVE  AtomicityInv'
<1> USE DEF TypeOK, AtomicityInv, Step, nowVars, diskVars, loopVars, Staging, Publishing, Retired
<1>1. CASE remove_tree
  <2>1. /\ UNCHANGED <<vis, man, jrn, base, cur, rec, todo, done, handle, pc>> /\ jrn = {}
        /\ pc \in {"RemoveStage", "CleanStages"}
    BY Zenon, <1>1 DEF remove_tree, RemoveEntry, RetiredInv
  <2>2. OneJournal' /\ JournalStaged' /\ JournalFolds' /\ Owned' /\ Complete'
    BY Zenon, <2>1, FilesUnchanged
  <2>3. RecoveredClean' /\ StagingInv' /\ StagedSoFar' /\ PublishingInv' /\ RetiredInv'
    BY Zenon, <2>1 DEF RecoveredClean, StagingInv, StagedSoFar, PublishingInv, RetiredInv
  <2> QED
    BY <2>2, <2>3
<1>2. CASE NextJournal \/ clean_unprepared_stages \/ StagesCleaned \/ RecoveryScan \/ CommitScan
  <2>1. UNCHANGED <<vis, man, jrn, stg, base>>
    BY ZenonT(60), <1>2 DEF NextJournal, clean_unprepared_stages, StagesCleaned, RecoveryScan, CommitScan
  <2>2. OneJournal' /\ JournalStaged' /\ JournalFolds' /\ Owned' /\ Complete'
    BY <2>1, FilesUnchanged
  <2>3. RecoveredClean' /\ StagingInv' /\ StagedSoFar' /\ PublishingInv' /\ RetiredInv'
    BY ZenonT(60), <1>2 DEF NextJournal, clean_unprepared_stages, StagesCleaned, RecoveryScan, CommitScan,
       RecoveredClean, StagingInv, StagedSoFar, PublishingInv, RetiredInv
  <2> QED
    BY <2>2, <2>3
<1> QED
  BY Zenon, <1>1, <1>2

\* Calls change no file.  An append that goes on to stage has a fresh snapshot, so its
\* base is the tree, and its candidate scan vouches for the folds.
LEMMA CallAtomic ==
    ASSUME TypeOK, SnapshotFresh, AtomicityInv, Modes \subseteq {"strict"}, Call
    PROVE  AtomicityInv'
<1> USE DEF TypeOK, AtomicityInv, nowVars, diskVars, loopVars, Staging, Publishing, Retired
<1>1. ASSUME NEW b \in Batch, NEW expected \in SUBSET Batch, append_publish(b, expected)
      PROVE  AtomicityInv'
  <2>1. /\ jrn = {} /\ expected = man /\ Scan("strict", vis, man) = "ok"
        /\ UNCHANGED <<vis, man, jrn, stg>> /\ cur' = b /\ done' = {} /\ pc' = "StageDirectory"
        /\ base' = [base EXCEPT ![b] = man] /\ CandidateValid(b) /\ mode = "strict"
    BY <1>1 DEF append_publish, Publishes, SnapshotFresh, RecoveredClean
  <2>2. FoldsValid(man) /\ FoldsValid(man \cup {b})
    BY Zenon, <2>1 DEF Scan, CandidateValid
  <2>3. StagingInv'
    BY ZenonT(30), <2>1, <2>2 DEF StagingInv, CandidateValid, FoldsValid
  <2>4. OneJournal' /\ JournalStaged' /\ JournalFolds' /\ Owned' /\ Complete' /\ RecoveredClean'
    BY Zenon, <2>1 DEF OneJournal, JournalStaged, JournalFolds, Owned, Complete, RecoveredClean
  <2>5. StagedSoFar'
    BY Zenon, <2>1 DEF StagedSoFar
  <2>6. PublishingInv'
    BY Zenon, <2>1 DEF PublishingInv
  <2>7. RetiredInv'
    BY Zenon, <2>1 DEF RetiredInv
  <2> QED
    BY Zenon, <2>3, <2>4, <2>5, <2>6, <2>7
<1>2. ASSUME NEW b \in Batch, NEW expected \in SUBSET Batch,
             append_replay(b, expected) \/ append_refused(b, expected)
      PROVE  AtomicityInv'
  <2>1. OneJournal' /\ JournalStaged' /\ JournalFolds' /\ Owned' /\ Complete'
    BY <1>2, FilesUnchanged DEF append_replay, append_refused
  <2>2. RecoveredClean' /\ StagingInv' /\ StagedSoFar' /\ PublishingInv' /\ RetiredInv'
    BY ZenonT(60), <1>2 DEF append_replay, append_refused, RecoveredClean, StagingInv, StagedSoFar,
       PublishingInv, RetiredInv
  <2> QED
    BY SMTT(30), <2>1, <2>2
<1>3. CASE open_from_root \/ \E m \in Modes : read(m)
  <2>1. UNCHANGED <<vis, man, jrn, stg, base, pc, cur, rec, todo, done, handle>>
    BY Zenon, <1>3 DEF open_from_root, read
  <2>2. OneJournal' /\ JournalStaged' /\ JournalFolds' /\ Owned' /\ Complete'
    BY SMTT(30), <2>1, FilesUnchanged
  <2>3. RecoveredClean' /\ StagingInv' /\ StagedSoFar' /\ PublishingInv' /\ RetiredInv'
    BY ZenonT(30), <2>1 DEF RecoveredClean, StagingInv, StagedSoFar, PublishingInv, RetiredInv, FoldsValid,
       FullStage
  <2> QED
    BY Zenon, <2>2, <2>3
<1>4. CASE recover_locked \/ DropOperation \/ \E m \in Modes : begin_exclusive_operation(m)
  <2>1. OneJournal' /\ JournalStaged' /\ JournalFolds' /\ Owned' /\ Complete'
    BY <1>4, FilesUnchanged DEF recover_locked, DropOperation, begin_exclusive_operation
  <2>2. RecoveredClean' /\ StagingInv' /\ StagedSoFar' /\ PublishingInv' /\ RetiredInv'
    BY Zenon, <1>4 DEF recover_locked, DropOperation, begin_exclusive_operation, RecoveredClean,
       StagingInv, StagedSoFar, PublishingInv, RetiredInv
  <2> QED
    BY SMTT(30), <2>1, <2>2
<1> QED
  BY Zenon, <1>1, <1>2, <1>3, <1>4 DEF Call, append

\* A kill or an I/O error leaves every file where it is.
LEMMA FailureAtomic == ASSUME AtomicityInv, Kill \/ IoError PROVE AtomicityInv'
<1> USE DEF AtomicityInv, nowVars, Staging, Publishing, Retired
<1>1. OneJournal' /\ JournalStaged' /\ JournalFolds' /\ Owned' /\ Complete'
  BY SMTT(30), FilesUnchanged DEF Kill, IoError
<1>2. RecoveredClean' /\ StagingInv' /\ StagedSoFar' /\ PublishingInv' /\ RetiredInv'
  BY Zenon DEF Kill, IoError, ErrorReturn, RecoveredClean, StagingInv, StagedSoFar, PublishingInv, RetiredInv
<1> QED
  BY <1>1, <1>2

\* The invariant holds for strict stores whose processes may fail at any step.
THEOREM AtomicityInvariant ==
    ASSUME Modes \subseteq {"strict"}, "power" \notin Faults
    PROVE  Spec => []AtomicityInv
<1>1. Init => AtomicityInv
  BY DEF Init, AtomicityInv, OneJournal, JournalStaged, JournalFolds, Owned, Complete,
     RecoveredClean, StagingInv, StagedSoFar, PublishingInv, RetiredInv, Staging, Publishing, Retired
<1>2. TypeOK /\ SnapshotFresh /\ AtomicityInv /\ [Next]_vars => AtomicityInv'
  <2> SUFFICES ASSUME TypeOK, SnapshotFresh, AtomicityInv, [Next]_vars PROVE AtomicityInv'
    OBVIOUS
  <2>1. CASE Work
    BY <2>1, NeverAborts, StagingAtomic, JournalLinkAtomic, PublishAtomic, RecoveryAtomic DEF Work
  <2>2. CASE Call
    BY <2>2, CallAtomic
  <2>3. CASE Kill \/ IoError
    BY <2>3, FailureAtomic
  <2>4. ~PowerLoss
    BY Zenon DEF PowerLoss, FaultOf
  <2>5. CASE UNCHANGED vars
    <3>1. UNCHANGED <<vis, man, jrn, stg, base, pc, cur, rec, todo, done, handle>>
      BY <2>5 DEF vars, nowVars, loopVars
    <3>2. OneJournal' /\ JournalStaged' /\ JournalFolds' /\ Owned' /\ Complete'
      BY <3>1, FilesUnchanged DEF AtomicityInv
    <3>3. RecoveredClean' /\ StagingInv' /\ StagedSoFar'
      BY ZenonT(60), <3>1 DEF AtomicityInv, RecoveredClean, StagingInv, StagedSoFar, FoldsValid
    <3>4. PublishingInv' /\ RetiredInv'
      BY <3>1 DEF AtomicityInv, PublishingInv, RetiredInv
    <3> QED
      BY Zenon, <3>1, <3>2, <3>3, <3>4 DEF AtomicityInv
  <2> QED
    BY <2>1, <2>2, <2>3, <2>4, <2>5 DEF Next
<1> QED
  BY <1>1, <1>2, TypeCorrect, SnapshotsFresh, PTL DEF Spec

\* Batch atomicity: wherever the processes of a strict store are killed or fail, once no
\* journal or stage is left each batch is in the tree with all its records or not at all.
THEOREM BatchesAtomic ==
    ASSUME Modes \subseteq {"strict"}, "power" \notin Faults
    PROVE  Spec => []OldOrComplete
<1>1. AtomicityInv => OldOrComplete
  BY Zenon DEF AtomicityInv, Owned, Complete, OldOrComplete, Residue, OwnershipValid
<1> QED
  BY <1>1, AtomicityInvariant, PTL

\* Recovery neither refuses nor drops a published journal of such a store: its stage is
\* whole, the tree beside it is the base it was staged on, its paths are free or its own,
\* and no fold of the base or of the result fails.
THEOREM JournalsStayRecoverable ==
    ASSUME Modes \subseteq {"strict"}, "power" \notin Faults
    PROVE  Spec => []JournalsRecoverable
<1>1. AtomicityInv => JournalsRecoverable
  BY DEF AtomicityInv, JournalStaged, JournalFolds, JournalsRecoverable
<1> QED
  BY <1>1, AtomicityInvariant, PTL

---------------------------------------------------------------------------
(* The refinement of AtomicJournal, for strict stores whose processes may be killed or *)
(* fail at any step.  A batch is in the abstract store when its manifest or its journal *)
(* is synced.  First: what the synced directories say about the visible ones.           *)

\* Synced manifests are visible; a manifest or journal that is not synced belongs to
\* the visible journal, so that syncing or losing it concerns that batch alone.
Synced ==
    /\ manD \subseteq man
    /\ man \subseteq manD \cup jrn
    /\ jrnD \subseteq manD \cup jrn

\* The manifest is synced before its journal goes, and so before anyone is answered.
Retiring == {"RemoveJournal", "JournalRemoved", "RemoveStage", "Committed"}
RetiringSynced == pc \in Retiring => cur \in manD

\* A batch is staged only on a tree with which it forms a valid store.
CompatibleInv ==
    /\ pc \in Staging => Compatible(man \cup {cur})
    /\ \A b \in jrn : Compatible(base[b] \cup {b})

ObservedSynced == observed \subseteq manD

RefinementInv == Synced /\ RetiringSynced /\ CompatibleInv /\ ObservedSynced

\* Without a journal the synced manifests are the visible ones.
LEMMA SyncedWhole == ASSUME Synced, jrn = {} PROVE manD = man /\ manD \cup jrnD = man
BY Zenon DEF Synced

\* A tree that a strict scan accepts is a valid store: its records have one owner.
LEMMA ScanCompatible ==
    ASSUME NEW v, NEW mf, Scan("strict", v, mf) = "ok" PROVE Compatible(mf)
<1>1. OwnershipValid(v, mf) /\ IdempotencyValid(mf) /\ IdentityValid(mf) /\ FoldsValid(mf)
  BY Zenon DEF Scan
<1>2. \A a, b \in mf : a # b => Member[a] \cap Member[b] = {}
  BY <1>1 DEF OwnershipValid
<1> QED
  BY Zenon, <1>1, <1>2 DEF Compatible

---------------------------------------------------------------------------
(* RefinementInv is inductive *)

\* Compatibility is a matter of manifests, journals and the batch being staged.
LEMMA CompatibleStays ==
    ASSUME CompatibleInv, UNCHANGED <<man, jrn, base, cur>>, pc' \in Staging => pc \in Staging
    PROVE  CompatibleInv'
<1>1. ASSUME pc' \in Staging PROVE Compatible(man \cup {cur})'
  <2>1. Compatible(man \cup {cur})
    BY ZenonT(60), <1>1 DEF CompatibleInv
  <2> QED
    BY <2>1 DEF Compatible, IdempotencyValid, IdentityValid, FoldsValid
<1>2. ASSUME NEW b \in jrn' PROVE Compatible(base[b] \cup {b})'
  <2>1. Compatible(base[b] \cup {b})
    BY Zenon, <1>2 DEF CompatibleInv
  <2> QED
    BY <2>1 DEF Compatible, IdempotencyValid, IdentityValid, FoldsValid
<1> QED
  BY Zenon, <1>1, <1>2 DEF CompatibleInv

\* Steps that change neither manifests nor journals, now or on disk.
LEMMA ListsUnchanged ==
    ASSUME RefinementInv, UNCHANGED <<man, jrn, manD, jrnD, base, observed, cur>>,
           pc' \in Staging => pc \in Staging, pc' \in Retiring => pc \in Retiring
    PROVE  RefinementInv'
<1>1. Synced' /\ ObservedSynced' /\ RetiringSynced'
  BY DEF RefinementInv, Synced, ObservedSynced, RetiringSynced
<1>2. CompatibleInv'
  BY ZenonT(60), CompatibleStays DEF RefinementInv
<1> QED
  BY <1>1, <1>2 DEF RefinementInv

\* Outside staging, compatibility concerns only the journals that are left.
LEMMA CompatibleKept ==
    ASSUME CompatibleInv, base' = base, jrn' \subseteq jrn, pc' \notin Staging
    PROVE  CompatibleInv'
<1> SUFFICES ASSUME NEW b \in jrn' PROVE Compatible(base[b] \cup {b})'
  BY Zenon DEF CompatibleInv
<1>1. Compatible(base[b] \cup {b})
  BY Zenon DEF CompatibleInv
<1> QED
  BY <1>1 DEF Compatible, IdempotencyValid, IdentityValid, FoldsValid

\* Staging changes only the stage until the journal is linked, and then the batch has
\* its journal, on the tree it was staged on.
LEMMA StagingRefines ==
    ASSUME TypeOK, AtomicityInv, RefinementInv, stage_batch PROVE RefinementInv'
<1>1. CASE JournalLink
  <2>1. /\ UNCHANGED <<man, manD, jrnD, base, observed, cur>> /\ jrn = {} /\ jrn' = {cur}
        /\ pc \in Staging /\ pc' \notin Staging \cup Retiring /\ base[cur] = man
    BY Zenon, <1>1 DEF JournalLink, AtomicityInv, StagingInv, Staging, Retiring, diskVars, loopVars
  <2>2. Synced' /\ ObservedSynced' /\ RetiringSynced'
    BY <2>1 DEF RefinementInv, Synced, ObservedSynced, RetiringSynced
  <2>3. Compatible(base[cur] \cup {cur})
    BY ZenonT(60), <2>1 DEF RefinementInv, CompatibleInv
  <2>4. CompatibleInv'
    <3> SUFFICES ASSUME NEW b \in jrn' PROVE Compatible(base[b] \cup {b})'
      BY Zenon, <2>1 DEF CompatibleInv
    <3>1. b = cur
      BY <2>1
    <3> QED
      BY <2>1, <2>3, <3>1 DEF Compatible, IdempotencyValid, IdentityValid, FoldsValid
  <2> QED
    BY <2>2, <2>4 DEF RefinementInv
<1>2. CASE JournalPublished
  <2>1. /\ UNCHANGED <<man, jrn, manD, base, observed, cur>> /\ jrnD' = jrn
        /\ pc' \notin Staging \cup Retiring
    BY Zenon, <1>2 DEF JournalPublished, Staging, Retiring, nowVars, loopVars
  <2>2. Synced' /\ ObservedSynced' /\ RetiringSynced'
    BY <2>1 DEF RefinementInv, Synced, ObservedSynced, RetiringSynced
  <2>3. CompatibleInv'
    BY <2>1, CompatibleKept DEF RefinementInv
  <2> QED
    BY <2>2, <2>3 DEF RefinementInv
<1>3. CASE ~JournalLink /\ ~JournalPublished
  <2>1. /\ UNCHANGED <<man, jrn, manD, jrnD, base, observed, cur>>
        /\ pc \in Staging /\ pc' \notin Retiring
    BY Zenon, <1>3 DEF stage_batch, StageStep, StageDirectory, StageRecordsDirectory, RecordFile,
       StageRecords, ManifestFile, StageManifest, JournalFile, StageJournal, Staging, Retiring,
       loopVars
  <2> QED
    BY Zenon, <2>1, ListsUnchanged
<1> QED
  BY <1>1, <1>2, <1>3

\* recover_one links the manifest while the journal is there, syncs it, and only then
\* removes the journal.
LEMMA PublishRefines ==
    ASSUME TypeOK, AtomicityInv, RefinementInv, recover_one, ~ValidateAborts PROVE RefinementInv'
<1> USE DEF Step, nowVars, diskVars, loopVars
<1>1. CASE LinkManifest
  <2>1. /\ UNCHANGED <<jrn, manD, jrnD, base, observed, cur>> /\ man' = man \cup {cur}
        /\ cur \in jrn /\ pc' \notin Staging \cup Retiring
    BY Zenon, <1>1 DEF LinkManifest, AtomicityInv, PublishingInv, Publishing, Staging, Retiring
  <2>2. Synced' /\ ObservedSynced' /\ RetiringSynced'
    BY <2>1 DEF RefinementInv, Synced, ObservedSynced, RetiringSynced
  <2>3. CompatibleInv'
    BY <2>1, CompatibleKept DEF RefinementInv
  <2> QED
    BY <2>2, <2>3 DEF RefinementInv
<1>2. CASE ManifestPublished
  <2>1. /\ UNCHANGED <<man, jrn, jrnD, base, observed, cur>> /\ manD' = man
        /\ cur \in man /\ pc' \notin Staging
    BY Zenon, <1>2 DEF ManifestPublished, AtomicityInv, PublishingInv, Staging
  <2>2. Synced' /\ ObservedSynced' /\ RetiringSynced'
    BY <2>1 DEF RefinementInv, Synced, ObservedSynced, RetiringSynced
  <2>3. CompatibleInv'
    BY <2>1, CompatibleKept DEF RefinementInv
  <2> QED
    BY <2>2, <2>3 DEF RefinementInv
<1>3. CASE RemoveJournal
  <2>1. /\ UNCHANGED <<man, manD, jrnD, base, observed, cur>> /\ jrn' = jrn \ {cur}
        /\ cur \in manD /\ pc' \notin Staging
    BY Zenon, <1>3 DEF RemoveJournal, RefinementInv, RetiringSynced, Retiring, Staging
  <2>2. Synced' /\ ObservedSynced' /\ RetiringSynced'
    BY <2>1 DEF RefinementInv, Synced, ObservedSynced, RetiringSynced
  <2>3. CompatibleInv'
    BY <2>1, CompatibleKept DEF RefinementInv
  <2> QED
    BY <2>2, <2>3 DEF RefinementInv
<1>4. CASE JournalRemoved
  <2>1. /\ UNCHANGED <<man, jrn, manD, base, observed, cur>> /\ jrnD' = jrn
        /\ pc \in Retiring /\ pc' \notin Staging
    BY Zenon, <1>4 DEF JournalRemoved, Retiring, Staging
  <2>2. Synced' /\ ObservedSynced' /\ RetiringSynced'
    BY <2>1 DEF RefinementInv, Synced, ObservedSynced, RetiringSynced
  <2>3. CompatibleInv'
    BY <2>1, CompatibleKept DEF RefinementInv
  <2> QED
    BY <2>2, <2>3 DEF RefinementInv
<1>5. CASE ~LinkManifest /\ ~ManifestPublished /\ ~RemoveJournal /\ ~JournalRemoved
  <2>1. ~AbortSynced
    BY Zenon DEF AbortSynced, AtomicityInv, RetiredInv
  <2>2. /\ UNCHANGED <<man, jrn, manD, jrnD, base, observed, cur>>
        /\ pc' \notin Staging /\ (pc' \in Retiring => pc \in Retiring)
    BY Zenon, <1>5, <2>1 DEF recover_one, ValidateAccepts, ValidateRefuses, EnsureDir, SyncDir,
       LinkRecord, RecordPublished, StageRemoved, AbortReturns, Staging, Retiring
  <2> QED
    BY Zenon, <2>2, ListsUnchanged
<1> QED
  BY <1>1, <1>2, <1>3, <1>4, <1>5

\* Recovery's loop, stage removal and the scans change no list; the answer to an append
\* names a batch whose manifest is synced.
LEMMA RecoveryRefines ==
    ASSUME TypeOK, AtomicityInv, RefinementInv,
           remove_tree \/ NextJournal \/ clean_unprepared_stages \/ StagesCleaned
           \/ RecoveryScan \/ CommitScan
    PROVE  RefinementInv'
<1> USE DEF Step, nowVars, diskVars, loopVars
<1>1. CASE NextJournal
  <2>1. /\ UNCHANGED <<man, jrn, manD, jrnD, base, observed>> /\ pc' \notin Staging \cup Retiring
    BY Zenon, <1>1 DEF NextJournal, Staging, Retiring
  <2>2. Synced' /\ ObservedSynced' /\ RetiringSynced'
    BY <2>1 DEF RefinementInv, Synced, ObservedSynced, RetiringSynced
  <2>3. CompatibleInv'
    BY ZenonT(60), <2>1, CompatibleKept DEF RefinementInv
  <2> QED
    BY <2>2, <2>3 DEF RefinementInv
<1>2. CASE CommitScan
  <2>1. /\ UNCHANGED <<man, jrn, manD, jrnD, base, cur>> /\ observed' \subseteq observed \cup {cur}
        /\ cur \in manD /\ pc' \notin Staging \cup Retiring
    BY SMTT(30), <1>2 DEF CommitScan, RefinementInv, RetiringSynced, Staging, Retiring
  <2>2. Synced' /\ ObservedSynced' /\ RetiringSynced'
    BY <2>1 DEF RefinementInv, Synced, ObservedSynced, RetiringSynced
  <2>3. CompatibleInv'
    BY <2>1, CompatibleKept DEF RefinementInv
  <2> QED
    BY <2>2, <2>3 DEF RefinementInv
<1>3. CASE remove_tree \/ clean_unprepared_stages \/ StagesCleaned \/ RecoveryScan
  <2>1. /\ UNCHANGED <<man, jrn, manD, jrnD, base, observed, cur>>
        /\ pc' \notin Staging /\ (pc' \in Retiring => pc \in Retiring)
    BY Zenon, <1>3 DEF remove_tree, RemoveEntry, clean_unprepared_stages, StagesCleaned,
       RecoveryScan, Staging, Retiring
  <2> QED
    BY Zenon, <2>1, ListsUnchanged
<1> QED
  BY <1>1, <1>2, <1>3

\* Store::open syncs the lists at any time.  An append that goes on to stage has scanned
\* the tree with its batch in it; reads and replays report only a tree without journals.
LEMMA CallRefines ==
    ASSUME TypeOK, SnapshotFresh, AtomicityInv, RefinementInv, Modes \subseteq {"strict"}, Call
    PROVE  RefinementInv'
<1> USE DEF nowVars, diskVars, loopVars
<1>1. ASSUME NEW b \in Batch, NEW expected \in SUBSET Batch, append_publish(b, expected)
      PROVE  RefinementInv'
  <2>1. /\ UNCHANGED <<man, jrn, manD, jrnD, observed>> /\ cur' = b /\ jrn = {}
        /\ pc' = "StageDirectory" /\ CandidateValid(b) /\ mode = "strict"
    BY <1>1 DEF append_publish, Publishes, AtomicityInv, RecoveredClean, TypeOK
  <2>2. Compatible(man \cup {b})
    BY ZenonT(60), <2>1, ScanCompatible DEF CandidateValid
  <2>3. Compatible(man \cup {cur})'
    BY Zenon, <2>1, <2>2 DEF Compatible, IdempotencyValid, IdentityValid, FoldsValid
  <2>4. CompatibleInv'
    BY Zenon, <2>1, <2>3 DEF CompatibleInv
  <2>5. Synced' /\ ObservedSynced' /\ RetiringSynced'
    BY <2>1 DEF RefinementInv, Synced, ObservedSynced, RetiringSynced, Retiring
  <2> QED
    BY ZenonT(60), <2>4, <2>5 DEF RefinementInv
<1>2. CASE open_from_root
  <2>1. /\ UNCHANGED <<man, jrn, base, observed, cur, pc>> /\ manD' = man /\ jrnD' = jrn
    BY Zenon, <1>2 DEF open_from_root
  <2>2. Synced' /\ ObservedSynced' /\ RetiringSynced'
    BY <2>1 DEF RefinementInv, Synced, ObservedSynced, RetiringSynced
  <2>3. CompatibleInv'
    BY Zenon, <2>1, CompatibleStays DEF RefinementInv
  <2> QED
    BY <2>2, <2>3 DEF RefinementInv
<1>3. CASE \/ \E m \in Modes : read(m)
           \/ \E b \in Batch, expected \in SUBSET Batch : append_replay(b, expected)
  <2>1. /\ UNCHANGED <<man, jrn, manD, jrnD, base, cur, pc>> /\ jrn = {}
        /\ observed' \subseteq observed \cup man /\ pc \in {"idle", "held"}
    <3>1. CASE \E m \in Modes : read(m)
      BY Zenon, <3>1 DEF read, Residue
    <3>2. CASE \E b \in Batch, expected \in SUBSET Batch : append_replay(b, expected)
      BY Zenon, <3>2 DEF append_replay, Owners, SnapshotFresh, AtomicityInv, RecoveredClean
    <3> QED
      BY <1>3, <3>1, <3>2
  <2>2. Synced' /\ ObservedSynced' /\ RetiringSynced'
    BY <2>1, SyncedWhole DEF RefinementInv, Synced, ObservedSynced, RetiringSynced
  <2>3. CompatibleInv'
    BY <2>1, CompatibleKept DEF RefinementInv, Staging
  <2> QED
    BY <2>2, <2>3 DEF RefinementInv
<1>4. CASE \/ recover_locked \/ DropOperation \/ \E m \in Modes : begin_exclusive_operation(m)
           \/ \E b \in Batch, expected \in SUBSET Batch : append_refused(b, expected)
  <2>1. /\ UNCHANGED <<man, jrn, manD, jrnD, base, observed, cur>> /\ pc' \notin Staging \cup Retiring
    BY Zenon, <1>4 DEF recover_locked, DropOperation, begin_exclusive_operation, append_refused,
       Staging, Retiring
  <2> QED
    BY Zenon, <2>1, ListsUnchanged
<1> QED
  BY <1>1, <1>2, <1>3, <1>4 DEF Call, append

\* What the synced lists say holds of strict stores whose processes may fail at any step.
THEOREM RefinementInvariant ==
    ASSUME Modes \subseteq {"strict"}, "power" \notin Faults
    PROVE  Spec => []RefinementInv
<1>1. Init => RefinementInv
  BY DEF Init, RefinementInv, Synced, RetiringSynced, Retiring, CompatibleInv, Staging, ObservedSynced
<1>2. TypeOK /\ SnapshotFresh /\ AtomicityInv /\ RefinementInv /\ [Next]_vars => RefinementInv'
  <2> SUFFICES ASSUME TypeOK, SnapshotFresh, AtomicityInv, RefinementInv, [Next]_vars
               PROVE  RefinementInv'
    OBVIOUS
  <2>1. CASE Work
    BY <2>1, NeverAborts, StagingRefines, PublishRefines, RecoveryRefines DEF Work
  <2>2. CASE Call
    BY <2>2, CallRefines
  <2>3. CASE Kill \/ IoError \/ UNCHANGED vars
    <3>1. /\ UNCHANGED <<man, jrn, manD, jrnD, base, observed, cur>>
          /\ pc' \in {"idle", "held", pc}
      BY Zenon, <2>3 DEF Kill, IoError, vars, nowVars, diskVars, loopVars
    <3>2. (pc' \in Staging => pc \in Staging) /\ (pc' \in Retiring => pc \in Retiring)
      BY <3>1 DEF Staging, Retiring
    <3> QED
      BY Zenon, <3>1, <3>2, ListsUnchanged
  <2>4. ~PowerLoss
    BY Zenon DEF PowerLoss, FaultOf
  <2> QED
    BY <2>1, <2>2, <2>3, <2>4 DEF Next
<1> QED
  BY <1>1, <1>2, TypeCorrect, SnapshotsFresh, AtomicityInvariant, PTL DEF Spec

---------------------------------------------------------------------------
(* Every step is a step of AtomicJournal *)

\* Syncing the lists commits at most the batch of the one journal there is.
LEMMA SyncCommits ==
    ASSUME TypeOK, AtomicityInv, RefinementInv, UNCHANGED <<man, jrn, observed>>,
           manD' \in {manD, man}, jrnD' \in {jrnD, jrn}
    PROVE  [Journal!JournalNext]_(Journal!journalVars)
<1> DEFINE C == manD \cup jrnD
<1>1. CASE jrn = {}
  <2>1. (manD \cup jrnD)' = C
    BY <1>1 DEF RefinementInv, Synced
  <2> QED
    BY <2>1 DEF Journal!journalVars
<1>2. ASSUME NEW b \in jrn PROVE [Journal!JournalNext]_(Journal!journalVars)
  <2>0. Compatible(base[b] \cup {b})
    BY ZenonT(60) DEF RefinementInv, CompatibleInv
  <2>1. jrn = {b} /\ b \in Batch /\ man \ {b} = base[b]
    <3>1. \A a \in jrn : a = b
      BY Zenon DEF AtomicityInv, OneJournal
    <3>2. b \in Batch
      BY Zenon DEF TypeOK
    <3>3. man \ {b} = base[b]
      BY Zenon DEF AtomicityInv, JournalStaged
    <3> QED
      BY Zenon, <3>1, <3>2, <3>3
  <2>2. C \cup {b} = base[b] \cup {b}
    BY Zenon, <2>1 DEF RefinementInv, Synced
  <2>3. (manD \cup jrnD)' \in {C, C \cup {b}}
    BY <2>1 DEF RefinementInv, Synced
  <2>4. CASE (manD \cup jrnD)' = C
    BY <2>4 DEF Journal!journalVars
  <2>5. CASE b \notin C /\ (manD \cup jrnD)' = C \cup {b}
    <3>1. Compatible(C \cup {b})
      BY Zenon, <2>0, <2>2
    <3>2. Journal!Commit(b)
      BY Zenon, <2>5, <3>1 DEF Journal!Commit
    <3> QED
      BY Zenon, <2>1, <3>2 DEF Journal!JournalNext
  <2> QED
    BY <2>3, <2>4, <2>5
<1> QED
  BY <1>1, <1>2

\* A report of synced batches is an Observe of the abstract store.
LEMMA ReportObserves ==
    ASSUME TypeOK, NEW S \in SUBSET manD, observed' = observed \cup S,
           UNCHANGED <<manD, jrnD>>
    PROVE  Journal!JournalNext
<1>1. S \in SUBSET Batch /\ S \subseteq manD \cup jrnD
  BY DEF TypeOK
<1>2. Journal!Observe(S)
  BY Zenon, <1>1 DEF Journal!Observe
<1> QED
  BY Zenon, <1>1, <1>2 DEF Journal!JournalNext

\* The steps of the holder: only JournalPublished and ManifestPublished sync a list that
\* has something new, and only CommitScan reports.
LEMMA WorkRefines ==
    ASSUME TypeOK, AtomicityInv, RefinementInv, Work, ~ValidateAborts
    PROVE  [Journal!JournalNext]_(Journal!journalVars)
<1> USE DEF Step, nowVars, diskVars, loopVars
<1>1. CASE JournalPublished \/ ManifestPublished \/ JournalRemoved
  <2>1. UNCHANGED <<man, jrn, observed>> /\ manD' \in {manD, man} /\ jrnD' \in {jrnD, jrn}
    BY Zenon, <1>1 DEF JournalPublished, ManifestPublished, JournalRemoved
  <2> QED
    BY Zenon, <2>1, SyncCommits
<1>2. CASE CommitScan
  <2>1. UNCHANGED <<manD, jrnD>> /\ cur \in manD
    BY Zenon, <1>2 DEF CommitScan, RefinementInv, RetiringSynced, Retiring
  <2>2. observed' = observed \/ observed' = observed \cup {cur}
    BY Zenon, <1>2 DEF CommitScan
  <2>3. CASE observed' = observed
    BY Zenon, <2>1, <2>3 DEF Journal!journalVars
  <2>4. CASE observed' = observed \cup {cur}
    BY Zenon, <2>1, <2>4, ReportObserves
  <2> QED
    BY <2>2, <2>3, <2>4
<1>3. CASE ~JournalPublished /\ ~ManifestPublished /\ ~JournalRemoved /\ ~CommitScan
  <2>1. ~AbortSynced
    BY Zenon DEF AbortSynced, AtomicityInv, RetiredInv
  <2>2. CASE stage_batch
    BY Zenon, <1>3, <2>2 DEF stage_batch, StageStep, StageDirectory, StageRecordsDirectory,
       RecordFile, StageRecords, ManifestFile, StageManifest, JournalFile, StageJournal,
       JournalLink, Journal!journalVars
  <2>3. CASE recover_one
    BY Zenon, <1>3, <2>1, <2>3 DEF recover_one, ValidateAccepts, ValidateRefuses, EnsureDir, SyncDir,
       LinkRecord, RecordPublished, LinkManifest, RemoveJournal, StageRemoved, AbortReturns,
       Journal!journalVars
  <2>4. CASE remove_tree \/ NextJournal \/ clean_unprepared_stages \/ StagesCleaned \/ RecoveryScan
    BY Zenon, <2>4 DEF remove_tree, RemoveEntry, NextJournal, clean_unprepared_stages,
       StagesCleaned, RecoveryScan, Journal!journalVars
  <2> QED
    BY <1>3, <2>2, <2>3, <2>4 DEF Work
<1> QED
  BY <1>1, <1>2, <1>3

\* Calls: Store::open may sync a journal or a manifest that a dead process left, a read
\* or a replay reports a tree whose manifests are all synced.
LEMMA CallsRefine ==
    ASSUME TypeOK, SnapshotFresh, AtomicityInv, RefinementInv, Call
    PROVE  [Journal!JournalNext]_(Journal!journalVars)
<1> USE DEF nowVars, diskVars, loopVars
<1>1. CASE open_from_root
  <2>1. UNCHANGED <<man, jrn, observed>> /\ manD' \in {manD, man} /\ jrnD' \in {jrnD, jrn}
    BY Zenon, <1>1 DEF open_from_root
  <2> QED
    BY Zenon, <2>1, SyncCommits
<1>2. ASSUME NEW m \in Modes, read(m) PROVE [Journal!JournalNext]_(Journal!journalVars)
  <2>1. UNCHANGED <<manD, jrnD>> /\ observed' = observed \cup man /\ jrn = {}
    BY Zenon, <1>2 DEF read, Residue
  <2>2. man \in SUBSET manD
    BY <2>1, SyncedWhole DEF RefinementInv
  <2> QED
    BY Zenon, <2>1, <2>2, ReportObserves
<1>3. ASSUME NEW b \in Batch, NEW expected \in SUBSET Batch, append_replay(b, expected)
      PROVE  [Journal!JournalNext]_(Journal!journalVars)
  <2>1. /\ UNCHANGED <<manD, jrnD>> /\ observed' = observed \cup Owners(b) /\ jrn = {}
        /\ Owners(b) \subseteq man
    BY Zenon, <1>3 DEF append_replay, Owners, SnapshotFresh, AtomicityInv, RecoveredClean
  <2>2. Owners(b) \in SUBSET manD
    BY <2>1, SyncedWhole DEF RefinementInv
  <2> QED
    BY Zenon, <2>1, <2>2, ReportObserves
<1>4. CASE \/ recover_locked \/ DropOperation \/ \E m \in Modes : begin_exclusive_operation(m)
           \/ \E b \in Batch, expected \in SUBSET Batch :
                 append_refused(b, expected) \/ append_publish(b, expected)
  BY Zenon, <1>4 DEF recover_locked, DropOperation, begin_exclusive_operation, append_refused,
     append_publish, Journal!journalVars
<1> QED
  BY <1>1, <1>2, <1>3, <1>4 DEF Call, append

\* A strict store whose processes may be killed or fail at any step implements the atomic
\* journal: each batch enters whole, when its journal or its manifest is synced, forms a
\* valid store with those before it, never leaves, and is reported only once it is in.
THEOREM StoreImplementsAtomicJournal ==
    ASSUME Modes \subseteq {"strict"}, "power" \notin Faults
    PROVE  Spec => ImplementsAtomicJournal
<1>1. Init => Journal!JournalInit
  BY DEF Init, Journal!JournalInit
<1>2. TypeOK /\ SnapshotFresh /\ AtomicityInv /\ RefinementInv /\ [Next]_vars
        => [Journal!JournalNext]_(Journal!journalVars)
  <2> SUFFICES ASSUME TypeOK, SnapshotFresh, AtomicityInv, RefinementInv, [Next]_vars
               PROVE  [Journal!JournalNext]_(Journal!journalVars)
    OBVIOUS
  <2>1. CASE Work
    BY <2>1, NeverAborts, WorkRefines
  <2>2. CASE Call
    BY <2>2, CallsRefine
  <2>3. CASE Kill \/ IoError \/ UNCHANGED vars
    BY Zenon, <2>3 DEF Kill, IoError, vars, nowVars, diskVars, loopVars, Journal!journalVars
  <2>4. ~PowerLoss
    BY Zenon DEF PowerLoss, FaultOf
  <2> QED
    BY <2>1, <2>2, <2>3, <2>4 DEF Next
<1> QED
  BY <1>1, <1>2, TypeCorrect, SnapshotsFresh, AtomicityInvariant, RefinementInvariant, PTL
     DEF Spec, ImplementsAtomicJournal, Journal!JournalSpec

\* What an append reported or a read returned stays visible with all its records,
\* wherever the processes of a strict store are killed or fail.
THEOREM ReportedStays ==
    ASSUME Modes \subseteq {"strict"}, "power" \notin Faults
    PROVE  Spec => []ObservedStays
<1>1. AtomicityInv /\ RefinementInv => ObservedStays
  BY DEF AtomicityInv, Complete, RefinementInv, Synced, ObservedSynced, ObservedStays
<1> QED
  BY <1>1, AtomicityInvariant, RefinementInvariant, PTL
=============================================================================
