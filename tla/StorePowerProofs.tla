--------------------------- MODULE StorePowerProofs ---------------------------
(* Proofs about strict stores that lose power any number of times: what the  *)
(* fsync order of stage_batch, recover_one and ensure_synced guarantees when *)
(* any part of the unsynced directory entries is lost.  Between two power    *)
(* losses no process dies and no system call fails (see the README for what  *)
(* the two kinds of fault do together).                                      *)
EXTENDS StoreTransactionProofs

---------------------------------------------------------------------------
(* What is on disk at each step *)

\* A directory is synced before anything is linked into it (ensure_synced).
DirInv ==
    /\ dirD \subseteq dir
    /\ \A e \in dir : e \in dirD \/ (pc = "SyncDir" /\ e = Home[rec])
    /\ pc = "SyncDir" => Home[rec] \in dir
    /\ pc \in {"LinkRecord", "RecordPublished"} => Home[rec] \in dirD

\* Only the record just linked is not synced, and a synced manifest has its records.
RecordInv ==
    /\ \A r \in Record : vis[r] = visD[r] \/ (pc = "RecordPublished" /\ r = rec /\ visD[r] = None)
    /\ \A r \in Record : vis[r] # None => Home[r] \in dirD
    /\ \A b \in manD : \A r \in Member[b] : visD[r] = b

ManifestInv == pc # "ManifestPublished" => man \subseteq manD

\* What recovery needs of a journal that a power loss leaves: a stage that is on disk
\* and the tree, beside its batch, on which it was staged.
Recoverable(b) ==
    /\ stg[b] = FullStage(b) /\ stgD[b] = FullStage(b)
    /\ man \ {b} = base[b] /\ \A r \in Member[b] : vis[r] \in {None, b}
    /\ FoldsValid(base[b]) /\ FoldsValid(base[b] \cup {b}) /\ Compatible(base[b] \cup {b})

\* A journal is in doubt only between its link or unlink and the sync of its directory.
Doubt == {"JournalPublished", "JournalRemoved"}
JournalInv ==
    /\ pc \notin Doubt => jrnD = jrn
    /\ pc \in Doubt => jrnD \subseteq {cur}
    /\ pc = "JournalPublished" => \A r \in Record : vis[r] # cur
    /\ \A b \in jrn \cup jrnD : Recoverable(b)

\* How much of the stage stage_batch has synced.
StageInv ==
    /\ pc = "StageRecordsDirectory" => stgD[cur] = {"stage"}
    /\ pc = "RecordFile" => stgD[cur] = {"stage", "records"}
    /\ pc \in {"ManifestFile", "StageManifest"} => stgD[cur] = {"stage", "records"} \cup Member[cur]
    /\ pc \in {"JournalFile", "StageJournal"} =>
         stgD[cur] = {"stage", "records", "manifest"} \cup Member[cur]
    /\ pc = "JournalLink" => stgD[cur] = FullStage(cur)

\* A recovered operation has no stage on disk, an append at most its own.
Appending == Staging \cup Publishing \cup {"Validate", "JournalRemoved", "RemoveStage"}
NoStage(S) == \A b \in S : stg[b] = {} /\ stgD[b] = {}
CleanInv ==
    /\ (pc = "held" /\ handle = "recovered") => NoStage(Batch)
    /\ pc \in {"Recovered", "Committed", "StageDirectory"} => NoStage(Batch)
    /\ pc \in Staging \cup {"JournalPublished"} => flow = "append"
    /\ pc \in {"journals", "CleanStages"} => flow = "recover"
    /\ pc \in Appending /\ flow = "append" => NoStage(Batch \ {cur})

DiskInv == DirInv /\ RecordInv /\ ManifestInv /\ JournalInv /\ StageInv /\ CleanInv

---------------------------------------------------------------------------
(* The steps of an operation keep DiskInv *)

\* The steps that touch records and their directories, and the rest.
Linking == {"SyncDir", "LinkRecord", "RecordPublished"}

\* Only the steps of Linking change records and their directories.
LEMMA RecordFrame ==
    ASSUME Work \/ Call, ~open_from_root, ~SyncDir, ~LinkRecord, ~RecordPublished,
           ~\E r \in Record : EnsureDir(r)
    PROVE  UNCHANGED <<vis, visD, dir, dirD>> /\ pc \notin Linking /\ pc' \notin Linking
<1> USE DEF Step, nowVars, diskVars, loopVars, Linking
<1>1. CASE stage_batch
  BY Zenon, <1>1 DEF stage_batch, StageStep, StageDirectory, StageRecordsDirectory, RecordFile,
     StageRecords, ManifestFile, StageManifest, JournalFile, StageJournal, JournalLink,
     JournalPublished
<1>2. CASE recover_one
  BY Zenon, <1>2 DEF recover_one, ValidateAccepts, ValidateRefuses, ValidateAborts, AbortSynced,
     LinkManifest, ManifestPublished, RemoveJournal, JournalRemoved, StageRemoved, AbortReturns
<1>3. CASE remove_tree \/ NextJournal \/ clean_unprepared_stages \/ StagesCleaned
           \/ RecoveryScan \/ CommitScan
  BY Zenon, <1>3 DEF remove_tree, RemoveEntry, NextJournal, clean_unprepared_stages, StagesCleaned,
     RecoveryScan, CommitScan
<1>4. CASE Call
  BY Zenon, <1>4 DEF Call, read, begin_exclusive_operation, recover_locked, DropOperation, append,
     append_replay, append_refused, append_publish
<1> QED
  BY <1>1, <1>2, <1>3, <1>4 DEF Work

\* Directories are synced before they are used.
LEMMA DirKept == ASSUME TypeOK, DirInv, Work \/ Call PROVE DirInv'
<1> USE DEF Step, nowVars, diskVars, loopVars
<1>1. ASSUME NEW r \in Record, EnsureDir(r) PROVE DirInv'
  <2>1. dir' = dir \cup {Home[r]} /\ rec' = r /\ dirD' = dirD /\ pc = "Publish"
    BY Zenon, <1>1 DEF EnsureDir
  <2>2. dir \subseteq dirD
    BY <2>1 DEF DirInv
  <2>3. pc' = IF Home[r] \in dir THEN "LinkRecord" ELSE "SyncDir"
    BY Zenon, <1>1 DEF EnsureDir
  <2> QED
    BY <2>1, <2>2, <2>3 DEF DirInv
<1>2. CASE SyncDir
  BY <1>2 DEF SyncDir, DirInv
<1>3. CASE LinkRecord \/ RecordPublished
  BY <1>3 DEF LinkRecord, RecordPublished, DirInv
<1>4. CASE open_from_root
  BY <1>4 DEF open_from_root, DirInv
<1>5. CASE UNCHANGED <<vis, visD, dir, dirD>> /\ pc \notin Linking /\ pc' \notin Linking
  BY <1>5 DEF DirInv, Linking
<1> QED
  BY <1>1, <1>2, <1>3, <1>4, <1>5, RecordFrame

\* The manifests change at LinkManifest alone, and their synced copy only then or at open.
LEMMA ManifestFrame ==
    ASSUME Work \/ Call, ~open_from_root, ~LinkManifest, ~ManifestPublished
    PROVE  UNCHANGED <<man, manD>> /\ pc # "ManifestPublished" /\ pc' # "ManifestPublished"
<1> USE DEF Step, nowVars, diskVars, loopVars
<1>1. CASE stage_batch
  BY Zenon, <1>1 DEF stage_batch, StageStep, StageDirectory, StageRecordsDirectory, RecordFile,
     StageRecords, ManifestFile, StageManifest, JournalFile, StageJournal, JournalLink,
     JournalPublished
<1>2. CASE recover_one
  BY Zenon, <1>2 DEF recover_one, ValidateAccepts, ValidateRefuses, ValidateAborts, AbortSynced,
     EnsureDir, SyncDir, LinkRecord, RecordPublished, RemoveJournal, JournalRemoved, StageRemoved,
     AbortReturns
<1>3. CASE remove_tree \/ NextJournal \/ clean_unprepared_stages \/ StagesCleaned
           \/ RecoveryScan \/ CommitScan
  BY Zenon, <1>3 DEF remove_tree, RemoveEntry, NextJournal, clean_unprepared_stages, StagesCleaned,
     RecoveryScan, CommitScan
<1>4. CASE Call
  BY Zenon, <1>4 DEF Call, read, begin_exclusive_operation, recover_locked, DropOperation, append,
     append_replay, append_refused, append_publish
<1> QED
  BY <1>1, <1>2, <1>3, <1>4 DEF Work

\* A manifest is unsynced only right after its link.
LEMMA ManifestKept == ASSUME ManifestInv, Work \/ Call PROVE ManifestInv'
<1> USE DEF Step, nowVars, diskVars, loopVars
<1>1. CASE open_from_root
  BY <1>1 DEF open_from_root, ManifestInv
<1>2. CASE LinkManifest \/ ManifestPublished
  BY <1>2 DEF LinkManifest, ManifestPublished, ManifestInv
<1>3. CASE UNCHANGED <<man, manD>> /\ pc # "ManifestPublished" /\ pc' # "ManifestPublished"
  BY <1>3 DEF ManifestInv
<1> QED
  BY <1>1, <1>2, <1>3, ManifestFrame

\* When manifests are synced, by recover_one or by Store::open, their records are.
LEMMA ManifestSyncs ==
    ASSUME TypeOK, Complete, ManifestInv, RecordInv, manD' = man, UNCHANGED visD
    PROVE  \A b \in manD' : \A r \in Member[b] : visD'[r] = b
<1>1. CASE man \subseteq manD
  BY <1>1 DEF RecordInv
<1>2. CASE pc = "ManifestPublished"
  <2> SUFFICES ASSUME NEW b \in man, NEW r \in Member[b] PROVE visD[r] = b
    OBVIOUS
  <2>1. r \in Record
    BY BatchAssumption DEF TypeOK
  <2> QED
    BY <1>2, <2>1 DEF Complete, RecordInv
<1> QED
  BY <1>1, <1>2 DEF ManifestInv

\* Records: linked, then synced with their directory, before their manifest is.
LEMMA RecordKept ==
    ASSUME TypeOK, AtomicityInv, DirInv, RecordInv, ManifestInv, Work \/ Call PROVE RecordInv'
<1> USE DEF Step, nowVars, diskVars, loopVars
<1>1. CASE LinkRecord
  <2>1. /\ UNCHANGED <<visD, dirD, manD, rec>> /\ vis' = [vis EXCEPT ![rec] = cur]
        /\ vis[rec] \in {None, cur} /\ Home[rec] \in dirD
        /\ pc = "LinkRecord" /\ pc' = "RecordPublished"
    BY <1>1 DEF LinkRecord, DirInv
  <2>2. \A r \in Record : vis[r] = visD[r]
    BY <2>1 DEF RecordInv
  <2>3. \A r \in Record : vis'[r] = IF r = rec THEN cur ELSE vis[r]
    BY <2>1 DEF TypeOK
  <2> QED
    BY <2>1, <2>2, <2>3 DEF RecordInv
<1>2. CASE RecordPublished
  <2>1. /\ UNCHANGED <<vis, dirD, manD>>
        /\ \A r \in Record : visD'[r] = IF Home[r] = Home[rec] THEN vis[r] ELSE visD[r]
    BY <1>2 DEF RecordPublished
  <2>2. \A r \in Record : visD'[r] = vis[r]
    BY <2>1 DEF RecordInv
  <2>3. \A b \in manD : \A r \in Member[b] : visD'[r] = b
    <3> SUFFICES ASSUME NEW b \in manD, NEW r \in Member[b] PROVE visD'[r] = b
      OBVIOUS
    <3>1. r \in Record /\ b # None
      BY BatchAssumption DEF TypeOK
    <3> QED
      BY <2>2, <3>1 DEF RecordInv
  <2> QED
    BY <2>1, <2>2, <2>3 DEF RecordInv
<1>3. CASE SyncDir
  BY <1>3 DEF SyncDir, RecordInv
<1>4. ASSUME NEW r \in Record, EnsureDir(r) PROVE RecordInv'
  BY <1>4 DEF EnsureDir, RecordInv
<1>5. CASE open_from_root
  <2>1. UNCHANGED <<vis, visD, dirD, pc, rec>> /\ manD' = man
    BY Zenon, <1>5 DEF open_from_root
  <2>2. \A b \in manD' : \A r \in Member[b] : visD'[r] = b
    BY <2>1, ManifestSyncs DEF AtomicityInv
  <2> QED
    BY <2>1, <2>2 DEF RecordInv
<1>6. CASE UNCHANGED <<vis, visD, dir, dirD>> /\ pc \notin Linking /\ ~open_from_root
  <2>1. manD' = manD \/ (manD' = man /\ UNCHANGED visD)
    <3>1. CASE LinkManifest \/ ManifestPublished
      BY Zenon, <1>6, <3>1 DEF LinkManifest, ManifestPublished
    <3> QED
      BY <1>6, <3>1, ManifestFrame
  <2>2. \A b \in manD' : \A r \in Member[b] : visD'[r] = b
    BY <1>6, <2>1, ManifestSyncs DEF AtomicityInv, RecordInv
  <2> QED
    BY <1>6, <2>2 DEF RecordInv, Linking
<1> QED
  BY <1>1, <1>2, <1>3, <1>4, <1>5, <1>6, RecordFrame

\* A journal whose files and tree do not change stays recoverable.
LEMMA RecoverableKept ==
    ASSUME NEW b, Recoverable(b), UNCHANGED <<vis, man, stg, stgD, base>> PROVE Recoverable(b)'
BY DEF Recoverable, FullStage, Compatible, IdempotencyValid, IdentityValid, FoldsValid

\* The steps at which journals, or the stage or tree of a journal, do not change.
LEMMA JournalUnchanged ==
    ASSUME JournalInv, UNCHANGED <<vis, man, jrn, jrnD, stg, stgD, base>>,
           pc \notin Doubt, pc' \notin Doubt
    PROVE  JournalInv'
<1>1. \A b \in jrn \cup jrnD : Recoverable(b)'
  BY Zenon, RecoverableKept DEF JournalInv
<1> QED
  BY <1>1 DEF JournalInv, Doubt

\* Without journals there is nothing to recover.
LEMMA NoJournalKept ==
    ASSUME JournalInv, jrn = {}, pc \notin Doubt, UNCHANGED <<jrn, jrnD>>, pc' \notin Doubt
    PROVE  JournalInv'
BY DEF JournalInv, Doubt

\* Staging: the stage is synced as a whole before its journal is linked.
LEMMA StagingJournals ==
    ASSUME TypeOK, AtomicityInv, RefinementInv, JournalInv, StageInv, stage_batch
    PROVE  JournalInv'
<1> USE DEF nowVars, diskVars, loopVars
<1>1. CASE JournalLink
  <2>1. /\ UNCHANGED <<vis, man, stg, stgD, base, jrnD, cur>> /\ jrn' = jrn \cup {cur}
        /\ pc = "JournalLink" /\ pc' = "JournalPublished"
    BY Zenon, <1>1 DEF JournalLink
  <2>2. /\ jrn = {} /\ cur \notin man /\ base[cur] = man /\ \A r \in Member[cur] : vis[r] = None
        /\ FoldsValid(man) /\ FoldsValid(man \cup {cur}) /\ stg[cur] = FullStage(cur)
    BY <2>1 DEF AtomicityInv, StagingInv, StagedSoFar, Staging
  <2>3. Compatible(man \cup {cur})
    BY <2>1 DEF RefinementInv, CompatibleInv, Staging
  <2>4. jrnD = {} /\ stgD[cur] = FullStage(cur)
    BY <2>1, <2>2 DEF JournalInv, Doubt, StageInv
  <2>5. man \ {cur} = base[cur]
    BY <2>2
  <2>6. Recoverable(cur)
    BY ZenonT(60), <2>2, <2>3, <2>4, <2>5 DEF Recoverable
  <2>7. Recoverable(cur)'
    BY <2>1, <2>6 DEF Recoverable, FullStage, Compatible, IdempotencyValid, IdentityValid, FoldsValid
  <2>8. \A r \in Record : vis[r] # cur
    BY <2>2, BatchAssumption DEF AtomicityInv, Owned, TypeOK
  <2> QED
    BY <2>1, <2>2, <2>4, <2>7, <2>8 DEF JournalInv, Doubt
<1>2. CASE JournalPublished
  <2>1. /\ UNCHANGED <<vis, man, jrn, stg, stgD, base, cur>> /\ jrnD' = jrn
        /\ pc = "JournalPublished" /\ pc' = "Validate"
    BY Zenon, <1>2 DEF JournalPublished
  <2>2. \A b \in jrn : Recoverable(b)'
    BY Zenon, <2>1, RecoverableKept DEF JournalInv
  <2> QED
    BY <2>1, <2>2 DEF JournalInv, Doubt
<1>3. CASE ~JournalLink /\ ~JournalPublished
  <2>1. UNCHANGED <<jrn, jrnD>> /\ pc \in Staging /\ pc' \in Staging
    BY Zenon, <1>3 DEF stage_batch, StageStep, StageDirectory, StageRecordsDirectory, RecordFile,
       StageRecords, ManifestFile, StageManifest, JournalFile, StageJournal, Staging
  <2>2. jrn = {} /\ pc \notin Doubt /\ pc' \notin Doubt
    BY <2>1 DEF AtomicityInv, StagingInv, Staging, Doubt
  <2> QED
    BY <2>1, <2>2, NoJournalKept
<1> QED
  BY <1>1, <1>2, <1>3

\* recover_one: the journal stays recoverable until its removal is synced.
LEMMA PublishingJournals ==
    ASSUME TypeOK, AtomicityInv, JournalInv, recover_one, ~ValidateAborts PROVE JournalInv'
<1> USE DEF Step, nowVars, diskVars, loopVars
<1>1. CASE LinkRecord
  <2>1. /\ UNCHANGED <<man, jrn, jrnD, stg, stgD, base, cur>> /\ vis' = [vis EXCEPT ![rec] = cur]
        /\ pc = "LinkRecord" /\ pc' = "RecordPublished"
    BY Zenon, <1>1 DEF LinkRecord
  <2>2. jrn = {cur} /\ jrnD = jrn
    BY <2>1 DEF AtomicityInv, PublishingInv, Publishing, OneJournal, JournalInv, Doubt
  <2>3. Recoverable(cur)
    BY <2>2 DEF JournalInv
  <2>4. \A r \in Member[cur] : vis'[r] \in {None, cur}
    BY SMTT(30), <2>1, <2>3, BatchAssumption DEF Recoverable, TypeOK
  <2>5. Recoverable(cur)'
    BY <2>1, <2>3, <2>4
       DEF Recoverable, FullStage, Compatible, IdempotencyValid, IdentityValid, FoldsValid
  <2> QED
    BY <2>1, <2>2, <2>5 DEF JournalInv, Doubt
<1>2. CASE LinkManifest
  <2>1. /\ UNCHANGED <<vis, jrn, jrnD, stg, stgD, base, cur>> /\ man' = man \cup {cur}
        /\ pc = "Publish" /\ pc' = "ManifestPublished"
    BY Zenon, <1>2 DEF LinkManifest
  <2>2. jrn = {cur} /\ jrnD = jrn
    BY <2>1 DEF AtomicityInv, PublishingInv, Publishing, OneJournal, JournalInv, Doubt
  <2>3. Recoverable(cur)
    BY <2>2 DEF JournalInv
  <2>4. man' \ {cur} = man \ {cur}
    BY ZenonT(60), <2>1
  <2>5. Recoverable(cur)'
    BY <2>1, <2>3, <2>4
       DEF Recoverable, FullStage, Compatible, IdempotencyValid, IdentityValid, FoldsValid
  <2> QED
    BY <2>1, <2>2, <2>5 DEF JournalInv, Doubt
<1>3. CASE RemoveJournal
  <2>1. /\ UNCHANGED <<vis, man, jrnD, stg, stgD, base, cur>> /\ jrn' = jrn \ {cur}
        /\ pc = "RemoveJournal" /\ pc' = "JournalRemoved"
    BY Zenon, <1>3 DEF RemoveJournal
  <2>2. jrn = {cur} /\ jrnD = jrn
    BY <2>1 DEF AtomicityInv, PublishingInv, Publishing, OneJournal, JournalInv, Doubt
  <2>3. \A b \in jrnD : Recoverable(b)'
    BY Zenon, <2>1, RecoverableKept DEF JournalInv
  <2> QED
    BY <2>1, <2>2, <2>3 DEF JournalInv, Doubt
<1>4. CASE JournalRemoved
  <2>1. jrn' = jrn /\ jrnD' = jrn /\ jrn = {} /\ pc' = "RemoveStage"
    BY Zenon, <1>4 DEF JournalRemoved, AtomicityInv, RetiredInv, Retired
  <2> QED
    BY <2>1 DEF JournalInv, Doubt
<1>5. CASE StageRemoved
  <2>1. UNCHANGED <<jrn, jrnD>> /\ jrn = {} /\ pc \notin Doubt /\ pc' \notin Doubt
    BY Zenon, <1>5 DEF StageRemoved, AtomicityInv, RetiredInv, Retired, Doubt
  <2> QED
    BY <2>1, NoJournalKept
<1>6. CASE ~LinkRecord /\ ~LinkManifest /\ ~RemoveJournal /\ ~JournalRemoved /\ ~StageRemoved
  <2>1. ~AbortSynced /\ ~AbortReturns
    BY Zenon DEF AbortSynced, AbortReturns, AtomicityInv, RetiredInv
  <2>2. /\ UNCHANGED <<vis, man, jrn, jrnD, stg, stgD, base>> /\ pc \notin Doubt /\ pc' \notin Doubt
    BY Zenon, <1>6, <2>1 DEF recover_one, ValidateAccepts, ValidateRefuses, EnsureDir, SyncDir,
       RecordPublished, ManifestPublished, Doubt
  <2> QED
    BY Zenon, <2>2, JournalUnchanged
<1> QED
  BY <1>1, <1>2, <1>3, <1>4, <1>5, <1>6

\* Recovery's loop and the calls: stages go only when there are no journals.
LEMMA CallJournals ==
    ASSUME TypeOK, AtomicityInv, JournalInv,
           \/ remove_tree \/ NextJournal \/ clean_unprepared_stages \/ StagesCleaned
           \/ RecoveryScan \/ CommitScan \/ Call
    PROVE  JournalInv'
<1> USE DEF Step, nowVars, diskVars, loopVars
<1>1. CASE remove_tree \/ StagesCleaned
  <2>1. UNCHANGED <<jrn, jrnD>> /\ pc \in {"RemoveStage", "CleanStages"} /\ pc' \notin Doubt
    BY Zenon, <1>1 DEF remove_tree, RemoveEntry, StagesCleaned, AtomicityInv, RetiredInv, Doubt
  <2>2. jrn = {} /\ pc \notin Doubt
    BY <2>1 DEF AtomicityInv, RetiredInv, Retired, Doubt
  <2> QED
    BY <2>1, <2>2, NoJournalKept
<1>2. CASE NextJournal \/ clean_unprepared_stages \/ RecoveryScan \/ CommitScan
  <2>1. UNCHANGED <<vis, man, jrn, jrnD, stg, stgD, base>> /\ pc \notin Doubt /\ pc' \notin Doubt
    BY Zenon, <1>2 DEF NextJournal, clean_unprepared_stages, RecoveryScan, CommitScan, Doubt
  <2> QED
    BY Zenon, <2>1, JournalUnchanged
<1>3. CASE open_from_root
  <2>1. /\ UNCHANGED <<vis, man, jrn, stg, base, pc, cur>> /\ jrnD' = jrn
        /\ stgD' = [b \in Batch |-> IF stg[b] = {} THEN {} ELSE stgD[b] \cup {"stage"}]
    BY Zenon, <1>3 DEF open_from_root
  <2>2. jrn \subseteq {cur} \/ pc \notin Doubt
    BY ZenonT(60) DEF AtomicityInv, PublishingInv, Publishing, OneJournal, RetiredInv, Retired, Doubt
  <2>3. ASSUME NEW b \in jrn PROVE Recoverable(b)'
    <3>1. Recoverable(b) /\ b \in Batch
      BY Zenon DEF JournalInv, TypeOK
    <3>2. stgD'[b] = FullStage(b)
      BY <2>1, <3>1 DEF Recoverable, FullStage
    <3> QED
      BY <2>1, <3>1, <3>2
         DEF Recoverable, FullStage, Compatible, IdempotencyValid, IdentityValid, FoldsValid
  <2> QED
    BY <2>1, <2>2, <2>3 DEF JournalInv
<1>4. ASSUME NEW b \in Batch, NEW expected \in SUBSET Batch, append_publish(b, expected)
      PROVE  JournalInv'
  <2>1. UNCHANGED <<jrn, jrnD>> /\ jrn = {} /\ pc \notin Doubt /\ pc' \notin Doubt
    BY Zenon, <1>4 DEF append_publish, AtomicityInv, RecoveredClean, Doubt
  <2> QED
    BY <2>1, NoJournalKept
<1>5. CASE \/ recover_locked \/ DropOperation
           \/ \E m \in Modes : read(m) \/ begin_exclusive_operation(m)
           \/ \E b \in Batch, expected \in SUBSET Batch :
                 append_replay(b, expected) \/ append_refused(b, expected)
  <2>1. UNCHANGED <<vis, man, jrn, jrnD, stg, stgD, base>> /\ pc \notin Doubt /\ pc' \notin Doubt
    BY Zenon, <1>5 DEF recover_locked, DropOperation, read, begin_exclusive_operation,
       append_replay, append_refused, Doubt
  <2> QED
    BY Zenon, <2>1, JournalUnchanged
<1> QED
  BY <1>1, <1>2, <1>3, <1>4, <1>5 DEF Call, append

\* What a step of stage_batch leaves of the stages.
LEMMA StageStepEntries ==
    ASSUME TypeOK, NEW from, NEW to, NEW created, NEW synced, StageStep(from, to, created, synced)
    PROVE  /\ pc = from /\ pc' = to /\ UNCHANGED <<cur, flow, handle>>
           /\ stg'[cur] = stg[cur] \cup created
           /\ stgD'[cur] = stgD[cur] \cup ((stg[cur] \cup created) \cap synced)
           /\ \A b \in Batch \ {cur} : stg'[b] = stg[b] /\ stgD'[b] = stgD[b]
BY DEF TypeOK, StageStep, Stage, SyncStage, loopVars

\* The syncs of stage_batch, one after the other.
LEMMA StagingStages ==
    ASSUME TypeOK, AtomicityInv, StageInv, CleanInv, stage_batch, ~JournalLink, ~JournalPublished
    PROVE  StageInv'
<1> USE BatchAssumption DEF AtomicityInv, StagedSoFar, StageInv
<1>1. CASE StageDirectory
  <2>1. stgD[cur] = {} /\ stg[cur] = {}
    BY Zenon, <1>1 DEF StageDirectory, StageStep, CleanInv, NoStage, TypeOK
  <2>2. pc' = "StageRecordsDirectory" /\ cur' = cur /\ stgD'[cur] = {"stage"}
    BY SMTT(30), <1>1, <2>1, StageStepEntries DEF StageDirectory
  <2> QED
    BY Zenon, <2>2
<1>2. CASE StageRecordsDirectory
  <2>1. /\ pc = "StageRecordsDirectory" /\ pc' = "RecordFile" /\ cur' = cur
        /\ stgD'[cur] = stgD[cur] \cup ((stg[cur] \cup {"records"}) \cap {"records"})
    BY ZenonT(60), <1>2, StageStepEntries DEF StageRecordsDirectory
  <2> QED
    BY <2>1
<1>3. CASE RecordFile
  <2>1. PICK r \in Member[cur] \ stg[cur] : StageStep("RecordFile", "RecordFile", {r}, {})
    BY Zenon, <1>3 DEF RecordFile
  <2>2. /\ pc = "RecordFile" /\ pc' = "RecordFile" /\ cur' = cur
        /\ stgD'[cur] = stgD[cur] \cup ((stg[cur] \cup {r}) \cap {})
    BY Zenon, <2>1, StageStepEntries
  <2> QED
    BY <2>2
<1>4. CASE StageRecords
  <2>1. /\ pc = "RecordFile" /\ pc' = "ManifestFile" /\ cur' = cur /\ Member[cur] \subseteq stg[cur]
        /\ stgD'[cur] = stgD[cur] \cup ((stg[cur] \cup {}) \cap Record)
    BY ZenonT(60), <1>4, StageStepEntries DEF StageRecords
  <2>2. Member[cur] \subseteq Record
    BY Zenon DEF TypeOK
  <2>3. stgD'[cur] = {"stage", "records"} \cup Member[cur]
    BY ZenonT(60), <2>1, <2>2
  <2> QED
    BY <2>1, <2>3
<1>5. CASE ManifestFile
  <2>1. /\ pc = "ManifestFile" /\ pc' = "StageManifest" /\ cur' = cur
        /\ stgD'[cur] = stgD[cur] \cup ((stg[cur] \cup {"manifest"}) \cap {})
    BY Zenon, <1>5, StageStepEntries DEF ManifestFile
  <2> QED
    BY <2>1
<1>6. CASE StageManifest
  <2> DEFINE synced == {"records", "manifest", "journal"}
  <2>1. StageStep("StageManifest", "JournalFile", {}, synced)
    BY Zenon, <1>6 DEF StageManifest
  <2> HIDE DEF synced
  <2>2. /\ pc = "StageManifest" /\ pc' = "JournalFile" /\ cur' = cur
        /\ stgD'[cur] = stgD[cur] \cup ((stg[cur] \cup {}) \cap synced)
    BY Zenon, <2>1, StageStepEntries
  <2>3. stgD'[cur] = {"stage", "records", "manifest"} \cup Member[cur]
    BY <2>2 DEF synced
  <2> QED
    BY <2>2, <2>3
<1>7. CASE JournalFile
  <2>1. /\ pc = "JournalFile" /\ pc' = "StageJournal" /\ cur' = cur
        /\ stgD'[cur] = stgD[cur] \cup ((stg[cur] \cup {"journal"}) \cap {})
    BY Zenon, <1>7, StageStepEntries DEF JournalFile
  <2> QED
    BY <2>1
<1>8. CASE StageJournal
  <2> DEFINE synced == {"records", "manifest", "journal"}
  <2>1. StageStep("StageJournal", "JournalLink", {}, synced)
    BY Zenon, <1>8 DEF StageJournal
  <2> HIDE DEF synced
  <2>2. /\ pc = "StageJournal" /\ pc' = "JournalLink" /\ cur' = cur
        /\ stgD'[cur] = stgD[cur] \cup ((stg[cur] \cup {}) \cap synced)
    BY Zenon, <2>1, StageStepEntries
  <2>3. stgD'[cur] = FullStage(cur)
    BY <2>2 DEF synced, FullStage
  <2> QED
    BY <2>2, <2>3 DEF FullStage
<1> QED
  BY ZenonT(60), <1>1, <1>2, <1>3, <1>4, <1>5, <1>6, <1>7, <1>8 DEF stage_batch

\* Other stages stay empty while a batch is staged.
LEMMA StagingClean ==
    ASSUME TypeOK, CleanInv, stage_batch PROVE CleanInv'
<1>1. CASE ~JournalLink /\ ~JournalPublished
  <2>1. /\ \A b \in Batch \ {cur} : stg'[b] = stg[b] /\ stgD'[b] = stgD[b]
        /\ UNCHANGED <<cur, flow>> /\ pc \in Staging /\ pc' \in Staging \ {"StageDirectory"}
    <3>1. /\ pc \in Staging /\ pc' \in Staging \ {"StageDirectory"}
          /\ \E created, synced : StageStep(pc, pc', created, synced)
      BY Zenon, <1>1
         DEF stage_batch, StageStep, StageDirectory, StageRecordsDirectory, RecordFile,
             StageRecords, ManifestFile, StageManifest, JournalFile, StageJournal, Staging
    <3> QED
      BY Zenon, <3>1, StageStepEntries
  <2>2. flow = "append" /\ NoStage(Batch \ {cur})
    BY <2>1 DEF CleanInv, Appending
  <2>3. NoStage(Batch \ {cur})'
    BY <2>1, <2>2 DEF NoStage
  <2> QED
    BY <2>1, <2>2, <2>3 DEF CleanInv, Appending, Staging
<1>2. CASE JournalLink \/ JournalPublished
  <2>1. UNCHANGED <<stg, stgD, cur, flow>>
    BY Zenon, <1>2 DEF JournalLink, JournalPublished, nowVars, diskVars, loopVars
  <2>2. pc \in Staging \cup {"JournalPublished"} /\ pc' \in {"JournalPublished", "Validate"}
    BY Zenon, <1>2 DEF JournalLink, JournalPublished, Staging
  <2>3. flow = "append" /\ NoStage(Batch \ {cur})
    BY <2>2 DEF CleanInv, Appending, Publishing
  <2>4. NoStage(Batch \ {cur})'
    BY <2>1, <2>3 DEF NoStage
  <2> QED
    BY <2>1, <2>2, <2>3, <2>4 DEF CleanInv, Staging
<1> QED
  BY <1>1, <1>2

\* A step out of staging that leaves the stages alone.
LEMMA StagesUnchanged ==
    ASSUME CleanInv, UNCHANGED <<stg, stgD, cur, flow>>,
           pc \in Appending, pc' \in Appending \ (Staging \cup {"JournalPublished"})
    PROVE  CleanInv'
<1>1. NoStage(Batch \ {cur}) => NoStage(Batch \ {cur})'
  BY DEF NoStage
<1> QED
  BY <1>1 DEF CleanInv, Appending, Staging, Publishing

\* recover_one touches no stage but that of its batch.
LEMMA PublishingClean ==
    ASSUME TypeOK, AtomicityInv, CleanInv, recover_one, ~ValidateAborts PROVE CleanInv'
<1> USE DEF Step, nowVars, diskVars, loopVars
<1>1. CASE StageRemoved
  <2>1. /\ UNCHANGED <<stg, cur, flow>> /\ stg[cur] = {} /\ pc = "RemoveStage"
        /\ pc' = IF flow = "append" THEN "Committed" ELSE "journals"
        /\ stgD' = [b \in Batch |-> IF stg[b] = {} THEN {} ELSE stgD[b]]
    BY Zenon, <1>1 DEF StageRemoved, SyncStages
  <2>2. flow = "append" => NoStage(Batch)'
    BY <2>1 DEF CleanInv, NoStage, Appending
  <2> QED
    BY <2>1, <2>2 DEF CleanInv, TypeOK, Appending, Staging, Publishing
<1>2. CASE ValidateRefuses
  <2>1. pc' = "held" /\ handle' # "recovered"
    BY Zenon, <1>2 DEF ValidateRefuses, ErrorReturn
  <2> QED
    BY <2>1 DEF CleanInv, Appending, Staging, Publishing
<1>3. CASE ~StageRemoved /\ ~ValidateRefuses
  <2>1. ~AbortSynced /\ ~AbortReturns
    BY Zenon DEF AbortSynced, AbortReturns, AtomicityInv, RetiredInv
  <2>2. /\ UNCHANGED <<stg, stgD, cur, flow>>
        /\ pc \in Appending /\ pc' \in Appending \ (Staging \cup {"JournalPublished"})
    BY Zenon, <1>3, <2>1 DEF recover_one, ValidateAccepts, EnsureDir, SyncDir, LinkRecord,
       RecordPublished, LinkManifest, ManifestPublished, RemoveJournal, JournalRemoved,
       Appending, Staging, Publishing
  <2> QED
    BY Zenon, <2>2, StagesUnchanged
<1> QED
  BY Zenon, <1>1, <1>2, <1>3

\* Recovery removes every stage and syncs their removal before it hands out a snapshot.
LEMMA RecoveryClean ==
    ASSUME TypeOK, AtomicityInv, CleanInv,
           remove_tree \/ NextJournal \/ clean_unprepared_stages \/ StagesCleaned
           \/ RecoveryScan \/ CommitScan
    PROVE  CleanInv'
<1> USE DEF Step, nowVars, diskVars, loopVars
<1>1. ASSUME NEW e \in StageEntry, pc = "RemoveStage", pc' = "RemoveStage", RemoveEntry(cur, e)
      PROVE  CleanInv'
  <2>1. UNCHANGED <<cur, flow>> /\ \A b \in Batch \ {cur} : stg'[b] = stg[b] /\ stgD'[b] = stgD[b]
    BY <1>1 DEF RemoveEntry, TypeOK
  <2> QED
    BY ZenonT(60), <1>1, <2>1 DEF CleanInv, NoStage, Appending, Staging, Publishing
<1>2. CASE pc = "CleanStages" /\ pc' = "CleanStages" /\ UNCHANGED flow
  BY <1>2 DEF CleanInv, Appending, Staging, Publishing
<1>3. CASE remove_tree
  <2>1. pc # "AbortStage"
    BY Zenon DEF AtomicityInv, RetiredInv
  <2> QED
    BY Zenon, <1>1, <1>2, <1>3, <2>1 DEF remove_tree, RemoveEntry
<1>4. CASE NextJournal \/ clean_unprepared_stages
  <2>1. pc = "journals" /\ pc' \in {"Validate", "CleanStages"} /\ flow' = flow
    BY Zenon, <1>4 DEF NextJournal, clean_unprepared_stages
  <2> QED
    BY <2>1 DEF CleanInv, Appending, Staging, Publishing
<1>5. CASE StagesCleaned
  <2>1. NoStage(Batch)' /\ pc' = "Recovered"
    BY <1>5 DEF StagesCleaned, SyncStages, NoStage
  <2> QED
    BY ZenonT(60), <2>1 DEF CleanInv, Appending, Staging, Publishing
<1>6. CASE RecoveryScan \/ CommitScan
  <2>1. UNCHANGED <<stg, stgD>> /\ pc \in {"Recovered", "Committed"} /\ pc' = "held"
    BY Zenon, <1>6 DEF RecoveryScan, CommitScan
  <2>2. NoStage(Batch)'
    BY <2>1 DEF CleanInv, NoStage
  <2> QED
    BY <2>1, <2>2 DEF CleanInv, Appending, Staging, Publishing
<1> QED
  BY Zenon, <1>3, <1>4, <1>5, <1>6

\* Store::open adds no stage; an append starts on a tree without stages.
LEMMA CallClean == ASSUME TypeOK, CleanInv, Call PROVE CleanInv'
<1> USE DEF nowVars, diskVars, loopVars
<1>1. CASE open_from_root
  <2>1. /\ UNCHANGED <<stg, cur, flow, pc, handle>>
        /\ stgD' = [b \in Batch |-> IF stg[b] = {} THEN {} ELSE stgD[b] \cup {"stage"}]
    BY Zenon, <1>1 DEF open_from_root
  <2>2. (NoStage(Batch) => NoStage(Batch)') /\ (NoStage(Batch \ {cur}) => NoStage(Batch \ {cur})')
    BY Zenon, <2>1 DEF NoStage
  <2> QED
    BY <2>1, <2>2 DEF CleanInv
<1>2. ASSUME NEW b \in Batch, NEW expected \in SUBSET Batch, append_publish(b, expected)
      PROVE  CleanInv'
  <2>1. /\ UNCHANGED <<stg, stgD>> /\ pc = "held" /\ handle = "recovered"
        /\ pc' = "StageDirectory" /\ flow' = "append"
    BY Zenon, <1>2 DEF append_publish
  <2>2. NoStage(Batch)'
    BY Zenon, <2>1 DEF CleanInv, NoStage
  <2> QED
    BY <2>1, <2>2 DEF CleanInv, NoStage
<1>3. CASE \/ \E m \in Modes : read(m)
           \/ \E b \in Batch, expected \in SUBSET Batch : append_replay(b, expected)
  <2>1. UNCHANGED <<stg, stgD, cur, flow, pc, handle>> /\ pc \in {"idle", "held"}
    BY Zenon, <1>3 DEF read, append_replay
  <2> QED
    BY <2>1 DEF CleanInv, NoStage
<1>4. CASE \/ DropOperation \/ \E m \in Modes : begin_exclusive_operation(m)
           \/ \E b \in Batch, expected \in SUBSET Batch : append_refused(b, expected)
  <2>1. pc' \in {"idle", "held"} /\ handle' # "recovered"
    BY Zenon, <1>4 DEF DropOperation, begin_exclusive_operation, append_refused
  <2> QED
    BY <2>1 DEF CleanInv, Appending, Staging, Publishing
<1>5. CASE recover_locked
  <2>1. pc' = "journals" /\ flow' = "recover"
    BY Zenon, <1>5 DEF recover_locked
  <2> QED
    BY <2>1 DEF CleanInv, Appending, Staging, Publishing
<1> QED
  BY Zenon, <1>1, <1>2, <1>3, <1>4, <1>5 DEF Call, append

\* Nothing but stage_batch is concerned with StageInv, and Store::open only syncs more.
LEMMA StageKept ==
    ASSUME TypeOK, AtomicityInv, StageInv, CleanInv, Work \/ Call PROVE StageInv'
<1> USE DEF Step, nowVars, diskVars, loopVars
<1>1. CASE stage_batch /\ ~JournalLink /\ ~JournalPublished
  BY <1>1, StagingStages
<1>2. CASE JournalLink \/ JournalPublished
  <2>1. pc' \in {"JournalPublished", "Validate"}
    BY Zenon, <1>2 DEF JournalLink, JournalPublished
  <2> QED
    BY <2>1 DEF StageInv
<1>3. CASE open_from_root
  <2>1. /\ UNCHANGED <<stg, cur, pc>>
        /\ stgD' = [b \in Batch |-> IF stg[b] = {} THEN {} ELSE stgD[b] \cup {"stage"}]
    BY Zenon, <1>3 DEF open_from_root
  <2>2. stgD'[cur] = IF stg[cur] = {} THEN {} ELSE stgD[cur] \cup {"stage"}
    BY <2>1 DEF TypeOK
  <2>3. pc \in Staging \ {"StageDirectory"} => "stage" \in stg[cur]
    BY DEF AtomicityInv, StagedSoFar, Staging, FullStage
  <2>4. pc \in Staging \ {"StageDirectory"} => stgD'[cur] = stgD[cur]
    BY <2>2, <2>3 DEF StageInv, Staging, FullStage
  <2> QED
    BY Zenon, <2>1, <2>4 DEF StageInv, Staging, FullStage
<1>4. CASE ~stage_batch /\ ~open_from_root
  <2>1. CASE recover_one
    <3>1. pc' \notin Staging
      BY Zenon, <2>1 DEF recover_one, ValidateAccepts, ValidateRefuses, ValidateAborts, AbortSynced,
         EnsureDir, SyncDir, LinkRecord, RecordPublished, LinkManifest, ManifestPublished,
         RemoveJournal, JournalRemoved, StageRemoved, AbortReturns, Staging
    <3> QED
      BY <3>1 DEF StageInv, Staging
  <2>2. CASE remove_tree \/ NextJournal \/ clean_unprepared_stages \/ StagesCleaned
             \/ RecoveryScan \/ CommitScan
    <3>1. pc' \notin Staging
      BY Zenon, <2>2 DEF remove_tree, NextJournal, clean_unprepared_stages, StagesCleaned,
         RecoveryScan, CommitScan, Staging
    <3> QED
      BY <3>1 DEF StageInv, Staging
  <2>3. CASE Call
    <3>1. pc' \notin Staging \ {"StageDirectory"}
      BY ZenonT(60), <1>4, <2>3 DEF Call, read, begin_exclusive_operation, recover_locked,
         DropOperation, append, append_replay, append_refused, append_publish, Staging
    <3> QED
      BY <3>1 DEF StageInv, Staging
  <2> QED
    BY Zenon, <1>4, <2>1, <2>2, <2>3 DEF Work
<1> QED
  BY <1>1, <1>2, <1>3, <1>4

\* Every step of an operation and every call keeps what is on disk in order.
LEMMA StepsKeepDisk ==
    ASSUME TypeOK, AtomicityInv, RefinementInv, DiskInv, Work \/ Call, ~ValidateAborts
    PROVE  DiskInv'
<1>1. DirInv' /\ RecordInv' /\ ManifestInv' /\ StageInv'
  BY Zenon, DirKept, RecordKept, ManifestKept, StageKept DEF DiskInv
<1>2. JournalInv'
  BY Zenon, StagingJournals, PublishingJournals, CallJournals DEF DiskInv, Work
<1>3. CleanInv'
  BY ZenonT(60), StagingClean, PublishingClean, RecoveryClean, CallClean DEF DiskInv, Work
<1> QED
  BY <1>1, <1>2, <1>3 DEF DiskInv

---------------------------------------------------------------------------
(* Power losses *)

\* What a power loss leaves of a store in which DiskInv holds: every synced manifest and
\* every record of a visible one; journals with their whole stages.
LEMMA LossKeeps ==
    ASSUME TypeOK, AtomicityInv, RefinementInv, DiskInv, PowerLoss
    PROVE  /\ manD \subseteq man' /\ man' \subseteq man
           /\ jrn \cap jrnD \subseteq jrn' /\ jrn' \subseteq jrn \cup jrnD
           /\ \A r \in Record : vis'[r] \in {None, vis[r]} /\ (vis'[r] # None => Home[r] \in dir')
           /\ \A r \in Record : visD[r] = vis[r] => vis'[r] = vis[r]
           /\ \A b \in jrn \cup jrnD : stg'[b] = FullStage(b)
<1>1. manD \subseteq man' /\ man' \subseteq man
  BY Zenon DEF PowerLoss, Torn, RefinementInv, Synced
<1>2. jrn \cap jrnD \subseteq jrn' /\ jrn' \subseteq jrn \cup jrnD
  BY ZenonT(60) DEF PowerLoss, Torn
<1>3. dirD \subseteq dir'
  BY DEF PowerLoss, Torn, DiskInv, DirInv
<1>4. PICK lost \in SUBSET {r \in Record : vis[r] # visD[r]} :
        vis' = [r \in Record |-> IF Home[r] \notin dir' THEN None
                                 ELSE IF r \in lost THEN visD[r] ELSE vis[r]]
  BY Zenon DEF PowerLoss
<1>5. \A r \in Record : vis'[r] = IF Home[r] \notin dir' THEN None
                                  ELSE IF r \in lost THEN visD[r] ELSE vis[r]
  BY Zenon, <1>4
<1>6. \A r \in Record : vis'[r] \in {None, vis[r]} /\ (vis'[r] # None => Home[r] \in dir')
  BY Zenon, <1>5 DEF DiskInv, RecordInv
<1>7. ASSUME NEW r \in Record, visD[r] = vis[r] PROVE vis'[r] = vis[r]
  <2>1. r \notin lost
    BY Zenon, <1>4, <1>7
  <2>2. vis[r] # None => Home[r] \in dir'
    BY Zenon, <1>3 DEF DiskInv, RecordInv
  <2> QED
    BY Zenon, <1>5, <2>1, <2>2
<1>8. ASSUME NEW b \in jrn \cup jrnD PROVE stg'[b] = FullStage(b)
  <2>1. b \in Batch /\ stg[b] = FullStage(b) /\ stgD[b] = FullStage(b)
    BY Zenon DEF TypeOK, DiskInv, JournalInv, Recoverable
  <2>2. PICK lost2 \in SUBSET Unsynced :
          stg' = [x \in Batch |-> Reachable({e \in stg[x] \cup stgD[x] : <<x, e>> \notin lost2})]
    BY ZenonT(60) DEF PowerLoss
  <2>3. stg'[b] = Reachable({e \in stg[b] \cup stgD[b] : <<b, e>> \notin lost2})
    BY <2>1, <2>2
  <2>4. \A e : <<b, e>> \in lost2 => e \notin FullStage(b)
    <3> SUFFICES ASSUME NEW e, <<b, e>> \in lost2, e \in FullStage(b) PROVE FALSE
      OBVIOUS
    <3>1. <<b, e>> \in Unsynced
      BY SMTT(30), <2>2
    <3>2. (e \in stg[b]) # (e \in stgD[b])
      BY <3>1 DEF Unsynced
    <3> QED
      BY <2>1, <3>2
  <2>5. {e \in stg[b] \cup stgD[b] : <<b, e>> \notin lost2} = FullStage(b)
    BY <2>1, <2>4
  <2>6. Reachable(FullStage(b)) = FullStage(b)
    BY DEF Reachable, FullStage
  <2> QED
    BY Zenon, <2>3, <2>5, <2>6
<1> QED
  BY Zenon, <1>1, <1>2, <1>6, <1>7, <1>8

\* Only the batch at work can have a journal or a manifest that is not synced.
LEMMA InDoubt ==
    ASSUME AtomicityInv, RefinementInv, DiskInv
    PROVE  /\ \A a, b \in jrn \cup jrnD : a = b
           /\ jrn \subseteq jrnD \/ (pc = "JournalPublished" /\ jrn = {cur})
           /\ jrnD \subseteq jrn \cup manD
           /\ man \subseteq manD \cup jrn /\ (man \subseteq manD \/ pc = "ManifestPublished")
<1>1. CASE pc \notin Doubt
  BY <1>1 DEF AtomicityInv, OneJournal, RefinementInv, Synced, DiskInv, JournalInv, ManifestInv
<1>2. CASE pc = "JournalPublished"
  <2>1. jrn = {cur} /\ jrnD \subseteq {cur}
    BY <1>2 DEF AtomicityInv, OneJournal, PublishingInv, Publishing, DiskInv, JournalInv, Doubt
  <2> QED
    BY <1>2, <2>1 DEF RefinementInv, Synced, DiskInv, ManifestInv
<1>3. CASE pc = "JournalRemoved"
  <2>1. jrn = {} /\ jrnD \subseteq {cur}
    BY Zenon, <1>3 DEF AtomicityInv, RetiredInv, Retired, DiskInv, JournalInv, Doubt
  <2> QED
    BY <1>3, <2>1 DEF RefinementInv, Synced, DiskInv, ManifestInv
<1> QED
  BY ZenonT(60), <1>1, <1>2, <1>3 DEF Doubt

\* A journal that a power loss leaves is recoverable on the tree that it leaves.
LEMMA LossRecoverable ==
    ASSUME TypeOK, AtomicityInv, RefinementInv, DiskInv, PowerLoss, NEW b \in jrn'
    PROVE  Recoverable(b)'
<1>1. b \in jrn \cup jrnD /\ b \in Batch
  BY LossKeeps DEF TypeOK
<1>2. Recoverable(b)
  BY Zenon, <1>1 DEF DiskInv, JournalInv
<1>3. stg'[b] = FullStage(b) /\ stgD'[b] = FullStage(b)
  BY ZenonT(60), <1>1, LossKeeps DEF PowerLoss
<1>4. man' \ {b} = man \ {b}
  <2>1. man \subseteq manD \cup {b}
    BY SMTT(30), <1>1, InDoubt
  <2> QED
    BY Zenon, <2>1, LossKeeps
<1>5. \A r \in Member[b] : vis'[r] \in {None, b}
  <2> SUFFICES ASSUME NEW r \in Member[b] PROVE vis'[r] \in {None, b}
    BY ZenonT(60)
  <2>1. r \in Record /\ vis[r] \in {None, b}
    BY <1>1, <1>2, BatchAssumption DEF Recoverable
  <2> QED
    BY <2>1, LossKeeps
<1>6. base' = base
  BY Zenon DEF PowerLoss
<1> QED
  BY ZenonT(60), <1>2, <1>3, <1>4, <1>5, <1>6
     DEF Recoverable, FullStage, Compatible, IdempotencyValid, IdentityValid, FoldsValid

\* After a power loss the tree is still owned and complete.
LEMMA LossAtomic ==
    ASSUME TypeOK, AtomicityInv, RefinementInv, DiskInv, PowerLoss
    PROVE  AtomicityInv'
<1>1. OneJournal'
  BY Zenon, LossKeeps, InDoubt DEF OneJournal
<1>2. JournalStaged' /\ JournalFolds'
  BY Zenon, LossRecoverable DEF JournalStaged, JournalFolds, Recoverable
<1>3. Owned'
  <2> SUFFICES ASSUME NEW r \in Record, vis'[r] # None PROVE vis'[r] \in man' \cup jrn'
    BY SMTT(30) DEF Owned
  <2>1. vis'[r] = vis[r]
    BY LossKeeps
  <2>2. vis[r] \in man \cup jrn
    BY <2>1 DEF AtomicityInv, Owned
  <2>3. vis[r] \in manD \cup jrn
    BY SMTT(30), <2>2, InDoubt
  <2>4. vis[r] \in jrn => vis[r] \in jrnD
    BY SMTT(30), InDoubt DEF DiskInv, JournalInv
  <2> QED
    BY <2>1, <2>3, <2>4, LossKeeps
<1>4. Complete'
  <2> SUFFICES ASSUME NEW b \in man', NEW r \in Member[b] PROVE vis'[r] = b
    BY Zenon DEF Complete
  <2>1. b \in man /\ r \in Record
    BY Zenon, LossKeeps, BatchAssumption DEF TypeOK
  <2>2. vis[r] = b
    BY SMTT(30), <2>1 DEF AtomicityInv, Complete
  <2>3. b # None
    BY SMTT(30), <2>1, BatchAssumption DEF TypeOK
  <2>4. visD[r] = vis[r]
    BY <2>1, <2>2, <2>3, InDoubt DEF DiskInv, RecordInv
  <2> QED
    BY <2>1, <2>2, <2>4, LossKeeps
<1>5. pc' = "idle"
  BY Zenon DEF PowerLoss
<1>6. RecoveredClean' /\ StagingInv' /\ StagedSoFar' /\ PublishingInv' /\ RetiredInv'
  BY <1>5 DEF RecoveredClean, StagingInv, StagedSoFar, PublishingInv, RetiredInv, Staging,
     Publishing, Retired
<1> QED
  BY Zenon, <1>1, <1>2, <1>3, <1>4, <1>6 DEF AtomicityInv

\* After a power loss what is left is what is on disk.
LEMMA LossSettled ==
    ASSUME TypeOK, AtomicityInv, RefinementInv, DiskInv, PowerLoss
    PROVE  RefinementInv' /\ DiskInv'
<1>1. /\ visD' = vis' /\ dirD' = dir' /\ manD' = man' /\ jrnD' = jrn' /\ pc' = "idle"
      /\ observed' = observed /\ base' = base
  BY Zenon DEF PowerLoss
<1>2. RefinementInv'
  <2>1. Synced' /\ RetiringSynced'
    BY Zenon, <1>1 DEF Synced, RetiringSynced, Retiring
  <2>2. ObservedSynced'
    BY Zenon, <1>1, LossKeeps DEF RefinementInv, ObservedSynced
  <2>3. CompatibleInv'
    BY Zenon, <1>1, LossRecoverable DEF CompatibleInv, Staging, Recoverable
  <2> QED
    BY <2>1, <2>2, <2>3 DEF RefinementInv
<1>3. DirInv' /\ ManifestInv' /\ StageInv' /\ CleanInv'
  BY ZenonT(60), <1>1 DEF DirInv, ManifestInv, StageInv, CleanInv, Appending, Staging, Publishing
<1>4. RecordInv'
  <2>1. Complete'
    BY LossAtomic DEF AtomicityInv
  <2> QED
    BY <1>1, <2>1, LossKeeps DEF RecordInv, Complete
<1>5. JournalInv'
  BY <1>1, LossRecoverable DEF JournalInv, Doubt
<1> QED
  BY <1>2, <1>3, <1>4, <1>5 DEF DiskInv

\* A batch whose journal was linked and not synced is committed or not by a power loss;
\* everything else that was committed stays.
LEMMA LossRefines ==
    ASSUME TypeOK, AtomicityInv, RefinementInv, DiskInv, PowerLoss
    PROVE  [Journal!JournalNext]_(Journal!journalVars)
<1> DEFINE C == manD \cup jrnD
<1>1. (manD \cup jrnD)' = man' \cup jrn' /\ observed' = observed
  BY Zenon DEF PowerLoss
<1>2. C \subseteq man' \cup jrn'
  BY ZenonT(60), LossKeeps, InDoubt
<1>3. man' \cup jrn' \subseteq C \cup jrn
  BY LossKeeps, InDoubt
<1>4. CASE man' \cup jrn' = C
  BY <1>1, <1>4 DEF Journal!journalVars
<1>5. CASE man' \cup jrn' # C
  <2>1. PICK b \in jrn : b \notin C
    BY ZenonT(60), <1>2, <1>3, <1>5
  <2>2. jrn = {b} /\ b \in Batch /\ man \ {b} = base[b] /\ Compatible(base[b] \cup {b})
    BY SMTT(30), <2>1 DEF AtomicityInv, OneJournal, JournalStaged, RefinementInv, CompatibleInv, TypeOK
  <2>3. man' \cup jrn' = C \cup {b}
    BY ZenonT(60), <1>2, <1>3, <1>5, <2>2
  <2>4. C \cup {b} = base[b] \cup {b}
    BY Zenon, <2>2 DEF RefinementInv, Synced
  <2>5. Compatible(C \cup {b})
    BY Zenon, <2>2, <2>4
  <2>6. (manD \cup jrnD)' = C \cup {b}
    BY Zenon, <1>1, <2>3
  <2>7. Journal!Commit(b)
    BY Zenon, <1>1, <2>1, <2>5, <2>6 DEF Journal!Commit
  <2> QED
    BY Zenon, <2>2, <2>7 DEF Journal!JournalNext
<1> QED
  BY <1>4, <1>5

---------------------------------------------------------------------------
(* The theorems *)

PowerInv == AtomicityInv /\ RefinementInv /\ DiskInv

\* The invariants of atomicity, of refinement and of what is on disk hold together in a
\* strict store that loses power any number of times, at any step.
THEOREM PowerInvariant ==
    ASSUME Modes \subseteq {"strict"}, "fail" \notin Faults
    PROVE  Spec => []PowerInv
<1>1. Init => PowerInv
  <2> SUFFICES ASSUME Init PROVE PowerInv
    OBVIOUS
  <2>1. /\ pc = "idle" /\ jrn = {} /\ jrnD = {} /\ man = {} /\ manD = {} /\ dir = {} /\ dirD = {}
        /\ observed = {} /\ visD = vis /\ \A r \in Record : vis[r] = None
    BY Zenon DEF Init
  <2>2. AtomicityInv
    BY Zenon, <2>1 DEF AtomicityInv, OneJournal, JournalStaged, JournalFolds, Owned, Complete,
       RecoveredClean, StagingInv, StagedSoFar, PublishingInv, RetiredInv, Staging, Publishing,
       Retired
  <2>3. RefinementInv
    BY Zenon, <2>1 DEF RefinementInv, Synced, RetiringSynced, Retiring, CompatibleInv, Staging,
       ObservedSynced
  <2>4. DiskInv
    BY Zenon, <2>1 DEF DiskInv, DirInv, RecordInv, ManifestInv, JournalInv, Doubt, StageInv, CleanInv,
       Appending, Staging, Publishing
  <2> QED
    BY <2>2, <2>3, <2>4 DEF PowerInv
<1>2. TypeOK /\ SnapshotFresh /\ PowerInv /\ [Next]_vars => PowerInv'
  <2> SUFFICES ASSUME TypeOK, SnapshotFresh, PowerInv, [Next]_vars PROVE PowerInv'
    OBVIOUS
  <2>1. AtomicityInv /\ RefinementInv /\ DiskInv
    BY DEF PowerInv
  <2>2. ~ValidateAborts
    BY <2>1, NeverAborts
  <2>3. CASE Work
    <3>1. AtomicityInv'
      BY Zenon, <2>1, <2>2, <2>3, StagingAtomic, JournalLinkAtomic, PublishAtomic, RecoveryAtomic DEF Work
    <3>2. RefinementInv'
      BY Zenon, <2>1, <2>2, <2>3, StagingRefines, PublishRefines, RecoveryRefines DEF Work
    <3> QED
      BY <2>1, <2>2, <2>3, <3>1, <3>2, StepsKeepDisk DEF PowerInv
  <2>4. CASE Call
    BY <2>1, <2>2, <2>4, CallAtomic, CallRefines, StepsKeepDisk DEF PowerInv
  <2>5. CASE PowerLoss
    BY <2>1, <2>5, LossAtomic, LossSettled DEF PowerInv
  <2>6. CASE UNCHANGED vars
    <3>1. UNCHANGED <<vis, visD, dir, dirD, man, manD, jrn, jrnD, stg, stgD, base, pc, cur, rec,
                      todo, done, flow, handle, observed>>
      BY Zenon, <2>6 DEF vars, nowVars, diskVars, loopVars
    <3>2. AtomicityInv'
      <4>1. OneJournal' /\ JournalStaged' /\ JournalFolds' /\ Owned' /\ Complete'
        BY <2>1, <3>1, FilesUnchanged
      <4>2. RecoveredClean' /\ StagingInv' /\ StagedSoFar'
        BY ZenonT(60), <2>1, <3>1 DEF AtomicityInv, RecoveredClean, StagingInv, StagedSoFar, FoldsValid
      <4>3. PublishingInv' /\ RetiredInv'
        BY <2>1, <3>1 DEF AtomicityInv, PublishingInv, RetiredInv
      <4> QED
        BY ZenonT(60), <4>1, <4>2, <4>3 DEF AtomicityInv
    <3>3. RefinementInv'
      BY Zenon, <2>1, <3>1, ListsUnchanged
    <3>4. \A b : Recoverable(b) => Recoverable(b)'
      BY ZenonT(60), <3>1, RecoverableKept
    <3>5. DirInv' /\ RecordInv' /\ ManifestInv' /\ StageInv'
      BY ZenonT(60), <2>1, <3>1 DEF DiskInv, DirInv, RecordInv, ManifestInv, StageInv, FullStage
    <3>6. JournalInv' /\ CleanInv'
      BY Zenon, <2>1, <3>1, <3>4 DEF DiskInv, JournalInv, CleanInv, NoStage
    <3> QED
      BY <3>2, <3>3, <3>5, <3>6 DEF PowerInv, DiskInv
  <2>7. ~Kill /\ ~IoError
    BY Zenon DEF Kill, IoError, FaultOf
  <2> QED
    BY <2>3, <2>4, <2>5, <2>6, <2>7 DEF Next
<1> QED
  BY <1>1, <1>2, TypeCorrect, SnapshotsFresh, PTL DEF Spec

\* However often a strict store loses power, once no journal or stage is left each batch
\* is in the tree with all its records or not at all.
THEOREM BatchesSurvivePower ==
    ASSUME Modes \subseteq {"strict"}, "fail" \notin Faults
    PROVE  Spec => []OldOrComplete
<1>1. PowerInv => OldOrComplete
  BY ZenonT(60) DEF PowerInv, AtomicityInv, Owned, Complete, OldOrComplete, Residue, OwnershipValid
<1> QED
  BY <1>1, PowerInvariant, PTL

\* However often a strict store loses power, each journal it finds is recoverable: the
\* stage was synced whole before the journal was linked.
THEOREM JournalsSurvivePower ==
    ASSUME Modes \subseteq {"strict"}, "fail" \notin Faults
    PROVE  Spec => []JournalsRecoverable
<1>1. PowerInv => JournalsRecoverable
  BY DEF PowerInv, AtomicityInv, JournalStaged, JournalFolds, JournalsRecoverable
<1> QED
  BY <1>1, PowerInvariant, PTL

\* A batch an append reported or a read returned is on disk with all its records and
\* their directories, in a strict store that loses power any number of times.
THEOREM ReportedIsDurable ==
    ASSUME Modes \subseteq {"strict"}, "fail" \notin Faults
    PROVE  Spec => []ObservedDurable
<1>1. TypeOK /\ PowerInv => ObservedDurable
  <2> SUFFICES ASSUME TypeOK, PowerInv, NEW b \in observed
               PROVE  b \in manD /\ \A r \in Member[b] : visD[r] = b /\ Home[r] \in dirD
    BY Zenon DEF ObservedDurable
  <2>1. b \in manD /\ b \in Batch /\ b # None
    BY ZenonT(60), BatchAssumption DEF PowerInv, RefinementInv, ObservedSynced, TypeOK
  <2>2. \A r \in Member[b] : r \in Record /\ visD[r] = b
    BY ZenonT(60), <2>1, BatchAssumption DEF PowerInv, DiskInv, RecordInv
  <2>3. \A r \in Member[b] : Home[r] \in dirD
    BY <2>1, <2>2 DEF PowerInv, DiskInv, RecordInv
  <2> QED
    BY Zenon, <2>1, <2>2, <2>3
<1> QED
  BY <1>1, TypeCorrect, PowerInvariant, PTL

\* A strict store that loses power any number of times implements the atomic journal: a
\* power loss commits the batch whose journal was just linked, or changes nothing.
THEOREM PowerLossRefines ==
    ASSUME Modes \subseteq {"strict"}, "fail" \notin Faults
    PROVE  Spec => ImplementsAtomicJournal
<1>1. Init => Journal!JournalInit
  BY DEF Init, Journal!JournalInit
<1>2. TypeOK /\ SnapshotFresh /\ PowerInv /\ [Next]_vars => [Journal!JournalNext]_(Journal!journalVars)
  <2> SUFFICES ASSUME TypeOK, SnapshotFresh, PowerInv, [Next]_vars
               PROVE  [Journal!JournalNext]_(Journal!journalVars)
    OBVIOUS
  <2>1. AtomicityInv /\ RefinementInv /\ DiskInv
    BY DEF PowerInv
  <2>2. CASE Work
    BY Zenon, <2>1, <2>2, NeverAborts, WorkRefines
  <2>3. CASE Call
    BY <2>1, <2>3, CallsRefine
  <2>4. CASE PowerLoss
    BY <2>1, <2>4, LossRefines
  <2>5. CASE UNCHANGED vars
    BY ZenonT(60), <2>5 DEF vars, nowVars, diskVars, loopVars, Journal!journalVars
  <2>6. ~Kill /\ ~IoError
    BY Zenon DEF Kill, IoError, FaultOf
  <2> QED
    BY <2>2, <2>3, <2>4, <2>5, <2>6 DEF Next
<1> QED
  BY <1>1, <1>2, TypeCorrect, SnapshotsFresh, PowerInvariant, PTL
     DEF Spec, ImplementsAtomicJournal, Journal!JournalSpec

\* What an append reported or a read returned stays visible with all its records through
\* every power loss of a strict store.
THEOREM ReportedSurvivesPower ==
    ASSUME Modes \subseteq {"strict"}, "fail" \notin Faults
    PROVE  Spec => []ObservedStays
<1>1. PowerInv => ObservedStays
  BY DEF PowerInv, AtomicityInv, Complete, RefinementInv, Synced, ObservedSynced, ObservedStays
<1> QED
  BY <1>1, PowerInvariant, PTL
=============================================================================
