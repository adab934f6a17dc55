# Wayjournal: models, checks and proofs

Wayjournal keeps an immutable journal of records in ordinary Git repositories. A
*store* is a directory tree: record files under `journal/records/<domain>/<entity>/`,
one manifest per batch under `journal/batches/`, and private state under
`.wayjournal-local/`. Batches are appended atomically through staged transactions,
and stores of several replicas are joined by Git union synchronization with one
approved remote ref.

This directory holds TLA+ models of that system, the TLC runs that check them on
small instances, and TLAPS proofs of the results that matter most.
`PROJECT.json` lists every definition with the source lines it translates.

## The system and its parts

| Part | Source (under `crates/wayjournal-core/src/`) | Model |
|---|---|---|
| Transactions: preview, staging, publication, recovery | `store/transaction.rs`, `store.rs` | `StoreTransaction` |
| Scan: ownership, idempotency, identity, folds | `store.rs`, `batch.rs`, `identity.rs` | `Collected` of `Replay`, predicates of `StoreTransaction` |
| Root locks and shared reads | `store.rs` | one holder at a time in `StoreTransaction` |
| Git union synchronization | `federation.rs`, `federation/git.rs` | `GitSync`; its files `SyncFiles` |
| Pending operations, discovery, gate | `federation/pending.rs` | `GitSync`, `SyncFiles` |
| Bulk publication of additions | `store/bulk.rs` | `SyncFiles`, in coarser steps `GitSync` |
| Admission checkpoint, quarantine | `federation/checkpoint.rs`, `federation/quarantine.rs` | `SyncFiles`, in coarser steps `GitSync` |
| History validation | `federation/history.rs` | `HistoriesValid` of `GitSync` |
| Git subprocesses and tree snapshots | `federation/git.rs` | `TreeSnapshot` |
| Multi-store sync, capability negotiation | `federation/multi.rs`, `capability.rs` | `MultiSync` |
| Streaming replay validation, in-memory scan | `store/streaming.rs`, `store.rs` | `Replay` |
| Causal graph, domain folds | `causal.rs`, `domains.rs`, `builtin.rs` | `DomainFold` |
| Presence proofs and proof cache | `proof_cache.rs`, `projection.rs` | `ProofCache`; codecs left out |
| Records, batches, layout | `record.rs`, `batch.rs`, `layout.rs`, ... | what decodes and what matches is in `Replay`; formatting is left out |

`append`, `read` and `exclusive_snapshot` run recovery of transactions first and are
refused while a sync operation is pending. A sync holds the same root lock as an
append. So the two state machines meet in the gate (`gate_without_git`), which
`GitSync` models with appends as single steps. The proof cache takes the root locks of
the stores it depends on and reads their checkpoints, so `ProofCache` models appends
and syncs as single steps under those locks. `MultiSync` does the same for calls that
synchronise several stores.

The same code appears at two levels in places. `GitSync` has replicas, remote and
phases, with the files of a slot in few steps and processes that die. `SyncFiles` has
one replica and every file-system call, and power losses. `StoreTransaction` has the
scan as predicates over batches. `Replay` has the files of one store and every check.

## StoreTransaction

State: each directory of the store has two values, what processes see now and what
a power loss is sure to leave (`vis`/`visD` records, `dir`/`dirD` entity
directories, `man`/`manD` manifests, `jrn`/`jrnD` recovery journals, `stg`/`stgD`
stages). An fsync of a directory copies the first to the second. Beside them are
the program counter of the lock holder, its loop variables, and the flags and the
snapshot of its `ExclusiveStoreOperation`. `observed` is a history variable: batches
some caller has been told of.

A batch is a number (batch ids are UUIDv7 and sorted), a record is a path, and the
bytes at a path are the batch that wrote them. A revision is the set of manifests of
a valid tree. The constants give each batch its members, idempotency key, request
digest and causal parents, so one instance has clashing keys, clashing paths, a
missing parent and a genesis.

| Code | Actions |
|---|---|
| `Store::open_from_root` | `open_from_root` |
| `Store::read` | `read` |
| `begin_exclusive_operation`, drop | `begin_exclusive_operation`, `DropOperation` |
| `append_locked` | `append_replay`, `append_refused`, `append_publish`, then `CommitScan` |
| `stage_batch` | `StageDirectory` ... `JournalPublished`, one action per durability barrier |
| `recover_one` | `ValidateAccepts`, `ValidateRefuses`, `ValidateAborts`, `AbortSynced`, `AbortReturns`, `EnsureDir` ... `StageRemoved` |
| `recover_locked` | `recover_locked`, `NextJournal`, `clean_unprepared_stages`, `StagesCleaned`, `RecoveryScan` |
| `remove_tree` | `remove_tree`, one entry per step |

Faults: `Kill` (the process dies, what it linked stays), `IoError` (a system call
fails, the caller keeps its operation) and `PowerLoss` (each entry that is not
synced survives or not). They strike between any two steps. Two levels of directories
(domain, entity) are one, since `ensure_synced` treats them alike; limits of
`enforce_limits` are not reached; the legacy mode is `open_legacy_s1_s2` with a
registry that can decode the builtin domains.

`AtomicJournal` is what callers may believe: a set of batches that grows by one
compatible batch at a time. A batch is in it as soon as its journal or its manifest
is durable.

## GitSync

State per replica: visible records and manifests, the approved local ref, the
checkpoint, the pending slots with their entries and documents, the quarantine flag,
and the program counter of the running sync call. The remote ref is shared. A commit
is what its history holds (batches and union commits), so ancestry is inclusion.

| Code | Actions |
|---|---|
| `sync_git_union_locked` | `SyncStart`, `SyncRecover` |
| `start_sync_operation`, `create_sync_repository`, `select_candidate` | `Start`, `StartMissingRef`, `Fetch`, `FetchQuarantines`, `FetchFails` |
| `publish_document` | `CreateRoot`, `WriteRoot` (the file exists before its bytes do) |
| `retire_operation`, `remove_contents` | `RetireEntry`, `PredecessorRetired`, `PrevRetired`, `ActiveRetired` |
| loop head of `recover_sync_operation` | `FilesOld`, `PublishRecord`, `PublishMarker`, `FilesCandidate`, `FilesInvalid`, `NeitherOldNorCandidate`, `advance_local_ref`, `replace_checkpoint` |
| phase arms | `AdvancePhase`, `PushLands`, `PushFails`, `Observe*`, `StaleStart`, `StaleMissingRef`, `Confirm`, `ConfirmQuarantines` |
| `Store::append` | `append` |

Outside the program: `UserCommit` (operators commit the journal, and not while a sync
is pending), `PeerPush` (honest replicas that are not modelled), `RemoteFault` (the ref
is reset or deleted), `Crash`. A crash is the death of the process, not of the
machine. The additions directory of a slot is removed in one step, and replacing a
document or the checkpoint is atomic: `SyncFiles` takes these apart.

## SyncFiles

The files behind a synchronisation: the slot of a pending operation with its chunks and
blobs, its document `pending.json`, the published files, the local ref, the checkpoint
and the quarantine incident. A procedure of the code is a script of system calls
(`create`, `write`, `fsync`, `rename`, `unlink`, `mkdir`, `sync` of a directory), run one
per step.

State: `cur` is what a process sees. `soft` holds files whose bytes a power loss may still
take, and `old` what else the directory entries may be after one. An `fsync` settles the
first and the sync of a directory the second. `blame` remembers in which procedures
processes have died.

| Code | Definitions |
|---|---|
| `create_operation`, `stage_known_additions`, `for_each_addition` | scripts of the same names; chunks of `PerChunk` additions |
| `publish_document`, `replace_document`, `retire_operation`, `remove_contents` | scripts of the same names |
| `publish_addition`, `publication_rank` | `Publish`: file, rank order, directory syncs |
| `replace_expected`, `recover_residue`, `persist` | scripts of the same names |
| `discover`, `clean_disposable_locked` | `Call`, `Discover` |
| `start_sync_operation` | `Start`, `Stage`, `PublishDocument`, `Started`, `PredecessorRetired` |
| `recover_sync_operation` | the surface checks `VisibleOld`, `VisibleNew`, `VisibleInvalid` ... `SurfaceForeign`, then one action per phase arm |

The push is an oracle (confirmed, stale, unobserved, missing). Two operations follow each
other, and the second may be a successor of the first.

Recovery uses what it finds and does not repeat a directory sync that a killed process
had not reached. A kill followed by a power loss can therefore

- take back `pending.json` after recovery has used it (death in `publish_document`);
- with a second kill in publication, leave a checkpoint without its files and without
  the document that owes them;
- take back the phase of a predecessor, so that the succession is refused;
- take back a renamed checkpoint (death in `replace_expected`);
- lose an incident that was reported (death in `persist`).

A kill alone can leave an empty `pending.json`, an empty incident, files published in part,
or a document whose additions are already unlinked. The properties of this module name
these deaths as exceptions and show that there are no others.

Files published in part are not a valid tree. `recover_sync_operation` then returns the
error of its validation and records nothing (`VisibleInvalid`). It quarantines only a valid
tree, a ref or a checkpoint that is neither old nor candidate (`SurfaceForeign`).

## TreeSnapshot

Git runs as subprocesses in their own process groups. Threads read their pipes up to a
limit and hand the result over channels of capacity one. The caller polls channels, exit
status, overflow flags and a deadline. One module covers four uses: a tree listing captured
in a file and then read blob by blob (`"file"`), a listing parsed while it arrives
(`"stream"`), a command run for its output (`"output"`) and one run for its exit status
(`"ask"`).

| Code | Actions |
|---|---|
| `CatFileBatch::spawn`, spawning in the `run_bounded_*` functions | `SpawnList`, `SpawnBlob`, `SpawnFails` |
| `spawn_bounded_reader`, `spawn_bounded_file_writer`, `read_cat_file_response`, `stream_tree_listing` | `Reader`, `ListingReader`, `ResponseReader`, `Delivers`, `Ends` |
| wait loops, `poll_reader` | `PollOut`, `PollErr`, `TryWait`, `Check`, `CheckTimeout` |
| exit status | `ListStatus`, `BlobStatus`, `Answered`, `Captured` |
| `read_blob`, `TreeFileSource` | `NextFile`, `Listen`, `SendRequest`, `WriteRequest`, `Await`, `Grace` |
| `terminate_process_group`, aborts | `FailList`, `Abort`, `Join` |

The environment lets a child write, complain on stderr, exit, crash inside a record, or
start a descendant that keeps pipes open. `MaxTroubles` bounds these. A deadline may have
passed whenever it is looked at. Commands have no input, as in production. Descendants stay
in the process group, since `GitRunner::command` turns off what detaches. `PromptExit`
says that the exit status of a dead child is there within the 100 ms that `read_blob`
waits for it. Without it an operational failure can be reported as hostile, which
`HostileOnlyByData` then shows. In `"stream"` mode a listing killed inside a record is
reported as hostile, hence that property is about `"file"`.

## MultiSync

A caller negotiates a handshake per store, builds an ordered list of targets and calls
`sync_stores`, which checks all targets before it transfers any. Each step runs under one
store's root lock. Between steps other processes bootstrap stores, synchronise them and
put proofs into the cache.

| Code | Definitions |
|---|---|
| `validate_set`, `intersection`, `require_subset`, `negotiate_handshake` | `validate_set`, `Intersection`, `Subset` on sequences, and `Verdict` in the code's order of checks |
| `sync_stores`: shape checks, preflight | `sync_stores`, `PreflightPasses`, `PreflightFails`, `PreflightUnreadable` |
| transfer of one target | `TransferRefused`, `sync_git_union_locked` (its outcomes and where they leave the checkpoint) |
| observation and cache | `observe_checkpoint`, `ObservationFails`, `invalidate_store`, `CacheUnavailable` |

## DomainFold and Replay

`Replay` is the bounded validation that synchronisation uses instead of the scan in
memory. Files arrive in directory order, which is any order. They are spooled to one file,
facts about them are sorted in runs and merged, and claims of manifests are joined with
records. `Collected` is the in-memory scan as an operator over the set of files, and the
reference for the replay. It goes through the checks of `scan_collected_with_legacy_mode` in
their order, down to the folds: where the replay folds a group step by step from a sorted
stream, the scan collects all groups first and folds each with a fresh budget (`FoldError`).

| Code | Definitions |
|---|---|
| walk, `ScanBudget`, spooling | `Spool`, `EntryTotal`, `StreamedEntries` |
| `ExternalSorter` | `RunsOf`, `Merge`, `ExternalSort`, `SortCost` |
| legacy adapters | `Legacy`, `SourceDrained` |
| `ReplayFacts` | `FactsOf`, `CollectFacts`, `Duplicates` |
| `validate_ownership_and_batches` | `Join`, `EndJoin`, `BatchError`, `CheckBatch`, `EndBatches` |
| identity | `ReplayedIdentity`, `Identity` |
| `decode_record` and the sealed registry | `Decoded`, `Registered`, `PayloadValid` |
| `scan_collected_with_legacy_mode` | `Collected` |
| `validate_builtin_folds` | `FoldsError`, `FoldError`, `Applied`, `Asked`, `Observes` |

`DomainFold` has the causal graph, the reachability search with its shared budget, and the
operations on registers and sets. It runs on slices (`fold_profile`, `fold_catalogs`,
`fold_catalog`) and, as the last stage of a replay, on the groups of a path-ordered stream.
`Ancestors` and `Surviving` define without a search what the fold should compute.

A digest is what it is taken over. A record has the fields the checks read, and a value is
a type, a token and whether its text is valid. `Replay` leaves out the query for one record
that presence proofs make during a replay. The registry is the sealed one also for a store
opened in legacy mode: one schema of each built-in domain, and an application domain with
two. A legacy file is a batch or the event of an entity, and the directory of an entity
counts as an entry.

## ProofCache

Several processes, with one handle each, share a cache root. An entry holds a proof
and the revisions of the stores it depends on. The cache may be deleted at any time, so
what matters is that no answer is out of date.

State: each store has its accepted revision `cp`, whether its tree is ahead of it
(`dirty`), whether a sync is pending (`pend`) and who holds its root lock (`owner`). The
cache root has `entries`, temporary files (`temps`) and a lock (`cacheOwner`).
`ambient` says whether the cache path still names that root. A handle has its latch
(`reset`), a program counter and its call.

| Code | Actions |
|---|---|
| `lookup`, `prepare_insert`, `invalidate_store` on entry | `lookup`, `insert`, `invalidate_store` |
| `lock_authorities` | `LockAuthority` (one lock per step), `AuthorityPending`, `AuthorityDisagrees`, `VectorRead`, `InsertStale` |
| `begin_operation` | `BeginLock`, `cleanup_temporaries` |
| rest of `lookup` | `LookupVisit` |
| rest of `insert` | `InsertPresent`, `InsertFull`, `InsertTemp`, `InsertRename`, `InsertFails` |
| rest of `invalidate_store` | `InvalidateVisit`, `InvalidateUnlink` (one entry per step), `InvalidateFails`, `InvalidateDone` |
| last `binding_matches` and the return | `PostCheck` |
| `ProofCache::open` | `open` |

Outside the calls: `append`, `sync` and `sync_interrupted` move the stores, `ReplaceRoot`
replaces the directory at the cache path or puts it back, and `Kill` ends a process
anywhere: its locks are dropped and its temporary file stays.

A revision is the number of checkpoints of a store. A caller passes its dependencies as
pairs of an identifier (`expected_store`, here a label) and an open store. A dependency list
is therefore a function from labels to stores, and the two may disagree.
`validate_authority_inputs` rejects lists whose labels are not increasing, which no function
has, and lists that name one root twice (`Unaliased`). The locks are then taken in the order
of the labels, and only when all are held are the labels compared with the identities of the
stores (`Agreed`). So a caller that confuses labels gets an error, but not before it has
waited for the locks. The byte limit, the codecs, a cache root that is itself an authority
(rejected on entry) and several local copies of one logical store are left out.

## Runs

| Run | Instance | Shows |
|---|---|---|
| `store_fail` | strict, 3 kills or I/O errors, fair | atomic batches, recoverable journals, refinement of `AtomicJournal`, residue is always recovered or discarded |
| `store_power` | strict, 3 power losses | journals and refinement too, and reported batches are durable |
| `store_modes` | strict and legacy, 2 failures | snapshots are current, published bytes never change |
| `sync_safe` | 2 replicas with 1 crash, or 1 replica with 2 peer batches, 2 crashes and 4 operations | remote only grows, publication order, phases are truthful, no accepted commit is forgotten, also through generations of stale successors |
| `sync_hostile` | 2 replicas with clashing batches, rollback, deletion, 1 crash | nothing clashing is merged, nothing accepted is lost |
| `sync_live` | 2 replicas in turn, 2 crashes | convergence |
| `sync_files` | 2 operations of 0 to 4 additions, 2 deaths of process or power | documents are backed, accepted files are durable or owed, what is reported is durable, additions are read back whole, only the deaths listed above stop a later call |
| `tree_snapshot` | trees of up to 3 records, 2 troubles | complete snapshots, only data is hostile, true answers, nothing left running, every call returns |
| `multi_sync` | 2 stores, 2 revisions each, 32 negotiations, 9 lists of targets | mutual handshakes, transfers from the compared checkpoint, no transfer before an error, one answer per target, cache answers are true |
| `replay` | about 200 stores in every directory order, runs of 2 facts; about 270 slices | agreement with the scan, folds included, on verdict, error and state; order, active set, names and views of the folds |
| `cache_safe` | 2 processes, 2 stores with 2 revisions, all maps from labels to stores, room for 1 entry | answers are current, residue never blocks the cache, callers with true labels never wait in a circle, a reset handle stays reset |

The larger ones have between 160,000 (`replay`) and 1,040,000 (`sync_hostile`) distinct
states and take between half a minute and three and a half.

Bounds. `MaxFaults` 3 lets a recovery be interrupted, the recovery of that recovery
too, and one more fault strike the final scan. `MaxOps` 2 to 5 bounds sync operations
per replica: two give a stale operation and its successor, four a successor of a
successor beside a retry. `MaxCrashes` is 1 or 2 for the same reason. `sync_safe` joins
two instances by the state constraint `MCInstance`: both replicas, or one of them and
its peers. In `sync_files` two deaths are needed for what recovery does not repeat, chunks
of two additions give none, one, a full chunk and a partial one, and 4 additions exceed
the capacity of 3.

The bound of two deaths in `sync_files` matters for one property. With `MaxDeaths` 3
(6,500,000 states, ten minutes, not among the runs) the other four invariants hold, but
`RefusalExplained` does not. Both operations are killed in `replace_expected`, after the
rename and before the directory sync, and a power loss while the second is retired takes
both checkpoints back to the first revision. The next call finds files and ref of the
second operation without its document and refuses with a mismatch, although no process
died in `publish_document`. `RefusalExplained` is therefore a statement about at most two
deaths.

In `tree_snapshot` pipes hold one record and limits are passed by
one, so writers block and captures overflow. `MaxTip` 1 in `multi_sync` lets a store move
once behind a caller's back, with or without its revision. In `replay` the limits of the
causal graph are 4 operations, 4 edges and 4 search steps, and each is exceeded by some
slice and by some store; one store stays within them only because each group has its own
budget. The limits on entries and on temporary space are met exactly by one store and
exceeded by another. In `cache_safe` one move of a checkpoint is enough to make an entry stale,
two processes and two stores to lock in opposite orders or to confuse two labels, and one entry to fill the cache.
Kills are not bounded there. The processes are interchangeable and no liveness is checked,
so the symmetry is sound.

`CHECK_DEADLOCK FALSE` stands in the sync configurations: a replica that has used its
operations, or is quarantined, has nothing left to do.

Fairness. `StoreTransaction`: a call that has started runs to its end (`WF` of
`Work`), callers that find residue begin an operation and recover it, and operations
are dropped. Recovery needs strong fairness, as other callers may hold the lock
between. `GitSync`: a running call is scheduled, operators keep committing and
syncing, and a push that can land again and again does so once. `sync_live` lets
operators take turns: with unlimited concurrent syncs a replica can lose every race,
which the code does not exclude. Its crashes are at steps from which recovery
succeeds; the other steps are the subject of the next section. `TreeSnapshot`: the
caller and each reader thread are scheduled, the kernel publishes the status of a dead
child, and a deadline that is looked at again and again passes (`SF` of `CheckTimeout`).
Children have no fairness: they may hang for ever.

### Where the code and its documentation disagree

`sync_publish_crash` ends in a counterexample: a process dies between two published
additions, and the tree is neither the old one nor the candidate
(`VisibleOldOrCandidate`). `findings` in `PROJECT.json` quotes the lines it contradicts.

More behaviours have a property and no run of their own. Each is reproduced by a
change to one configuration:

| Configuration | Change | Property that fails | Behaviour |
|---|---|---|---|
| `StoreModes` | none | `OldOrComplete` | kill between two records, a legacy open aborts the batch, a record is left without manifest (`store/transaction.rs:648`), although `store.rs:1065` says of such an open that "It refuses any S3 built-in domain data" |
| `StoreFail` | `Spec`, `Faults = {"fail", "power"}`, `MaxFaults = 2` | `ObservedStays` | kill between `mkdir` and its fsync, recovery reports the batch, power loss takes the directory (`ensure_synced` syncs only what it created) |
| `StoreFail` | the same | `JournalsRecoverable` | I/O error after a journal is unlinked and before the directory is synced, recovery removes the stage, power loss brings the journal back |
| `SyncPublishCrash` | `CrashAt = {"write_root"}` | `PreRootDisposable` | death between creating and writing `pending.json` |
| `SyncPublishCrash` | `CrashAt = {"retire_act"}` | `ActiveLayoutClosed` | death after `additions` and before `pending.json` is removed |
| `SyncPublishCrash` | `CrashAt = {}` | `HonestNotQuarantined` | a peer pushes between confirmation and re-check |
| `SyncPublishCrash` | `Peer = {3, 4}`, `CrashAt = {"retire_pred"}` | `HandoffBound` | the remote moves before the successor fetches, then death in the handoff |
| `SyncPublishCrash` | `Peer = {3, 4}`, `CrashAt = {"fetch"}`, `MaxOps = 4` | `AttemptDisposable` | death while a successor of a successor is prepared |
| `Replay` | none | `RejectsOnlyMisnamed` | two concurrent removes of one add, or a resolution concurrent with a write of lower id: each names exactly what its author observed, and the second one applied is rejected with a message that says it does not (`domains.rs:605`, `domains.rs:607`) |
| `CacheSafe` | none | `NoCircleAtAll` | a caller passes two stores under each other's identifiers and another caller passes them correctly: each holds one lock and waits for the other (`proof_cache.rs:539`, the comparison is at `proof_cache.rs:574`) |
| `TreeSnapshot` | `PromptExit = FALSE` | `HostileOnlyByData` | the status of a dead child comes later than 100 ms |

## Proofs

Eight modules hold the proofs. Every theorem is for all values of the constants: any number
of stores, replicas, batches, processes, records, faults and operations. Each rests on the
`ASSUME`s of the module it is about, which give the constants their types. Any further
hypothesis stands in the theorem and is named below. Beside the theorems of the table each
module proves the inductive invariants they follow from.

| Module | Theorems | Hypotheses |
|---|---|---|
| `StoreTransactionProofs` | `TypeCorrect`, `SnapshotsFresh` | none |
| | `NeverUnpublished` (`PublishedImmutable`) | no power loss |
| | `BatchesAtomic` (`OldOrComplete`), `JournalsStayRecoverable`, `StoreImplementsAtomicJournal` | strict, no power loss |
| `StorePowerProofs` | `BatchesSurvivePower`, `JournalsSurvivePower`, `ReportedIsDurable` (`ObservedDurable`), `PowerLossRefines` | strict, no kill and no I/O error |
| `GitSyncProofs` | `TypeCorrect`, `PublicationIsOrdered`, `ClashesStayApart`, `AcceptedIsKept` | none |
| | `RemoteIsKept`, `NothingOwedIsLost` (`AcceptedIsPushedOrOwed`), `PhasesAreTrue` | nobody resets the remote |
| `TreeSnapshotProofs` | `NothingIsLeftBehind`, `AnswerIsTrue` | none |
| `SnapshotProofs` | `SnapshotIsComplete` | none |
| `MultiSyncProofs` | `TransfersAreAuthorised`, `ErrorsTransferNothing`, `TargetsAreAnswered`, `CacheIsCovered`, `HandshakesAreMutual` | none |
| `DomainFoldProofs` | `OrdersAreCanonical`, `ActiveIsWhatSurvives`, `NamesAreExact` | the folds alone, see below |
| `ProofCacheProofs` | `TypeCorrect`, `AnswersStayCurrent`, `ResetStaysLatched`, `LayoutStaysReadable`, `NobodyWaitsInACircle` | none |

### Stores

`OldOrComplete` is not inductive: it says nothing while an operation runs or residue
is left. `AtomicityInv` strengthens it with

- at most one journal (`OneJournal`), whose stage is whole, whose base is the tree
  beside its batch (`JournalStaged`) and whose tree passes the folds (`JournalFolds`);
- every visible record is owned by a manifest or by a journal (`Owned`), and every
  manifest has all its records (`Complete`);
- what each program counter implies: no journal while staging (`StagingInv`), the
  entries staged so far (`StagedSoFar`), the records linked so far
  (`PublishingInv`), the manifest present when the journal goes (`RetiredInv`), and a
  recovered operation sees no residue (`RecoveredClean`).

`NeverAborts` is the key lemma: in a strict store `validate_recovery_base` never
answers `InvalidDomainFold`, because the preview has scanned the same trees. That the folds
of a journal's base and result are valid is also a conjunct of `JournalsRecoverable`. Both
hypotheses are needed: a legacy open can break atomicity (first row of the table above),
and a power loss may drop a published entry that was not synced yet.

The refinement needs in addition what the synced lists say (`RefinementInv`): they differ
from the visible ones only by the batch of the one journal, what was reported is in them,
and a batch is compatible with the tree it is staged on. With that every step maps to a
commit, to a report, or to a stutter. `ReportedStays` concludes that what was reported
stays visible with its records (`ObservedStays`).

`StorePowerProofs` adds `DiskInv`: a directory is synced before anything is linked into it,
only the record just linked is not synced, a synced manifest has synced records, a journal
is in doubt only between its link or unlink and the sync of its directory, and a journal
that may come back has a whole stage on disk. `PowerInv` joins the three invariants.
A power loss commits the batch whose journal was just linked, or changes nothing.

The two kinds of fault are kept apart because together they break the properties: a process
that is killed between `mkdir` and its fsync leaves a directory that `ensure_synced` takes
for synced, and a later power loss takes it with the records (second and third rows of the
table above). So durability is proved for stores whose processes do not fail between power
losses, and atomicity and refinement also for stores whose processes fail and whose power
does not.

### Synchronisation

`SyncInv` says of every replica that its candidate descends from all it was built from, that
files, local ref and checkpoint follow the candidate in this order, and that no tree, ref,
tip or candidate holds two clashing batches. It holds whatever the remote does. The genesis
is there from the start, so `SyncAssumption` says that it does not clash with itself.

`OwedInv` says who owes what: an accepted checkpoint that is not on the remote has a document
with a candidate above it, also between the documents of a stale operation and of its
successor. `PhaseInv` says what each phase of a document implies about files, refs,
checkpoint and remote. Both are about a remote that only grows: after a reset, an accepted
commit may be on no remote and owed by no document, and a confirmed phase may be false.

### Snapshots

`LeftInv` says which children and threads each step of a call may still have. `AskInv` says
that the status of a command is its answer from its death to the return. Completeness rests
on `SnapInv`: what the reader keeps and what is in the pipe is what the listing has written
(`FlowInv`), the message that a reader is at its end is true of the pipe (`EndInv`), records
pass through reader, channel and caller in order (`StreamInv`), one request is on its way at
a time (`RequestInv`), and otherwise a flag, a status or a message makes the call an error.
`TreeSnapshotProofs` shows that processes and threads keep it, `SnapshotProofs` that the
caller does.

### Multi-store synchronisation

The properties speak of a finished call. `IInv` says what holds on the way: how many
targets each step has dealt with (`Phases`), that a checkpoint that passed is the one its
handshake is bound to and that the store's revision has not fallen behind it (`Bound`),
that transfers started from those (`Moved`), that results name their targets and
checkpoints (`Answers`), and that an entry removed for an old revision stays away
(`Covered`). The last needs that revisions only grow: `CheckpointMoves` proves it for every
step of the call and of other processes, and an entry is only added for the current
revision.

`NegotiatedMutual` is about lists of every length, so the merge of `intersection` and the
binary search of `require_subset` are proved exact by induction. A capability that a side
requires and does not itself support is not in the handshake, although the other side
supports it: `negotiate_handshake` does not compare the two lists of one side.

### Folds

`Replay` declares recursive operators, so the theorems are about `FoldSpec`: the folds of
`DomainFold` called on any slice or stream of records whose identifiers and parents have
decoded. The steps of `Replay` change the variables of `DomainFold` only by `BeginReplay`,
`BeginFold` and `FoldStep`, which are the steps of `FoldSpec`.

`GraphInv` is the invariant of the topological order: the order so far is closed under
parents, the ready set is exactly what follows it, and an indegree counts the parents still
missing. A reported cycle is real because a set of operations without one has a member
whose parents all lie outside it (`NoEndlessAncestry`, by the least number of ancestors).
`FoldInv` adds that the active set is what survives of the operations applied so far, and
for the bounded search that it has met only ancestors, that what it expanded has its parents
behind it, and that the candidate was not met yet. So an exhausted search is a true no, and
one cut short by the budget decides nothing.

### Proof cache

`AnswersCurrent` speaks of the moment of the answer only, and of the stores that the vector
of the answer names, not of those the caller opened. `CacheInv` strengthens it: from
the reading of the vector on, labels and stores agree, a call owns the locks of its
dependencies and the vector is that of their checkpoints (`CallInv`), a locked store has no pending sync
(`LockedSettled`), and every entry depends on the checkpoint its proof was made at
(`EntriesNameProof`). The last is the check that decoding makes of every entry
(`validate_source_dependency`), so no entry the program wrote is rejected by it. For
`ResetLatched`, `ResetInv` says that a latched handle is between calls or waits for the
cache lock.

`LayoutInv` says that one process works under the cache lock, that a reader finds final
entries only and that they fit. `OrderInv` says that a call whose labels are true holds only
locks of stores before all those it lacks. Among such processes that wait for stores, the one
whose next store is last waits for a process outside the set; this needs finitely many
processes (`CacheAssumption`). A process with confused labels has no such order, which is why
`NoCircularWait` says that a circle contains one.

### Only model-checked

- `Converges`, `RecoveryCompletes` and `Returns`: liveness under fairness is out of the
  prover's reach.
- `SyncFiles` (`AcceptedOwedOrDurable`, `AdditionsExact`, `DocumentBacked`,
  `RefusalExplained`, `ReportedDurable`) and the agreement of `Replay` with the scan
  (`ScanAgrees`, `StateAgrees`): scripts, sorting and merging are recursive operators, which
  the prover does not accept in a module that is proved about.
- `HostileOnlyByData`: no proof has been written. It needs, beside `SnapInv`, that captured
  and answered bytes never exceed those of the tree, which is a statement about sums over
  sequences.
- `VisibleOldOrCandidate` does not hold: its run ends in a counterexample.

Induction over data is carried out where the proofs need it, as the statement that a set of
natural numbers that is not empty has a least member (`LeastNatural`).

## Not modelled

- Formatting and parsing: canonical JSON, record, manifest, handshake and cache codecs,
  identifiers, digests. They have no state. What they decide (a file decodes or does not,
  two digests differ) is in `Replay`.
- The locks of `store.rs` below the level of one holder: the process-local lock paired with
  the root flock, and several handles in one process.
- Directory handles and symlink checks: the models assume that a path
  keeps its directory, except for the cache root, which `ProofCache` replaces.
- The walk of `history.rs` over every new commit, and the audit of a repository's
  configuration and layout: they read and refuse, and change nothing. `GitSync` knows a
  commit by the batches and unions its history holds.
- Bootstrap of a new clone, beyond its tree snapshot and the checkpoint it makes in
  `MultiSync`.
- Byte limits of the cache and of temporary files other than those of `Replay`.
- `artifacts.rs` and the command line: static documents and a version printer.
