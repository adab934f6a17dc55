------------------------------ MODULE SyncFiles ------------------------------
(* The files of a Git synchronisation under process deaths and power loss: the *)
(* slot of a pending operation (staged additions, repository, pending.json),   *)
(* the published files, the local ref, the checkpoint and the incident.        *)
(*                                                                             *)
(* A procedure is a script of file-system calls, executed one per step.  The   *)
(* model keeps what a process sees (cur), the files whose bytes a power loss   *)
(* may still take (soft), and what else the directory entries may still be     *)
(* after one (old).  A file's fsync settles soft, a directory's sync old.      *)
(* The root lock is held by one process at a time; GitSync models the rest.    *)
EXTENDS Integers, Sequences, FiniteSets, SequencesExt

CONSTANTS
    Counts,         \* the additions of the first and of the second operation
    PerChunk,       \* ADDITIONS_PER_CHUNK
    MaxCount,       \* MAX_BULK_ADDITIONS
    Deaths,         \* the ways to die: "kill", "power"
    MaxDeaths       \* bound on deaths

VARIABLES
    counts,         \* operation -> number of files it brings
    adds,           \* operation -> number of additions it stages
    cur,            \* existing path -> its content
    soft,           \* files that were written and not yet synced
    old,            \* path and content of entries that are not yet settled
    pc, todo,       \* procedure and the rest of its script
    op,             \* the operation at work, or 0
    link,           \* the second operation is a successor of the first
    out,            \* what the last call returned
    deaths, blame   \* number of deaths, and the procedures that died

disk == <<cur, soft, old>>
vars == <<counts, adds, disk, pc, todo, op, link, out, deaths, blame>>

Op == 1 .. 2

---------------------------------------------------------------------------
(* Paths: name, operation, chunk, addition *)

At(name, o) == <<name, o, 0, 0>>
Pending == At("sync-pending", 0)
Canonical == At("canonical", 0)
Checkpoints == At("checkpoints", 0)
Quarantine == At("quarantine", 0)
Git == At("git", 0)

Slot(o) == At("slot", o)
Doc(o) == At("pending.json", o)
DocTemp(o) == At(".pending.tmp", o)
Repo(o) == At("repo.git", o)
Additions(o) == At("additions", o)
Chunks(o) == At("chunks", o)
Blobs(o) == At("blobs", o)
Index(o) == At("index.bin", o)
Chunk(o, i) == <<"chunk", o, i, 0>>
BlobChunk(o, i) == <<"blob chunk", o, i, 0>>
Blob(o, i, k) == <<"blob", o, i, k>>
Visible(o, k) == <<"visible", o, 0, k>>
Checkpoint == At("checkpoint", 0)
CheckpointTemp == At(".checkpoint.tmp", 0)
Incident == At("incident", 0)
Ref == At("ref", 0)

\* Names in the order in which a directory's listing sorts them.
Names == <<".pending.tmp", "additions", "pending.json", "repo.git",
           "blobs", "chunks", "index.bin", "blob chunk", "chunk", "blob">>
Before(p, q) ==
    LET At1(r) == CHOOSE n \in DOMAIN Names : Names[n] = r[1] IN
    \/ At1(p) < At1(q)
    \/ At1(p) = At1(q) /\ (p[3] < q[3] \/ (p[3] = q[3] /\ p[4] < q[4]))

\* Mutant: a last chunk that is not full is not counted.
chunk_count_floor(n) == n \div PerChunk

chunk_count(n) == (n + PerChunk - 1) \div PerChunk

\* The number of additions in chunk i of n additions, and their ordinals.
GroupCount(n, i) == IF n - i * PerChunk < PerChunk THEN n - i * PerChunk ELSE PerChunk
Ordinals(i, count) == {i * PerChunk + position : position \in 0 .. count - 1}

ChunksOf(o) == 0 .. chunk_count(adds[o]) - 1
BlobsOf(o, i) == {Blob(o, i, k) : k \in Ordinals(i, GroupCount(adds[o], i))}
Staged(o) ==
    {Additions(o), Chunks(o), Blobs(o), Index(o)}
        \cup {Chunk(o, i) : i \in ChunksOf(o)} \cup {BlobChunk(o, i) : i \in ChunksOf(o)}
        \cup UNION {BlobsOf(o, i) : i \in ChunksOf(o)}
Files(o) == {Visible(o, k) : k \in 0 .. counts[o] - 1}

Parent(p) ==
    LET o == p[2] IN
    CASE p[1] = "slot" -> Pending
      [] p[1] \in {"pending.json", ".pending.tmp", "repo.git", "additions"} -> Slot(o)
      [] p[1] \in {"chunks", "blobs", "index.bin"} -> Additions(o)
      [] p[1] = "chunk" -> Chunks(o)
      [] p[1] = "blob chunk" -> Blobs(o)
      [] p[1] = "blob" -> BlobChunk(o, p[3])
      [] p[1] = "visible" -> Canonical
      [] p[1] \in {"checkpoint", ".checkpoint.tmp"} -> Checkpoints
      [] p[1] = "incident" -> Quarantine
      [] OTHER -> Git

\* Contents: a whole file or directory is "whole", a file without its bytes "empty".
Phases == {"Prepared", "FilesPublished", "LocalRefPublished", "CheckpointPublished",
           "RemoteCasStale", "RemoteCasConfirmed"}
Rev == <<"revision 0", "revision 1", "revision 2">>
RevisionOf(o) == Rev[o + 1]

Cur(p) == IF p \in DOMAIN cur THEN cur[p] ELSE "absent"
Children(d) == {p \in DOMAIN cur : Parent(p) = d}
\* What the file at p may hold, and what the path may be, after a power loss.
Data(p) == {Cur(p)} \cup (IF p \in soft THEN {"empty"} ELSE {})
Survivors(p) == Data(p) \cup {x[2] : x \in {y \in old : y[1] = p}}

Init ==
    /\ counts \in Counts /\ adds = counts
    /\ cur = (Checkpoint :> RevisionOf(0)) @@ (Ref :> RevisionOf(0))
    /\ soft = {} /\ old = {}
    /\ pc = "idle" /\ todo = <<>> /\ op = 0 /\ link = FALSE
    /\ out = "none" /\ deaths = 0 /\ blame = {}

---------------------------------------------------------------------------
(* File-system calls *)

mkdir(p) == [call |-> "mkdir", path |-> p]
create(p) == [call |-> "create", path |-> p]
write(p, c) == [call |-> "write", path |-> p, content |-> c]
fsync(p) == [call |-> "fsync", path |-> p]
rename(p, q) == [call |-> "rename", path |-> p, to |-> q]
unlink(p) == [call |-> "unlink", path |-> p]
sync(d) == [call |-> "sync", path |-> d]
\* A whole, synced file appears under the name at once: linkat, or a ref transaction of Git.
put(p, c) == [call |-> "put", path |-> p, content |-> c]

\* The entry p names another file with content c, or none; what it named may come back.
Named(p, c, f) == IF c = "absent" THEN [q \in DOMAIN f \ {p} |-> f[q]] ELSE (p :> c) @@ f
Unsettled(p) == {p} \X Data(p)
Entry(p, c) ==
    /\ cur' = Named(p, c, cur)
    /\ soft' = soft \ {p}
    /\ old' = old \cup Unsettled(p)

Do(s) ==
    LET p == s.path IN
    CASE s.call = "mkdir" -> Entry(p, "whole")
      [] s.call = "create" -> Entry(p, "empty")
      [] s.call = "put" -> IF Cur(p) = s.content THEN UNCHANGED disk ELSE Entry(p, s.content)
      [] s.call = "unlink" -> Entry(p, "absent")
      [] s.call = "rename" -> /\ cur' = Named(p, "absent", Named(s.to, cur[p], cur))
                              /\ soft' = (soft \ {p, s.to}) \cup (IF p \in soft THEN {s.to} ELSE {})
                              /\ old' = old \cup Unsettled(p) \cup Unsettled(s.to)
      [] s.call = "write" -> cur' = Named(p, s.content, cur) /\ soft' = soft \cup {p} /\ UNCHANGED old
      [] s.call = "fsync" -> soft' = soft \ {p} /\ UNCHANGED <<cur, old>>
      [] s.call = "sync" -> old' = {x \in old : Parent(x[1]) # p} /\ UNCHANGED <<cur, soft>>

Step ==
    /\ todo # <<>>
    /\ Do(Head(todo)) /\ todo' = Tail(todo)
    /\ UNCHANGED <<counts, adds, pc, op, link, out, deaths, blame>>

---------------------------------------------------------------------------
(* Scripts *)

write_new(p, c) == <<create(p), write(p, c), fsync(p)>>

create_operation(o) == <<mkdir(Slot(o)), sync(Slot(o)), sync(Pending)>>

\* One chunk: its blobs, their directory, then the chunk's metadata.
StageChunk(o, i) ==
    LET n == GroupCount(adds[o], i)
    IN  <<mkdir(BlobChunk(o, i))>>
          \o FlattenSeq([k \in 1 .. n |-> write_new(Blob(o, i, i * PerChunk + k - 1), "whole")])
          \o <<sync(BlobChunk(o, i))>>
          \o write_new(Chunk(o, i), "whole")

\* Mutant: the directory of the blob chunks is not synced.
stage_unsynced(o) ==
    <<mkdir(Additions(o)), mkdir(Chunks(o)), mkdir(Blobs(o))>>
        \o FlattenSeq([i \in 1 .. chunk_count(adds[o]) |-> StageChunk(o, i - 1)])
        \o <<sync(Chunks(o))>>
        \o write_new(Index(o), "whole")
        \o <<sync(Additions(o)), sync(Slot(o))>>

stage_known_additions(o) ==
    <<mkdir(Additions(o)), mkdir(Chunks(o)), mkdir(Blobs(o))>>
        \o FlattenSeq([i \in 1 .. chunk_count(adds[o]) |-> StageChunk(o, i - 1)])
        \o <<sync(Chunks(o)), sync(Blobs(o))>>
        \o write_new(Index(o), "whole")
        \o <<sync(Additions(o)), sync(Slot(o))>>

\* The staged stream has as many additions as were declared.
TotalsMatch(o) ==
    FoldSeq(+, 0, [i \in 1 .. chunk_count(adds[o]) |-> GroupCount(adds[o], i - 1)]) = adds[o]

publish_document(o) == write_new(Doc(o), "Prepared") \o <<sync(Slot(o)), sync(Pending)>>

\* Mutant: the phase is written over pending.json in place.
replace_in_place(o, phase) == <<create(Doc(o)), write(Doc(o), phase), fsync(Doc(o)), sync(Slot(o))>>

replace_document(o, phase) ==
    write_new(DocTemp(o), phase) \o <<rename(DocTemp(o), Doc(o)), sync(Slot(o))>>

\* Batches are ranked after records; they sort before them.
publication_rank(k) == IF k = 0 THEN 1 ELSE 0

\* Mutant: the parent of a published file is not synced.
PublishUnsynced(o) ==
    LET Pass(rank) == FlattenSeq([k \in 1 .. adds[o] |->
            IF publication_rank(k - 1) = rank THEN <<put(Visible(o, k - 1), "whole")>> ELSE <<>>])
    IN  Pass(0) \o Pass(1)

Publish(o) ==
    LET Pass(rank) == FlattenSeq([k \in 1 .. adds[o] |->
            IF publication_rank(k - 1) = rank
            THEN <<put(Visible(o, k - 1), "whole"), sync(Canonical)>> ELSE <<>>])
    IN  Pass(0) \o Pass(1)

advance_local_ref(o) == <<put(Ref, RevisionOf(o)), sync(Git)>>

recover_residue ==
    IF Cur(CheckpointTemp) = "absent" THEN <<>>
    ELSE <<unlink(CheckpointTemp), sync(Checkpoints)>>

\* Mutant: the directory of the checkpoint is not synced.
replace_unsynced(o) == write_new(CheckpointTemp, RevisionOf(o)) \o <<rename(CheckpointTemp, Checkpoint)>>

replace_expected(o) ==
    write_new(CheckpointTemp, RevisionOf(o))
        \o <<rename(CheckpointTemp, Checkpoint), sync(Checkpoints)>>

persist == write_new(Incident, "whole") \o <<sync(Quarantine)>>

\* The entries of a directory, in order, each directory after its own; then its sync.
RECURSIVE remove_contents(_)
remove_contents(d) ==
    LET names == SetToSortSeq(Children(d), Before)
    IN  FlattenSeq([n \in DOMAIN names |-> 
            (IF Children(names[n]) = {} THEN <<>> ELSE remove_contents(names[n]))
                \o <<unlink(names[n])>>]) \o <<sync(d)>>

retire_operation(o) == remove_contents(Slot(o)) \o <<unlink(Slot(o)), sync(Pending)>>

Slots == {o \in Op : Cur(Slot(o)) # "absent"}
Documents == {o \in Op : Cur(Doc(o)) # "absent"}
CleanDisposable ==
    FlattenSeq([o \in Op |-> IF o \in Slots \ Documents THEN retire_operation(o) ELSE <<>>])

LayoutResidue(o) ==
    IF Cur(DocTemp(o)) = "absent" THEN <<>> ELSE <<unlink(DocTemp(o)), sync(Slot(o))>>

---------------------------------------------------------------------------
(* Readers *)

\* validate_closed_layout once it has removed the temporaries.
ClosedLayout(o) ==
    Children(Slot(o)) = {Additions(o), Doc(o), Repo(o)} /\ Cur(Repo(o)) = "whole"

\* for_each_addition: the additions it visits, or an error.
AdditionsReadable(o) ==
    /\ Cur(Index(o)) = "whole"
    /\ Children(Additions(o)) = {Blobs(o), Chunks(o), Index(o)}
    /\ Children(Chunks(o)) = {Chunk(o, i) : i \in ChunksOf(o)}
    /\ Children(Blobs(o)) = {BlobChunk(o, i) : i \in ChunksOf(o)}
    /\ \A i \in ChunksOf(o) :
         /\ Cur(Chunk(o, i)) = "whole"
         /\ Children(BlobChunk(o, i)) = BlobsOf(o, i)
         /\ \A b \in Children(BlobChunk(o, i)) : Cur(b) = "whole"
for_each_addition(o) ==
    FlattenSeq([i \in 1 .. chunk_count(adds[o]) |->
        [k \in 1 .. GroupCount(adds[o], i - 1) |-> (i - 1) * PerChunk + k - 1]])

AllVisible(o) == \A p \in Files(o) : Cur(p) = "whole"
NoneVisible(o) == \A p \in Files(o) : Cur(p) = "absent"
\* The visible tree is the observed base of the operation, or its candidate.
VisibleBase(o) == (\A b \in 1 .. o - 1 : AllVisible(b)) /\ (\A n \in o .. 2 : NoneVisible(n))
VisibleCandidate(o) == (\A b \in 1 .. o : AllVisible(b)) /\ (\A n \in o + 1 .. 2 : NoneVisible(n))
\* validate_visible_s4b_locked: a batch and its records are there together or not at all.
VisibleValid == \A o \in Op : AllVisible(o) \/ NoneVisible(o)

---------------------------------------------------------------------------
(* sync_git_union_locked *)

Goto(step, script) ==
    /\ pc' = step /\ todo' = script
    /\ UNCHANGED <<counts, adds, disk, out, deaths, blame>>
Return(result) ==
    /\ pc' = "idle" /\ op' = 0 /\ out' = result
    /\ UNCHANGED <<counts, adds, disk, todo, link, deaths, blame>>
Ready(step) == pc = step /\ todo = <<>>

\* quarantine::active, then checkpoint::read.
Call ==
    /\ Ready("idle")
    /\ CASE Cur(Incident) = "whole" -> Return("Quarantined")
         [] Cur(Incident) = "empty" -> Return("incident")
         [] OTHER -> /\ pc' = "discover" /\ todo' = recover_residue /\ out' = "none"
                     /\ UNCHANGED <<counts, adds, disk, op, link, deaths, blame>>

Accepted == CHOOSE o \in 0 .. 2 : Cur(Checkpoint) = RevisionOf(o)

Discover ==
    /\ Ready("discover")
    /\ IF Cur(Checkpoint) \notin {RevisionOf(o) : o \in 0 .. 2} THEN Return("checkpoint")
       ELSE IF \E o \in Documents : Cur(Doc(o)) = "empty" THEN Return("document")
       ELSE IF Documents = Op /\ ~(link /\ Cur(Doc(1)) = "RemoteCasStale") THEN Return("succession")
       ELSE IF Documents # {}
            THEN /\ op' = CHOOSE o \in Documents : \A b \in Documents : b <= o
                 /\ Goto("layout", CleanDisposable \o LayoutResidue(op')) /\ UNCHANGED link
       ELSE /\ op' = Accepted + 1 /\ link' = FALSE
            /\ Goto("start", CleanDisposable)

\* start_sync_operation up to the repository.  The visible tree must be the one of the
\* local tip, which is the checkpoint's or the candidate's of an operation that was lost.
\* After two operations there is nothing more to bring.
LocalTip(o) == Cur(Ref) = RevisionOf(o)
Start ==
    /\ Ready("start")
    /\ IF op \notin Op THEN Return("UpToDate")
       ELSE IF (LocalTip(op - 1) /\ VisibleBase(op)) \/ (LocalTip(op) /\ VisibleCandidate(op))
       THEN /\ adds' = [adds EXCEPT ![op] = IF VisibleCandidate(op) THEN 0 ELSE counts[op]]
            /\ pc' = "stage"
            /\ todo' = create_operation(op) \o <<create(Repo(op)), write(Repo(op), "whole")>>
            /\ UNCHANGED <<counts, disk, op, link, out, deaths, blame>>
       ELSE Return("mismatch")

\* The histories are hostile, or the additions cannot be staged.
StartQuarantines ==
    /\ Ready("stage")
    /\ Goto("persist", persist) /\ UNCHANGED <<op, link>>
StartRefused ==
    /\ Ready("stage") /\ (adds[op] > MaxCount \/ ~TotalsMatch(op))
    /\ Return(IF adds[op] > MaxCount THEN "capacity" ELSE "totals")

Stage ==
    /\ Ready("stage") /\ adds[op] <= MaxCount /\ TotalsMatch(op)
    /\ Goto("stage_additions", stage_known_additions(op) \o <<fsync(Repo(op)), sync(Slot(op))>>)
    /\ UNCHANGED <<op, link>>
PublishDocument ==
    /\ Ready("stage_additions")
    /\ Goto("publish_document", publish_document(op)) /\ UNCHANGED <<op, link>>

\* The operation is pending; its predecessor is retired.
Started ==
    /\ Ready("publish_document")
    /\ IF link THEN Goto("retire_predecessor", retire_operation(op - 1)) ELSE Goto("layout", <<>>)
    /\ UNCHANGED <<op, link>>
PredecessorRetired ==
    /\ Ready("retire_predecessor")
    /\ Goto("layout", <<>>) /\ UNCHANGED <<op, link>>

---------------------------------------------------------------------------
(* recover_sync_operation *)

QuarantinePublication == Goto("persist", persist) /\ UNCHANGED <<op, link>>
Persisted == Ready("persist") /\ Return("Quarantined")

Layout ==
    /\ Ready("layout")
    /\ IF ClosedLayout(op) /\ AdditionsReadable(op)
       THEN Goto("visible", <<>>) /\ UNCHANGED <<op, link>>
       ELSE Return("layout")

\* The loop: visible tree, local ref, checkpoint, then the phase.  Each surface is old,
\* candidate, or neither.
VisibleOld ==
    /\ Ready("visible") /\ VisibleBase(op) /\ adds[op] = counts[op]
    /\ Goto("publish", Publish(op)) /\ UNCHANGED <<op, link>>
VisibleNew ==
    /\ \/ Ready("visible") /\ ~VisibleBase(op)
       \/ Ready("publish")
    /\ VisibleCandidate(op)
    /\ Goto("local_ref", <<>>) /\ UNCHANGED <<op, link>>
\* A tree published in part is an error, and no incident is written for it.
VisibleInvalid ==
    /\ Ready("visible") \/ Ready("publish")
    /\ ~VisibleValid /\ Return("tree")
LocalRef ==
    /\ Ready("local_ref") /\ Cur(Ref) \in {RevisionOf(op - 1), RevisionOf(op)}
    /\ Goto("checkpoint", advance_local_ref(op) \o recover_residue) /\ UNCHANGED <<op, link>>
CheckpointOld ==
    /\ Ready("checkpoint") /\ Cur(Checkpoint) = RevisionOf(op - 1)
    /\ Goto("phase", replace_expected(op)) /\ UNCHANGED <<op, link>>
CheckpointNew ==
    /\ Ready("checkpoint") /\ Cur(Checkpoint) = RevisionOf(op)
    /\ Goto("phase", <<>>) /\ UNCHANGED <<op, link>>
Foreign ==
    \/ /\ Ready("visible") \/ Ready("publish")
       /\ VisibleValid /\ ~VisibleCandidate(op)
       /\ ~(Ready("visible") /\ VisibleBase(op) /\ adds[op] = counts[op])
    \/ Ready("local_ref") /\ Cur(Ref) \notin {RevisionOf(op - 1), RevisionOf(op)}
    \/ Ready("checkpoint") /\ Cur(Checkpoint) \notin {RevisionOf(op - 1), RevisionOf(op)}
SurfaceForeign == Foreign /\ QuarantinePublication

InPhase(phase) == Ready("phase") /\ Cur(Doc(op)) = phase
Again(script) == Goto("visible", script) /\ UNCHANGED <<op, link>>

Prepared ==
    InPhase("Prepared") /\ Again(Publish(op) \o replace_document(op, "FilesPublished"))
FilesPublished ==
    /\ InPhase("FilesPublished")
    /\ Again(advance_local_ref(op) \o replace_document(op, "LocalRefPublished"))
LocalRefPublished ==
    InPhase("LocalRefPublished") /\ Again(replace_document(op, "CheckpointPublished"))

\* The push is observed, or another tip is, or nothing, or the ref is gone.
PushConfirmed ==
    InPhase("CheckpointPublished") /\ Again(replace_document(op, "RemoteCasConfirmed"))
PushStale ==
    /\ InPhase("CheckpointPublished") /\ op = 1
    /\ Goto("stale", replace_document(op, "RemoteCasStale")) /\ UNCHANGED <<op, link>>
StaleReturned == Ready("stale") /\ Return("StaleRemoteCas")
PushUnobserved == InPhase("CheckpointPublished") /\ Return("error")
RefMissing == InPhase("CheckpointPublished") /\ QuarantinePublication

RemoteCasStale ==
    /\ InPhase("RemoteCasStale")
    /\ op' = op + 1 /\ link' = TRUE
    /\ Goto("start", <<>>)

\* The last look at every surface: the remote may have moved on.
ConfirmedMoved == InPhase("RemoteCasConfirmed") /\ QuarantinePublication
RemoteCasConfirmed ==
    /\ InPhase("RemoteCasConfirmed")
    /\ Goto("retire", (IF op = 2 /\ 1 \in Documents THEN retire_operation(1) ELSE <<>>)
                        \o retire_operation(op))
    /\ UNCHANGED <<op, link>>
Retired == Ready("retire") /\ Return("Advanced")

Recover ==
    \/ Layout \/ VisibleOld \/ VisibleNew \/ VisibleInvalid \/ LocalRef \/ CheckpointOld \/ CheckpointNew
    \/ SurfaceForeign \/ Prepared \/ FilesPublished \/ LocalRefPublished
    \/ PushConfirmed \/ PushStale \/ StaleReturned \/ PushUnobserved \/ RefMissing
    \/ RemoteCasStale \/ ConfirmedMoved \/ RemoteCasConfirmed \/ Retired

---------------------------------------------------------------------------
(* Deaths *)

\* The process dies; the files stay as it left them.
Kill ==
    /\ "kill" \in Deaths /\ deaths < MaxDeaths /\ pc # "idle"
    /\ deaths' = deaths + 1 /\ blame' = blame \cup {pc}
    /\ pc' = "idle" /\ todo' = <<>> /\ op' = 0
    /\ UNCHANGED <<counts, adds, disk, link, out>>

\* Every path keeps one of its survivors, if its directories survive.
Torn == soft \cup {x[1] : x \in old}
Outcomes == FoldSet(LAMBDA p, S : {(p :> c) @@ f : f \in S, c \in Survivors(p)}, {cur}, Torn)
Surviving(f) ==
    LET There(p) == p \in DOMAIN f /\ f[p] # "absent"
        Up(p) == IF Parent(p)[2] = 0 THEN p ELSE Parent(p)
        Kept(p) == There(p) /\ There(Up(p)) /\ There(Up(Up(p))) /\ There(Up(Up(Up(p))))
                            /\ There(Up(Up(Up(Up(p)))))
    IN  [p \in {q \in DOMAIN f : Kept(q)} |-> f[p]]

PowerLoss ==
    /\ "power" \in Deaths /\ deaths < MaxDeaths
    /\ cur' \in {Surviving(f) : f \in Outcomes}
    /\ soft' = {} /\ old' = {}
    /\ deaths' = deaths + 1 /\ blame' = blame \cup {pc}
    /\ pc' = "idle" /\ todo' = <<>> /\ op' = 0
    /\ UNCHANGED <<counts, adds, link, out>>

Next ==
    \/ Step \/ Call \/ Discover
    \/ Start \/ StartQuarantines \/ StartRefused \/ Stage \/ PublishDocument \/ Started
    \/ PredecessorRetired \/ Recover \/ Persisted
    \/ Kill \/ PowerLoss

Spec == Init /\ [][Next]_vars

---------------------------------------------------------------------------
(* Properties *)

Retiring == {"retire", "retire_predecessor"} \cap ({pc} \cup blame) # {}

\* start_sync_operation makes the additions and the repository durable before it writes
\* the document: whatever a power loss leaves of a slot that is not being retired, a
\* readable document finds all it refers to.
DocumentBacked ==
    \A o \in Op : Survivors(Doc(o)) \cap Phases # {} /\ ~Retiring =>
        \A p \in Staged(o) \cup {Slot(o), Repo(o)} : Survivors(p) = {"whole"}

\* The checkpoint accepts files only while they, or the operation that owes them, are
\* durable: after any power loss an accepted file that is missing has a pending document.
\* It takes two earlier deaths to break it, one between the document and its directory's
\* sync and one between a published file and its directory's sync: recovery repeats neither
\* sync before it replaces the checkpoint.
AcceptedOwedOrDurable ==
    {"publish_document", "publish"} \subseteq blame \/
    \A o \in Op : (\E a \in o .. 2 : RevisionOf(a) \in Survivors(Checkpoint)) =>
        \/ \A p \in Files(o) : Survivors(p) = {"whole"}
        \/ Survivors(Doc(o)) \subseteq Phases

\* Deaths are recovered from: a later call refuses the store with an error only for an
\* empty pending.json, or one that a power loss took back after recovery had used it (a
\* death in publish_document); for files published in part (a death in publish_addition);
\* for additions missing under a document that was being retired; for a predecessor's
\* phase that a power loss took back (a death in the replacement of its document); or for
\* an empty incident (a death in persist).  It quarantines a surface that is neither old
\* nor candidate only where a power loss took back a document or a checkpoint that
\* recovery had used (a death in publish_document or replace_expected).  No other death,
\* and no residue of one, stops a later call.  This is a statement about two deaths: a
\* third can give a "mismatch" without publish_document, when both operations die in
\* replace_expected before its directory sync and a power loss takes both checkpoints back.
RefusalExplained ==
    /\ out = "document" => "publish_document" \in blame
    /\ out = "layout" => "retire" \in blame
    /\ out = "incident" => "persist" \in blame
    /\ out = "mismatch" => "publish_document" \in blame
    /\ out = "succession" => "stale" \in blame
    /\ out # "checkpoint"
    /\ out = "tree" => "publish" \in blame
    /\ Foreign => {"publish_document", "phase"} \cap blame # {}

\* Counts of zero, of full chunks and at capacity are staged and read back whole: the
\* stream matches its declared totals, and recovery visits every addition once, in order.
AdditionsExact ==
    /\ out # "totals"
    /\ pc \in {"visible", "publish"} =>
         for_each_addition(op) = [k \in 1 .. adds[op] |-> k - 1]

\* What a call reports outlives the process and the power.  Advanced: its files, its ref
\* and its checkpoint are durable, unless an earlier process died in replace_expected, for
\* checkpoint::read accepts the renamed file and does not repeat the sync of its directory.
\* Quarantined: the incident is durable, unless a process died while it wrote one (persist).
ReportedDurable ==
    /\ out = "Advanced" /\ "phase" \notin blame /\ pc = "idle" =>
        /\ \E o \in Op : Survivors(Checkpoint) = {RevisionOf(o)} /\ Survivors(Ref) = {RevisionOf(o)}
        /\ \A o \in 1 .. Accepted : \A p \in Files(o) : Survivors(p) = {"whole"}
    /\ out = "Quarantined" /\ "persist" \notin blame => Survivors(Incident) = {"whole"}
=============================================================================
