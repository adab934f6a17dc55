------------------------------- MODULE Replay -------------------------------
(* The bounded replay validation of streaming.rs, which Git synchronization    *)
(* uses instead of the in-memory scan of store.rs.  The visible files arrive   *)
(* in directory order, which is any order; their payloads are appended to one  *)
(* temporary file, and sorted facts about them are joined from disk.  The      *)
(* folds of DomainFold are its last stage.  Collected is the in-memory scan,   *)
(* scan_collected_with_legacy_mode, written over the set of files: the two     *)
(* must agree whatever the directory order and the sorter's run length.        *)
(*                                                                             *)
(* A file is a record with a path (its rank in byte order), a class and the    *)
(* fields its class has.  Digests are the digested content itself.             *)
EXTENDS DomainFold, SequencesExt

CONSTANTS
    Scenarios,      \* what may be validated: files, strictness and legacy adapter
    Slices,         \* the operation slices handed to the public fold functions
    RunFacts,       \* facts per sorted run, SORT_RUN_BYTES
    MaxTemporary,   \* MAX_REPLAY_TEMPORARY_BYTES, in facts and payloads
    MaxEntries      \* the scan's entry limit

VARIABLES
    corpus,     \* the visible files
    strict,     \* Store::strict_domains
    adapter,    \* the legacy adapter: "bounded", "partial" or "collecting"
    phase,      \* the stage of validate_bounded_replay_inner
    unread,     \* files the directory walk has not reached
    payloads,   \* the payload file: the files in the order they were spooled
    entries,    \* the sorted entry facts, path to payload location
    used,       \* ReplayTempBudget.used
    facts,      \* ReplayFacts
    claimAt, recordAt, issue, enriched,         \* the merge join of claims and records
    statusAt, headerAt,                         \* the batch loop
    outcome     \* "none", "ok" or the error

replayVars == <<corpus, strict, adapter, phase, unread, payloads, entries, used, facts,
                claimAt, recordAt, issue, enriched, statusAt, headerAt, outcome>>
joinVars   == <<claimAt, recordAt, issue, enriched, statusAt, headerAt>>
vars       == <<foldVars, replayVars>>

-----------------------------------------------------------------------------
(* ExternalSorter *)

Fact(k, t, v) == [key |-> k, tie |-> t, value |-> v]

KeyLess(a, b) == \E i \in DOMAIN a : a[i] < b[i] /\ \A j \in 1 .. i - 1 : a[j] = b[j]
FactLess(f, g) == KeyLess(f.key, g.key) \/ (f.key = g.key /\ f.tie < g.tie)

\* push and flush_run: the facts in arrival order, cut into sorted runs.
RunsOf(s) ==
    LET n == (Len(s) + RunFacts - 1) \div RunFacts
        Cut(i) == SubSeq(s, (i - 1) * RunFacts + 1, IF i = n THEN Len(s) ELSE i * RunFacts)
    IN  [i \in 1 .. n |-> SortSeq(Cut(i), FactLess)]

\* The merge loop of finish takes the least head, from the earliest run on a tie.
RECURSIVE Merge(_)
Merge(runs) ==
    LET live  == {i \in DOMAIN runs : runs[i] # <<>>}
        least == {i \in live : \A j \in live : ~FactLess(Head(runs[j]), Head(runs[i]))}
    IN  IF live = {} THEN <<>>
        ELSE <<Head(runs[Min(least)])>> \o Merge([runs EXCEPT ![Min(least)] = Tail(@)])

ExternalSort(s) == IF Len(s) <= RunFacts THEN SortSeq(s, FactLess) ELSE Merge(RunsOf(s))

\* Every fact is written once to a run, and once more when runs are merged.
SortCost(s) == IF Len(s) <= RunFacts THEN Len(s) ELSE 2 * Len(s)

-----------------------------------------------------------------------------
(* The visible files *)

\* A legacy file is a batch, or the event of an entity.
NoEntity == 0
\* The walk takes batches, events and journal in this order.
Root(f) == IF f.class # "legacy" THEN 3 ELSE IF f.entity = NoEntity THEN 1 ELSE 2
Regular(f) == f.class \in {"legacy", "batch", "record"}

\* The directory that holds a journal file, below journal.
DirectoryOf(f) == IF f.class = "record" THEN <<"records", f.domain, f.entity>> ELSE <<"batches">>

\* The directories above a file that count as entries: all but batches, events and journal.
Parents(f) ==
    IF f.class # "legacy" THEN {SubSeq(DirectoryOf(f), 1, k) : k \in DOMAIN DirectoryOf(f)}
    ELSE IF f.entity = NoEntity THEN {} ELSE {<<"events", f.entity>>}
Shared(f, g) == Cardinality(Parents(f) \cap Parents(g))

\* enforce_limits and ScanBudget: files and directories, each once.
EntryTotal(files) == Cardinality(files) + Cardinality(UNION {Parents(f) : f \in files})

\* CanonicalEntryBudget: the same count from the sorted stream, remembering one file.
StreamedEntries(s) ==
    MapThenSumSet(LAMBDA i : 1 + Cardinality(IF i = 1 THEN Parents(s[1])
                                             ELSE Parents(s[i]) \ Parents(s[i - 1])), DOMAIN s)

\* The sealed registry: one schema of each built-in domain, two of an application's.
Registered(f) == f.schema = 1 \/ (f.domain = "app" /\ f.schema = 2)

\* The validators of the registrations: validate_identity_payload, and the conversion
\* that validate_profile_payload and validate_catalog_payload try.
PayloadValid(f) ==
    /\ f.domain = "identity" => f.verb = "genesis" /\ f.forkOk
    /\ Foldable(f) => Conversion(f) = "supported"

\* decode_record against the sealed registry, decode_batch_manifest, and the check
\* that the decoded identity names the path the file was found at.
Decoded(f) ==
    CASE f.class = "batch"  -> IF \/ ~f.decodes \/ f.members = <<>>
                                  \/ ~Strict([i \in DOMAIN f.members |-> f.members[i].path])
                               THEN "InvalidManifest"
                               ELSE IF f.home THEN "ok" ELSE "InvalidCanonicalPath"
      [] f.class = "record" ->
            IF \/ ~f.decodes \/ ~Strict(f.parents) \/ f.id \in Elems(f.parents)
               \/ ~Registered(f) \/ ~PayloadValid(f)
            THEN "InvalidRecord"
            ELSE IF f.home THEN "ok" ELSE "InvalidCanonicalPath"
      [] f.class = "legacy" -> "ok"
      [] OTHER -> "InvalidCanonicalPath"

Reserved(f) == f.domain \in {"identity", "profile", "catalog"}
IsGenesis(f) == f.domain = "identity" /\ f.schema = 1 /\ f.verb = "genesis"

\* validate_batch_members for one manifest, given the stored file of each member.
MemberError(manifest, member, file) ==
    IF file.content # member.content THEN "MemberDigestMismatch"
    ELSE IF file.id # member.id \/ file.schema # member.schema THEN "MemberIdentityMismatch"
    ELSE IF file.batch # manifest.batch THEN "MemberBatchMismatch"
    ELSE IF file.actor # manifest.actor THEN "MemberActorMismatch"
    ELSE "ok"

\* The request digest covers every member's path and bytes in manifest order.
RequestOf(pairs) == pairs

GenesisError(g) ==
    IF ~g.entityOk THEN "EntityMismatch" ELSE IF ~g.forkOk THEN "ForkReusesParentUuid" ELSE "ok"

-----------------------------------------------------------------------------
(* scan_collected_with_legacy_mode over the same files *)

Files(class) == {f \in corpus : f.class = class}
ByPath(S) == SortSeq(FoldSet(LAMBDA f, s : Append(s, f), <<>>, S), LAMBDA f, g : f.path < g.path)
StoredAt(p) == {f \in Files("record") : f.path = p}
ManifestError(m) ==
    LET missing == \E i \in DOMAIN m.members : StoredAt(m.members[i].path) = {}
        file(i) == CHOOSE f \in StoredAt(m.members[i].path) : TRUE
        bad     == {i \in DOMAIN m.members : MemberError(m, m.members[i], file(i)) # "ok"}
        pairs   == [i \in DOMAIN m.members |-> <<m.members[i].path, file(i).content>>]
    IN  IF missing THEN "OwnershipMissingMember"
        ELSE IF bad # {} THEN MemberError(m, m.members[Min(bad)], file(Min(bad)))
        ELSE IF m.request # RequestOf(pairs) THEN "RequestDigestMismatch" ELSE "ok"

Owners(f) == {m \in Files("batch") : \E i \in DOMAIN m.members : m.members[i].path = f.path}

\* validate_batch_ownership: every manifest in order, then every record in path order.
OwnershipError ==
    LET manifests == ByPath(Files("batch"))
        records   == ByPath(Files("record"))
        badBatch  == {i \in DOMAIN manifests : ManifestError(manifests[i]) # "ok"}
        badOwner  == {i \in DOMAIN records : Cardinality(Owners(records[i])) # 1}
    IN  IF badBatch # {} THEN ManifestError(manifests[Min(badBatch)])
        ELSE IF badOwner = {} THEN "ok"
        ELSE IF Owners(records[Min(badOwner)]) = {} THEN "UnownedRecord" ELSE "MultiplyOwnedRecord"

\* validate_store_identity: one genesis, alone in the first batch.
IdentityError ==
    LET genesis == {f \in Files("record") : IsGenesis(f)}
        first   == ByPath(Files("batch"))[1]
        g       == CHOOSE f \in genesis : TRUE
    IN  IF Files("batch") = {} /\ Files("record") = {} THEN "ok"
        ELSE IF \E f \in Files("record") : f.domain = "identity" /\ f.schema # 1 THEN "InvalidRecord"
        ELSE IF genesis = {} THEN "MissingGenesis"
        ELSE IF Cardinality(genesis) > 1 THEN "DuplicateGenesis"
        ELSE IF g.batch # first.batch \/ Len(first.members) # 1 \/ first.members[1].id # g.id
             THEN "GenesisNotFirst"
        ELSE GenesisError(g)

Member(s, id) == CHOOSE o \in Elems(s) : o.id = id

\* observes_bounded as a function: whether goal is found from the stack of identifiers,
\* what is left of the budget, and whether it ran out.
RECURSIVE Observes(_, _, _, _, _)
Observes(s, goal, stack, seen, left) ==
    LET id == Last(stack) IN
    IF stack = <<>> THEN [found |-> FALSE, left |-> left, over |-> FALSE]
    ELSE IF left = 0 THEN [found |-> FALSE, left |-> 0, over |-> TRUE]
    ELSE IF id = goal THEN [found |-> TRUE, left |-> left - 1, over |-> FALSE]
    ELSE Observes(s, goal, Front(stack) \o (IF id \in seen THEN <<>> ELSE Member(s, id).parents),
                  seen \cup {id}, left - 1)

\* The identifiers among ids that operation o observes, asked for one after the other.
Asked(s, o, ids, steps) ==
    FoldLeft(LAMBDA a, id : LET r == Observes(s, id, o.parents, {}, a.left) IN
                 [seen |-> IF r.found THEN a.seen \cup {id} ELSE a.seen,
                  left |-> r.left, over |-> a.over \/ r.over],
             [seen |-> {}, left |-> steps, over |-> FALSE],
             SetToSortSeq(ids, LAMBDA i, j : i < j))

\* apply_operation for the identifiers in order, given the live ones of each slot.
RECURSIVE Applied(_, _, _, _)
Applied(s, order, live, left) ==
    LET o     == Member(s, Head(order))
        ids   == IF o.verb = "add" THEN {} ELSE {x[2] : x \in {y \in live : y[1] = Slot(o)}}
        asked == Asked(s, o, ids, left)
        kept  == live \ {<<Slot(o), id>> : id \in asked.seen}
    IN  IF order = <<>> THEN "ok"
        ELSE IF asked.over THEN "ReachabilityBudget"
        ELSE IF o.verb = "resolve" /\ Misnames(o, asked.seen) THEN "InvalidResolution"
        ELSE IF o.verb = "remove" /\ Misnames(o, asked.seen) THEN "InvalidObservedRemove"
        ELSE Applied(s, Tail(order), IF o.verb = "remove" THEN kept ELSE kept \cup {<<Slot(o), o.id>>},
                     asked.left)

\* The canonical order of the identifiers, as far as it goes.
RECURSIVE OrderFrom(_, _)
OrderFrom(s, done) ==
    LET next == {o.id : o \in {x \in Elems(s) : x.id \notin Elems(done)
                                               /\ Elems(x.parents) \subseteq Elems(done)}}
    IN  IF next = {} THEN done ELSE OrderFrom(s, Append(done, Min(next)))

\* fold_profile or fold_catalogs on the operations of one group.
FoldError(s) ==
    LET ids   == {o.id : o \in Elems(s)}
        bad   == {i \in DOMAIN s : ~Strict(s[i].parents) \/ \E j \in 1 .. i - 1 : s[j].id = s[i].id}
        order == OrderFrom(s, <<>>)
    IN  IF Len(s) > MaxOperations THEN "TooManyOperations"
        ELSE IF EdgeTotal(s) > MaxEdges THEN "TooManyEdges"
        ELSE IF bad # {}
             THEN IF Strict(s[Min(bad)].parents) THEN "DuplicateRecordId" ELSE "InvalidParents"
        ELSE IF \E o \in Elems(s) : ~(Elems(o.parents) \subseteq ids) THEN "DanglingParent"
        ELSE IF Len(order) # Len(s) THEN "Cycle"
        ELSE Applied(s, order, {}, MaxSteps)

\* validate_builtin_folds: all operations are converted, then grouped in a map whose
\* keys are ordered by domain and entity, then folded group by group.
FoldsError ==
    LET records == SelectSeq(ByPath(Files("record")), Foldable)
        odd     == {i \in DOMAIN records : Conversion(records[i]) # "supported"}
        Rank(g) == IF g[1] = "catalog" THEN 0 ELSE 1
        groups  == SetToSortSeq({GroupOf(r) : r \in Elems(records)},
                     LAMBDA g, h : Rank(g) < Rank(h) \/ (Rank(g) = Rank(h) /\ g[2] < h[2]))
        errors  == [i \in DOMAIN groups |->
                     FoldError(SelectSeq(records, LAMBDA r : GroupOf(r) = groups[i]))]
        bad     == {i \in DOMAIN errors : errors[i] # "ok"}
    IN  IF odd # {} THEN Conversion(records[Min(odd)])
        ELSE IF bad # {} THEN errors[Min(bad)] ELSE "ok"

\* The verdict of the in-memory scan, in its order of checks.  The legacy adapter, which
\* it calls last, is LegacyInvalid.
Collected ==
    LET ordered_ == ByPath({f \in corpus : f.class # "nonregular"})
        bad == {i \in DOMAIN ordered_ : Decoded(ordered_[i]) # "ok"}
        Records == Files("record")
    IN  IF EntryTotal(corpus) > MaxEntries THEN "EntryLimit"
        ELSE IF Files("nonregular") # {} THEN "NonRegularPath"
        ELSE IF bad # {} THEN Decoded(ordered_[Min(bad)])
        ELSE IF \E f, g \in Records : f # g /\ f.id = g.id THEN "DuplicateGlobalRecordId"
        ELSE IF \E m, n \in Files("batch") : m # n /\ m.actor = n.actor /\ m.key = n.key
             THEN "DuplicateIdempotencyOwnership"
        ELSE IF OwnershipError # "ok" THEN OwnershipError
        ELSE IF ~strict /\ \E f \in Records : Reserved(f) THEN "ReservedInLegacyMode"
        ELSE IF ~strict THEN "ok"
        ELSE IF IdentityError # "ok" THEN IdentityError ELSE FoldsError

LegacyInvalid == \E f \in Files("legacy") : ~f.valid

-----------------------------------------------------------------------------
(* validate_bounded_replay_inner *)

NoFacts == [records |-> <<>>, claims |-> <<>>, headers |-> <<>>]

Init ==
    /\ FoldInit
    /\ \/ \E s \in Scenarios : corpus = s.files /\ strict = s.strict /\ adapter = s.adapter
          /\ phase = "spool"
       \/ corpus = {} /\ strict = TRUE /\ adapter = "bounded" /\ phase = "fold function"
    /\ unread = corpus /\ payloads = <<>> /\ entries = <<>> /\ used = 0 /\ facts = NoFacts
    /\ claimAt = 1 /\ recordAt = 1 /\ issue = "ok" /\ enriched = <<>>
    /\ statusAt = 1 /\ headerAt = 1 /\ outcome = "none"

Reject(error) == phase' = "done" /\ outcome' = error
Goto(next) == phase' = next /\ UNCHANGED outcome
Same == UNCHANGED <<corpus, strict, adapter>>

\* spool_visible_replay_directory meets the next name, in any order within a directory
\* and depth first; batches and events come before journal.
Spool(f) ==
    /\ phase = "spool" /\ f \in unread /\ \A g \in unread : Root(f) <= Root(g)
    /\ payloads # <<>> => \A g \in unread : Shared(g, Last(payloads)) <= Shared(f, Last(payloads))
    /\ unread' = unread \ {f}
    /\ IF EntryTotal(corpus \ unread') > MaxEntries
       THEN Reject("EntryLimit") /\ UNCHANGED <<payloads, used>>
       ELSE IF ~Regular(f)
       THEN /\ Reject(IF f.class = "nonregular" THEN "NonRegularPath" ELSE "InvalidCanonicalPath")
            /\ UNCHANGED <<payloads, used>>
       ELSE IF used + 1 > MaxTemporary
       THEN Reject("TemporaryLimit") /\ UNCHANGED <<payloads, used>>
       ELSE payloads' = Append(payloads, f) /\ used' = used + 1 /\ UNCHANGED <<phase, outcome>>
    /\ Same /\ UNCHANGED <<entries, facts, joinVars, foldVars>>

\* CanonicalReplayBuilder::finish sorts the entries and counts them again.
SortEntries ==
    /\ phase = "spool" /\ unread = {}
    /\ LET arrived == [i \in DOMAIN payloads |-> Fact(<<payloads[i].path>>, 0, i)]
           sorted  == ExternalSort(arrived)
           files   == [i \in DOMAIN sorted |-> payloads[sorted[i].value]]
       IN  /\ entries' = sorted /\ used' = used + SortCost(arrived)
           /\ IF used' > MaxTemporary THEN Reject("TemporaryLimit")
              ELSE IF StreamedEntries(files) > MaxEntries THEN Reject("EntryLimit")
              ELSE Goto("legacy")
    /\ Same /\ UNCHANGED <<unread, payloads, facts, joinVars, foldVars>>

FileAt(i) == payloads[entries[i].value]

\* The adapter must have consumed its source to the end.
SourceAbandoned(read, source) == TRUE
SourceDrained(read, source) == read = source

\* validate_legacy: the source yields files until the first journal one.  A partial
\* adapter stops after one entry; the default adapter refuses the bounded contract.
Legacy ==
    /\ phase = "legacy"
    /\ LET journal == {i \in DOMAIN entries : FileAt(i).class # "legacy"}
           source  == IF journal = {} THEN DOMAIN entries ELSE 1 .. Min(journal) - 1
           read    == IF adapter = "partial" THEN source \cap {1} ELSE source
       IN  IF adapter = "collecting" \/ \E i \in read : ~FileAt(i).valid THEN Reject("InvalidLegacy")
           ELSE IF ~SourceDrained(read, source) THEN Reject("InvalidLegacy")
           ELSE Goto("facts")
    /\ Same /\ UNCHANGED <<unread, payloads, entries, used, facts, joinVars, foldVars>>

Indices(class) == SelectSeq([i \in DOMAIN entries |-> i], LAMBDA i : FileAt(i).class = class)

\* The revision digests every file in path order.
RevisionOfJournal == SelectSeq([i \in DOMAIN entries |-> FileAt(i)], LAMBDA f : f.class # "legacy")
Revision == [i \in DOMAIN entries |-> FileAt(i)]

\* The facts one pass over the sorted entries retains or spools.
FactsOf(batches, records) ==
    LET B(i) == FileAt(batches[i])
        R(i) == FileAt(records[i])
        genesis == {i \in DOMAIN records : IsGenesis(R(i))}
        claims(i) == [j \in DOMAIN B(i).members |->
                        Fact(<<B(i).members[j].path>>, B(i).batch, [batch |-> B(i).batch] @@ B(i).members[j])]
    IN  [revision |-> Revision,
         ids      |-> [i \in DOMAIN records |-> Fact(<<R(i).id>>, R(i).path, R(i).path)],
         records  |-> [i \in DOMAIN records |-> Fact(<<R(i).path>>, 0, entries[records[i]].value)],
         keys     |-> [i \in DOMAIN batches |-> Fact(<<B(i).actor, B(i).key>>, B(i).batch, B(i).batch)],
         claims   |-> FlattenSeq([i \in DOMAIN batches |-> claims(i)]),
         headers  |-> [i \in DOMAIN batches |-> Fact(<<B(i).batch>>, 0,
                        [batch |-> B(i).batch, actor |-> B(i).actor, request |-> B(i).request,
                         members |-> Len(B(i).members)])],
         first    |-> IF batches = <<>> THEN {} ELSE {B(1)},
         genesis  |-> {entries[records[i]].value : i \in genesis},
         odd      |-> \E i \in DOMAIN records : R(i).domain = "identity" /\ R(i).schema # 1,
         reserved |-> \E i \in DOMAIN records : Reserved(R(i))]

SortFacts(f) ==
    [f EXCEPT !.ids = ExternalSort(@), !.records = ExternalSort(@), !.keys = ExternalSort(@),
              !.claims = ExternalSort(@), !.headers = ExternalSort(@)]

FactCost(f) == SortCost(f.ids) + SortCost(f.records) + SortCost(f.keys) + SortCost(f.claims)
               + SortCost(f.headers)

\* collect_facts: decode in path order, then sort every fact stream.
CollectFacts ==
    /\ phase = "facts"
    /\ LET bad == {i \in DOMAIN entries : Decoded(FileAt(i)) # "ok"}
           all == FactsOf(Indices("batch"), Indices("record"))
       IN  IF bad # {} THEN Reject(Decoded(FileAt(Min(bad)))) /\ UNCHANGED <<facts, used>>
           ELSE /\ used' = used + FactCost(all)
                /\ facts' = SortFacts(all)
                /\ IF used' > MaxTemporary THEN Reject("TemporaryLimit") ELSE Goto("duplicates")
    /\ Same /\ UNCHANGED <<unread, payloads, entries, joinVars, foldVars>>

Repeats(s) == \E i \in 1 .. Len(s) - 1 : s[i].key = s[i + 1].key

\* validate_duplicate_record_ids and validate_duplicate_idempotency read neighbours.
Duplicates ==
    /\ phase = "duplicates"
    /\ IF Repeats(facts.ids) THEN Reject("DuplicateGlobalRecordId")
       ELSE IF Repeats(facts.keys) THEN Reject("DuplicateIdempotencyOwnership")
       ELSE Goto("join")
    /\ Same /\ UNCHANGED <<unread, payloads, entries, used, facts, joinVars, foldVars>>

Enrich(claim, location) ==
    Fact(<<claim.value.batch>> \o claim.key, 0, [claim |-> claim.value, location |-> location])
FirstIssue(found) == IF issue = "ok" THEN found ELSE issue

\* One turn of the merge join of validate_ownership_and_batches.  The first ownership
\* issue is only remembered: manifest errors are reported before it.
Join ==
    /\ phase = "join"
    /\ claimAt <= Len(facts.claims) \/ recordAt <= Len(facts.records)
    /\ LET claims  == facts.claims
           records == facts.records
           claim   == IF claimAt <= Len(claims) THEN {claims[claimAt].key} ELSE {}
           record  == IF recordAt <= Len(records) THEN {records[recordAt].key} ELSE {}
           claimFirst  == record = {} \/ \E c \in claim, r \in record : KeyLess(c, r)
           recordFirst == claim = {} \/ \E c \in claim, r \in record : KeyLess(r, c)
           owners  == {i \in claimAt .. Len(claims) : {claims[i].key} = record}
       IN  \/ /\ claimFirst
              /\ enriched' = Append(enriched, Enrich(claims[claimAt], 0))
              /\ claimAt' = claimAt + 1 /\ UNCHANGED <<recordAt, issue>>
           \/ /\ recordFirst
              /\ issue' = FirstIssue("UnownedRecord")
              /\ recordAt' = recordAt + 1 /\ UNCHANGED <<claimAt, enriched>>
           \/ /\ claim = record
              /\ enriched' = enriched \o [i \in 1 .. Cardinality(owners) |->
                                Enrich(claims[claimAt + i - 1], records[recordAt].value)]
              /\ claimAt' = claimAt + Cardinality(owners) /\ recordAt' = recordAt + 1
              /\ issue' = IF Cardinality(owners) > 1 THEN FirstIssue("MultiplyOwnedRecord") ELSE issue
    /\ Same /\ UNCHANGED <<phase, outcome, unread, payloads, entries, used, facts, statusAt, headerAt,
                           foldVars>>

EndJoin ==
    /\ phase = "join"
    /\ claimAt > Len(facts.claims) /\ recordAt > Len(facts.records)
    /\ used' = used + SortCost(enriched)
    /\ enriched' = ExternalSort(enriched)
    /\ IF used' > MaxTemporary THEN Reject("TemporaryLimit") ELSE Goto("batches")
    /\ Same /\ UNCHANGED <<unread, payloads, entries, facts, claimAt, recordAt, issue, statusAt,
                           headerAt, foldVars>>

\* What validate_batches finds for one manifest header and its statuses.
BatchError(header, statuses) ==
    LET file(i) == payloads[statuses[i].value.location]
        bad   == {i \in DOMAIN statuses : MemberError(header, statuses[i].value.claim, file(i)) # "ok"}
        pairs == [i \in DOMAIN statuses |-> <<statuses[i].key[2], file(i).content>>]
    IN  IF Len(statuses) # header.members THEN "StatusCountMismatch"
        ELSE IF \E i \in DOMAIN statuses : statuses[i].value.location = 0 THEN "OwnershipMissingMember"
        ELSE IF bad # {} THEN MemberError(header, statuses[Min(bad)].value.claim, file(Min(bad)))
        ELSE IF header.request # RequestOf(pairs) THEN "RequestDigestMismatch" ELSE "ok"

\* One manifest header of validate_batches takes the statuses that carry its batch.
CheckBatch ==
    /\ phase = "batches" /\ headerAt <= Len(facts.headers)
    /\ LET header == facts.headers[headerAt].value
           others == {i \in statusAt .. Len(enriched) : enriched[i].key[1] # header.batch}
           next   == IF others = {} THEN Len(enriched) + 1 ELSE Min(others)
           error  == BatchError(header, SubSeq(enriched, statusAt, next - 1))
       IN  /\ statusAt' = next /\ headerAt' = headerAt + 1
           /\ IF error = "ok" THEN UNCHANGED <<phase, outcome>> ELSE Reject(error)
    /\ Same /\ UNCHANGED <<unread, payloads, entries, used, facts, claimAt, recordAt, issue, enriched,
                           foldVars>>

EndBatches ==
    /\ phase = "batches" /\ headerAt > Len(facts.headers)
    /\ IF statusAt <= Len(enriched) THEN Reject("UnownedStatus")
       ELSE IF issue # "ok" THEN Reject(issue)
       ELSE IF ~strict /\ facts.reserved THEN Reject("ReservedInLegacyMode")
       ELSE IF strict THEN Goto("identity") ELSE Reject("ok")
    /\ Same /\ UNCHANGED <<unread, payloads, entries, used, facts, joinVars, foldVars>>

\* validate_replayed_identity from the retained facts.
ReplayedIdentity ==
    LET g == payloads[CHOOSE l \in facts.genesis : TRUE]
    IN  IF facts.headers = <<>> /\ facts.records = <<>> THEN "ok"
        ELSE IF facts.odd THEN "InvalidRecord"
        ELSE IF facts.genesis = {} THEN "MissingGenesis"
        ELSE IF Cardinality(facts.genesis) > 1 THEN "DuplicateGenesis"
        ELSE IF ~\E b \in facts.first : /\ b.batch = g.batch /\ Len(b.members) = 1
                                        /\ b.members[1].id = g.id
             THEN "GenesisNotFirst"
        ELSE GenesisError(g)

Stream == SelectSeq([i \in DOMAIN entries |-> FileAt(i)], LAMBDA f : f.class = "record")

Identity ==
    /\ phase = "identity"
    /\ IF ReplayedIdentity = "ok" THEN Goto("folds") /\ BeginReplay(Stream)
       ELSE Reject(ReplayedIdentity) /\ UNCHANGED foldVars
    /\ Same /\ UNCHANGED <<unread, payloads, entries, used, facts, joinVars>>

\* The folds end, and with them the validation.
Folded ==
    /\ phase = "folds" /\ stage = "done"
    /\ Reject(verdict)
    /\ Same /\ UNCHANGED <<unread, payloads, entries, used, facts, joinVars, foldVars>>

\* A public fold function is called on a slice of operations.
CallFold ==
    /\ phase = "fold function" /\ stage = "idle"
    /\ \E slice \in Slices, m \in {"profile", "catalogs", "catalog"} : BeginFold(m, slice)
    /\ UNCHANGED replayVars

\* The validation, or the fold function, has returned; nothing else may stop.
Returned ==
    /\ phase = "done" \/ (phase = "fold function" /\ stage = "done")
    /\ UNCHANGED vars

Next ==
    \/ phase = "spool" /\ \E f \in unread : Spool(f)
    \/ SortEntries \/ Legacy \/ CollectFacts \/ Duplicates \/ Join \/ EndJoin
    \/ CheckBatch \/ EndBatches \/ Identity \/ Folded
    \/ CallFold
    \/ phase \in {"folds", "fold function"} /\ FoldStep /\ UNCHANGED replayVars
    \/ Returned

Spec == Init /\ [][Next]_vars

-----------------------------------------------------------------------------
(* What the replay guarantees *)

\* The errors a directory walk or the legacy adapter reports before any journal file is
\* decoded, while the in-memory scan reports them in another place of its order.
WalkErrors == {"NonRegularPath", "InvalidCanonicalPath", "InvalidLegacy", "EntryLimit", "TemporaryLimit"}

\* The bounded replay and the in-memory scan agree.  The replay accepts nothing the scan
\* rejects, for any directory order, run length and legacy adapter; it rejects only what
\* the scan rejects, once the adapter implements the bounded contract and temporary space
\* suffices; and past the walk and the legacy adapter both name the same error, from the
\* first undecodable file to the last fold.  For the replay keeps the scan's order of
\* checks, remembers an ownership issue until every manifest is checked, and cuts its
\* sorted stream into the groups that the scan collects.
ScanAgrees ==
    outcome # "none" =>
        /\ outcome = "ok" => Collected = "ok" /\ ~LegacyInvalid
        /\ (outcome \notin {"ok", "TemporaryLimit"} /\ adapter = "bounded")
              => Collected # "ok" \/ LegacyInvalid
        /\ outcome \notin WalkErrors \cup {"ok"} => Collected = outcome

\* An accepted replay describes the visible files: the revision is accumulated over all
\* of them in path order, and the identity comes from the one genesis file.
StateAgrees ==
    outcome = "ok" =>
        /\ Range(facts.revision) = corpus
        /\ \A i \in 1 .. Len(facts.revision) - 1 : facts.revision[i].path < facts.revision[i + 1].path
        /\ {payloads[l] : l \in facts.genesis} = {f \in Files("record") : IsGenesis(f)}

=============================================================================
