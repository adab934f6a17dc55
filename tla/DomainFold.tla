----------------------------- MODULE DomainFold -----------------------------
(* The causal graph of causal.rs and the profile and catalog folds of          *)
(* domains.rs.  They run in two ways: on a slice of converted operations       *)
(* (fold_profile, fold_catalogs, fold_catalog), and on the path-ordered stream *)
(* of a replay, where validate_builtin_folds_bounded cuts the stream into one  *)
(* group per domain and entity and keeps headers only within the causal        *)
(* limits.  Records are abstracted to what the folds read: identifiers are     *)
(* naturals compared as the UUIDs are, and a payload value is a type, a token  *)
(* and whether its text, locator or key passes the length and control checks.  *)
EXTENDS Naturals, Sequences, FiniteSets, FiniteSetsExt

CONSTANTS
    Id,             \* record identifiers, a set of positive naturals
    MaxOperations,  \* MAX_CAUSAL_OPERATIONS
    MaxEdges,       \* MAX_CAUSAL_EDGES
    MaxSteps,       \* MAX_REACHABILITY_STEPS
    MaxReferences   \* MAX_REFERENCES

ASSUME IdAssumption == Id \subseteq Nat \ {0}
ASSUME BoundAssumption ==
    MaxOperations \in Nat /\ MaxEdges \in Nat /\ MaxSteps \in Nat /\ MaxReferences \in Nat

VARIABLES
    mode,       \* which entry point runs: "replay", "profile", "catalogs", "catalog"
    input,      \* the records handed in, in slice or path order
    stage,      \* where the validation stands
    at,         \* replay: the cursor into input
    key,        \* the group being collected, or NoGroup
    ops,        \* the operations of the graph being folded
    count,      \* FoldSummary.count
    edges,      \* FoldSummary.edges
    indegree, ready, ordered,                   \* CausalGraph::new
    applied,    \* how many operations of ordered have been applied
    active,     \* the registers and adds of FoldState: pairs <<slot, id>>
    todo, cand, pending, visited, observed,     \* observes_bounded for one operation
    budget, exceeded,
    verdict     \* "none" while running, "ok", or the error returned

sourceVars == <<mode, input>>
groupVars  == <<key, ops, count, edges>>
graphVars  == <<indegree, ready, ordered>>
searchVars == <<todo, cand, pending, visited, observed>>
limitVars  == <<budget, exceeded>>
foldVars   == <<mode, input, stage, at, key, ops, count, edges, indegree, ready, ordered,
                applied, active, todo, cand, pending, visited, observed, budget, exceeded, verdict>>

Elems(s) == {s[i] : i \in DOMAIN s}
Strict(s) == \A i, j \in DOMAIN s : i < j => s[i] < s[j]

-----------------------------------------------------------------------------
(* Conversion of a record to a DomainOperation *)

NoTarget == 0
NoId == 0
NoGroup == <<>>

\* The payload type each set or resolved scalar field requires.
ScalarType(domain) ==
    IF domain = "profile"
    THEN [display_name |-> "text", description |-> "text", application |-> "text"]
    ELSE [name |-> "text", enabled |-> "bool", default_store |-> "store"]

\* The payload type each added set member requires.
SetType(domain) ==
    IF domain = "profile"
    THEN [remote |-> "remote", relation |-> "qualified", capability |-> "text",
          alias |-> "text", policy_hint |-> "text"]
    ELSE [remote |-> "remote", relation |-> "relation", alias |-> "text", group |-> "text"]

ValidIds(ids) == ids # <<>> /\ Len(ids) <= MaxReferences /\ Strict(ids)

\* DomainOperation::try_from: "supported", or the OperationError it returns.
Conversion(r) ==
    LET scalar == r.verb \in {"set", "resolve"} /\ r.field \in DOMAIN ScalarType(r.domain)
        member == r.verb \in {"add", "remove"} /\ r.field \in DOMAIN SetType(r.domain)
        typed  == \/ scalar /\ r.value.type = ScalarType(r.domain)[r.field] /\ r.value.valid
                  \/ r.verb = "add" /\ r.value.type = SetType(r.domain)[r.field] /\ r.value.valid
                  \/ r.verb = "remove"
        named  == r.verb \in {"resolve", "remove"} => ValidIds(r.refs)
        keyed  == member => r.key.valid
        aimed  == (r.domain = "catalog") <=> (r.target # NoTarget)
    IN  IF r.domain \notin {"profile", "catalog"} \/ r.schema # 1 \/ ~(scalar \/ member)
        THEN "Unsupported"
        ELSE IF typed /\ named /\ keyed /\ aimed THEN "supported" ELSE "InvalidPayload"

\* The register or set an operation addresses within the state of its target.
Slot(r) == <<r.target, r.field, IF r.verb \in {"add", "remove"} THEN r.key.name ELSE "">>

Writes(r) == r.verb \in {"set", "resolve"}
GroupOf(r) == <<r.domain, r.entity>>

-----------------------------------------------------------------------------
(* Entry points *)

FoldInit ==
    /\ mode = "none" /\ input = <<>> /\ stage = "idle" /\ at = 1
    /\ key = NoGroup /\ ops = <<>> /\ count = 0 /\ edges = 0
    /\ indegree = <<>> /\ ready = {} /\ ordered = <<>>
    /\ applied = 0 /\ active = {}
    /\ todo = {} /\ cand = NoId /\ pending = <<>> /\ visited = {} /\ observed = {}
    /\ budget = MaxSteps /\ exceeded = FALSE
    /\ verdict = "none"

Fail(error) == stage' = "done" /\ verdict' = error

EdgeTotal(s) == MapThenSumSet(LAMBDA i : Len(s[i].parents), DOMAIN s)

\* fold_profile, fold_catalogs and fold_catalog take a slice of operations, each of
\* which its caller has converted; fold_catalog first requires one target.
BeginFold(m, slice) ==
    /\ stage = "idle" /\ m \in {"profile", "catalogs", "catalog"}
    /\ \A i \in DOMAIN slice : Conversion(slice[i]) = "supported"
    /\ mode' = m /\ input' = slice
    /\ ops' = slice /\ count' = Len(slice) /\ edges' = EdgeTotal(slice)
    /\ IF m = "catalog" /\ (slice = <<>> \/ slice[1].target = NoTarget) THEN Fail("WrongEntity")
       ELSE IF m = "catalog" /\ \E r \in Elems(slice) : r.target \notin {slice[1].target, NoTarget}
            THEN Fail("WrongTarget")
       ELSE stage' = "build" /\ UNCHANGED verdict
    /\ UNCHANGED <<at, key, graphVars, applied, active, searchVars, limitVars>>

\* validate_builtin_folds_bounded over the journal records of a replay.
BeginReplay(stream) ==
    /\ stage = "idle"
    /\ mode' = "replay" /\ input' = stream /\ stage' = "convert"
    /\ UNCHANGED <<at, groupVars, graphVars, applied, active, searchVars, limitVars, verdict>>

Foldable(r) == r.domain \in {"profile", "catalog"}

\* validate_builtin_operation_payloads: every operation converts before any group folds.
Convert ==
    /\ stage = "convert"
    /\ LET bad == {i \in DOMAIN input : Foldable(input[i]) /\ Conversion(input[i]) # "supported"}
       IN  IF bad = {} THEN stage' = "collect" /\ UNCHANGED verdict
           ELSE Fail(Conversion(input[Min(bad)]))
    /\ UNCHANGED <<sourceVars, at, groupVars, graphVars, applied, active, searchVars, limitVars>>

WithinCausalLimits(c, e) == c <= MaxOperations /\ e <= MaxEdges

\* The group loop of validate_builtin_folds_bounded: a record of another group, and
\* the end of the stream, first finish the group held.
Collect ==
    /\ stage = "collect"
    /\ LET held == key # NoGroup
           more == at <= Len(input)
       IN  \/ /\ more /\ ~Foldable(input[at])
              /\ at' = at + 1
              /\ UNCHANGED <<stage, verdict, groupVars>>
           \/ /\ held /\ (more => Foldable(input[at]) /\ GroupOf(input[at]) # key)
              /\ stage' = "build"
              /\ UNCHANGED <<at, verdict, groupVars>>
           \/ /\ more /\ Foldable(input[at])
              /\ key \in {NoGroup, GroupOf(input[at])}
              /\ key' = GroupOf(input[at])
              /\ at' = at + 1 /\ count' = count + 1
              /\ edges' = edges + Len(input[at].parents)
              /\ ops' = IF WithinCausalLimits(count', edges') THEN Append(ops, input[at]) ELSE ops
              /\ UNCHANGED <<stage, verdict>>
           \/ /\ ~more /\ ~held
              /\ stage' = "done" /\ verdict' = "ok"
              /\ UNCHANGED <<at, groupVars>>
    /\ UNCHANGED <<sourceVars, graphVars, applied, active, searchVars, limitVars>>

-----------------------------------------------------------------------------
(* CausalGraph::new *)

OpOf(id) == CHOOSE o \in Elems(ops) : o.id = id
ParentsOf(id) == Elems(OpOf(id).parents)
Ids == {o.id : o \in Elems(ops)}

\* The loop that fills by_id stops at the first operation whose parents are not
\* sorted or whose identity was seen.
BadNode(i) == ~Strict(ops[i].parents) \/ \E j \in 1 .. i - 1 : ops[j].id = ops[i].id

\* The bounds, the node checks and the initial ready set.
Build ==
    /\ stage = "build"
    /\ LET bad == {i \in DOMAIN ops : BadNode(i)}
           dangling == \E o \in Elems(ops) : ~(Elems(o.parents) \subseteq Ids)
       IN  \/ count > MaxOperations /\ Fail("TooManyOperations") /\ UNCHANGED graphVars
           \/ /\ count <= MaxOperations /\ edges > MaxEdges
              /\ Fail("TooManyEdges") /\ UNCHANGED graphVars
           \/ /\ WithinCausalLimits(count, edges) /\ bad # {}
              /\ Fail(IF Strict(ops[Min(bad)].parents) THEN "DuplicateRecordId" ELSE "InvalidParents")
              /\ UNCHANGED graphVars
           \/ /\ WithinCausalLimits(count, edges) /\ bad = {} /\ dangling
              /\ Fail("DanglingParent") /\ UNCHANGED graphVars
           \/ /\ WithinCausalLimits(count, edges) /\ bad = {} /\ ~dangling
              /\ indegree' = [id \in Ids |-> Cardinality(ParentsOf(id))]
              /\ ready' = {id \in Ids : ParentsOf(id) = {}}
              /\ ordered' = <<>>
              /\ stage' = "order" /\ UNCHANGED verdict
    /\ UNCHANGED <<sourceVars, at, groupVars, applied, active, searchVars, limitVars>>

\* pop_first of the ordered ready set.
NextReadyLast == Max(ready)
NextReady == Min(ready)

\* One turn of the loop over `ready`, smallest identifier first.
Emit ==
    /\ stage = "order" /\ ready # {}
    /\ LET id == NextReady
           children == {c \in Ids : id \in ParentsOf(c)}
       IN  /\ ordered' = Append(ordered, id)
           /\ indegree' = [c \in Ids |-> IF c \in children THEN indegree[c] - 1 ELSE indegree[c]]
           /\ ready' = (ready \ {id}) \cup {c \in children : indegree'[c] = 0}
    /\ UNCHANGED <<sourceVars, stage, at, groupVars, applied, active, searchVars, limitVars, verdict>>

ExpectedDomain == IF mode = "profile" THEN "profile"
                  ELSE IF mode = "replay" THEN key[1] ELSE "catalog"

Shortfall == Len(ordered) # Len(ops)

\* Nothing is ready: a shortfall is a cycle; then the fold requires one domain and entity.
Ordered ==
    /\ stage = "order" /\ ready = {}
    /\ IF Shortfall THEN Fail("Cycle")
       ELSE IF \E o \in Elems(ops) : o.domain # ExpectedDomain \/ o.entity # ops[1].entity
            THEN Fail("WrongEntity")
       ELSE stage' = "apply" /\ UNCHANGED verdict
    /\ UNCHANGED <<sourceVars, at, groupVars, graphVars, applied, active, searchVars, limitVars>>

-----------------------------------------------------------------------------
(* apply_operation and the reachability search *)

Current == OpOf(ordered[applied + 1])
ActiveIn(slot) == {id \in Ids : <<slot, id>> \in active}

\* An add inserts; every other operation asks which active identifiers it observes.
Apply ==
    /\ stage = "apply" /\ applied < Len(ordered)
    /\ \/ /\ Current.verb = "add"
          /\ active' = active \cup {<<Slot(Current), Current.id>>}
          /\ applied' = applied + 1
          /\ UNCHANGED <<stage, searchVars>>
       \/ /\ Current.verb # "add"
          /\ todo' = ActiveIn(Slot(Current)) /\ observed' = {}
          /\ stage' = "search"
          /\ UNCHANGED <<applied, active, cand, pending, visited>>
    /\ UNCHANGED <<sourceVars, at, groupVars, graphVars, limitVars, verdict>>

\* observes_bounded starts from the parents of the observer.
Ask ==
    /\ stage = "search" /\ cand = NoId /\ todo # {}
    /\ cand' = Min(todo) /\ todo' = todo \ {cand'}
    /\ pending' = Current.parents /\ visited' = {}
    /\ UNCHANGED <<sourceVars, stage, at, groupVars, graphVars, applied, active, observed, limitVars,
                   verdict>>

Answer(found) ==
    /\ cand' = NoId /\ pending' = <<>> /\ visited' = {}
    /\ observed' = IF found THEN observed \cup {cand} ELSE observed

\* One turn of the search loop: the last pending identifier is popped, charged to the
\* budget all searches of the fold share, compared, and expanded the first time.
Visit ==
    /\ stage = "search" /\ cand # NoId
    /\ LET rest == SubSeq(pending, 1, Len(pending) - 1)
           id   == pending[Len(pending)]
       IN  \/ pending = <<>> /\ Answer(FALSE) /\ UNCHANGED limitVars
           \/ /\ pending # <<>> /\ budget = 0
              /\ exceeded' = TRUE /\ Answer(FALSE) /\ UNCHANGED budget
           \/ /\ pending # <<>> /\ budget > 0 /\ id = cand
              /\ budget' = budget - 1 /\ Answer(TRUE) /\ UNCHANGED exceeded
           \/ /\ pending # <<>> /\ budget > 0 /\ id # cand
              /\ budget' = budget - 1 /\ UNCHANGED <<exceeded, cand, observed>>
              /\ visited' = visited \cup {id}
              /\ pending' = IF id \in visited THEN rest ELSE rest \o OpOf(id).parents
    /\ UNCHANGED <<sourceVars, stage, at, groupVars, graphVars, applied, active, todo, verdict>>

\* retain and insert on the register or set the operation addresses.
ActiveUnretained(o, seen) == IF Writes(o) THEN active \cup {<<Slot(o), o.id>>} ELSE active
ActiveAfter(o, seen) ==
    LET kept == active \ {<<Slot(o), id>> : id \in seen}
    IN  IF Writes(o) THEN kept \cup {<<Slot(o), o.id>>} ELSE kept

MisnamesExtra(o, seen) == ~(Elems(o.refs) \subseteq seen)
Misnames(o, seen) == Elems(o.refs) # seen

\* Every candidate is answered: the budget is checked, a resolution or remove must
\* name exactly what it observes, and the observed identifiers give way.
Settle ==
    /\ stage = "search" /\ cand = NoId /\ todo = {}
    /\ IF exceeded THEN Fail("ReachabilityBudget") /\ UNCHANGED <<applied, active>>
       ELSE IF Current.verb = "resolve" /\ Misnames(Current, observed)
            THEN Fail("InvalidResolution") /\ UNCHANGED <<applied, active>>
       ELSE IF Current.verb = "remove" /\ Misnames(Current, observed)
            THEN Fail("InvalidObservedRemove") /\ UNCHANGED <<applied, active>>
       ELSE /\ active' = ActiveAfter(Current, observed)
            /\ applied' = applied + 1
            /\ stage' = "apply" /\ UNCHANGED verdict
    /\ observed' = {}
    /\ UNCHANGED <<sourceVars, at, groupVars, graphVars, todo, cand, pending, visited, limitVars>>

\* The last operation is applied: a fold function returns its state, and a replay
\* drops it and goes on to the next group.
FinishFold ==
    /\ stage = "apply" /\ applied = Len(ordered)
    /\ IF mode = "replay"
       THEN /\ stage' = "collect" /\ UNCHANGED verdict
            /\ key' = NoGroup /\ ops' = <<>> /\ count' = 0 /\ edges' = 0
            /\ indegree' = <<>> /\ ready' = {} /\ ordered' = <<>> /\ applied' = 0 /\ active' = {}
            /\ budget' = MaxSteps /\ exceeded' = FALSE
       ELSE /\ stage' = "done" /\ verdict' = "ok"
            /\ UNCHANGED <<groupVars, graphVars, applied, active, limitVars>>
    /\ UNCHANGED <<sourceVars, at, searchVars>>

FoldStep ==
    \/ Convert \/ Collect \/ Build \/ Emit \/ Ordered
    \/ Apply \/ Ask \/ Visit \/ Settle \/ FinishFold

-----------------------------------------------------------------------------
(* What the folds compute *)

\* The transitive parents of id: the least parent-closed set that holds its parents.
Ancestors(id) ==
    LET parents == [y \in Ids |-> ParentsOf(y)]
    IN  {x \in Ids : \A S \in SUBSET Ids :
            parents[id] \subseteq S /\ (\A y \in S : parents[y] \subseteq S) => x \in S}

Prefix(k) == {ordered[i] : i \in 1 .. k}
SameSlot(a, b) == Slot(OpOf(a)) = Slot(OpOf(b))

\* The sets, resolutions and adds among S that no set, resolution or remove in S observes.
Surviving(S) ==
    LET above == [b \in S |-> Ancestors(b)]
    IN  {a \in S : /\ OpOf(a).verb # "remove"
                   /\ ~\E b \in S : OpOf(b).verb # "add" /\ a \in above[b] /\ SameSlot(a, b)}

Folding == stage = "apply" \/ (verdict = "ok" /\ mode # "replay")

\* The type each projected field of AdvisoryProfile and CatalogEntry keeps.
ViewType(domain, field) ==
    CASE field = "remote" -> "remote"
      [] field = "relation" -> IF domain = "profile" THEN "qualified" ELSE "relation"
      [] field = "enabled" -> "bool"
      [] field = "default_store" -> "store"
      [] OTHER -> "text"

\* `register` and `values`: the distinct values of a slot that have the field's type.
View(slot) ==
    {OpOf(id).value : id \in {a \in ActiveIn(slot) :
        OpOf(a).value.type = ViewType(OpOf(a).domain, OpOf(a).field)}}

\* The fold state is independent of the order in which concurrent operations are met:
\* a register holds the writes no applied write observes, and a set holds the adds no
\* applied remove observes, although the code only ever compares an operation with the
\* identifiers active at its turn.  The view a fold function returns drops none of them.
ActiveIsMaximal ==
    /\ Folding => active = {<<Slot(OpOf(a)), a>> : a \in Surviving(Prefix(applied))}
    /\ verdict = "ok" /\ mode # "replay" =>
        \A a \in Surviving(Ids) : OpOf(a).value \in View(Slot(OpOf(a)))

\* The order is the deterministic topological one: every operation follows its parents
\* and is the smallest identifier that can come next.  It is complete: a causal cycle is
\* reported exactly when an operation is its own ancestor.
CanonicalOrder ==
    /\ \A k \in 1 .. Len(ordered) :
        LET before == Prefix(k - 1)
            next   == {x \in Ids \ before : ParentsOf(x) \subseteq before}
        IN  ordered[k] \in next /\ \A x \in next : ordered[k] <= x
    /\ verdict = "Cycle" => \E x \in Ids : x \in Ancestors(x)
    /\ Folding => \A x \in Ids : x \notin Ancestors(x)

Named(k) ==
    {a \in Surviving(Prefix(k - 1)) \cap Ancestors(ordered[k]) : SameSlot(a, ordered[k])}
MustName(k) == OpOf(ordered[k]).verb \in {"resolve", "remove"}

\* An accepted resolution or remove names exactly the active identifiers it descends
\* from, and one is rejected for its names only when it does not; a search cut short by
\* the shared budget never decides.
NamesExact ==
    /\ Folding => \A k \in 1 .. applied : MustName(k) => Elems(OpOf(ordered[k]).refs) = Named(k)
    /\ verdict \in {"InvalidResolution", "InvalidObservedRemove"} =>
        Elems(Current.refs) # Named(applied + 1)

\* What an operation's author could observe: the survivors of its own ancestry.
AuthorSees(k) ==
    {a \in Surviving(Ancestors(ordered[k])) : SameSlot(a, ordered[k])}

\* The messages of FoldError: a rejected resolution "does not name exactly all observed
\* maximal candidates" and a rejected remove "does not name exactly all observed adds".
RejectsOnlyMisnamed ==
    verdict \in {"InvalidResolution", "InvalidObservedRemove"} =>
        Elems(Current.refs) # AuthorSees(applied + 1)

=============================================================================
