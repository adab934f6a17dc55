------------------------------ MODULE MCReplay ------------------------------
(* Scenarios for Replay: one store of two batches, complete, with files        *)
(* missing, and with one file replaced by a damaged form of it, so that the    *)
(* order of the checks matters; legacy files in front of it; and slices of     *)
(* profile and catalog operations for the fold functions.                      *)
EXTENDS Replay

NoValue == [type |-> "text", token |-> 0, valid |-> TRUE]
NoKey   == [name |-> "", valid |-> TRUE]

Rec(path, id, batch, domain, verb) ==
    [class |-> "record", path |-> path, decodes |-> TRUE, home |-> TRUE, id |-> id, batch |-> batch,
     actor |-> 1, schema |-> 1, content |-> path, domain |-> domain, entity |-> 1, verb |-> verb,
     field |-> "description", key |-> NoKey, target |-> NoTarget, value |-> NoValue,
     parents |-> <<>>, refs |-> <<>>, entityOk |-> TRUE, forkOk |-> TRUE]
Ref(f) == [path |-> f.path, id |-> f.id, schema |-> f.schema, content |-> f.content]
Man(batch, retry, files) ==
    [class |-> "batch", path |-> 10 + batch, decodes |-> TRUE, home |-> TRUE, batch |-> batch,
     actor |-> 1, key |-> retry, members |-> [i \in DOMAIN files |-> Ref(files[i])],
     request |-> [i \in DOMAIN files |-> <<files[i].path, files[i].content>>]]
Odd(class, path) == [class |-> class, path |-> path]
Old(path, entity, valid) == [class |-> "legacy", path |-> path, entity |-> entity, valid |-> valid]

R1 == Rec(21, 3, 1, "identity", "genesis")
R2 == Rec(31, 1, 2, "profile", "set")
R3 == [Rec(32, 2, 2, "profile", "resolve") EXCEPT !.parents = <<1>>, !.refs = <<1>>]
M1 == Man(1, 1, <<R1>>)
M2 == Man(2, 2, <<R2, R3>>)
Full == {M1, R1, M2, R2, R3}

\* A damaged form of each file that the checks must tell apart.
Damaged ==
    {<<R2, [R2 EXCEPT !.content = 0]>>, <<R2, [R2 EXCEPT !.batch = 1]>>, <<R2, [R2 EXCEPT !.actor = 2]>>,
     <<R2, [R2 EXCEPT !.schema = 2]>>, <<R2, [R2 EXCEPT !.id = 2]>>, <<R2, [R2 EXCEPT !.home = FALSE]>>,
     <<R2, [R2 EXCEPT !.decodes = FALSE]>>, <<R2, [R2 EXCEPT !.value.valid = FALSE]>>,
     <<R1, [R1 EXCEPT !.entityOk = FALSE]>>, <<R1, [R1 EXCEPT !.forkOk = FALSE]>>,
     <<R1, [R1 EXCEPT !.verb = "other"]>>,
     <<M2, [M2 EXCEPT !.request = <<>>]>>, <<M2, [M2 EXCEPT !.key = 1]>>,
     <<M2, [M2 EXCEPT !.decodes = FALSE]>>, <<M2, Man(2, 2, <<R1, R2, R3>>)>>, <<M2, Man(2, 2, <<R3>>)>>,
     <<M2, Man(2, 2, <<R3, R2>>)>>, <<M2, Odd("nonregular", 12)>>, <<M2, Odd("invalid", 12)>>,
     <<M1, Man(3, 1, <<[R1 EXCEPT !.batch = 3]>>)>>, <<R3, [R3 EXCEPT !.refs = <<3>>]>>,
     <<R3, [R3 EXCEPT !.parents = <<3>>]>>, <<R3, [R3 EXCEPT !.parents = <<1, 1>>]>>,
     <<R3, Rec(32, 2, 2, "app", "note")>>, <<R3, [Rec(32, 2, 2, "app", "note") EXCEPT !.schema = 2]>>}

Less(n) == {Full \ X : X \in {Y \in SUBSET Full : Cardinality(Y) <= n}}
Swap(S, d) == IF d[1] \in S THEN (S \ {d[1]}) \cup {d[2]} ELSE S
Strictly(S) == [files |-> S, strict |-> TRUE, adapter |-> "bounded"]

\* Operations for the folds; a catalog operation also names a target.
Sorted(S) == IF S = {} THEN <<>> ELSE CHOOSE s \in [1 .. Cardinality(S) -> S] : Strict(s)
Op(id, parents, verb, refs) ==
    [Rec(40 + id, id, 2, "profile", verb) EXCEPT
        !.parents = Sorted(parents), !.refs = Sorted(refs),
        !.field = IF verb \in {"set", "resolve"} THEN "description" ELSE "alias",
        !.key = IF verb \in {"set", "resolve"} THEN NoKey ELSE [name |-> "k", valid |-> TRUE],
        !.value.token = id]
Cat(o, target) ==
    [o EXCEPT !.domain = "catalog", !.target = target, !.path = o.path - 24,
              !.field = IF o.verb \in {"set", "resolve"} THEN "name" ELSE "alias"]

\* A store whose second batch holds the given records, in path order.
Holding(records) == LET G == [R1 EXCEPT !.id = 9] IN
    {Man(1, 1, <<G>>), G, Man(2, 2, records)} \cup Range(records)
Note_(batch) == Rec(15, 8, batch, "app", "note")
Note == Note_(2)

\* Two groups whose searches take more steps together than one fold may.
Wide == Holding(<<Op(1, {}, "set", {}), Op(2, {}, "set", {}), Op(3, {1, 2}, "set", {})>>
                \o [i \in 1 .. 3 |-> [<<Op(4, {}, "set", {}), Op(8, {4}, "set", {}), Op(10, {4, 8}, "set", {})>>[i]
                                      EXCEPT !.entity = 2]])

MCScenarios ==
    {Strictly(S) : S \in Less(3)}
    \cup {Strictly(Swap(S, d)) : S \in Less(1), d \in Damaged}
    \cup {[Strictly(S) EXCEPT !.strict = FALSE] : S \in {Full, {M1, R1}, {Man(1, 1, <<Rec(22, 4, 1, "app", "note")>>),
                                                               Rec(22, 4, 1, "app", "note")}}}
    \cup {[files |-> {Old(1, NoEntity, a), Old(2, 1, b)} \cup S, strict |-> TRUE, adapter |-> c] :
             a \in BOOLEAN, b \in BOOLEAN, S \in {{}, {M1, R1}}, c \in {"bounded", "partial", "collecting"}}
    \cup {Strictly(Full \cup {Old(1, NoEntity, TRUE), Old(2, 1, TRUE), Old(3, 1, TRUE), Old(4, 2, TRUE)} \cup S) :
             S \in {{}, {Old(5, 2, TRUE)}}}
    \cup {Strictly(Wide), Strictly(Wide \cup {Old(1, NoEntity, TRUE)})}
    \cup {Strictly(Holding(r)) : r \in {
             <<Note, Cat(Op(2, {}, "set", {}), 1), Cat(Op(3, {2}, "remove", {2}), 2), Op(4, {}, "set", {})>>,
             <<Note, Cat(Op(2, {}, "add", {}), 1), Cat(Op(3, {2}, "remove", {2}), 1), Op(4, {}, "set", {})>>,
             <<Op(1, {}, "set", {}), [Op(2, {}, "set", {}) EXCEPT !.entity = 2]>>,
             <<Op(1, {}, "set", {}), [Op(2, {1}, "set", {}) EXCEPT !.entity = 2]>>,
             <<Op(1, {}, "set", {}), Op(2, {1}, "set", {}), Op(3, {1, 2}, "set", {}), Op(4, {1, 3}, "set", {})>>,
             <<Op(1, {}, "set", {}), Op(2, {}, "set", {}), Op(3, {}, "set", {}), 
               [Op(4, {}, "set", {}) EXCEPT !.entity = 2], [Op(8, {}, "set", {}) EXCEPT !.entity = 2]>>,
             <<Note, Cat(Op(2, {}, "add", {}), 1), Op(4, {}, "set", {}), [Op(8, {}, "set", {}) EXCEPT !.entity = 2]>>,
             <<Op(1, {}, "set", {}), Op(2, {}, "set", {}), Op(3, {}, "set", {}), Op(4, {}, "set", {}), Op(8, {}, "set", {})>>,
             <<Op(1, {}, "set", {}), Op(2, {}, "set", {}), Op(3, {1, 2}, "set", {}), Op(4, {1, 2}, "set", {})>>,
             <<Cat(Op(1, {2}, "set", {}), 1), Cat(Op(2, {1}, "set", {}), 1), Op(4, {3}, "set", {})>>,
             <<Rec(31, 1, 2, "identity", "genesis")>>}}
    \cup {Strictly({Man(b, 1, <<Note_(b)>>), Note_(b), Man(3 - b, 2, <<[R1 EXCEPT !.batch = 3 - b]>>), [R1 EXCEPT !.batch = 3 - b]}) :
             b \in {1, 2}}

\* Slices for the fold functions: three operations of one profile, operations of one
\* catalog with two targets, and the limits.
Naming(id, parents) ==
    {Op(id, parents, v, {}) : v \in {"set", "add"}}
    \cup {Op(id, parents, v, n) : v \in {"resolve", "remove"}, n \in SUBSET {1, 2} \ {{}}}
Roots == {Op(1, {}, "set", {}), Op(1, {}, "add", {}), Op(1, {3}, "add", {})}
Adds == <<Op(1, {}, "add", {}), Op(2, {1}, "add", {}), Op(3, {1, 2}, "remove", {1, 2})>>
Typed(domain) ==
    LET base(verb) == IF domain = "profile" THEN Op(1, {}, verb, {}) ELSE Cat(Op(1, {}, verb, {}), 1)
    IN  {<<[base("set") EXCEPT !.field = f, !.value.type = ScalarType(domain)[f]]>> : f \in DOMAIN ScalarType(domain)}
        \cup {<<[base("add") EXCEPT !.field = f, !.value.type = SetType(domain)[f]]>> : f \in DOMAIN SetType(domain)}
MCSlices ==
    {<<a, b, c>> : a \in Roots, b \in UNION {Naming(2, p) : p \in SUBSET {1}},
                   c \in UNION {Naming(3, p) : p \in SUBSET {1, 2}}}
    \cup {<<c, a>> : a \in Roots, c \in UNION {Naming(3, p) : p \in SUBSET {1}}}
    \cup {<<Cat(a, 1), Cat(b, t)>> : a \in Roots, t \in {1, 2}, b \in UNION {Naming(2, p) : p \in SUBSET {1}}}
    \cup {<<Cat(Op(1, {}, "set", {}), 1), Op(2, {}, "set", {})>>, <<Op(2, {}, "set", {}), Cat(Op(1, {}, "set", {}), 1)>>}
    \cup {<<Op(1, {}, "add", {}), Op(2, {}, "add", {}), Op(3, {}, "add", {}), Op(4, p, "remove", n)>> :
             p \in {{1, 2}, {1, 2, 3}}, n \in {{1, 2}, {1, 2, 3}}}
    \cup {<<Op(1, {}, "set", {}), Op(2, {1}, "set", {}), Op(3, {1, 2}, "set", {}), Op(4, {1, 2, 3}, "set", {})>>}
    \cup Typed("profile") \cup Typed("catalog")
    \cup {Adds \o Adds, <<Op(1, {}, "set", {}), Op(1, {}, "set", {})>>, <<Op(1, {4}, "set", {})>>, <<>>}
=============================================================================
