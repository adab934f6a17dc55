-------------------------- MODULE DomainFoldProofs --------------------------
(* For records, identifiers and bounds of any number: what the causal graph    *)
(* and the folds compute.  The folds are taken alone here, called on any slice *)
(* or stream of records.                                                       *)
EXTENDS DomainFold, FiniteSetTheorems, TLAPS

CONSTANT Record     \* decoded records

\* The fields that record.rs decodes to identifiers.
Operation == {r \in Record : r.id \in Id /\ r.parents \in Seq(Id)}

\* What callers do with the folds: they hand over slices or streams of records.
FoldNext ==
    \/ FoldStep
    \/ \E s \in Seq(Operation) : BeginReplay(s) \/ \E m \in {"profile", "catalogs", "catalog"} : BeginFold(m, s)
FoldSpec == FoldInit /\ [][FoldNext]_foldVars

---------------------------------------------------------------------------
(* Sequences and numbers *)

\* A set of natural numbers that is not empty has a least one.
LEMMA LeastNatural ==
    ASSUME NEW T \in SUBSET Nat, T # {}
    PROVE  Min(T) \in T /\ \A k \in T : Min(T) <= k
<1> DEFINE R == {p \in Nat \X Nat : p[1] < p[2]}
<1>1. IsWellFoundedOn(R, Nat)
  BY NatLessThanWellFounded, Zenon DEF OpToRel
<1>2. \A x, y \in Nat : x < y => <<x, y>> \in R
  BY SMT
<1> HIDE DEF R
<1>3. PICK m \in T : \A y \in T : ~(<<y, m>> \in R)
  BY <1>1, WFMin, Zenon
<1>4. \A y \in T : ~(y < m)
  BY <1>2, <1>3, Zenon
<1>5. \A y \in T : m <= y
  BY <1>4, SMT
<1> QED
  BY <1>3, <1>5, Zenon DEF Min

\* The entries of two sequences one after the other.
LEMMA ElemsConcat ==
    ASSUME NEW S, NEW s \in Seq(S), NEW t \in Seq(S)
    PROVE  s \o t \in Seq(S) /\ Elems(s \o t) = Elems(s) \cup Elems(t)
<1>1. /\ s \o t \in Seq(S) /\ Len(s \o t) = Len(s) + Len(t) /\ Len(s) \in Nat /\ Len(t) \in Nat
      /\ DOMAIN s = 1 .. Len(s) /\ DOMAIN t = 1 .. Len(t) /\ DOMAIN (s \o t) = 1 .. Len(s) + Len(t)
      /\ \A i \in 1 .. Len(s) : (s \o t)[i] = s[i]
      /\ \A i \in 1 .. Len(t) : (s \o t)[Len(s) + i] = t[i]
  OBVIOUS
<1>2. ASSUME NEW i \in 1 .. Len(s) + Len(t) PROVE (s \o t)[i] \in Elems(s) \cup Elems(t)
  <2>1. CASE i <= Len(s)
    <3>1. i \in 1 .. Len(s)
      BY <1>1, <2>1
    <3> QED
      BY <1>1, <3>1, Zenon DEF Elems
  <2>2. CASE i > Len(s)
    <3>1. i - Len(s) \in 1 .. Len(t) /\ i = Len(s) + (i - Len(s))
      BY <1>1, <2>2
    <3>2. (s \o t)[i] = t[i - Len(s)]
      BY <1>1, <3>1
    <3> QED
      BY <1>1, <3>1, <3>2, Zenon DEF Elems
  <2> QED
    BY <1>1, <2>1, <2>2
<1>3. \A i \in 1 .. Len(s) : i \in 1 .. Len(s) + Len(t)
  BY <1>1
<1>4. \A i \in 1 .. Len(t) : Len(s) + i \in 1 .. Len(s) + Len(t)
  BY <1>1
<1>5. Elems(s \o t) \subseteq Elems(s) \cup Elems(t)
  BY <1>1, <1>2, Zenon DEF Elems
<1>6. Elems(s) \subseteq Elems(s \o t)
  BY <1>1, <1>3 DEF Elems
<1>7. Elems(t) \subseteq Elems(s \o t)
  BY ZenonT(60), <1>1, <1>4 DEF Elems
<1> QED
  BY <1>1, <1>5, <1>6, <1>7, Zenon

\* A stack and what is left of it without its last entry.
LEMMA ElemsPop ==
    ASSUME NEW S, NEW s \in Seq(S), s # <<>>
    PROVE  LET rest == SubSeq(s, 1, Len(s) - 1)
           IN  /\ rest \in Seq(S) /\ s[Len(s)] \in S /\ s[Len(s)] \in Elems(s)
               /\ Elems(s) = Elems(rest) \cup {s[Len(s)]}
<1> DEFINE rest == SubSeq(s, 1, Len(s) - 1)
<1>1. /\ Len(s) \in Nat /\ Len(s) > 0 /\ DOMAIN s = 1 .. Len(s) /\ rest \in Seq(S)
      /\ DOMAIN rest = 1 .. Len(s) - 1 /\ \A i \in 1 .. Len(s) - 1 : rest[i] = s[i]
  OBVIOUS
<1> HIDE DEF rest
<1>2. Len(s) \in 1 .. Len(s)
  BY <1>1
<1>7. \A i \in 1 .. Len(s) : i = Len(s) \/ i \in 1 .. Len(s) - 1
  <2> SUFFICES ASSUME NEW n \in Nat, n = Len(s), NEW i \in 1 .. n PROVE i = n \/ i \in 1 .. n - 1
    BY <1>1, Zenon
  <2> QED
    OBVIOUS
<1>3. \A i \in 1 .. Len(s) - 1 : i \in 1 .. Len(s)
  BY <1>1
<1>4. s[Len(s)] \in S
  BY <1>2
<1>5. Elems(s) \subseteq Elems(rest) \cup {s[Len(s)]}
  BY Zenon, <1>1, <1>7 DEF Elems
<1>6. Elems(rest) \cup {s[Len(s)]} \subseteq Elems(s)
  BY Zenon, <1>1, <1>2, <1>3 DEF Elems
<1> QED
  BY <1>1, <1>2, <1>4, <1>5, <1>6 DEF rest, Elems

---------------------------------------------------------------------------
(* The causal graph that the node checks of CausalGraph::new let pass *)

\* Identities differ and every parent is an operation of the graph.
Graph ==
    /\ ops \in Seq(Operation)
    /\ \A i, j \in DOMAIN ops : ops[i].id = ops[j].id => i = j
    /\ \A o \in Elems(ops) : Elems(o.parents) \subseteq Ids

\* Every identifier of the graph names one operation.
LEMMA Nodes ==
    ASSUME Graph
    PROVE  /\ \A o \in Elems(ops) : o.id \in Ids /\ OpOf(o.id) = o
           /\ \A x \in Ids : OpOf(x) \in Elems(ops) /\ OpOf(x).id = x
           /\ \A x \in Ids : OpOf(x).parents \in Seq(Id) /\ ParentsOf(x) \subseteq Ids
           /\ Ids \subseteq Id /\ Ids \subseteq Nat /\ NoId \notin Ids
<1>1. \A o \in Elems(ops) : o \in Operation
  BY DEF Graph, Elems
<1>2. \A o, p \in Elems(ops) : o.id = p.id => o = p
  BY Zenon DEF Graph, Elems
<1>3. ASSUME NEW o \in Elems(ops) PROVE o.id \in Ids /\ OpOf(o.id) = o
  BY <1>2, Zenon DEF Ids, OpOf
<1>4. ASSUME NEW x \in Ids PROVE OpOf(x) \in Elems(ops) /\ OpOf(x).id = x
  BY Zenon DEF Ids, OpOf
<1>5. ASSUME NEW x \in Ids PROVE OpOf(x).parents \in Seq(Id) /\ ParentsOf(x) \subseteq Ids
  BY <1>1, <1>4, Zenon DEF Operation, Graph, ParentsOf
<1>6. Ids \subseteq Id
  BY <1>1, Zenon DEF Ids, Operation
<1>7. Ids \subseteq Nat /\ NoId \notin Ids
  BY <1>6, IdAssumption DEF NoId
<1> QED
  BY <1>3, <1>4, <1>5, <1>6, <1>7, Zenon

\* A graph has as many identifiers as operations.
LEMMA NodesAreCounted ==
    ASSUME Graph
    PROVE  IsFiniteSet(Ids) /\ Cardinality(Ids) = Len(ops)
<1> DEFINE f == [i \in 1 .. Len(ops) |-> ops[i].id]
<1>1. ops \in Seq(Operation) /\ Len(ops) \in Nat /\ DOMAIN ops = 1 .. Len(ops)
  BY DEF Graph
<1>2. \A i \in 1 .. Len(ops) : f[i] \in Ids
  BY <1>1 DEF Ids, Elems
<1>3. \A x \in Ids : \E i \in 1 .. Len(ops) : f[i] = x
  BY <1>1 DEF Ids, Elems
<1>4. \A i, j \in 1 .. Len(ops) : f[i] = f[j] => i = j
  BY <1>1 DEF Graph
<1>5. f \in [1 .. Len(ops) -> Ids]
  BY <1>2
<1> HIDE DEF f
<1>6. f \in Bijection(1 .. Len(ops), Ids)
  BY <1>3, <1>4, <1>5, Zenon DEF Bijection, Injection, Surjection, IsInjective
<1>7. ExistsBijection(1 .. Len(ops), Ids)
  BY <1>6, Zenon DEF ExistsBijection
<1> QED
  BY <1>1, <1>7, FS_CountingElements, FS_NatBijection, Zenon

\* Ancestors come from the parents and contain the ancestors of every ancestor; a
\* parent-closed set that holds the parents holds the ancestors.
LEMMA AncestorFacts ==
    ASSUME Graph, NEW x \in Ids
    PROVE  /\ Ancestors(x) \subseteq Ids
           /\ ParentsOf(x) \subseteq Ancestors(x)
           /\ \A y \in Ancestors(x) : ParentsOf(y) \subseteq Ancestors(x)
           /\ \A S \in SUBSET Ids :
                ParentsOf(x) \subseteq S /\ (\A y \in S : ParentsOf(y) \subseteq S)
                    => Ancestors(x) \subseteq S
<1> DEFINE Closed(S) == ParentsOf(x) \subseteq S /\ \A y \in S : ParentsOf(y) \subseteq S
<1>1. Ancestors(x) = {z \in Ids : \A S \in SUBSET Ids : Closed(S) => z \in S}
  <2> DEFINE parents == [y \in Ids |-> ParentsOf(y)]
  <2>1. \A y \in Ids : parents[y] = ParentsOf(y)
    OBVIOUS
  <2>2. Ancestors(x) = {z \in Ids : \A S \in SUBSET Ids :
            parents[x] \subseteq S /\ (\A y \in S : parents[y] \subseteq S) => z \in S}
    BY Zenon DEF Ancestors
  <2> HIDE DEF parents
  <2>3. ASSUME NEW S \in SUBSET Ids
        PROVE  (parents[x] \subseteq S /\ (\A y \in S : parents[y] \subseteq S)) <=> Closed(S)
    BY <2>1
  <2> HIDE DEF Closed
  <2> QED
    BY <2>2, <2>3, Zenon
<1>2. ParentsOf(x) \subseteq Ids /\ \A y \in Ids : ParentsOf(y) \subseteq Ids
  BY Nodes
<1>3. Ancestors(x) \subseteq Ids
  BY <1>1, Zenon
<1>4. ParentsOf(x) \subseteq Ancestors(x)
  BY <1>1, <1>2, Zenon
<1>5. ASSUME NEW y \in Ancestors(x) PROVE ParentsOf(y) \subseteq Ancestors(x)
  <2>1. ASSUME NEW z \in ParentsOf(y), NEW S \in SUBSET Ids, Closed(S) PROVE z \in S
    BY <1>1, <2>1, Zenon
  <2> QED
    BY <1>1, <1>2, <1>3, <2>1, Zenon
<1>6. ASSUME NEW S \in SUBSET Ids, Closed(S) PROVE Ancestors(x) \subseteq S
  BY <1>1, <1>6, Zenon
<1> QED
  BY <1>3, <1>4, <1>5, <1>6, Zenon

\* The ancestors of an ancestor are ancestors.
LEMMA AncestorsAreTransitive ==
    ASSUME Graph, NEW x \in Ids, NEW y \in Ancestors(x)
    PROVE  Ancestors(y) \subseteq Ancestors(x)
<1>1. y \in Ids /\ Ancestors(x) \in SUBSET Ids
  BY AncestorFacts
<1>2. ParentsOf(y) \subseteq Ancestors(x) /\ \A z \in Ancestors(x) : ParentsOf(z) \subseteq Ancestors(x)
  BY AncestorFacts, Zenon
<1> QED
  BY <1>1, <1>2, AncestorFacts, Zenon

\* If every identifier of a set has a parent in the set, there is a cycle.
LEMMA NoEndlessAncestry ==
    ASSUME Graph, NEW U \in SUBSET Ids, U # {}, \A x \in U : ParentsOf(x) \cap U # {}
    PROVE  \E x \in Ids : x \in Ancestors(x)
<1> SUFFICES ASSUME \A x \in Ids : x \notin Ancestors(x) PROVE FALSE
  BY Zenon
<1> DEFINE Size(x) == Cardinality(Ancestors(x))
           Sizes == {Size(x) : x \in U}
<1>1. \A x \in U : IsFiniteSet(Ancestors(x)) /\ Size(x) \in Nat
  <2> SUFFICES ASSUME NEW x \in U PROVE IsFiniteSet(Ancestors(x)) /\ Size(x) \in Nat
    BY Zenon
  <2>1. Ancestors(x) \subseteq Ids
    BY AncestorFacts, Zenon
  <2> QED
    BY <2>1, NodesAreCounted, FS_Subset, FS_CardinalityType, Zenon
<1>2. Sizes \in SUBSET Nat /\ Sizes # {}
  BY <1>1
<1>3. PICK x \in U : \A y \in U : Size(x) <= Size(y)
  <2>1. Min(Sizes) \in Sizes /\ \A k \in Sizes : Min(Sizes) <= k
    BY Zenon, <1>2, LeastNatural
  <2> QED
    BY <2>1, Zenon
<1>4. PICK y \in U : y \in ParentsOf(x)
  BY Zenon
<1>5. y \in Ancestors(x) /\ Ancestors(y) \subseteq Ancestors(x) /\ y \notin Ancestors(y)
  BY <1>4, AncestorFacts, AncestorsAreTransitive, Zenon
<1>6. Ancestors(y) # Ancestors(x)
  BY <1>5, Zenon
<1>7. Size(y) < Size(x)
  <2>1. Cardinality(Ancestors(y)) <= Cardinality(Ancestors(x))
        /\ (Cardinality(Ancestors(y)) = Cardinality(Ancestors(x)) => Ancestors(y) = Ancestors(x))
    BY <1>1, <1>5, FS_Subset, Zenon
  <2> QED
    BY <1>1, <1>6, <2>1
<1> QED
  BY <1>1, <1>3, <1>7

---------------------------------------------------------------------------
(* The order that CausalGraph::new emits *)

\* What can come next after the identifiers of S.
Following(S) == {x \in Ids \ S : ParentsOf(x) \subseteq S}

\* Every identifier follows its parents and is the smallest that could come there.
Stepwise == \A k \in 1 .. Len(ordered) :
    /\ ordered[k] \in Following(Prefix(k - 1))
    /\ \A x \in Following(Prefix(k - 1)) : ordered[k] <= x

\* A prefix grows by one identifier.
LEMMA PrefixGrows ==
    ASSUME NEW k \in Nat
    PROVE  Prefix(0) = {} /\ Prefix(k + 1) = Prefix(k) \cup {ordered[k + 1]}
<1>1. 1 .. 0 = {} /\ 1 .. k + 1 = (1 .. k) \cup {k + 1}
  OBVIOUS
<1> QED
  BY <1>1 DEF Prefix

\* A prefix of the order is closed under parents, holds every identifier once, and so
\* has no identifier that is its own ancestor.
LEMMA PrefixIsClosed ==
    ASSUME Graph, Stepwise, ordered \in Seq(Ids), NEW k \in 0 .. Len(ordered)
    PROVE  /\ Prefix(k) \subseteq Ids
           /\ \A x \in Prefix(k) : ParentsOf(x) \subseteq Prefix(k)
           /\ \A x \in Prefix(k) : Ancestors(x) \subseteq Prefix(k)
           /\ \A x \in Prefix(k) : x \notin Ancestors(x)
           /\ k < Len(ordered) => /\ ordered[k + 1] \in Ids \ Prefix(k)
                                  /\ Ancestors(ordered[k + 1]) \subseteq Prefix(k)
<1>1. Len(ordered) \in Nat /\ \A i \in 1 .. Len(ordered) : ordered[i] \in Ids
  OBVIOUS
<1>2. ASSUME NEW j \in 0 .. Len(ordered)
      PROVE  Prefix(j) \subseteq Ids /\ \A x \in Prefix(j) : ParentsOf(x) \subseteq Prefix(j)
  <2>1. \A i \in 1 .. j : i \in 1 .. Len(ordered)
    BY <1>1
  <2>2. Prefix(j) \subseteq Ids
    BY <1>1, <2>1 DEF Prefix
  <2>3. ASSUME NEW i \in 1 .. j PROVE ParentsOf(ordered[i]) \subseteq Prefix(j)
    <3>1. ParentsOf(ordered[i]) \subseteq Prefix(i - 1)
      BY <2>1, Zenon DEF Stepwise, Following
    <3>2. \A n \in 1 .. i - 1 : n \in 1 .. j
      BY <1>1
    <3>3. Prefix(i - 1) \subseteq Prefix(j)
      BY <3>2 DEF Prefix
    <3> QED
      BY <3>1, <3>3, Zenon
  <2> QED
    BY <2>2, <2>3, Zenon DEF Prefix
<1>3. ASSUME NEW j \in 0 .. Len(ordered), j < Len(ordered)
      PROVE  ordered[j + 1] \in Ids \ Prefix(j) /\ Ancestors(ordered[j + 1]) \subseteq Prefix(j)
  <2>1. j + 1 \in 1 .. Len(ordered) /\ (j + 1) - 1 = j
    BY <1>1, <1>3
  <2>2. ordered[j + 1] \in Following(Prefix(j))
    BY <2>1 DEF Stepwise
  <2>3. ordered[j + 1] \in Ids \ Prefix(j) /\ ParentsOf(ordered[j + 1]) \subseteq Prefix(j)
    BY <2>2, Zenon DEF Following
  <2> QED
    BY <1>2, <2>3, AncestorFacts, Zenon
<1>4. ASSUME NEW x \in Prefix(k) PROVE Ancestors(x) \subseteq Prefix(k) /\ x \notin Ancestors(x)
  <2>1. PICK i \in 1 .. k : x = ordered[i]
    BY Zenon DEF Prefix
  <2>2. i - 1 \in 0 .. Len(ordered) /\ i - 1 < Len(ordered) /\ (i - 1) + 1 = i
    BY <1>1
  <2>3. x \in Ids \ Prefix(i - 1) /\ Ancestors(x) \subseteq Prefix(i - 1)
    BY <1>3, <2>1, <2>2
  <2>4. \A n \in 1 .. i - 1 : n \in 1 .. k
    BY <1>1
  <2>5. Prefix(i - 1) \subseteq Prefix(k)
    BY <2>4 DEF Prefix
  <2> QED
    BY <2>3, <2>5, Zenon
<1> QED
  BY <1>2, <1>3, <1>4, Zenon

\* The order lists as many identifiers as it is long.
LEMMA PrefixIsCounted ==
    ASSUME Graph, Stepwise, ordered \in Seq(Ids)
    PROVE  /\ IsFiniteSet(Prefix(Len(ordered))) /\ Cardinality(Prefix(Len(ordered))) = Len(ordered)
           /\ Len(ordered) = Len(ops) <=> Prefix(Len(ordered)) = Ids
<1> DEFINE n == Len(ordered)
<1>1. n \in Nat /\ DOMAIN ordered = 1 .. n /\ ordered \in [1 .. n -> Ids]
  OBVIOUS
<1> HIDE DEF n
<1>2. ASSUME NEW i \in 1 .. n, NEW j \in 1 .. n, i < j PROVE ordered[i] # ordered[j]
  <2>1. j - 1 \in 0 .. Len(ordered) /\ j - 1 < Len(ordered) /\ (j - 1) + 1 = j /\ i \in 1 .. j - 1
    BY <1>1, <1>2 DEF n
  <2>2. ordered[j] \notin Prefix(j - 1)
    BY <2>1, PrefixIsClosed
  <2> QED
    BY <2>1, <2>2, Zenon DEF Prefix
<1>3. ASSUME NEW i \in 1 .. n, NEW j \in 1 .. n, ordered[i] = ordered[j] PROVE i = j
  <2>1. ~(i < j) /\ ~(j < i)
    BY <1>2, <1>3, Zenon
  <2> QED
    BY <2>1, <1>1
<1>4. ordered \in [1 .. n -> Prefix(n)]
  BY <1>1 DEF Prefix
<1>5. \A x \in Prefix(n) : \E i \in 1 .. n : ordered[i] = x
  BY Zenon DEF Prefix
<1>6. ordered \in Bijection(1 .. n, Prefix(n))
  BY <1>3, <1>4, <1>5, Zenon DEF Bijection, Injection, Surjection, IsInjective
<1>7. ExistsBijection(1 .. n, Prefix(n))
  BY <1>6, Zenon DEF ExistsBijection
<1>8. IsFiniteSet(Prefix(n)) /\ Cardinality(Prefix(n)) = n
  BY <1>1, <1>7, FS_CountingElements, FS_NatBijection, Zenon
<1>9. Prefix(n) \in SUBSET Ids
  BY <1>1, PrefixIsClosed DEF n
<1>10. IsFiniteSet(Ids) /\ Cardinality(Ids) = Len(ops)
  BY NodesAreCounted
<1>11. n = Len(ops) => Prefix(n) = Ids
  BY <1>8, <1>9, <1>10, FS_Subset, Zenon
<1>12. Prefix(n) = Ids => n = Len(ops)
  BY <1>8, <1>10, Zenon
<1> QED
  BY <1>8, <1>11, <1>12, Zenon DEF n

---------------------------------------------------------------------------
(* The inductive invariant of the graph *)

Fresh ==
    /\ applied = 0 /\ active = {} /\ todo = {} /\ cand = NoId /\ observed = {} /\ ~exceeded

Supported(s) == \A o \in Elems(s) : Foldable(o) => Conversion(o) = "supported"
Stages == {"idle", "convert", "collect", "build", "order", "apply", "search", "done"}

\* Where the validation stands, and that only converted operations are folded.
ShapeInv ==
    /\ stage \in Stages /\ at \in Nat /\ at > 0
    /\ input \in Seq(Operation) /\ ops \in Seq(Operation)
    /\ \A o \in Elems(ops) : Conversion(o) = "supported"
    /\ stage # "done" => verdict = "none"
    /\ stage \in {"idle", "convert", "collect", "build"} => ordered = <<>>
    /\ stage \in {"idle", "convert", "collect", "build", "order"} => Fresh
    /\ stage = "apply" => todo = {} /\ cand = NoId /\ observed = {}
    /\ stage = "idle" => ops = <<>> /\ mode = "none"
    /\ stage \in {"convert", "collect"} => mode = "replay"
    /\ mode = "replay" /\ stage # "convert" => stage = "done" \/ Supported(input)

\* While the order is made, `ready` is exactly what can come next and the counters are
\* the numbers of parents still to come; afterwards the order holds every identifier.
OrderInv ==
    /\ Stepwise
    /\ stage \in {"order", "apply", "search"} => Graph /\ ordered \in Seq(Ids)
    /\ stage = "order" =>
        LET before == Prefix(Len(ordered))
        IN  /\ ready = Following(before)
            /\ indegree = [c \in Ids |-> Cardinality(ParentsOf(c) \ before)]
    /\ stage \in {"apply", "search"} => Prefix(Len(ordered)) = Ids
    /\ Folding => \A x \in Ids : x \notin Ancestors(x)
    /\ verdict = "Cycle" => \E x \in Ids : x \in Ancestors(x)

GraphInv == ShapeInv /\ OrderInv

\* What a conversion answers.
LEMMA Conversions ==
    ASSUME NEW r
    PROVE  Conversion(r) \in {"supported", "Unsupported", "InvalidPayload"}
BY Zenon DEF Conversion

\* A new operation at the end of the graph.
LEMMA ElemsAppend ==
    ASSUME NEW S, NEW s \in Seq(S), NEW x \in S
    PROVE  Append(s, x) \in Seq(S) /\ Elems(Append(s, x)) = Elems(s) \cup {x}
<1>1. /\ Append(s, x) \in Seq(S) /\ Len(s) \in Nat /\ DOMAIN s = 1 .. Len(s)
      /\ DOMAIN Append(s, x) = 1 .. Len(s) + 1 /\ Append(s, x)[Len(s) + 1] = x
      /\ \A i \in 1 .. Len(s) : Append(s, x)[i] = s[i]
  OBVIOUS
<1>2. 1 .. Len(s) + 1 = (1 .. Len(s)) \cup {Len(s) + 1}
  BY <1>1
<1> QED
  BY <1>1, <1>2 DEF Elems

\* The empty graph.
LEMMA ElemsEmpty == Elems(<<>>) = {}
BY DEF Elems

\* The initial state is one.
LEMMA GraphInit ==
    ASSUME FoldInit
    PROVE  GraphInv
<1>1. /\ Elems(ops) = {} /\ input \in Seq(Operation) /\ ops \in Seq(Operation) /\ Len(ordered) = 0
      /\ at \in Nat /\ at > 0
  BY ElemsEmpty DEF FoldInit
<1>2. ShapeInv
  BY <1>1, Zenon DEF FoldInit, ShapeInv, Fresh, Stages
<1>3. Stepwise
  BY <1>1 DEF Stepwise
<1> QED
  BY <1>2, <1>3 DEF GraphInv, OrderInv, FoldInit, Folding

\* The frame of the steps that leave the graph and the order alone.
LEMMA GraphFrame ==
    ASSUME ops' = ops
    PROVE  /\ Ids' = Ids
           /\ \A x : OpOf(x)' = OpOf(x)
           /\ \A x : ParentsOf(x)' = ParentsOf(x)
           /\ \A x : Ancestors(x)' = Ancestors(x)
           /\ \A S : Following(S)' = Following(S)
           /\ Graph' <=> Graph
<1>1. Ids' = Ids /\ \A x : OpOf(x)' = OpOf(x)
  BY Zenon DEF Ids, OpOf
<1>2. \A x : ParentsOf(x)' = ParentsOf(x)
  BY <1>1, Zenon DEF ParentsOf
<1>3. \A x : Ancestors(x)' = Ancestors(x)
  BY SMTT(30), <1>1, <1>2 DEF Ancestors
<1>4. \A S : Following(S)' = Following(S)
  BY <1>1, <1>2 DEF Following
<1>5. Graph' <=> Graph
  BY <1>1, Zenon DEF Graph
<1> QED
  BY <1>1, <1>2, <1>3, <1>4, <1>5, Zenon

\* The steps that also leave the order alone.
LEMMA OrderFrame ==
    ASSUME ops' = ops, ordered' = ordered
    PROVE  (Stepwise' <=> Stepwise) /\ \A k : Prefix(k)' = Prefix(k)
<1>1. \A k : Prefix(k)' = Prefix(k)
  BY Zenon DEF Prefix
<1> QED
  BY <1>1, GraphFrame, Zenon DEF Stepwise

\* A call hands over a slice of converted operations, or a stream.
LEMMA CallKeepsShape ==
    ASSUME ShapeInv, NEW s \in Seq(Operation), NEW m, BeginReplay(s) \/ BeginFold(m, s)
    PROVE  ShapeInv'
<1>1. CASE BeginReplay(s)
  BY <1>1 DEF BeginReplay, ShapeInv, Stages, Fresh, groupVars, graphVars, searchVars, limitVars
<1>2. CASE BeginFold(m, s)
  <2>1. \A o \in Elems(s) : Conversion(o) = "supported"
    BY <1>2, Zenon DEF BeginFold, Elems
  <2>2. /\ stage = "idle" /\ m \in {"profile", "catalogs", "catalog"} /\ mode' = m
        /\ input' = s /\ ops' = s /\ at' = at /\ ordered' = ordered
        /\ UNCHANGED <<applied, active, searchVars, limitVars>>
    BY <1>2 DEF BeginFold, graphVars
  <2>3. \/ stage' = "done"
        \/ stage' = "build" /\ verdict' = verdict
    BY <1>2, Zenon DEF BeginFold, Fail
  <2> QED
    BY <2>1, <2>2, <2>3 DEF ShapeInv, Stages, Fresh, searchVars, limitVars
<1> QED
  BY <1>1, <1>2, Zenon

\* The loop over the stream collects converted operations only.
LEMMA StreamKeepsShape ==
    ASSUME ShapeInv, Convert \/ Collect
    PROVE  ShapeInv'
<1>1. CASE Convert
  <2>1. UNCHANGED <<mode, input, at, ops, ordered, applied, active, searchVars, limitVars>>
        /\ stage = "convert"
    BY <1>1 DEF Convert, sourceVars, groupVars, graphVars
  <2>2. \/ stage' = "done"
        \/ stage' = "collect" /\ verdict' = verdict /\ \A o \in Elems(input) : Foldable(o) => Conversion(o) = "supported"
    BY <1>1, Zenon DEF Convert, Fail, Elems
  <2> QED
    BY <2>1, <2>2 DEF ShapeInv, Stages, Fresh, Supported, searchVars, limitVars
<1>2. CASE Collect
  <2>1. /\ UNCHANGED <<mode, input, ordered, applied, active, searchVars, limitVars>> /\ stage = "collect"
        /\ Supported(input) /\ mode = "replay" /\ verdict = "none"
    BY ZenonT(60), <1>2 DEF Collect, sourceVars, graphVars, ShapeInv
  <2>2. /\ at' = at \/ at' = at + 1
        /\ stage' = "done" \/ (stage' \in {"collect", "build"} /\ verdict' = verdict)
        /\ ops' = ops \/ (at <= Len(input) /\ Foldable(input[at]) /\ ops' = Append(ops, input[at]))
    BY <1>2, <2>1 DEF Collect, groupVars
  <2>3. ops' \in Seq(Operation) /\ \A o \in Elems(ops') : Conversion(o) = "supported"
    <3>1. CASE ops' = ops
      BY <3>1, Zenon DEF ShapeInv
    <3>2. CASE at <= Len(input) /\ Foldable(input[at]) /\ ops' = Append(ops, input[at])
      <4>1. at \in DOMAIN input /\ input[at] \in Operation
        BY <3>2 DEF ShapeInv
      <4>2. Conversion(input[at]) = "supported"
        BY <2>1, <3>2, <4>1, Zenon DEF Supported, Elems
      <4>3. Append(ops, input[at]) \in Seq(Operation) /\ Elems(Append(ops, input[at])) = Elems(ops) \cup {input[at]}
        <5>1. ops \in Seq(Operation)
          BY DEF ShapeInv
        <5> QED
          BY SMTT(30), <4>1, <5>1, ElemsAppend
      <4> QED
        BY <3>2, <4>2, <4>3 DEF ShapeInv
    <3> QED
      BY <2>2, <3>1, <3>2, Zenon
  <2>4. at' \in Nat /\ at' > 0
    BY <2>2 DEF ShapeInv
  <2> QED
    BY ZenonT(60), <2>1, <2>2, <2>3, <2>4 DEF ShapeInv, Stages, Fresh, searchVars, limitVars
<1> QED
  BY <1>1, <1>2, Zenon

\* The other steps work on the operations collected.
LEMMA FoldKeepsShape ==
    ASSUME ShapeInv, Build \/ Emit \/ Ordered \/ Apply \/ Ask \/ Visit \/ Settle \/ FinishFold
    PROVE  ShapeInv'
<1>1. CASE Build
  <2>1. stage' \in {"order", "done"} /\ (stage' # "done" => verdict' = verdict)
    BY Zenon, <1>1 DEF Build, Fail
  <2> QED
    BY Zenon, <1>1, <2>1 DEF Build, ShapeInv, Stages, Fresh, sourceVars, groupVars, searchVars, limitVars
<1>2. CASE Emit
  BY <1>2 DEF Emit, ShapeInv, Stages, Fresh, sourceVars, groupVars, searchVars, limitVars
<1>3. CASE Ordered
  <2>1. stage' \in {"apply", "done"} /\ (stage' # "done" => verdict' = verdict)
    BY <1>3 DEF Ordered, Fail
  <2> QED
    BY <1>3, <2>1 DEF Ordered, ShapeInv, Stages, Fresh, sourceVars, groupVars, graphVars, searchVars, limitVars
<1>4. CASE Apply
  <2>1. stage = "apply" /\ stage' \in {"apply", "search"}
        /\ UNCHANGED <<mode, input, at, ops, ordered, verdict>>
    BY <1>4 DEF Apply, sourceVars, groupVars, graphVars
  <2>2. stage' = "apply" => UNCHANGED searchVars
    BY <1>4 DEF Apply
  <2> QED
    BY <2>1, <2>2 DEF ShapeInv, Stages, searchVars
<1>5. CASE Ask \/ Visit
  <2>1. stage = "search" /\ UNCHANGED <<stage, mode, input, at, ops, ordered, verdict>>
    BY Zenon, <1>5 DEF Ask, Visit, sourceVars, groupVars, graphVars
  <2> QED
    BY Zenon, <2>1 DEF ShapeInv, Stages
<1>6. CASE Settle
  <2>1. stage = "search" /\ UNCHANGED <<mode, input, at, ops, ordered>>
    BY <1>6 DEF Settle, sourceVars, groupVars, graphVars
  <2>3. \/ stage' = "done"
        \/ stage' = "apply" /\ verdict' = verdict
    BY <1>6, Zenon DEF Settle, Fail
  <2>2. cand = NoId /\ todo = {} /\ observed' = {} /\ UNCHANGED <<cand, todo>>
    BY <1>6 DEF Settle
  <2> QED
    BY <2>1, <2>2, <2>3 DEF ShapeInv, Stages
<1>7. CASE FinishFold
  <2>1. CASE mode = "replay"
    <3>1. cand = NoId /\ observed = {} /\ todo = {}
      BY <1>7 DEF FinishFold, ShapeInv
    <3>2. Elems(ops') = {}
      BY Zenon, <1>7, <2>1, ElemsEmpty DEF FinishFold
    <3> QED
      BY SMTT(30), <1>7, <2>1, <3>1, <3>2 DEF FinishFold, ShapeInv, Stages, Fresh, sourceVars, searchVars
  <2>2. CASE mode # "replay"
    BY <1>7, <2>2 DEF FinishFold, ShapeInv, Stages, sourceVars, groupVars, graphVars
  <2> QED
    BY Zenon, <2>1, <2>2
<1> QED
  BY <1>1, <1>2, <1>3, <1>4, <1>5, <1>6, <1>7, ZenonT(60)

\* Until a graph is built there is no order, and no error of the order.
LEMMA EarlyKeepsOrder ==
    ASSUME GraphInv, ordered' = <<>>, stage' \in {"convert", "collect", "build", "done"},
           verdict' # "Cycle", verdict' = "ok" => mode' = "replay"
    PROVE  OrderInv'
<1>1. Len(ordered') = 0
  OBVIOUS
<1>2. Stepwise'
  BY <1>1 DEF Stepwise
<1> QED
  BY <1>2 DEF OrderInv, Folding

\* The node checks of CausalGraph::new establish a graph, and the loop over `ready`
\* starts with the operations that have no parents.
LEMMA BuildKeepsOrder ==
    ASSUME GraphInv, Build
    PROVE  OrderInv'
<1>0. /\ UNCHANGED <<mode, ops>> /\ stage = "build" /\ verdict = "none" /\ ordered = <<>> /\ ops \in Seq(Operation)
  BY DEF Build, sourceVars, groupVars, GraphInv, ShapeInv
<1> DEFINE bad == {i \in DOMAIN ops : BadNode(i)}
           dangling == \E o \in Elems(ops) : ~(Elems(o.parents) \subseteq Ids)
<1>1. CASE stage' = "done"
  <2>1. verdict' \in {"TooManyOperations", "TooManyEdges", "DuplicateRecordId", "InvalidParents", "DanglingParent"}
    BY Zenon, <1>1 DEF Build, Fail
  <2>2. ordered' = ordered
    BY Zenon, <1>1 DEF Build, Fail, graphVars
  <2> QED
    BY Zenon, <1>0, <1>1, <2>1, <2>2, EarlyKeepsOrder
<1>2. CASE stage' # "done"
  <2>1. /\ bad = {} /\ ~dangling
        /\ indegree' = [id \in Ids |-> Cardinality(ParentsOf(id))]
        /\ ready' = {id \in Ids : ParentsOf(id) = {}}
        /\ ordered' = <<>> /\ stage' = "order" /\ verdict' = verdict
    BY <1>2, Zenon DEF Build, Fail
  <2>2. ASSUME NEW i \in DOMAIN ops, NEW j \in DOMAIN ops, ops[i].id = ops[j].id PROVE i = j
    <3>1. ASSUME NEW a \in DOMAIN ops, NEW b \in DOMAIN ops, a < b PROVE ops[a].id # ops[b].id
      <4>1. a \in 1 .. b - 1
        BY <1>0, <3>1
      <4> QED
        BY <2>1, <4>1, Zenon DEF BadNode
    <3>2. ~(i < j) /\ ~(j < i)
      BY <2>2, <3>1, Zenon
    <3> QED
      BY <1>0, <3>2
  <2>3. Graph
    BY <1>0, <2>1, <2>2, ZenonT(60) DEF Graph
  <2>4. Len(ordered') = 0 /\ ordered' \in Seq(Ids)
    BY <2>1
  <2>5. Prefix(0)' = {}
    BY PrefixGrows DEF Prefix
  <2>6. Following({}) = {id \in Ids : ParentsOf(id) = {}}
    BY DEF Following
  <2>7. \A c \in Ids : ParentsOf(c) \ {} = ParentsOf(c)
    OBVIOUS
  <2>8. Stepwise'
    BY <2>4 DEF Stepwise
  <2>9. /\ Ids' = Ids
        /\ \A x : ParentsOf(x)' = ParentsOf(x)
        /\ \A S : Following(S)' = Following(S)
        /\ Graph'
    BY <1>0, <2>3, GraphFrame, Zenon
  <2>10. Prefix(Len(ordered))' = {}
    BY Zenon, <2>4, <2>5 DEF Prefix
  <2>11. ready' = Following(Prefix(Len(ordered)))'
    BY Zenon, <2>1, <2>6, <2>9, <2>10 DEF Following
  <2>12. indegree' = [c \in Ids |-> Cardinality(ParentsOf(c) \ Prefix(Len(ordered)))]'
    BY Zenon, <2>1, <2>7, <2>9, <2>10
  <2>13. verdict' = "none"
    BY <1>0, <2>1
  <2> QED
    BY ZenonT(60), <2>1, <2>4, <2>8, <2>9, <2>11, <2>12, <2>13 DEF OrderInv, Folding
<1> QED
  BY <1>1, <1>2, ZenonT(60)

\* What can come next after one more identifier: what could come before, and the
\* children whose last missing parent it is.
LEMMA ReadyAfter ==
    ASSUME Graph, NEW B \in SUBSET Ids, \A x \in B : ParentsOf(x) \subseteq B,
           NEW id \in Following(B)
    PROVE  LET after == B \cup {id}
               children == {c \in Ids : id \in ParentsOf(c)}
           IN  /\ \A c \in children : Cardinality(ParentsOf(c) \ B) - 1 = Cardinality(ParentsOf(c) \ after)
               /\ \A c \in Ids \ children : Cardinality(ParentsOf(c) \ B) = Cardinality(ParentsOf(c) \ after)
               /\ Following(after) = (Following(B) \ {id})
                    \cup {c \in children : Cardinality(ParentsOf(c) \ after) = 0}
<1> DEFINE after == B \cup {id}
           children == {c \in Ids : id \in ParentsOf(c)}
<1>1. id \in Ids /\ id \notin B /\ ParentsOf(id) \subseteq B
  BY Zenon DEF Following
<1>2. ASSUME NEW c \in Ids PROVE IsFiniteSet(ParentsOf(c) \ B) /\ IsFiniteSet(ParentsOf(c) \ after)
  <2>1. ParentsOf(c) \ B \in SUBSET Ids /\ ParentsOf(c) \ after \in SUBSET Ids
    BY Nodes
  <2> QED
    BY <2>1, NodesAreCounted, FS_Subset, Zenon
<1>3. ASSUME NEW c \in children PROVE Cardinality(ParentsOf(c) \ B) - 1 = Cardinality(ParentsOf(c) \ after)
  <2>1. ParentsOf(c) \ after = (ParentsOf(c) \ B) \ {id} /\ id \in ParentsOf(c) \ B
    BY <1>1
  <2>2. Cardinality((ParentsOf(c) \ B) \ {id}) = Cardinality(ParentsOf(c) \ B) - 1
    BY Zenon, <1>2, <2>1, FS_RemoveElement
  <2> QED
    BY <2>1, <2>2
<1>4. ASSUME NEW c \in Ids \ children PROVE Cardinality(ParentsOf(c) \ B) = Cardinality(ParentsOf(c) \ after)
  <2>1. ParentsOf(c) \ after = ParentsOf(c) \ B
    BY <1>1
  <2> QED
    BY Zenon, <2>1
<1>5. ASSUME NEW c \in Ids PROVE Cardinality(ParentsOf(c) \ after) = 0 <=> ParentsOf(c) \subseteq after
  <2>1. Cardinality(ParentsOf(c) \ after) = 0 <=> ParentsOf(c) \ after = {}
    BY <1>2, FS_EmptySet, Zenon
  <2>2. ParentsOf(c) \ after = {} <=> ParentsOf(c) \subseteq after
    BY Zenon
  <2> QED
    BY <2>1, <2>2, Zenon
<1>6. ASSUME NEW c \in children PROVE c \notin after
  BY <1>1
<1>7. ASSUME NEW c \in Following(after)
      PROVE  c \in Following(B) \ {id} \/ (c \in children /\ Cardinality(ParentsOf(c) \ after) = 0)
  <2>1. c \in Ids /\ c \notin after /\ ParentsOf(c) \subseteq after
    BY Zenon DEF Following
  <2>2. Cardinality(ParentsOf(c) \ after) = 0
    BY <1>5, <2>1, Zenon
  <2>3. id \notin ParentsOf(c) => ParentsOf(c) \subseteq B
    BY <2>1
  <2> QED
    BY <2>1, <2>2, <2>3 DEF Following
<1>8. ASSUME NEW c \in Following(B) \ {id} PROVE c \in Following(after)
  BY DEF Following
<1>9. ASSUME NEW c \in children, Cardinality(ParentsOf(c) \ after) = 0 PROVE c \in Following(after)
  <2>1. ParentsOf(c) \subseteq after /\ c \in Ids /\ c \notin after
    BY <1>5, <1>6, <1>9, Zenon
  <2> QED
    BY <2>1, Zenon DEF Following
<1> HIDE DEF after, children
<1>10. Following(after) = (Following(B) \ {id}) \cup {c \in children : Cardinality(ParentsOf(c) \ after) = 0}
  BY Zenon, <1>7, <1>8, <1>9
<1> QED
  BY <1>3, <1>4, <1>10, Zenon DEF after, children

\* pop_first takes the smallest identifier that can come next.
LEMMA EmitKeepsOrder ==
    ASSUME GraphInv, Emit
    PROVE  OrderInv'
<1> DEFINE n == Len(ordered)
           id == Min(ready)
           B == Prefix(n)
           after == B \cup {id}
           children == {c \in Ids : id \in ParentsOf(c)}
<1>1. /\ stage = "order" /\ stage' = "order" /\ UNCHANGED <<mode, ops, verdict>>
      /\ verdict = "none" /\ ready # {}
      /\ ordered' = Append(ordered, id)
      /\ indegree' = [c \in Ids |-> IF c \in children THEN indegree[c] - 1 ELSE indegree[c]]
      /\ ready' = (ready \ {id}) \cup {c \in children : indegree'[c] = 0}
  BY DEF Emit, NextReady, sourceVars, groupVars, GraphInv, ShapeInv
<1>2. /\ Graph /\ Stepwise /\ ordered \in Seq(Ids) /\ ready = Following(B)
      /\ indegree = [c \in Ids |-> Cardinality(ParentsOf(c) \ B)]
  BY <1>1, Zenon DEF GraphInv, OrderInv
<1>3. n \in Nat /\ B \in SUBSET Ids /\ \A x \in B : ParentsOf(x) \subseteq B
  <2>1. n \in Nat /\ n \in 0 .. Len(ordered)
    BY SMTT(30), <1>2
  <2> QED
    BY <1>2, <2>1, PrefixIsClosed, Zenon
<1>4. id \in Following(B) /\ id \in Ids /\ \A x \in Following(B) : id <= x
  <2>1. ready \in SUBSET Nat
    BY Zenon, <1>2, Nodes DEF Following
  <2> QED
    BY ZenonT(60), <1>1, <1>2, <2>1, LeastNatural DEF Following
<1> HIDE DEF n, id, B
<1>5. /\ ordered' \in Seq(Ids) /\ Len(ordered') = n + 1 /\ ordered'[n + 1] = id
      /\ \A k \in 1 .. n : ordered'[k] = ordered[k]
  BY SMTT(30), <1>1, <1>2, <1>3, <1>4 DEF n
<1>6. \A k \in 0 .. n : Prefix(k)' = Prefix(k)
  <2>1. \A k \in 0 .. n : \A i \in 1 .. k : i \in 1 .. n
    BY <1>3
  <2> QED
    BY <1>5, <2>1 DEF Prefix
<1>7. {ordered'[k] : k \in 1 .. n + 1} = after
  <2>1. B = {ordered[k] : k \in 1 .. n}
    BY DEF B, Prefix
  <2>2. 1 .. n + 1 = (1 .. n) \cup {n + 1}
    BY <1>3
  <2> QED
    BY <1>5, <2>1, <2>2
<1>8. /\ Ids' = Ids
      /\ \A x : ParentsOf(x)' = ParentsOf(x)
      /\ \A S : Following(S)' = Following(S)
      /\ Graph'
  BY <1>1, <1>2, GraphFrame, Zenon
<1>9. Stepwise'
  <2>1. ASSUME NEW k \in 1 .. n + 1
        PROVE  ordered'[k] \in Following(Prefix(k - 1)') /\ \A x \in Following(Prefix(k - 1)') : ordered'[k] <= x
    <3>1. CASE k \in 1 .. n
      <4>1. k - 1 \in 0 .. n
        BY <1>3, <3>1
      <4>2. ordered[k] \in Following(Prefix(k - 1)) /\ \A x \in Following(Prefix(k - 1)) : ordered[k] <= x
        BY <1>2, <3>1, Zenon DEF Stepwise, n
      <4> QED
        BY <1>5, <1>6, <3>1, <4>1, <4>2, ZenonT(60)
    <3>2. CASE k = n + 1
      <4>1. k - 1 = n /\ n \in 0 .. n
        BY SMTT(30), <1>3, <3>2
      <4>2. Prefix(k - 1)' = B
        BY <1>6, <4>1 DEF B
      <4> QED
        BY ZenonT(60), <1>4, <1>5, <3>2, <4>2
    <3> QED
      BY SMTT(30), <1>3, <3>1, <3>2
  <2> QED
    BY <1>5, <1>8, <2>1, ZenonT(60) DEF Stepwise
<1>10. /\ \A c \in children : Cardinality(ParentsOf(c) \ B) - 1 = Cardinality(ParentsOf(c) \ after)
       /\ \A c \in Ids \ children : Cardinality(ParentsOf(c) \ B) = Cardinality(ParentsOf(c) \ after)
       /\ Following(after) = (Following(B) \ {id})
                    \cup {c \in children : Cardinality(ParentsOf(c) \ after) = 0}
  BY <1>2, <1>3, <1>4, ReadyAfter, ZenonT(60)
<1>11. \A c \in Ids : indegree'[c] = Cardinality(ParentsOf(c) \ after)
  BY Zenon, <1>1, <1>2, <1>10
<1>12. indegree' = [c \in Ids |-> Cardinality(ParentsOf(c) \ after)]
  BY Zenon, <1>1, <1>11
<1>13. ready' = Following(after)
  BY ZenonT(60), <1>1, <1>2, <1>10, <1>11
<1>14. Prefix(Len(ordered))' = after
  <2>1. Prefix(Len(ordered))' = {ordered'[k] : k \in 1 .. Len(ordered')}
    BY Zenon DEF Prefix
  <2> QED
    BY <1>5, <1>7, <2>1, ZenonT(60)
<1>15. ready' = Following(Prefix(Len(ordered)))'
  BY SMTT(30), <1>8, <1>13, <1>14 DEF Following
<1>16. indegree' = [c \in Ids |-> Cardinality(ParentsOf(c) \ Prefix(Len(ordered)))]'
  BY <1>8, <1>12, <1>14
<1> QED
  BY ZenonT(60), <1>1, <1>5, <1>8, <1>9, <1>15, <1>16 DEF OrderInv, Folding

\* Nothing is ready: the order is complete, or what is missing holds a cycle.
LEMMA OrderedKeepsOrder ==
    ASSUME GraphInv, Ordered
    PROVE  OrderInv'
<1> DEFINE B == Prefix(Len(ordered))
<1>1. stage = "order" /\ UNCHANGED <<mode, ops, ordered>> /\ verdict = "none" /\ ready = {}
  BY DEF Ordered, sourceVars, groupVars, graphVars, GraphInv, ShapeInv
<1>2. Graph /\ Stepwise /\ ordered \in Seq(Ids) /\ Following(B) = {}
  BY <1>1, Zenon DEF GraphInv, OrderInv
<1>3. /\ B \in SUBSET Ids
      /\ \A x \in B : x \notin Ancestors(x)
      /\ Len(ordered) = Len(ops) <=> B = Ids
  <2>1. Len(ordered) \in Nat /\ Len(ordered) \in 0 .. Len(ordered)
    BY <1>2
  <2> QED
    BY <1>2, <2>1, PrefixIsClosed, PrefixIsCounted, Zenon
<1> HIDE DEF B
<1>4. /\ Ids' = Ids
      /\ \A x : Ancestors(x)' = Ancestors(x)
      /\ Graph' /\ Stepwise'
      /\ Prefix(Len(ordered))' = B
  BY ZenonT(60), <1>1, <1>2, GraphFrame, OrderFrame DEF B
<1>5. /\ Len(ordered) # Len(ops) => stage' = "done" /\ verdict' = "Cycle"
      /\ Len(ordered) = Len(ops) => (stage' = "done" /\ verdict' = "WrongEntity") \/ (stage' = "apply" /\ verdict' = "none")
  BY SMTT(30), <1>1 DEF Ordered, Fail, Shortfall
<1>6. CASE Len(ordered) # Len(ops)
  <2>1. Ids \ B \in SUBSET Ids /\ Ids \ B # {}
    BY Zenon, <1>3, <1>6
  <2>2. \A x \in Ids \ B : ParentsOf(x) \cap (Ids \ B) # {}
    BY <1>2, Nodes DEF Following
  <2>3. \E x \in Ids : x \in Ancestors(x)
    BY ZenonT(60), <1>2, <2>1, <2>2, NoEndlessAncestry
  <2> QED
    BY SMTT(30), <1>4, <1>5, <1>6, <2>3 DEF OrderInv, Folding
<1>7. CASE Len(ordered) = Len(ops)
  <2>1. \A x \in Ids : x \notin Ancestors(x)
    BY <1>3, <1>7
  <2>2. ordered' \in Seq(Ids')
    BY Zenon, <1>1, <1>2, <1>4
  <2> QED
    BY SMTT(30), <1>3, <1>4, <1>5, <1>7, <2>1, <2>2 DEF OrderInv, Folding
<1> QED
  BY <1>6, <1>7, ZenonT(60)

\* Applying the operations leaves the graph and the order alone.
LEMMA ApplyKeepsOrder ==
    ASSUME GraphInv, Apply \/ Ask \/ Visit \/ Settle \/ (FinishFold /\ mode # "replay")
    PROVE  OrderInv'
<1>1. stage \in {"apply", "search"} /\ UNCHANGED <<mode, ops, ordered>>
  BY Zenon DEF Apply, Ask, Visit, Settle, FinishFold, sourceVars, groupVars, graphVars
<1>2. /\ Graph /\ Stepwise /\ ordered \in Seq(Ids) /\ Prefix(Len(ordered)) = Ids
  BY <1>1, Zenon DEF GraphInv, OrderInv
<1>3. \A x \in Ids : x \notin Ancestors(x)
  <2>1. Len(ordered) \in Nat /\ Len(ordered) \in 0 .. Len(ordered)
    BY SMTT(30), <1>2
  <2> QED
    BY <1>2, <2>1, PrefixIsClosed, Zenon
<1>4. stage' \in {"apply", "search", "done"} /\ verdict' # "Cycle"
  <2>1. verdict = "none"
    BY <1>1 DEF GraphInv, ShapeInv
  <2> QED
    BY Zenon, <1>1, <2>1 DEF Apply, Ask, Visit, Settle, FinishFold, Fail
<1>5. /\ Ids' = Ids
      /\ \A x : Ancestors(x)' = Ancestors(x)
      /\ Graph' /\ Stepwise'
      /\ Prefix(Len(ordered))' = Ids
  BY ZenonT(60), <1>1, <1>2, GraphFrame, OrderFrame
<1>6. ordered' \in Seq(Ids')
  BY <1>1, <1>2, <1>5
<1> QED
  BY Zenon, <1>3, <1>4, <1>5, <1>6 DEF OrderInv

\* Every step keeps the invariant.
LEMMA GraphStep ==
    ASSUME GraphInv, [FoldNext]_foldVars
    PROVE  GraphInv'
<1>1. ASSUME NEW s \in Seq(Operation), NEW m, BeginReplay(s) \/ BeginFold(m, s)
      PROVE  GraphInv'
  <2>1. ordered' = <<>> /\ stage = "idle" /\ verdict = "none"
    BY Zenon, <1>1 DEF BeginReplay, BeginFold, graphVars, GraphInv, ShapeInv
  <2>2. stage' \in {"convert", "build", "done"}
    BY Zenon, <1>1 DEF BeginReplay, BeginFold, Fail
  <2>3. verdict' \in {"none", "WrongEntity", "WrongTarget"}
    BY Zenon, <1>1, <2>1 DEF BeginReplay, BeginFold, Fail
  <2> QED
    BY ZenonT(60), <1>1, <2>1, <2>2, <2>3, CallKeepsShape, EarlyKeepsOrder DEF GraphInv
<1>2. CASE Convert
  <2>1. ordered' = <<>> /\ stage = "convert" /\ verdict = "none"
    BY SMTT(30), <1>2 DEF Convert, graphVars, GraphInv, ShapeInv
  <2>2. stage' \in {"collect", "done"}
    BY SMTT(30), <1>2 DEF Convert, Fail
  <2>3. verdict' \in {"none", "supported", "Unsupported", "InvalidPayload"}
    BY SMTT(30), <1>2, <2>1, Conversions DEF Convert, Fail
  <2> QED
    BY ZenonT(60), <1>2, <2>1, <2>2, <2>3, StreamKeepsShape, EarlyKeepsOrder DEF GraphInv
<1>3. CASE Collect
  <2>1. ordered' = <<>> /\ stage = "collect" /\ verdict = "none" /\ mode' = "replay"
    BY ZenonT(60), <1>3 DEF Collect, sourceVars, graphVars, GraphInv, ShapeInv
  <2>2. stage' \in {"collect", "build", "done"} /\ verdict' \in {"none", "ok"}
    BY SMTT(30), <1>3, <2>1 DEF Collect
  <2> QED
    BY ZenonT(60), <1>3, <2>1, <2>2, StreamKeepsShape, EarlyKeepsOrder DEF GraphInv
<1>4. CASE FinishFold /\ mode = "replay"
  <2>1. ordered' = <<>> /\ stage' = "collect" /\ verdict' = "none"
    BY <1>4 DEF FinishFold, GraphInv, ShapeInv
  <2> QED
    BY ZenonT(60), <1>4, <2>1, FoldKeepsShape, EarlyKeepsOrder DEF GraphInv
<1>5. CASE Build \/ Emit \/ Ordered
  BY <1>5, FoldKeepsShape, BuildKeepsOrder, EmitKeepsOrder, OrderedKeepsOrder, Zenon DEF GraphInv
<1>6. CASE Apply \/ Ask \/ Visit \/ Settle \/ (FinishFold /\ mode # "replay")
  BY <1>6, FoldKeepsShape, ApplyKeepsOrder, Zenon DEF GraphInv
<1>7. CASE UNCHANGED foldVars
  <2>1. ShapeInv'
    BY Zenon, <1>7 DEF foldVars, GraphInv, ShapeInv, Fresh
  <2>2. OrderInv'
    <3>1. /\ ops' = ops /\ ordered' = ordered /\ stage' = stage /\ mode' = mode /\ verdict' = verdict
          /\ ready' = ready /\ indegree' = indegree
      BY <1>7 DEF foldVars
    <3>2. OrderInv
      BY DEF GraphInv
    <3> QED
      BY ZenonT(60), <3>1, <3>2, GraphFrame, OrderFrame DEF OrderInv, Folding
  <2> QED
    BY Zenon, <2>1, <2>2 DEF GraphInv
<1> QED
  BY <1>1, <1>2, <1>3, <1>4, <1>5, <1>6, <1>7, ZenonT(60) DEF FoldNext, FoldStep

\* The invariant of the graph: what causal.rs knows while it orders a group.
THEOREM GraphInvariant == FoldSpec => []GraphInv
<1>1. FoldInit => GraphInv
  BY GraphInit
<1>2. GraphInv /\ [FoldNext]_foldVars => GraphInv'
  BY GraphStep
<1> QED
  BY <1>1, <1>2, PTL DEF FoldSpec

\* CausalGraph::new emits the smallest identifier whose parents are all out, misses
\* none, and reports a cycle exactly when an operation is its own ancestor.
THEOREM OrdersAreCanonical == FoldSpec => []CanonicalOrder
<1>1. GraphInv => CanonicalOrder
  BY Zenon DEF GraphInv, OrderInv, Stepwise, Following, CanonicalOrder
<1> QED
  BY <1>1, GraphInvariant, PTL

---------------------------------------------------------------------------
(* The fold state and the reachability search *)

\* The pairs that registers and adds hold when the identifiers of X are active.
Held(X) == {<<Slot(OpOf(a)), a>> : a \in X}

\* a gives way to b: b replaces or removes what it observes in its slot.
Replaces(b, a) == OpOf(b).verb # "add" /\ a \in Ancestors(b) /\ SameSlot(a, b)

\* The survivors, without the table of ancestors that the definition keeps.
LEMMA SurvivingIs ==
    ASSUME NEW S
    PROVE  Surviving(S) = {a \in S : OpOf(a).verb # "remove" /\ ~\E b \in S : Replaces(b, a)}
<1> DEFINE above == [b \in S |-> Ancestors(b)]
<1>1. \A b \in S : above[b] = Ancestors(b)
  OBVIOUS
<1>2. Surviving(S) = {a \in S : /\ OpOf(a).verb # "remove"
                   /\ ~\E b \in S : OpOf(b).verb # "add" /\ a \in above[b] /\ SameSlot(a, b)}
  BY Zenon DEF Surviving
<1> HIDE DEF above
<1> QED
  BY <1>1, <1>2, Zenon DEF Replaces

\* One more operation of the order: what it replaces goes, and it stays itself unless
\* it is a remove.  No operation before it can have observed it.
LEMMA SurvivingGrows ==
    ASSUME Graph, Stepwise, ordered \in Seq(Ids), NEW k \in 0 .. Len(ordered), k < Len(ordered)
    PROVE  LET c == ordered[k + 1]
           IN  Surviving(Prefix(k + 1)) =
                {a \in Surviving(Prefix(k)) : ~Replaces(c, a)}
                \cup {a \in {c} : OpOf(c).verb # "remove"}
<1> DEFINE c == ordered[k + 1]
           S == Prefix(k)
<1>1. /\ S \subseteq Ids /\ \A x \in S : Ancestors(x) \subseteq S
      /\ c \in Ids \ S /\ Ancestors(c) \subseteq S
  BY PrefixIsClosed, Zenon
<1>2. Prefix(k + 1) = S \cup {c}
  <2>1. k \in Nat
    OBVIOUS
  <2> QED
    BY <2>1, PrefixGrows
<1>3. \A b \in S \cup {c} : ~Replaces(b, c)
  BY <1>1, Zenon DEF Replaces
<1> HIDE DEF c, S
<1>4. Surviving(S) = {a \in S : OpOf(a).verb # "remove" /\ ~\E b \in S : Replaces(b, a)}
  BY SurvivingIs
<1>5. Surviving(S \cup {c}) =
        {a \in S \cup {c} : OpOf(a).verb # "remove" /\ ~\E b \in S \cup {c} : Replaces(b, a)}
  BY SurvivingIs
<1>6. Surviving(S \cup {c}) = {a \in Surviving(S) : ~Replaces(c, a)} \cup {a \in {c} : OpOf(c).verb # "remove"}
  BY ZenonT(60), <1>1, <1>3, <1>4, <1>5
<1> QED
  BY <1>2, <1>6, Zenon DEF c, S

\* What is active in a slot is what survives there.
LEMMA ActiveInSlot ==
    ASSUME NEW X \in SUBSET Ids, active = Held(X), NEW slot
    PROVE  ActiveIn(slot) = {a \in X : Slot(OpOf(a)) = slot}
<1>1. \A id : <<slot, id>> \in active <=> id \in X /\ Slot(OpOf(id)) = slot
  <2> SUFFICES ASSUME NEW id PROVE <<slot, id>> \in active <=> id \in X /\ Slot(OpOf(id)) = slot
    BY Zenon
  <2>1. ASSUME <<slot, id>> \in active PROVE id \in X /\ Slot(OpOf(id)) = slot
    <3>1. PICK a \in X : <<slot, id>> = <<Slot(OpOf(a)), a>>
      BY <2>1, Zenon DEF Held
    <3> QED
      BY <3>1, Zenon
  <2>2. ASSUME id \in X, Slot(OpOf(id)) = slot PROVE <<slot, id>> \in active
    BY <2>2, ZenonT(60) DEF Held
  <2> QED
    BY <2>1, <2>2, Zenon
<1> QED
  BY <1>1, Zenon DEF ActiveIn

\* What the state holds after an operation that observed `seen` in its slot.
LEMMA HeldAfter ==
    ASSUME NEW X \in SUBSET Ids, active = Held(X), NEW c \in Ids, NEW seen,
           seen = {a \in X : a \in Ancestors(c) /\ SameSlot(a, c)},
           OpOf(c).verb \in {"set", "resolve", "remove"}, OpOf(c).id = c
    PROVE  ActiveAfter(OpOf(c), seen) =
            Held({a \in X : ~Replaces(c, a)} \cup {a \in {c} : OpOf(c).verb # "remove"})
<1> DEFINE kept == active \ {<<Slot(OpOf(c)), id>> : id \in seen}
           Y == {a \in X : ~Replaces(c, a)}
           Z == {a \in {c} : OpOf(c).verb # "remove"}
<1>1. Y = {a \in X : a \notin seen}
  BY Zenon DEF Replaces
<1>2. \A a \in seen : Slot(OpOf(a)) = Slot(OpOf(c))
  BY Zenon DEF SameSlot
<1> HIDE DEF Y
<1>3. kept = Held(Y)
  <2>1. ASSUME NEW p \in kept PROVE p \in Held(Y)
    <3>1. PICK a \in X : p = <<Slot(OpOf(a)), a>>
      BY <2>1, Zenon DEF Held
    <3>2. a \notin seen
      BY <1>2, <3>1, Zenon
    <3> QED
      BY <1>1, <3>1, <3>2, Zenon DEF Held
  <2>2. ASSUME NEW p \in Held(Y) PROVE p \in kept
    <3>1. PICK a \in Y : p = <<Slot(OpOf(a)), a>>
      BY <2>2, Zenon DEF Held
    <3>2. a \in X /\ a \notin seen
      BY <1>1, Zenon
    <3>3. p \in active
      BY <3>1, <3>2, Zenon DEF Held
    <3>4. ASSUME NEW id \in seen, p = <<Slot(OpOf(c)), id>> PROVE FALSE
      <4>1. id = a
        BY SMTT(30), <3>1, <3>4
      <4> QED
        BY <3>2, <4>1, ZenonT(60)
    <3> QED
      BY <3>3, <3>4, Zenon
  <2> QED
    BY <2>1, <2>2, Zenon
<1> HIDE DEF kept
<1>4. ActiveAfter(OpOf(c), seen) = IF Writes(OpOf(c)) THEN kept \cup {<<Slot(OpOf(c)), c>>} ELSE kept
  BY ZenonT(60) DEF ActiveAfter, kept
<1>5. CASE OpOf(c).verb = "remove"
  <2>1. ~Writes(OpOf(c)) /\ Z = {}
    BY Zenon, <1>5 DEF Writes
  <2> QED
    BY ZenonT(60), <1>3, <1>4, <2>1 DEF Held, Y
<1>6. CASE OpOf(c).verb # "remove"
  <2>1. Writes(OpOf(c)) /\ Z = {c}
    BY <1>6 DEF Writes
  <2> QED
    BY ZenonT(60), <1>3, <1>4, <2>1 DEF Held, Y
<1> QED
  BY <1>5, <1>6

Cursor == ordered[applied + 1]
InSlot == ActiveIn(Slot(OpOf(Cursor)))

\* The search for cand among the ancestors of the operation at the cursor: it has not
\* been met, only ancestors are pending, and what was expanded has its parents behind it.
Searching ==
    LET met == visited \cup Elems(pending)
    IN  /\ cand \in InSlot \ todo /\ cand \notin visited
        /\ pending \in Seq(Ids) /\ visited \subseteq Ids
        /\ Elems(pending) \subseteq Ancestors(Cursor)
        /\ ParentsOf(Cursor) \subseteq met
        /\ \A v \in visited : ParentsOf(v) \subseteq met

\* What holds between two operations: the state holds the survivors, and every
\* resolution and remove so far named exactly what it observed.
Applied ==
    /\ applied \in 0 .. Len(ordered)
    /\ active = Held(Surviving(Prefix(applied)))
    /\ \A k \in 1 .. applied : MustName(k) => Elems(OpOf(ordered[k]).refs) = Named(k)

\* The fold state, and the answers of the search under way.
FoldInv ==
    /\ GraphInv
    /\ stage \in {"apply", "search"} => Applied
    /\ stage = "apply" => ~exceeded
    /\ stage = "search" =>
        /\ applied < Len(ordered) /\ OpOf(Cursor).verb # "add"
        /\ todo \subseteq InSlot
        /\ cand # NoId => Searching
        /\ ~exceeded => observed = {a \in InSlot \ todo : a # cand /\ a \in Ancestors(Cursor)}
    /\ ActiveIsMaximal /\ NamesExact

\* The verbs that convert.
LEMMA SupportedVerbs ==
    ASSUME NEW r, Conversion(r) = "supported"
    PROVE  r.verb \in {"set", "resolve", "add", "remove"}
BY Zenon DEF Conversion

\* What an operation at the cursor is.
LEMMA AtCursor ==
    ASSUME GraphInv, stage \in {"apply", "search"}, applied \in 0 .. Len(ordered), applied < Len(ordered)
    PROVE  /\ Graph /\ Stepwise /\ ordered \in Seq(Ids) /\ Cursor \in Ids /\ applied \in Nat
           /\ Current = OpOf(Cursor) /\ OpOf(Cursor).id = Cursor
           /\ OpOf(Cursor).verb \in {"set", "resolve", "add", "remove"}
<1>1. Graph /\ Stepwise /\ ordered \in Seq(Ids)
  BY DEF GraphInv, OrderInv
<1>2. applied \in Nat /\ Cursor \in Ids /\ Current = OpOf(Cursor)
  BY <1>1 DEF Cursor, Current
<1>3. OpOf(Cursor) \in Elems(ops) /\ OpOf(Cursor).id = Cursor
  BY <1>1, <1>2, Nodes, ZenonT(60)
<1>4. Conversion(OpOf(Cursor)) = "supported"
  BY <1>3, Zenon DEF GraphInv, ShapeInv
<1> QED
  BY <1>1, <1>2, <1>3, <1>4, SupportedVerbs, ZenonT(60)

\* The frame of the steps that leave the graph, the order and the fold state alone.
LEMMA FoldFrame ==
    ASSUME ops' = ops, ordered' = ordered
    PROVE  /\ \A S : Surviving(S)' = Surviving(S)
           /\ \A X : Held(X)' = Held(X)
           /\ \A k : Named(k)' = Named(k)
           /\ \A k : MustName(k)' <=> MustName(k)
           /\ \A a, b : SameSlot(a, b)' <=> SameSlot(a, b)
<1>1. /\ \A x : OpOf(x)' = OpOf(x)
      /\ \A x : Ancestors(x)' = Ancestors(x)
      /\ \A k : Prefix(k)' = Prefix(k)
  BY GraphFrame, OrderFrame, Zenon
<1>2. \A a, b : SameSlot(a, b)' <=> SameSlot(a, b)
  BY <1>1, Zenon DEF SameSlot
<1>4. ASSUME NEW S PROVE Surviving(S)' = Surviving(S)
  BY <1>1, <1>2 DEF Surviving
<1>5. \A X : Held(X)' = Held(X)
  BY <1>1, Zenon DEF Held
<1>6. \A k : MustName(k)' <=> MustName(k)
  BY <1>1, Zenon DEF MustName
<1>7. \A k : Named(k)' = Named(k)
  BY Zenon, <1>1, <1>2, <1>4 DEF Named
<1> QED
  BY <1>2, <1>4, <1>5, <1>6, <1>7, ZenonT(60)

\* A new fold has nothing active and nothing named.
LEMMA FoldStarts ==
    ASSUME GraphInv', stage' = "apply", applied' = 0, active' = {}, ~exceeded', verdict' = "none"
    PROVE  FoldInv'
<1>1. ordered' \in Seq(Ids')
  BY SMTT(30) DEF GraphInv, OrderInv
<1>2. Prefix(0)' = {}
  BY PrefixGrows DEF Prefix
<1>3. Surviving(Prefix(0))' = {}
  BY Zenon, <1>2 DEF Surviving
<1>4. Held(Surviving(Prefix(applied)))' = {}
  BY Zenon, <1>3 DEF Held
<1>5. Applied'
  BY SMTT(30), <1>1, <1>4 DEF Applied
<1>6. ActiveIsMaximal'
  BY Zenon, <1>5 DEF ActiveIsMaximal, Applied, Held
<1>7. NamesExact'
  BY Zenon, <1>5 DEF NamesExact, Applied
<1> QED
  BY ZenonT(60), <1>5, <1>6, <1>7 DEF FoldInv

\* Outside of a fold there is nothing to show.
LEMMA FoldIdles ==
    ASSUME GraphInv', stage' \notin {"apply", "search"},
           verdict' \notin {"InvalidResolution", "InvalidObservedRemove"},
           verdict' = "ok" => mode' = "replay"
    PROVE  FoldInv'
<1>1. ActiveIsMaximal' /\ NamesExact'
  BY DEF ActiveIsMaximal, NamesExact, Folding
<1> QED
  BY ZenonT(60), <1>1 DEF FoldInv

\* A fold that has applied its operations so far and is between two of them.
LEMMA FoldGoesOn ==
    ASSUME GraphInv', Applied', stage' = "apply", ~exceeded', verdict' = "none"
    PROVE  FoldInv'
<1>1. ActiveIsMaximal'
  BY Zenon DEF ActiveIsMaximal, Applied, Held
<1>2. NamesExact'
  BY Zenon DEF NamesExact, Applied
<1> QED
  BY Zenon, <1>1, <1>2 DEF FoldInv

\* One more operation is applied.
LEMMA AppliedGrows ==
    ASSUME GraphInv, Applied, applied < Len(ordered), stage \in {"apply", "search"},
           ops' = ops, ordered' = ordered, applied' = applied + 1,
           active' = Held({a \in Surviving(Prefix(applied)) : ~Replaces(Cursor, a)}
                          \cup {a \in {Cursor} : OpOf(Cursor).verb # "remove"}),
           MustName(applied + 1) => Elems(OpOf(Cursor).refs) = Named(applied + 1)
    PROVE  Applied'
<1>1. applied \in 0 .. Len(ordered)
  BY Zenon DEF Applied
<1>2. Graph /\ Stepwise /\ ordered \in Seq(Ids) /\ applied \in Nat
  BY Zenon, <1>1, AtCursor
<1>3. applied' \in 0 .. Len(ordered')
  BY SMTT(30), <1>1, <1>2
<1>4. active' = Held(Surviving(Prefix(applied + 1)))
  BY ZenonT(60), <1>1, <1>2, SurvivingGrows DEF Cursor
<1>5. active' = Held(Surviving(Prefix(applied)))'
  <2>1. \A k : Held(Surviving(Prefix(k)))' = Held(Surviving(Prefix(k)))
    BY OrderFrame, FoldFrame
  <2> QED
    BY SMTT(30), <1>4, <2>1
<1>6. ASSUME NEW k \in 1 .. applied', MustName(k)' PROVE Elems(OpOf(ordered[k]).refs)' = Named(k)'
  <2>1. /\ OpOf(ordered[k])' = OpOf(ordered[k])
        /\ Named(k)' = Named(k)
        /\ MustName(k)
    BY ZenonT(60), <1>6, FoldFrame, GraphFrame
  <2>2. Elems(OpOf(ordered[k]).refs) = Named(k)
    <3>1. CASE k \in 1 .. applied
      BY <2>1, <3>1, ZenonT(60) DEF Applied
    <3>2. CASE k = applied + 1
      BY <2>1, <3>2 DEF Cursor
    <3> QED
      BY <1>2, <3>1, <3>2
  <2> QED
    BY Zenon, <2>1, <2>2 DEF Elems
<1> QED
  BY ZenonT(60), <1>3, <1>5, <1>6 DEF Applied

\* An add replaces nothing; any other operation starts a search.
LEMMA ApplyKeepsFold ==
    ASSUME FoldInv, GraphInv', Apply
    PROVE  FoldInv'
<1>1. /\ stage = "apply" /\ UNCHANGED <<mode, ops, ordered, verdict, exceeded>> /\ applied < Len(ordered)
      /\ verdict = "none" /\ cand = NoId
  BY Zenon DEF Apply, sourceVars, groupVars, graphVars, limitVars, FoldInv, GraphInv, ShapeInv
<1>2. GraphInv /\ Applied /\ ~exceeded /\ applied \in 0 .. Len(ordered)
  BY <1>1 DEF FoldInv, Applied
<1>3. /\ Graph /\ Stepwise /\ ordered \in Seq(Ids) /\ Cursor \in Ids /\ applied \in Nat
      /\ Current = OpOf(Cursor) /\ OpOf(Cursor).id = Cursor
  BY Zenon, <1>1, <1>2, AtCursor
<1>4. CASE Current.verb = "add"
  <2>1. /\ active' = active \cup {<<Slot(OpOf(Cursor)), Cursor>>} /\ applied' = applied + 1 /\ stage' = "apply"
    BY ZenonT(60), <1>1, <1>3, <1>4 DEF Apply
  <2>2. {a \in Surviving(Prefix(applied)) : ~Replaces(Cursor, a)} = Surviving(Prefix(applied))
    BY <1>3, <1>4 DEF Replaces
  <2>3. {a \in {Cursor} : OpOf(Cursor).verb # "remove"} = {Cursor}
    BY Zenon, <1>3, <1>4
  <2>4. active' = Held(Surviving(Prefix(applied)) \cup {Cursor})
    BY Zenon, <1>2, <2>1 DEF Held, Applied
  <2>5. ~MustName(applied + 1)
    BY Zenon, <1>3, <1>4 DEF MustName, Cursor
  <2>6. Applied'
    BY ZenonT(60), <1>1, <1>2, <2>1, <2>2, <2>3, <2>4, <2>5, AppliedGrows
  <2> QED
    BY ZenonT(60), <1>1, <1>2, <2>1, <2>6, FoldGoesOn
<1>5. CASE Current.verb # "add"
  <2>1. /\ todo' = InSlot /\ observed' = {} /\ stage' = "search" /\ UNCHANGED <<applied, active, cand>>
    BY Zenon, <1>3, <1>5 DEF Apply, InSlot
  <2>2. /\ Cursor' = Cursor
        /\ \A x : OpOf(x)' = OpOf(x)
    BY Zenon, <1>1, <2>1, GraphFrame DEF Cursor
  <2>3. InSlot' = InSlot
    BY Zenon, <1>1, <2>1, <2>2, GraphFrame DEF InSlot, ActiveIn
  <2>4. Applied'
    BY ZenonT(60), <1>1, <1>2, <2>1, FoldFrame, OrderFrame, GraphFrame DEF Applied
  <2>5. OpOf(Cursor)'.verb # "add"
    BY Zenon, <1>3, <1>5, <2>2
  <2>6. ActiveIsMaximal' /\ NamesExact'
    BY Zenon, <1>1, <2>1 DEF ActiveIsMaximal, NamesExact, Folding
  <2> QED
    BY SMTT(30), <1>1, <1>2, <2>1, <2>3, <2>4, <2>5, <2>6 DEF FoldInv
<1> QED
  BY Zenon, <1>4, <1>5

\* The facts of a search that its steps keep.
LEMMA SearchFrame ==
    ASSUME FoldInv, Ask \/ Visit
    PROVE  /\ stage = "search" /\ stage' = "search" /\ verdict = "none" /\ verdict' = "none"
           /\ Graph /\ Cursor \in Ids /\ Cursor' = Cursor /\ InSlot' = InSlot /\ InSlot \subseteq Ids
           /\ Current = OpOf(Cursor) /\ applied' < Len(ordered') /\ OpOf(Cursor)'.verb # "add"
           /\ \A x : ParentsOf(x)' = ParentsOf(x)
           /\ Ids' = Ids
           /\ \A x : Ancestors(x)' = Ancestors(x)
           /\ Applied'
           /\ ActiveIsMaximal' /\ NamesExact'
<1>1. /\ stage = "search" /\ UNCHANGED <<stage, mode, ops, ordered, verdict, applied, active>>
      /\ verdict = "none"
  BY Zenon DEF Ask, Visit, sourceVars, groupVars, graphVars, FoldInv, GraphInv, ShapeInv
<1>2. GraphInv /\ Applied /\ applied \in 0 .. Len(ordered) /\ applied < Len(ordered) /\ OpOf(Cursor).verb # "add"
  BY <1>1 DEF FoldInv, Applied
<1>3. Graph /\ Cursor \in Ids /\ Current = OpOf(Cursor)
  BY <1>1, <1>2, AtCursor
<1>4. Cursor' = Cursor
  BY Zenon, <1>1 DEF Cursor
<1>5. InSlot' = InSlot /\ InSlot \subseteq Ids
  BY SMTT(30), <1>1, <1>4, GraphFrame DEF InSlot, ActiveIn
<1>6. Applied'
  BY ZenonT(60), <1>1, <1>2, FoldFrame, OrderFrame, GraphFrame DEF Applied
<1>7. OpOf(Cursor)'.verb # "add"
  BY ZenonT(60), <1>1, <1>2, <1>4, GraphFrame
<1>8. ActiveIsMaximal' /\ NamesExact'
  BY <1>1 DEF ActiveIsMaximal, NamesExact, Folding
<1>9. applied' < Len(ordered')
  BY Zenon, <1>1, <1>2
<1> QED
  BY <1>1, <1>3, <1>4, <1>5, <1>6, <1>7, <1>8, <1>9, GraphFrame, ZenonT(60)

\* The next candidate: the search starts from the parents of the observer.
LEMMA AskKeepsFold ==
    ASSUME FoldInv, GraphInv', Ask
    PROVE  FoldInv'
<1>1. /\ stage = "search" /\ stage' = "search"
      /\ Graph /\ Cursor \in Ids /\ Cursor' = Cursor /\ InSlot' = InSlot /\ InSlot \subseteq Ids
      /\ Current = OpOf(Cursor) /\ applied' < Len(ordered') /\ OpOf(Cursor)'.verb # "add"
      /\ Ids' = Ids /\ Applied' /\ ActiveIsMaximal' /\ NamesExact'
  BY SearchFrame
<1>2. /\ \A x : ParentsOf(x)' = ParentsOf(x)
      /\ \A x : Ancestors(x)' = Ancestors(x)
  BY SearchFrame, Zenon
<1>3. /\ cand = NoId /\ todo # {} /\ cand' = Min(todo) /\ todo' = todo \ {cand'}
      /\ pending' = OpOf(Cursor).parents /\ visited' = {} /\ UNCHANGED <<observed, exceeded>>
  BY Zenon, <1>1 DEF Ask, limitVars
<1>4. todo \subseteq InSlot /\ (~exceeded => observed = {a \in InSlot \ todo : a # cand /\ a \in Ancestors(Cursor)})
  BY <1>1 DEF FoldInv
<1>5. Ids \subseteq Nat /\ NoId \notin Ids /\ OpOf(Cursor).parents \in Seq(Id) /\ ParentsOf(Cursor) \subseteq Ids
  BY <1>1, Nodes, Zenon
<1>6. cand' \in todo
  <2>1. todo \in SUBSET Nat
    BY ZenonT(60), <1>1, <1>4, <1>5
  <2> QED
    BY Zenon, <1>3, <2>1, LeastNatural
<1>7. cand' \in InSlot \ todo' /\ todo' \subseteq InSlot' /\ cand' # NoId
  BY ZenonT(60), <1>1, <1>3, <1>4, <1>5, <1>6
<1>8. Elems(pending') = ParentsOf(Cursor)
  BY <1>3 DEF ParentsOf
<1>9. pending' \in Seq(Ids)
  <2>1. \A i \in 1 .. Len(pending') : pending'[i] \in Ids
    BY SMTT(30), <1>3, <1>5, <1>8 DEF Elems
  <2> QED
    BY SMTT(30), <1>3, <1>5, <2>1
<1>10. ParentsOf(Cursor) \subseteq Ancestors(Cursor)
  BY Zenon, <1>1, AncestorFacts
<1>11. Searching'
  BY ZenonT(60), <1>1, <1>2, <1>3, <1>7, <1>8, <1>9, <1>10 DEF Searching, Elems
<1>12. ~exceeded => observed = {a \in InSlot \ todo' : a # cand' /\ a \in Ancestors(Cursor)}
  <2>1. InSlot \ todo = {a \in InSlot \ todo' : a # cand'}
    BY Zenon, <1>3, <1>6, <1>7, <1>1
  <2>2. \A a \in InSlot : a # cand
    BY ZenonT(60), <1>1, <1>3, <1>5
  <2> QED
    BY Zenon, <1>4, <2>1, <2>2
<1>13. ~exceeded' => observed' = {a \in InSlot \ todo : a # cand /\ a \in Ancestors(Cursor)}'
  BY ZenonT(60), <1>1, <1>2, <1>3, <1>12
<1> QED
  BY ZenonT(60), <1>1, <1>7, <1>11, <1>13 DEF FoldInv

\* One turn of the search: an answer is right unless the budget cut it short.
LEMMA VisitKeepsFold ==
    ASSUME FoldInv, GraphInv', Visit
    PROVE  FoldInv'
<1>1. /\ stage = "search" /\ stage' = "search"
      /\ Graph /\ Cursor \in Ids /\ Cursor' = Cursor /\ InSlot' = InSlot /\ InSlot \subseteq Ids
      /\ applied' < Len(ordered') /\ OpOf(Cursor)'.verb # "add"
      /\ Ids' = Ids /\ Applied' /\ ActiveIsMaximal' /\ NamesExact'
  BY SearchFrame
<1>2. /\ \A x : ParentsOf(x)' = ParentsOf(x)
      /\ \A x : Ancestors(x)' = Ancestors(x)
  BY SearchFrame, ZenonT(60)
<1>3. cand # NoId /\ todo' = todo
  BY Zenon DEF Visit
<1>4. /\ todo \subseteq InSlot /\ Searching
      /\ ~exceeded => observed = {a \in InSlot \ todo : a # cand /\ a \in Ancestors(Cursor)}
  BY <1>1, <1>3 DEF FoldInv
<1>5. /\ cand \in InSlot \ todo /\ cand \notin visited /\ pending \in Seq(Ids) /\ visited \subseteq Ids
      /\ Elems(pending) \subseteq Ancestors(Cursor)
      /\ ParentsOf(Cursor) \subseteq visited \cup Elems(pending)
      /\ \A v \in visited : ParentsOf(v) \subseteq visited \cup Elems(pending)
  BY <1>4, Zenon DEF Searching
<1>6. NoId \notin Ids
  BY Zenon, <1>1, Nodes
<1>7. ASSUME cand' = NoId,
             ~exceeded' => observed' = {a \in InSlot \ todo : a \in Ancestors(Cursor)}
      PROVE  FoldInv'
  <2>1. ~exceeded' => observed' = {a \in InSlot' \ todo' : a # cand' /\ a \in Ancestors(Cursor)'}
    BY ZenonT(60), <1>1, <1>2, <1>3, <1>6, <1>7
  <2> QED
    BY ZenonT(60), <1>1, <1>3, <1>4, <1>7, <2>1 DEF FoldInv
<1>8. CASE pending = <<>> /\ Answer(FALSE) /\ UNCHANGED limitVars
  <2>1. Elems(pending) = {}
    BY ZenonT(60), <1>8, ElemsEmpty
  <2>2. Ancestors(Cursor) \subseteq visited
    BY ZenonT(60), <1>1, <1>5, <2>1, AncestorFacts
  <2>3. {a \in InSlot \ todo : a # cand /\ a \in Ancestors(Cursor)} = {a \in InSlot \ todo : a \in Ancestors(Cursor)}
    BY ZenonT(60), <1>5, <2>2
  <2>4. cand' = NoId /\ observed' = observed /\ exceeded' = exceeded
    BY <1>8 DEF Answer, limitVars
  <2> QED
    BY ZenonT(60), <1>4, <1>7, <2>3, <2>4
<1>9. CASE exceeded' = TRUE /\ Answer(FALSE)
  BY Zenon, <1>7, <1>9 DEF Answer
<1> DEFINE rest == SubSeq(pending, 1, Len(pending) - 1)
           id == pending[Len(pending)]
<1>10. ASSUME pending # <<>>
       PROVE  rest \in Seq(Ids) /\ id \in Ids /\ id \in Elems(pending) /\ Elems(pending) = Elems(rest) \cup {id}
  BY ZenonT(60), <1>5, <1>10, ElemsPop
<1>11. CASE pending # <<>> /\ id = cand /\ Answer(TRUE) /\ UNCHANGED exceeded
  <2>1. cand \in Ancestors(Cursor)
    BY <1>5, <1>10, <1>11, ZenonT(60)
  <2>2. cand' = NoId /\ observed' = observed \cup {cand} /\ exceeded' = exceeded
    BY Zenon, <1>11 DEF Answer
  <2>3. {a \in InSlot \ todo : a # cand /\ a \in Ancestors(Cursor)} \cup {cand} = {a \in InSlot \ todo : a \in Ancestors(Cursor)}
    BY ZenonT(60), <1>5, <2>1
  <2> QED
    BY ZenonT(60), <1>4, <1>7, <2>2, <2>3
<1>12. CASE /\ pending # <<>> /\ id # cand /\ UNCHANGED <<exceeded, cand, observed>>
            /\ visited' = visited \cup {id}
            /\ pending' = IF id \in visited THEN rest ELSE rest \o OpOf(id).parents
  <2>1. rest \in Seq(Ids) /\ id \in Ids /\ id \in Elems(pending) /\ Elems(pending) = Elems(rest) \cup {id}
    BY <1>10, <1>12, Zenon
  <2>2. OpOf(id).parents \in Seq(Id) /\ ParentsOf(id) \subseteq Ids
    BY <1>1, <2>1, Nodes, ZenonT(60)
  <2>3. OpOf(id).parents \in Seq(Ids) /\ Elems(OpOf(id).parents) = ParentsOf(id)
    <3>1. \A i \in 1 .. Len(OpOf(id).parents) : OpOf(id).parents[i] \in Ids
      BY <2>2 DEF ParentsOf, Elems
    <3> QED
      BY SMTT(30), <2>2, <3>1 DEF ParentsOf
  <2> HIDE DEF rest, id
  <2>4. /\ rest \o OpOf(id).parents \in Seq(Ids)
        /\ Elems(rest \o OpOf(id).parents) = Elems(rest) \cup ParentsOf(id)
    <3>1. /\ rest \o OpOf(id).parents \in Seq(Ids)
          /\ Elems(rest \o OpOf(id).parents) = Elems(rest) \cup Elems(OpOf(id).parents)
      <4> DEFINE par == OpOf(id).parents
      <4>1. par \in Seq(Ids) /\ rest \in Seq(Ids)
        BY <2>1, <2>3, Zenon
      <4> HIDE DEF par
      <4>2. rest \o par \in Seq(Ids) /\ Elems(rest \o par) = Elems(rest) \cup Elems(par)
        BY <4>1, ElemsConcat
      <4> QED
        BY <4>2, Zenon DEF par
    <3> QED
      BY <2>3, <3>1, Zenon
  <2>5. ParentsOf(id) \subseteq Ancestors(Cursor)
    BY <1>1, <1>5, <2>1, AncestorFacts, ZenonT(60)
  <2>6. /\ pending' \in Seq(Ids) /\ Elems(pending') \subseteq Ancestors(Cursor)
        /\ Elems(pending) \subseteq Elems(pending') \cup {id}
        /\ id \notin visited => ParentsOf(id) \subseteq Elems(pending')
    <3>1. CASE id \in visited
      BY ZenonT(60), <1>5, <1>12, <2>1, <3>1
    <3>2. CASE id \notin visited
      <4>1. pending' = rest \o OpOf(id).parents
        BY ZenonT(60), <1>12, <3>2
      <4> QED
        BY ZenonT(60), <1>5, <2>1, <2>4, <2>5, <3>2, <4>1
    <3> QED
      BY ZenonT(60), <3>1, <3>2
  <2>7. visited \cup Elems(pending) \subseteq visited' \cup Elems(pending')
    BY ZenonT(60), <1>12, <2>6
  <2>8. \A v \in visited' : ParentsOf(v) \subseteq visited' \cup Elems(pending')
    BY ZenonT(60), <1>5, <1>12, <2>6, <2>7
  <2>9. ParentsOf(Cursor) \subseteq visited' \cup Elems(pending') /\ visited' \subseteq Ids /\ cand \notin visited'
    BY ZenonT(60), <1>5, <1>12, <2>1, <2>7
  <2>10. Searching'
    BY ZenonT(60), <1>1, <1>2, <1>3, <1>5, <1>12, <2>6, <2>8, <2>9 DEF Searching, Elems
  <2>11. ~exceeded' => observed' = {a \in InSlot' \ todo' : a # cand' /\ a \in Ancestors(Cursor)'}
    BY ZenonT(60), <1>1, <1>2, <1>3, <1>4, <1>12
  <2> QED
    BY ZenonT(60), <1>1, <1>3, <1>4, <2>10, <2>11 DEF FoldInv
<1> QED
  BY <1>8, <1>9, <1>11, <1>12, ZenonT(60) DEF Visit, limitVars

\* When every candidate is answered and the budget held, what was observed is what the
\* operation must name.
LEMMA ObservedIsNamed ==
    ASSUME FoldInv, stage = "search", cand = NoId, todo = {}, ~exceeded
    PROVE  /\ observed = Named(applied + 1)
           /\ observed = {a \in Surviving(Prefix(applied)) : a \in Ancestors(Cursor) /\ SameSlot(a, Cursor)}
<1>1. GraphInv /\ Applied /\ applied < Len(ordered) /\ applied \in 0 .. Len(ordered)
  BY DEF FoldInv, Applied
<1>2. Graph /\ Stepwise /\ ordered \in Seq(Ids) /\ Cursor \in Ids /\ applied \in Nat
  BY ZenonT(60), <1>1, AtCursor
<1>3. observed = {a \in InSlot : a # NoId /\ a \in Ancestors(Cursor)}
  BY DEF FoldInv
<1>4. Surviving(Prefix(applied)) \in SUBSET Ids
  <2>1. Prefix(applied) \subseteq Ids
    BY <1>1, <1>2, PrefixIsClosed, ZenonT(60)
  <2> QED
    BY <2>1 DEF Surviving
<1>5. InSlot = {a \in Surviving(Prefix(applied)) : Slot(OpOf(a)) = Slot(OpOf(Cursor))}
  BY Zenon, <1>1, <1>4, ActiveInSlot DEF Applied, InSlot
<1>6. NoId \notin Ids
  BY SMTT(30), <1>2, Nodes
<1>7. observed = {a \in Surviving(Prefix(applied)) : a \in Ancestors(Cursor) /\ SameSlot(a, Cursor)}
  BY SMTT(30), <1>3, <1>4, <1>5, <1>6 DEF SameSlot
<1>8. (applied + 1) - 1 = applied
  BY SMTT(30), <1>2
<1>9. Named(applied + 1) = {a \in Surviving(Prefix(applied)) \cap Ancestors(Cursor) : SameSlot(a, Cursor)}
  BY <1>8 DEF Named, Cursor
<1> QED
  BY ZenonT(60), <1>7, <1>9

\* What was observed gives way, or the operation is rejected for what it names.
LEMMA SettleKeepsFold ==
    ASSUME FoldInv, GraphInv', Settle
    PROVE  FoldInv'
<1>1. /\ stage = "search" /\ cand = NoId /\ todo = {} /\ UNCHANGED <<mode, ops, ordered, exceeded>>
      /\ verdict = "none"
  BY Zenon DEF Settle, sourceVars, groupVars, graphVars, limitVars, FoldInv, GraphInv, ShapeInv
<1>2. GraphInv /\ Applied /\ applied < Len(ordered) /\ applied \in 0 .. Len(ordered) /\ OpOf(Cursor).verb # "add"
  BY <1>1 DEF FoldInv, Applied
<1>3. /\ Graph /\ Stepwise /\ ordered \in Seq(Ids) /\ Cursor \in Ids /\ applied \in Nat
      /\ Current = OpOf(Cursor) /\ OpOf(Cursor).id = Cursor
      /\ OpOf(Cursor).verb \in {"set", "resolve", "add", "remove"}
  BY <1>1, <1>2, AtCursor
<1>4. CASE exceeded
  <2>1. stage' = "done" /\ verdict' = "ReachabilityBudget"
    BY Zenon, <1>4 DEF Settle, Fail
  <2> QED
    BY Zenon, <2>1, FoldIdles
<1>5. CASE ~exceeded /\ Current.verb \in {"resolve", "remove"} /\ Misnames(Current, observed)
  <2>1. stage' = "done" /\ verdict' \in {"InvalidResolution", "InvalidObservedRemove"} /\ applied' = applied
    BY Zenon, <1>5 DEF Settle, Fail
  <2>2. Elems(Current.refs) # Named(applied + 1)
    BY <1>1, <1>5, ObservedIsNamed DEF Misnames
  <2>3. \A k : Named(k)' = Named(k)
    BY <1>1, FoldFrame, Zenon
  <2>4. Current' = Current
    BY Zenon, <1>1, <2>1, GraphFrame DEF Current
  <2>5. Elems(Current.refs)' # Named(applied + 1)'
    BY Zenon, <2>1, <2>2, <2>3, <2>4 DEF Elems
  <2>6. ActiveIsMaximal' /\ NamesExact'
    BY Zenon, <2>1, <2>5 DEF ActiveIsMaximal, NamesExact, Folding
  <2> QED
    BY Zenon, <2>1, <2>6 DEF FoldInv
<1>6. CASE ~exceeded /\ ~(Current.verb \in {"resolve", "remove"} /\ Misnames(Current, observed))
  <2>1. active' = ActiveAfter(Current, observed) /\ applied' = applied + 1 /\ stage' = "apply" /\ verdict' = verdict
    BY Zenon, <1>6 DEF Settle
  <2>2. /\ observed = Named(applied + 1)
        /\ observed = {a \in Surviving(Prefix(applied)) : a \in Ancestors(Cursor) /\ SameSlot(a, Cursor)}
    BY ZenonT(60), <1>1, <1>6, ObservedIsNamed
  <2>3. Surviving(Prefix(applied)) \in SUBSET Ids
    <3>1. Prefix(applied) \subseteq Ids
      BY <1>2, <1>3, PrefixIsClosed, ZenonT(60)
    <3> QED
      BY <3>1 DEF Surviving
  <2>4. active = Held(Surviving(Prefix(applied)))
    BY Zenon, <1>2 DEF Applied
  <2>5. OpOf(Cursor).verb \in {"set", "resolve", "remove"}
    BY Zenon, <1>2, <1>3
  <2>6. ActiveAfter(OpOf(Cursor), observed) =
            Held({a \in Surviving(Prefix(applied)) : ~Replaces(Cursor, a)} \cup {a \in {Cursor} : OpOf(Cursor).verb # "remove"})
    BY ZenonT(60), <1>3, <2>2, <2>3, <2>4, <2>5, HeldAfter
  <2>7. MustName(applied + 1) => Elems(OpOf(Cursor).refs) = Named(applied + 1)
    BY Zenon, <1>3, <1>6, <2>2 DEF MustName, Misnames, Cursor
  <2>8. Applied'
    BY <1>1, <1>2, <1>3, <2>1, <2>6, <2>7, AppliedGrows, ZenonT(60)
  <2> QED
    BY ZenonT(60), <1>1, <1>6, <2>1, <2>8, FoldGoesOn
<1> QED
  BY <1>4, <1>5, <1>6, ZenonT(60)

\* A value that converted has the type its projected field keeps.
LEMMA ViewKeepsTypes ==
    ASSUME NEW r, Conversion(r) = "supported", r.verb # "remove"
    PROVE  r.value.type = ViewType(r.domain, r.field)
<1>1. /\ r.domain \in {"profile", "catalog"}
      /\ \/ /\ r.verb \in {"set", "resolve"} /\ r.field \in DOMAIN ScalarType(r.domain)
            /\ r.value.type = ScalarType(r.domain)[r.field]
         \/ /\ r.verb = "add" /\ r.field \in DOMAIN SetType(r.domain)
            /\ r.value.type = SetType(r.domain)[r.field]
  BY Zenon DEF Conversion
<1>2. CASE r.domain = "profile"
  <2>1. r.field \in DOMAIN ScalarType("profile") => ScalarType("profile")[r.field] = ViewType("profile", r.field)
    BY DEF ScalarType, ViewType
  <2>2. r.field \in DOMAIN SetType("profile") => SetType("profile")[r.field] = ViewType("profile", r.field)
    BY DEF SetType, ViewType
  <2> QED
    BY <1>1, <1>2, <2>1, <2>2, ZenonT(60)
<1>3. CASE r.domain = "catalog"
  <2>1. r.field \in DOMAIN ScalarType("catalog") => ScalarType("catalog")[r.field] = ViewType("catalog", r.field)
    BY DEF ScalarType, ViewType
  <2>2. r.field \in DOMAIN SetType("catalog") => SetType("catalog")[r.field] = ViewType("catalog", r.field)
    BY DEF SetType, ViewType
  <2> QED
    BY <1>1, <1>3, <2>1, <2>2, Zenon
<1> QED
  BY <1>1, <1>2, <1>3, Zenon

\* A fold function returns the state it has reached, and its view drops no survivor.
LEMMA FinishKeepsFold ==
    ASSUME FoldInv, GraphInv', FinishFold
    PROVE  FoldInv'
<1>1. stage = "apply" /\ applied = Len(ordered) /\ mode' = mode /\ verdict = "none" /\ GraphInv /\ Applied /\ ~exceeded
  BY DEF FinishFold, sourceVars, FoldInv, GraphInv, ShapeInv
<1>2. CASE mode = "replay"
  <2>1. stage' = "collect" /\ verdict' = "none"
    BY ZenonT(60), <1>1, <1>2 DEF FinishFold
  <2> QED
    BY ZenonT(60), <2>1, FoldIdles
<1>3. CASE mode # "replay"
  <2>1. stage' = "done" /\ verdict' = "ok" /\ UNCHANGED <<ops, ordered, applied, active>>
    BY ZenonT(60), <1>3 DEF FinishFold, groupVars, graphVars
  <2>2. Graph /\ Stepwise /\ ordered \in Seq(Ids) /\ Prefix(Len(ordered)) = Ids
    BY Zenon, <1>1 DEF GraphInv, OrderInv
  <2>3. active = Held(Surviving(Ids)) /\ Surviving(Ids) \in SUBSET Ids
    BY Zenon, <1>1, <2>2 DEF Applied, Surviving
  <2>4. Applied'
    BY ZenonT(60), <1>1, <2>1, FoldFrame, OrderFrame, GraphFrame DEF Applied
  <2>5. ASSUME NEW a \in Surviving(Ids) PROVE OpOf(a).value \in View(Slot(OpOf(a)))
    <3>1. a \in Ids /\ OpOf(a).verb # "remove"
      BY DEF Surviving
    <3>2. Conversion(OpOf(a)) = "supported"
      <4>1. OpOf(a) \in Elems(ops)
        BY <2>2, <3>1, Nodes, Zenon
      <4> QED
        BY <1>1, <4>1, Zenon DEF GraphInv, ShapeInv
    <3>3. OpOf(a).value.type = ViewType(OpOf(a).domain, OpOf(a).field)
      BY <3>1, <3>2, ViewKeepsTypes, Zenon
    <3>4. a \in ActiveIn(Slot(OpOf(a)))
      BY <2>3, <3>1, Zenon DEF ActiveIn, Held
    <3> QED
      BY <3>3, <3>4, Zenon DEF View
  <2>6. /\ Ids' = Ids
        /\ \A x : OpOf(x)' = OpOf(x)
        /\ \A S : Surviving(S)' = Surviving(S)
    BY <2>1, GraphFrame, FoldFrame, ZenonT(60)
  <2>7. \A slot : View(slot)' = View(slot)
    <3>1. \A slot : ActiveIn(slot)' = ActiveIn(slot)
      BY <2>1, <2>6, ZenonT(60) DEF ActiveIn
    <3> QED
      BY Zenon, <2>6, <3>1 DEF View
  <2>8. \A a \in Surviving(Ids)' : OpOf(a)'.value \in View(Slot(OpOf(a)))'
    BY ZenonT(60), <2>5, <2>6, <2>7
  <2>9. ActiveIsMaximal'
    BY ZenonT(60), <2>4, <2>8 DEF ActiveIsMaximal, Applied, Held
  <2>10. NamesExact'
    BY ZenonT(60), <2>1, <2>4 DEF NamesExact, Applied
  <2> QED
    BY ZenonT(60), <2>1, <2>9, <2>10 DEF FoldInv
<1> QED
  BY Zenon, <1>2, <1>3

\* The other steps start a fold or are outside of one.
LEMMA RestKeepsFold ==
    ASSUME FoldInv, GraphInv',
           \/ \E s \in Seq(Operation) : BeginReplay(s) \/ \E m : BeginFold(m, s)
           \/ Convert \/ Collect \/ Build \/ Emit \/ Ordered
    PROVE  FoldInv'
<1>1. verdict = "none" /\ stage \in {"idle", "convert", "collect", "build", "order"} /\ Fresh
  BY Zenon DEF FoldInv, GraphInv, ShapeInv, BeginReplay, BeginFold, Convert, Collect, Build, Emit, Ordered
<1>2. CASE stage' = "apply"
  <2>1. Ordered
    BY ZenonT(60), <1>1, <1>2 DEF BeginReplay, BeginFold, Convert, Collect, Build, Emit, Fail
  <2>2. UNCHANGED <<applied, active, exceeded, verdict>>
    BY Zenon, <1>2, <2>1 DEF Ordered, limitVars, Fail
  <2> QED
    BY ZenonT(60), <1>1, <1>2, <2>2, FoldStarts DEF Fresh
<1>3. CASE stage' # "apply"
  <2>1. stage' # "search"
    BY ZenonT(60), <1>1 DEF BeginReplay, BeginFold, Convert, Collect, Build, Emit, Ordered, Fail
  <2>2. verdict' \notin {"InvalidResolution", "InvalidObservedRemove"}
    BY ZenonT(60), <1>1, Conversions DEF BeginReplay, BeginFold, Convert, Collect, Build, Emit, Ordered, Fail
  <2>3. verdict' = "ok" => Collect
    BY ZenonT(60), <1>1, Conversions DEF BeginReplay, BeginFold, Convert, Build, Emit, Ordered, Fail
  <2>4. Collect => mode' = "replay"
    BY ZenonT(60) DEF Collect, sourceVars, FoldInv, GraphInv, ShapeInv
  <2> QED
    BY ZenonT(60), <1>3, <2>1, <2>2, <2>3, <2>4, FoldIdles
<1> QED
  BY ZenonT(60), <1>2, <1>3

\* Nothing changes.
LEMMA FoldStutters ==
    ASSUME FoldInv, GraphInv', UNCHANGED foldVars
    PROVE  FoldInv'
<1>1. /\ UNCHANGED <<mode, ops, stage, ordered, verdict, applied, active, todo, cand>>
      /\ UNCHANGED <<pending, visited, observed, exceeded>>
  BY Zenon DEF foldVars
<1>2. ActiveIsMaximal' <=> ActiveIsMaximal
  <2>1. /\ Ids' = Ids
        /\ \A x : OpOf(x)' = OpOf(x)
        /\ Prefix(applied)' = Prefix(applied)
    BY ZenonT(60), <1>1, GraphFrame, OrderFrame
  <2>2. /\ Surviving(Ids)' = Surviving(Ids)
        /\ Surviving(Prefix(applied))' = Surviving(Prefix(applied))
    BY <1>1, <2>1, FoldFrame
  <2>3. \A slot : View(slot)' = View(slot)
    BY ZenonT(60), <1>1, <2>1 DEF View, ActiveIn
  <2>4. Folding' <=> Folding
    BY Zenon, <1>1 DEF Folding
  <2> QED
    BY ZenonT(60), <1>1, <2>1, <2>2, <2>3, <2>4 DEF ActiveIsMaximal
<1>3. NamesExact' <=> NamesExact
  BY Zenon, <1>1, GraphFrame, FoldFrame DEF NamesExact, Folding, Current
<1>4. Applied' <=> Applied
  BY ZenonT(60), <1>1, GraphFrame, OrderFrame, FoldFrame DEF Applied
<1>5. /\ Cursor' = Cursor
      /\ InSlot' = InSlot
      /\ OpOf(Cursor)' = OpOf(Cursor)
      /\ Ancestors(Cursor)' = Ancestors(Cursor)
      /\ ParentsOf(Cursor)' = ParentsOf(Cursor)
  <2>1. Cursor' = Cursor
    BY SMTT(30), <1>1 DEF Cursor
  <2> QED
    BY ZenonT(60), <1>1, <2>1, GraphFrame DEF InSlot, ActiveIn
<1>6. Searching' <=> Searching
  <2>1. /\ Ids' = Ids /\ cand' = cand /\ visited' = visited /\ pending' = pending /\ todo' = todo
        /\ \A v : ParentsOf(v)' = ParentsOf(v)
    BY Zenon, <1>1, GraphFrame
  <2>2. Elems(pending)' = Elems(pending)
    BY ZenonT(60), <2>1 DEF Elems
  <2> QED
    BY ZenonT(60), <1>5, <2>1, <2>2 DEF Searching
<1> QED
  BY ZenonT(60), <1>1, <1>2, <1>3, <1>4, <1>5, <1>6 DEF FoldInv

\* The invariant of the folds: the state holds the survivors of what was applied.
THEOREM FoldInvariant == FoldSpec => []FoldInv
<1>1. FoldInit => FoldInv
  <2> SUFFICES ASSUME FoldInit PROVE FoldInv
    OBVIOUS
  <2>1. GraphInv
    BY GraphInit
  <2>2. ActiveIsMaximal /\ NamesExact
    BY Zenon DEF FoldInit, ActiveIsMaximal, NamesExact, Folding
  <2> QED
    BY <2>1, <2>2 DEF FoldInit, FoldInv
<1>2. FoldInv /\ [FoldNext]_foldVars => FoldInv'
  <2> SUFFICES ASSUME FoldInv, [FoldNext]_foldVars PROVE FoldInv'
    OBVIOUS
  <2>1. GraphInv'
    BY GraphStep DEF FoldInv
  <2>2. CASE Apply \/ Ask \/ Visit \/ Settle \/ FinishFold
    BY <2>1, <2>2, ApplyKeepsFold, AskKeepsFold, VisitKeepsFold, SettleKeepsFold, FinishKeepsFold, ZenonT(60)
  <2>3. CASE UNCHANGED foldVars
    BY <2>1, <2>3, FoldStutters, Zenon
  <2>4. CASE \/ \E s \in Seq(Operation) : BeginReplay(s) \/ \E m : BeginFold(m, s)
             \/ Convert \/ Collect \/ Build \/ Emit \/ Ordered
    BY <2>1, <2>4, RestKeepsFold, ZenonT(60)
  <2> QED
    BY <2>2, <2>3, <2>4, ZenonT(60) DEF FoldNext, FoldStep
<1> QED
  BY <1>1, <1>2, PTL DEF FoldSpec

\* What is active is what no applied operation observes, whatever the order in which
\* concurrent operations were applied, and the view of a fold drops none of it.
THEOREM ActiveIsWhatSurvives == FoldSpec => []ActiveIsMaximal
<1>1. FoldInv => ActiveIsMaximal
  BY Zenon DEF FoldInv
<1> QED
  BY <1>1, FoldInvariant, PTL

\* A resolution or remove is accepted exactly when it names the active identifiers it
\* descends from; a search the budget cut short never decides.
THEOREM NamesAreExact == FoldSpec => []NamesExact
<1>1. FoldInv => NamesExact
  BY Zenon DEF FoldInv
<1> QED
  BY <1>1, FoldInvariant, PTL
=============================================================================
