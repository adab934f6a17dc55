--------------------------- MODULE MultiSyncProofs ---------------------------
(* For every set of stores, list of targets and bound: what sync_stores        *)
(* promises about its transfers, its results and the proof cache.              *)
EXTENDS MultiSync, WellFoundedInduction, NaturalsInduction, TLAPS

---------------------------------------------------------------------------
(* Induction on the natural numbers, on sets of them *)

\* A set of natural numbers that is not empty has a least one.
LEMMA LeastNatural ==
    ASSUME NEW T \in SUBSET Nat, T # {}
    PROVE  \E m \in T : \A k \in T : m <= k
  <1> DEFINE R == {p \in Nat \X Nat : p[1] < p[2]}
  <1>1. IsWellFoundedOn(R, Nat)
    BY NatLessThanWellFounded, Zenon DEF OpToRel
  <1>2. \A x, y \in Nat : x < y => <<x, y>> \in R
    BY SMT
  <1> HIDE DEF R
  <1>3. PICK m \in T : \A y \in T : ~(<<y, m>> \in R)
    BY <1>1, WFMin, Zenon
  <1>4. \A y \in T : ~(y < m)
    BY <1>2, <1>3, Zenon
  <1> QED BY <1>4, SMT

\* A set of natural numbers that has 0, and n + 1 with every n, has all of them.
LEMMA AllNaturals ==
    ASSUME NEW S, 0 \in S, \A n \in Nat : n \in S => n + 1 \in S
    PROVE  Nat \subseteq S
  <1> SUFFICES ASSUME Nat \ S # {} PROVE FALSE
    OBVIOUS
  <1>1. PICK m \in Nat \ S : \A k \in Nat \ S : m <= k
    BY Zenon, LeastNatural
  <1>2. m # 0 /\ m - 1 \in Nat /\ m - 1 \in S
    BY <1>1
  <1> QED BY <1>1, <1>2

\* In a strictly sorted list the order of the places is the order of the entries.
LEMMA SortedPlaces ==
    ASSUME NEW s \in Seq(Nat), StrictlySorted(s)
    PROVE  \A i, j \in 1 .. Len(s) : i < j => s[i] < s[j]
  <1> DEFINE S == {d \in Nat : \A i, j \in 1 .. Len(s) : j = i + d + 1 => s[i] < s[j]}
  <1>1. 0 \in S
    BY DEF StrictlySorted
  <1>2. ASSUME NEW d \in Nat, d \in S PROVE d + 1 \in S
    <2> SUFFICES ASSUME NEW i \in 1 .. Len(s), NEW j \in 1 .. Len(s), j = i + (d + 1) + 1
                 PROVE  s[i] < s[j]
      OBVIOUS
    <2>1. i + d + 1 \in 1 .. Len(s) /\ i + d + 1 \in 1 .. Len(s) - 1 /\ j = (i + d + 1) + 1
      OBVIOUS
    <2>2. s[i] < s[i + d + 1]
      BY <1>2, <2>1
    <2>3. s[i + d + 1] < s[j]
      BY <2>1 DEF StrictlySorted
    <2>4. s[i] \in Nat /\ s[j] \in Nat /\ s[i + d + 1] \in Nat
      BY SMTT(30), <2>1
    <2> QED BY SMTT(30), <2>2, <2>3, <2>4
  <1>3. Nat \subseteq S
    <2> HIDE DEF S
    <2> QED BY Zenon, <1>1, <1>2, AllNaturals
  <1> SUFFICES ASSUME NEW i \in 1 .. Len(s), NEW j \in 1 .. Len(s), i < j
               PROVE  s[i] < s[j]
    OBVIOUS
  <1>4. j - i - 1 \in Nat /\ j = i + (j - i - 1) + 1
    OBVIOUS
  <1>5. j - i - 1 \in S
    BY <1>3, <1>4, Zenon
  <1> QED BY <1>4, <1>5

---------------------------------------------------------------------------
(* The binary search *)

SearchCells(s) == (1 .. Len(s) + 1) \X (0 .. Len(s))

\* One round of the search, where g has the answers of the next ones.
SearchRound(s, x, g) ==
    [p \in SearchCells(s) |->
        LET lo == p[1]
            hi == p[2]
            mid == (lo + hi) \div 2
        IN  IF lo > hi THEN FALSE
            ELSE IF s[mid] = x THEN TRUE
            ELSE IF s[mid] < x THEN g[<<mid + 1, hi>>] ELSE g[<<lo, mid - 1>>]]

\* The search is the function that one round leaves as it is, from the whole list on.
LEMMA SearchIsAFixedPoint ==
    ASSUME NEW s, NEW x
    PROVE  BinarySearch(s, x) = (CHOOSE g : g = SearchRound(s, x, g))[<<1, Len(s)>>]
  BY DEF BinarySearch, SearchRound, SearchCells

\* A part of the list that is empty has nothing.
LEMMA SearchEmpty ==
    ASSUME NEW s \in Seq(Nat), NEW x, NEW g, NEW lo \in 1 .. Len(s) + 1, NEW hi \in 0 .. Len(s), lo > hi
    PROVE  SearchRound(s, x, g)[<<lo, hi>>] = FALSE
  <1>1. <<lo, hi>> \in SearchCells(s) /\ <<lo, hi>>[1] = lo /\ <<lo, hi>>[2] = hi
    BY DEF SearchCells
  <1> QED BY <1>1, Zenon DEF SearchRound

\* What a round answers for the places lo to hi, when it looks at the place mid.
SplitAt(s, x, g, lo, mid, hi) ==
    LET answer == SearchRound(s, x, g)[<<lo, hi>>]
    IN  /\ s[mid] = x => answer = TRUE
        /\ s[mid] # x /\ s[mid] < x => answer = g[<<mid + 1, hi>>]
        /\ s[mid] # x /\ ~(s[mid] < x) => answer = g[<<lo, mid - 1>>]

\* Any other part is split at a place of its own.
LEMMA SearchSplit ==
    ASSUME NEW s \in Seq(Nat), NEW x, NEW lo \in 1 .. Len(s) + 1, NEW hi \in 0 .. Len(s), lo <= hi
    PROVE  \E mid \in lo .. hi :
                /\ mid \in 1 .. Len(s) /\ mid + 1 \in 1 .. Len(s) + 1 /\ mid - 1 \in 0 .. Len(s)
                /\ \A g : SplitAt(s, x, g, lo, mid, hi)
  <1> DEFINE mid == (lo + hi) \div 2
  <1>1. mid \in lo .. hi /\ ~(lo > hi) /\ Len(s) \in Nat
    OBVIOUS
  <1>2. <<lo, hi>> \in SearchCells(s) /\ <<lo, hi>>[1] = lo /\ <<lo, hi>>[2] = hi
    BY DEF SearchCells
  <1>3. ASSUME NEW g PROVE SplitAt(s, x, g, lo, mid, hi)
    <2>1. s[mid] = x => SearchRound(s, x, g)[<<lo, hi>>] = TRUE
      BY <1>1, <1>2, Zenon DEF SearchRound
    <2>2. s[mid] # x /\ s[mid] < x => SearchRound(s, x, g)[<<lo, hi>>] = g[<<mid + 1, hi>>]
      BY <1>1, <1>2, Zenon DEF SearchRound
    <2>3. s[mid] # x /\ ~(s[mid] < x) => SearchRound(s, x, g)[<<lo, hi>>] = g[<<lo, mid - 1>>]
      BY <1>1, <1>2, Zenon DEF SearchRound
    <2> QED BY <2>1, <2>2, <2>3, Zenon DEF SplitAt
  <1> HIDE DEF mid
  <1>4. mid \in 1 .. Len(s) /\ mid + 1 \in 1 .. Len(s) + 1 /\ mid - 1 \in 0 .. Len(s)
    BY <1>1
  <1> QED BY <1>1, <1>3, <1>4, Zenon

\* The rounds end: some function is left as it is by a round.
LEMMA SearchIsDefined ==
    ASSUME NEW s \in Seq(Nat), NEW x
    PROVE  \E g \in [SearchCells(s) -> BOOLEAN] : g = SearchRound(s, x, g)
  <1> DEFINE D == SearchCells(s)
             Right(g, n) == \A lo \in 1 .. Len(s) + 1, hi \in 0 .. Len(s) :
                                hi - lo + 1 < n => g[<<lo, hi>>] = SearchRound(s, x, g)[<<lo, hi>>]
             S == {n \in Nat : \E g \in [D -> BOOLEAN] : Right(g, n)}
  <1>0. /\ Len(s) \in Nat
        /\ \A lo \in 1 .. Len(s) + 1, hi \in 0 .. Len(s) : <<lo, hi>> \in D
        /\ \A p \in D : \E lo \in 1 .. Len(s) + 1, hi \in 0 .. Len(s) : p = <<lo, hi>>
    BY DEF SearchCells
  <1>1. 0 \in S
    <2> DEFINE g == [p \in D |-> FALSE]
    <2>1. g \in [D -> BOOLEAN]
      BY Zenon
    <2>2. ASSUME NEW lo \in 1 .. Len(s) + 1, NEW hi \in 0 .. Len(s), hi - lo + 1 < 0
          PROVE  g[<<lo, hi>>] = SearchRound(s, x, g)[<<lo, hi>>]
      <3>1. lo > hi
        BY <2>2
      <3>2. g[<<lo, hi>>] = FALSE
        BY <1>0, Zenon
      <3> HIDE DEF g
      <3> QED BY Zenon, <3>1, <3>2, SearchEmpty
    <2> QED BY <2>1, <2>2, Zenon
  <1>2. ASSUME NEW n \in Nat, n \in S PROVE n + 1 \in S
    <2>1. PICK g \in [D -> BOOLEAN] : Right(g, n)
      BY <1>2, Zenon
    <2> DEFINE h == [p \in D |-> IF p[2] - p[1] + 1 = n THEN SearchRound(s, x, g)[p] ELSE g[p]]
    <2>2. ASSUME NEW lo \in 1 .. Len(s) + 1, NEW hi \in 0 .. Len(s)
          PROVE  /\ hi - lo + 1 = n => h[<<lo, hi>>] = SearchRound(s, x, g)[<<lo, hi>>]
                 /\ hi - lo + 1 # n => h[<<lo, hi>>] = g[<<lo, hi>>]
      <3>1. <<lo, hi>> \in D /\ <<lo, hi>>[1] = lo /\ <<lo, hi>>[2] = hi
        BY <1>0
      <3> QED BY <3>1, Zenon
    <2>3. ASSUME NEW p \in D PROVE h[p] \in BOOLEAN
      <3>1. PICK lo \in 1 .. Len(s) + 1, hi \in 0 .. Len(s) : p = <<lo, hi>>
        BY <1>0, Zenon
      <3>2. g[p] \in BOOLEAN
        BY <2>1, Zenon
      <3>3. SearchRound(s, x, g)[<<lo, hi>>] \in BOOLEAN
        <4>1. CASE lo > hi
          BY Zenon, <4>1, SearchEmpty
        <4>2. CASE lo <= hi
          <5>1. PICK mid \in lo .. hi :
                    /\ mid + 1 \in 1 .. Len(s) + 1 /\ mid - 1 \in 0 .. Len(s)
                    /\ SplitAt(s, x, g, lo, mid, hi)
            BY <4>2, SearchSplit, Zenon
          <5>2. g[<<mid + 1, hi>>] \in BOOLEAN /\ g[<<lo, mid - 1>>] \in BOOLEAN
            BY <1>0, <2>1, <5>1, Zenon
          <5> QED BY <5>1, <5>2, Zenon DEF SplitAt
        <4> QED BY <4>1, <4>2
      <3> HIDE DEF h
      <3> QED BY <2>2, <3>1, <3>2, <3>3, Zenon
    <2>4. h \in [D -> BOOLEAN]
      BY <2>3, Zenon
    <2>5. ASSUME NEW lo \in 1 .. Len(s) + 1, NEW hi \in 0 .. Len(s), hi - lo + 1 < n + 1
          PROVE  h[<<lo, hi>>] = SearchRound(s, x, h)[<<lo, hi>>]
      <3> HIDE DEF h
      <3>1. h[<<lo, hi>>] = SearchRound(s, x, g)[<<lo, hi>>]
        <4>1. CASE hi - lo + 1 = n
          BY <2>2, <4>1, Zenon
        <4>2. CASE hi - lo + 1 # n
          <5>1. hi - lo + 1 < n
            BY <2>5, <4>2
          <5> QED BY <2>1, <2>2, <4>2, <5>1, Zenon
        <4> QED BY <4>1, <4>2, Zenon
      <3>2. SearchRound(s, x, g)[<<lo, hi>>] = SearchRound(s, x, h)[<<lo, hi>>]
        <4>1. CASE lo > hi
          BY Zenon, <4>1, SearchEmpty
        <4>2. CASE lo <= hi
          <5>1. PICK mid \in lo .. hi :
                    /\ mid + 1 \in 1 .. Len(s) + 1 /\ mid - 1 \in 0 .. Len(s)
                    /\ SplitAt(s, x, g, lo, mid, hi) /\ SplitAt(s, x, h, lo, mid, hi)
            BY <4>2, SearchSplit, Zenon
          <5>3. hi - (mid + 1) + 1 # n /\ (mid - 1) - lo + 1 # n
            BY <1>0, <2>5, <5>1
          <5>4. h[<<mid + 1, hi>>] = g[<<mid + 1, hi>>] /\ h[<<lo, mid - 1>>] = g[<<lo, mid - 1>>]
            BY <2>2, <5>1, <5>3, Zenon
          <5> QED BY <5>1, <5>4, Zenon DEF SplitAt
        <4> QED BY <4>1, <4>2
      <3> QED BY <3>1, <3>2, Zenon
    <2>6. Right(h, n + 1)
      BY <2>5, Zenon
    <2>7. n + 1 \in Nat
      OBVIOUS
    <2> HIDE DEF h, Right
    <2> QED BY <2>4, <2>6, <2>7, Zenon
  <1>3. Len(s) + 2 \in S
    <2> HIDE DEF S
    <2>1. Nat \subseteq S
      BY <1>1, <1>2, AllNaturals, Zenon
    <2> QED BY <1>0, <2>1
  <1>4. PICK g \in [D -> BOOLEAN] : Right(g, Len(s) + 2)
    BY <1>3, Zenon
  <1>5. ASSUME NEW p \in D PROVE g[p] = SearchRound(s, x, g)[p]
    <2>1. PICK lo \in 1 .. Len(s) + 1, hi \in 0 .. Len(s) : p = <<lo, hi>>
      BY <1>0, Zenon
    <2>2. hi - lo + 1 < Len(s) + 2
      BY <1>0
    <2> QED BY <1>4, <2>1, <2>2, Zenon
  <1>6. g = SearchRound(s, x, g)
    <2>1. g = [p \in D |-> g[p]]
      BY <1>4, Zenon
    <2>2. SearchRound(s, x, g) = [p \in D |-> SearchRound(s, x, g)[p]]
      BY Zenon DEF SearchRound
    <2> QED BY <1>5, <2>1, <2>2
  <1> QED BY <1>6, Zenon

\* The binary search finds what is in a strictly sorted list and nothing else.
LEMMA SearchIsExact ==
    ASSUME NEW s \in Seq(Nat), StrictlySorted(s), NEW x \in Nat
    PROVE  BinarySearch(s, x) <=> x \in Range(s)
  <1> DEFINE f == CHOOSE g : g = SearchRound(s, x, g)
             Exact(lo, hi) == f[<<lo, hi>>] <=> \E i \in lo .. hi : s[i] = x
             S == {n \in Nat : \A lo \in 1 .. Len(s) + 1, hi \in 0 .. Len(s) :
                                    hi - lo + 1 < n => Exact(lo, hi)}
  <1>0. Len(s) \in Nat /\ \A i \in 1 .. Len(s) : s[i] \in Nat
    OBVIOUS
  <1>1. f = SearchRound(s, x, f)
    BY SearchIsDefined, Zenon
  <1>2. BinarySearch(s, x) = f[<<1, Len(s)>>]
    BY SearchIsAFixedPoint
  <1> HIDE DEF f
  <1>3. ASSUME NEW lo \in 1 .. Len(s) + 1, NEW hi \in 0 .. Len(s), lo > hi
        PROVE  Exact(lo, hi)
    <2>1. f[<<lo, hi>>] = FALSE
      BY Zenon, <1>1, <1>3, SearchEmpty
    <2>2. ~ \E i \in lo .. hi : s[i] = x
      BY <1>3
    <2> QED BY <2>1, <2>2, Zenon
  <1>4. 0 \in S
    <2> SUFFICES ASSUME NEW lo \in 1 .. Len(s) + 1, NEW hi \in 0 .. Len(s), hi - lo + 1 < 0
                 PROVE  Exact(lo, hi)
      BY Zenon
    <2>1. lo > hi
      OBVIOUS
    <2> QED BY <1>3, <2>1, Zenon
  <1>5. ASSUME NEW n \in Nat, n \in S PROVE n + 1 \in S
    <2>1. ASSUME NEW lo \in 1 .. Len(s) + 1, NEW hi \in 0 .. Len(s), hi - lo + 1 < n + 1, lo <= hi
          PROVE  Exact(lo, hi)
      <3>1. PICK mid \in lo .. hi :
                /\ mid \in 1 .. Len(s)
                /\ s[mid] = x => f[<<lo, hi>>] = TRUE
                /\ s[mid] # x /\ s[mid] < x => f[<<lo, hi>>] = f[<<mid + 1, hi>>]
                /\ s[mid] # x /\ ~(s[mid] < x) => f[<<lo, hi>>] = f[<<lo, mid - 1>>]
        <4>1. PICK mid \in lo .. hi : mid \in 1 .. Len(s) /\ SplitAt(s, x, f, lo, mid, hi)
          BY <2>1, SearchSplit, Zenon
        <4> QED BY <1>1, <4>1, Zenon DEF SplitAt
      <3>0. mid \in 1 .. Len(s)
        BY <3>1, Zenon
      <3>2. /\ mid + 1 \in 1 .. Len(s) + 1 /\ mid - 1 \in 0 .. Len(s)
            /\ hi - (mid + 1) + 1 < n /\ (mid - 1) - lo + 1 < n
        BY <1>0, <2>1, <3>0
      <3>3. Exact(mid + 1, hi) /\ Exact(lo, mid - 1)
        BY <1>5, <3>2, Zenon
      <3>4. CASE s[mid] = x
        BY <3>1, <3>4, Zenon
      <3>5. CASE s[mid] < x
        <4>1. ASSUME NEW i \in lo .. hi, s[i] = x PROVE i \in mid + 1 .. hi
          <5>1. i \in 1 .. Len(s) /\ s[mid] \in Nat /\ s[i] \in Nat /\ s[mid] < s[i]
            <6>1. i \in 1 .. Len(s)
              BY <1>0, <2>1, <4>1
            <6>2. s[mid] \in Nat /\ s[i] \in Nat
              BY SMTT(30), <3>0, <6>1
            <6> QED BY <3>5, <4>1, <6>1, <6>2
          <5>2. i < mid => s[i] < s[mid]
            BY <3>0, <5>1, SortedPlaces, Zenon
          <5>3. i # mid
            BY <1>0, <3>0, <3>5, <4>1
          <5> QED BY SMTT(30), <1>0, <3>0, <5>1, <5>2, <5>3
        <4>2. \A i \in mid + 1 .. hi : i \in lo .. hi
          BY <3>0
        <4>3. s[mid] # x
          BY <1>0, <3>0, <3>5
        <4> QED BY <3>1, <3>3, <3>5, <4>1, <4>2, <4>3, Zenon
      <3>6. CASE s[mid] # x /\ ~(s[mid] < x)
        <4>1. ASSUME NEW i \in lo .. hi, s[i] = x PROVE i \in lo .. mid - 1
          <5>1. i \in 1 .. Len(s) /\ s[mid] \in Nat /\ s[i] \in Nat /\ s[i] < s[mid]
            <6>1. i \in 1 .. Len(s)
              BY <1>0, <2>1, <4>1
            <6>2. s[mid] \in Nat /\ s[i] \in Nat
              BY SMTT(30), <3>0, <6>1
            <6> QED BY SMTT(30), <3>6, <4>1, <6>1, <6>2
          <5>2. mid < i => s[mid] < s[i]
            BY <3>0, <5>1, SortedPlaces, Zenon
          <5>3. i # mid
            BY <3>6, <4>1
          <5> QED BY SMTT(30), <1>0, <3>0, <5>1, <5>2, <5>3
        <4>2. \A i \in lo .. mid - 1 : i \in lo .. hi
          BY <3>0
        <4> QED BY <3>1, <3>3, <3>6, <4>1, <4>2, Zenon
      <3> QED BY <3>4, <3>5, <3>6, Zenon
    <2> SUFFICES ASSUME NEW lo \in 1 .. Len(s) + 1, NEW hi \in 0 .. Len(s), hi - lo + 1 < n + 1
                 PROVE  Exact(lo, hi)
      BY SMTT(30)
    <2>2. lo <= hi \/ lo > hi
      OBVIOUS
    <2> QED BY <1>3, <2>1, <2>2, Zenon
  <1>6. Len(s) + 1 \in S
    <2> HIDE DEF S
    <2>1. Nat \subseteq S
      BY <1>4, <1>5, AllNaturals, Zenon
    <2> QED BY <1>0, <2>1
  <1>7. 1 \in 1 .. Len(s) + 1 /\ Len(s) \in 0 .. Len(s) /\ Len(s) - 1 + 1 < Len(s) + 1
    BY <1>0
  <1>8. Exact(1, Len(s))
    BY <1>6, <1>7, Zenon
  <1>9. x \in Range(s) <=> \E i \in 1 .. Len(s) : s[i] = x
    BY DEF Range
  <1> QED BY <1>2, <1>8, <1>9, Zenon

---------------------------------------------------------------------------
(* The merge *)

MergeCells(left, right) == (1 .. Len(left) + 1) \X (1 .. Len(right) + 1)

\* One round of the merge, where g has what the next ones collect.
MergeRound(left, right, g) ==
    [p \in MergeCells(left, right) |->
        LET i == p[1]
            j == p[2]
        IN  IF i > Len(left) \/ j > Len(right) THEN <<>>
            ELSE IF left[i] < right[j] THEN g[<<i + 1, j>>]
            ELSE IF left[i] > right[j] THEN g[<<i, j + 1>>]
            ELSE <<left[i]>> \o g[<<i + 1, j + 1>>]]

\* The merge is the function that one round leaves as it is, from the first places on.
LEMMA MergeIsAFixedPoint ==
    ASSUME NEW left, NEW right
    PROVE  Intersection(left, right) = (CHOOSE g : g = MergeRound(left, right, g))[<<1, 1>>]
  BY DEF Intersection, MergeRound, MergeCells

\* What one round does at the places i and j.
MergesAt(left, right, g, i, j) ==
    LET merged == MergeRound(left, right, g)[<<i, j>>]
    IN  IF i > Len(left) \/ j > Len(right) THEN merged = <<>>
        ELSE IF left[i] < right[j] THEN merged = g[<<i + 1, j>>]
        ELSE IF left[i] > right[j] THEN merged = g[<<i, j + 1>>]
        ELSE merged = <<left[i]>> \o g[<<i + 1, j + 1>>]

\* A round does that at all places of the two lists.
LEMMA MergeAt ==
    ASSUME NEW left \in Seq(Nat), NEW right \in Seq(Nat), NEW g,
           NEW i \in 1 .. Len(left) + 1, NEW j \in 1 .. Len(right) + 1
    PROVE  MergesAt(left, right, g, i, j)
  <1>1. <<i, j>> \in MergeCells(left, right) /\ <<i, j>>[1] = i /\ <<i, j>>[2] = j
    BY DEF MergeCells
  <1> QED BY <1>1, Zenon DEF MergeRound, MergesAt

\* The rounds end: some function is left as it is by a round.
LEMMA MergeIsDefined ==
    ASSUME NEW left \in Seq(Nat), NEW right \in Seq(Nat)
    PROVE  \E g \in [MergeCells(left, right) -> Seq(Nat)] : g = MergeRound(left, right, g)
  <1> DEFINE D == MergeCells(left, right)
             I == 1 .. Len(left) + 1
             J == 1 .. Len(right) + 1
             To(i, j) == (Len(left) + 1 - i) + (Len(right) + 1 - j)
             Right(g, n) == \A i \in I, j \in J :
                                To(i, j) < n => g[<<i, j>>] = MergeRound(left, right, g)[<<i, j>>]
             S == {n \in Nat : \E g \in [D -> Seq(Nat)] : Right(g, n)}
  <1>0. /\ Len(left) \in Nat /\ Len(right) \in Nat
        /\ \A i \in I, j \in J : <<i, j>> \in D
        /\ \A p \in D : \E i \in I, j \in J : p = <<i, j>>
    BY DEF MergeCells
  <1>s. ASSUME NEW i \in I, NEW j \in J, ~(i > Len(left) \/ j > Len(right))
        PROVE  /\ i + 1 \in I /\ j + 1 \in J /\ left[i] \in Nat
               /\ To(i + 1, j) < To(i, j) /\ To(i, j + 1) < To(i, j) /\ To(i + 1, j + 1) < To(i, j)
    <2>1. i \in 1 .. Len(left) /\ j \in 1 .. Len(right)
      BY <1>0, <1>s
    <2>2. left[i] \in Nat
      BY <2>1
    <2>3. i + 1 \in I /\ j + 1 \in J
      BY <1>0, <2>1
    <2>4. To(i + 1, j) < To(i, j) /\ To(i, j + 1) < To(i, j) /\ To(i + 1, j + 1) < To(i, j)
      BY <1>0, <2>1
    <2> QED BY <2>2, <2>3, <2>4
  <1>1. 0 \in S
    <2> DEFINE g == [p \in D |-> <<>>]
    <2>1. g \in [D -> Seq(Nat)]
      OBVIOUS
    <2>2. \A i \in I, j \in J : ~(To(i, j) < 0)
      BY <1>0
    <2> HIDE DEF g, To, I, J, D
    <2> QED BY Zenon, <2>1, <2>2
  <1>2. ASSUME NEW n \in Nat, n \in S PROVE n + 1 \in S
    <2>1. PICK g \in [D -> Seq(Nat)] : Right(g, n)
      BY <1>2, Zenon
    <2> DEFINE h == [p \in D |-> IF To(p[1], p[2]) = n THEN MergeRound(left, right, g)[p] ELSE g[p]]
    <2>2. ASSUME NEW i \in I, NEW j \in J
          PROVE  /\ To(i, j) = n => h[<<i, j>>] = MergeRound(left, right, g)[<<i, j>>]
                 /\ To(i, j) # n => h[<<i, j>>] = g[<<i, j>>]
      <3>1. <<i, j>> \in D /\ <<i, j>>[1] = i /\ <<i, j>>[2] = j
        BY <1>0
      <3> QED BY <3>1, Zenon
    <2>3. ASSUME NEW p \in D PROVE h[p] \in Seq(Nat)
      <3> HIDE DEF h, D, To
      <3>1. PICK i \in I, j \in J : p = <<i, j>>
        BY <1>0, Zenon
      <3>2. g[p] \in Seq(Nat)
        BY <2>1, Zenon
      <3>3. MergeRound(left, right, g)[<<i, j>>] \in Seq(Nat)
        <4>0. MergesAt(left, right, g, i, j)
          BY MergeAt, Zenon
        <4>1. CASE i > Len(left) \/ j > Len(right)
          <5>1. MergeRound(left, right, g)[<<i, j>>] = <<>>
            BY <4>0, <4>1, Zenon DEF MergesAt
          <5> QED BY <5>1
        <4>2. CASE ~(i > Len(left) \/ j > Len(right))
          <5>1. /\ g[<<i + 1, j>>] \in Seq(Nat) /\ g[<<i, j + 1>>] \in Seq(Nat)
                /\ g[<<i + 1, j + 1>>] \in Seq(Nat) /\ left[i] \in Nat
            BY <1>0, <1>s, <2>1, <4>2, Zenon
          <5>2. <<left[i]>> \o g[<<i + 1, j + 1>>] \in Seq(Nat)
            BY <5>1
          <5> QED BY <4>0, <4>2, <5>1, <5>2, Zenon DEF MergesAt
        <4> QED BY <4>1, <4>2, Zenon
      <3> QED BY <2>2, <3>1, <3>2, <3>3, Zenon
    <2>4. h \in [D -> Seq(Nat)]
      BY <2>3, Zenon
    <2>5. ASSUME NEW i \in I, NEW j \in J, To(i, j) < n + 1
          PROVE  h[<<i, j>>] = MergeRound(left, right, h)[<<i, j>>]
      <3> HIDE DEF h, D
      <3>0. To(i, j) \in Nat
        BY <1>0
      <3>1. h[<<i, j>>] = MergeRound(left, right, g)[<<i, j>>]
        <4> HIDE DEF To, I, J
        <4>1. CASE To(i, j) = n
          BY <2>2, <4>1, Zenon
        <4>2. CASE To(i, j) # n
          <5>1. To(i, j) < n
            BY <2>5, <3>0, <4>2
          <5> QED BY <2>1, <2>2, <4>2, <5>1, Zenon
        <4> QED BY <4>1, <4>2, Zenon
      <3>2. MergesAt(left, right, g, i, j) /\ MergesAt(left, right, h, i, j)
        BY MergeAt, Zenon
      <3>3. CASE i > Len(left) \/ j > Len(right)
        BY <3>1, <3>2, <3>3, Zenon DEF MergesAt
      <3>4. CASE ~(i > Len(left) \/ j > Len(right))
        <4>1. To(i + 1, j) # n /\ To(i, j + 1) # n /\ To(i + 1, j + 1) # n
          BY <1>0, <2>5
        <4>2. i + 1 \in I /\ j + 1 \in J
          BY <1>s, <3>4, Zenon
        <4> HIDE DEF To, I, J
        <4>3. /\ h[<<i + 1, j>>] = g[<<i + 1, j>>] /\ h[<<i, j + 1>>] = g[<<i, j + 1>>]
              /\ h[<<i + 1, j + 1>>] = g[<<i + 1, j + 1>>]
          BY <2>2, <4>1, <4>2, Zenon
        <4> QED BY <3>1, <3>2, <3>4, <4>3, Zenon DEF MergesAt
      <3> QED BY <3>3, <3>4, Zenon
    <2>6. Right(h, n + 1)
      BY <2>5, Zenon
    <2>7. n + 1 \in Nat
      OBVIOUS
    <2> HIDE DEF h, Right
    <2> QED BY <2>4, <2>6, <2>7, Zenon
  <1>3. To(1, 1) + 1 \in S
    <2> HIDE DEF S
    <2>1. Nat \subseteq S
      BY <1>1, <1>2, AllNaturals, Zenon
    <2> QED BY <1>0, <2>1
  <1>4. PICK g \in [D -> Seq(Nat)] : Right(g, To(1, 1) + 1)
    BY <1>3, Zenon
  <1>5. ASSUME NEW p \in D PROVE g[p] = MergeRound(left, right, g)[p]
    <2>1. PICK i \in I, j \in J : p = <<i, j>>
      BY <1>0, Zenon
    <2>2. To(i, j) < To(1, 1) + 1
      BY <1>0
    <2> QED BY <1>4, <2>1, <2>2, Zenon
  <1>6. g = MergeRound(left, right, g)
    <2>1. g = [p \in D |-> g[p]]
      BY <1>4, Zenon
    <2>2. MergeRound(left, right, g) = [p \in D |-> MergeRound(left, right, g)[p]]
      BY Zenon DEF MergeRound
    <2> QED BY <1>5, <2>1, <2>2
  <1> QED BY <1>6, Zenon

\* A sorted list with a smaller entry put before it is sorted, and has one entry more.
LEMMA SortedCons ==
    ASSUME NEW x \in Nat, NEW t \in Seq(Nat), StrictlySorted(t), \A v \in Range(t) : x < v
    PROVE  /\ <<x>> \o t \in Seq(Nat) /\ StrictlySorted(<<x>> \o t)
           /\ Range(<<x>> \o t) = {x} \union Range(t)
  <1> DEFINE c == <<x>> \o t
  <1>1. /\ c \in Seq(Nat) /\ Len(c) = Len(t) + 1 /\ c[1] = x /\ Len(t) \in Nat
        /\ \A k \in 1 .. Len(t) : c[k + 1] = t[k]
    OBVIOUS
  <1> HIDE DEF c
  <1>2. DOMAIN c = 1 .. Len(c) /\ \A k \in 1 .. Len(t) : t[k] \in Range(t)
    BY SMTT(30), <1>1 DEF Range
  <1>3. ASSUME NEW k \in 1 .. Len(c) - 1 PROVE c[k] < c[k + 1]
    <2>1. CASE k = 1
      <3>1. 1 \in 1 .. Len(t) /\ c[2] = t[1]
        BY <1>1, <2>1
      <3> QED BY <1>1, <1>2, <2>1, <3>1
    <2>2. CASE k # 1
      <3>1. k - 1 \in 1 .. Len(t) - 1 /\ k - 1 \in 1 .. Len(t) /\ k \in 1 .. Len(t)
        BY <1>1, <2>2
      <3>2. c[(k - 1) + 1] = t[k - 1] /\ c[k + 1] = t[k] /\ t[k - 1] < t[(k - 1) + 1]
        BY Zenon, <1>1, <3>1 DEF StrictlySorted
      <3> QED BY <3>1, <3>2
    <2> QED BY <2>1, <2>2
  <1>4. ASSUME NEW k \in 1 .. Len(c) PROVE c[k] \in {x} \union Range(t)
    <2>1. k = 1 \/ (k - 1 \in 1 .. Len(t) /\ k = (k - 1) + 1)
      BY <1>1
    <2>2. k # 1 => c[k] = t[k - 1]
      BY Zenon, <1>1, <2>1
    <2> QED BY Zenon, <1>1, <1>2, <2>1, <2>2
  <1>5. ASSUME NEW v \in {x} \union Range(t) PROVE v \in Range(c)
    <2>1. CASE v = x
      BY SMTT(30), <1>1, <2>1 DEF Range
    <2>2. CASE v \in Range(t)
      <3>1. PICK k \in 1 .. Len(t) : v = t[k]
        BY <2>2 DEF Range
      <3>2. k + 1 \in 1 .. Len(c) /\ c[k + 1] = v
        BY <1>1, <3>1
      <3> QED BY <1>2, <3>2, Zenon DEF Range
    <2> QED BY <2>1, <2>2
  <1>6. StrictlySorted(c)
    BY <1>3 DEF StrictlySorted
  <1>7. Range(c) = {x} \union Range(t)
    BY <1>1, <1>4, <1>5 DEF Range
  <1> QED BY <1>1, <1>6, <1>7 DEF c

\* The merge of two strictly sorted lists is the strictly sorted list of what both have.
LEMMA MergeIsExact ==
    ASSUME NEW left \in Seq(Nat), NEW right \in Seq(Nat), StrictlySorted(left), StrictlySorted(right)
    PROVE  /\ StrictlySorted(Intersection(left, right))
           /\ Range(Intersection(left, right)) = Range(left) \intersect Range(right)
  <1> DEFINE f == CHOOSE g : g = MergeRound(left, right, g)
             I == 1 .. Len(left) + 1
             J == 1 .. Len(right) + 1
             To(i, j) == (Len(left) + 1 - i) + (Len(right) + 1 - j)
             InLeft(i) == {left[a] : a \in i .. Len(left)}
             InRight(j) == {right[b] : b \in j .. Len(right)}
             Exact(i, j) == /\ f[<<i, j>>] \in Seq(Nat) /\ StrictlySorted(f[<<i, j>>])
                            /\ Range(f[<<i, j>>]) = InLeft(i) \intersect InRight(j)
             S == {n \in Nat : \A i \in I, j \in J : To(i, j) < n => Exact(i, j)}
  <1>0. /\ Len(left) \in Nat /\ Len(right) \in Nat
        /\ \A a \in 1 .. Len(left) : left[a] \in Nat
        /\ \A b \in 1 .. Len(right) : right[b] \in Nat
    OBVIOUS
  <1>1. f = MergeRound(left, right, f)
    BY MergeIsDefined, Zenon
  <1>2. Intersection(left, right) = f[<<1, 1>>]
    BY MergeIsAFixedPoint
  <1> HIDE DEF f
  <1>3. 0 \in S
    <2>1. \A i \in I, j \in J : ~(To(i, j) < 0)
      BY <1>0
    <2> HIDE DEF I, J, To, Exact
    <2> QED BY <2>1
  <1>4. ASSUME NEW n \in Nat, n \in S PROVE n + 1 \in S
    <2> SUFFICES ASSUME NEW i \in I, NEW j \in J, To(i, j) < n + 1
                 PROVE  Exact(i, j)
      <3>1. n + 1 \in Nat
        OBVIOUS
      <3> HIDE DEF I, J, To, Exact
      <3> QED BY <3>1
    <2>0. MergesAt(left, right, f, i, j)
      BY MergeAt, Zenon
    <2>1. CASE i > Len(left) \/ j > Len(right)
      <3>1. f[<<i, j>>] = <<>>
        BY <1>1, <2>0, <2>1, Zenon DEF MergesAt
      <3>2. InLeft(i) = {} \/ InRight(j) = {}
        <4>1. CASE i > Len(left)
          <5>1. \A a \in i .. Len(left) : FALSE
            BY <1>0, <4>1
          <5> QED BY <5>1, Zenon
        <4>2. CASE j > Len(right)
          <5>1. \A b \in j .. Len(right) : FALSE
            BY <1>0, <4>2
          <5> QED BY <5>1, Zenon
        <4> QED BY <2>1, <4>1, <4>2, Zenon
      <3>3. <<>> \in Seq(Nat) /\ StrictlySorted(<<>>) /\ Range(<<>>) = {}
        BY DEF StrictlySorted, Range
      <3> QED BY Zenon, <3>1, <3>2, <3>3
    <2>2. CASE ~(i > Len(left) \/ j > Len(right))
      <3>0. /\ i \in 1 .. Len(left) /\ j \in 1 .. Len(right) /\ i + 1 \in I /\ j + 1 \in J
            /\ To(i + 1, j) < n /\ To(i, j + 1) < n /\ To(i + 1, j + 1) < n
        <4>1. i \in 1 .. Len(left) /\ j \in 1 .. Len(right) /\ i + 1 \in I /\ j + 1 \in J
          BY SMTT(30), <1>0, <2>2
        <4>2. To(i + 1, j) < n /\ To(i, j + 1) < n /\ To(i + 1, j + 1) < n
          BY SMTT(30), <1>0, <4>1
        <4> QED BY Zenon, <4>1, <4>2
      <3>1. Exact(i + 1, j) /\ Exact(i, j + 1) /\ Exact(i + 1, j + 1)
        <4> HIDE DEF I, J, To, Exact
        <4> QED BY <1>4, <3>0, Zenon
      <3>2. /\ InLeft(i) = {left[i]} \union InLeft(i + 1)
            /\ InRight(j) = {right[j]} \union InRight(j + 1)
        <4>1. /\ \A a \in i .. Len(left) : a = i \/ a \in i + 1 .. Len(left)
              /\ \A b \in j .. Len(right) : b = j \/ b \in j + 1 .. Len(right)
              /\ \A a \in i + 1 .. Len(left) : a \in i .. Len(left)
              /\ \A b \in j + 1 .. Len(right) : b \in j .. Len(right)
              /\ i \in i .. Len(left) /\ j \in j .. Len(right)
          BY SMTT(30), <3>0
        <4> QED BY Zenon, <4>1
      <3>3. ASSUME NEW v \in InLeft(i + 1) PROVE v \in Nat /\ left[i] < v
        <4>1. PICK a \in i + 1 .. Len(left) : v = left[a]
          OBVIOUS
        <4>2. a \in 1 .. Len(left) /\ i < a
          BY <3>0
        <4> QED BY Zenon, <1>0, <3>0, <4>1, <4>2, SortedPlaces
      <3>4. ASSUME NEW v \in InRight(j + 1) PROVE v \in Nat /\ right[j] < v
        <4>1. PICK b \in j + 1 .. Len(right) : v = right[b]
          OBVIOUS
        <4>2. b \in 1 .. Len(right) /\ j < b
          BY <3>0
        <4> QED BY Zenon, <1>0, <3>0, <4>1, <4>2, SortedPlaces
      <3>5. left[i] \in Nat /\ right[j] \in Nat
        BY <1>0, <3>0
      <3> HIDE DEF InLeft, InRight, I, J, To, S
      <3>6. CASE left[i] < right[j]
        <4>1. f[<<i, j>>] = f[<<i + 1, j>>]
          BY <1>1, <2>0, <2>2, <3>6, Zenon DEF MergesAt
        <4>2. left[i] \notin InRight(j)
          <5>1. ASSUME NEW v \in InRight(j + 1) PROVE v # left[i]
            BY <3>4, <3>5, <3>6
          <5>2. left[i] # right[j]
            BY <3>5, <3>6
          <5> QED BY <3>2, <5>1, <5>2, Zenon
        <4>3. InLeft(i) \intersect InRight(j) = InLeft(i + 1) \intersect InRight(j)
          BY <3>2, <4>2, Zenon
        <4> QED BY <3>1, <4>1, <4>3, Zenon
      <3>7. CASE left[i] > right[j]
        <4>0. ~(left[i] < right[j])
          BY SMTT(30), <3>5, <3>7
        <4>1. f[<<i, j>>] = f[<<i, j + 1>>]
          BY <1>1, <2>0, <2>2, <3>7, <4>0, Zenon DEF MergesAt
        <4>2. right[j] \notin InLeft(i)
          <5>1. ASSUME NEW v \in InLeft(i + 1) PROVE v # right[j]
            BY <3>3, <3>5, <3>7
          <5>2. left[i] # right[j]
            BY <3>5, <3>7
          <5> QED BY <3>2, <5>1, <5>2, Zenon
        <4>3. InLeft(i) \intersect InRight(j) = InLeft(i) \intersect InRight(j + 1)
          BY <3>2, <4>2, Zenon
        <4> QED BY <3>1, <4>1, <4>3, Zenon
      <3>8. CASE left[i] = right[j]
        <4>0. ~(left[i] < right[j]) /\ ~(left[i] > right[j])
          BY <3>5, <3>8
        <4>1. f[<<i, j>>] = <<left[i]>> \o f[<<i + 1, j + 1>>]
          BY <1>1, <2>0, <2>2, <4>0, Zenon DEF MergesAt
        <4>2. \A v \in Range(f[<<i + 1, j + 1>>]) : left[i] < v
          BY <3>1, <3>3, Zenon
        <4>3. /\ f[<<i, j>>] \in Seq(Nat) /\ StrictlySorted(f[<<i, j>>])
              /\ Range(f[<<i, j>>]) = {left[i]} \union Range(f[<<i + 1, j + 1>>])
          <5> DEFINE t == f[<<i + 1, j + 1>>]
          <5>1. t \in Seq(Nat) /\ StrictlySorted(t) /\ \A v \in Range(t) : left[i] < v
            BY <3>1, <4>2, Zenon
          <5> HIDE DEF t
          <5>2. /\ <<left[i]>> \o t \in Seq(Nat) /\ StrictlySorted(<<left[i]>> \o t)
                /\ Range(<<left[i]>> \o t) = {left[i]} \union Range(t)
            BY Zenon, <3>5, <5>1, SortedCons
          <5>3. f[<<i, j>>] = <<left[i]>> \o t
            BY <4>1, Zenon DEF t
          <5>4. Range(f[<<i, j>>]) = {left[i]} \union Range(t)
            BY Zenon, <5>2, <5>3
          <5> QED BY <5>2, <5>3, <5>4, Zenon DEF t
        <4>4. left[i] \notin InLeft(i + 1) /\ right[j] \notin InRight(j + 1)
          <5>1. ASSUME NEW v \in InLeft(i + 1) PROVE v # left[i]
            BY <3>3, <3>5
          <5>2. ASSUME NEW v \in InRight(j + 1) PROVE v # right[j]
            BY <3>4, <3>5
          <5> QED BY <5>1, <5>2, Zenon
        <4>5. InLeft(i) \intersect InRight(j) = {left[i]} \union (InLeft(i + 1) \intersect InRight(j + 1))
          BY <3>2, <3>8, <4>4
        <4> QED BY <3>1, <4>3, <4>5, Zenon
      <3>9. left[i] < right[j] \/ left[i] > right[j] \/ left[i] = right[j]
        BY <3>5
      <3> QED BY <3>6, <3>7, <3>8, <3>9, Zenon
    <2> QED BY <2>1, <2>2, Zenon
  <1>5. To(1, 1) + 1 \in S
    <2> HIDE DEF S
    <2>1. Nat \subseteq S
      BY <1>3, <1>4, AllNaturals, Zenon
    <2> QED BY <1>0, <2>1
  <1>6. 1 \in I /\ 1 \in J /\ To(1, 1) < To(1, 1) + 1
    BY <1>0
  <1>7. Exact(1, 1)
    <2> HIDE DEF I, J, To, Exact
    <2> QED BY <1>5, <1>6, Zenon
  <1>8. InLeft(1) = Range(left) /\ InRight(1) = Range(right)
    BY DEF Range
  <1> QED BY <1>2, <1>7, <1>8, Zenon

\* What require_subset lets through is a subset.
LEMMA SubsetIsExact ==
    ASSUME NEW required \in Seq(Nat), NEW supported \in Seq(Nat), StrictlySorted(supported),
           Subset(required, supported)
    PROVE  Range(required) \subseteq Range(supported)
  <1>1. ASSUME NEW x \in Range(required) PROVE x \in Nat
    BY DEF Range
  <1>2. ASSUME NEW x \in Range(required) PROVE x \in Range(supported)
    <2>1. BinarySearch(supported, x)
      BY Zenon DEF Subset
    <2> QED BY <1>1, <2>1, SearchIsExact, Zenon
  <1> QED BY <1>2, Zenon

USE MultiAssumption

CheckpointType == [rev : Int, tip : Int]
Outcomes ==
    {"Advanced", "UpToDate", "Quarantined", "error", "BootstrapRequired", "HandshakeIdentityMismatch",
     "StaleHandshake", "LocalTrustMismatch", "MissingNegotiatedSyncCapability"}
CacheOutcomes == {"none", "Unchanged", "Invalidated", "Unavailable"}
ResultType == [store : Nat, before : Int, sync : Outcomes, after : Int, cached : CacheOutcomes]

Types ==
    /\ cp \in [Store -> CheckpointType]
    /\ targets \in Seq(TargetType) /\ preflight \in Seq(CheckpointType)
    /\ moves \in Seq([turn : Nat, from : CheckpointType])
    /\ results \in Seq(ResultType)

\* How far the call has come in each of its steps.
Phases ==
    /\ pc \in {"idle", "preflight", "transfer", "observe", "invalidate"}
    /\ Len(preflight) <= Len(targets) /\ Len(results) <= Len(preflight)
    /\ pc = "preflight" => Len(preflight) < Len(targets) /\ moves = <<>> /\ results = <<>> /\ error = "Ok"
    /\ pc \in {"transfer", "observe", "invalidate"} => Len(preflight) = Len(targets) /\ error = "Ok"
    /\ pc = "transfer" => Len(results) < Len(targets)
    /\ pc \in {"observe", "invalidate"} => Len(results) > 0
    /\ pc = "idle" /\ error = "Ok" => Len(results) = Len(targets)

\* A checkpoint that passed is the one its handshake is bound to, and of the right store.
Bound ==
    \A i \in 1 .. Len(preflight) :
        /\ preflight[i] = token[targets[i].token].bound
        /\ targets[i].store = targets[i].expected
        /\ preflight[i].rev <= cp[targets[i].store].rev

Moved ==
    \A i \in 1 .. Len(moves) :
        moves[i].turn \in 1 .. Len(preflight) /\ moves[i].from = preflight[moves[i].turn]

Answers ==
    \A i \in 1 .. Len(results) :
        results[i].store = targets[i].expected /\ results[i].before = preflight[i].rev

\* Revisions only grow, so an entry that was removed for the revision before a move
\* cannot come back.
Covered ==
    /\ \A i \in 1 .. Len(results) :
        /\ results[i].cached \in CacheOutcomes
        /\ results[i].cached = "Unchanged" => results[i].after = results[i].before
        /\ results[i].cached = "Invalidated" =>
                /\ results[i].before < cp[results[i].store].rev
                /\ <<results[i].store, results[i].before>> \notin cache
    /\ pc = "invalidate" => Result.before < cp[Result.store].rev

IInv == Types /\ Phases /\ Bound /\ Moved /\ Answers /\ Covered /\ ErrorTransfersNothing

---------------------------------------------------------------------------

\* The invariant holds before the first call.
LEMMA InitHolds == Init => IInv
  BY DEF Init, IInv, Types, CheckpointType, NoCheckpoint, TargetType, ResultType, Phases, Bound, Moved,
         Answers, Covered, Result, ErrorTransfersNothing

\* What the state variables of a call have in each of its steps.
LEMMA TurnFacts ==
    ASSUME IInv, pc = "transfer"
    PROVE  /\ Turn \in 1 .. Len(targets) /\ Turn = Len(results) + 1 /\ Now = targets[Turn]
           /\ Now \in TargetType /\ preflight[Turn] \in CheckpointType
           /\ Now.store = Now.expected /\ Now.store \in Store
           /\ preflight[Turn] = token[Now.token].bound
           /\ preflight[Turn].rev <= cp[Now.store].rev
  <1>1. Len(results) \in Nat /\ Len(results) < Len(targets) /\ Len(preflight) = Len(targets)
    BY DEF IInv, Types, Phases
  <1>2. Turn \in 1 .. Len(targets)
    BY <1>1 DEF IInv, Types, Turn
  <1>3. targets[Turn] \in TargetType /\ preflight[Turn] \in CheckpointType
    BY <1>1, <1>2 DEF IInv, Types
  <1>4. Now.store \in Store
    BY <1>3 DEF Now, TargetType
  <1> QED BY <1>1, <1>2, <1>3, <1>4 DEF IInv, Bound, Now, Turn

\* The result that the call works on.
LEMMA ResultFacts ==
    ASSUME IInv, pc \in {"observe", "invalidate"}
    PROVE  /\ Len(results) \in 1 .. Len(targets) /\ Len(preflight) = Len(targets)
           /\ Result \in ResultType /\ Result = results[Len(results)]
           /\ targets[Len(results)] \in TargetType
           /\ Result.store = targets[Len(results)].store /\ Result.store \in Store
           /\ Result.store = targets[Len(results)].expected
           /\ Result.before = preflight[Len(results)].rev
           /\ Result.before <= cp[Result.store].rev
  <1>1. Len(results) \in 1 .. Len(targets) /\ Len(preflight) = Len(targets)
    BY DEF IInv, Types, Phases
  <1>2. Result \in ResultType /\ targets[Len(results)] \in TargetType
    BY <1>1 DEF IInv, Types, Result
  <1>3. Result.store = targets[Len(results)].expected /\ Result.before = preflight[Len(results)].rev
    BY <1>1 DEF IInv, Answers, Result
  <1>4. /\ targets[Len(results)].store = targets[Len(results)].expected
        /\ preflight[Len(results)].rev <= cp[targets[Len(results)].store].rev
    BY <1>1 DEF IInv, Bound
  <1>5. targets[Len(results)].store \in Store
    BY <1>2 DEF TargetType
  <1> QED BY <1>1, <1>2, <1>3, <1>4, <1>5 DEF Result

\* A checkpoint that moves keeps its type and never goes back.
LEMMA AdvancesFacts ==
    ASSUME NEW from \in CheckpointType, NEW reached \in Advances(from)
    PROVE  reached \in CheckpointType /\ reached.rev >= from.rev
  BY DEF Advances, CheckpointType

\* Other processes move one checkpoint of a store forwards and nothing else.
LEMMA CheckpointMoves ==
    ASSUME IInv, NEW s \in Store, NEW c \in CheckpointType, c.rev >= cp[s].rev,
           cp' = [cp EXCEPT ![s] = c], UNCHANGED <<cache, token, callVars>>
    PROVE  IInv'
  <1> USE DEF callVars
  <1>1. Types'
    BY DEF IInv, Types
  <1>2. \A x \in Store : cp[x].rev \in Int /\ cp'[x].rev \in Int /\ cp[x].rev <= cp'[x].rev
    BY SMTT(30) DEF IInv, Types, CheckpointType
  <1>3. Phases' /\ Moved' /\ Answers' /\ ErrorTransfersNothing'
    BY DEF IInv, Phases, Moved, Answers, ErrorTransfersNothing
  <1>4. Bound'
    <2> SUFFICES ASSUME NEW i \in 1 .. Len(preflight)
                 PROVE  preflight[i].rev <= cp'[targets[i].store].rev
      BY DEF IInv, Bound
    <2>1. targets[i] \in TargetType /\ preflight[i] \in CheckpointType
      BY DEF IInv, Types, Phases
    <2>2. targets[i].store \in Store /\ preflight[i].rev \in Int
      BY <2>1 DEF TargetType, CheckpointType
    <2> QED BY SMTT(30), <2>2, <1>2 DEF IInv, Bound
  <1>5. \A i \in 1 .. Len(results) : results[i].store \in Store /\ results[i].before \in Int
    <2> TAKE i \in 1 .. Len(results)
    <2>1. i \in 1 .. Len(preflight) /\ targets[i] \in TargetType /\ results[i] \in ResultType
      BY SMTT(30) DEF IInv, Types, Phases
    <2> QED BY <2>1 DEF IInv, Answers, Bound, TargetType, ResultType
  <1>6. Covered'
    <2>1. ASSUME NEW i \in 1 .. Len(results), results[i].cached = "Invalidated"
          PROVE  results[i].before < cp'[results[i].store].rev
      <3>1. results[i].before < cp[results[i].store].rev
        BY Zenon, <2>1 DEF IInv, Covered
      <3>2. results[i].store \in Store /\ results[i].before \in Int
        BY <1>5
      <3> QED BY <3>1, <3>2, <1>2
    <2>2. ASSUME pc = "invalidate"
          PROVE  Result.before < cp'[Result.store].rev
      <3>1. Result.store \in Store /\ Result.before \in Int /\ Result.before < cp[Result.store].rev
        BY <2>2, ResultFacts DEF IInv, Covered, ResultType
      <3> QED BY SMTT(30), <3>1, <1>2
    <2> QED BY <2>1, <2>2 DEF IInv, Covered, Result
  <1> QED BY <1>1, <1>3, <1>4, <1>6 DEF IInv
\* The steps of other processes.
LEMMA ElsewhereHolds ==
    ASSUME IInv, NEW s \in Store, Bootstrap(s) \/ SyncElsewhere(s) \/ CacheProof(s)
    PROVE  IInv'
  <1>1. CASE Bootstrap(s)
    <2>1. [rev |-> 0, tip |-> 0] \in CheckpointType /\ 0 >= cp[s].rev
      BY <1>1 DEF Bootstrap, NoCheckpoint, CheckpointType
    <2> QED BY Zenon, <1>1, <2>1, CheckpointMoves DEF Bootstrap
  <1>2. CASE SyncElsewhere(s)
    <2>1. PICK reached \in Advances(cp[s]) : cp' = [cp EXCEPT ![s] = reached]
      BY Zenon, <1>2 DEF SyncElsewhere
    <2>2. cp[s] \in CheckpointType
      BY DEF IInv, Types
    <2>3. reached \in CheckpointType /\ reached.rev >= cp[s].rev
      BY <2>2, AdvancesFacts
    <2> QED BY Zenon, <1>2, <2>1, <2>3, CheckpointMoves DEF SyncElsewhere
  <1>3. CASE CacheProof(s)
    <2> USE <1>3 DEF CacheProof, callVars
    <2>1. Types' /\ Phases' /\ Bound' /\ Moved' /\ Answers' /\ ErrorTransfersNothing'
      BY DEF IInv, Types, Phases, Bound, Moved, Answers, ErrorTransfersNothing
    <2>2. ASSUME NEW i \in 1 .. Len(results), results[i].cached = "Invalidated"
          PROVE  <<results[i].store, results[i].before>> \notin cache'
      <3>1. /\ results[i].before < cp[results[i].store].rev
            /\ <<results[i].store, results[i].before>> \notin cache
        BY <2>2 DEF IInv, Covered
      <3>2. results[i] \in ResultType /\ cp[s] \in CheckpointType
        BY SMTT(30) DEF IInv, Types
      <3>3. <<results[i].store, results[i].before>> # <<s, cp[s].rev>>
        BY SMTT(30), <3>1, <3>2 DEF ResultType, CheckpointType
      <3> QED BY <3>1, <3>3
    <2>3. Covered'
      BY ZenonT(60), <2>2 DEF IInv, Covered, Result
    <2> QED BY ZenonT(60), <2>1, <2>3 DEF IInv
  <1> QED BY <1>1, <1>2, <1>3

\* A negotiation, a new call and an error of the preflight leave no results.
LEMMA FreshHolds ==
    ASSUME IInv, UNCHANGED cp, results' = <<>>, moves' = <<>>, pc' \in {"idle", "preflight"},
           targets' \in Seq(TargetType), preflight' = <<>>,
           pc' = "preflight" => Len(targets') > 0 /\ error' = "Ok",
           pc' = "idle" => error' # "Ok"
    PROVE  IInv'
  <1>1. Types' /\ Phases'
    BY SMTT(30) DEF IInv, Types, Phases
  <1> QED BY <1>1 DEF IInv, Bound, Moved, Answers, Covered, ErrorTransfersNothing

\* A new handshake, or a new call of sync_stores, starts with nothing compared or moved.
LEMMA StartHolds ==
    ASSUME IInv,
           \/ pc = "idle" /\ \E n \in Negotiations :
                 negotiate_handshake(n.store, n.expected, n.trusted, n.local, n.remote)
           \/ \E t \in Requests : sync_stores(t)
    PROVE  IInv'
  <1>1. CASE pc = "idle" /\ \E n \in Negotiations :
                 negotiate_handshake(n.store, n.expected, n.trusted, n.local, n.remote)
    BY <1>1, FreshHolds DEF negotiate_handshake
  <1>2. CASE \E t \in Requests : sync_stores(t)
    <2>1. PICK t \in Requests : sync_stores(t)
      BY <1>2
    <2>2. t \in Seq(TargetType)
      OBVIOUS
    <2>3. validate_target_shape(t) = "Ok" => Len(t) > 0
      BY <2>2 DEF validate_target_shape
    <2> QED BY <2>1, <2>2, <2>3, FreshHolds DEF sync_stores
  <1> QED BY SMTT(30), <1>1, <1>2

\* The preflight of a target adds the checkpoint that its handshake is bound to, or ends
\* the call with an error before anything has moved.
LEMMA PreflightHolds ==
    ASSUME IInv, PreflightPasses \/ PreflightFails \/ PreflightUnreadable
    PROVE  IInv'
  <1>1. pc = "preflight"
    BY DEF PreflightPasses, PreflightFails, PreflightUnreadable
  <1>2. /\ Len(preflight) \in Nat /\ Len(preflight) + 1 \in 1 .. Len(targets)
        /\ moves = <<>> /\ results = <<>> /\ error = "Ok"
    BY <1>1 DEF IInv, Types, Phases
  <1>3. Target \in TargetType /\ Target = targets[Len(preflight) + 1]
    BY <1>2 DEF IInv, Types, Target
  <1>4. Target.store \in Store /\ cp[Target.store] \in CheckpointType
    BY Zenon, <1>3 DEF IInv, Types, TargetType
  <1>5. CASE PreflightPasses
    <2> USE <1>5 DEF PreflightPasses
    <2>1. /\ cp[Target.store] = token[Target.token].bound /\ Target.store = Target.expected
      BY DEF PreflightError, Handshake
    <2>2. /\ preflight' \in Seq(CheckpointType) /\ Len(preflight') = Len(preflight) + 1
          /\ preflight'[Len(preflight) + 1] = cp[Target.store]
          /\ \A i \in 1 .. Len(preflight) : preflight'[i] = preflight[i]
      BY <1>4 DEF IInv, Types
    <2>3. Types' /\ Phases'
      BY SMTT(30), <1>1, <1>2, <2>2 DEF IInv, Types, Phases
    <2>4. Bound'
      <3> SUFFICES ASSUME NEW i \in 1 .. Len(preflight')
                   PROVE  /\ preflight'[i] = token[targets[i].token].bound
                          /\ targets[i].store = targets[i].expected
                          /\ preflight'[i].rev <= cp[targets[i].store].rev
        BY SMTT(30) DEF Bound
      <3>1. CASE i = Len(preflight) + 1
        BY SMTT(30), <3>1, <2>1, <2>2, <1>3, <1>4 DEF CheckpointType
      <3>2. CASE i # Len(preflight) + 1
        <4>1. i \in 1 .. Len(preflight)
          BY <3>2, <2>2, <1>2
        <4> QED BY <4>1, <2>2 DEF IInv, Bound
      <3> QED BY ZenonT(60), <3>1, <3>2
    <2>5. Moved' /\ Answers' /\ Covered' /\ ErrorTransfersNothing'
      BY <1>2 DEF Moved, Answers, Covered, ErrorTransfersNothing
    <2> QED BY Zenon, <2>3, <2>4, <2>5 DEF IInv
  <1>6. ASSUME NEW e, e # "Ok", Fail(e)
        PROVE  IInv'
    <2> USE <1>6 DEF Fail
    <2>1. Types' /\ Phases'
      BY ZenonT(60), <1>2 DEF IInv, Types, Phases
    <2>2. Bound' /\ Moved' /\ Answers' /\ Covered' /\ ErrorTransfersNothing'
      BY <1>2 DEF IInv, Bound, Moved, Answers, Covered, ErrorTransfersNothing
    <2> QED BY <2>1, <2>2 DEF IInv
  <1>7. CASE PreflightFails
    BY <1>6, <1>7 DEF PreflightFails
  <1>8. CASE PreflightUnreadable
    BY <1>6, <1>8 DEF PreflightUnreadable
  <1> QED BY <1>5, <1>7, <1>8

\* What Append does to a sequence of any type.
LEMMA AppendFacts ==
    ASSUME NEW T, NEW s \in Seq(T), NEW x \in T
    PROVE  /\ Append(s, x) \in Seq(T) /\ Len(Append(s, x)) = Len(s) + 1
           /\ Append(s, x)[Len(s) + 1] = x
           /\ \A i \in 1 .. Len(s) : Append(s, x)[i] = s[i]
  OBVIOUS

\* A target that is attempted: its checkpoint is where it was or ahead, and its result
\* is not yet complete.
LEMMA AttemptedHolds ==
    ASSUME IInv, pc = "transfer", NEW sync \in Outcomes, Attempted(sync),
           NEW c \in CheckpointType, c.rev >= cp[Now.store].rev,
           cp' = [cp EXCEPT ![Now.store] = c],
           \/ UNCHANGED moves
           \/ moves' = Append(moves, [turn |-> Turn, from |-> preflight[Turn]])
    PROVE  IInv'
  <1> DEFINE r == [store |-> Now.expected, before |-> preflight[Turn].rev, sync |-> sync,
                   after |-> NoCheckpoint.rev, cached |-> "none"]
  <1>0. /\ Turn \in 1 .. Len(targets) /\ Turn = Len(results) + 1 /\ Now = targets[Turn]
        /\ Now \in TargetType /\ preflight[Turn] \in CheckpointType
        /\ Now.store = Now.expected /\ Now.store \in Store
        /\ preflight[Turn] = token[Now.token].bound
        /\ preflight[Turn].rev <= cp[Now.store].rev
    BY TurnFacts
  <1>a. /\ results' = Append(results, r) /\ pc' = "observe"
        /\ UNCHANGED <<cache, token, targets, preflight, error>>
    BY DEF Attempted
  <1>1. r \in ResultType
    <2>1. Now.expected \in Nat /\ preflight[Turn].rev \in Int /\ NoCheckpoint.rev \in Int
      BY <1>0 DEF TargetType, CheckpointType, NoCheckpoint
    <2> QED BY ZenonT(60), <2>1 DEF ResultType, CacheOutcomes
  <1>2. /\ results' \in Seq(ResultType) /\ Len(results') = Len(results) + 1
        /\ results'[Len(results) + 1] = r
        /\ \A i \in 1 .. Len(results) : results'[i] = results[i]
    <2>1. results \in Seq(ResultType)
      BY DEF IInv, Types
    <2> HIDE DEF r
    <2> QED BY <1>1, <1>a, <2>1, AppendFacts
  <1> HIDE DEF r
  <1>3. /\ moves' \in Seq([turn : Nat, from : CheckpointType])
        /\ \A i \in 1 .. Len(moves') :
               \/ i \in 1 .. Len(moves) /\ moves'[i] = moves[i]
               \/ moves'[i] = [turn |-> Turn, from |-> preflight[Turn]]
    <2> DEFINE M == [turn : Nat, from : CheckpointType]
    <2> DEFINE m == [turn |-> Turn, from |-> preflight[Turn]]
    <2>1. moves \in Seq(M) /\ m \in M
      BY <1>0 DEF IInv, Types
    <2>2. CASE UNCHANGED moves
      BY <2>1, <2>2
    <2>3. CASE moves' = Append(moves, m)
      <3> HIDE DEF M, m
      <3>1. /\ moves' \in Seq(M) /\ Len(moves') = Len(moves) + 1 /\ moves'[Len(moves) + 1] = m
            /\ \A i \in 1 .. Len(moves) : moves'[i] = moves[i]
        BY <2>1, <2>3, AppendFacts
      <3> QED BY SMTT(30), <3>1, <2>1 DEF M, m
    <2> QED BY SMTT(30), <2>2, <2>3
  <1>4. Len(preflight) = Len(targets) /\ error = "Ok" /\ Len(results) \in Nat
    BY SMTT(30) DEF IInv, Types, Phases
  <1>5. \A x \in Store : cp[x].rev \in Int /\ cp'[x].rev \in Int /\ cp[x].rev <= cp'[x].rev
    <2> TAKE x \in Store
    <2>1. cp \in [Store -> CheckpointType] /\ cp' \in [Store -> CheckpointType]
      BY Zenon, <1>0 DEF IInv, Types
    <2>2. cp[x] \in CheckpointType /\ cp'[x] \in CheckpointType
      BY Zenon, <2>1
    <2>3. cp[x].rev \in Int /\ cp'[x].rev \in Int
      BY Zenon, <2>2 DEF CheckpointType
    <2>4. cp[x].rev <= cp'[x].rev
      BY SMTT(30), <1>0, <2>3
    <2> QED BY Zenon, <2>3, <2>4
  <1>6. Types'
    <2>1. cp' \in [Store -> CheckpointType]
      BY SMTT(30), <1>0 DEF IInv, Types
    <2> QED BY <1>a, <1>2, <1>3, <2>1 DEF IInv, Types
  <1>7. Phases'
    BY SMTT(30), <1>0, <1>a, <1>2, <1>4 DEF IInv, Phases
  <1>8. Bound'
    <2> SUFFICES ASSUME NEW i \in 1 .. Len(preflight)
                 PROVE  preflight[i].rev <= cp'[targets[i].store].rev
      BY Zenon, <1>a DEF IInv, Bound
    <2>1. targets[i] \in TargetType /\ preflight[i] \in CheckpointType
      BY DEF IInv, Types, Phases
    <2>2. targets[i].store \in Store /\ preflight[i].rev \in Int
      BY Zenon, <2>1 DEF TargetType, CheckpointType
    <2>3. preflight[i].rev <= cp[targets[i].store].rev
      BY Zenon DEF IInv, Bound
    <2>4. /\ cp[targets[i].store].rev \in Int /\ cp'[targets[i].store].rev \in Int
          /\ cp[targets[i].store].rev <= cp'[targets[i].store].rev
      BY Zenon, <2>2, <1>5
    <2> QED BY SMTT(30), <2>2, <2>3, <2>4
  <1>9. Moved'
    <2> SUFFICES ASSUME NEW i \in 1 .. Len(moves')
                 PROVE  moves'[i].turn \in 1 .. Len(preflight) /\ moves'[i].from = preflight[moves'[i].turn]
      BY Zenon, <1>a DEF Moved
    <2>1. CASE i \in 1 .. Len(moves) /\ moves'[i] = moves[i]
      BY Zenon, <2>1 DEF IInv, Moved
    <2>2. CASE moves'[i] = [turn |-> Turn, from |-> preflight[Turn]]
      BY SMTT(30), <2>2, <1>0, <1>4
    <2> QED BY Zenon, <1>3, <2>1, <2>2
  <1>10. Answers'
    <2> SUFFICES ASSUME NEW i \in 1 .. Len(results')
                 PROVE  results'[i].store = targets[i].expected /\ results'[i].before = preflight[i].rev
      BY SMTT(30), <1>a DEF Answers
    <2>1. CASE i = Len(results) + 1
      BY SMTT(30), <2>1, <1>0, <1>2, <1>4 DEF r
    <2>2. CASE i # Len(results) + 1
      <3>1. i \in 1 .. Len(results)
        BY <2>2, <1>2, <1>4
      <3> QED BY <3>1, <1>2 DEF IInv, Answers
    <2> QED BY Zenon, <2>1, <2>2
  <1>11. Covered'
    <2>1. ASSUME NEW i \in 1 .. Len(results')
          PROVE  /\ results'[i].cached \in CacheOutcomes
                 /\ results'[i].cached = "Unchanged" => results'[i].after = results'[i].before
                 /\ results'[i].cached = "Invalidated" =>
                        /\ results'[i].before < cp'[results'[i].store].rev
                        /\ <<results'[i].store, results'[i].before>> \notin cache
      <3>1. CASE i = Len(results) + 1
        BY SMTT(30), <3>1, <1>2 DEF r, CacheOutcomes
      <3>2. CASE i # Len(results) + 1
        <4>1. i \in 1 .. Len(results)
          BY <3>2, <1>2, <1>4
        <4>2. i \in 1 .. Len(preflight) /\ targets[i] \in TargetType /\ results[i] \in ResultType
          BY SMTT(30), <4>1, <1>4 DEF IInv, Types, Phases
        <4>3. results[i].store \in Store /\ results[i].before \in Int
          BY SMTT(30), <4>1, <4>2 DEF IInv, Answers, Bound, TargetType, ResultType
        <4>4. /\ results[i].cached \in CacheOutcomes
              /\ results[i].cached = "Unchanged" => results[i].after = results[i].before
              /\ results[i].cached = "Invalidated" =>
                    /\ results[i].before < cp[results[i].store].rev
                    /\ <<results[i].store, results[i].before>> \notin cache
          BY <4>1 DEF IInv, Covered
        <4>5. cp[results[i].store].rev <= cp'[results[i].store].rev
              /\ cp[results[i].store].rev \in Int /\ cp'[results[i].store].rev \in Int
          BY ZenonT(60), <4>3, <1>5
        <4>6. results'[i] = results[i]
          BY <4>1, <1>2
        <4>7. \A x, y, z \in Int : x < y /\ y <= z => x < z
          OBVIOUS
        <4>8. results[i].before < cp[results[i].store].rev => results[i].before < cp'[results[i].store].rev
          BY Zenon, <4>3, <4>5, <4>7
        <4> QED BY Zenon, <4>4, <4>6, <4>8
      <3> QED BY Zenon, <3>1, <3>2
    <2> QED BY Zenon, <2>1, <1>a DEF Covered
  <1>12. ErrorTransfersNothing'
    BY <1>4, <1>a DEF ErrorTransfersNothing
  <1> QED BY SMTT(30), <1>6, <1>7, <1>8, <1>9, <1>10, <1>11, <1>12 DEF IInv

\* A transfer starts from the checkpoint that the preflight compared, or is refused.
LEMMA TransferHolds ==
    ASSUME IInv, TransferRefused \/ sync_git_union_locked
    PROVE  IInv'
  <1>1. pc = "transfer"
    BY DEF TransferRefused, sync_git_union_locked
  <1>2. Now.store \in Store /\ cp[Now.store] \in CheckpointType /\ cp[Now.store].rev \in Int
    BY Zenon, <1>1, TurnFacts DEF IInv, Types, CheckpointType
  <1>3. CASE TransferRefused
    <2>1. Authorized(Now) \in Outcomes
      BY <1>3 DEF Authorized, Outcomes, TransferRefused
    <2>2. cp' = [cp EXCEPT ![Now.store] = cp[Now.store]]
      BY <1>2, <1>3 DEF IInv, Types, TransferRefused
    <2>3. Attempted(Authorized(Now)) /\ UNCHANGED moves /\ cp[Now.store].rev >= cp[Now.store].rev
      BY <1>2, <1>3 DEF TransferRefused
    <2> HIDE DEF Attempted
    <2> QED BY ZenonT(60), <1>1, <1>2, <2>1, <2>2, <2>3, AttemptedHolds
  <1>4. ASSUME NEW outcome \in Outcomes, NEW c \in CheckpointType, c.rev >= cp[Now.store].rev,
               Transfer(outcome, c)
        PROVE  IInv'
    <2>1. preflight[Turn] = cp[Now.store]
      BY ZenonT(60), <1>1, <1>4, TurnFacts DEF Transfer, Authorized, Handshake
    <2> QED BY ZenonT(60), <1>1, <1>4, <2>1, AttemptedHolds DEF Transfer
  <1>5. CASE sync_git_union_locked
    <2>1. CASE \E outcome \in {"Advanced", "error"}, reached \in Advances(cp[Now.store]) :
                   Transfer(outcome, reached)
      <3>1. PICK outcome \in {"Advanced", "error"}, reached \in Advances(cp[Now.store]) :
                   Transfer(outcome, reached)
        BY <2>1
      <3>2. reached \in CheckpointType /\ reached.rev >= cp[Now.store].rev
        BY <1>2, AdvancesFacts
      <3>3. outcome \in Outcomes
        BY DEF Outcomes
      <3> QED BY <3>1, <3>2, <3>3, <1>4
    <2>2. CASE \E outcome \in {"UpToDate", "error", "Quarantined"} : Transfer(outcome, cp[Now.store])
      <3>1. PICK outcome \in {"UpToDate", "error", "Quarantined"} : Transfer(outcome, cp[Now.store])
        BY <2>2
      <3>2. outcome \in Outcomes /\ cp[Now.store].rev >= cp[Now.store].rev
        BY SMTT(30), <1>2 DEF Outcomes
      <3> QED BY <3>1, <3>2, <1>2, <1>4
    <2> QED BY <1>5, <2>1, <2>2 DEF sync_git_union_locked
  <1> QED BY Zenon, <1>3, <1>5

\* The checkpoint after a target and what became of the cache: Recorded completes the
\* last result, and the call goes on to the next target, or to the cache, or returns.
LEMMA RecordedHolds ==
    ASSUME IInv, pc \in {"observe", "invalidate"},
           NEW after \in Int, NEW cached \in CacheOutcomes, Recorded(after, cached),
           \/ NextTarget
           \/ pc' = "invalidate" /\ Result.before < cp[Result.store].rev,
           cached = "Unchanged" => after = Result.before,
           cached = "Invalidated" => /\ Result.before < cp[Result.store].rev
                                     /\ <<Result.store, Result.before>> \notin cache',
           cache' \subseteq cache,
           UNCHANGED <<cp, token, targets, preflight, moves, error>>
    PROVE  IInv'
  <1> DEFINE n == Len(results)
  <1> DEFINE r == [Result EXCEPT !.after = after, !.cached = cached]
  <1>0. /\ n \in 1 .. Len(targets) /\ Len(preflight) = Len(targets) /\ error = "Ok"
        /\ Result \in ResultType /\ Result = results[n] /\ results \in Seq(ResultType)
    BY ResultFacts DEF IInv, Phases, Types
  <1>1. /\ r \in ResultType /\ r.store = Result.store /\ r.before = Result.before
        /\ r.after = after /\ r.cached = cached
    BY Zenon, <1>0 DEF ResultType
  <1>2. results' = [results EXCEPT ![n] = r]
    BY Zenon DEF Recorded, Result
  <1> HIDE DEF r
  <1>3. /\ results' \in Seq(ResultType) /\ Len(results') = n /\ results'[n] = r
        /\ \A i \in 1 .. n : i # n => results'[i] = results[i]
    BY SMTT(30), <1>0, <1>1, <1>2
  <1>4. Types'
    BY <1>3 DEF IInv, Types
  <1>5. Phases'
    <2>1. n \in Nat /\ Len(targets) \in Nat /\ n <= Len(targets) /\ n > 0
      BY SMTT(30), <1>0 DEF IInv, Types
    <2>2. CASE NextTarget
      BY SMTT(30), <2>1, <2>2, <1>0, <1>3 DEF NextTarget, Phases
    <2>3. CASE pc' = "invalidate"
      BY SMTT(30), <2>1, <2>3, <1>0, <1>3 DEF Phases
    <2> QED BY Zenon, <2>2, <2>3
  <1>6. Bound' /\ Moved' /\ ErrorTransfersNothing'
    BY Zenon DEF IInv, Bound, Moved, ErrorTransfersNothing
  <1>7. Answers'
    <2> SUFFICES ASSUME NEW i \in 1 .. n
                 PROVE  results'[i].store = targets[i].expected /\ results'[i].before = preflight[i].rev
      BY Zenon, <1>3 DEF Answers
    <2>1. results'[i].store = results[i].store /\ results'[i].before = results[i].before
      BY Zenon, <1>0, <1>1, <1>3
    <2> QED BY Zenon, <2>1 DEF IInv, Answers
  <1>8. ASSUME NEW i \in 1 .. n
        PROVE  /\ results'[i].cached \in CacheOutcomes
               /\ results'[i].cached = "Unchanged" => results'[i].after = results'[i].before
               /\ results'[i].cached = "Invalidated" =>
                      /\ results'[i].before < cp'[results'[i].store].rev
                      /\ <<results'[i].store, results'[i].before>> \notin cache'
    <2>1. CASE i = n
      BY Zenon, <2>1, <1>1, <1>3
    <2>2. CASE i # n
      <3>1. results'[i] = results[i]
        BY Zenon, <2>2, <1>3
      <3>2. /\ results[i].cached \in CacheOutcomes
            /\ results[i].cached = "Unchanged" => results[i].after = results[i].before
            /\ results[i].cached = "Invalidated" =>
                  /\ results[i].before < cp[results[i].store].rev
                  /\ <<results[i].store, results[i].before>> \notin cache
        BY Zenon DEF IInv, Covered
      <3> QED BY Zenon, <3>1, <3>2
    <2> QED BY Zenon, <2>1, <2>2
  <1>9. pc' = "invalidate" => Result'.before < cp'[Result'.store].rev
    <2>1. Result' = r
      BY Zenon, <1>3 DEF Result
    <2>2. pc' = "invalidate" => Result.before < cp[Result.store].rev
      BY ZenonT(60) DEF NextTarget
    <2> QED BY Zenon, <2>1, <2>2, <1>1
  <1>10. Covered'
    BY Zenon, <1>3, <1>8, <1>9 DEF Covered
  <1> QED BY Zenon, <1>4, <1>5, <1>6, <1>7, <1>10 DEF IInv

\* The observation after a transfer, and the invalidation of the cache, complete its result.
LEMMA ObserveHolds ==
    ASSUME IInv, observe_checkpoint \/ ObservationFails \/ invalidate_store \/ CacheUnavailable
    PROVE  IInv'
  <1>1. pc \in {"observe", "invalidate"}
    BY Zenon DEF observe_checkpoint, ObservationFails, invalidate_store, CacheUnavailable
  <1>2. /\ targets[Len(results)].store = Result.store /\ Result.store \in Store
        /\ Result.before <= cp[Result.store].rev /\ cp[Result.store] \in CheckpointType
        /\ Result \in ResultType
    BY Zenon, <1>1, ResultFacts DEF IInv, Types
  <1>3. Result.before \in Int /\ Result.after \in Int /\ cp[Result.store].rev \in Int
    BY <1>2 DEF ResultType, CheckpointType
  <1>4. {"none", "Unchanged", "Invalidated", "Unavailable"} \subseteq CacheOutcomes /\ NoCheckpoint.rev \in Int
    BY DEF CacheOutcomes, NoCheckpoint
  <1>5. CASE observe_checkpoint
    <2> DEFINE after == cp[Result.store].rev
    <2>0. UNCHANGED <<cp, cache, token, targets, preflight, moves, error>> /\ cache' \subseteq cache
      BY Zenon, <1>5 DEF observe_checkpoint
    <2>1. \/ after = Result.before /\ Recorded(after, "Unchanged") /\ NextTarget
          \/ after # Result.before /\ Recorded(after, "none") /\ pc' = "invalidate"
      BY Zenon, <1>2, <1>5 DEF observe_checkpoint
    <2>2. CASE after = Result.before /\ Recorded(after, "Unchanged") /\ NextTarget
      BY Zenon, <2>0, <2>2, <1>1, <1>3, <1>4, RecordedHolds
    <2>3. CASE after # Result.before /\ Recorded(after, "none") /\ pc' = "invalidate"
      <3>1. Result.before < cp[Result.store].rev
        BY SMTT(30), <2>3, <1>2, <1>3
      <3> QED BY Zenon, <2>0, <2>3, <3>1, <1>1, <1>3, <1>4, RecordedHolds
    <2> QED BY Zenon, <2>1, <2>2, <2>3
  <1>6. CASE ObservationFails
    BY Zenon, <1>1, <1>4, <1>6, RecordedHolds DEF ObservationFails
  <1>7. CASE invalidate_store
    <2>1. Result.before < cp[Result.store].rev
      BY <1>7 DEF IInv, Covered, invalidate_store
    <2>2. cache' \subseteq cache /\ <<Result.store, Result.before>> \notin cache'
      BY Zenon, <1>7 DEF invalidate_store
    <2> QED BY Zenon, <1>1, <1>3, <1>4, <1>7, <2>1, <2>2, RecordedHolds DEF invalidate_store
  <1>8. CASE CacheUnavailable
    BY <1>1, <1>3, <1>4, <1>8, RecordedHolds DEF CacheUnavailable
  <1> QED BY SMTT(30), <1>5, <1>6, <1>7, <1>8

\* Every step keeps the invariant.
LEMMA NextHolds == IInv /\ [Next]_vars => IInv'
  <1> SUFFICES ASSUME IInv, [Next]_vars PROVE IInv'
    OBVIOUS
  <1>1. CASE Next
    BY SMTT(30), <1>1, ElsewhereHolds, StartHolds, PreflightHolds, TransferHolds, ObserveHolds DEF Next
  <1>2. CASE UNCHANGED vars
    <2>1. /\ cp' = cp /\ cache' = cache /\ pc' = pc /\ targets' = targets /\ preflight' = preflight
          /\ moves' = moves /\ results' = results /\ error' = error /\ token' = token
      BY <1>2 DEF vars
    <2>2. Types' /\ Answers'
      BY Zenon, <2>1 DEF IInv, Types, Answers
    <2>3. Phases' /\ ErrorTransfersNothing'
      BY Zenon, <2>1 DEF IInv, Phases, ErrorTransfersNothing
    <2>4. Bound'
      BY Zenon, <2>1 DEF IInv, Bound
    <2>7. Moved'
      BY Zenon, <2>1 DEF IInv, Moved
    <2>5. Result' = Result
      BY Zenon, <2>1 DEF Result
    <2>6. Covered'
      BY Zenon, <2>1, <2>5 DEF IInv, Covered
    <2> QED BY Zenon, <2>2, <2>3, <2>4, <2>6, <2>7 DEF IInv
  <1> QED BY <1>1, <1>2

\* The invariant: types, how far the call has come, and for every target the relation of
\* its preflight, its transfer, its result and the proof cache.
THEOREM MultiSyncInvariant == Spec => []IInv
  <1> QED BY InitHolds, NextHolds, PTL DEF Spec

\* sync_stores releases each store's lock after its preflight, yet starts every transfer
\* from the checkpoint that the preflight compared: the comparison under the transfer's
\* lock refuses a handshake that went stale in between.
THEOREM TransfersAreAuthorised == Spec => []TransfersFromPreflight
  <1>1. IInv => TransfersFromPreflight
    BY DEF IInv, Moved, TransfersFromPreflight
  <1> QED BY <1>1, MultiSyncInvariant, PTL

\* A call of sync_stores that returns an error has transferred nothing: all targets pass
\* the preflight before any is transferred.
THEOREM ErrorsTransferNothing == Spec => []ErrorTransfersNothing
  <1>1. IInv => ErrorTransfersNothing
    BY DEF IInv
  <1> QED BY <1>1, MultiSyncInvariant, PTL

\* sync_stores answers for every target in the order of its argument, although each of
\* them may fail on its own.
THEOREM TargetsAreAnswered == Spec => []EveryTargetAnswered
  <1>1. IInv => EveryTargetAnswered
    <2> SUFFICES ASSUME IInv, pc = "idle", error = "Ok"
                 PROVE  [i \in 1 .. Len(results) |-> results[i].store]
                            = [i \in 1 .. Len(targets) |-> targets[i].expected]
      BY DEF EveryTargetAnswered
    <2>1. Len(results) = Len(targets)
      BY DEF IInv, Phases
    <2>2. \A i \in 1 .. Len(results) : results[i].store = targets[i].expected
      BY Zenon DEF IInv, Answers
    <2> QED BY <2>1, <2>2
  <1> QED BY <1>1, MultiSyncInvariant, PTL

\* What a result says of the proof cache stays true while other processes cache proofs:
\* a checkpoint's revision never returns to the one before a move.
THEOREM CacheIsCovered == Spec => []CacheCoversMoves
  <1>1. IInv => CacheCoversMoves
    BY DEF IInv, Covered, CacheCoversMoves
  <1> QED BY <1>1, MultiSyncInvariant, PTL

---------------------------------------------------------------------------
(* Handshakes *)

\* A handshake that negotiate_handshake makes is mutual.
LEMMA NegotiationHolds ==
    ASSUME NEW n \in Negotiations,
           negotiate_handshake(n.store, n.expected, n.trusted, n.local, n.remote)
    PROVE  NegotiatedMutual'
  <1> DEFINE l == n.local
             r == n.remote
             made == [store |-> n.store, bound |-> cp[n.store],
                      capabilities |-> Intersection(l.supCaps, r.supCaps),
                      projections |-> Intersection(l.supProj, r.supProj)]
             verdict == Verdict(n.store, n.expected, n.trusted, l, r)
  <1>1. /\ l.reqCaps \in Seq(Nat) /\ l.reqProj \in Seq(Nat) /\ l.supCaps \in Seq(Nat) /\ l.supProj \in Seq(Nat)
        /\ r.reqCaps \in Seq(Nat) /\ r.reqProj \in Seq(Nat) /\ r.supCaps \in Seq(Nat) /\ r.supProj \in Seq(Nat)
    BY SidesAssumption, Zenon
  <1>2. /\ StrictlySorted(l.supCaps) /\ StrictlySorted(l.supProj)
        /\ StrictlySorted(r.supCaps) /\ StrictlySorted(r.supProj)
        /\ Range(l.reqCaps) \subseteq Known /\ Range(l.reqProj) \subseteq Known
    <2>1. ValidRequirements(l) /\ validate_offer_sets(r)
      BY Zenon DEF negotiate_handshake
    <2>2. \A s : validate_set(s) = "Ok" => StrictlySorted(s)
      BY Zenon DEF validate_set
    <2> QED BY <2>1, <2>2, Zenon DEF ValidRequirements, validate_offer_sets, Lists
  <1>3. CASE verdict # "Ok"
    <2>1. neg' = NoNegotiation
      BY <1>3, Zenon DEF negotiate_handshake
    <2> QED BY <2>1 DEF NoNegotiation, NegotiatedMutual
  <1>4. CASE verdict = "Ok"
    <2>1. neg' = [result |-> "Ok", local |-> l, remote |-> r, made |-> made]
      BY <1>4, ZenonT(60) DEF negotiate_handshake
    <2>2. /\ Range(r.reqCaps) \subseteq Known /\ Range(r.reqProj) \subseteq Known
          /\ Subset(l.reqCaps, r.supCaps) /\ Subset(r.reqCaps, l.supCaps)
          /\ Subset(l.reqProj, r.supProj) /\ Subset(r.reqProj, l.supProj)
      BY Zenon, <1>4 DEF Verdict
    <2> HIDE DEF l, r, verdict
    <2>3. /\ Range(l.reqCaps) \subseteq Range(r.supCaps) /\ Range(r.reqCaps) \subseteq Range(l.supCaps)
          /\ Range(l.reqProj) \subseteq Range(r.supProj) /\ Range(r.reqProj) \subseteq Range(l.supProj)
      BY <1>1, <1>2, <2>2, SubsetIsExact, ZenonT(60)
    <2>4. /\ neg'.local = l /\ neg'.remote = r
          /\ neg'.made.capabilities = Intersection(l.supCaps, r.supCaps)
          /\ neg'.made.projections = Intersection(l.supProj, r.supProj)
      BY Zenon, <2>1
    <2>5. /\ StrictlySorted(Intersection(l.supCaps, r.supCaps))
          /\ Range(Intersection(l.supCaps, r.supCaps)) = Range(l.supCaps) \intersect Range(r.supCaps)
      BY <1>1, <1>2, MergeIsExact, Zenon
    <2>6. /\ StrictlySorted(Intersection(l.supProj, r.supProj))
          /\ Range(Intersection(l.supProj, r.supProj)) = Range(l.supProj) \intersect Range(r.supProj)
      BY <1>1, <1>2, MergeIsExact, Zenon
    <2> QED BY <1>2, <2>2, <2>3, <2>4, <2>5, <2>6, Zenon DEF NegotiatedMutual
  <1> QED BY <1>3, <1>4, Zenon

\* Every handshake that negotiate_handshake makes is mutual: what a side requires, the
\* other supports, and it holds exactly what both support.
THEOREM HandshakesAreMutual == Spec => []NegotiatedMutual
  <1>1. Init => NegotiatedMutual
    BY DEF Init, NoNegotiation, NegotiatedMutual
  <1>2. NegotiatedMutual /\ [Next]_vars => NegotiatedMutual'
    <2> SUFFICES ASSUME NegotiatedMutual, [Next]_vars PROVE NegotiatedMutual'
      OBVIOUS
    <2>1. CASE UNCHANGED neg
      BY <2>1, ZenonT(60) DEF NegotiatedMutual
    <2>2. CASE neg' = NoNegotiation
      BY <2>2 DEF NoNegotiation, NegotiatedMutual
    <2>3. CASE UNCHANGED vars
      BY <2>1, <2>3, Zenon DEF vars
    <2>4. CASE \E s \in Store : Bootstrap(s) \/ SyncElsewhere(s) \/ CacheProof(s)
      BY <2>2, <2>4, Zenon DEF Bootstrap, SyncElsewhere, CacheProof
    <2>5. CASE \E t \in Requests : sync_stores(t)
      BY <2>2, <2>5, Zenon DEF sync_stores
    <2>6. CASE PreflightPasses \/ PreflightFails \/ PreflightUnreadable
      BY <2>1, <2>6, Zenon DEF PreflightPasses, PreflightFails, PreflightUnreadable, Fail
    <2>7. CASE TransferRefused \/ sync_git_union_locked
      BY <2>1, <2>7, Zenon DEF TransferRefused, sync_git_union_locked, Transfer, Attempted
    <2>8. CASE observe_checkpoint \/ ObservationFails \/ invalidate_store \/ CacheUnavailable
      BY <2>1, <2>8, Zenon DEF observe_checkpoint, ObservationFails, invalidate_store, CacheUnavailable
    <2> QED BY <2>3, <2>4, <2>5, <2>6, <2>7, <2>8, NegotiationHolds, Zenon DEF Next
  <1> QED BY <1>1, <1>2, PTL DEF Spec
=============================================================================
