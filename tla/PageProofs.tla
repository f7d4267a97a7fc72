----------------------------- MODULE PageProofs -----------------------------
(***************************************************************************)
(* Proofs about what becomes of a fetched page.  PageScan: the links and   *)
(* the contacts the crawl takes from it, for every page of any size,       *)
(* whatever its elements.  ContactStore: what is stored of the contacts,   *)
(* for every set of pages, whatever contacts they list, on both databases. *)
(***************************************************************************)
EXTENDS ContactStore, PageScan, Recursion, SequenceTheorems

-----------------------------------------------------------------------------
(***************************************************************************)
(* Orders: InOrder and Keep of Url, which go by rank.                      *)
(***************************************************************************)

\* R, which maps an element of S to those after it, puts S in one order.
IsOrder(R, S) ==
  /\ \A i \in S : i \notin R[i]
  /\ \A i, k \in S : i = k \/ k \in R[i] \/ i \in R[k]
  /\ \A i, k, m \in S : k \in R[i] /\ m \in R[k] => m \in R[i]

\* The order of numbers in this form.
NumberOrder(S) == [i \in S |-> {k \in S : i < k}]

\* How many elements of S come before i.
Rank(S, R, i) == Cardinality({k \in S : i \in R[k]})

\* order lists the elements of S, each once, as R puts them.
IsListing(order, S, R) ==
  /\ order \in [1 .. Cardinality(S) -> S]
  /\ \A i \in S : \E n \in 1 .. Cardinality(S) : order[n] = i
  /\ \A m, n \in 1 .. Cardinality(S) : m < n <=> order[n] \in R[order[m]]

\* What comes later has the greater rank, and ranks are below the size of S.
LEMMA RankGrows ==
  ASSUME NEW S, IsFiniteSet(S), NEW R, IsOrder(R, S), NEW i \in S
  PROVE  /\ Rank(S, R, i) \in Nat /\ Rank(S, R, i) < Cardinality(S)
         /\ \A k \in S : k \in R[i] => Rank(S, R, i) < Rank(S, R, k)
<1> DEFINE Below(x) == {k \in S : x \in R[k]}
<1>1. \A x \in S : /\ Below(x) \in SUBSET S /\ IsFiniteSet(Below(x))
                   /\ Cardinality(Below(x)) \in Nat
  <2> SUFFICES ASSUME NEW x \in S
               PROVE  /\ Below(x) \in SUBSET S /\ IsFiniteSet(Below(x))
                      /\ Cardinality(Below(x)) \in Nat
    OBVIOUS
  <2>1. Below(x) \in SUBSET S
    OBVIOUS
  <2>2. IsFiniteSet(Below(x))
    BY <2>1, FS_Subset
  <2>3. QED
    BY <2>1, <2>2, FS_CardinalityType
<1>2. \A T, U : IsFiniteSet(U) /\ T \subseteq U /\ T # U =>
                  Cardinality(T) < Cardinality(U)
  <2> SUFFICES ASSUME NEW T, NEW U, IsFiniteSet(U), T \subseteq U, T # U
               PROVE  Cardinality(T) < Cardinality(U)
    OBVIOUS
  <2>1. /\ IsFiniteSet(T) /\ Cardinality(T) <= Cardinality(U)
        /\ Cardinality(U) # Cardinality(T)
    BY FS_Subset
  <2>2. Cardinality(T) \in Nat /\ Cardinality(U) \in Nat
    BY <2>1, FS_CardinalityType
  <2>3. QED
    BY <2>1, <2>2
<1>3. i \notin Below(i)
  BY DEF IsOrder
<1>4. Cardinality(Below(i)) < Cardinality(S)
  BY <1>1, <1>2, <1>3
<1>5. ASSUME NEW k \in S, k \in R[i]
      PROVE  Cardinality(Below(i)) < Cardinality(Below(k))
  <2>1. Below(i) \subseteq Below(k) /\ i \in Below(k)
    BY <1>5 DEF IsOrder
  <2>2. QED
    BY <1>1, <1>2, <1>3, <2>1
<1>6. QED
  BY <1>1, <1>4, <1>5 DEF Rank

\* To choose by rank is to list in order.
LEMMA Ranking ==
  ASSUME NEW S, IsFiniteSet(S), NEW R, IsOrder(R, S), NEW order,
         order = [n \in 1 .. Cardinality(S) |-> order[n]],
         \A n \in 1 .. Cardinality(S), i \in S :
           Rank(S, R, i) = n - 1 =>
             order[n] \in S /\ Rank(S, R, order[n]) = n - 1
  PROVE  IsListing(order, S, R)
<1> DEFINE c == Cardinality(S)
           place == [i \in S |-> Rank(S, R, i) + 1]
<1>1. c \in Nat
  BY FS_CardinalityType
<1>2. \A i \in S : /\ Rank(S, R, i) \in Nat /\ Rank(S, R, i) < c
                   /\ \A k \in S : k \in R[i] =>
                                     Rank(S, R, i) < Rank(S, R, k)
  BY RankGrows
<1>3. \A i, k \in S : Rank(S, R, i) = Rank(S, R, k) => i = k
  <2> SUFFICES ASSUME NEW i \in S, NEW k \in S, i # k
               PROVE  Rank(S, R, i) # Rank(S, R, k)
    OBVIOUS
  <2>1. k \in R[i] \/ i \in R[k]
    BY DEF IsOrder
  <2>2. Rank(S, R, i) < Rank(S, R, k) \/ Rank(S, R, k) < Rank(S, R, i)
    BY <1>2, <2>1
  <2>3. QED
    BY <1>2, <2>2
<1>4. place \in Injection(S, 1 .. c)
  <2>1. place \in [S -> 1 .. c]
    BY <1>1, <1>2
  <2>2. \A i, k \in S : place[i] = place[k] => i = k
    BY <1>2, <1>3
  <2>3. QED
    BY <2>1, <2>2 DEF Injection, IsInjective
<1>5. IsFiniteSet(1 .. c) /\ Cardinality(1 .. c) = c
  BY <1>1, FS_Interval
<1>6. place \in Surjection(S, 1 .. c)
  BY <1>4, <1>5, FS_Injection
<1>7. \A n \in 1 .. c : \E i \in S : Rank(S, R, i) = n - 1
  <2> SUFFICES ASSUME NEW n \in 1 .. c PROVE \E i \in S : Rank(S, R, i) = n - 1
    OBVIOUS
  <2>1. PICK i \in S : place[i] = n
    BY <1>6 DEF Surjection
  <2>2. QED
    BY <1>2, <2>1
<1>8. \A n \in 1 .. c : order[n] \in S /\ Rank(S, R, order[n]) = n - 1
  BY <1>7
<1>9. \A i \in S : \E n \in 1 .. c : order[n] = i
  <2> SUFFICES ASSUME NEW i \in S PROVE \E n \in 1 .. c : order[n] = i
    OBVIOUS
  <2>1. Rank(S, R, i) + 1 \in 1 .. c /\ Rank(S, R, i) \in Nat
    BY <1>1, <1>2
  <2>2. order[Rank(S, R, i) + 1] = i
    BY <1>3, <1>8, <2>1
  <2>3. QED
    BY <2>1, <2>2
<1>10. \A m, n \in 1 .. c : m < n <=> order[n] \in R[order[m]]
  <2> SUFFICES ASSUME NEW m \in 1 .. c, NEW n \in 1 .. c
               PROVE  m < n <=> order[n] \in R[order[m]]
    OBVIOUS
  <2>1. /\ order[m] \in S /\ Rank(S, R, order[m]) = m - 1
        /\ order[n] \in S /\ Rank(S, R, order[n]) = n - 1
    BY <1>8
  <2>2. order[n] \in R[order[m]] => m < n
    BY <1>2, <2>1
  <2>3. order[m] \in R[order[n]] => n < m
    BY <1>2, <2>1
  <2>4. order[m] = order[n] => m = n
    BY <2>1
  <2>5. QED
    BY <2>1, <2>2, <2>3, <2>4 DEF IsOrder
<1>11. order \in [1 .. c -> S]
  BY <1>8
<1>12. QED
  BY <1>9, <1>10, <1>11 DEF IsListing

\* seq lists what stands at the places in S of another sequence, in its order.
Selects(kept, seq, S) ==
  \E f \in [DOMAIN kept -> S] :
    /\ \A n \in DOMAIN kept : kept[n] = seq[f[n]]
    /\ \A i \in S : \E n \in DOMAIN kept : f[n] = i
    /\ \A m, n \in DOMAIN kept : m < n <=> f[m] < f[n]

\* Numbers are in order by themselves.
LEMMA InNumberOrder ==
  ASSUME NEW S \in SUBSET Int, IsFiniteSet(S)
  PROVE  IsListing(InOrder(S, <), S, NumberOrder(S))
<1> DEFINE R == NumberOrder(S)
           order == InOrder(S, <)
<1>1. \A i, k \in S : k \in R[i] <=> i < k
  BY DEF NumberOrder
<1> HIDE DEF R
<1>2. IsOrder(R, S)
  <2>1. \A i \in S : ~(i < i)
    OBVIOUS
  <2>2. \A i, k \in S : i = k \/ i < k \/ k < i
    OBVIOUS
  <2>3. \A i, k, m \in S : i < k /\ k < m => i < m
    OBVIOUS
  <2>4. \A i, k, m \in S : k \in R[i] /\ m \in R[k] => m \in R[i]
    BY <1>1, <2>3
  <2>5. QED
    BY <1>1, <2>1, <2>2, <2>4 DEF IsOrder
<1>3. \A i \in S : {k \in S : k < i} = {k \in S : i \in R[k]}
  BY <1>1
<1>4. \A i \in S : Cardinality({k \in S : k < i}) = Rank(S, R, i)
  BY <1>3 DEF Rank
<1>5. order = [n \in 1 .. Cardinality(S) |->
                 CHOOSE i \in S : Cardinality({k \in S : k < i}) = n - 1]
  BY DEF InOrder
<1> HIDE DEF order
<1>6. order = [n \in 1 .. Cardinality(S) |-> order[n]]
  <2> DEFINE chosen(n) ==
        CHOOSE i \in S : Cardinality({k \in S : k < i}) = n - 1
  <2>1. order = [n \in 1 .. Cardinality(S) |-> chosen(n)]
    BY <1>5
  <2> HIDE DEF chosen
  <2>2. QED
    BY <2>1
<1>7. ASSUME NEW n \in 1 .. Cardinality(S), NEW i \in S, Rank(S, R, i) = n - 1
      PROVE  order[n] \in S /\ Rank(S, R, order[n]) = n - 1
  <2>1. order[n] = CHOOSE k \in S : Cardinality({m \in S : m < k}) = n - 1
    BY <1>5
  <2>2. \E k \in S : Cardinality({m \in S : m < k}) = n - 1
    BY <1>4, <1>7
  <2>3. order[n] \in S /\ Cardinality({m \in S : m < order[n]}) = n - 1
    BY <2>1, <2>2
  <2>4. QED
    BY <1>4, <2>3
<1>8. IsListing(order, S, R)
  BY <1>2, <1>6, <1>7, Ranking
<1>9. QED
  BY <1>8 DEF order, R

\* What stands at places that are listed in order.
LEMMA AtPlaces ==
  ASSUME NEW T, NEW seq \in Seq(T), NEW S \in SUBSET DOMAIN seq, NEW places,
         IsListing(places, S, NumberOrder(S)), NEW kept,
         kept = [n \in DOMAIN places |-> seq[places[n]]]
  PROVE  /\ Selects(kept, seq, S)
         /\ kept \in Seq(T) /\ Len(kept) = Cardinality(S)
<1> DEFINE R == NumberOrder(S)
<1>1. /\ DOMAIN seq = 1 .. Len(seq) /\ Len(seq) \in Nat
      /\ \A i \in 1 .. Len(seq) : seq[i] \in T
  OBVIOUS
<1>2. S \in SUBSET Int /\ IsFiniteSet(S) /\ Cardinality(S) \in Nat
  <2>1. IsFiniteSet(1 .. Len(seq))
    BY <1>1, FS_Interval
  <2>2. IsFiniteSet(S)
    BY <1>1, <2>1, FS_Subset
  <2>3. QED
    BY <1>1, <2>2, FS_CardinalityType
<1>4. /\ places \in [1 .. Cardinality(S) -> S]
      /\ \A i \in S : \E n \in 1 .. Cardinality(S) : places[n] = i
      /\ \A m, n \in 1 .. Cardinality(S) : m < n <=> places[n] \in R[places[m]]
  BY DEF IsListing
<1>5. \A m, n \in 1 .. Cardinality(S) : m < n <=> places[m] < places[n]
  BY <1>4 DEF NumberOrder
<1>6. kept = [n \in 1 .. Cardinality(S) |-> seq[places[n]]]
  BY <1>4
<1>7. kept \in Seq(T) /\ Len(kept) = Cardinality(S)
      /\ DOMAIN kept = 1 .. Cardinality(S)
  <2>1. \A n \in 1 .. Cardinality(S) : seq[places[n]] \in T
    BY <1>1, <1>4
  <2>2. kept \in [1 .. Cardinality(S) -> T]
    BY <1>6, <2>1
  <2>3. QED
    BY <1>2, <2>2
<1>8. Selects(kept, seq, S)
  <2>1. /\ places \in [DOMAIN kept -> S]
        /\ \A n \in DOMAIN kept : kept[n] = seq[places[n]]
        /\ \A i \in S : \E n \in DOMAIN kept : places[n] = i
    BY <1>4, <1>6, <1>7
  <2>2. \A m, n \in DOMAIN kept : m < n <=> places[m] < places[n]
    BY <1>5, <1>7
  <2>3. QED
    BY <2>1, <2>2 DEF Selects
<1>9. QED
  BY <1>7, <1>8

\* Places of a sequence can be listed in order.
LEMMA PlacesInOrder ==
  ASSUME NEW T, NEW seq \in Seq(T), NEW S \in SUBSET DOMAIN seq
  PROVE  /\ IsFiniteSet(S)
         /\ IsListing(InOrder(S, <), S, NumberOrder(S))
<1>1. DOMAIN seq = 1 .. Len(seq) /\ Len(seq) \in Nat
  OBVIOUS
<1>2. IsFiniteSet(1 .. Len(seq))
  BY <1>1, FS_Interval
<1>3. IsFiniteSet(S)
  BY <1>1, <1>2, FS_Subset
<1>4. S \in SUBSET Int
  BY <1>1
<1>5. QED
  BY <1>3, <1>4, InNumberOrder

\* NonEmpty: the segments that are not empty, in their order.
LEMMA NonEmptyKeeps ==
  ASSUME NEW segments \in Seq(STRING)
  PROVE  /\ Selects(NonEmpty(segments), segments,
                    {i \in DOMAIN segments : segments[i] # ""})
         /\ NonEmpty(segments) \in Seq(STRING)
         /\ Len(NonEmpty(segments)) =
              Cardinality({i \in DOMAIN segments : segments[i] # ""})
<1> DEFINE S == {i \in DOMAIN segments : segments[i] # ""}
           places == InOrder(S, <)
<1>1. NonEmpty(segments) = [n \in DOMAIN places |-> segments[places[n]]]
  BY DEF NonEmpty, Keep
<1>2. S \in SUBSET DOMAIN segments
  OBVIOUS
<1> HIDE DEF S
<1>3. IsListing(places, S, NumberOrder(S))
  BY <1>2, PlacesInOrder
<1> HIDE DEF places
<1>4. /\ Selects(NonEmpty(segments), segments, S)
      /\ NonEmpty(segments) \in Seq(STRING)
      /\ Len(NonEmpty(segments)) = Cardinality(S)
  BY <1>1, <1>2, <1>3, AtPlaces
<1>5. QED
  BY <1>4 DEF S

\* To select all places is to change nothing.
LEMMA SelectsAll ==
  ASSUME NEW T, NEW seq \in Seq(T), NEW kept \in Seq(T),
         Selects(kept, seq, DOMAIN seq)
  PROVE  kept = seq
<1> DEFINE m == Len(kept)
           n == Len(seq)
<1>1. /\ DOMAIN kept = 1 .. m /\ m \in Nat
      /\ DOMAIN seq = 1 .. n /\ n \in Nat
  OBVIOUS
<1>2. PICK f \in [1 .. m -> 1 .. n] :
        /\ \A i \in 1 .. m : kept[i] = seq[f[i]]
        /\ \A i \in 1 .. n : \E k \in 1 .. m : f[k] = i
        /\ \A i, k \in 1 .. m : i < k <=> f[i] < f[k]
  BY <1>1 DEF Selects
<1> HIDE DEF m, n
<1>3. \A i \in 1 .. m : f[i] = i
  <2> DEFINE Moved == {i \in 1 .. m : f[i] # i}
  <2> SUFFICES ASSUME Moved # {} PROVE FALSE
    OBVIOUS
  <2>1. Moved \in SUBSET Nat
    BY <1>1
  <2>2. PICK i \in Moved : \A k \in Moved : i <= k
    <3> HIDE DEF Moved
    <3> QED
      BY <2>1, LeastNumber
  <2>3. /\ i \in 1 .. m /\ f[i] # i /\ f[i] \in 1 .. n
        /\ \A k \in 1 .. m : k < i => f[k] = k
    BY <1>1, <1>2, <2>2
  <2>4. CASE f[i] < i
    <3>1. f[i] \in 1 .. m
      BY <1>1, <2>3, <2>4
    <3>2. f[f[i]] = f[i] /\ f[f[i]] < f[i]
      BY <1>2, <2>3, <2>4, <3>1
    <3>3. QED
      BY <1>1, <2>3, <3>2
  <2>5. CASE f[i] > i
    <3>1. i \in 1 .. n
      BY <1>1, <2>3, <2>5
    <3>2. PICK k \in 1 .. m : f[k] = i
      BY <1>2, <3>1
    <3>3. k < i => k = i
      BY <2>3, <3>2
    <3>4. i < k => f[i] < i
      BY <1>2, <2>3, <3>2
    <3>5. QED
      BY <1>1, <2>3, <2>5, <3>2, <3>3, <3>4
  <2>6. QED
    BY <1>1, <2>3, <2>4, <2>5
<1>4. m = n
  <2>1. m <= n
    <3>1. m \in 1 .. m => m \in 1 .. n
      BY <1>2, <1>3
    <3>2. QED
      BY <1>1, <3>1
  <2>2. n <= m
    <3>1. n \in 1 .. n => n \in 1 .. m
      BY <1>2, <1>3
    <3>2. QED
      BY <1>1, <3>1
  <2>3. QED
    BY <1>1, <2>1, <2>2
<1>5. \A i \in 1 .. m : kept[i] = seq[i]
  BY <1>2, <1>3
<1>6. QED
  BY <1>4, <1>5, SeqEqual DEF m, n

\* NonEmpty leaves no empty segment, and a path without any as it is.
LEMMA NonEmptyFacts ==
  ASSUME NEW segments \in Seq(STRING)
  PROVE  /\ NonEmpty(segments) \in Seq(STRING)
         /\ "" \notin ToSet(NonEmpty(segments))
         /\ "" \notin ToSet(segments) => NonEmpty(segments) = segments
<1> DEFINE S == {i \in DOMAIN segments : segments[i] # ""}
<1>1. Selects(NonEmpty(segments), segments, S)
      /\ NonEmpty(segments) \in Seq(STRING)
  BY NonEmptyKeeps
<1>2. "" \notin ToSet(NonEmpty(segments))
  BY <1>1 DEF Selects, ToSet
<1>3. ASSUME "" \notin ToSet(segments) PROVE NonEmpty(segments) = segments
  <2>1. S = DOMAIN segments
    BY <1>3 DEF ToSet
  <2>2. QED
    BY <1>1, <2>1, SelectsAll
<1>4. QED
  BY <1>1, <1>2, <1>3

\* The pairs of a query that stay, before they are sorted.
KeptPairs(query) == Keep(query, LAMBDA p : p \notin DeniedPair)

\* They are pairs that are not dropped, and all of them.
LEMMA KeptPairsFacts ==
  ASSUME NEW query \in Seq(Nat)
  PROVE  /\ KeptPairs(query) \in Seq(Nat)
         /\ \A i \in DOMAIN KeptPairs(query) : KeptPairs(query)[i] \notin DeniedPair
         /\ ToSet(query) \intersect DeniedPair = {} => KeptPairs(query) = query
<1> DEFINE S == {i \in DOMAIN query : query[i] \notin DeniedPair}
           places == InOrder(S, <)
           kept == KeptPairs(query)
<1>1. kept = [n \in DOMAIN places |-> query[places[n]]]
  BY DEF KeptPairs, Keep
<1>2. S \in SUBSET DOMAIN query
  OBVIOUS
<1> HIDE DEF S, kept
<1>3. IsListing(places, S, NumberOrder(S))
  BY <1>2, PlacesInOrder
<1> HIDE DEF places
<1>4. Selects(kept, query, S) /\ kept \in Seq(Nat)
  BY <1>1, <1>2, <1>3, AtPlaces
<1>5. \A i \in DOMAIN kept : kept[i] \notin DeniedPair
  BY <1>4 DEF Selects, S
<1>6. ASSUME ToSet(query) \intersect DeniedPair = {} PROVE kept = query
  <2>1. S = DOMAIN query
    BY <1>6 DEF ToSet, S
  <2>2. QED
    BY <1>4, <2>1, SelectsAll
<1>7. QED
  BY <1>4, <1>5, <1>6 DEF kept

\* For each place the places after it in the order of what stands there.
PairOrder(kept) ==
  [i \in DOMAIN kept |->
     {k \in DOMAIN kept : kept[i] < kept[k] \/ (kept[i] = kept[k] /\ i < k)}]

\* The query of a normalised URL is the pairs that stay in that order.
LEMMA CleanQueryOrder ==
  ASSUME NEW query \in Seq(Nat)
  PROVE  \E order :
           /\ IsListing(order, DOMAIN KeptPairs(query),
                        PairOrder(KeptPairs(query)))
           /\ CleanQuery(query) = [i \in DOMAIN KeptPairs(query) |->
                                     KeptPairs(query)[order[i]]]
<1> DEFINE kept == KeptPairs(query)
           S == DOMAIN kept
           R == PairOrder(kept)
           Before(i, k) == kept[i] < kept[k] \/ (kept[i] = kept[k] /\ i < k)
           order == InOrder(S, Before)
<1>1. CleanQuery(query) = [i \in S |-> kept[order[i]]]
  BY DEF CleanQuery, KeptPairs
<1>2. kept \in Seq(Nat)
  BY KeptPairsFacts
<1> HIDE DEF kept
<1>3. S = 1 .. Len(kept) /\ Len(kept) \in Nat /\ \A i \in S : kept[i] \in Nat
  BY <1>2
<1>4. IsFiniteSet(S)
  BY <1>3, FS_Interval
<1>5. \A i, k \in S : k \in R[i] <=> Before(i, k)
  BY DEF PairOrder
<1> HIDE DEF R
<1>6. IsOrder(R, S)
  <2>1. \A i \in S : ~Before(i, i)
    BY <1>3
  <2>2. \A i, k \in S : i = k \/ Before(i, k) \/ Before(k, i)
    BY <1>3
  <2>3. \A i, k, m \in S : Before(i, k) /\ Before(k, m) => Before(i, m)
    BY <1>3
  <2> HIDE DEF Before, S
  <2>4. QED
    BY <1>5, <2>1, <2>2, <2>3 DEF IsOrder
<1> HIDE DEF Before, S
<1>7. \A i \in S : Cardinality({k \in S : Before(k, i)}) = Rank(S, R, i)
  <2>1. \A i \in S : {k \in S : Before(k, i)} = {k \in S : i \in R[k]}
    BY <1>5
  <2>2. QED
    BY <2>1 DEF Rank
<1> DEFINE chosen(n) ==
      CHOOSE i \in S : Cardinality({k \in S : Before(k, i)}) = n - 1
<1>8. order = [n \in 1 .. Cardinality(S) |-> chosen(n)]
  BY DEF InOrder
<1>9. ASSUME NEW n, NEW i \in S, Rank(S, R, i) = n - 1
      PROVE  chosen(n) \in S /\ Rank(S, R, chosen(n)) = n - 1
  <2>1. \E k \in S : Cardinality({m \in S : Before(m, k)}) = n - 1
    BY <1>7, <1>9
  <2>2. chosen(n) \in S /\ Cardinality({m \in S : Before(m, chosen(n))}) = n - 1
    BY <2>1
  <2>3. QED
    BY <1>7, <2>2
<1> HIDE DEF order, chosen
<1>10. IsListing(order, S, R)
  <2>1. order = [n \in 1 .. Cardinality(S) |-> order[n]]
    BY <1>8
  <2>2. \A n \in 1 .. Cardinality(S), i \in S :
          Rank(S, R, i) = n - 1 =>
            order[n] \in S /\ Rank(S, R, order[n]) = n - 1
    BY <1>8, <1>9
  <2>3. QED
    BY <1>4, <1>6, <2>1, <2>2, Ranking
<1>11. QED
  BY <1>1, <1>10 DEF kept, S, R

\* CleanQuery sorts, drops, and leaves a query in its form as it is.
LEMMA CleanQueryFacts ==
  ASSUME NEW query \in Seq(Nat)
  PROVE  /\ CleanQuery(query) \in Seq(Nat)
         /\ ToSet(CleanQuery(query)) \intersect DeniedPair = {}
         /\ \A i, k \in DOMAIN CleanQuery(query) :
              i < k => CleanQuery(query)[i] <= CleanQuery(query)[k]
         /\ /\ ToSet(query) \intersect DeniedPair = {}
            /\ \A i, k \in DOMAIN query : i < k => query[i] <= query[k]
            => CleanQuery(query) = query
<1> DEFINE kept == KeptPairs(query)
           clean == CleanQuery(query)
           R == PairOrder(kept)
           n == Len(kept)
<1>1. kept \in Seq(Nat) /\ DOMAIN kept = 1 .. n /\ n \in Nat
  BY KeptPairsFacts
<1>2. /\ \A i \in 1 .. n : kept[i] \notin DeniedPair /\ kept[i] \in Nat
      /\ ToSet(query) \intersect DeniedPair = {} => kept = query
  BY <1>1, KeptPairsFacts
<1>3. PICK order : /\ IsListing(order, DOMAIN kept, R)
                   /\ clean = [i \in DOMAIN kept |-> kept[order[i]]]
  BY CleanQueryOrder
<1> HIDE DEF kept, clean, n
<1>4. Cardinality(DOMAIN kept) = n
  BY <1>1, FS_Interval
<1>5. /\ order \in [1 .. n -> 1 .. n]
      /\ \A i \in 1 .. n : \E k \in 1 .. n : order[k] = i
      /\ \A i, k \in 1 .. n : i < k <=> order[k] \in R[order[i]]
  BY <1>1, <1>3, <1>4 DEF IsListing
<1>6. \A i, k \in 1 .. n : k \in R[i] <=>
        kept[i] < kept[k] \/ (kept[i] = kept[k] /\ i < k)
  BY <1>1 DEF PairOrder
<1>7. clean = [i \in 1 .. n |-> kept[order[i]]]
  BY <1>1, <1>3
<1>8. clean \in Seq(Nat) /\ DOMAIN clean = 1 .. n
  <2>1. clean \in [1 .. n -> Nat]
    BY <1>2, <1>5, <1>7
  <2>2. QED
    BY <1>1, <2>1
<1>9. ToSet(clean) \intersect DeniedPair = {}
  BY <1>2, <1>5, <1>7, <1>8 DEF ToSet
<1> HIDE DEF R
<1>10. \A i, k \in 1 .. n : i < k => clean[i] <= clean[k]
  <2> SUFFICES ASSUME NEW i \in 1 .. n, NEW k \in 1 .. n, i < k
               PROVE  clean[i] <= clean[k]
    OBVIOUS
  <2>1. order[k] \in R[order[i]] /\ order[i] \in 1 .. n /\ order[k] \in 1 .. n
    BY <1>5
  <2>2. kept[order[i]] <= kept[order[k]]
    <3>1. \/ kept[order[i]] < kept[order[k]]
          \/ kept[order[i]] = kept[order[k]]
      BY <1>6, <2>1
    <3>2. kept[order[i]] \in Nat /\ kept[order[k]] \in Nat
      BY <1>2, <2>1
    <3>3. QED
      BY <3>1, <3>2
  <2>3. QED
    BY <1>7, <2>2
<1>11. ASSUME ToSet(query) \intersect DeniedPair = {},
              \A i, k \in DOMAIN query : i < k => query[i] <= query[k]
       PROVE  clean = query
  <2>1. kept = query
    BY <1>2, <1>11
  <2>2. \A i, k \in 1 .. n : i < k => kept[i] <= kept[k]
    BY <1>1, <1>11, <2>1
  <2>3. \A i, k \in 1 .. n : k \in R[i] => i < k
    <3> SUFFICES ASSUME NEW i \in 1 .. n, NEW k \in 1 .. n, k \in R[i]
                 PROVE  i < k
      OBVIOUS
    <3>1. kept[i] < kept[k] \/ (kept[i] = kept[k] /\ i < k)
      BY <1>6
    <3>2. k < i => kept[k] <= kept[i]
      BY <2>2
    <3>3. kept[i] \in Nat /\ kept[k] \in Nat /\ i \in Int /\ k \in Int
      BY <1>2
    <3>4. QED
      BY <3>1, <3>2, <3>3
  <2>4. \A i, k \in 1 .. n : i < k <=> order[i] < order[k]
    <3> SUFFICES ASSUME NEW i \in 1 .. n, NEW k \in 1 .. n
                 PROVE  i < k <=> order[i] < order[k]
      OBVIOUS
    <3>1. order[i] \in 1 .. n /\ order[k] \in 1 .. n
      BY <1>5
    <3>2. i < k => order[i] < order[k]
      BY <1>5, <2>3, <3>1
    <3>3. k < i => order[k] < order[i]
      BY <1>5, <2>3, <3>1
    <3>4. QED
      BY <1>1, <3>1, <3>2, <3>3
  <2>5. Selects(clean, kept, DOMAIN kept)
    BY <1>1, <1>5, <1>7, <1>8, <2>4 DEF Selects
  <2>6. clean = kept
    BY <1>1, <1>8, <2>5, SelectsAll
  <2>7. QED
    BY <2>1, <2>6
<1>12. QED
  BY <1>8, <1>9, <1>10, <1>11 DEF clean

-----------------------------------------------------------------------------
(***************************************************************************)
(* Normalised URLs.                                                        *)
(***************************************************************************)

\* Href, in a form from which the provers see that a URL may have no port.
Address == [scheme : STRING, host : Seq(STRING), port : STRING \union {""},
            rooted : BOOLEAN, segments : Seq(STRING), query : Seq(Nat)]

\* Every href is an address.
LEMMA HrefIsAddress == Href \subseteq Address
BY DEF Href, Address

\* One step of Dotless.
DotStep(path, s) ==
  CASE s = "."  -> path
    [] s = ".." -> IF path = <<>> THEN path ELSE Front(path)
    [] OTHER    -> Append(path, s)

\* A step along a path gives a path.
LEMMA DotStepType ==
  ASSUME NEW path \in Seq(STRING), NEW s \in STRING
  PROVE  DotStep(path, s) \in Seq(STRING)
<1>1. path # <<>> => Front(path) \in Seq(STRING)
  <2>1. Len(path) \in Nat /\ \A i \in 1 .. Len(path) : path[i] \in STRING
    OBVIOUS
  <2>2. Len(path) - 1 \in Int /\ \A i \in 1 .. Len(path) - 1 : path[i] \in STRING
    BY <2>1
  <2>3. QED
    BY <2>2, SubSeqProperties DEF Front
<1>2. Append(path, s) \in Seq(STRING)
  BY AppendProperties
<1>3. QED
  BY <1>1, <1>2 DEF DotStep

\* Dotless goes through a path in such steps.
LEMMA DotlessType ==
  ASSUME NEW segments \in Seq(STRING)
  PROVE  Dotless(segments) \in Seq(STRING)
<1> DEFINE n == Len(segments)
           State == Seq(STRING)
           step == [a \in (1 .. n) \X State |-> DotStep(a[2], segments[a[1]])]
           loop(g) == [s \in SUBSET DOMAIN segments |->
                         IF s = {} THEN <<>>
                         ELSE DotStep(g[s \ {Max(s)}], segments[Max(s)])]
           fold == CHOOSE g : g = loop(g)
<1>1. Dotless(segments) = fold[DOMAIN segments]
  BY DEF Dotless, FoldLeft, MapThenFoldSet, DotStep
<1>2. /\ n \in Nat /\ DOMAIN segments = 1 .. n
      /\ \A i \in 1 .. n : segments[i] \in STRING
  OBVIOUS
<1>3. \A path \in State, s \in STRING : DotStep(path, s) \in State
  BY DotStepType
<1>4. <<>> \in State /\ step \in [(1 .. n) \X State -> State]
  <2>1. <<>> \in State
    BY EmptySeq
  <2> HIDE DEF State, n
  <2>2. QED
    BY <1>2, <1>3, <2>1
<1>5. \A i \in 1 .. n, path \in State :
        step[<<i, path>>] = DotStep(path, segments[i])
  OBVIOUS
<1> HIDE DEF n, step, State
<1>6. PICK g \in [SUBSET (1 .. n) -> State] : FoldsBy(g, n, <<>>, step)
  BY <1>2, <1>4, FoldSolution
<1>7. \A s \in SUBSET (1 .. n) : s # {} => Max(s) \in 1 .. n
  BY <1>2, MaxOfRange
<1>8. g = loop(g)
  <2>1. ASSUME NEW s \in SUBSET (1 .. n), s # {}
        PROVE  g[s] = DotStep(g[s \ {Max(s)}], segments[Max(s)])
    <3>1. g[s \ {Max(s)}] \in State
      OBVIOUS
    <3>2. QED
      BY <1>5, <1>6, <1>7, <2>1, <3>1 DEF FoldsBy
  <2>2. \A s \in SUBSET (1 .. n) : s = {} => g[s] = <<>>
    BY <1>6 DEF FoldsBy
  <2>3. QED
    BY <1>2, <2>1, <2>2
<1>9. fold = loop(fold)
  BY <1>8
<1> HIDE DEF fold
<1>10. FoldsWithin(fold, n, State, <<>>, step)
  <2>1. fold[{}] = <<>>
    BY <1>9
  <2>2. ASSUME NEW s \in SUBSET (1 .. n), s # {}, fold[s \ {Max(s)}] \in State
        PROVE  fold[s] = step[<<Max(s), fold[s \ {Max(s)}]>>]
    BY <1>2, <1>5, <1>7, <1>9, <2>2
  <2>3. QED
    BY <2>1, <2>2 DEF FoldsWithin
<1>11. PICK run \in [0 .. n -> State] : IsRun(run, n, <<>>, step, fold[1 .. n])
  BY <1>2, <1>4, <1>10, FoldRuns
<1>12. run[n] \in State /\ run[n] = fold[1 .. n]
  BY <1>2, <1>11 DEF IsRun
<1>13. QED
  BY <1>1, <1>2, <1>12 DEF State

\* urljoin of an href and a page's URL is an href.
LEMMA ResolveType ==
  ASSUME NEW href \in Address, NEW base \in Address
  PROVE  /\ Resolve(href, base) \in Address
         /\ href.scheme # "" => Resolve(href, base) = href
<1> DEFINE path == CASE href.rooted          -> Dotless(href.segments)
                     [] href.segments = <<>> -> base.segments
                     [] OTHER -> Dotless(NonEmpty(Directory(base) \o href.segments))
<1>1. /\ href.scheme \in STRING /\ href.host \in Seq(STRING)
      /\ href.port \in STRING \union {""} /\ href.rooted \in BOOLEAN
      /\ href.segments \in Seq(STRING) /\ href.query \in Seq(Nat)
      /\ base.scheme \in STRING /\ base.host \in Seq(STRING)
      /\ base.port \in STRING \union {""} /\ base.rooted \in BOOLEAN
      /\ base.segments \in Seq(STRING) /\ base.query \in Seq(Nat)
  BY DEF Address
<1>2. path \in Seq(STRING)
  <2>1. Directory(base) \in Seq(STRING)
    <3>1. /\ Len(base.segments) \in Nat
          /\ \A i \in 1 .. Len(base.segments) - 1 : base.segments[i] \in STRING
      <4>1. base.segments \in Seq(STRING)
        BY <1>1
      <4>2. QED
        BY <4>1
    <3>2. SubSeq(base.segments, 1, Len(base.segments) - 1) \in Seq(STRING)
      BY <3>1, SubSeqProperties
    <3>3. QED
      BY <3>2, EmptySeq DEF Directory, Front
  <2>2. Directory(base) \o href.segments \in Seq(STRING)
    BY <1>1, <2>1, ConcatProperties
  <2>3. Dotless(NonEmpty(Directory(base) \o href.segments)) \in Seq(STRING)
    BY <2>2, NonEmptyFacts, DotlessType
  <2>4. Dotless(href.segments) \in Seq(STRING)
    BY <1>1, DotlessType
  <2>5. QED
    BY <1>1, <2>3, <2>4
<1> DEFINE inherits == href.segments = <<>> /\ ~href.rooted /\ href.query = <<>>
           query == IF inherits THEN base.query ELSE href.query
<1>3. Resolve(href, base) =
        IF href.scheme # "" THEN href
        ELSE IF href.host # <<>> THEN [href EXCEPT !.scheme = base.scheme]
        ELSE Location(base.scheme, base.host, base.port, path, query)
  BY DEF Resolve
<1>4. query \in Seq(Nat)
  BY <1>1
<1> HIDE DEF path, query
<1>5. Location(base.scheme, base.host, base.port, path, query) \in Address
  BY <1>1, <1>2, <1>4 DEF Location, Address
<1>6. [href EXCEPT !.scheme = base.scheme] \in Address
  BY <1>1 DEF Address
<1>7. QED
  BY <1>3, <1>5, <1>6

\* normalize_url gives no URL, or one in normal form that it then leaves as it
\* is, whatever page it is found on.
LEMMA NormalForm ==
  ASSUME NEW href \in Address, NEW base \in Address
  PROVE  LET u == NormalizeUrl(href, base)
         IN  u = NoUrl \/ (/\ u \in Address /\ IsNormal(u)
                           /\ \A b \in Address : NormalizeUrl(u, b) = u)
<1> DEFINE r == Resolve(href, base)
           u == NormalizeUrl(href, base)
<1>1. r \in Address
  BY ResolveType
<1> HIDE DEF r
<1>2. SUFFICES ASSUME u # NoUrl
               PROVE  /\ u \in Address /\ IsNormal(u)
                      /\ \A b \in Address : NormalizeUrl(u, b) = u
  OBVIOUS
<1>3. u = Canonicalize(r)
  BY DEF NormalizeUrl, r
<1> HIDE DEF u
<1>4. /\ r.scheme \in {"http", "https"} /\ r.host # <<>>
      /\ u = Location(r.scheme, r.host, Port(r), NonEmpty(r.segments),
                      CleanQuery(r.query))
  BY <1>2, <1>3 DEF Canonicalize
<1>5. /\ r.host \in Seq(STRING) /\ r.port \in STRING \union {""}
      /\ r.segments \in Seq(STRING) /\ r.query \in Seq(Nat)
  BY <1>1 DEF Address
<1>6. /\ u.scheme = r.scheme /\ u.host = r.host /\ u.port = Port(r)
      /\ u.segments = NonEmpty(r.segments) /\ u.query = CleanQuery(r.query)
      /\ u.rooted = TRUE
  BY <1>4 DEF Location
<1>7. /\ Port(r) \in STRING \union {""}
      /\ Port(r) = "80" => r.scheme # "http"
      /\ Port(r) = "443" => r.scheme # "https"
  <2>1. <<r.scheme, r.port>> \in {<<"http", "80">>, <<"https", "443">>} <=>
          \/ r.scheme = "http" /\ r.port = "80"
          \/ r.scheme = "https" /\ r.port = "443"
    OBVIOUS
  <2>2. Port(r) = IF \/ r.scheme = "http" /\ r.port = "80"
                     \/ r.scheme = "https" /\ r.port = "443"
                    THEN "" ELSE r.port
    BY <2>1 DEF Port
  <2> DEFINE port == Port(r)
  <2>3. port = "" \/ (/\ port = r.port
                      /\ ~(r.scheme = "http" /\ r.port = "80")
                      /\ ~(r.scheme = "https" /\ r.port = "443"))
    BY <2>2
  <2>4. r.port \in STRING \union {""}
    BY <1>5
  <2> HIDE DEF port
  <2>5. port \in STRING \union {""}
    BY <2>3, <2>4
  <2>6. /\ port = "80" => r.scheme # "http"
        /\ port = "443" => r.scheme # "https"
    BY <2>3
  <2>7. QED
    BY <2>5, <2>6 DEF port
<1>8. /\ NonEmpty(r.segments) \in Seq(STRING)
      /\ "" \notin ToSet(NonEmpty(r.segments))
  BY <1>5, NonEmptyFacts
<1>9. /\ CleanQuery(r.query) \in Seq(Nat)
      /\ ToSet(CleanQuery(r.query)) \intersect DeniedPair = {}
      /\ \A i, k \in DOMAIN CleanQuery(r.query) :
           i < k => CleanQuery(r.query)[i] <= CleanQuery(r.query)[k]
  BY <1>5, CleanQueryFacts
<1>10. u \in Address
  <2> DEFINE segments == NonEmpty(r.segments)
             query == CleanQuery(r.query)
             port == Port(r)
  <2>1. /\ u = Location(r.scheme, r.host, port, segments, query)
        /\ port \in STRING \union {""} /\ segments \in Seq(STRING) /\ query \in Seq(Nat)
        /\ r.host \in Seq(STRING)
    BY <1>4, <1>5, <1>7, <1>8, <1>9
  <2>2. r.scheme \in STRING
    BY <1>1 DEF Address
  <2> HIDE DEF segments, query, port
  <2>3. QED
    BY <2>1, <2>2 DEF Location, Address
<1>11. IsNormal(u)
  BY <1>4, <1>6, <1>7, <1>8, <1>9 DEF IsNormal
<1>12. ASSUME NEW b \in Address PROVE NormalizeUrl(u, b) = u
  <2>1. Resolve(u, b) = u
    BY <1>4, <1>6, <1>10, ResolveType
  <2>2. Port(u) = u.port
    BY <1>4, <1>6, <1>7 DEF Port
  <2>3. NonEmpty(u.segments) = u.segments
    BY <1>6, <1>8, NonEmptyFacts
  <2>4. CleanQuery(u.query) = u.query
    BY <1>6, <1>9, CleanQueryFacts
  <2>5. Canonicalize(u) = Location(u.scheme, u.host, u.port, u.segments, u.query)
    BY <1>4, <1>6, <2>2, <2>3, <2>4 DEF Canonicalize
  <2>6. Location(u.scheme, u.host, u.port, u.segments, u.query) = u
    BY <1>4, <1>6 DEF Location
  <2>7. QED
    BY <2>1, <2>5, <2>6 DEF NormalizeUrl
<1>13. QED
  BY <1>10, <1>11, <1>12

\* Contact pages count 100, and all others at most 50.
LEMMA PriorityBounds ==
  ASSUME NEW u \in Address
  PROVE  /\ UrlPriority(u) \in 10 .. 100
         /\ IsContactUrl(u) => UrlPriority(u) = 100
         /\ ~IsContactUrl(u) => UrlPriority(u) <= 50
<1> DEFINE n == Len(u.segments)
           penalty == IF n > 8 THEN 40 ELSE 5 * n
<1>1. n \in Nat
  <2>1. u.segments \in Seq(STRING)
    BY DEF Address
  <2>2. QED
    BY <2>1
<1>2. UrlPriority(u) = IF IsContactUrl(u) THEN 100 ELSE 50 - penalty
  BY DEF UrlPriority
<1> HIDE DEF n
<1>3. penalty \in 0 .. 40
  BY <1>1
<1> HIDE DEF penalty
<1>4. QED
  BY <1>2, <1>3

-----------------------------------------------------------------------------
(***************************************************************************)
(* The page.                                                               *)
(***************************************************************************)

\* A page is a sequence of elements.
ScanTypeOK == url \in PageUrl /\ page \in Seq(Element)

\* The page's URL and its elements stay what PageAssumption says of them.
LEMMA ScanTypeAlways == ScanSpec => []ScanTypeOK
<1>1. ScanInit => ScanTypeOK
  BY EmptySeq DEF ScanInit, ScanTypeOK
<1>2. ScanTypeOK /\ [ScanNext]_scanVars => ScanTypeOK'
  <2> SUFFICES ASSUME ScanTypeOK, [ScanNext]_scanVars PROVE ScanTypeOK'
    OBVIOUS
  <2>1. ASSUME NEW e \in Element, Grow(e) PROVE ScanTypeOK'
    BY <2>1, AppendProperties DEF Grow, ScanTypeOK
  <2>2. CASE UNCHANGED scanVars
    BY <2>2 DEF scanVars, ScanTypeOK
  <2>3. QED
    BY <2>1, <2>2 DEF ScanNext
<1>3. QED
  BY <1>1, <1>2, PTL DEF ScanSpec

\* What an element has, by its tag.
LEMMA ElementParts ==
  ASSUME NEW e \in Element
  PROVE  /\ e.within \in Seq(STRING)
         /\ e.tag \in {"canonical", "a", "mailto", "tel", "text"}
         /\ e.tag \in {"canonical", "a"} => e.href \in Href
         /\ e.tag = "mailto" => e.email \in STRING
         /\ e.tag = "tel" => e.phone \in Phone
         /\ e.tag = "text" =>
              /\ e.emails \in Seq(STRING) /\ e.obfuscated \in Seq(STRING)
              /\ e.phones \in Seq(Phone) /\ e.profiles \in Seq(Href)
<1> DEFINE Linking == [tag : {"canonical", "a"}, within : Seq(STRING), href : Href]
           Mailing == [tag : {"mailto"}, within : Seq(STRING), email : STRING]
           Calling == [tag : {"tel"}, within : Seq(STRING), phone : Phone]
<1>1. e \in Linking \/ e \in Mailing \/ e \in Calling \/ e \in Text
  BY PageAssumption
<1>2. CASE e \in Linking
  BY <1>2
<1>3. CASE e \in Mailing
  BY <1>3
<1>4. CASE e \in Calling
  BY <1>4
<1>5. CASE e \in Text
  BY <1>5 DEF Text
<1>6. QED
  BY <1>1, <1>2, <1>3, <1>4, <1>5

\* To select twice by what is there is to select at once.
LEMMA SelectsTwice ==
  ASSUME NEW a, NEW b, NEW seq, NEW S, NEW U, NEW V, NEW Q,
         Selects(a, b, S), Selects(b, seq, U),
         \A i : i \in S <=> i \in DOMAIN b /\ b[i] \in Q,
         \A i : i \in V <=> i \in U /\ seq[i] \in Q
  PROVE  Selects(a, seq, V)
<1>1. PICK f \in [DOMAIN b -> U] :
        /\ \A n \in DOMAIN b : b[n] = seq[f[n]]
        /\ \A i \in U : \E n \in DOMAIN b : f[n] = i
        /\ \A m, n \in DOMAIN b : m < n <=> f[m] < f[n]
  BY DEF Selects
<1>2. PICK g \in [DOMAIN a -> S] :
        /\ \A n \in DOMAIN a : a[n] = b[g[n]]
        /\ \A i \in S : \E n \in DOMAIN a : g[n] = i
        /\ \A m, n \in DOMAIN a : m < n <=> g[m] < g[n]
  BY DEF Selects
<1> DEFINE h == [n \in DOMAIN a |-> f[g[n]]]
<1>3. h \in [DOMAIN a -> V]
  BY <1>1, <1>2
<1>4. \A n \in DOMAIN a : a[n] = seq[h[n]]
  BY <1>1, <1>2
<1>5. \A i \in V : \E n \in DOMAIN a : h[n] = i
  <2> SUFFICES ASSUME NEW i \in V PROVE \E n \in DOMAIN a : h[n] = i
    OBVIOUS
  <2>1. PICK k \in DOMAIN b : f[k] = i
    BY <1>1
  <2>2. PICK n \in DOMAIN a : g[n] = k
    BY <1>1, <1>2, <2>1
  <2>3. QED
    BY <2>1, <2>2
<1>6. \A m, n \in DOMAIN a : m < n <=> h[m] < h[n]
  BY <1>1, <1>2
<1> HIDE DEF h
<1>7. QED
  BY <1>3, <1>4, <1>5, <1>6 DEF Selects

\* The elements with a tag are those that are shown, in their order.
LEMMA TaggedPlaces ==
  ASSUME ScanTypeOK, NEW tag
  PROVE  Selects(Tagged(tag), page, ShownAs(tag)) /\ Tagged(tag) \in Seq(Element)
<1> DEFINE Q == {e \in Element : e.tag = tag}
           S == {i \in DOMAIN Content : Content[i].tag = tag}
           shownPlaces == InOrder(Shown, <)
           tagPlaces == InOrder(S, <)
<1>1. page \in Seq(Element)
  BY DEF ScanTypeOK
<1>2. Content = [n \in DOMAIN shownPlaces |-> page[shownPlaces[n]]]
  BY DEF Content, Keep, Shown
<1>3. Shown \in SUBSET DOMAIN page
  BY DEF Shown
<1>4. IsListing(shownPlaces, Shown, NumberOrder(Shown))
  BY <1>1, <1>3, PlacesInOrder
<1>5. Tagged(tag) = [n \in DOMAIN tagPlaces |-> Content[tagPlaces[n]]]
  BY DEF Tagged, Keep
<1> HIDE DEF shownPlaces, tagPlaces
<1>6. Selects(Content, page, Shown) /\ Content \in Seq(Element)
  BY <1>1, <1>2, <1>3, <1>4, AtPlaces
<1>7. S \in SUBSET DOMAIN Content
  OBVIOUS
<1>8. IsListing(tagPlaces, S, NumberOrder(S))
  BY <1>6, <1>7, PlacesInOrder DEF tagPlaces
<1>9. Selects(Tagged(tag), Content, S) /\ Tagged(tag) \in Seq(Element)
  <2> HIDE DEF S
  <2> QED
    BY <1>5, <1>6, <1>7, <1>8, AtPlaces
<1>10. S = {i \in DOMAIN Content : Content[i] \in Q}
  BY <1>6
<1>11. ShownAs(tag) = {i \in Shown : page[i] \in Q}
  BY <1>1, <1>3 DEF ShownAs
<1> HIDE DEF S, Q
<1>12. Selects(Tagged(tag), page, ShownAs(tag))
  <2>1. \A i : i \in S <=> i \in DOMAIN Content /\ Content[i] \in Q
    BY <1>10
  <2>2. \A i : i \in ShownAs(tag) <=> i \in Shown /\ page[i] \in Q
    BY <1>11
  <2>3. QED
    BY <1>6, <1>9, <2>1, <2>2, SelectsTwice
<1>13. QED
  BY <1>9, <1>12

-----------------------------------------------------------------------------
(***************************************************************************)
(* Links.                                                                  *)
(***************************************************************************)

\* A link and its priority, with the ten more of a canonical one.
Link == [url : Address, priority : 10 .. 110]

\* What get_links makes of an href: a link of the scope in normal form.
GoodLink(link) ==
  /\ link \in Link
  /\ IsLink(link.url) /\ IsPageInScope(link.url)
  /\ IsContactUrl(link.url) => link.priority >= 100
  /\ ~IsContactUrl(link.url) => link.priority <= 60

\* A host has the labels of any domain it is, as a suffix.
LEMMA SuffixOfItself ==
  ASSUME NEW d \in Seq(STRING)
  PROVE  IsSuffix(d, d)
<1>1. Len(Reverse(d)) \in Nat /\ Len(Reverse(d)) <= Len(Reverse(d))
  <2>1. Reverse(d) = [i \in 1 .. Len(d) |-> d[Len(d) - i + 1]]
    BY DEF Reverse
  <2>2. Len(d) \in Nat
    OBVIOUS
  <2>3. Len(Reverse(d)) = Len(d)
    BY <2>1, <2>2
  <2>4. QED
    BY <2>2, <2>3
<1>2. QED
  BY <1>1 DEF IsSuffix, IsPrefix

\* The candidate of an anchor or a canonical link.
LEMMA CandidateIsGood ==
  ASSUME ScanTypeOK, NEW e \in Element, e.tag \in {"canonical", "a"},
         NEW bonus \in {0, 10}, IsLink(NormalizeUrl(e.href, url))
  PROVE  /\ GoodLink(Candidate(e, bonus))
         /\ Candidate(e, bonus).url = NormalizeUrl(e.href, url)
<1> DEFINE u == NormalizeUrl(e.href, url)
           c == Candidate(e, bonus)
<1>1. e.href \in Address /\ url \in Address
  BY ElementParts, PageAssumption, HrefIsAddress DEF ScanTypeOK
<1>2. u # NoUrl /\ IsCrawlable(u) /\ InScope(u)
  BY DEF IsLink
<1>3. u \in Address /\ IsNormal(u) /\ NormalizeUrl(u, url) = u
  BY <1>1, <1>2, NormalForm
<1>4. c = [url |-> u, priority |-> UrlPriority(u) + bonus]
  BY DEF Candidate
<1>5. /\ UrlPriority(u) \in 10 .. 100
      /\ IsContactUrl(u) => UrlPriority(u) = 100
      /\ ~IsContactUrl(u) => UrlPriority(u) <= 50
  BY <1>3, PriorityBounds
<1>6. IsLink(u)
  OBVIOUS
<1> HIDE DEF u, c
<1>7. c.url = u /\ c \in Link
  BY <1>3, <1>4, <1>5 DEF Link
<1>8. /\ IsContactUrl(u) => c.priority >= 100
      /\ ~IsContactUrl(u) => c.priority <= 60
  BY <1>4, <1>5
<1>9. IsPageInScope(u)
  <2>1. ASSUME ~FollowExternal
        PROVE  \E d \in AllowedDomains :
                 IF IncludeSubdomains THEN IsSuffix(d, u.host) ELSE d = u.host
    <3>1. IsSameDomain(u, AllowedDomains, IncludeSubdomains)
      BY <1>2, <2>1 DEF InScope
    <3>2. PICK d \in AllowedDomains :
            \/ u.host = d
            \/ IncludeSubdomains /\ IsStrictSuffix(d, u.host)
      BY <3>1 DEF IsSameDomain
    <3>3. d \in Seq(STRING)
      BY PageAssumption
    <3>4. CASE u.host = d
      BY <3>3, <3>4, SuffixOfItself
    <3>5. CASE IncludeSubdomains /\ IsStrictSuffix(d, u.host)
      BY <3>5 DEF IsStrictSuffix
    <3>6. QED
      BY <3>2, <3>4, <3>5
  <2>2. QED
    BY <1>3, <2>1 DEF IsPageInScope
<1>10. QED
  BY <1>6, <1>7, <1>8, <1>9 DEF GoodLink, u, c

\* The list before the loop over the anchors.
LEMMA CanonicalLinkFacts ==
  ASSUME ScanTypeOK
  PROVE  /\ CanonicalLink \in Seq(Link) /\ Len(CanonicalLink) <= 1
         /\ \A i \in DOMAIN CanonicalLink :
              /\ GoodLink(CanonicalLink[i])
              /\ CanonicalLink[i].url \in LinkedUrls
              /\ 0 \in PlacesOf(CanonicalLink[i].url)
         /\ \A k \in FirstOf(ShownAs("canonical")) :
              LET u == NormalizeUrl(page[k].href, url)
              IN  IsLink(u) => \E i \in DOMAIN CanonicalLink :
                                 CanonicalLink[i].url = u
<1> DEFINE canonicals == Tagged("canonical")
           first == Candidate(canonicals[1], 10)
           S == ShownAs("canonical")
<1>1. /\ canonicals \in Seq(Element) /\ Len(canonicals) \in Nat
      /\ DOMAIN canonicals = 1 .. Len(canonicals)
  BY TaggedPlaces
<1>2. PICK f \in [DOMAIN canonicals -> S] :
        /\ \A n \in DOMAIN canonicals : canonicals[n] = page[f[n]]
        /\ \A i \in S : \E n \in DOMAIN canonicals : f[n] = i
        /\ \A m, n \in DOMAIN canonicals : m < n <=> f[m] < f[n]
  BY TaggedPlaces DEF Selects
<1>3. CanonicalLink = IF canonicals # <<>> /\ IsLink(first.url) THEN <<first>> ELSE <<>>
  BY DEF CanonicalLink
<1>4. \A k \in S : k \in Nat
  <2>1. page \in Seq(Element) /\ S \subseteq DOMAIN page
    BY DEF ScanTypeOK, ShownAs, Shown
  <2>2. QED
    BY <2>1
<1>5. canonicals # <<>> <=> Len(canonicals) > 0
  BY <1>1
<1> HIDE DEF canonicals, first
<1>6. ASSUME canonicals # <<>> PROVE FirstOf(S) = {f[1]} /\ 1 \in DOMAIN canonicals
  <2>1. 1 \in DOMAIN canonicals /\ f[1] \in S
    BY <1>1, <1>2, <1>5, <1>6
  <2>2. ASSUME NEW k \in S PROVE f[1] <= k
    <3>1. PICK n \in DOMAIN canonicals : f[n] = k
      BY <1>2
    <3>2. n = 1 \/ 1 < n
      BY <1>1
    <3>3. n = 1 \/ f[1] < k
      BY <1>2, <2>1, <3>1, <3>2
    <3>4. f[1] \in Nat /\ k \in Nat
      BY <1>4, <2>1
    <3>5. QED
      BY <3>1, <3>3, <3>4
  <2>3. \A k \in S : k <= f[1] => k = f[1]
    BY <1>4, <2>1, <2>2
  <2> HIDE DEF S
  <2>4. QED
    BY <2>1, <2>2, <2>3 DEF FirstOf
<1>7. ASSUME canonicals = <<>> PROVE FirstOf(S) = {}
  <2>1. S = {}
    BY <1>1, <1>2, <1>7
  <2>2. QED
    BY <2>1 DEF FirstOf
<1>8. CASE canonicals = <<>>
  <2>1. CanonicalLink = <<>>
    BY <1>3, <1>8
  <2>2. CanonicalLink \in Seq(Link) /\ Len(CanonicalLink) = 0
        /\ DOMAIN CanonicalLink = {}
    BY <2>1, EmptySeq
  <2>3. QED
    BY <1>7, <1>8, <2>2
<1>9. CASE canonicals # <<>>
  <2> DEFINE u == NormalizeUrl(page[f[1]].href, url)
  <2>1. /\ canonicals[1] = page[f[1]] /\ canonicals[1] \in Element /\ f[1] \in S
        /\ FirstOf(S) = {f[1]}
    BY <1>1, <1>2, <1>6, <1>9
  <2>2. canonicals[1].tag = "canonical"
    BY <2>1 DEF ShownAs
  <2>3. first.url = u
    BY <2>1 DEF first, Candidate
  <2>4. CASE IsLink(u)
    <3>1. CanonicalLink = <<first>>
      BY <1>3, <1>9, <2>3, <2>4
    <3>2. GoodLink(first)
      BY <2>1, <2>2, <2>4, CandidateIsGood DEF first
    <3>3. /\ CanonicalLink \in Seq(Link) /\ Len(CanonicalLink) = 1
          /\ DOMAIN CanonicalLink = {1} /\ CanonicalLink[1] = first
      BY <3>1, <3>2 DEF GoodLink
    <3>4. u \in LinkedUrls
      BY <2>1, <2>4 DEF LinkedUrls
    <3>5. 0 \in PlacesOf(u)
      BY <2>1 DEF PlacesOf
    <3> HIDE DEF u
    <3>6. \A k \in FirstOf(S) : NormalizeUrl(page[k].href, url) = u
      BY <2>1 DEF u
    <3>7. QED
      BY <2>3, <3>2, <3>3, <3>4, <3>5, <3>6
  <2>5. CASE ~IsLink(u)
    <3>1. CanonicalLink = <<>>
      BY <1>3, <2>3, <2>5
    <3>2. CanonicalLink \in Seq(Link) /\ Len(CanonicalLink) = 0
          /\ DOMAIN CanonicalLink = {}
      BY <3>1, EmptySeq
    <3>3. \A k \in FirstOf(S) : NormalizeUrl(page[k].href, url) = u
      BY <2>1
    <3>4. QED
      BY <2>5, <3>2, <3>3
  <2>6. QED
    BY <2>4, <2>5
<1>10. QED
  BY <1>8, <1>9

\* The list after the loop over the anchors, before it is sorted.
FoundLinks == FoldLeft(Consider, CanonicalLink, Tagged("a"))

\* The list before the first turn of the loop, after each one, and at the end.
IsLinksRun(run) ==
  /\ run[0] = CanonicalLink
  /\ \A k \in 1 .. Len(Tagged("a")) :
       run[k] = Consider(run[k - 1], Tagged("a")[k])
  /\ run[Len(Tagged("a"))] = FoundLinks

\* get_links is a run of that loop.
LEMMA LinksRun ==
  ASSUME ScanTypeOK
  PROVE  \E run \in [0 .. Len(Tagged("a")) -> Seq(Link)] : IsLinksRun(run)
<1> DEFINE anchors == Tagged("a")
           n == Len(anchors)
           State == Seq(Link)
           base == CanonicalLink
           step == [a \in (1 .. n) \X State |-> Consider(a[2], anchors[a[1]])]
           loop(g) == [s \in SUBSET DOMAIN anchors |->
                         IF s = {} THEN base
                         ELSE Consider(g[s \ {Max(s)}], anchors[Max(s)])]
           fold == CHOOSE g : g = loop(g)
<1>1. FoundLinks = fold[DOMAIN anchors]
  BY DEF FoundLinks, FoldLeft, MapThenFoldSet
<1>2. /\ n \in Nat /\ DOMAIN anchors = 1 .. n
      /\ \A i \in 1 .. n : anchors[i] \in Element /\ anchors[i].tag = "a"
  <2>1. Tagged("a") \in Seq(Element)
    BY TaggedPlaces
  <2>2. \A i \in DOMAIN anchors : anchors[i].tag = "a"
    BY TaggedPlaces DEF Selects, ShownAs
  <2>3. QED
    BY <2>1, <2>2
<1>3. \A links \in State, e \in Element :
        e.tag = "a" => Consider(links, e) \in State
  <2> SUFFICES ASSUME NEW links \in State, NEW e \in Element, e.tag = "a"
               PROVE  Consider(links, e) \in State
    OBVIOUS
  <2> DEFINE c == Candidate(e, 0)
  <2>1. c.url = NormalizeUrl(e.href, url)
    BY DEF Candidate
  <2>2. IsLink(c.url) => c \in Link
    BY <2>1, CandidateIsGood DEF GoodLink
  <2> HIDE DEF c
  <2>3. IsLink(c.url) => Append(links, c) \in State
    BY <2>2, AppendProperties
  <2>4. QED
    BY <2>3 DEF Consider, c
<1>4. base \in State /\ step \in [(1 .. n) \X State -> State]
  <2>1. base \in State
    BY CanonicalLinkFacts
  <2> HIDE DEF State, n
  <2>2. QED
    BY <1>2, <1>3, <2>1
<1>5. \A i \in 1 .. n, links \in State :
        step[<<i, links>>] = Consider(links, anchors[i])
  OBVIOUS
<1> HIDE DEF n, step, State, base, anchors
<1>6. PICK g \in [SUBSET (1 .. n) -> State] : FoldsBy(g, n, base, step)
  BY <1>2, <1>4, FoldSolution
<1>7. \A s \in SUBSET (1 .. n) : s # {} => Max(s) \in 1 .. n
  BY <1>2, MaxOfRange
<1>8. g = loop(g)
  <2>1. ASSUME NEW s \in SUBSET (1 .. n), s # {}
        PROVE  g[s] = Consider(g[s \ {Max(s)}], anchors[Max(s)])
    <3>1. g[s \ {Max(s)}] \in State
      OBVIOUS
    <3>2. QED
      BY <1>5, <1>6, <1>7, <2>1, <3>1 DEF FoldsBy
  <2>2. \A s \in SUBSET (1 .. n) : s = {} => g[s] = base
    BY <1>6 DEF FoldsBy
  <2>3. QED
    BY <1>2, <2>1, <2>2
<1>9. fold = loop(fold)
  BY <1>8
<1> HIDE DEF fold
<1>10. FoldsWithin(fold, n, State, base, step)
  <2>1. fold[{}] = base
    BY <1>9
  <2>2. ASSUME NEW s \in SUBSET (1 .. n), s # {}, fold[s \ {Max(s)}] \in State
        PROVE  fold[s] = step[<<Max(s), fold[s \ {Max(s)}]>>]
    BY <1>2, <1>5, <1>7, <1>9, <2>2
  <2>3. QED
    BY <2>1, <2>2 DEF FoldsWithin
<1>11. PICK run \in [0 .. n -> State] : IsRun(run, n, base, step, fold[1 .. n])
  BY <1>2, <1>4, <1>10, FoldRuns
<1>12. ASSUME NEW k \in 1 .. n PROVE run[k] = Consider(run[k - 1], anchors[k])
  <2>1. run[k - 1] \in State
    BY <1>2
  <2>2. QED
    BY <1>5, <1>11, <2>1 DEF IsRun
<1>13. run[0] = base /\ run[n] = FoundLinks
  BY <1>1, <1>2, <1>11 DEF IsRun
<1>14. QED
  BY <1>11, <1>12, <1>13 DEF IsLinksRun, State, n, base, anchors

\* What is known of the list after the anchors whose places are in S.
LinksSoFar(links, S) ==
  /\ Len(links) <= MaxLinks
  /\ \A i \in DOMAIN links :
       /\ GoodLink(links[i]) /\ links[i].url \in LinkedUrls
       /\ \E p \in PlacesOf(links[i].url) : p \in S \union {0}
  /\ \A i, k \in DOMAIN links : links[i].url = links[k].url => i = k
  /\ \A i \in DOMAIN CanonicalLink : IsSeen(links, CanonicalLink[i].url)
  /\ \A p \in S :
       LET u == NormalizeUrl(page[p].href, url)
       IN  IsLink(u) =>
             \/ IsSeen(links, u)
             \/ /\ Len(links) = MaxLinks
                /\ \A i \in DOMAIN links :
                     \E q \in PlacesOf(links[i].url) : q < p

\* One more anchor.
LEMMA ConsiderKeeps ==
  ASSUME ScanTypeOK, NEW links \in Seq(Link), NEW S \in SUBSET ShownAs("a"),
         LinksSoFar(links, S), NEW p \in ShownAs("a"), \A q \in S : q < p
  PROVE  LinksSoFar(Consider(links, page[p]), S \union {p})
<1> DEFINE e == page[p]
           c == Candidate(e, 0)
           u == NormalizeUrl(e.href, url)
           n == Len(links)
           next == Consider(links, e)
<1>1. p \in DOMAIN page /\ p \in Nat /\ p > 0 /\ e \in Element /\ e.tag = "a"
  BY DEF ScanTypeOK, ShownAs, Shown
<1>2. c.url = u
  BY DEF Candidate
<1>3. n \in Nat /\ DOMAIN links = 1 .. n /\ MaxLinks \in Nat
  BY PageAssumption
<1>4. IsLink(u) => GoodLink(c) /\ u \in LinkedUrls
  BY <1>1, CandidateIsGood DEF LinkedUrls
<1>5. p \in PlacesOf(u)
  BY DEF PlacesOf
<1>6. next = IF n >= MaxLinks \/ ~IsLink(u) \/ IsSeen(links, u)
               THEN links ELSE Append(links, c)
  BY <1>2 DEF Consider
<1> HIDE DEF c, next
<1>7. n <= MaxLinks
  BY DEF LinksSoFar
<1>8. /\ n >= MaxLinks => n = MaxLinks
      /\ n < MaxLinks => ~(n >= MaxLinks) /\ n # MaxLinks
      /\ n >= MaxLinks \/ n < MaxLinks
  <2> n \in Nat /\ MaxLinks \in Nat /\ n <= MaxLinks
    BY <1>3, <1>7
  <2> HIDE DEF n
  <2> QED
    OBVIOUS
<1>9. CASE n >= MaxLinks \/ ~IsLink(u) \/ IsSeen(links, u)
  <2>1. next = links
    BY <1>6, <1>9
  <2>2. \A i \in DOMAIN links : \E q \in PlacesOf(links[i].url) :
          q \in S \union {p} \union {0}
    BY DEF LinksSoFar
  <2>3. ASSUME n >= MaxLinks
        PROVE  /\ n = MaxLinks
               /\ \A i \in DOMAIN links :
                    \E q \in PlacesOf(links[i].url) : q < p
    <3>1. n = MaxLinks
      BY <1>8, <2>3
    <3>2. \A q \in S \union {0} : q < p
      BY <1>1
    <3>3. QED
      BY <3>1, <3>2 DEF LinksSoFar
  <2>4. IsLink(u) => \/ IsSeen(links, u)
                     \/ /\ n = MaxLinks
                        /\ \A i \in DOMAIN links :
                             \E q \in PlacesOf(links[i].url) : q < p
    BY <1>9, <2>3
  <2>5. LinksSoFar(links, S \union {p})
    <3>1. \A x \in S \union {p} :
            LET v == NormalizeUrl(page[x].href, url)
            IN  IsLink(v) =>
                  \/ IsSeen(links, v)
                  \/ /\ Len(links) = MaxLinks
                     /\ \A i \in DOMAIN links :
                          \E q \in PlacesOf(links[i].url) : q < x
      BY <2>4 DEF LinksSoFar
    <3>2. QED
      BY <2>2, <3>1 DEF LinksSoFar
  <2>6. QED
    BY <2>1, <2>5 DEF next
<1>10. CASE n < MaxLinks /\ IsLink(u) /\ ~IsSeen(links, u)
  <2>1. next = Append(links, c)
    BY <1>6, <1>8, <1>10
  <2>2. GoodLink(c) /\ u \in LinkedUrls /\ c \in Link
    BY <1>4, <1>10 DEF GoodLink
  <2>3. /\ Len(next) = n + 1 /\ DOMAIN next = 1 .. n + 1
        /\ \A i \in 1 .. n : next[i] = links[i]
        /\ next[n + 1] = c
    BY <1>3, <2>1, <2>2, AppendProperties
  <2>4. \A i \in 1 .. n : links[i].url # u
    BY <1>3, <1>10 DEF IsSeen
  <2>5. \A v : IsSeen(links, v) => IsSeen(next, v)
    BY <1>3, <2>3 DEF IsSeen
  <2>6. IsSeen(next, u)
    BY <1>2, <1>3, <2>3 DEF IsSeen
  <2>7. Len(next) <= MaxLinks
    BY <1>3, <1>10, <2>3
  <2>8. ASSUME NEW i \in DOMAIN next
        PROVE  /\ GoodLink(next[i]) /\ next[i].url \in LinkedUrls
               /\ \E q \in PlacesOf(next[i].url) : q \in S \union {p} \union {0}
    <3>1. CASE i = n + 1
      BY <1>2, <1>5, <2>2, <2>3, <3>1
    <3>2. CASE i \in 1 .. n
      <4>1. next[i] = links[i] /\ i \in DOMAIN links
        BY <1>3, <2>3, <3>2
      <4>2. QED
        BY <4>1 DEF LinksSoFar
    <3>3. QED
      BY <1>3, <2>3, <3>1, <3>2
  <2>9. ASSUME NEW i \in DOMAIN next, NEW k \in DOMAIN next,
               next[i].url = next[k].url
        PROVE  i = k
    <3>1. (i = n + 1 \/ i \in 1 .. n) /\ (k = n + 1 \/ k \in 1 .. n)
      BY <1>3, <2>3
    <3>2. CASE i \in 1 .. n /\ k \in 1 .. n
      BY <1>3, <2>3, <2>9, <3>2 DEF LinksSoFar
    <3>3. CASE i = n + 1 \/ k = n + 1
      BY <1>2, <2>3, <2>4, <2>9, <3>1, <3>3
    <3>4. QED
      BY <3>1, <3>2, <3>3
  <2>10. \A i \in DOMAIN CanonicalLink : IsSeen(next, CanonicalLink[i].url)
    BY <2>5 DEF LinksSoFar
  <2>11. ASSUME NEW x \in S \union {p}, IsLink(NormalizeUrl(page[x].href, url))
         PROVE  IsSeen(next, NormalizeUrl(page[x].href, url))
    <3>1. CASE x = p
      BY <2>6, <3>1
    <3>2. CASE x \in S
      <4> DEFINE v == NormalizeUrl(page[x].href, url)
      <4>1. IsSeen(links, v) \/ Len(links) = MaxLinks
        BY <2>11, <3>2 DEF LinksSoFar
      <4>2. Len(links) # MaxLinks
        BY <1>8, <1>10
      <4>3. QED
        BY <2>5, <4>1, <4>2
    <3>3. QED
      BY <3>1, <3>2
  <2>12. LinksSoFar(next, S \union {p})
    BY <2>7, <2>8, <2>9, <2>10, <2>11 DEF LinksSoFar
  <2>13. QED
    BY <2>12 DEF next
<1>11. QED
  BY <1>8, <1>9, <1>10

\* What is known of the list when the loop ends.
LEMMA FoundLinksFacts ==
  ASSUME ScanTypeOK
  PROVE  FoundLinks \in Seq(Link) /\ LinksSoFar(FoundLinks, ShownAs("a"))
<1> DEFINE anchors == Tagged("a")
           n == Len(anchors)
           S == ShownAs("a")
<1>1. n \in Nat /\ DOMAIN anchors = 1 .. n
  BY TaggedPlaces
<1>2. PICK f \in [1 .. n -> S] :
        /\ \A k \in 1 .. n : anchors[k] = page[f[k]]
        /\ \A i \in S : \E k \in 1 .. n : f[k] = i
        /\ \A m, k \in 1 .. n : m < k <=> f[m] < f[k]
  BY <1>1, TaggedPlaces DEF Selects
<1>3. PICK run \in [0 .. n -> Seq(Link)] : IsLinksRun(run)
  BY LinksRun
<1>4. /\ run[0] = CanonicalLink /\ run[n] = FoundLinks
      /\ \A k \in 1 .. n : run[k] = Consider(run[k - 1], anchors[k])
  BY <1>3 DEF IsLinksRun
<1> HIDE DEF anchors, n, S
<1> DEFINE Before(k) == {f[m] : m \in 1 .. k}
           Good(k) == LinksSoFar(run[k], Before(k))
           Bad == {k \in 0 .. n : ~Good(k)}
<1>5. Good(0)
  <2>1. Before(0) = {}
    OBVIOUS
  <2>2. Len(CanonicalLink) <= MaxLinks
    <3>1. Len(CanonicalLink) <= 1 /\ Len(CanonicalLink) \in Nat
      BY CanonicalLinkFacts
    <3>2. QED
      BY <3>1, PageAssumption
  <2>3. \A i \in DOMAIN CanonicalLink :
          /\ GoodLink(CanonicalLink[i]) /\ CanonicalLink[i].url \in LinkedUrls
          /\ 0 \in PlacesOf(CanonicalLink[i].url)
    BY CanonicalLinkFacts
  <2>4. \A i, k \in DOMAIN CanonicalLink : i = k
    <3>1. CanonicalLink \in Seq(Link) /\ Len(CanonicalLink) <= 1
      BY CanonicalLinkFacts
    <3>2. QED
      BY <3>1
  <2>5. LinksSoFar(CanonicalLink, {})
    BY <2>2, <2>3, <2>4 DEF LinksSoFar, IsSeen
  <2>6. QED
    BY <1>4, <2>1, <2>5
<1>6. ASSUME NEW k \in 1 .. n, Good(k - 1) PROVE Good(k)
  <2>1. k - 1 \in 0 .. n /\ run[k - 1] \in Seq(Link)
    BY <1>1
  <2>2. /\ Before(k - 1) \in SUBSET S /\ f[k] \in S
        /\ \A q \in Before(k - 1) : q < f[k]
    BY <1>1, <1>2
  <2>3. Before(k) = Before(k - 1) \union {f[k]}
    <3>1. 1 .. k = (1 .. k - 1) \union {k}
      BY <1>1
    <3>2. QED
      BY <3>1
  <2>4. run[k] = Consider(run[k - 1], page[f[k]])
    BY <1>2, <1>4
  <2> HIDE DEF Before
  <2>5. LinksSoFar(run[k], Before(k - 1) \union {f[k]})
    BY <1>6, <2>1, <2>2, <2>4, ConsiderKeeps DEF S
  <2>6. QED
    BY <2>3, <2>5
<1> HIDE DEF Good
<1>7. Bad = {}
  <2> SUFFICES ASSUME Bad # {} PROVE FALSE
    OBVIOUS
  <2>1. Bad \in SUBSET Nat
    OBVIOUS
  <2>2. PICK k \in Bad : \A j \in Bad : k <= j
    <3> HIDE DEF Bad
    <3> QED
      BY <2>1, LeastNumber
  <2>3. k \in 1 .. n
    BY <1>1, <1>5, <2>2
  <2>4. Good(k - 1)
    BY <1>1, <2>2, <2>3
  <2>5. QED
    BY <1>6, <2>2, <2>3, <2>4
<1>8. Good(n)
  BY <1>1, <1>7
<1>9. Before(n) = S
  BY <1>2
<1>10. run[n] \in Seq(Link)
  BY <1>1
<1>11. QED
  BY <1>4, <1>8, <1>9, <1>10 DEF Good, S

\* What a link has.
LEMMA LinkParts ==
  ASSUME NEW link \in Link
  PROVE  link.url \in Address /\ link.priority \in Nat
<1>1. link.url \in Address /\ link.priority \in 10 .. 110
  BY DEF Link
<1>2. QED
  BY <1>1

\* For each place of a list of links the places after it, by priority.
PriorityOrder(links) ==
  [i \in DOMAIN links |->
     {k \in DOMAIN links :
        \/ links[i].priority > links[k].priority
        \/ links[i].priority = links[k].priority /\ i < k}]

\* What get_links returns is what was found, in that order.
LEMMA GetLinksOrder ==
  ASSUME ScanTypeOK
  PROVE  \E order :
           /\ IsListing(order, DOMAIN FoundLinks, PriorityOrder(FoundLinks))
           /\ GetLinks = [i \in DOMAIN FoundLinks |-> FoundLinks[order[i]]]
<1> DEFINE links == FoundLinks
           S == DOMAIN links
           R == PriorityOrder(links)
           Before(i, k) == \/ links[i].priority > links[k].priority
                           \/ links[i].priority = links[k].priority /\ i < k
           order == InOrder(S, Before)
<1>1. GetLinks = [i \in S |-> links[order[i]]]
  BY DEF GetLinks, ByPriority, FoundLinks
<1>2. links \in Seq(Link)
  BY FoundLinksFacts
<1> HIDE DEF links
<1>3. /\ S = 1 .. Len(links) /\ Len(links) \in Nat
      /\ \A i \in S : links[i].priority \in Nat
  <2>1. \A i \in S : links[i] \in Link
    BY <1>2
  <2>2. QED
    BY <1>2, <2>1, LinkParts
<1>4. IsFiniteSet(S)
  BY <1>3, FS_Interval
<1>5. \A i, k \in S : k \in R[i] <=> Before(i, k)
  BY DEF PriorityOrder
<1> HIDE DEF R
<1>6. IsOrder(R, S)
  <2>1. \A i \in S : ~Before(i, i)
    BY <1>3
  <2>2. \A i, k \in S : i = k \/ Before(i, k) \/ Before(k, i)
    BY <1>3
  <2>3. \A i, k, m \in S : Before(i, k) /\ Before(k, m) => Before(i, m)
    BY <1>3
  <2> HIDE DEF Before, S
  <2>4. QED
    BY <1>5, <2>1, <2>2, <2>3 DEF IsOrder
<1> HIDE DEF Before, S
<1>7. \A i \in S : Cardinality({k \in S : Before(k, i)}) = Rank(S, R, i)
  <2>1. \A i \in S : {k \in S : Before(k, i)} = {k \in S : i \in R[k]}
    BY <1>5
  <2>2. QED
    BY <2>1 DEF Rank
<1> DEFINE chosen(n) ==
      CHOOSE i \in S : Cardinality({k \in S : Before(k, i)}) = n - 1
<1>8. order = [n \in 1 .. Cardinality(S) |-> chosen(n)]
  BY DEF InOrder
<1>9. ASSUME NEW n, NEW i \in S, Rank(S, R, i) = n - 1
      PROVE  chosen(n) \in S /\ Rank(S, R, chosen(n)) = n - 1
  <2>1. \E k \in S : Cardinality({m \in S : Before(m, k)}) = n - 1
    BY <1>7, <1>9
  <2>2. chosen(n) \in S /\ Cardinality({m \in S : Before(m, chosen(n))}) = n - 1
    BY <2>1
  <2>3. QED
    BY <1>7, <2>2
<1> HIDE DEF order, chosen
<1>10. IsListing(order, S, R)
  <2>1. order = [n \in 1 .. Cardinality(S) |-> order[n]]
    BY <1>8
  <2>2. \A n \in 1 .. Cardinality(S), i \in S :
          Rank(S, R, i) = n - 1 =>
            order[n] \in S /\ Rank(S, R, order[n]) = n - 1
    BY <1>8, <1>9
  <2>3. QED
    BY <1>4, <1>6, <2>1, <2>2, Ranking
<1>11. QED
  BY <1>1, <1>10 DEF links, S, R

\* The result of get_links as a whole.
LEMMA GetLinksFacts ==
  ASSUME ScanTypeOK
  PROVE  \E order \in [DOMAIN FoundLinks -> DOMAIN FoundLinks] :
           /\ DOMAIN GetLinks = DOMAIN FoundLinks
           /\ \A i \in DOMAIN FoundLinks : GetLinks[i] = FoundLinks[order[i]]
           /\ \A i \in DOMAIN FoundLinks :
                \E k \in DOMAIN FoundLinks : order[k] = i
           /\ \A i, k \in DOMAIN FoundLinks :
                i < k => /\ order[i] # order[k]
                         /\ GetLinks[i].priority >= GetLinks[k].priority
<1> DEFINE links == FoundLinks
           S == DOMAIN links
           R == PriorityOrder(links)
<1>1. links \in Seq(Link)
  BY FoundLinksFacts
<1>2. PICK order : /\ IsListing(order, S, R)
                   /\ GetLinks = [i \in S |-> links[order[i]]]
  BY GetLinksOrder
<1> HIDE DEF links
<1>3. S = 1 .. Len(links) /\ Len(links) \in Nat
  BY <1>1
<1>4. Cardinality(S) = Len(links)
  <2> DEFINE n == Len(links)
  <2>1. S = 1 .. n /\ n \in Nat
    BY <1>3
  <2> HIDE DEF n, S
  <2>2. Cardinality(1 .. n) = n
    BY <2>1, FS_Interval
  <2>3. QED
    BY <2>1, <2>2 DEF n
<1>5. /\ order \in [S -> S]
      /\ \A i \in S : \E k \in S : order[k] = i
      /\ \A i, k \in S : i < k <=> order[k] \in R[order[i]]
  BY <1>2, <1>3, <1>4 DEF IsListing
<1>6. ASSUME NEW i \in S, NEW k \in S, i < k
      PROVE  /\ order[i] # order[k]
             /\ links[order[i]].priority >= links[order[k]].priority
  <2>1. order[i] \in S /\ order[k] \in S /\ order[k] \in R[order[i]]
    BY <1>5, <1>6
  <2>2. \/ links[order[i]].priority > links[order[k]].priority
        \/ /\ links[order[i]].priority = links[order[k]].priority
           /\ order[i] < order[k]
    BY <2>1 DEF PriorityOrder
  <2>3. /\ links[order[i]].priority \in Int /\ links[order[k]].priority \in Int
        /\ order[i] \in Int /\ order[k] \in Int
    <3>1. links[order[i]] \in Link /\ links[order[k]] \in Link
      BY <1>1, <2>1
    <3>2. QED
      BY <1>3, <2>1, <3>1, LinkParts
  <2>4. QED
    BY <2>2, <2>3
<1>7. DOMAIN GetLinks = S /\ \A i \in S : GetLinks[i] = links[order[i]]
  BY <1>2
<1> HIDE DEF S, R
<1>8. QED
  BY <1>5, <1>6, <1>7 DEF S, links

\* The links get_links returns are in normal form, different, within the scope,
\* and by priority, contact pages first.
THEOREM LinksWellFormedAlways == ScanSpec => []LinksWellFormed
<1>1. ASSUME ScanTypeOK PROVE LinksWellFormed
  <2> DEFINE links == FoundLinks
             S == DOMAIN links
  <2>1. LinksSoFar(links, ShownAs("a"))
    BY <1>1, FoundLinksFacts
  <2>2. PICK order \in [S -> S] :
          /\ DOMAIN GetLinks = S
          /\ \A i \in S : GetLinks[i] = links[order[i]]
          /\ \A i, k \in S : i < k =>
               /\ order[i] # order[k]
               /\ GetLinks[i].priority >= GetLinks[k].priority
    BY <1>1, GetLinksFacts
  <2> HIDE DEF links, S
  <2>3. \A i \in S : GoodLink(GetLinks[i])
    BY <2>1, <2>2 DEF LinksSoFar, S
  <2>4. \A i \in S : IsPageInScope(GetLinks[i].url)
    BY <2>3 DEF GoodLink
  <2>5. ASSUME NEW i \in S, NEW k \in S, i < k
        PROVE  /\ GetLinks[i].url # GetLinks[k].url
               /\ GetLinks[i].priority >= GetLinks[k].priority
               /\ IsContactUrl(GetLinks[k].url) => IsContactUrl(GetLinks[i].url)
    <3>1. /\ order[i] \in S /\ order[k] \in S /\ order[i] # order[k]
          /\ GetLinks[i].priority >= GetLinks[k].priority
      BY <2>2, <2>5
    <3>2. GetLinks[i].url # GetLinks[k].url
      BY <2>1, <2>2, <3>1 DEF LinksSoFar, S
    <3>3. ASSUME IsContactUrl(GetLinks[k].url), ~IsContactUrl(GetLinks[i].url)
          PROVE  FALSE
      <4>1. GetLinks[k].priority >= 100 /\ GetLinks[i].priority <= 60
        BY <2>3, <3>3 DEF GoodLink
      <4>2. GetLinks[k].priority \in Nat /\ GetLinks[i].priority \in Nat
        BY <2>3, LinkParts DEF GoodLink
      <4>3. QED
        BY <3>1, <4>1, <4>2
    <3>4. QED
      BY <3>1, <3>2, <3>3
  <2>6. QED
    BY <2>2, <2>4, <2>5 DEF LinksWellFormed, WellFormed
<1>2. QED
  BY <1>1, ScanTypeAlways, PTL

\* A link of the page is missing only if there are max_links before it.
THEOREM LinksCompleteAlways == ScanSpec => []LinksComplete
<1>1. ASSUME ScanTypeOK PROVE LinksComplete
  <2> DEFINE links == FoundLinks
             n == Len(links)
             listed == {link.url : link \in ToSet(GetLinks)}
  <2>1. LinksSoFar(links, ShownAs("a")) /\ links \in Seq(Link)
    BY <1>1, FoundLinksFacts
  <2>2. n \in Nat /\ DOMAIN links = 1 .. n
    BY <2>1
  <2>3. listed = {links[i].url : i \in 1 .. n}
    <3>1. PICK order \in [DOMAIN links -> DOMAIN links] :
            /\ DOMAIN GetLinks = DOMAIN links
            /\ \A i \in DOMAIN links : GetLinks[i] = links[order[i]]
            /\ \A i \in DOMAIN links : \E k \in DOMAIN links : order[k] = i
      BY <1>1, GetLinksFacts
    <3> HIDE DEF links
    <3>2. ToSet(GetLinks) = {links[i] : i \in 1 .. n}
      BY <2>2, <3>1 DEF ToSet
    <3>3. QED
      BY <3>2
  <2> HIDE DEF links, n, listed
  <2>4. IsFiniteSet(listed) /\ Cardinality(listed) = n
    <3> DEFINE f == [i \in 1 .. n |-> links[i].url]
    <3>1. f \in Bijection(1 .. n, listed)
      <4>1. f \in [1 .. n -> listed] /\ \A u \in listed : \E i \in 1 .. n : f[i] = u
        BY <2>3
      <4>2. \A i, k \in 1 .. n : f[i] = f[k] => i = k
        BY <2>1, <2>2 DEF LinksSoFar
      <4> HIDE DEF f
      <4>3. QED
        BY <4>1, <4>2 DEF Bijection, Injection, IsInjective, Surjection
    <3>2. IsFiniteSet(1 .. n) /\ Cardinality(1 .. n) = n
      BY <2>2, FS_Interval
    <3>3. QED
      BY <3>1, <3>2, FS_Bijection DEF ExistsBijection
  <2>5. listed \subseteq LinkedUrls
    BY <2>1, <2>2, <2>3 DEF LinksSoFar
  <2>6. n <= MaxLinks
    BY <2>1 DEF LinksSoFar, n
  <2>7. ASSUME NEW u \in LinkedUrls \ listed, NEW p \in PlacesOf(u)
        PROVE  /\ n = MaxLinks
               /\ \A v \in listed : \E k \in PlacesOf(v) : k < p
    <3>1. IsLink(u)
      BY <2>7 DEF LinkedUrls
    <3>2. \A i \in 1 .. n : links[i].url # u
      BY <2>3
    <3>3. ~IsSeen(links, u)
      BY <2>2, <3>2 DEF IsSeen
    <3>4. \A k \in FirstOf(ShownAs("canonical")) :
            NormalizeUrl(page[k].href, url) # u
      <4> SUFFICES ASSUME NEW k \in FirstOf(ShownAs("canonical")),
                          NormalizeUrl(page[k].href, url) = u
                   PROVE  FALSE
        OBVIOUS
      <4>1. PICK i \in DOMAIN CanonicalLink : CanonicalLink[i].url = u
        BY <1>1, <3>1, CanonicalLinkFacts
      <4>2. IsSeen(links, u)
        BY <2>1, <4>1 DEF LinksSoFar
      <4>3. QED
        BY <3>3, <4>2
    <3>5. p \in ShownAs("a") /\ NormalizeUrl(page[p].href, url) = u
      BY <3>4 DEF PlacesOf
    <3>6. /\ Len(links) = MaxLinks
          /\ \A i \in DOMAIN links : \E q \in PlacesOf(links[i].url) : q < p
      BY <2>1, <3>1, <3>3, <3>5 DEF LinksSoFar
    <3>7. QED
      BY <2>2, <2>3, <3>6 DEF n
  <2>8. ASSUME NEW u \in LinkedUrls \ listed PROVE n = MaxLinks
    <3>1. PICK i \in ShownAs("a") \union FirstOf(ShownAs("canonical")) :
            NormalizeUrl(page[i].href, url) = u
      BY <2>8 DEF LinkedUrls
    <3>2. PlacesOf(u) # {}
      BY <3>1 DEF PlacesOf
    <3>3. QED
      BY <2>7, <3>2
  <2>9. NoneMissing(listed)
    BY <2>4, <2>5, <2>6, <2>7, <2>8 DEF NoneMissing
  <2>10. QED
    BY <2>9 DEF LinksComplete, listed
<1>2. QED
  BY <1>1, ScanTypeAlways, PTL

-----------------------------------------------------------------------------
(***************************************************************************)
(* Hits.                                                                   *)
(***************************************************************************)

\* The contacts the extractors find, each by its kind.
ContactKey ==
  {"email"} \X STRING \union {"phone"} \X (Nat \X Nat)
    \union {"linkedin"} \X Seq(STRING)

\* The countries they give, or none.
AnyCountry ==
  Region \union {"none"} \union {CountryOf[n] : n \in DOMAIN CountryOf}

\* What they say of one.
ScanHit == [contact : ContactKey, confidence : 1 .. 100, country : AnyCountry]

\* What an extractor finds in one element: hits of its own kind.
OfKind(hits, kind) ==
  /\ hits \in Seq(ScanHit)
  /\ \A i \in DOMAIN hits : hits[i].contact[1] = kind

\* A confidence is a percentage.
LEMMA ConfidenceType ==
  ASSUME NEW source, NEW flag, NEW valid
  PROVE  /\ EmailConfidence(source, flag) \in 1 .. 100
         /\ PhoneConfidence(source, flag, valid) \in 1 .. 100
         /\ ProfileConfidence(source) \in 1 .. 100
BY DEF EmailConfidence, PhoneConfidence, ProfileConfidence

\* A hit of an email.
LEMMA EmailHitType ==
  ASSUME NEW m \in STRING, NEW source, NEW obfuscated
  PROVE  /\ EmailHit(m, source, obfuscated) \in ScanHit
         /\ EmailHit(m, source, obfuscated).contact = <<"email", m>>
<1>1. EmailConfidence(source, obfuscated) \in 1 .. 100
  BY ConfidenceType
<1>2. <<"email", m>> \in ContactKey
  BY DEF ContactKey
<1>3. QED
  BY <1>1, <1>2 DEF EmailHit, Hit, ScanHit, AnyCountry

\* The hits of a text's emails.
LEMMA EmailHitsType ==
  ASSUME NEW emails \in Seq(STRING), NEW source, NEW obfuscated
  PROVE  OfKind(EmailHits(emails, source, obfuscated), "email")
<1> DEFINE S == {i \in DOMAIN emails : IsEmail(emails[i])}
           places == InOrder(S, <)
           valid == Keep(emails, IsEmail)
           hits == EmailHits(emails, source, obfuscated)
<1>1. valid = [n \in DOMAIN places |-> emails[places[n]]]
  BY DEF Keep
<1>2. S \in SUBSET DOMAIN emails
  OBVIOUS
<1>3. hits = [i \in DOMAIN valid |-> EmailHit(valid[i], source, obfuscated)]
  BY DEF EmailHits
<1> HIDE DEF S, valid, hits
<1>4. IsListing(places, S, NumberOrder(S))
  BY <1>2, PlacesInOrder
<1> HIDE DEF places
<1>5. valid \in Seq(STRING)
  BY <1>1, <1>2, <1>4, AtPlaces
<1>6. /\ Len(valid) \in Nat /\ DOMAIN valid = 1 .. Len(valid)
      /\ \A i \in 1 .. Len(valid) : valid[i] \in STRING
  BY <1>5
<1>7. \A i \in 1 .. Len(valid) :
        /\ EmailHit(valid[i], source, obfuscated) \in ScanHit
        /\ EmailHit(valid[i], source, obfuscated).contact[1] = "email"
  <2> SUFFICES ASSUME NEW m \in STRING
               PROVE  /\ EmailHit(m, source, obfuscated) \in ScanHit
                      /\ EmailHit(m, source, obfuscated).contact[1] = "email"
    BY <1>6
  <2>1. EmailHit(m, source, obfuscated).contact = <<"email", m>>
    BY EmailHitType
  <2>2. QED
    BY <2>1, EmailHitType
<1>8. hits \in [1 .. Len(valid) -> ScanHit]
  BY <1>3, <1>6, <1>7
<1>9. QED
  BY <1>3, <1>6, <1>7, <1>8 DEF OfKind, hits

\* The default region is one.
LEMMA RegionType == DefaultRegion \in Region
<1>1. "US" \in Region /\ \A label \in DOMAIN RegionOf : RegionOf[label] \in Region
  BY PageAssumption
<1>2. QED
  BY <1>1 DEF DefaultRegion

\* A number in E.164 and its country.
LEMMA NumberType ==
  ASSUME NEW phone \in Phone
  PROVE  /\ E164(phone) \in Nat \X Nat
         /\ Country(E164(phone)) \in AnyCountry
<1> DEFINE n == E164(phone)
<1>1. /\ phone.code \in Nat /\ phone.national \in Nat
      /\ CallingCode[DefaultRegion] \in Nat
  BY RegionType, PageAssumption DEF Phone
<1>2. n \in Nat \X Nat
  BY <1>1 DEF E164
<1> HIDE DEF n
<1>3. Country(n) \in AnyCountry
  BY RegionType DEF Country, AnyCountry
<1>4. QED
  BY <1>2, <1>3 DEF n

\* The hits of phone numbers.
LEMMA PhoneHitsType ==
  ASSUME NEW phones \in Seq(Phone), NEW source
  PROVE  OfKind(PhoneHits(phones, source), "phone")
<1> DEFINE S == {i \in DOMAIN phones : IsPhone(phones[i])}
           places == InOrder(S, <)
           kept == Keep(phones, IsPhone)
           hits == PhoneHits(phones, source)
           HitOf(phone) ==
             Hit(<<"phone", E164(phone)>>,
                 PhoneConfidence(source, phone.prefix = "plus", E164(phone) \in Valid),
                 Country(E164(phone)))
<1>1. kept = [n \in DOMAIN places |-> phones[places[n]]]
  BY DEF Keep
<1>2. S \in SUBSET DOMAIN phones
  OBVIOUS
<1>3. hits = [i \in DOMAIN kept |-> HitOf(kept[i])]
  BY DEF PhoneHits
<1>4. ASSUME NEW phone \in Phone
      PROVE  HitOf(phone) \in ScanHit /\ HitOf(phone).contact[1] = "phone"
  <2> DEFINE n == E164(phone)
             c == PhoneConfidence(source, phone.prefix = "plus", n \in Valid)
             region == Country(n)
  <2>1. c \in 1 .. 100
    BY ConfidenceType
  <2>2. n \in Nat \X Nat /\ region \in AnyCountry
    BY NumberType
  <2>3. HitOf(phone) = [contact |-> <<"phone", n>>, confidence |-> c,
                        country |-> region]
    BY DEF Hit
  <2> HIDE DEF n, c, region, HitOf
  <2>4. <<"phone", n>> \in ContactKey
    BY <2>2 DEF ContactKey
  <2>5. QED
    BY <2>1, <2>2, <2>3, <2>4 DEF ScanHit
<1> HIDE DEF S, kept, hits, HitOf
<1>5. IsListing(places, S, NumberOrder(S))
  BY <1>2, PlacesInOrder
<1> HIDE DEF places
<1>6. kept \in Seq(Phone)
  BY <1>1, <1>2, <1>5, AtPlaces
<1>7. /\ Len(kept) \in Nat /\ DOMAIN kept = 1 .. Len(kept)
      /\ \A i \in 1 .. Len(kept) : kept[i] \in Phone
  BY <1>6
<1>8. hits \in [1 .. Len(kept) -> ScanHit]
  BY <1>3, <1>4, <1>7
<1>9. QED
  BY <1>3, <1>4, <1>7, <1>8 DEF OfKind, hits

\* The hits of profiles.
LEMMA ProfileHitsType ==
  ASSUME NEW hrefs \in Seq(Href), NEW source
  PROVE  OfKind(ProfileHits(hrefs, source), "linkedin")
<1> DEFINE S == {i \in DOMAIN hrefs : IsProfile(hrefs[i])}
           places == InOrder(S, <)
           kept == Keep(hrefs, IsProfile)
           hits == ProfileHits(hrefs, source)
           HitOf(u) ==
             Hit(<<"linkedin", ProfileOf(u)>>, ProfileConfidence(source), "none")
<1>1. kept = [n \in DOMAIN places |-> hrefs[places[n]]]
  BY DEF Keep
<1>2. S \in SUBSET DOMAIN hrefs
  OBVIOUS
<1>3. hits = [i \in DOMAIN kept |-> HitOf(kept[i])]
  BY DEF ProfileHits
<1>4. ASSUME NEW u \in Href
      PROVE  HitOf(u) \in ScanHit /\ HitOf(u).contact[1] = "linkedin"
  <2> DEFINE profile == ProfileOf(u)
             c == ProfileConfidence(source)
             first == SelectInSeq(u.segments, LAMBDA s : s # "")
  <2>1. u.segments \in Seq(STRING)
    BY DEF Href
  <2>2. profile = IF first \in 1 .. Len(u.segments) - 1
                    THEN SubSeq(u.segments, first, first + 1) ELSE <<>>
    BY DEF ProfileOf
  <2> HIDE DEF first
  <2>3. profile \in Seq(STRING)
    <3>1. CASE first \in 1 .. Len(u.segments) - 1
      <4>1. /\ first \in Int /\ first + 1 \in Int
            /\ \A i \in first .. first + 1 : u.segments[i] \in STRING
        BY <2>1, <3>1
      <4>2. SubSeq(u.segments, first, first + 1) \in Seq(STRING)
        BY <4>1, SubSeqProperties
      <4>3. QED
        BY <2>2, <3>1, <4>2
    <3>2. CASE first \notin 1 .. Len(u.segments) - 1
      BY <2>2, <3>2, EmptySeq
    <3>3. QED
      BY <3>1, <3>2
  <2>4. c \in 1 .. 100
    BY ConfidenceType
  <2>5. HitOf(u) = [contact |-> <<"linkedin", profile>>, confidence |-> c,
                    country |-> "none"]
    BY DEF Hit
  <2> HIDE DEF profile, c, HitOf
  <2>6. <<"linkedin", profile>> \in ContactKey
    BY <2>3 DEF ContactKey
  <2>7. QED
    BY <2>4, <2>5, <2>6 DEF ScanHit, AnyCountry
<1> HIDE DEF S, kept, hits, HitOf
<1>5. IsListing(places, S, NumberOrder(S))
  BY <1>2, PlacesInOrder
<1> HIDE DEF places
<1>6. kept \in Seq(Href)
  BY <1>1, <1>2, <1>5, AtPlaces
<1>7. /\ Len(kept) \in Nat /\ DOMAIN kept = 1 .. Len(kept)
      /\ \A i \in 1 .. Len(kept) : kept[i] \in Href
  BY <1>6
<1>8. hits \in [1 .. Len(kept) -> ScanHit]
  BY <1>3, <1>4, <1>7
<1>9. QED
  BY <1>3, <1>4, <1>7, <1>8 DEF OfKind, hits

\* Hits of one kind make a list of that kind.
LEMMA KindsJoin ==
  ASSUME NEW kind, NEW a, OfKind(a, kind), NEW b, OfKind(b, kind)
  PROVE  OfKind(a \o b, kind)
<1>1. a \in Seq(ScanHit) /\ b \in Seq(ScanHit)
  BY DEF OfKind
<1>2. /\ Len(a) \in Nat /\ DOMAIN a = 1 .. Len(a)
      /\ Len(b) \in Nat /\ DOMAIN b = 1 .. Len(b)
  BY <1>1
<1>3. /\ a \o b \in Seq(ScanHit) /\ Len(a \o b) = Len(a) + Len(b)
      /\ \A i \in 1 .. Len(a) + Len(b) :
           (a \o b)[i] = IF i <= Len(a) THEN a[i] ELSE b[i - Len(a)]
  BY <1>1, ConcatProperties
<1>4. DOMAIN (a \o b) = 1 .. Len(a) + Len(b)
  BY <1>3
<1>5. ASSUME NEW i \in DOMAIN (a \o b)
      PROVE  \/ \E k \in DOMAIN a : (a \o b)[i] = a[k]
             \/ \E k \in DOMAIN b : (a \o b)[i] = b[k]
  <2>1. i \in 1 .. Len(a) + Len(b)
    BY <1>4
  <2>2. CASE i <= Len(a)
    <3>1. i \in 1 .. Len(a)
      BY <1>2, <2>1, <2>2
    <3>2. QED
      BY <1>2, <1>3, <2>1, <2>2, <3>1
  <2>3. CASE ~(i <= Len(a))
    <3>1. i - Len(a) \in 1 .. Len(b)
      BY <1>2, <2>1, <2>3
    <3>2. QED
      BY <1>2, <1>3, <2>1, <2>3, <3>1
  <2>4. QED
    BY <2>2, <2>3
<1>6. QED
  BY <1>3, <1>5 DEF OfKind

\* What each element gives the extractors.
LEMMA ElementHits ==
  ASSUME NEW e \in Element
  PROVE  /\ e.tag = "mailto" => /\ MailtoHit(e) \in ScanHit
                                /\ MailtoHit(e).contact = <<"email", e.email>>
         /\ e.tag = "tel" => OfKind(TelHits(e), "phone")
         /\ e.tag = "a" => OfKind(ProfileAnchorHits(e), "linkedin")
         /\ e.tag = "text" => /\ OfKind(EmailTextHits(e), "email")
                              /\ OfKind(PhoneTextHits(e), "phone")
                              /\ OfKind(ProfileTextHits(e), "linkedin")
<1>1. ASSUME e.tag = "mailto"
      PROVE  /\ MailtoHit(e) \in ScanHit
             /\ MailtoHit(e).contact = <<"email", e.email>>
  <2>1. e.email \in STRING
    BY <1>1, ElementParts
  <2>2. QED
    BY <2>1, EmailHitType DEF MailtoHit
<1>2. ASSUME e.tag = "tel" PROVE OfKind(TelHits(e), "phone")
  <2>1. <<e.phone>> \in Seq(Phone)
    BY <1>2, ElementParts
  <2>2. QED
    BY <2>1, PhoneHitsType DEF TelHits
<1>3. ASSUME e.tag = "a" PROVE OfKind(ProfileAnchorHits(e), "linkedin")
  <2>1. <<e.href>> \in Seq(Href)
    BY <1>3, ElementParts
  <2>2. QED
    BY <2>1, ProfileHitsType DEF ProfileAnchorHits
<1>4. ASSUME e.tag = "text" PROVE OfKind(EmailTextHits(e), "email")
  <2> DEFINE plain == EmailHits(e.emails, TextSource(e), FALSE)
             hidden == EmailHits(e.obfuscated, TextSource(e), TRUE)
  <2>1. OfKind(plain, "email") /\ OfKind(hidden, "email")
    BY <1>4, ElementParts, EmailHitsType
  <2>2. EmailTextHits(e) = plain \o hidden
    BY DEF EmailTextHits
  <2> HIDE DEF plain, hidden
  <2>3. QED
    BY <2>1, <2>2, KindsJoin
<1>5. ASSUME e.tag = "text" PROVE OfKind(PhoneTextHits(e), "phone")
  BY <1>5, ElementParts, PhoneHitsType DEF PhoneTextHits
<1>6. ASSUME e.tag = "text" PROVE OfKind(ProfileTextHits(e), "linkedin")
  BY <1>6, ElementParts, ProfileHitsType DEF ProfileTextHits
<1>7. QED
  BY <1>1, <1>2, <1>3, <1>4, <1>5, <1>6

-----------------------------------------------------------------------------
(***************************************************************************)
(* The loops of the extractors: over the hits of one element, and over the *)
(* elements.                                                               *)
(***************************************************************************)

\* The list has the contact c.
Mentioned(list, c) == \E i \in DOMAIN list : list[i].contact = c

\* The list before the first turn, after each one, and at the end.
IsHitsRun(run, list, hits) ==
  /\ run[0] = list
  /\ \A k \in 1 .. Len(hits) : run[k] = AddUnseen(run[k - 1], hits[k])
  /\ run[Len(hits)] = AddAll(list, hits)

\* AddAll is a run of that loop.
LEMMA HitsRun ==
  ASSUME NEW list \in Seq(ScanHit), NEW hits \in Seq(ScanHit)
  PROVE  \E run \in [0 .. Len(hits) -> Seq(ScanHit)] :
           IsHitsRun(run, list, hits)
<1> DEFINE n == Len(hits)
           State == Seq(ScanHit)
           step == [a \in (1 .. n) \X State |-> AddUnseen(a[2], hits[a[1]])]
           loop(g) == [s \in SUBSET DOMAIN hits |->
                         IF s = {} THEN list
                         ELSE AddUnseen(g[s \ {Max(s)}], hits[Max(s)])]
           fold == CHOOSE g : g = loop(g)
<1>1. AddAll(list, hits) = fold[DOMAIN hits]
  BY DEF AddAll, FoldLeft, MapThenFoldSet
<1>2. n \in Nat /\ DOMAIN hits = 1 .. n /\ \A i \in 1 .. n : hits[i] \in ScanHit
  OBVIOUS
<1>3. \A l \in State, hit \in ScanHit : AddUnseen(l, hit) \in State
  BY AppendProperties DEF AddUnseen
<1>4. list \in State /\ step \in [(1 .. n) \X State -> State]
  BY <1>2, <1>3
<1>5. \A i \in 1 .. n, l \in State : step[<<i, l>>] = AddUnseen(l, hits[i])
  OBVIOUS
<1> HIDE DEF n, step, State
<1>6. PICK g \in [SUBSET (1 .. n) -> State] : FoldsBy(g, n, list, step)
  BY <1>2, <1>4, FoldSolution
<1>7. \A s \in SUBSET (1 .. n) : s # {} => Max(s) \in 1 .. n
  BY <1>2, MaxOfRange
<1>8. g = loop(g)
  <2>1. ASSUME NEW s \in SUBSET (1 .. n), s # {}
        PROVE  g[s] = AddUnseen(g[s \ {Max(s)}], hits[Max(s)])
    <3>1. g[s \ {Max(s)}] \in State
      OBVIOUS
    <3>2. QED
      BY <1>5, <1>6, <1>7, <2>1, <3>1 DEF FoldsBy
  <2>2. \A s \in SUBSET (1 .. n) : s = {} => g[s] = list
    BY <1>6 DEF FoldsBy
  <2>3. QED
    BY <1>2, <2>1, <2>2
<1>9. fold = loop(fold)
  BY <1>8
<1> HIDE DEF fold
<1>10. FoldsWithin(fold, n, State, list, step)
  <2>1. fold[{}] = list
    BY <1>9
  <2>2. ASSUME NEW s \in SUBSET (1 .. n), s # {}, fold[s \ {Max(s)}] \in State
        PROVE  fold[s] = step[<<Max(s), fold[s \ {Max(s)}]>>]
    BY <1>2, <1>5, <1>7, <1>9, <2>2
  <2>3. QED
    BY <2>1, <2>2 DEF FoldsWithin
<1>11. PICK run \in [0 .. n -> State] : IsRun(run, n, list, step, fold[1 .. n])
  BY <1>2, <1>4, <1>10, FoldRuns
<1>12. ASSUME NEW k \in 1 .. n PROVE run[k] = AddUnseen(run[k - 1], hits[k])
  <2>1. run[k - 1] \in State
    BY <1>2
  <2>2. QED
    BY <1>5, <1>11, <2>1 DEF IsRun
<1>13. run[0] = list /\ run[n] = AddAll(list, hits)
  BY <1>1, <1>2, <1>11 DEF IsRun
<1>14. QED
  BY <1>11, <1>12, <1>13 DEF n, State, IsRun, IsHitsRun

\* result is list with what the first k hits add: the first hit of each contact
\* that list does not have.
Extends(result, list, hits, k) ==
  /\ Len(list) <= Len(result)
  /\ \A i \in 1 .. Len(list) : result[i] = list[i]
  /\ \A i \in Len(list) + 1 .. Len(result) :
       /\ \A j \in 1 .. i - 1 : result[j].contact # result[i].contact
       /\ \E n \in 1 .. k :
            /\ result[i] = hits[n]
            /\ \A m \in 1 .. n - 1 : hits[m].contact # hits[n].contact
  /\ \A n \in 1 .. k : Mentioned(result, hits[n].contact)

\* One more hit.
LEMMA AddUnseenExtends ==
  ASSUME NEW list \in Seq(ScanHit), NEW hits \in Seq(ScanHit),
         NEW k \in 1 .. Len(hits), NEW sofar \in Seq(ScanHit),
         Extends(sofar, list, hits, k - 1)
  PROVE  Extends(AddUnseen(sofar, hits[k]), list, hits, k)
<1> DEFINE n == Len(sofar)
           hit == hits[k]
           next == AddUnseen(sofar, hit)
<1>1. /\ n \in Nat /\ DOMAIN sofar = 1 .. n /\ Len(list) \in Nat
      /\ k \in Nat /\ hit \in ScanHit
  OBVIOUS
<1>2. /\ Len(list) <= n
      /\ \A i \in 1 .. Len(list) : sofar[i] = list[i]
      /\ \A i \in Len(list) + 1 .. n :
           /\ \A j \in 1 .. i - 1 : sofar[j].contact # sofar[i].contact
           /\ \E m \in 1 .. k - 1 :
                /\ sofar[i] = hits[m]
                /\ \A j \in 1 .. m - 1 : hits[j].contact # hits[m].contact
      /\ \A m \in 1 .. k - 1 : Mentioned(sofar, hits[m].contact)
  BY DEF Extends
<1>3. next = IF Mentioned(sofar, hit.contact) THEN sofar ELSE Append(sofar, hit)
  BY DEF AddUnseen, Mentioned
<1>4. \A m \in 1 .. k : m \in 1 .. k - 1 \/ m = k
  BY <1>1
<1>5. \A m \in 1 .. k - 1 : m \in 1 .. k
  BY <1>1
<1> HIDE DEF n, next
<1>6. CASE Mentioned(sofar, hit.contact)
  <2>1. next = sofar
    BY <1>3, <1>6
  <2>2. \A m \in 1 .. k : Mentioned(sofar, hits[m].contact)
    BY <1>2, <1>4, <1>6
  <2>3. \A i \in Len(list) + 1 .. n :
          /\ \A j \in 1 .. i - 1 : sofar[j].contact # sofar[i].contact
          /\ \E m \in 1 .. k :
               /\ sofar[i] = hits[m]
               /\ \A j \in 1 .. m - 1 : hits[j].contact # hits[m].contact
    BY <1>2, <1>5
  <2>4. Extends(sofar, list, hits, k)
    BY <1>2, <2>2, <2>3 DEF Extends, n
  <2>5. QED
    BY <2>1, <2>4 DEF next
<1>7. CASE ~Mentioned(sofar, hit.contact)
  <2>1. next = Append(sofar, hit)
    BY <1>3, <1>7
  <2>2. /\ Len(next) = n + 1 /\ DOMAIN next = 1 .. n + 1
        /\ \A i \in 1 .. n : next[i] = sofar[i]
        /\ next[n + 1] = hit
    BY <1>1, <2>1, AppendProperties DEF n
  <2>3. \A i \in 1 .. n : sofar[i].contact # hit.contact
    BY <1>1, <1>7 DEF Mentioned
  <2>4. \A m \in 1 .. k - 1 : hits[m].contact # hit.contact
    BY <1>2, <1>7
  <2>5. \A m \in 1 .. k : Mentioned(next, hits[m].contact)
    <3>1. \A c : Mentioned(sofar, c) => Mentioned(next, c)
      BY <1>1, <2>2 DEF Mentioned
    <3>2. Mentioned(next, hit.contact)
      BY <1>1, <2>2 DEF Mentioned
    <3>3. QED
      BY <1>2, <1>4, <3>1, <3>2
  <2>6. ASSUME NEW i \in Len(list) + 1 .. n + 1
        PROVE  /\ \A j \in 1 .. i - 1 : next[j].contact # next[i].contact
               /\ \E m \in 1 .. k :
                    /\ next[i] = hits[m]
                    /\ \A j \in 1 .. m - 1 : hits[j].contact # hits[m].contact
    <3>1. CASE i = n + 1
      <4>1. \A j \in 1 .. i - 1 : j \in 1 .. n
        BY <1>1, <3>1
      <4>2. k \in 1 .. k
        BY <1>1
      <4>3. QED
        BY <2>2, <2>3, <2>4, <3>1, <4>1, <4>2
    <3>2. CASE i # n + 1
      <4>1. i \in Len(list) + 1 .. n /\ i \in 1 .. n
        BY <1>1, <3>2
      <4>2. \A j \in 1 .. i - 1 : j \in 1 .. n
        BY <1>1, <4>1
      <4>3. next[i] = sofar[i] /\ \A j \in 1 .. i - 1 : next[j] = sofar[j]
        BY <2>2, <4>1, <4>2
      <4>4. \A j \in 1 .. i - 1 : next[j].contact # next[i].contact
        BY <1>2, <4>1, <4>3
      <4>5. PICK m \in 1 .. k - 1 :
              /\ sofar[i] = hits[m]
              /\ \A j \in 1 .. m - 1 : hits[j].contact # hits[m].contact
        BY <1>2, <4>1
      <4>6. QED
        BY <1>5, <4>3, <4>4, <4>5
    <3>3. QED
      BY <3>1, <3>2
  <2>7. Len(list) <= Len(next) /\ \A i \in 1 .. Len(list) : next[i] = list[i]
    <3>1. Len(list) <= n + 1 /\ \A i \in 1 .. Len(list) : i \in 1 .. n
      BY <1>1, <1>2
    <3>2. QED
      BY <1>2, <2>2, <3>1
  <2>8. Extends(next, list, hits, k)
    BY <2>2, <2>5, <2>6, <2>7 DEF Extends
  <2>9. QED
    BY <2>8 DEF next
<1>8. QED
  BY <1>6, <1>7

\* What the loop over the hits of one element adds.
LEMMA AddAllExtends ==
  ASSUME NEW list \in Seq(ScanHit), NEW hits \in Seq(ScanHit)
  PROVE  /\ AddAll(list, hits) \in Seq(ScanHit)
         /\ Extends(AddAll(list, hits), list, hits, Len(hits))
<1> DEFINE n == Len(hits)
<1>1. n \in Nat /\ Len(list) \in Nat
  OBVIOUS
<1>2. PICK run \in [0 .. n -> Seq(ScanHit)] : IsHitsRun(run, list, hits)
  BY HitsRun
<1>3. /\ run[0] = list /\ run[n] = AddAll(list, hits)
      /\ \A k \in 1 .. n : run[k] = AddUnseen(run[k - 1], hits[k])
  BY <1>2 DEF IsHitsRun
<1> DEFINE Good(k) == Extends(run[k], list, hits, k)
           Bad == {k \in 0 .. n : ~Good(k)}
<1>4. Good(0)
  <2>1. Extends(list, list, hits, 0)
    BY <1>1 DEF Extends
  <2>2. QED
    BY <1>3, <2>1
<1>5. ASSUME NEW k \in 1 .. n, Good(k - 1) PROVE Good(k)
  <2>1. run[k - 1] \in Seq(ScanHit)
    BY <1>1
  <2>2. QED
    BY <1>3, <1>5, <2>1, AddUnseenExtends
<1> HIDE DEF Good, n
<1>6. Bad = {}
  <2> SUFFICES ASSUME Bad # {} PROVE FALSE
    OBVIOUS
  <2>1. Bad \in SUBSET Nat
    OBVIOUS
  <2>2. PICK k \in Bad : \A j \in Bad : k <= j
    <3> HIDE DEF Bad
    <3> QED
      BY <2>1, LeastNumber
  <2>3. k \in 1 .. n
    BY <1>1, <1>4, <2>2
  <2>4. Good(k - 1)
    BY <1>1, <2>2, <2>3
  <2>5. QED
    BY <1>5, <2>2, <2>3, <2>4
<1>7. Good(n) /\ run[n] \in Seq(ScanHit)
  BY <1>1, <1>6
<1>8. QED
  BY <1>3, <1>7 DEF Good, n

\* The list before the first element, after each one, and at the end.
IsElementsRun(run, list, hitLists) ==
  /\ run[0] = list
  /\ \A k \in 1 .. Len(hitLists) : run[k] = AddAll(run[k - 1], hitLists[k])
  /\ run[Len(hitLists)] = Collect(list, hitLists)

\* Collect is a run of that loop.
LEMMA ElementsRun ==
  ASSUME NEW list \in Seq(ScanHit), NEW hitLists \in Seq(Seq(ScanHit))
  PROVE  \E run \in [0 .. Len(hitLists) -> Seq(ScanHit)] :
           IsElementsRun(run, list, hitLists)
<1> DEFINE n == Len(hitLists)
           State == Seq(ScanHit)
           step == [a \in (1 .. n) \X State |-> AddAll(a[2], hitLists[a[1]])]
           loop(g) == [s \in SUBSET DOMAIN hitLists |->
                         IF s = {} THEN list
                         ELSE AddAll(g[s \ {Max(s)}], hitLists[Max(s)])]
           fold == CHOOSE g : g = loop(g)
<1>1. Collect(list, hitLists) = fold[DOMAIN hitLists]
  BY DEF Collect, FoldLeft, MapThenFoldSet
<1>2. n \in Nat /\ DOMAIN hitLists = 1 .. n /\ \A i \in 1 .. n : hitLists[i] \in Seq(ScanHit)
  OBVIOUS
<1>3. \A l \in State, hits \in Seq(ScanHit) : AddAll(l, hits) \in State
  BY AddAllExtends
<1>4. list \in State /\ step \in [(1 .. n) \X State -> State]
  BY <1>2, <1>3
<1>5. \A i \in 1 .. n, l \in State : step[<<i, l>>] = AddAll(l, hitLists[i])
  OBVIOUS
<1> HIDE DEF n, step, State
<1>6. PICK g \in [SUBSET (1 .. n) -> State] : FoldsBy(g, n, list, step)
  BY <1>2, <1>4, FoldSolution
<1>7. \A s \in SUBSET (1 .. n) : s # {} => Max(s) \in 1 .. n
  BY <1>2, MaxOfRange
<1>8. g = loop(g)
  <2>1. ASSUME NEW s \in SUBSET (1 .. n), s # {}
        PROVE  g[s] = AddAll(g[s \ {Max(s)}], hitLists[Max(s)])
    <3>1. g[s \ {Max(s)}] \in State
      OBVIOUS
    <3>2. QED
      BY <1>5, <1>6, <1>7, <2>1, <3>1 DEF FoldsBy
  <2>2. \A s \in SUBSET (1 .. n) : s = {} => g[s] = list
    BY <1>6 DEF FoldsBy
  <2>3. QED
    BY <1>2, <2>1, <2>2
<1>9. fold = loop(fold)
  BY <1>8
<1> HIDE DEF fold
<1>10. FoldsWithin(fold, n, State, list, step)
  <2>1. fold[{}] = list
    BY <1>9
  <2>2. ASSUME NEW s \in SUBSET (1 .. n), s # {}, fold[s \ {Max(s)}] \in State
        PROVE  fold[s] = step[<<Max(s), fold[s \ {Max(s)}]>>]
    BY <1>2, <1>5, <1>7, <1>9, <2>2
  <2>3. QED
    BY <2>1, <2>2 DEF FoldsWithin
<1>11. PICK run \in [0 .. n -> State] : IsRun(run, n, list, step, fold[1 .. n])
  BY <1>2, <1>4, <1>10, FoldRuns
<1>12. ASSUME NEW k \in 1 .. n PROVE run[k] = AddAll(run[k - 1], hitLists[k])
  <2>1. run[k - 1] \in State
    BY <1>2
  <2>2. QED
    BY <1>5, <1>11, <2>1 DEF IsRun
<1>13. run[0] = list /\ run[n] = Collect(list, hitLists)
  BY <1>1, <1>2, <1>11 DEF IsRun
<1>14. QED
  BY <1>11, <1>12, <1>13 DEF n, State, IsRun, IsElementsRun

\* The contact is said first of in element m, in the hit n.
FirstSaid(hitLists, m, n) ==
  LET c == hitLists[m][n].contact
  IN  /\ \A j \in 1 .. n - 1 : hitLists[m][j].contact # c
      /\ \A l \in 1 .. m - 1 : ~Mentioned(hitLists[l], c)

\* result is list with what the first k elements add.
Collects(result, list, hitLists, k) ==
  /\ Len(list) <= Len(result)
  /\ \A i \in 1 .. Len(list) : result[i] = list[i]
  /\ \A i \in Len(list) + 1 .. Len(result) :
       /\ \A j \in 1 .. i - 1 : result[j].contact # result[i].contact
       /\ \E m \in 1 .. k : \E n \in DOMAIN hitLists[m] :
            result[i] = hitLists[m][n] /\ FirstSaid(hitLists, m, n)
  /\ \A m \in 1 .. k : \A n \in DOMAIN hitLists[m] :
       Mentioned(result, hitLists[m][n].contact)

\* One more element.
LEMMA AddAllCollects ==
  ASSUME NEW list \in Seq(ScanHit), NEW hitLists \in Seq(Seq(ScanHit)),
         NEW k \in 1 .. Len(hitLists), NEW sofar \in Seq(ScanHit),
         Collects(sofar, list, hitLists, k - 1)
  PROVE  Collects(AddAll(sofar, hitLists[k]), list, hitLists, k)
<1> DEFINE n == Len(sofar)
           hits == hitLists[k]
           next == AddAll(sofar, hits)
<1>1. /\ n \in Nat /\ DOMAIN sofar = 1 .. n /\ Len(list) \in Nat
      /\ k \in Nat /\ hits \in Seq(ScanHit)
  OBVIOUS
<1>2. Len(hits) \in Nat /\ DOMAIN hits = 1 .. Len(hits)
  BY <1>1
<1>3. next \in Seq(ScanHit) /\ Extends(next, sofar, hits, Len(hits))
  BY <1>1, AddAllExtends
<1>4. Len(next) \in Nat /\ DOMAIN next = 1 .. Len(next)
  BY <1>3
<1>5. /\ Len(list) <= n
      /\ \A i \in 1 .. Len(list) : sofar[i] = list[i]
  BY DEF Collects
<1>6. ASSUME NEW i \in Len(list) + 1 .. n
      PROVE  /\ \A j \in 1 .. i - 1 : sofar[j].contact # sofar[i].contact
             /\ \E m \in 1 .. k - 1 : \E x \in DOMAIN hitLists[m] :
                  sofar[i] = hitLists[m][x] /\ FirstSaid(hitLists, m, x)
  BY DEF Collects
<1>7. \A m \in 1 .. k - 1 : \A x \in DOMAIN hitLists[m] :
        Mentioned(sofar, hitLists[m][x].contact)
  BY DEF Collects
<1> HIDE DEF n, next
<1>8. n <= Len(next) /\ \A i \in 1 .. n : next[i] = sofar[i]
  BY <1>3 DEF Extends, n
<1>9. \A i \in n + 1 .. Len(next) :
        /\ \A j \in 1 .. i - 1 : next[j].contact # next[i].contact
        /\ \E x \in 1 .. Len(hits) :
             /\ next[i] = hits[x]
             /\ \A j \in 1 .. x - 1 : hits[j].contact # hits[x].contact
  BY <1>3 DEF Extends, n
<1>10. \A x \in DOMAIN hits : Mentioned(next, hits[x].contact)
  BY <1>2, <1>3 DEF Extends
<1>11. \A m \in 1 .. k : m \in 1 .. k - 1 \/ m = k
  BY <1>1
<1>12. \A m \in 1 .. k - 1 : m \in 1 .. k
  BY <1>1
<1>13. Len(list) <= Len(next) /\ \A i \in 1 .. Len(list) : next[i] = list[i]
  <2>1. Len(list) <= Len(next) /\ \A i \in 1 .. Len(list) : i \in 1 .. n
    BY <1>1, <1>4, <1>5, <1>8
  <2>2. QED
    BY <1>5, <1>8, <2>1
<1>14. ASSUME NEW i \in Len(list) + 1 .. Len(next)
       PROVE  /\ \A j \in 1 .. i - 1 : next[j].contact # next[i].contact
              /\ \E m \in 1 .. k : \E x \in DOMAIN hitLists[m] :
                   next[i] = hitLists[m][x] /\ FirstSaid(hitLists, m, x)
  <2>1. CASE i \in 1 .. n
    <3>1. i \in Len(list) + 1 .. n /\ \A j \in 1 .. i - 1 : j \in 1 .. n
      BY <1>1, <2>1
    <3>2. next[i] = sofar[i] /\ \A j \in 1 .. i - 1 : next[j] = sofar[j]
      BY <1>8, <2>1, <3>1
    <3>3. \A j \in 1 .. i - 1 : next[j].contact # next[i].contact
      BY <1>6, <3>1, <3>2
    <3>4. PICK m \in 1 .. k - 1 : \E x \in DOMAIN hitLists[m] :
            sofar[i] = hitLists[m][x] /\ FirstSaid(hitLists, m, x)
      BY <1>6, <3>1
    <3>5. QED
      BY <1>12, <3>2, <3>3, <3>4
  <2>2. CASE i \notin 1 .. n
    <3>1. i \in n + 1 .. Len(next)
      BY <1>1, <1>4, <2>2
    <3>2. PICK x \in 1 .. Len(hits) :
            /\ next[i] = hits[x]
            /\ \A j \in 1 .. x - 1 : hits[j].contact # hits[x].contact
      BY <1>9, <3>1
    <3>3. \A j \in 1 .. i - 1 : next[j].contact # next[i].contact
      BY <1>9, <3>1
    <3>4. \A j \in 1 .. n : sofar[j].contact # hits[x].contact
      <4>1. \A j \in 1 .. n : j \in 1 .. i - 1
        BY <1>1, <3>1
      <4>2. QED
        BY <1>8, <3>2, <3>3, <4>1
    <3>5. \A l \in 1 .. k - 1 : ~Mentioned(hitLists[l], hits[x].contact)
      <4> SUFFICES ASSUME NEW l \in 1 .. k - 1,
                          Mentioned(hitLists[l], hits[x].contact)
                   PROVE  FALSE
        OBVIOUS
      <4>1. Mentioned(sofar, hits[x].contact)
        BY <1>7 DEF Mentioned
      <4>2. QED
        BY <1>1, <3>4, <4>1 DEF Mentioned
    <3>6. FirstSaid(hitLists, k, x)
      BY <3>2, <3>5 DEF FirstSaid
    <3>7. k \in 1 .. k /\ x \in DOMAIN hitLists[k]
      BY <1>1, <1>2
    <3>8. QED
      BY <3>2, <3>3, <3>6, <3>7
  <2>3. QED
    BY <2>1, <2>2
<1>15. \A m \in 1 .. k : \A x \in DOMAIN hitLists[m] :
         Mentioned(next, hitLists[m][x].contact)
  <2>1. \A c : Mentioned(sofar, c) => Mentioned(next, c)
    <3>1. \A i \in 1 .. n : i \in 1 .. Len(next)
      BY <1>1, <1>4, <1>8
    <3>2. QED
      BY <1>1, <1>4, <1>8, <3>1 DEF Mentioned
  <2>2. QED
    BY <1>7, <1>10, <1>11, <2>1
<1>16. Collects(next, list, hitLists, k)
  BY <1>13, <1>14, <1>15 DEF Collects
<1>17. QED
  BY <1>16 DEF next

\* What the loop over the elements adds.
LEMMA CollectCollects ==
  ASSUME NEW list \in Seq(ScanHit), NEW hitLists \in Seq(Seq(ScanHit))
  PROVE  /\ Collect(list, hitLists) \in Seq(ScanHit)
         /\ Collects(Collect(list, hitLists), list, hitLists, Len(hitLists))
<1> DEFINE n == Len(hitLists)
<1>1. n \in Nat /\ Len(list) \in Nat
  OBVIOUS
<1>2. PICK run \in [0 .. n -> Seq(ScanHit)] : IsElementsRun(run, list, hitLists)
  BY ElementsRun
<1>3. /\ run[0] = list /\ run[n] = Collect(list, hitLists)
      /\ \A k \in 1 .. n : run[k] = AddAll(run[k - 1], hitLists[k])
  BY <1>2 DEF IsElementsRun
<1> DEFINE Good(k) == Collects(run[k], list, hitLists, k)
           Bad == {k \in 0 .. n : ~Good(k)}
<1>4. Good(0)
  <2>1. Collects(list, list, hitLists, 0)
    BY <1>1 DEF Collects
  <2>2. QED
    BY <1>3, <2>1
<1>5. ASSUME NEW k \in 1 .. n, Good(k - 1) PROVE Good(k)
  <2>1. k - 1 \in 0 .. n
    BY <1>1
  <2>2. run[k - 1] \in Seq(ScanHit)
    BY <2>1
  <2>3. QED
    BY <1>3, <1>5, <2>2, AddAllCollects
<1> HIDE DEF Good, n
<1>6. Bad = {}
  <2> SUFFICES ASSUME Bad # {} PROVE FALSE
    OBVIOUS
  <2>1. Bad \in SUBSET Nat
    OBVIOUS
  <2>2. PICK k \in Bad : \A j \in Bad : k <= j
    <3> HIDE DEF Bad
    <3> QED
      BY <2>1, LeastNumber
  <2>3. k \in 1 .. n
    BY <1>1, <1>4, <2>2
  <2>4. Good(k - 1)
    BY <1>1, <2>2, <2>3
  <2>5. QED
    BY <1>5, <2>2, <2>3, <2>4
<1>7. Good(n) /\ run[n] \in Seq(ScanHit)
  <2>1. n \in 0 .. n
    BY <1>1
  <2>2. QED
    BY <1>6, <2>1
<1>8. QED
  BY <1>3, <1>7 DEF Good, n

-----------------------------------------------------------------------------
(***************************************************************************)
(* What lists say of one contact.                                          *)
(***************************************************************************)

\* What x says of the contact c is what y says of it, at places moved by d.
IsMoved(x, y, c, d) ==
  /\ \A i \in Mentions(y, c) : i + d \in Mentions(x, c) /\ x[i + d] = y[i]
  /\ \A i \in Mentions(x, c) : i - d \in Mentions(y, c)

\* The same, wherever they say it.
Alike(x, y, c) == \E d \in Int : IsMoved(x, y, c, d)

\* The places of a list are numbers.
LEMMA MentionPlaces ==
  ASSUME NEW T, NEW hits \in Seq(T), NEW c
  PROVE  Mentions(hits, c) \in SUBSET (1 .. Len(hits)) /\ Mentions(hits, c) \in SUBSET Int
<1>1. DOMAIN hits = 1 .. Len(hits) /\ Len(hits) \in Nat
  OBVIOUS
<1>2. QED
  BY <1>1 DEF Mentions

\* What follows a list and does not mention c changes nothing.
LEMMA AlikeLeft ==
  ASSUME NEW a \in Seq(ScanHit), NEW b \in Seq(ScanHit), NEW c,
         Mentions(b, c) = {}
  PROVE  Alike(a \o b, a, c)
<1> DEFINE ab == a \o b
<1>1. /\ Len(a) \in Nat /\ DOMAIN a = 1 .. Len(a)
      /\ Len(b) \in Nat /\ DOMAIN b = 1 .. Len(b)
  OBVIOUS
<1>2. /\ ab \in Seq(ScanHit) /\ Len(ab) = Len(a) + Len(b)
      /\ \A i \in 1 .. Len(a) + Len(b) :
           ab[i] = IF i <= Len(a) THEN a[i] ELSE b[i - Len(a)]
  BY ConcatProperties
<1> HIDE DEF ab
<1>3. DOMAIN ab = 1 .. Len(a) + Len(b)
  BY <1>2
<1>4. ASSUME NEW i \in Mentions(a, c)
      PROVE  i + 0 \in Mentions(ab, c) /\ ab[i + 0] = a[i]
  <2>1. i \in 1 .. Len(a) /\ a[i].contact = c
    BY <1>1 DEF Mentions
  <2>2. i \in 1 .. Len(a) + Len(b) /\ i <= Len(a) /\ i + 0 = i
    BY <1>1, <2>1
  <2>3. QED
    BY <1>2, <1>3, <2>1, <2>2 DEF Mentions
<1>5. ASSUME NEW i \in Mentions(ab, c) PROVE i - 0 \in Mentions(a, c)
  <2>1. i \in 1 .. Len(a) + Len(b) /\ ab[i].contact = c
    BY <1>3 DEF Mentions
  <2>2. i <= Len(a)
    <3> SUFFICES ASSUME ~(i <= Len(a)) PROVE FALSE
      OBVIOUS
    <3>1. i - Len(a) \in 1 .. Len(b)
      BY <1>1, <2>1
    <3>2. i - Len(a) \in Mentions(b, c)
      BY <1>1, <1>2, <2>1, <3>1 DEF Mentions
    <3>3. QED
      BY <3>2
  <2>3. i \in 1 .. Len(a) /\ i - 0 = i
    BY <1>1, <2>1, <2>2
  <2>4. QED
    BY <1>1, <1>2, <2>1, <2>2, <2>3 DEF Mentions
<1>6. IsMoved(ab, a, c, 0)
  BY <1>4, <1>5 DEF IsMoved
<1>7. QED
  BY <1>6 DEF Alike, ab

\* Nor does what comes before a list.
LEMMA AlikeRight ==
  ASSUME NEW a \in Seq(ScanHit), NEW b \in Seq(ScanHit), NEW c,
         Mentions(a, c) = {}
  PROVE  Alike(a \o b, b, c)
<1> DEFINE ab == a \o b
           d == Len(a)
<1>1. /\ d \in Nat /\ DOMAIN a = 1 .. d
      /\ Len(b) \in Nat /\ DOMAIN b = 1 .. Len(b)
  OBVIOUS
<1>2. /\ ab \in Seq(ScanHit) /\ Len(ab) = d + Len(b)
      /\ \A i \in 1 .. d + Len(b) :
           ab[i] = IF i <= d THEN a[i] ELSE b[i - d]
  BY ConcatProperties
<1> HIDE DEF ab, d
<1>3. DOMAIN ab = 1 .. d + Len(b)
  BY <1>2
<1>4. ASSUME NEW i \in Mentions(b, c)
      PROVE  i + d \in Mentions(ab, c) /\ ab[i + d] = b[i]
  <2>1. i \in 1 .. Len(b) /\ b[i].contact = c
    BY <1>1 DEF Mentions
  <2>2. i + d \in 1 .. d + Len(b) /\ ~(i + d <= d) /\ (i + d) - d = i
    BY <1>1, <2>1
  <2>3. QED
    BY <1>2, <1>3, <2>1, <2>2 DEF Mentions
<1>5. ASSUME NEW i \in Mentions(ab, c) PROVE i - d \in Mentions(b, c)
  <2>1. i \in 1 .. d + Len(b) /\ ab[i].contact = c
    BY <1>3 DEF Mentions
  <2>2. ~(i <= d)
    <3> SUFFICES ASSUME i <= d PROVE FALSE
      OBVIOUS
    <3>1. i \in 1 .. d
      BY <1>1, <2>1
    <3>2. i \in Mentions(a, c)
      BY <1>1, <1>2, <2>1, <3>1 DEF Mentions
    <3>3. QED
      BY <3>2
  <2>3. i - d \in 1 .. Len(b)
    BY <1>1, <2>1, <2>2
  <2>4. QED
    BY <1>1, <1>2, <2>1, <2>2, <2>3 DEF Mentions
<1>6. IsMoved(ab, b, c, d) /\ d \in Int
  BY <1>1, <1>4, <1>5 DEF IsMoved
<1>7. QED
  BY <1>6 DEF Alike, ab

\* Being alike goes on from list to list.
LEMMA AlikeChain ==
  ASSUME NEW x \in Seq(ScanHit), NEW y \in Seq(ScanHit), NEW z \in Seq(ScanHit),
         NEW c, Alike(x, y, c), Alike(y, z, c)
  PROVE  Alike(x, z, c)
<1>1. PICK d \in Int : IsMoved(x, y, c, d)
  BY DEF Alike
<1>2. PICK e \in Int : IsMoved(y, z, c, e)
  BY DEF Alike
<1>3. /\ Mentions(x, c) \in SUBSET Int /\ Mentions(y, c) \in SUBSET Int
      /\ Mentions(z, c) \in SUBSET Int
  BY MentionPlaces
<1>4. ASSUME NEW i \in Mentions(z, c)
      PROVE  i + (e + d) \in Mentions(x, c) /\ x[i + (e + d)] = z[i]
  <2>1. i + e \in Mentions(y, c) /\ y[i + e] = z[i]
    BY <1>2 DEF IsMoved
  <2>2. (i + e) + d \in Mentions(x, c) /\ x[(i + e) + d] = y[i + e]
    BY <1>1, <2>1 DEF IsMoved
  <2>3. (i + e) + d = i + (e + d)
    BY <1>3
  <2>4. QED
    BY <2>1, <2>2, <2>3
<1>5. ASSUME NEW i \in Mentions(x, c) PROVE i - (e + d) \in Mentions(z, c)
  <2>1. i - d \in Mentions(y, c)
    BY <1>1 DEF IsMoved
  <2>2. (i - d) - e \in Mentions(z, c)
    BY <1>2, <2>1 DEF IsMoved
  <2>3. (i - d) - e = i - (e + d)
    BY <1>3
  <2>4. QED
    BY <2>2, <2>3
<1>6. e + d \in Int
  OBVIOUS
<1>7. QED
  BY <1>4, <1>5, <1>6 DEF Alike, IsMoved

\* What is first of a contact stays first.
LEMMA AlikeFirst ==
  ASSUME NEW x \in Seq(ScanHit), NEW y \in Seq(ScanHit), NEW c, Alike(x, y, c)
  PROVE  /\ Mentions(x, c) = {} <=> Mentions(y, c) = {}
         /\ Cardinality(Mentions(x, c)) = Cardinality(Mentions(y, c))
         /\ \A i \in FirstOf(Mentions(x, c)) :
              \E k \in FirstOf(Mentions(y, c)) : x[i] = y[k]
<1> DEFINE X == Mentions(x, c)
           Y == Mentions(y, c)
<1>1. PICK d \in Int : IsMoved(x, y, c, d)
  BY DEF Alike
<1>2. X \in SUBSET (1 .. Len(x)) /\ Y \in SUBSET Int /\ X \in SUBSET Int
  BY MentionPlaces
<1>3. /\ \A i \in Y : i + d \in X /\ x[i + d] = y[i]
      /\ \A i \in X : i - d \in Y
  BY <1>1 DEF IsMoved
<1> HIDE DEF X, Y
<1>4. X = {} <=> Y = {}
  BY <1>3
<1>5. Cardinality(X) = Cardinality(Y)
  <2> DEFINE f == [i \in X |-> i - d]
  <2>1. f \in [X -> Y] /\ \A k \in Y : \E i \in X : f[i] = k
    <3>1. f \in [X -> Y]
      BY <1>3
    <3>2. ASSUME NEW k \in Y PROVE \E i \in X : f[i] = k
      <4>1. k + d \in X /\ (k + d) - d = k
        BY <1>2, <1>3
      <4>2. QED
        BY <4>1
    <3>3. QED
      BY <3>1, <3>2
  <2>2. \A i, k \in X : f[i] = f[k] => i = k
    BY <1>2
  <2> HIDE DEF f
  <2>3. f \in Bijection(X, Y)
    BY <2>1, <2>2 DEF Bijection, Injection, IsInjective, Surjection
  <2>4. Len(x) \in Nat
    OBVIOUS
  <2>5. IsFiniteSet(X)
    <3>1. IsFiniteSet(1 .. Len(x))
      BY <2>4, FS_Interval
    <3>2. QED
      BY <1>2, <3>1, FS_Subset
  <2>6. QED
    BY <2>3, <2>5, FS_Bijection DEF ExistsBijection
<1>6. ASSUME NEW i \in FirstOf(X)
      PROVE  \E k \in FirstOf(Y) : x[i] = y[k]
  <2>1. i \in X /\ \A k \in X : i <= k
    BY <1>6 DEF FirstOf
  <2>2. i - d \in Y /\ (i - d) + d = i
    BY <1>2, <1>3, <2>1
  <2>3. ASSUME NEW k \in Y PROVE i - d <= k
    <3>1. i <= k + d
      BY <1>3, <2>1
    <3>2. QED
      BY <1>2, <2>1, <3>1
  <2>4. i - d \in FirstOf(Y)
    BY <2>2, <2>3 DEF FirstOf
  <2>5. x[i] = y[i - d]
    BY <1>3, <2>2
  <2>6. QED
    BY <2>4, <2>5
<1>7. QED
  BY <1>4, <1>5, <1>6 DEF X, Y

\* What a list like another one says first is what that one says first.
LEMMA AlikeSame ==
  ASSUME NEW x \in Seq(ScanHit), NEW y \in Seq(ScanHit), NEW c, Alike(x, y, c),
         NEW hits
  PROVE  /\ SameFirst(y, hits, c) => SameFirst(x, hits, c)
         /\ SameFirst(hits, y, c) => SameFirst(hits, x, c)
<1>1. \A i \in FirstOf(Mentions(x, c)) :
        \E k \in FirstOf(Mentions(y, c)) : x[i] = y[k]
  BY AlikeFirst
<1>2. ASSUME SameFirst(y, hits, c) PROVE SameFirst(x, hits, c)
  BY <1>1, <1>2 DEF SameFirst
<1>3. ASSUME SameFirst(hits, y, c) PROVE SameFirst(hits, x, c)
  BY <1>1, <1>3 DEF SameFirst
<1>4. QED
  BY <1>2, <1>3

\* So is a contact in both as often and with the same.
LEMMA AlikeListed ==
  ASSUME NEW x \in Seq(ScanHit), NEW y \in Seq(ScanHit), NEW c, Alike(x, y, c),
         ListedOnce(y, c)
  PROVE  ListedOnce(x, c)
<1>1. Cardinality(Mentions(x, c)) = Cardinality(Mentions(y, c))
  BY AlikeFirst
<1>2. \A hits : SameFirst(y, hits, c) => SameFirst(x, hits, c)
  BY AlikeSame
<1>3. QED
  BY <1>1, <1>2 DEF ListedOnce

\* A list of a kind has no contact of another kind.
LEMMA OtherKind ==
  ASSUME NEW kind, NEW hits, OfKind(hits, kind), NEW c, c[1] # kind
  PROVE  Mentions(hits, c) = {}
BY DEF OfKind, Mentions

\* Of a list of emails, phone numbers and profiles each part has its contacts.
LEMMA ThreeKinds ==
  ASSUME NEW a, OfKind(a, "email"), NEW b, OfKind(b, "phone"),
         NEW d, OfKind(d, "linkedin")
  PROVE  /\ a \o b \o d \in Seq(ScanHit)
         /\ \A c : /\ c[1] = "email" => Alike(a \o b \o d, a, c)
                   /\ c[1] = "phone" => Alike(a \o b \o d, b, c)
                   /\ c[1] = "linkedin" => Alike(a \o b \o d, d, c)
         /\ \A i \in DOMAIN (a \o b \o d) :
              (a \o b \o d)[i].contact[1] \in {"email", "phone", "linkedin"}
<1> DEFINE ab == a \o b
           abd == ab \o d
<1>1. a \in Seq(ScanHit) /\ b \in Seq(ScanHit) /\ d \in Seq(ScanHit)
  BY DEF OfKind
<1>2. ab \in Seq(ScanHit) /\ abd \in Seq(ScanHit)
  BY <1>1, ConcatProperties
<1> HIDE DEF ab
<1>3. ASSUME NEW c PROVE c[1] = "email" => Alike(abd, a, c)
  <2> SUFFICES ASSUME c[1] = "email" PROVE Alike(abd, a, c)
    OBVIOUS
  <2>1. Mentions(b, c) = {} /\ Mentions(d, c) = {}
    BY OtherKind
  <2>2. Alike(ab, a, c)
    BY <1>1, <2>1, AlikeLeft DEF ab
  <2>3. Alike(abd, ab, c)
    BY <1>1, <1>2, <2>1, AlikeLeft
  <2>4. QED
    BY <1>1, <1>2, <2>2, <2>3, AlikeChain
<1>4. ASSUME NEW c PROVE c[1] = "phone" => Alike(abd, b, c)
  <2> SUFFICES ASSUME c[1] = "phone" PROVE Alike(abd, b, c)
    OBVIOUS
  <2>1. Mentions(a, c) = {} /\ Mentions(d, c) = {}
    BY OtherKind
  <2>2. Alike(ab, b, c)
    BY <1>1, <2>1, AlikeRight DEF ab
  <2>3. Alike(abd, ab, c)
    BY <1>1, <1>2, <2>1, AlikeLeft
  <2>4. QED
    BY <1>1, <1>2, <2>2, <2>3, AlikeChain
<1>5. ASSUME NEW c PROVE c[1] = "linkedin" => Alike(abd, d, c)
  <2> SUFFICES ASSUME c[1] = "linkedin" PROVE Alike(abd, d, c)
    OBVIOUS
  <2>1. Mentions(a, c) = {} /\ Mentions(b, c) = {}
    BY OtherKind
  <2>2. Alike(ab, b, c)
    BY <1>1, <2>1, AlikeRight DEF ab
  <2>3. Mentions(ab, c) = {}
    BY <1>1, <1>2, <2>1, <2>2, AlikeFirst
  <2>4. QED
    BY <1>1, <1>2, <2>3, AlikeRight
<1>6. ASSUME NEW i \in DOMAIN abd
      PROVE  abd[i].contact[1] \in {"email", "phone", "linkedin"}
  <2> DEFINE c == abd[i].contact
  <2>1. i \in Mentions(abd, c)
    BY DEF Mentions
  <2> SUFFICES ASSUME c[1] \notin {"email", "phone", "linkedin"} PROVE FALSE
    OBVIOUS
  <2> HIDE DEF abd, c
  <2>2. Mentions(a, c) = {} /\ Mentions(b, c) = {} /\ Mentions(d, c) = {}
    BY OtherKind
  <2>3. Alike(ab, a, c)
    BY <1>1, <2>2, AlikeLeft DEF ab
  <2>4. Alike(abd, ab, c)
    BY <1>1, <1>2, <2>2, AlikeLeft DEF abd
  <2>5. Mentions(abd, c) = {}
    BY <1>1, <1>2, <2>2, <2>3, <2>4, AlikeFirst
  <2>6. QED
    BY <2>1, <2>5
<1>7. QED
  BY <1>2, <1>3, <1>4, <1>5, <1>6 DEF ab

-----------------------------------------------------------------------------
(***************************************************************************)
(* What an extractor collects.                                             *)
(***************************************************************************)

\* A contact that is listed is not added again.
LEMMA ListedStays ==
  ASSUME NEW list \in Seq(ScanHit), NEW hitLists \in Seq(Seq(ScanHit)), NEW c,
         Mentions(list, c) # {}
  PROVE  Alike(Collect(list, hitLists), list, c)
<1> DEFINE result == Collect(list, hitLists)
<1>1. result \in Seq(ScanHit) /\ Collects(result, list, hitLists, Len(hitLists))
  BY CollectCollects
<1> HIDE DEF result
<1>2. /\ Len(list) <= Len(result)
      /\ \A i \in 1 .. Len(list) : result[i] = list[i]
      /\ \A i \in Len(list) + 1 .. Len(result) :
           \A j \in 1 .. i - 1 : result[j].contact # result[i].contact
  BY <1>1 DEF Collects
<1>3. /\ Len(list) \in Nat /\ DOMAIN list = 1 .. Len(list)
      /\ Len(result) \in Nat /\ DOMAIN result = 1 .. Len(result)
  BY <1>1
<1>4. PICK m \in 1 .. Len(list) : list[m].contact = c
  BY <1>3 DEF Mentions
<1>5. ASSUME NEW i \in Mentions(list, c)
      PROVE  i + 0 \in Mentions(result, c) /\ result[i + 0] = list[i]
  <2>1. i \in 1 .. Len(list) /\ list[i].contact = c
    BY <1>3 DEF Mentions
  <2>2. i \in 1 .. Len(result) /\ i + 0 = i
    BY <1>2, <1>3, <2>1
  <2>3. QED
    BY <1>2, <1>3, <2>1, <2>2 DEF Mentions
<1>6. ASSUME NEW i \in Mentions(result, c) PROVE i - 0 \in Mentions(list, c)
  <2>1. i \in 1 .. Len(result) /\ result[i].contact = c
    BY <1>3 DEF Mentions
  <2>2. i \in 1 .. Len(list)
    <3> SUFFICES ASSUME i \notin 1 .. Len(list) PROVE FALSE
      OBVIOUS
    <3>1. i \in Len(list) + 1 .. Len(result) /\ m \in 1 .. i - 1
      BY <1>3, <2>1
    <3>2. QED
      BY <1>2, <1>4, <2>1, <3>1
  <2>3. i - 0 = i
    BY <1>3, <2>2
  <2>4. QED
    BY <1>2, <1>3, <2>1, <2>2, <2>3 DEF Mentions
<1>7. IsMoved(result, list, c, 0)
  BY <1>5, <1>6 DEF IsMoved
<1>8. QED
  BY <1>7 DEF Alike, result

\* One that is not is added once, as the first element that has it has it first.
LEMMA AddedOnce ==
  ASSUME NEW list \in Seq(ScanHit), NEW hitLists \in Seq(Seq(ScanHit)), NEW c,
         Mentions(list, c) = {},
         NEW M, M = {m \in DOMAIN hitLists : Mentions(hitLists[m], c) # {}}
  PROVE  /\ M = {} => Mentions(Collect(list, hitLists), c) = {}
         /\ M # {} => \E r : Mentions(Collect(list, hitLists), c) = {r}
         /\ \A m \in FirstOf(M) : SameFirst(Collect(list, hitLists), hitLists[m], c)
<1> DEFINE result == Collect(list, hitLists)
<1>1. result \in Seq(ScanHit) /\ Collects(result, list, hitLists, Len(hitLists))
  BY CollectCollects
<1> HIDE DEF result
<1>2. /\ Len(list) <= Len(result)
      /\ \A i \in 1 .. Len(list) : result[i] = list[i]
      /\ \A i \in Len(list) + 1 .. Len(result) :
           /\ \A j \in 1 .. i - 1 : result[j].contact # result[i].contact
           /\ \E m \in 1 .. Len(hitLists) : \E n \in DOMAIN hitLists[m] :
                result[i] = hitLists[m][n] /\ FirstSaid(hitLists, m, n)
      /\ \A m \in 1 .. Len(hitLists) : \A n \in DOMAIN hitLists[m] :
           Mentioned(result, hitLists[m][n].contact)
  BY <1>1 DEF Collects
<1>3. /\ Len(list) \in Nat /\ DOMAIN list = 1 .. Len(list)
      /\ Len(result) \in Nat /\ DOMAIN result = 1 .. Len(result)
      /\ Len(hitLists) \in Nat /\ DOMAIN hitLists = 1 .. Len(hitLists)
      /\ \A m \in 1 .. Len(hitLists) : hitLists[m] \in Seq(ScanHit)
  BY <1>1
<1>4. ASSUME NEW r \in Mentions(result, c)
      PROVE  r \in Len(list) + 1 .. Len(result) /\ result[r].contact = c
  <2>1. r \in 1 .. Len(result) /\ result[r].contact = c
    BY <1>3 DEF Mentions
  <2>2. r \notin 1 .. Len(list)
    BY <1>2, <1>3, <2>1 DEF Mentions
  <2>3. QED
    BY <1>3, <2>1, <2>2
<1>5. ASSUME NEW r \in Mentions(result, c)
      PROVE  \E m \in M : \E n \in DOMAIN hitLists[m] :
               /\ result[r] = hitLists[m][n] /\ n \in FirstOf(Mentions(hitLists[m], c))
               /\ m \in FirstOf(M)
  <2>1. r \in Len(list) + 1 .. Len(result) /\ result[r].contact = c
    BY <1>4
  <2>2. PICK m \in 1 .. Len(hitLists) : \E n \in DOMAIN hitLists[m] :
          result[r] = hitLists[m][n] /\ FirstSaid(hitLists, m, n)
    BY <1>2, <2>1
  <2>3. PICK n \in DOMAIN hitLists[m] :
          result[r] = hitLists[m][n] /\ FirstSaid(hitLists, m, n)
    BY <2>2
  <2>4. /\ hitLists[m][n].contact = c
        /\ \A j \in 1 .. n - 1 : hitLists[m][j].contact # c
        /\ \A l \in 1 .. m - 1 : ~Mentioned(hitLists[l], c)
    BY <2>1, <2>3 DEF FirstSaid
  <2>5. n \in Mentions(hitLists[m], c)
    BY <2>4 DEF Mentions
  <2>6. m \in M
    BY <1>3, <2>5
  <2>7. ASSUME NEW j \in Mentions(hitLists[m], c) PROVE n <= j
    <3>1. j \in Nat /\ j >= 1 /\ n \in Nat /\ hitLists[m][j].contact = c
      <4>1. hitLists[m] \in Seq(ScanHit)
        BY <1>3
      <4>2. DOMAIN hitLists[m] = 1 .. Len(hitLists[m]) /\ Len(hitLists[m]) \in Nat
        BY <4>1
      <4>3. QED
        BY <4>2 DEF Mentions
    <3>2. j \notin 1 .. n - 1
      BY <2>4, <3>1
    <3>3. QED
      BY <3>1, <3>2
  <2>8. ASSUME NEW l \in M PROVE m <= l
    <3>1. l \in 1 .. Len(hitLists) /\ Mentioned(hitLists[l], c)
      BY <1>3 DEF Mentions, Mentioned
    <3>2. l \notin 1 .. m - 1
      BY <2>4, <3>1
    <3>3. QED
      BY <1>3, <3>1, <3>2
  <2>9. QED
    BY <2>3, <2>5, <2>6, <2>7, <2>8 DEF FirstOf
<1>6. M = {} => Mentions(result, c) = {}
  BY <1>5
<1>7. ASSUME M # {} PROVE \E r : Mentions(result, c) = {r}
  <2>1. PICK m \in 1 .. Len(hitLists) : Mentions(hitLists[m], c) # {}
    BY <1>3, <1>7
  <2>2. PICK n \in DOMAIN hitLists[m] : hitLists[m][n].contact = c
    BY <2>1 DEF Mentions
  <2>3. PICK r \in DOMAIN result : result[r].contact = c
    BY <1>2, <2>2 DEF Mentioned
  <2>4. r \in Mentions(result, c)
    BY <2>3 DEF Mentions
  <2>5. ASSUME NEW q \in Mentions(result, c), q # r PROVE FALSE
    <3>1. /\ r \in Len(list) + 1 .. Len(result) /\ result[r].contact = c
          /\ q \in Len(list) + 1 .. Len(result) /\ result[q].contact = c
      BY <1>4, <2>4
    <3>2. q \in 1 .. r - 1 \/ r \in 1 .. q - 1
      BY <1>3, <2>5, <3>1
    <3>3. QED
      BY <1>2, <3>1, <3>2
  <2>6. QED
    BY <2>4, <2>5
<1>8. ASSUME NEW m \in FirstOf(M) PROVE SameFirst(result, hitLists[m], c)
  <2> SUFFICES ASSUME NEW r \in FirstOf(Mentions(result, c)),
                      NEW k \in FirstOf(Mentions(hitLists[m], c))
               PROVE  result[r] = hitLists[m][k]
    BY DEF SameFirst
  <2>1. PICK l \in M : \E n \in DOMAIN hitLists[l] :
          /\ result[r] = hitLists[l][n] /\ n \in FirstOf(Mentions(hitLists[l], c))
          /\ l \in FirstOf(M)
    BY <1>5 DEF FirstOf
  <2>2. PICK n \in DOMAIN hitLists[l] :
          /\ result[r] = hitLists[l][n] /\ n \in FirstOf(Mentions(hitLists[l], c))
          /\ l \in FirstOf(M)
    BY <2>1
  <2>3. l = m
    <3>1. m \in Int /\ l \in Int /\ m <= l /\ l <= m
      BY <1>3, <1>8, <2>2 DEF FirstOf
    <3>2. QED
      BY <3>1
  <2>4. n = k
    <3>1. hitLists[m] \in Seq(ScanHit)
      BY <1>3, <1>8 DEF FirstOf
    <3>2. Mentions(hitLists[m], c) \in SUBSET Int
      BY <3>1, MentionPlaces
    <3>3. n \in Int /\ k \in Int /\ n <= k /\ k <= n
      BY <2>2, <2>3, <3>2 DEF FirstOf
    <3>4. QED
      BY <3>3
  <2>5. QED
    BY <2>2, <2>3, <2>4
<1>9. QED
  BY <1>6, <1>7, <1>8 DEF result

\* The same in terms of the places on the page, where at gives an element's hits.
LEMMA Gathered ==
  ASSUME NEW list \in Seq(ScanHit), NEW hitLists \in Seq(Seq(ScanHit)), NEW c,
         NEW S \in SUBSET Int, NEW at, Selects(hitLists, at, S),
         Mentions(list, c) = {},
         NEW P, \A p : p \in P <=> p \in S /\ Mentions(at[p], c) # {}
  PROVE  /\ P = {} => Mentions(Collect(list, hitLists), c) = {}
         /\ P # {} => /\ Mentions(Collect(list, hitLists), c) # {}
                      /\ Cardinality(Mentions(Collect(list, hitLists), c)) = 1
         /\ \A p \in FirstOf(P) : SameFirst(Collect(list, hitLists), at[p], c)
<1> DEFINE M == {m \in DOMAIN hitLists : Mentions(hitLists[m], c) # {}}
           result == Collect(list, hitLists)
<1>1. /\ M = {} => Mentions(result, c) = {}
      /\ M # {} => \E r : Mentions(result, c) = {r}
      /\ \A m \in FirstOf(M) : SameFirst(result, hitLists[m], c)
  BY AddedOnce
<1> HIDE DEF result
<1>2. PICK f \in [DOMAIN hitLists -> S] :
        /\ \A n \in DOMAIN hitLists : hitLists[n] = at[f[n]]
        /\ \A i \in S : \E n \in DOMAIN hitLists : f[n] = i
        /\ \A m, n \in DOMAIN hitLists : m < n <=> f[m] < f[n]
  BY DEF Selects
<1>3. \A m \in M : f[m] \in P
  BY <1>2
<1>4. \A p \in P : \E m \in M : f[m] = p
  BY <1>2
<1>5. ASSUME P # {}
      PROVE  Mentions(result, c) # {} /\ Cardinality(Mentions(result, c)) = 1
  <2>1. M # {}
    BY <1>4, <1>5
  <2>2. PICK r : Mentions(result, c) = {r}
    BY <1>1, <2>1
  <2>3. QED
    BY <2>2, FS_Singleton
<1>6. ASSUME NEW p \in FirstOf(P) PROVE SameFirst(result, at[p], c)
  <2>1. p \in P /\ \A q \in P : p <= q
    BY <1>6 DEF FirstOf
  <2>2. PICK m \in M : f[m] = p
    BY <1>4, <2>1
  <2>3. ASSUME NEW l \in M PROVE m <= l
    <3>1. ~(f[l] < f[m])
      <4>1. f[l] \in Int /\ f[m] \in Int /\ f[m] <= f[l]
        BY <1>2, <1>3, <2>1, <2>2
      <4>2. QED
        BY <4>1
    <3>2. ~(l < m)
      BY <1>2, <3>1
    <3>3. l \in Int /\ m \in Int
      OBVIOUS
    <3>4. QED
      BY <3>2, <3>3
  <2>4. m \in FirstOf(M)
    BY <2>3 DEF FirstOf
  <2>5. at[p] = hitLists[m]
    BY <1>2, <2>2
  <2>6. QED
    BY <1>1, <2>4, <2>5
<1>7. QED
  BY <1>1, <1>3, <1>5, <1>6 DEF result

\* An extractor collects hits of its kind.
LEMMA CollectKind ==
  ASSUME NEW kind, NEW base, OfKind(base, kind),
         NEW hitLists \in Seq(Seq(ScanHit)),
         \A m \in DOMAIN hitLists : OfKind(hitLists[m], kind)
  PROVE  OfKind(Collect(base, hitLists), kind)
<1> DEFINE result == Collect(base, hitLists)
<1>1. base \in Seq(ScanHit)
  BY DEF OfKind
<1>2. result \in Seq(ScanHit) /\ Collects(result, base, hitLists, Len(hitLists))
  BY <1>1, CollectCollects
<1> HIDE DEF result
<1>3. /\ Len(base) \in Nat /\ DOMAIN base = 1 .. Len(base)
      /\ Len(result) \in Nat /\ DOMAIN result = 1 .. Len(result)
      /\ DOMAIN hitLists = 1 .. Len(hitLists)
  BY <1>1, <1>2
<1>4. ASSUME NEW i \in DOMAIN result
      PROVE  result[i].contact[1] = kind
  <2>1. CASE i \in 1 .. Len(base)
    <3>1. result[i] = base[i] /\ i \in DOMAIN base
      BY <1>2, <1>3, <2>1 DEF Collects
    <3>2. QED
      BY <3>1 DEF OfKind
  <2>2. CASE i \notin 1 .. Len(base)
    <3>1. i \in Len(base) + 1 .. Len(result)
      BY <1>3, <2>2
    <3>2. PICK m \in 1 .. Len(hitLists) : \E n \in DOMAIN hitLists[m] :
            result[i] = hitLists[m][n]
      BY <1>2, <3>1 DEF Collects
    <3>3. OfKind(hitLists[m], kind)
      BY <1>3
    <3>4. QED
      BY <3>2, <3>3 DEF OfKind
  <2>3. QED
    BY <2>1, <2>2
<1>5. QED
  BY <1>2, <1>4 DEF OfKind, result

\* The elements with a tag have it.
LEMMA TaggedElements ==
  ASSUME ScanTypeOK, NEW tag
  PROVE  /\ Len(Tagged(tag)) \in Nat /\ DOMAIN Tagged(tag) = 1 .. Len(Tagged(tag))
         /\ \A n \in DOMAIN Tagged(tag) :
              Tagged(tag)[n] \in Element /\ Tagged(tag)[n].tag = tag
<1> DEFINE kept == Tagged(tag)
<1>1. Selects(kept, page, ShownAs(tag)) /\ kept \in Seq(Element)
  BY TaggedPlaces
<1>2. \A n \in DOMAIN kept : \E i \in ShownAs(tag) : kept[n] = page[i]
  BY <1>1 DEF Selects
<1> HIDE DEF kept
<1>3. /\ Len(kept) \in Nat /\ DOMAIN kept = 1 .. Len(kept)
      /\ \A n \in 1 .. Len(kept) : kept[n] \in Element
  BY <1>1
<1>4. \A n \in DOMAIN kept : kept[n].tag = tag
  BY <1>2 DEF ShownAs
<1>5. QED
  BY <1>3, <1>4 DEF kept

\* made gives an element's hits, hitLists those of the elements with a tag in
\* their order, and at those of the places where such elements are shown.
AreMade(hitLists, at, made, tag, kind) ==
  /\ \A e \in Element : e.tag = tag => OfKind(made[e], kind)
  /\ hitLists \in [DOMAIN Tagged(tag) -> Seq(ScanHit)]
  /\ \A n \in DOMAIN Tagged(tag) : hitLists[n] = made[Tagged(tag)[n]]
  /\ \A p \in ShownAs(tag) : at[p] = made[page[p]]

\* The hit lists are those of the places.
LEMMA HitListsOf ==
  ASSUME ScanTypeOK, NEW tag, NEW kind, NEW made, NEW hitLists, NEW at,
         AreMade(hitLists, at, made, tag, kind)
  PROVE  /\ Selects(hitLists, at, ShownAs(tag))
         /\ hitLists \in Seq(Seq(ScanHit))
         /\ \A m \in DOMAIN hitLists : OfKind(hitLists[m], kind)
<1> DEFINE kept == Tagged(tag)
<1>1. Selects(kept, page, ShownAs(tag)) /\ kept \in Seq(Element)
  BY TaggedPlaces
<1>2. PICK f \in [DOMAIN kept -> ShownAs(tag)] :
        /\ \A n \in DOMAIN kept : kept[n] = page[f[n]]
        /\ \A i \in ShownAs(tag) : \E n \in DOMAIN kept : f[n] = i
        /\ \A m, n \in DOMAIN kept : m < n <=> f[m] < f[n]
  BY <1>1 DEF Selects
<1>3. /\ \A e \in Element : e.tag = tag => OfKind(made[e], kind)
      /\ DOMAIN hitLists = DOMAIN kept
      /\ \A n \in DOMAIN kept : hitLists[n] = made[kept[n]]
      /\ \A p \in ShownAs(tag) : at[p] = made[page[p]]
  BY DEF AreMade
<1>4. /\ Len(kept) \in Nat /\ DOMAIN kept = 1 .. Len(kept)
      /\ \A n \in DOMAIN kept : kept[n] \in Element /\ kept[n].tag = tag
  BY TaggedElements
<1>5. \A m \in DOMAIN hitLists : OfKind(hitLists[m], kind)
  BY <1>3, <1>4
<1> HIDE DEF kept
<1>6. Selects(hitLists, at, ShownAs(tag))
  <2>1. \A n \in DOMAIN kept : hitLists[n] = at[f[n]]
    BY <1>2, <1>3
  <2>2. QED
    BY <1>2, <1>3, <2>1 DEF Selects
<1>7. hitLists \in [1 .. Len(kept) -> Seq(ScanHit)]
  BY <1>4 DEF kept, AreMade
<1>8. hitLists \in Seq(Seq(ScanHit))
  BY <1>4, <1>7
<1>9. QED
  BY <1>5, <1>6, <1>8

\* Places are numbers.
LEMMA ShownPlaces ==
  ASSUME ScanTypeOK
  PROVE  /\ Shown \in SUBSET (1 .. Len(page)) /\ Shown \in SUBSET Int
         /\ Len(page) \in Nat /\ \A p \in Shown : page[p] \in Element
<1>1. page \in Seq(Element)
  BY DEF ScanTypeOK
<1>2. DOMAIN page = 1 .. Len(page) /\ Len(page) \in Nat
  BY <1>1
<1>3. QED
  BY <1>1, <1>2 DEF Shown

\* The contacts a list of a kind mentions.
LEMMA KindMentions ==
  ASSUME NEW kind, NEW hits, OfKind(hits, kind)
  PROVE  /\ hits \in Seq(ScanHit)
         /\ \A c : Mentions(hits, c) # {} => c[1] = kind /\ c \in ContactKey
<1>1. hits \in Seq(ScanHit) /\ \A i \in DOMAIN hits : hits[i].contact[1] = kind
  BY DEF OfKind
<1>2. \A i \in DOMAIN hits : hits[i] \in ScanHit
  BY <1>1
<1>3. \A i \in DOMAIN hits : hits[i].contact \in ContactKey
  BY <1>2 DEF ScanHit
<1>4. QED
  BY <1>1, <1>3 DEF Mentions

\* The hits of an anchor are of the anchor's kind.
LEMMA AnchorKinds ==
  ASSUME NEW e \in Element
  PROVE  /\ AnchorHits(e) \in Seq(ScanHit)
         /\ \A c : Mentions(AnchorHits(e), c) # {} =>
              /\ c \in ContactKey
              /\ c[1] \in {"email", "phone", "linkedin"}
              /\ c[1] = "email" =>
                   /\ e.tag = "mailto" /\ IsEmail(e.email)
                   /\ c = <<"email", e.email>>
              /\ c[1] = "phone" => e.tag = "tel"
              /\ c[1] = "linkedin" => e.tag = "a"
         /\ e.tag = "tel" => AnchorHits(e) = TelHits(e)
         /\ e.tag = "a" => AnchorHits(e) = ProfileAnchorHits(e)
         /\ e.tag = "mailto" /\ IsEmail(e.email) => AnchorHits(e) = <<MailtoHit(e)>>
<1>1. CASE e.tag = "mailto" /\ IsEmail(e.email)
  <2>1. AnchorHits(e) = <<MailtoHit(e)>>
    BY <1>1 DEF AnchorHits
  <2>2. MailtoHit(e) \in ScanHit /\ MailtoHit(e).contact = <<"email", e.email>>
    BY <1>1, ElementHits
  <2>3. /\ AnchorHits(e) \in Seq(ScanHit)
        /\ \A c : Mentions(AnchorHits(e), c) # {} => c = <<"email", e.email>>
    BY <2>1, <2>2 DEF Mentions
  <2>4. <<"email", e.email>> \in ContactKey
    BY <1>1, ElementParts DEF ContactKey
  <2>5. QED
    BY <1>1, <2>1, <2>3, <2>4
<1>2. CASE e.tag = "tel"
  <2>1. AnchorHits(e) = TelHits(e)
    BY <1>2 DEF AnchorHits
  <2>2. OfKind(TelHits(e), "phone")
    BY <1>2, ElementHits
  <2>3. /\ AnchorHits(e) \in Seq(ScanHit)
        /\ \A c : Mentions(AnchorHits(e), c) # {} => c[1] = "phone" /\ c \in ContactKey
    BY <2>1, <2>2, KindMentions
  <2>4. QED
    BY <1>2, <2>1, <2>3
<1>3. CASE e.tag = "a"
  <2>1. AnchorHits(e) = ProfileAnchorHits(e)
    BY <1>3 DEF AnchorHits
  <2>2. OfKind(ProfileAnchorHits(e), "linkedin")
    BY <1>3, ElementHits
  <2>3. /\ AnchorHits(e) \in Seq(ScanHit)
        /\ \A c : Mentions(AnchorHits(e), c) # {} => c[1] = "linkedin" /\ c \in ContactKey
    BY <2>1, <2>2, KindMentions
  <2>4. QED
    BY <1>3, <2>1, <2>3
<1>4. CASE /\ ~(e.tag = "mailto" /\ IsEmail(e.email))
           /\ e.tag # "tel" /\ e.tag # "a"
  <2>1. AnchorHits(e) = <<>>
    BY <1>4 DEF AnchorHits
  <2>2. AnchorHits(e) \in Seq(ScanHit) /\ \A c : Mentions(AnchorHits(e), c) = {}
    BY <2>1, EmptySeq DEF Mentions
  <2>3. QED
    BY <1>4, <2>2
<1>5. QED
  BY <1>1, <1>2, <1>3, <1>4

\* The hits of a text are those of its emails, phone numbers and profiles.
LEMMA TextKinds ==
  ASSUME NEW e \in Element
  PROVE  /\ TextHits(e) \in Seq(ScanHit)
         /\ \A c : Mentions(TextHits(e), c) # {} =>
              /\ c \in ContactKey /\ e.tag = "text"
              /\ c[1] \in {"email", "phone", "linkedin"}
         /\ e.tag = "text" => \A c :
              /\ c[1] = "email" => Alike(TextHits(e), EmailTextHits(e), c)
              /\ c[1] = "phone" => Alike(TextHits(e), PhoneTextHits(e), c)
              /\ c[1] = "linkedin" => Alike(TextHits(e), ProfileTextHits(e), c)
<1>1. CASE e.tag # "text"
  <2>1. TextHits(e) = <<>>
    BY <1>1 DEF TextHits
  <2>2. TextHits(e) \in Seq(ScanHit) /\ \A c : Mentions(TextHits(e), c) = {}
    BY <2>1, EmptySeq DEF Mentions
  <2>3. QED
    BY <1>1, <2>2
<1>2. CASE e.tag = "text"
  <2> DEFINE hits == TextHits(e)
  <2>1. /\ OfKind(EmailTextHits(e), "email") /\ OfKind(PhoneTextHits(e), "phone")
        /\ OfKind(ProfileTextHits(e), "linkedin")
    BY <1>2, ElementHits
  <2>2. hits = EmailTextHits(e) \o PhoneTextHits(e) \o ProfileTextHits(e)
    BY <1>2 DEF TextHits
  <2>3. /\ hits \in Seq(ScanHit)
        /\ \A c : /\ c[1] = "email" => Alike(hits, EmailTextHits(e), c)
                  /\ c[1] = "phone" => Alike(hits, PhoneTextHits(e), c)
                  /\ c[1] = "linkedin" => Alike(hits, ProfileTextHits(e), c)
        /\ \A i \in DOMAIN hits :
             hits[i].contact[1] \in {"email", "phone", "linkedin"}
    BY <2>1, <2>2, ThreeKinds
  <2> HIDE DEF hits
  <2>4. \A i \in DOMAIN hits : hits[i].contact \in ContactKey
    <3>1. \A i \in DOMAIN hits : hits[i] \in ScanHit
      BY <2>3
    <3>2. QED
      BY <3>1 DEF ScanHit
  <2>5. \A c : Mentions(hits, c) # {} =>
          c \in ContactKey /\ c[1] \in {"email", "phone", "linkedin"}
    BY <2>3, <2>4 DEF Mentions
  <2>6. QED
    BY <1>2, <2>3, <2>5 DEF hits
<1>3. QED
  BY <1>1, <1>2

\* The list of an extractor after the anchors: what they have, the first one
\* first, a phone number or a profile once.
BaseOK(base, kind) ==
  /\ OfKind(base, kind)
  /\ \A c \in ContactKey : c[1] = kind =>
       /\ InAnchors(c) = {} => Mentions(base, c) = {}
       /\ InAnchors(c) # {} =>
            /\ Mentions(base, c) # {}
            /\ Cardinality(Mentions(base, c)) =
                 IF kind = "email" THEN Cardinality(InAnchors(c)) ELSE 1
       /\ \A i \in FirstOf(InAnchors(c)) : SameFirst(base, AnchorHits(page[i]), c)

\* And at the end: the contacts of its kind, each as it should be listed.
KindOK(list, kind) ==
  /\ OfKind(list, kind)
  /\ \A c \in ContactKey : c[1] = kind =>
       IF InAnchors(c) \union InTexts(c) = {} THEN Mentions(list, c) = {}
                                              ELSE ListedOnce(list, c)

\* The loop over the texts.
LEMMA TextsAdd ==
  ASSUME ScanTypeOK, NEW kind, NEW base, BaseOK(base, kind), NEW made,
         \A e \in Element : e.tag = "text" =>
           /\ OfKind(made[e], kind)
           /\ \A c : c[1] = kind => Alike(TextHits(e), made[e], c),
         NEW hitLists \in [DOMAIN Tagged("text") -> Seq(ScanHit)],
         \A n \in DOMAIN Tagged("text") : hitLists[n] = made[Tagged("text")[n]]
  PROVE  KindOK(Collect(base, hitLists), kind)
<1> DEFINE result == Collect(base, hitLists)
           S == ShownAs("text")
           at == [p \in S |-> made[page[p]]]
<1>1. /\ S \in SUBSET Shown /\ Shown \in SUBSET Int
      /\ \A p \in Shown : page[p] \in Element
      /\ \A p \in S : page[p].tag = "text"
  BY ShownPlaces DEF ShownAs
<1>2. \A p \in S : at[p] = made[page[p]]
  OBVIOUS
<1> HIDE DEF S, at
<1>3. \A e \in Element : e.tag = "text" => OfKind(made[e], kind)
  OBVIOUS
<1>4. /\ Selects(hitLists, at, S) /\ hitLists \in Seq(Seq(ScanHit))
      /\ \A m \in DOMAIN hitLists : OfKind(hitLists[m], kind)
  <2>1. AreMade(hitLists, at, made, "text", kind)
    BY <1>2, <1>3 DEF AreMade, S
  <2>2. QED
    BY <2>1, HitListsOf DEF S
<1>5. base \in Seq(ScanHit) /\ OfKind(base, kind)
  BY DEF BaseOK, OfKind
<1>6. OfKind(result, kind) /\ result \in Seq(ScanHit)
  <2>1. OfKind(result, kind)
    BY <1>4, <1>5, CollectKind
  <2>2. QED
    BY <2>1 DEF OfKind
<1> HIDE DEF result
<1>7. ASSUME NEW c \in ContactKey, c[1] = kind
      PROVE  IF InAnchors(c) \union InTexts(c) = {} THEN Mentions(result, c) = {}
                                                    ELSE ListedOnce(result, c)
  <2>1. /\ InAnchors(c) = {} => Mentions(base, c) = {}
        /\ InAnchors(c) # {} =>
             /\ Mentions(base, c) # {}
             /\ Cardinality(Mentions(base, c)) =
                  IF kind = "email" THEN Cardinality(InAnchors(c)) ELSE 1
        /\ \A i \in FirstOf(InAnchors(c)) : SameFirst(base, AnchorHits(page[i]), c)
    BY <1>7 DEF BaseOK
  <2>2. CASE InAnchors(c) # {}
    <3>1. Alike(result, base, c)
      BY <1>4, <1>5, <2>1, <2>2, ListedStays DEF result
    <3>2. Cardinality(Mentions(result, c)) = Cardinality(Mentions(base, c))
      BY <1>5, <1>6, <3>1, AlikeFirst
    <3>3. \A hits : SameFirst(base, hits, c) => SameFirst(result, hits, c)
      BY <1>5, <1>6, <3>1, AlikeSame
    <3>4. ListedOnce(result, c)
      BY <1>7, <2>1, <2>2, <3>2, <3>3 DEF ListedOnce
    <3>5. QED
      BY <2>2, <3>4
  <2>3. CASE InAnchors(c) = {}
    <3> DEFINE P == {p \in S : Mentions(at[p], c) # {}}
    <3>1. /\ P = {} => Mentions(result, c) = {}
          /\ P # {} => /\ Mentions(result, c) # {}
                       /\ Cardinality(Mentions(result, c)) = 1
          /\ \A p \in FirstOf(P) : SameFirst(result, at[p], c)
      <4>1. S \in SUBSET Int
        BY <1>1
      <4>2. QED
        BY <1>4, <1>5, <2>1, <2>3, <4>1, Gathered DEF result
    <3>2. ASSUME NEW p \in S
          PROVE  /\ Mentions(TextHits(page[p]), c) = {} <=> Mentions(at[p], c) = {}
                 /\ SameFirst(result, at[p], c) =>
                      SameFirst(result, TextHits(page[p]), c)
      <4>1. /\ page[p] \in Element /\ page[p].tag = "text"
            /\ at[p] = made[page[p]]
        BY <1>1, <1>2
      <4>2. Alike(TextHits(page[p]), at[p], c)
        BY <1>7, <4>1
      <4>3. TextHits(page[p]) \in Seq(ScanHit) /\ at[p] \in Seq(ScanHit)
        BY <1>3, <4>1, TextKinds DEF OfKind
      <4>4. QED
        BY <4>2, <4>3, AlikeFirst, AlikeSame
    <3>3. P = InTexts(c)
      <4>1. \A p \in Shown : Mentions(TextHits(page[p]), c) # {} => p \in S
        BY <1>1, TextKinds DEF S, ShownAs
      <4>2. QED
        BY <1>1, <3>2, <4>1 DEF InTexts
    <3> HIDE DEF P
    <3>4. \A p \in P : p \in S
      BY DEF P
    <3>5. CASE P = {}
      BY <2>3, <3>1, <3>3, <3>5
    <3>6. CASE P # {}
      <4>1. \A p \in FirstOf(InTexts(c)) : SameFirst(result, TextHits(page[p]), c)
        BY <3>1, <3>2, <3>3, <3>4 DEF FirstOf
      <4>2. FirstOf(InAnchors(c)) = {}
        BY <2>3 DEF FirstOf
      <4>3. ListedOnce(result, c)
        BY <2>3, <3>1, <3>6, <4>1, <4>2 DEF ListedOnce
      <4>4. QED
        BY <2>3, <3>3, <3>6, <4>3
    <3>7. QED
      BY <3>5, <3>6
  <2>4. QED
    BY <2>2, <2>3
<1>8. QED
  BY <1>6, <1>7 DEF KindOK, result

\* The loop over the anchors with a phone number, or a profile.
LEMMA AnchorsAdd ==
  ASSUME ScanTypeOK, NEW kind, NEW tag, NEW made,
         \/ kind = "phone" /\ tag = "tel"
         \/ kind = "linkedin" /\ tag = "a",
         \A e \in Element : e.tag = tag =>
           OfKind(made[e], kind) /\ AnchorHits(e) = made[e],
         NEW hitLists \in [DOMAIN Tagged(tag) -> Seq(ScanHit)],
         \A n \in DOMAIN Tagged(tag) : hitLists[n] = made[Tagged(tag)[n]]
  PROVE  BaseOK(Collect(<<>>, hitLists), kind)
<1> DEFINE result == Collect(<<>>, hitLists)
           S == ShownAs(tag)
           at == [p \in S |-> made[page[p]]]
<1>1. /\ S \in SUBSET Shown /\ S \in SUBSET Int
      /\ \A p \in Shown : page[p] \in Element
      /\ \A p \in S : page[p].tag = tag
  BY ShownPlaces DEF ShownAs
<1>2. \A p \in S : at[p] = made[page[p]]
  OBVIOUS
<1> HIDE DEF S, at
<1>3. /\ Selects(hitLists, at, S) /\ hitLists \in Seq(Seq(ScanHit))
      /\ \A m \in DOMAIN hitLists : OfKind(hitLists[m], kind)
  <2>1. AreMade(hitLists, at, made, tag, kind)
    BY <1>2 DEF AreMade, S
  <2>2. QED
    BY <2>1, HitListsOf DEF S
<1>4. /\ <<>> \in Seq(ScanHit) /\ OfKind(<<>>, kind)
      /\ \A c : Mentions(<<>>, c) = {}
  BY EmptySeq DEF OfKind, Mentions
<1>5. OfKind(result, kind)
  BY <1>3, <1>4, CollectKind
<1> HIDE DEF result
<1>6. ASSUME NEW c \in ContactKey, c[1] = kind
      PROVE  /\ InAnchors(c) = {} => Mentions(result, c) = {}
             /\ InAnchors(c) # {} =>
                  /\ Mentions(result, c) # {}
                  /\ Cardinality(Mentions(result, c)) = 1
             /\ \A i \in FirstOf(InAnchors(c)) :
                  SameFirst(result, AnchorHits(page[i]), c)
  <2> DEFINE P == InAnchors(c)
  <2>1. \A p \in S : AnchorHits(page[p]) = at[p]
    BY <1>1, <1>2
  <2>2. \A p : p \in P <=> p \in S /\ Mentions(at[p], c) # {}
    <3>1. \A p \in Shown : Mentions(AnchorHits(page[p]), c) # {} => page[p].tag = tag
      BY <1>1, <1>6, AnchorKinds
    <3>2. \A p \in Shown : Mentions(AnchorHits(page[p]), c) # {} => p \in S
      BY <3>1 DEF S, ShownAs
    <3>3. QED
      BY <1>1, <2>1, <3>2 DEF InAnchors
  <2> HIDE DEF P
  <2>3. /\ P = {} => Mentions(result, c) = {}
        /\ P # {} => /\ Mentions(result, c) # {}
                     /\ Cardinality(Mentions(result, c)) = 1
        /\ \A p \in FirstOf(P) : SameFirst(result, at[p], c)
    BY <1>1, <1>3, <1>4, <2>2, Gathered DEF result
  <2>4. \A p \in FirstOf(P) : SameFirst(result, AnchorHits(page[p]), c)
    BY <2>1, <2>2, <2>3 DEF FirstOf
  <2>5. QED
    BY <2>3, <2>4 DEF P
<1>7. kind # "email"
  OBVIOUS
<1>8. QED
  BY <1>5, <1>6, <1>7 DEF BaseOK, result

\* The mailto anchors with a valid email.
MailtoAnchors == Keep(Tagged("mailto"), LAMBDA e : IsEmail(e.email))

\* Where they are on the page.
MailtoPlaces == {i \in ShownAs("mailto") : IsEmail(page[i].email)}

\* They are those that are shown.
LEMMA MailtoPlaced ==
  ASSUME ScanTypeOK
  PROVE  /\ Selects(MailtoAnchors, page, MailtoPlaces)
         /\ MailtoAnchors \in Seq(Element)
<1> DEFINE kept == Tagged("mailto")
           Q == {e \in Element : IsEmail(e.email)}
           S == {i \in DOMAIN kept : IsEmail(kept[i].email)}
           places == InOrder(S, <)
<1>1. Selects(kept, page, ShownAs("mailto")) /\ kept \in Seq(Element)
  BY TaggedPlaces
<1>2. MailtoAnchors = [n \in DOMAIN places |-> kept[places[n]]]
  BY DEF MailtoAnchors, Keep
<1>3. S \in SUBSET DOMAIN kept
  OBVIOUS
<1> HIDE DEF kept
<1>4. IsListing(places, S, NumberOrder(S))
  BY <1>1, <1>3, PlacesInOrder
<1>5. \A i : i \in S <=> i \in DOMAIN kept /\ kept[i] \in Q
  BY <1>1
<1>6. \A i : i \in MailtoPlaces <=> i \in ShownAs("mailto") /\ page[i] \in Q
  BY ShownPlaces DEF MailtoPlaces, ShownAs
<1> HIDE DEF S, places, Q
<1>7. Selects(MailtoAnchors, kept, S) /\ MailtoAnchors \in Seq(Element)
  BY <1>1, <1>2, <1>3, <1>4, AtPlaces
<1>8. Selects(MailtoAnchors, page, MailtoPlaces)
  BY <1>1, <1>5, <1>6, <1>7, SelectsTwice DEF kept
<1>9. QED
  BY <1>7, <1>8

\* The emails of the anchors are listed as they come, each as often as there are
\* anchors with it.
LEMMA MailtoBase ==
  ASSUME ScanTypeOK
  PROVE  BaseOK([i \in DOMAIN MailtoAnchors |-> MailtoHit(MailtoAnchors[i])], "email")
<1> DEFINE anchors == MailtoAnchors
           V == MailtoPlaces
           base == [i \in DOMAIN anchors |-> MailtoHit(anchors[i])]
<1>1. Selects(anchors, page, V) /\ anchors \in Seq(Element)
  BY MailtoPlaced
<1>2. PICK f \in [DOMAIN anchors -> V] :
        /\ \A n \in DOMAIN anchors : anchors[n] = page[f[n]]
        /\ \A i \in V : \E n \in DOMAIN anchors : f[n] = i
        /\ \A m, n \in DOMAIN anchors : m < n <=> f[m] < f[n]
  BY <1>1 DEF Selects
<1>3. /\ V \in SUBSET Shown /\ V \in SUBSET Int
      /\ \A p \in Shown : page[p] \in Element
      /\ \A p \in V : page[p].tag = "mailto" /\ IsEmail(page[p].email)
  BY ShownPlaces DEF MailtoPlaces, ShownAs
<1>4. /\ DOMAIN base = DOMAIN anchors
      /\ \A n \in DOMAIN anchors : base[n] = MailtoHit(page[f[n]])
  BY <1>2
<1>5. \A p \in V : /\ MailtoHit(page[p]) \in ScanHit
                   /\ MailtoHit(page[p]).contact = <<"email", page[p].email>>
                   /\ AnchorHits(page[p]) = <<MailtoHit(page[p])>>
  BY <1>3, ElementHits, AnchorKinds
<1>6. \A n \in DOMAIN anchors :
        base[n] \in ScanHit /\ base[n].contact = <<"email", page[f[n]].email>>
  BY <1>2, <1>4, <1>5
<1>7. DOMAIN anchors = 1 .. Len(anchors) /\ Len(anchors) \in Nat
  BY <1>1
<1>8. base \in Seq(ScanHit)
  <2>1. base \in [1 .. Len(anchors) -> ScanHit]
    BY <1>6, <1>7
  <2>2. QED
    BY <1>7, <2>1
<1> HIDE DEF anchors, V, base
<1>9. OfKind(base, "email")
  BY <1>4, <1>6, <1>8 DEF OfKind
<1>10. ASSUME NEW c \in ContactKey, c[1] = "email"
       PROVE  /\ InAnchors(c) = {} => Mentions(base, c) = {}
              /\ InAnchors(c) # {} =>
                   /\ Mentions(base, c) # {}
                   /\ Cardinality(Mentions(base, c)) = Cardinality(InAnchors(c))
              /\ \A i \in FirstOf(InAnchors(c)) :
                   SameFirst(base, AnchorHits(page[i]), c)
  <2> DEFINE M == Mentions(base, c)
             P == InAnchors(c)
  <2>1. \A n : n \in M <=> n \in DOMAIN anchors /\ f[n] \in P
    <3>1. \A p \in V : p \in P <=> <<"email", page[p].email>> = c
      BY <1>3, <1>5 DEF InAnchors, Mentions
    <3>2. \A n \in DOMAIN anchors : f[n] \in V
      BY <1>2
    <3>3. QED
      BY <1>4, <1>6, <3>1, <3>2 DEF Mentions
  <2>2. P \in SUBSET V
    <3>1. \A p \in P : p \in Shown /\ Mentions(AnchorHits(page[p]), c) # {}
      BY DEF InAnchors
    <3>2. \A p \in P : page[p].tag = "mailto" /\ IsEmail(page[p].email)
      BY <1>3, <1>10, <3>1, AnchorKinds
    <3>3. QED
      BY <3>1, <3>2 DEF V, MailtoPlaces, ShownAs
  <2> HIDE DEF M, P
  <2>3. \A p \in P : \E n \in M : f[n] = p
    BY <1>2, <2>1, <2>2
  <2>4. M \in SUBSET (1 .. Len(anchors)) /\ IsFiniteSet(M)
    <3>1. M \in SUBSET (1 .. Len(anchors)) /\ IsFiniteSet(1 .. Len(anchors))
      BY <1>7, <2>1, FS_Interval
    <3>2. QED
      BY <3>1, FS_Subset
  <2>5. \A m, n \in M : /\ m < n <=> f[m] < f[n]
                        /\ f[m] = f[n] => m = n
    <3>1. \A m, n \in M : m < n <=> f[m] < f[n]
      BY <1>2, <2>1
    <3>2. ASSUME NEW m \in M, NEW n \in M, f[m] = f[n] PROVE m = n
      <4>1. ~(m < n) /\ ~(n < m)
        <5>1. f[m] \in Int /\ f[n] = f[m]
          BY <1>3, <2>1, <2>2, <3>2
        <5>2. ~(f[m] < f[n]) /\ ~(f[n] < f[m])
          BY <5>1
        <5>3. QED
          BY <3>1, <5>2
      <4>2. m \in Int /\ n \in Int
        BY <2>4
      <4>3. QED
        BY <4>1, <4>2
    <3>3. QED
      BY <3>1, <3>2
  <2>6. Cardinality(M) = Cardinality(P)
    <3> DEFINE g == [n \in M |-> f[n]]
    <3>1. g \in [M -> P] /\ \A p \in P : \E n \in M : g[n] = p
      BY <2>1, <2>3
    <3>2. \A m, n \in M : g[m] = g[n] => m = n
      BY <2>5
    <3> HIDE DEF g
    <3>3. g \in Bijection(M, P)
      BY <3>1, <3>2 DEF Bijection, Injection, IsInjective, Surjection
    <3>4. QED
      BY <2>4, <3>3, FS_Bijection DEF ExistsBijection
  <2>7. P = {} <=> M = {}
    BY <2>1, <2>3
  <2>8. ASSUME NEW p \in FirstOf(P) PROVE SameFirst(base, AnchorHits(page[p]), c)
    <3> SUFFICES ASSUME NEW n \in FirstOf(M),
                        NEW k \in FirstOf(Mentions(AnchorHits(page[p]), c))
                 PROVE  base[n] = AnchorHits(page[p])[k]
      BY DEF SameFirst, M
    <3>1. /\ p \in P /\ \A q \in P : p <= q
          /\ n \in M /\ \A m \in M : n <= m
      BY DEF FirstOf
    <3>2. PICK m \in M : f[m] = p
      BY <2>3, <3>1
    <3>3. n = m
      <4>1. n \in Int /\ m \in Int /\ n <= m
        BY <2>4, <3>1
      <4>2. f[n] \in Int /\ f[m] \in Int /\ f[m] <= f[n]
        BY <1>3, <2>1, <2>2, <3>1, <3>2
      <4>3. ~(f[n] < f[m])
        BY <4>2
      <4>4. ~(n < m)
        BY <2>5, <3>1, <4>3
      <4>5. QED
        BY <4>1, <4>4
    <3>4. base[n] = MailtoHit(page[p])
      BY <1>4, <2>1, <3>1, <3>2, <3>3
    <3>5. AnchorHits(page[p]) = <<MailtoHit(page[p])>>
      BY <1>5, <2>2, <3>1
    <3>6. k = 1
      BY <3>5 DEF FirstOf, Mentions
    <3>7. QED
      BY <3>4, <3>5, <3>6
  <2>9. QED
    BY <2>6, <2>7, <2>8 DEF M, P
<1>11. BaseOK(base, "email")
  BY <1>9, <1>10 DEF BaseOK
<1>12. QED
  BY <1>11 DEF base, anchors

\* EmailExtractor.
LEMMA EmailsFacts ==
  ASSUME ScanTypeOK
  PROVE  KindOK(Emails, "email")
<1> DEFINE base == [i \in DOMAIN MailtoAnchors |-> MailtoHit(MailtoAnchors[i])]
           texts == Tagged("text")
           hitLists == [i \in DOMAIN texts |-> EmailTextHits(texts[i])]
           made == [e \in Element |-> EmailTextHits(e)]
<1>1. Emails = Collect(base, hitLists)
  BY DEF Emails, MailtoAnchors
<1>2. BaseOK(base, "email")
  BY MailtoBase
<1>3. \A e \in Element : made[e] = EmailTextHits(e)
  OBVIOUS
<1>4. DOMAIN hitLists = DOMAIN texts /\ \A n \in DOMAIN texts : hitLists[n] = EmailTextHits(texts[n])
  OBVIOUS
<1>5. ASSUME NEW e \in Element, e.tag = "text"
      PROVE  /\ OfKind(made[e], "email")
             /\ \A c : c[1] = "email" => Alike(TextHits(e), made[e], c)
  BY <1>3, <1>5, ElementHits, TextKinds
<1>6. \A n \in DOMAIN texts : texts[n] \in Element /\ texts[n].tag = "text"
  BY TaggedElements
<1>7. hitLists \in [DOMAIN texts -> Seq(ScanHit)]
  <2>1. \A n \in DOMAIN texts : EmailTextHits(texts[n]) \in Seq(ScanHit)
    BY <1>6, ElementHits DEF OfKind
  <2>2. QED
    BY <2>1
<1> HIDE DEF base, hitLists, made
<1>8. \A n \in DOMAIN Tagged("text") : hitLists[n] = made[Tagged("text")[n]]
  BY <1>3, <1>4, <1>6
<1>9. QED
  BY <1>1, <1>2, <1>5, <1>7, <1>8, TextsAdd

\* PhoneExtractor.
LEMMA PhonesFacts ==
  ASSUME ScanTypeOK
  PROVE  KindOK(Phones, "phone")
<1> DEFINE anchors == Tagged("tel")
           texts == Tagged("text")
           telLists == [i \in DOMAIN anchors |-> TelHits(anchors[i])]
           textLists == [i \in DOMAIN texts |-> PhoneTextHits(texts[i])]
           base == Collect(<<>>, telLists)
           ofTel == [e \in Element |-> TelHits(e)]
           ofText == [e \in Element |-> PhoneTextHits(e)]
<1>1. Phones = Collect(base, textLists)
  BY DEF Phones
<1>2. \A e \in Element : ofTel[e] = TelHits(e) /\ ofText[e] = PhoneTextHits(e)
  OBVIOUS
<1>3. /\ \A n \in DOMAIN anchors : anchors[n] \in Element /\ anchors[n].tag = "tel"
      /\ \A n \in DOMAIN texts : texts[n] \in Element /\ texts[n].tag = "text"
  BY TaggedElements
<1>4. /\ \A n \in DOMAIN anchors : telLists[n] = TelHits(anchors[n])
      /\ \A n \in DOMAIN texts : textLists[n] = PhoneTextHits(texts[n])
  OBVIOUS
<1>5. ASSUME NEW e \in Element
      PROVE  /\ e.tag = "tel" => OfKind(ofTel[e], "phone") /\ AnchorHits(e) = ofTel[e]
             /\ e.tag = "text" =>
                  /\ OfKind(ofText[e], "phone")
                  /\ \A c : c[1] = "phone" => Alike(TextHits(e), ofText[e], c)
  BY <1>2, AnchorKinds, ElementHits, TextKinds
<1>6. /\ telLists \in [DOMAIN anchors -> Seq(ScanHit)]
      /\ textLists \in [DOMAIN texts -> Seq(ScanHit)]
  <2>1. /\ \A n \in DOMAIN anchors : TelHits(anchors[n]) \in Seq(ScanHit)
        /\ \A n \in DOMAIN texts : PhoneTextHits(texts[n]) \in Seq(ScanHit)
    BY <1>3, ElementHits DEF OfKind
  <2>2. QED
    BY <2>1
<1> HIDE DEF telLists, textLists, ofTel, ofText
<1>7. /\ \A n \in DOMAIN anchors : telLists[n] = ofTel[anchors[n]]
      /\ \A n \in DOMAIN texts : textLists[n] = ofText[texts[n]]
  BY <1>2, <1>3, <1>4
<1>8. BaseOK(base, "phone")
  <2>1. \A e \in Element : e.tag = "tel" =>
          OfKind(ofTel[e], "phone") /\ AnchorHits(e) = ofTel[e]
    BY <1>5
  <2>2. /\ telLists \in [DOMAIN Tagged("tel") -> Seq(ScanHit)]
        /\ \A n \in DOMAIN Tagged("tel") : telLists[n] = ofTel[Tagged("tel")[n]]
    BY <1>6, <1>7
  <2>3. QED
    BY <2>1, <2>2, AnchorsAdd
<1> HIDE DEF base
<1>9. QED
  BY <1>1, <1>5, <1>6, <1>7, <1>8, TextsAdd

\* LinkedInExtractor.
LEMMA ProfilesFacts ==
  ASSUME ScanTypeOK
  PROVE  KindOK(Profiles, "linkedin")
<1> DEFINE anchors == Tagged("a")
           texts == Tagged("text")
           linkLists == [i \in DOMAIN anchors |-> ProfileAnchorHits(anchors[i])]
           textLists == [i \in DOMAIN texts |-> ProfileTextHits(texts[i])]
           base == Collect(<<>>, linkLists)
           ofLink == [e \in Element |-> ProfileAnchorHits(e)]
           ofText == [e \in Element |-> ProfileTextHits(e)]
<1>1. Profiles = Collect(base, textLists)
  BY DEF Profiles
<1>2. \A e \in Element :
        ofLink[e] = ProfileAnchorHits(e) /\ ofText[e] = ProfileTextHits(e)
  OBVIOUS
<1>3. /\ \A n \in DOMAIN anchors : anchors[n] \in Element /\ anchors[n].tag = "a"
      /\ \A n \in DOMAIN texts : texts[n] \in Element /\ texts[n].tag = "text"
  BY TaggedElements
<1>4. /\ \A n \in DOMAIN anchors : linkLists[n] = ProfileAnchorHits(anchors[n])
      /\ \A n \in DOMAIN texts : textLists[n] = ProfileTextHits(texts[n])
  OBVIOUS
<1>5. ASSUME NEW e \in Element
      PROVE  /\ e.tag = "a" => OfKind(ofLink[e], "linkedin") /\ AnchorHits(e) = ofLink[e]
             /\ e.tag = "text" =>
                  /\ OfKind(ofText[e], "linkedin")
                  /\ \A c : c[1] = "linkedin" => Alike(TextHits(e), ofText[e], c)
  BY <1>2, AnchorKinds, ElementHits, TextKinds
<1>6. /\ linkLists \in [DOMAIN anchors -> Seq(ScanHit)]
      /\ textLists \in [DOMAIN texts -> Seq(ScanHit)]
  <2>1. /\ \A n \in DOMAIN anchors : ProfileAnchorHits(anchors[n]) \in Seq(ScanHit)
        /\ \A n \in DOMAIN texts : ProfileTextHits(texts[n]) \in Seq(ScanHit)
    BY <1>3, ElementHits DEF OfKind
  <2>2. QED
    BY <2>1
<1> HIDE DEF linkLists, textLists, ofLink, ofText
<1>7. /\ \A n \in DOMAIN anchors : linkLists[n] = ofLink[anchors[n]]
      /\ \A n \in DOMAIN texts : textLists[n] = ofText[texts[n]]
  BY <1>2, <1>3, <1>4
<1>8. BaseOK(base, "linkedin")
  <2>1. \A e \in Element : e.tag = "a" =>
          OfKind(ofLink[e], "linkedin") /\ AnchorHits(e) = ofLink[e]
    BY <1>5
  <2>2. /\ linkLists \in [DOMAIN Tagged("a") -> Seq(ScanHit)]
        /\ \A n \in DOMAIN Tagged("a") : linkLists[n] = ofLink[Tagged("a")[n]]
    BY <1>6, <1>7
  <2>3. QED
    BY <2>1, <2>2, AnchorsAdd
<1> HIDE DEF base
<1>9. QED
  BY <1>1, <1>5, <1>6, <1>7, <1>8, TextsAdd

\* Every contact a page shows is listed as it should be, and no other one.
THEOREM ContactsOnceAlways == ScanSpec => []ContactsOnce
<1>1. ASSUME ScanTypeOK PROVE ContactsOnce
  <2> DEFINE list == Emails \o Phones \o Profiles
  <2>1. /\ KindOK(Emails, "email") /\ KindOK(Phones, "phone")
        /\ KindOK(Profiles, "linkedin")
    BY <1>1, EmailsFacts, PhonesFacts, ProfilesFacts
  <2>2. /\ OfKind(Emails, "email") /\ OfKind(Phones, "phone")
        /\ OfKind(Profiles, "linkedin")
    BY <2>1 DEF KindOK
  <2>3. /\ list \in Seq(ScanHit)
        /\ \A c : /\ c[1] = "email" => Alike(list, Emails, c)
                  /\ c[1] = "phone" => Alike(list, Phones, c)
                  /\ c[1] = "linkedin" => Alike(list, Profiles, c)
        /\ \A i \in DOMAIN list :
             list[i].contact[1] \in {"email", "phone", "linkedin"}
    BY <2>2, ThreeKinds
  <2> HIDE DEF list
  <2>4. /\ Emails \in Seq(ScanHit) /\ Phones \in Seq(ScanHit)
        /\ Profiles \in Seq(ScanHit)
    BY <2>2 DEF OfKind
  <2>5. ASSUME NEW c \in ContactKey, c[1] \in {"email", "phone", "linkedin"}
        PROVE  IF InAnchors(c) \union InTexts(c) = {} THEN Mentions(list, c) = {}
                                                      ELSE ListedOnce(list, c)
    <3>1. CASE c[1] = "email"
      <4>1. IF InAnchors(c) \union InTexts(c) = {} THEN Mentions(Emails, c) = {}
                                                   ELSE ListedOnce(Emails, c)
        BY <2>1, <3>1 DEF KindOK
      <4>2. Alike(list, Emails, c)
        BY <2>3, <3>1
      <4>3. QED
        BY <2>3, <2>4, <4>1, <4>2, AlikeFirst, AlikeListed
    <3>2. CASE c[1] = "phone"
      <4>1. IF InAnchors(c) \union InTexts(c) = {} THEN Mentions(Phones, c) = {}
                                                   ELSE ListedOnce(Phones, c)
        BY <2>1, <3>2 DEF KindOK
      <4>2. Alike(list, Phones, c)
        BY <2>3, <3>2
      <4>3. QED
        BY <2>3, <2>4, <4>1, <4>2, AlikeFirst, AlikeListed
    <3>3. CASE c[1] = "linkedin"
      <4>1. IF InAnchors(c) \union InTexts(c) = {} THEN Mentions(Profiles, c) = {}
                                                   ELSE ListedOnce(Profiles, c)
        BY <2>1, <3>3 DEF KindOK
      <4>2. Alike(list, Profiles, c)
        BY <2>3, <3>3
      <4>3. QED
        BY <2>3, <2>4, <4>1, <4>2, AlikeFirst, AlikeListed
    <3>4. QED
      BY <2>5, <3>1, <3>2, <3>3
  <2>6. ASSUME NEW hit \in ToSet(list)
        PROVE  InAnchors(hit.contact) \union InTexts(hit.contact) # {}
    <3>1. PICK i \in DOMAIN list : hit = list[i]
      BY DEF ToSet
    <3>2. hit \in ScanHit /\ hit.contact[1] \in {"email", "phone", "linkedin"}
      BY <2>3, <3>1
    <3>3. hit.contact \in ContactKey
      BY <3>2 DEF ScanHit
    <3>4. Mentions(list, hit.contact) # {}
      BY <3>1 DEF Mentions
    <3>5. QED
      BY <2>5, <3>2, <3>3, <3>4
  <2>7. ASSUME NEW p \in Shown,
               NEW hit \in ToSet(AnchorHits(page[p]) \o TextHits(page[p]))
        PROVE  ListedOnce(list, hit.contact)
    <3> DEFINE a == AnchorHits(page[p])
               b == TextHits(page[p])
               c == hit.contact
    <3>1. page[p] \in Element
      BY <1>1, ShownPlaces
    <3>2. a \in Seq(ScanHit) /\ b \in Seq(ScanHit)
      BY <3>1, AnchorKinds, TextKinds
    <3>3. PICK i \in DOMAIN (a \o b) : hit = (a \o b)[i]
      BY <2>7 DEF ToSet
    <3>4. (\E k \in DOMAIN a : a[k] = hit) \/ (\E k \in DOMAIN b : b[k] = hit)
      <4> HIDE DEF a, b
      <4>1. /\ Len(a) \in Nat /\ DOMAIN a = 1 .. Len(a)
            /\ Len(b) \in Nat /\ DOMAIN b = 1 .. Len(b)
        BY <3>2
      <4>2. /\ a \o b \in Seq(ScanHit) /\ Len(a \o b) = Len(a) + Len(b)
            /\ \A k \in 1 .. Len(a) + Len(b) :
                 (a \o b)[k] = IF k <= Len(a) THEN a[k] ELSE b[k - Len(a)]
        BY <3>2, ConcatProperties
      <4>3. DOMAIN (a \o b) = 1 .. Len(a) + Len(b)
        BY <4>2
      <4>4. i \in 1 .. Len(a) + Len(b)
        BY <3>3, <4>3
      <4>5. CASE i <= Len(a)
        <5>1. i \in 1 .. Len(a)
          BY <4>1, <4>4, <4>5
        <5>2. QED
          BY <3>3, <4>1, <4>2, <4>4, <4>5, <5>1
      <4>6. CASE ~(i <= Len(a))
        <5>1. i - Len(a) \in 1 .. Len(b)
          BY <4>1, <4>4, <4>6
        <5>2. QED
          BY <3>3, <4>1, <4>2, <4>4, <4>6, <5>1
      <4>7. QED
        BY <4>5, <4>6
    <3>5. Mentions(a, c) # {} \/ Mentions(b, c) # {}
      BY <3>4 DEF Mentions
    <3>6. c \in ContactKey /\ c[1] \in {"email", "phone", "linkedin"}
      BY <3>1, <3>5, AnchorKinds, TextKinds
    <3>7. InAnchors(c) \union InTexts(c) # {}
      BY <3>5 DEF InAnchors, InTexts
    <3> HIDE DEF c
    <3>8. ListedOnce(list, c)
      BY <2>5, <3>6, <3>7
    <3>9. QED
      BY <3>8 DEF c
  <2>8. OnceIn(list)
    BY <2>6, <2>7 DEF OnceIn
  <2>9. QED
    BY <2>8 DEF ContactsOnce, AllContacts, list
<1>2. QED
  BY <1>1, ScanTypeAlways, PTL

\* What save_contacts takes of each hit.
Stored(hits) == [i \in DOMAIN hits |->
  [contact |-> hits[i].contact, confidence |-> hits[i].confidence]]

\* What is handed to save_contacts is what StoreAssumption says it is, with the
\* keys of emails, phone numbers and profiles as Contact.
THEOREM ContactsStorable ==
  ScanSpec => [](Stored(AllContacts)
                   \in Seq([contact : ContactKey, confidence : Nat \ {0}]))
<1>1. ASSUME ScanTypeOK
      PROVE  Stored(AllContacts)
               \in Seq([contact : ContactKey, confidence : Nat \ {0}])
  <2> DEFINE list == AllContacts
             StoredHit == [contact : ContactKey, confidence : Nat \ {0}]
             stored == Stored(list)
  <2>1. /\ OfKind(Emails, "email") /\ OfKind(Phones, "phone")
        /\ OfKind(Profiles, "linkedin")
    BY <1>1, EmailsFacts, PhonesFacts, ProfilesFacts DEF KindOK
  <2>2. list \in Seq(ScanHit)
    BY <2>1, ThreeKinds DEF AllContacts
  <2> HIDE DEF list
  <2>3. /\ Len(list) \in Nat /\ DOMAIN list = 1 .. Len(list)
        /\ \A i \in 1 .. Len(list) : list[i] \in ScanHit
    BY <2>2
  <2>4. \A i \in 1 .. Len(list) :
          [contact |-> list[i].contact, confidence |-> list[i].confidence]
            \in StoredHit
    <3>1. \A hit \in ScanHit :
            hit.contact \in ContactKey /\ hit.confidence \in 1 .. 100
      BY DEF ScanHit
    <3>2. \A n \in 1 .. 100 : n \in Nat \ {0}
      OBVIOUS
    <3>3. QED
      BY <2>3, <3>1, <3>2
  <2>5. stored \in [1 .. Len(list) -> StoredHit]
    BY <2>3, <2>4 DEF Stored
  <2> HIDE DEF stored, StoredHit
  <2>6. stored \in Seq(StoredHit)
    BY <2>3, <2>5
  <2>7. QED
    BY <2>6 DEF stored, list, StoredHit
<1>2. QED
  BY <1>1, ScanTypeAlways, PTL

-----------------------------------------------------------------------------
(***************************************************************************)
(* Types.                                                                  *)
(***************************************************************************)

\* A transaction works on an element of the list, or has been through it.
PositionInv ==
  \A p \in Page :
    /\ pc[p] = "idle" => position[p] = 1
    /\ pc[p] \in {"select", "update", "insert"} =>
         position[p] \in 1 .. Len(Extracted[p])
    /\ pc[p] = "commit" => position[p] = Len(Extracted[p]) + 1

\* What is known of an element of the list of a page.
LEMMA ListedType ==
  ASSUME NEW p \in Page
  PROVE  /\ Len(Extracted[p]) \in Nat
         /\ DOMAIN Extracted[p] = 1 .. Len(Extracted[p])
         /\ \A i \in 1 .. Len(Extracted[p]) :
              /\ Extracted[p][i].contact \in Contact
              /\ Extracted[p][i].confidence \in Nat
              /\ Extracted[p][i].confidence > 0
              /\ Extracted[p][i].contact \in Listed(p)
<1> DEFINE Hits == [contact : Contact, confidence : Nat \ {0}]
<1>1. Extracted[p] \in Seq(Hits)
  BY StoreAssumption
<1>2. \A hit \in Hits : /\ hit.contact \in Contact
                        /\ hit.confidence \in Nat /\ hit.confidence > 0
  OBVIOUS
<1> HIDE DEF Hits
<1>3. /\ Len(Extracted[p]) \in Nat
      /\ DOMAIN Extracted[p] = 1 .. Len(Extracted[p])
      /\ \A i \in 1 .. Len(Extracted[p]) : Extracted[p][i] \in Hits
  BY <1>1
<1>4. QED
  BY <1>2, <1>3 DEF Listed

\* What is known of the element that a transaction is at.
LEMMA EntryType ==
  ASSUME TypeOK, PositionInv, NEW p \in Page,
         pc[p] \in {"select", "update", "insert"}
  PROVE  /\ Current(p) \in Contact /\ Current(p) \in Listed(p)
         /\ Entry(p).confidence \in Nat /\ Entry(p).confidence > 0
         /\ position[p] \in 1 .. Len(Extracted[p])
<1>1. position[p] \in 1 .. Len(Extracted[p])
  BY DEF PositionInv
<1>2. QED
  BY <1>1, ListedType DEF Current, Entry

\* Where Advance leads, in type.
LEMMA AdvanceType ==
  ASSUME TypeOK, PositionInv, NEW p \in Page,
         pc[p] \in {"select", "update", "insert"}, Advance(p)
  PROVE  /\ pc' \in [Page -> Inside \union {"idle", "saved", "lost"}]
         /\ position' \in [Page -> Nat \ {0}]
         /\ PositionInv'
         /\ pc'[p] \in {"select", "commit"}
<1>1. /\ position[p] \in 1 .. Len(Extracted[p]) /\ Len(Extracted[p]) \in Nat
  BY EntryType, ListedType
<1>2. /\ pc \in [Page -> Inside \union {"idle", "saved", "lost"}]
      /\ position \in [Page -> Nat \ {0}]
  BY DEF TypeOK
<1>3. /\ position' = [position EXCEPT ![p] = position[p] + 1]
      /\ pc' = [pc EXCEPT ![p] =
                  IF position[p] < Len(Extracted[p]) THEN "select"
                                                     ELSE "commit"]
  BY DEF Advance, GoTo
<1>4. /\ pc' \in [Page -> Inside \union {"idle", "saved", "lost"}]
      /\ position' \in [Page -> Nat \ {0}]
      /\ pc'[p] \in {"select", "commit"}
  BY <1>1, <1>2, <1>3 DEF Inside
<1>5. PositionInv'
  BY <1>1, <1>2, <1>3 DEF PositionInv
<1>6. QED
  BY <1>4, <1>5

\* Writing the current contact keeps the types of the drafts.
LEMMA WriteType ==
  ASSUME TypeOK, PositionInv, NEW p \in Page,
         pc[p] \in {"update", "insert"}, Write(p)
  PROVE  /\ draft' \in [Page -> [Contact -> Nat]]
         /\ \A q \in Page \ {p} : draft'[q] = draft[q]
         /\ draft'[p] = [draft[p] EXCEPT ![Current(p)] = Entry(p).confidence]
BY EntryType DEF Write, TypeOK

\* The ways in which a transaction is rolled back: nothing that is committed
\* changes.
Undone(p) == LockTimeout(p) \/ InsertRefused(p) \/ Deadlocked(p) \/ Fails(p)

\* What a rollback does.
LEMMA UndoneEffect ==
  ASSUME TypeOK, NEW p \in Page, Undone(p)
  PROVE  /\ pc[p] \in {"idle"} \union Inside
         /\ pc' = [pc EXCEPT ![p] = "lost"]
         /\ draft' = [draft EXCEPT ![p] = NoDraft]
         /\ inserted' = [inserted EXCEPT ![p] = {}]
         /\ UNCHANGED <<backend, contacts, sources, found, position>>
         /\ failures' \in 0 .. MaxFailures
<1>1. /\ pc' = [pc EXCEPT ![p] = "lost"]
      /\ draft' = [draft EXCEPT ![p] = NoDraft]
      /\ inserted' = [inserted EXCEPT ![p] = {}]
      /\ UNCHANGED <<backend, contacts, sources, found, position>>
  BY DEF Undone, LockTimeout, InsertRefused, Deadlocked, Fails, RollBack, GoTo,
         committedVars
<1>2. failures' \in 0 .. MaxFailures
  <2>1. \/ failures' = failures
        \/ failures < MaxFailures /\ failures' = failures + 1
    BY DEF Undone, LockTimeout, InsertRefused, Deadlocked, Fails
  <2>2. failures \in 0 .. MaxFailures /\ MaxFailures \in Nat
    BY StoreAssumption DEF TypeOK
  <2>3. QED
    BY <2>1, <2>2
<1>3. pc[p] \in {"idle"} \union Inside
  BY DEF Undone, LockTimeout, InsertRefused, Deadlocked, Fails, Waits, Inside
<1>4. QED
  BY <1>1, <1>2, <1>3

\* The initial states and every step keep the types and the positions.
LEMMA TypeInit == Init => TypeOK /\ PositionInv
<1> SUFFICES ASSUME Init PROVE TypeOK /\ PositionInv
  OBVIOUS
<1>1. NoDraft \in [Contact -> Nat]
  BY DEF NoDraft
<1>2. PositionInv
  BY DEF Init, PositionInv
<1>3. failures \in 0 .. MaxFailures
  BY StoreAssumption DEF Init
<1>4. QED
  BY <1>1, <1>2, <1>3 DEF Init, TypeOK, Inside

\* Every step keeps the types and the positions.
LEMMA TypeStep ==
  TypeOK /\ PositionInv /\ [Next]_vars => TypeOK' /\ PositionInv'
<1> SUFFICES ASSUME TypeOK, PositionInv, [Next]_vars
             PROVE  TypeOK' /\ PositionInv'
  OBVIOUS
<1>0. NoDraft \in [Contact -> Nat]
  BY DEF NoDraft
<1>1. CASE UNCHANGED vars
  BY <1>1 DEF vars, committedVars, TypeOK, PositionInv, NoDraft
<1>2. ASSUME NEW p \in Page, Open(p) PROVE TypeOK' /\ PositionInv'
  <2>1. pc' = [pc EXCEPT ![p] =
                 IF Extracted[p] = <<>> THEN "commit" ELSE "select"]
        /\ pc[p] = "idle"
        /\ UNCHANGED <<backend, contacts, sources, found, position, draft,
                       inserted, failures>>
    BY <1>2 DEF Open, GoTo, committedVars
  <2>2. TypeOK'
    BY <2>1 DEF TypeOK, Inside, NoDraft
  <2>3. /\ Extracted[p] = <<>> <=> Len(Extracted[p]) = 0
        /\ Len(Extracted[p]) \in Nat /\ position[p] = 1
    BY <2>1, StoreAssumption, ListedType DEF PositionInv
  <2>4. PositionInv'
    <3>1. ASSUME NEW q \in Page, q # p
          PROVE  pc'[q] = pc[q] /\ position'[q] = position[q]
      BY <2>1, <3>1 DEF TypeOK
    <3>2. /\ pc'[p] = (IF Len(Extracted[p]) = 0 THEN "commit" ELSE "select")
          /\ position'[p] = 1
      BY <2>1, <2>3 DEF TypeOK
    <3>3. QED
      BY <2>3, <3>1, <3>2 DEF PositionInv
  <2>5. QED
    BY <2>2, <2>4
<1>3. ASSUME NEW p \in Page, Select(p) PROVE TypeOK' /\ PositionInv'
  <2>1. /\ pc[p] = "select"
        /\ UNCHANGED <<backend, contacts, sources, found, draft, inserted,
                       failures>>
        /\ \/ GoTo(p, "insert") /\ UNCHANGED position
           \/ GoTo(p, "update") /\ UNCHANGED position
           \/ Advance(p)
    BY <1>3 DEF Select, committedVars
  <2>2. CASE Advance(p)
    <3>1. PositionInv' /\ pc' \in [Page -> Inside \union {"idle", "saved", "lost"}]
          /\ position' \in [Page -> Nat \ {0}]
      BY <2>1, <2>2, AdvanceType
    <3>2. \A q \in Page : pc'[q] \notin Inside => pc[q] \notin Inside
      BY <2>1, <2>2 DEF Advance, GoTo, Inside, TypeOK
    <3>3. QED
      BY <2>1, <3>1, <3>2 DEF TypeOK, NoDraft
  <2>3. CASE (GoTo(p, "insert") \/ GoTo(p, "update")) /\ UNCHANGED position
    <3>1. PositionInv'
      BY <2>1, <2>3 DEF GoTo, PositionInv, TypeOK
    <3>2. TypeOK'
      BY <2>1, <2>3 DEF GoTo, TypeOK, Inside, NoDraft
    <3>3. QED
      BY <3>1, <3>2
  <2>4. QED
    BY <2>1, <2>2, <2>3
<1>4. ASSUME NEW p \in Page, Update(p) \/ Insert(p)
      PROVE  TypeOK' /\ PositionInv'
  <2>1. /\ pc[p] \in {"update", "insert"} /\ Write(p) /\ Advance(p)
        /\ UNCHANGED <<backend, contacts, sources, found, failures>>
        /\ inserted' \in {inserted,
                          [inserted EXCEPT ![p] = @ \union {Current(p)}]}
    BY <1>4 DEF Update, Insert, committedVars
  <2>2. /\ PositionInv'
        /\ pc' \in [Page -> Inside \union {"idle", "saved", "lost"}]
        /\ position' \in [Page -> Nat \ {0}]
        /\ pc'[p] \in {"select", "commit"}
    BY <2>1, AdvanceType
  <2>3. draft' \in [Page -> [Contact -> Nat]]
        /\ inserted' \in [Page -> SUBSET Contact]
    <3>1. draft' \in [Page -> [Contact -> Nat]] /\ Current(p) \in Contact
      BY <2>1, WriteType, EntryType
    <3>2. QED
      BY <2>1, <3>1 DEF TypeOK
  <2>4. \A q \in Page \ {p} : /\ pc'[q] = pc[q] /\ draft'[q] = draft[q]
                              /\ inserted'[q] = inserted[q]
    BY <2>1, WriteType DEF Advance, GoTo, TypeOK
  <2>5. \A q \in Page :
          pc'[q] \notin Inside => draft'[q] = NoDraft /\ inserted'[q] = {}
    BY <2>2, <2>4 DEF TypeOK, Inside
  <2>6. TypeOK'
    BY <2>1, <2>2, <2>3, <2>5 DEF TypeOK, NoDraft
  <2>7. QED
    BY <2>2, <2>6
<1>5. ASSUME NEW p \in Page, Undone(p) PROVE TypeOK' /\ PositionInv'
  <2>1. PositionInv'
    BY <1>5, UndoneEffect DEF PositionInv, TypeOK
  <2>2. \A q \in Page :
          pc'[q] \notin Inside => draft'[q] = NoDraft /\ inserted'[q] = {}
    BY <1>5, UndoneEffect DEF TypeOK
  <2>3. pc' \in [Page -> Inside \union {"idle", "saved", "lost"}]
    BY <1>5, UndoneEffect DEF TypeOK
  <2>4. draft' \in [Page -> [Contact -> Nat]]
        /\ inserted' \in [Page -> SUBSET Contact]
    BY <1>0, <1>5, UndoneEffect DEF TypeOK
  <2>5. TypeOK'
    BY <1>5, <2>2, <2>3, <2>4, UndoneEffect DEF TypeOK, NoDraft
  <2>6. QED
    BY <2>1, <2>5
<1>6. ASSUME NEW p \in Page, Commit(p) PROVE TypeOK' /\ PositionInv'
  <2>1. /\ pc[p] = "commit" /\ pc' = [pc EXCEPT ![p] = "saved"]
        /\ draft' = [draft EXCEPT ![p] = NoDraft]
        /\ inserted' = [inserted EXCEPT ![p] = {}]
        /\ UNCHANGED <<backend, position, failures>>
        /\ found' = found + Cardinality(inserted[p])
    BY <1>6 DEF Commit, GoTo, Gained
  <2>2. contacts' \in [Contact -> Nat] /\ sources' \in [Contact -> SUBSET Page]
    BY <1>6 DEF Commit, TypeOK
  <2>3. found' \in Nat
    <3>1. inserted[p] \in SUBSET Contact /\ found \in Nat
      BY DEF TypeOK
    <3>2. Cardinality(inserted[p]) \in Nat
      BY <3>1, StoreAssumption, FS_Subset, FS_CardinalityType
    <3>3. QED
      BY <2>1, <3>1, <3>2
  <2>4. PositionInv'
    BY <2>1 DEF PositionInv, TypeOK
  <2>5. \A q \in Page :
          pc'[q] \notin Inside => draft'[q] = NoDraft /\ inserted'[q] = {}
    BY <2>1 DEF TypeOK
  <2>6. TypeOK'
    BY <1>0, <2>1, <2>2, <2>3, <2>5 DEF TypeOK, NoDraft
  <2>7. QED
    BY <2>4, <2>6
<1>7. QED
  BY <1>1, <1>2, <1>3, <1>4, <1>5, <1>6 DEF Next, PageStep, Undone

\* The types and the position in the list are inductive together.
LEMMA TypeAndPosition == Spec => [](TypeOK /\ PositionInv)
<1> QED
  BY TypeInit, TypeStep, PTL DEF Spec

\* Every variable of the store keeps its type, in particular no confidence is
\* stored that no page gave, and whoever is outside a transaction has no draft.
THEOREM TypeCorrect == Spec => []TypeOK
<1> QED
  BY TypeAndPosition, PTL

-----------------------------------------------------------------------------
(***************************************************************************)
(* Who has written which row.                                              *)
(***************************************************************************)

\* A contact row is written by one open transaction at a time.
RowLocks ==
  \A p, q \in Page, c \in Contact :
    draft[p][c] > 0 /\ draft[q][c] > 0 => p = q

\* A row that a transaction has inserted is not committed, and is one that its
\* page lists; one that it has updated is committed.
DraftInv ==
  \A p \in Page, c \in Contact :
    /\ c \in inserted[p] =>
         draft[p][c] > 0 /\ contacts[c] = 0 /\ c \in Listed(p)
    /\ draft[p][c] > 0 /\ c \notin inserted[p] => contacts[c] > 0

\* A transaction that is about to update a row has seen it.
UpdateInv ==
  \A p \in Page : pc[p] = "update" => Seen(p, Current(p)) > 0

\* The inductive invariant behind OneSourcePerContact.
RowInv ==
  TypeOK /\ PositionInv /\ RowLocks /\ DraftInv /\ UpdateInv
    /\ OneSourcePerContact

\* A transaction that is not inside wrote nothing.
LEMMA NoDraftOutside ==
  ASSUME TypeOK, NEW p \in Page, pc[p] \notin Inside, NEW c \in Contact
  PROVE  draft[p][c] = 0 /\ c \notin inserted[p]
BY DEF TypeOK, NoDraft

\* Pages stay saved, and while no row is committed no contact changes its
\* source.
LEMMA SourcesStay ==
  ASSUME RowInv, UNCHANGED <<contacts, sources>>,
         \A q \in Page : pc[q] = "saved" => pc'[q] = "saved"
  PROVE  OneSourcePerContact'
<1>1. ASSUME NEW c \in Contact
      PROVE  /\ contacts[c] > 0 => \E p \in Page : sources[c] = {p}
             /\ contacts[c] = 0 => sources[c] = {}
             /\ \A q \in sources[c] : pc'[q] = "saved" /\ c \in Listed(q)
  BY DEF RowInv, OneSourcePerContact, TypeOK
<1>2. QED
  BY <1>1 DEF OneSourcePerContact

\* A step of p that commits nothing and writes no row keeps the part of RowInv
\* about the other transactions' rows and the sources.
LEMMA ReadingKeepsRows ==
  ASSUME RowInv, NEW p \in Page, pc[p] # "saved",
         \A q \in Page \ {p} : /\ pc'[q] = pc[q] /\ position'[q] = position[q],
         UNCHANGED <<contacts, sources, draft, inserted>>
  PROVE  /\ RowLocks' /\ DraftInv' /\ OneSourcePerContact'
         /\ \A q \in Page \ {p} :
              pc'[q] = "update" => Seen(q, Current(q))' > 0
<1>1. RowLocks' /\ DraftInv'
  BY DEF RowInv, RowLocks, DraftInv
<1>2. OneSourcePerContact'
  BY SourcesStay
<1>3. \A q \in Page \ {p} : pc'[q] = "update" => Seen(q, Current(q))' > 0
  BY DEF RowInv, UpdateInv, Seen, Current, Entry
<1>4. QED
  BY <1>1, <1>2, <1>3

\* Opening a transaction keeps RowInv.
LEMMA OpenKeepsRows ==
  ASSUME RowInv, NEW p \in Page, Open(p)
  PROVE  RowLocks' /\ DraftInv' /\ UpdateInv' /\ OneSourcePerContact'
<1>1. /\ pc[p] = "idle"
      /\ pc' = [pc EXCEPT ![p] =
                  IF Extracted[p] = <<>> THEN "commit" ELSE "select"]
      /\ UNCHANGED <<contacts, sources, position, draft, inserted>>
  BY DEF Open, GoTo, committedVars
<1>2. /\ \A q \in Page \ {p} : pc'[q] = pc[q] /\ position'[q] = position[q]
      /\ pc'[p] # "update"
  BY <1>1 DEF RowInv, TypeOK
<1>3. QED
  BY <1>1, <1>2, ReadingKeepsRows DEF UpdateInv

\* So does looking for a contact.
LEMMA SelectKeepsRows ==
  ASSUME RowInv, NEW p \in Page, Select(p)
  PROVE  RowLocks' /\ DraftInv' /\ UpdateInv' /\ OneSourcePerContact'
<1>1. /\ pc[p] = "select"
      /\ UNCHANGED <<contacts, sources, draft, inserted>>
      /\ \/ GoTo(p, "insert") /\ UNCHANGED position
         \/ /\ Seen(p, Current(p)) > 0
            /\ GoTo(p, "update") /\ UNCHANGED position
         \/ Advance(p)
  BY DEF Select, committedVars
<1>2. \A q \in Page \ {p} : pc'[q] = pc[q] /\ position'[q] = position[q]
  BY <1>1 DEF GoTo, Advance, RowInv, TypeOK
<1>3. pc'[p] = "update" => Seen(p, Current(p))' > 0
  <2>1. CASE Advance(p) \/ GoTo(p, "insert")
    <3>1. pc'[p] \in {"select", "commit", "insert"}
      BY <2>1 DEF Advance, GoTo, RowInv, TypeOK
    <3>2. QED
      BY <3>1
  <2>2. CASE Seen(p, Current(p)) > 0 /\ UNCHANGED position
    BY <1>1, <2>2 DEF Seen, Current, Entry
  <2>3. QED
    BY <1>1, <2>1, <2>2
<1>4. QED
  BY <1>1, <1>2, <1>3, ReadingKeepsRows DEF UpdateInv

\* So does writing a row: nobody else has written it, and it is committed
\* exactly if it is updated and not inserted.
LEMMA WriteKeepsRows ==
  ASSUME RowInv, NEW p \in Page, Update(p) \/ Insert(p)
  PROVE  RowLocks' /\ DraftInv' /\ UpdateInv' /\ OneSourcePerContact'
<1> DEFINE c == Current(p)
<1>1. /\ c \in Contact /\ c \in Listed(p)
      /\ Entry(p).confidence \in Nat /\ Entry(p).confidence > 0
  BY EntryType DEF RowInv, Update, Insert
<1>2. /\ pc[p] \in {"update", "insert"} /\ Write(p) /\ Advance(p)
      /\ UNCHANGED <<contacts, sources>>
  BY DEF Update, Insert, committedVars
<1>3. \A q \in Page \ {p} : draft[q][c] = 0
  <2>1. \A q \in Page : ~Waits(p, q)
    BY DEF Update, Insert
  <2>2. \A q \in Page \ {p} : ~(draft[q][c] > 0) /\ draft[q][c] \in Nat
    BY <1>1, <1>2, <2>1 DEF Waits, RowInv, TypeOK
  <2>3. QED
    BY <2>2
<1>4. /\ \A q \in Page \ {p} : draft'[q] = draft[q]
      /\ \A d \in Contact \ {c} : draft'[p][d] = draft[p][d]
      /\ draft'[p][c] > 0
  <2>1. /\ \A q \in Page \ {p} : draft'[q] = draft[q]
        /\ draft'[p] = [draft[p] EXCEPT ![c] = Entry(p).confidence]
    BY <1>2, WriteType DEF RowInv
  <2>2. draft[p] \in [Contact -> Nat]
    BY DEF RowInv, TypeOK
  <2>3. QED
    BY <1>1, <2>1, <2>2
<1>5. \/ inserted' = inserted /\ (contacts[c] > 0 \/ c \in inserted[p])
      \/ /\ contacts[c] = 0
         /\ inserted' = [inserted EXCEPT ![p] = @ \union {c}]
  <2>1. contacts[c] \in Nat /\ draft[p][c] \in Nat
    BY <1>1 DEF RowInv, TypeOK
  <2>2. CASE Update(p)
    <3>1. Seen(p, c) > 0 /\ inserted' = inserted
      BY <2>2 DEF Update, RowInv, UpdateInv
    <3>2. contacts[c] > 0 \/ c \in inserted[p]
      BY <1>1, <2>1, <3>1 DEF Seen, RowInv, DraftInv
    <3>3. QED
      BY <3>1, <3>2
  <2>3. CASE Insert(p)
    BY <2>1, <2>3 DEF Insert, Taken
  <2>4. QED
    BY <2>2, <2>3
<1>6. /\ \A q \in Page \ {p} : /\ pc'[q] = pc[q] /\ position'[q] = position[q]
                               /\ inserted'[q] = inserted[q]
      /\ pc'[p] \in {"select", "commit"}
  BY <1>2, <1>5 DEF Advance, GoTo, RowInv, TypeOK
<1>7. \A d \in Contact \ {c} : d \in inserted'[p] <=> d \in inserted[p]
  BY <1>5 DEF RowInv, TypeOK
<1> HIDE DEF c
<1>8. RowLocks'
  BY <1>1, <1>3, <1>4 DEF RowInv, RowLocks
<1>9. DraftInv'
  <2>1. ASSUME NEW q \in Page, NEW d \in Contact
        PROVE  /\ d \in inserted'[q] =>
                    draft'[q][d] > 0 /\ contacts'[d] = 0 /\ d \in Listed(q)
               /\ draft'[q][d] > 0 /\ d \notin inserted'[q] => contacts'[d] > 0
    <3>1. CASE q # p \/ d # c
      <4>1. draft'[q][d] = draft[q][d] /\ (d \in inserted'[q] <=> d \in inserted[q])
            /\ contacts'[d] = contacts[d]
        BY <1>2, <1>4, <1>6, <1>7, <3>1
      <4>2. QED
        BY <4>1 DEF RowInv, DraftInv
    <3>2. CASE q = p /\ d = c
      BY <1>1, <1>2, <1>4, <1>5, <3>2 DEF RowInv, DraftInv, TypeOK
    <3>3. QED
      BY <3>1, <3>2
  <2>2. QED
    BY <2>1 DEF DraftInv
<1>10. UpdateInv'
  <2>1. ASSUME NEW q \in Page, pc'[q] = "update"
        PROVE  Seen(q, Current(q))' > 0
    <3>1. q # p /\ pc[q] = "update"
      BY <1>6, <2>1
    <3>2. /\ Current(q)' = Current(q) /\ draft'[q] = draft[q]
          /\ contacts' = contacts
      BY <1>2, <1>4, <1>6, <3>1 DEF Current, Entry
    <3>3. QED
      BY <3>1, <3>2 DEF RowInv, UpdateInv, Seen
  <2>2. QED
    BY <2>1 DEF UpdateInv
<1>11. OneSourcePerContact'
  BY <1>2, <1>6, SourcesStay
<1>12. QED
  BY <1>8, <1>9, <1>10, <1>11

\* So does a rollback.
LEMMA UndoneKeepsRows ==
  ASSUME RowInv, NEW p \in Page, Undone(p)
  PROVE  RowLocks' /\ DraftInv' /\ UpdateInv' /\ OneSourcePerContact'
<1>1. /\ pc[p] # "saved" /\ UNCHANGED <<contacts, sources, position>>
      /\ pc'[p] = "lost"
      /\ \A c \in Contact : draft'[p][c] = 0
      /\ inserted'[p] = {}
      /\ \A q \in Page \ {p} : /\ pc'[q] = pc[q] /\ draft'[q] = draft[q]
                               /\ inserted'[q] = inserted[q]
  BY UndoneEffect DEF RowInv, TypeOK, Inside, NoDraft
<1>2. RowLocks' /\ DraftInv'
  BY <1>1 DEF RowInv, RowLocks, DraftInv
<1>3. UpdateInv'
  BY <1>1 DEF RowInv, UpdateInv, Seen, Current, Entry
<1>4. OneSourcePerContact'
  BY <1>1, SourcesStay
<1>5. QED
  BY <1>2, <1>3, <1>4

\* What a commit does to the rows: an inserted contact had no row and no
\* source, and an updated one keeps its source.
LEMMA CommitEffect ==
  ASSUME RowInv, NEW p \in Page, Commit(p)
  PROVE  /\ pc[p] = "commit" /\ pc' = [pc EXCEPT ![p] = "saved"]
         /\ draft' = [draft EXCEPT ![p] = NoDraft]
         /\ inserted' = [inserted EXCEPT ![p] = {}]
         /\ UNCHANGED <<backend, position>>
         /\ \A c \in Contact :
              /\ c \in inserted[p] =>
                   /\ contacts[c] = 0 /\ contacts'[c] > 0
                   /\ sources[c] = {} /\ sources'[c] = {p}
                   /\ c \in Listed(p)
              /\ c \notin inserted[p] =>
                   /\ sources'[c] = sources[c]
                   /\ contacts'[c] > 0 <=> contacts[c] > 0
              /\ contacts'[c] =
                   IF draft[p][c] > 0 THEN draft[p][c] ELSE contacts[c]
              /\ contacts'[c] \in Nat
<1>1. /\ pc[p] = "commit" /\ pc' = [pc EXCEPT ![p] = "saved"]
      /\ draft' = [draft EXCEPT ![p] = NoDraft]
      /\ inserted' = [inserted EXCEPT ![p] = {}]
      /\ UNCHANGED <<backend, position>>
  BY DEF Commit, GoTo
<1>2. ASSUME NEW c \in Contact
      PROVE  /\ contacts'[c] =
                  IF draft[p][c] > 0 THEN draft[p][c] ELSE contacts[c]
             /\ sources'[c] = sources[c] \union
                                (IF c \in inserted[p] THEN {p} ELSE {})
             /\ draft[p][c] \in Nat /\ contacts[c] \in Nat
  BY DEF Commit, RowInv, TypeOK
<1>3. ASSUME NEW c \in Contact, c \in inserted[p]
      PROVE  /\ contacts[c] = 0 /\ contacts'[c] > 0
             /\ sources[c] = {} /\ sources'[c] = {p}
             /\ c \in Listed(p)
  <2>1. draft[p][c] > 0 /\ contacts[c] = 0 /\ c \in Listed(p)
    BY <1>3 DEF RowInv, DraftInv
  <2>2. sources[c] = {}
    BY <2>1 DEF RowInv, OneSourcePerContact
  <2>3. QED
    BY <1>2, <1>3, <2>1, <2>2
<1>4. ASSUME NEW c \in Contact, c \notin inserted[p]
      PROVE  /\ sources'[c] = sources[c]
             /\ contacts'[c] > 0 <=> contacts[c] > 0
  <2>1. draft[p][c] > 0 => contacts[c] > 0
    BY <1>4 DEF RowInv, DraftInv
  <2>2. QED
    BY <1>2, <1>4, <2>1
<1>5. \A c \in Contact : contacts'[c] \in Nat
  BY <1>2
<1>6. QED
  BY <1>1, <1>2, <1>3, <1>4, <1>5

\* So does a commit.
LEMMA CommitKeepsRows ==
  ASSUME RowInv, NEW p \in Page, Commit(p)
  PROVE  RowLocks' /\ DraftInv' /\ UpdateInv' /\ OneSourcePerContact'
<1>1. /\ pc'[p] = "saved" /\ \A c \in Contact : draft'[p][c] = 0
      /\ inserted'[p] = {}
      /\ \A q \in Page \ {p} : /\ pc'[q] = pc[q] /\ draft'[q] = draft[q]
                               /\ inserted'[q] = inserted[q]
                               /\ position'[q] = position[q]
  BY CommitEffect DEF RowInv, TypeOK, NoDraft
<1>2. \A c \in Contact : contacts[c] > 0 => contacts'[c] > 0
  BY CommitEffect DEF RowInv, TypeOK
<1>3. RowLocks'
  BY <1>1 DEF RowInv, RowLocks
<1>4. DraftInv'
  <2>1. ASSUME NEW q \in Page, NEW c \in Contact, c \in inserted'[q]
        PROVE  draft'[q][c] > 0 /\ contacts'[c] = 0 /\ c \in Listed(q)
    <3>1. /\ q # p /\ draft'[q][c] = draft[q][c] /\ c \in inserted[q]
      BY <1>1, <2>1
    <3>2. /\ draft[q][c] > 0 /\ contacts[c] = 0 /\ c \in Listed(q)
      BY <3>1 DEF RowInv, DraftInv
    <3>3. ~(draft[p][c] > 0)
      BY <3>1, <3>2 DEF RowInv, RowLocks
    <3>4. contacts'[c] = 0
      BY <3>2, <3>3, CommitEffect
    <3>5. QED
      BY <3>1, <3>2, <3>4
  <2>2. ASSUME NEW q \in Page, NEW c \in Contact,
               draft'[q][c] > 0, c \notin inserted'[q]
        PROVE  contacts'[c] > 0
    <3>1. /\ q # p /\ draft[q][c] > 0 /\ c \notin inserted[q]
      BY <1>1, <2>2
    <3>2. QED
      BY <1>2, <3>1 DEF RowInv, DraftInv
  <2>3. QED
    BY <2>1, <2>2 DEF DraftInv
<1>5. UpdateInv'
  <2>1. ASSUME NEW q \in Page, pc'[q] = "update"
        PROVE  Seen(q, Current(q))' > 0
    <3>1. q # p /\ pc[q] = "update"
      BY <1>1, <2>1
    <3>2. /\ Current(q)' = Current(q) /\ draft'[q] = draft[q]
      BY <1>1, <3>1 DEF Current, Entry
    <3>3. Current(q) \in Contact /\ Seen(q, Current(q)) > 0
      BY <3>1, EntryType DEF RowInv, UpdateInv
    <3>4. QED
      BY <1>2, <3>2, <3>3 DEF Seen
  <2>2. QED
    BY <2>1 DEF UpdateInv
<1>6. OneSourcePerContact'
  <2>1. ASSUME NEW c \in Contact
        PROVE  /\ contacts'[c] > 0 => \E q \in Page : sources'[c] = {q}
               /\ contacts'[c] = 0 => sources'[c] = {}
               /\ \A q \in sources'[c] : pc'[q] = "saved" /\ c \in Listed(q)
    <3>1. CASE c \in inserted[p]
      BY <1>1, <3>1, CommitEffect
    <3>2. CASE c \notin inserted[p]
      <4>1. /\ sources'[c] = sources[c]
            /\ contacts'[c] > 0 <=> contacts[c] > 0
            /\ contacts'[c] \in Nat /\ contacts[c] \in Nat
        BY <3>2, CommitEffect DEF RowInv, TypeOK
      <4>2. \A q \in sources[c] : pc'[q] = "saved"
        BY CommitEffect DEF RowInv, OneSourcePerContact, TypeOK
      <4>3. /\ contacts[c] > 0 => \E q \in Page : sources[c] = {q}
            /\ contacts[c] = 0 => sources[c] = {}
            /\ \A q \in sources[c] : c \in Listed(q)
        BY DEF RowInv, OneSourcePerContact
      <4>4. QED
        BY <4>1, <4>2, <4>3
    <3>3. QED
      BY <3>1, <3>2
  <2>2. QED
    BY <2>1 DEF OneSourcePerContact
<1>7. QED
  BY <1>3, <1>4, <1>5, <1>6

\* RowInv is inductive.
LEMMA RowInvInit == Init => RowInv
<1> SUFFICES ASSUME Init PROVE RowInv
  OBVIOUS
<1>1. TypeOK /\ PositionInv
  BY TypeInit
<1>2. RowLocks /\ DraftInv /\ UpdateInv /\ OneSourcePerContact
  BY DEF Init, RowLocks, DraftInv, UpdateInv, OneSourcePerContact, NoDraft
<1>3. QED
  BY <1>1, <1>2 DEF RowInv

\* Every step keeps RowInv.
LEMMA RowInvStep == RowInv /\ [Next]_vars => RowInv'
<1> SUFFICES ASSUME RowInv, [Next]_vars PROVE RowInv'
  OBVIOUS
<1>1. TypeOK' /\ PositionInv'
  BY TypeStep DEF RowInv
<1>2. CASE UNCHANGED vars
  BY <1>1, <1>2 DEF vars, committedVars, RowInv, RowLocks, DraftInv, UpdateInv,
       OneSourcePerContact, Seen, Current, Entry
<1>3. ASSUME NEW p \in Page, PageStep(p)
      PROVE  RowLocks' /\ DraftInv' /\ UpdateInv' /\ OneSourcePerContact'
  BY <1>3, OpenKeepsRows, SelectKeepsRows, WriteKeepsRows, UndoneKeepsRows,
     CommitKeepsRows DEF PageStep, Undone
<1>4. QED
  BY <1>1, <1>2, <1>3 DEF Next, RowInv

\* So it holds in every reachable state.
LEMMA RowInvAlways == Spec => []RowInv
<1> QED
  BY RowInvInit, RowInvStep, PTL DEF Spec

\* However the transactions of the pages that found a contact interleave, on
\* either database: a stored contact has exactly one source, a stored page
\* that lists it.
THEOREM OneSourcePerContactAlways == Spec => []OneSourcePerContact
<1>1. RowInv => OneSourcePerContact
  BY DEF RowInv
<1>2. QED
  BY <1>1, RowInvAlways, PTL

-----------------------------------------------------------------------------
(***************************************************************************)
(* The job's counters.                                                     *)
(***************************************************************************)

\* Every step keeps FoundMatchesSources: the contacts that a commit adds to
\* the counters are those that get their first source in it.
LEMMA FoundMatchesSourcesStep ==
  RowInv /\ FoundMatchesSources /\ [Next]_vars => FoundMatchesSources'
<1> SUFFICES ASSUME RowInv, FoundMatchesSources, [Next]_vars
             PROVE  FoundMatchesSources'
  OBVIOUS
<1>1. ASSUME NEW p \in Page, Commit(p) PROVE FoundMatchesSources'
  <2> DEFINE Sourced == {c \in Contact : sources[c] # {}}
  <2>1. inserted[p] \subseteq Contact /\ Sourced \cap inserted[p] = {}
    BY <1>1, CommitEffect DEF RowInv, TypeOK
  <2>2. Sourced' = Sourced \union inserted[p]
    BY <1>1, <2>1, CommitEffect
  <2>3. IsFiniteSet(Sourced) /\ IsFiniteSet(inserted[p])
    BY <2>1, StoreAssumption, FS_Subset
  <2>4. found' = found + Cardinality(inserted[p])
    BY <1>1 DEF Commit, Gained
  <2>5. found = Cardinality(Sourced)
    BY DEF FoundMatchesSources
  <2> HIDE DEF Sourced
  <2>6. Cardinality(Sourced \union inserted[p])
          = Cardinality(Sourced) + Cardinality(inserted[p])
    <3>1. Cardinality(Sourced \union inserted[p])
            = Cardinality(Sourced) + Cardinality(inserted[p])
                - Cardinality(Sourced \cap inserted[p])
      BY <2>3, FS_Union
    <3>2. Cardinality(Sourced \cap inserted[p]) = 0
      BY <2>1, FS_EmptySet
    <3>3. Cardinality(Sourced) \in Nat /\ Cardinality(inserted[p]) \in Nat
      BY <2>3, FS_CardinalityType
    <3>4. QED
      BY <3>1, <3>2, <3>3
  <2>7. found' = Cardinality(Sourced')
    BY <2>2, <2>4, <2>5, <2>6
  <2>8. QED
    BY <2>7 DEF FoundMatchesSources, Sourced
<1>2. CASE UNCHANGED <<sources, found>>
  BY <1>2 DEF FoundMatchesSources
<1>3. ASSUME NEW p \in Page, PageStep(p), ~Commit(p)
      PROVE  UNCHANGED <<sources, found>>
  BY <1>3 DEF PageStep, Open, LockTimeout, Select, Update, Insert,
       InsertRefused, Deadlocked, Fails, committedVars
<1>4. QED
  BY <1>1, <1>2, <1>3 DEF Next, vars, committedVars

\* The counters of the job are the number of contacts with a source: pages
\* that race for a contact count it once, and no contact goes uncounted.
THEOREM FoundMatchesSourcesAlways == Spec => []FoundMatchesSources
<1>1. ASSUME Init PROVE FoundMatchesSources
  <2>1. {c \in Contact : sources[c] # {}} = {} /\ found = 0
    BY <1>1 DEF Init
  <2>2. QED
    BY <2>1, FS_EmptySet DEF FoundMatchesSources
<1>2. Init => FoundMatchesSources
  BY <1>1
<1>3. QED
  BY <1>2, RowInvAlways, FoundMatchesSourcesStep, PTL DEF Spec

-----------------------------------------------------------------------------
(***************************************************************************)
(* What a stored page can rely on.                                         *)
(***************************************************************************)

\* On SQLite one transaction is open at a time.
OneWriter ==
  backend = "sqlite" =>
    \A p, q \in Page : pc[p] \in Inside /\ pc[q] \in Inside => p = q

\* On SQLite no draft is worse than the committed row.
DraftFloor ==
  backend = "sqlite" =>
    \A p \in Page, c \in Contact : draft[p][c] > 0 => draft[p][c] >= contacts[c]

\* On SQLite an update raises the confidence; an insert follows no write of
\* the same row.
WriteInv ==
  \A p \in Page :
    /\ pc[p] = "update" /\ backend = "sqlite" =>
         Entry(p).confidence > Seen(p, Current(p))
    /\ pc[p] = "insert" => draft[p][Current(p)] = 0

\* What n stored for the element i of p's list has to be.
Suffices(p, i, n) ==
  /\ n > 0
  /\ backend = "sqlite" => n >= Extracted[p][i].confidence

\* A transaction sees enough of every contact that it has been through.
CoverInv ==
  \A p \in Page : pc[p] \in Inside =>
    \A i \in 1 .. Len(Extracted[p]) :
      i < position[p] => Suffices(p, i, Seen(p, Extracted[p][i].contact))

\* The inductive invariant behind StoredPageCovered.
PageInv ==
  RowInv /\ OneWriter /\ DraftFloor /\ WriteInv /\ CoverInv
    /\ StoredPageCovered

\* A step of p changes no other transaction, and nothing that is committed
\* unless it is p's commit.
LEMMA Frame ==
  ASSUME RowInv, NEW p \in Page, PageStep(p)
  PROVE  /\ backend' = backend
         /\ \A q \in Page \ {p} :
              /\ pc'[q] = pc[q] /\ position'[q] = position[q]
              /\ draft'[q] = draft[q]
         /\ Commit(p) \/ UNCHANGED contacts
<1>1. CASE Open(p) \/ Select(p)
  BY <1>1 DEF Open, Select, GoTo, Advance, committedVars, RowInv, TypeOK
<1>2. CASE Update(p) \/ Insert(p)
  <2>1. \A q \in Page \ {p} : draft'[q] = draft[q]
    BY <1>2, WriteType DEF Update, Insert, RowInv
  <2>2. QED
    BY <1>2, <2>1 DEF Update, Insert, GoTo, Advance, committedVars, RowInv,
         TypeOK
<1>3. CASE Undone(p)
  BY <1>3, UndoneEffect DEF RowInv, TypeOK
<1>4. CASE Commit(p)
  BY <1>4, CommitEffect DEF RowInv, TypeOK
<1>5. QED
  BY <1>1, <1>2, <1>3, <1>4 DEF PageStep, Undone

\* What the others see stays: a row that is there does not go, and on SQLite
\* nothing changes while they are inside.
LEMMA OthersSee ==
  ASSUME PageInv, NEW p \in Page, PageStep(p), NEW q \in Page \ {p},
         NEW c \in Contact
  PROVE  /\ Seen(q, c) > 0 => Seen(q, c)' > 0
         /\ backend = "sqlite" /\ pc[q] \in Inside => Seen(q, c)' = Seen(q, c)
<1>1. draft'[q] = draft[q] /\ backend' = backend
  BY Frame DEF PageInv
<1>2. CASE UNCHANGED contacts
  BY <1>1, <1>2 DEF Seen
<1>3. CASE Commit(p)
  <2>1. contacts[c] > 0 => contacts'[c] > 0
    BY <1>3, CommitEffect DEF PageInv, RowInv, TypeOK
  <2>2. backend = "sqlite" => pc[q] \notin Inside
    BY <1>3 DEF Commit, PageInv, OneWriter, Inside
  <2>3. QED
    BY <1>1, <2>1, <2>2 DEF Seen
<1>4. QED
  BY <1>2, <1>3, Frame DEF PageInv

\* The parts of PageInv that speak of one transaction each, for p itself and
\* for the stored pages.
PartOf(p) ==
  /\ pc[p] = "update" /\ backend = "sqlite" =>
       Entry(p).confidence > Seen(p, Current(p))
  /\ pc[p] = "insert" => draft[p][Current(p)] = 0
  /\ pc[p] \in Inside =>
       \A i \in 1 .. Len(Extracted[p]) :
         i < position[p] => Suffices(p, i, Seen(p, Extracted[p][i].contact))

\* Steps of p keep the parts of the others.
LEMMA OthersKeepParts ==
  ASSUME PageInv, NEW p \in Page, PageStep(p), NEW q \in Page \ {p}
  PROVE  PartOf(q)'
<1>1. /\ pc'[q] = pc[q] /\ position'[q] = position[q] /\ draft'[q] = draft[q]
      /\ backend' = backend /\ Entry(q)' = Entry(q)
      /\ Current(q)' = Current(q)
  BY Frame DEF PageInv, Entry, Current
<1>2. pc'[q] = "update" /\ backend' = "sqlite" =>
        Entry(q)'.confidence > Seen(q, Current(q))'
  <2>1. ASSUME pc[q] = "update", backend = "sqlite"
        PROVE  Seen(q, Current(q))' = Seen(q, Current(q))
    <3>1. Current(q) \in Contact /\ pc[q] \in Inside
      BY <2>1, EntryType DEF PageInv, RowInv, Inside
    <3>2. Seen(q, Current(q)') = Seen(q, Current(q))
      BY <1>1
    <3>3. QED
      BY <1>1, <2>1, <3>1, OthersSee DEF Seen
  <2>2. QED
    BY <1>1, <2>1 DEF PageInv, WriteInv
<1>3. pc'[q] = "insert" => draft'[q][Current(q)'] = 0
  BY <1>1 DEF PageInv, WriteInv
<1>4. ASSUME pc'[q] \in Inside, NEW i \in 1 .. Len(Extracted[q]),
             i < position'[q]
      PROVE  Suffices(q, i, Seen(q, Extracted[q][i].contact))'
  <2>1. Extracted[q][i].contact \in Contact
    BY ListedType
  <2>2. Suffices(q, i, Seen(q, Extracted[q][i].contact))
    BY <1>1, <1>4 DEF PageInv, CoverInv
  <2>3. QED
    BY <1>1, <1>4, <2>1, <2>2, OthersSee DEF Suffices
<1>5. QED
  BY <1>2, <1>3, <1>4 DEF PartOf

\* Steps of p keep its own part.
LEMMA OwnPart ==
  ASSUME PageInv, NEW p \in Page, PageStep(p)
  PROVE  PartOf(p)'
<1> USE DEF PageInv
<1>1. CASE Open(p)
  <2>1. pc'[p] \in {"select", "commit"} /\ position'[p] = 1
    BY <1>1 DEF Open, GoTo, RowInv, TypeOK, PositionInv
  <2>2. QED
    BY <2>1 DEF PartOf
<1>2. CASE Undone(p) \/ Commit(p)
  <2>1. pc'[p] \in {"lost", "saved"}
    BY <1>2, UndoneEffect, CommitEffect DEF RowInv, TypeOK
  <2>2. QED
    BY <2>1 DEF PartOf, Inside
<1>3. CASE Select(p)
  <2>1. /\ pc[p] = "select" /\ UNCHANGED <<backend, contacts, draft>>
        /\ \/ /\ Seen(p, Current(p)) = 0
              /\ GoTo(p, "insert") /\ UNCHANGED position
           \/ /\ Entry(p).confidence > Seen(p, Current(p))
              /\ GoTo(p, "update") /\ UNCHANGED position
           \/ /\ Seen(p, Current(p)) > 0
              /\ ~(Entry(p).confidence > Seen(p, Current(p)))
              /\ Advance(p)
    BY <1>3 DEF Select, committedVars, Outranks
  <2>2. /\ Current(p) \in Contact /\ position[p] \in 1 .. Len(Extracted[p])
        /\ Entry(p).confidence \in Nat /\ draft[p][Current(p)] \in Nat
        /\ contacts[Current(p)] \in Nat
    <3>1. /\ Current(p) \in Contact /\ position[p] \in 1 .. Len(Extracted[p])
          /\ Entry(p).confidence \in Nat
      BY <2>1, EntryType DEF RowInv
    <3>2. QED
      BY <3>1 DEF RowInv, TypeOK
  <2>3. /\ \A c : Seen(p, c)' = Seen(p, c)
        /\ \A i, n : Suffices(p, i, n)' = Suffices(p, i, n)
    BY <2>1 DEF Seen, Suffices
  <2>4. \A i \in 1 .. Len(Extracted[p]) :
          i < position[p] => Suffices(p, i, Seen(p, Extracted[p][i].contact))
    BY <2>1 DEF CoverInv, Inside
  <2>5. CASE GoTo(p, "insert") /\ UNCHANGED position
             /\ Seen(p, Current(p)) = 0
    <3>1. pc'[p] = "insert" /\ Current(p)' = Current(p)
      BY <2>5 DEF GoTo, RowInv, TypeOK, Current, Entry
    <3>2. draft'[p][Current(p)'] = 0
      BY <2>1, <2>2, <2>5, <3>1 DEF Seen
    <3>3. QED
      BY <2>3, <2>4, <2>5, <3>1, <3>2 DEF PartOf
  <2>6. CASE GoTo(p, "update") /\ UNCHANGED position
             /\ Entry(p).confidence > Seen(p, Current(p))
    <3>1. pc'[p] = "update" /\ Current(p)' = Current(p)
          /\ Entry(p)' = Entry(p)
      BY <2>6 DEF GoTo, RowInv, TypeOK, Current, Entry
    <3>2. Seen(p, Current(p))' = Seen(p, Current(p))
      BY <2>1, <3>1 DEF Seen
    <3>3. QED
      BY <2>3, <2>4, <2>6, <3>1, <3>2 DEF PartOf
  <2>7. CASE /\ Seen(p, Current(p)) > 0
             /\ ~(Entry(p).confidence > Seen(p, Current(p)))
             /\ Advance(p)
    <3>1. pc'[p] \in {"select", "commit"} /\ position'[p] = position[p] + 1
      BY <2>1, <2>7, AdvanceType DEF Advance, RowInv, TypeOK
    <3>2. Suffices(p, position[p], Seen(p, Current(p)))
      BY <2>2, <2>7 DEF Suffices, Entry, Seen
    <3>3. \A i \in 1 .. Len(Extracted[p]) :
            i < position'[p] => Suffices(p, i, Seen(p, Extracted[p][i].contact))
      BY <2>2, <2>4, <3>1, <3>2 DEF Current, Entry
    <3>4. QED
      BY <2>3, <3>1, <3>3 DEF PartOf
  <2>8. QED
    BY <2>1, <2>5, <2>6, <2>7
<1>4. CASE Update(p) \/ Insert(p)
  <2>1. /\ pc[p] \in {"update", "insert"} /\ Write(p) /\ Advance(p)
        /\ UNCHANGED <<backend, contacts>>
    BY <1>4 DEF Update, Insert, committedVars
  <2>2. PICK c \in Contact, n \in Nat :
          /\ c = Current(p) /\ n = Entry(p).confidence /\ n > 0
          /\ position[p] \in 1 .. Len(Extracted[p])
    BY <2>1, EntryType DEF RowInv
  <2>3. pc'[p] \in {"select", "commit"} /\ position'[p] = position[p] + 1
    BY <2>1, AdvanceType DEF Advance, RowInv, TypeOK
  <2>4. /\ Seen(p, c)' = n
        /\ \A d \in Contact \ {c} : Seen(p, d)' = Seen(p, d)
    <3>1. draft'[p] = [draft[p] EXCEPT ![c] = n]
      BY <2>1, <2>2, WriteType DEF RowInv
    <3>2. draft[p] \in [Contact -> Nat]
      BY DEF RowInv, TypeOK
    <3>3. draft'[p][c] = n /\ \A d \in Contact \ {c} : draft'[p][d] = draft[p][d]
      BY <2>2, <3>1, <3>2
    <3>4. /\ (IF draft'[p][c] > 0 THEN draft'[p][c] ELSE contacts'[c]) = n
      BY <2>2, <3>3
    <3>5. QED
      BY <2>1, <3>3, <3>4 DEF Seen
  <2>5. /\ Seen(p, c) \in Nat
        /\ backend = "sqlite" => n > Seen(p, c)
    <3>1. /\ contacts[c] \in Nat /\ draft[p][c] \in Nat
      BY <2>2 DEF RowInv, TypeOK
    <3>2. CASE Update(p)
      BY <2>2, <3>1, <3>2 DEF Update, WriteInv, Seen
    <3>3. CASE Insert(p)
      <4>1. draft[p][c] = 0 /\ contacts[c] = 0
        BY <2>2, <3>1, <3>3 DEF Insert, Taken, WriteInv
      <4>2. QED
        BY <2>2, <4>1 DEF Seen
    <3>4. QED
      BY <1>4, <3>2, <3>3
  <2>6. ASSUME NEW i \in 1 .. Len(Extracted[p]), i < position'[p]
        PROVE  Suffices(p, i, Seen(p, Extracted[p][i].contact))'
    <3>1. Extracted[p][i].contact \in Contact
          /\ Extracted[p][i].confidence \in Nat
      BY ListedType
    <3>2. i < position[p] =>
            Suffices(p, i, Seen(p, Extracted[p][i].contact))
      BY <2>1 DEF CoverInv, Inside
    <3>3. CASE i = position[p]
      <4>1. Extracted[p][i].contact = c /\ Extracted[p][i].confidence = n
        BY <2>2, <3>3 DEF Current, Entry
      <4>2. QED
        BY <2>1, <2>2, <2>4, <4>1 DEF Suffices
    <3>4. CASE i < position[p] /\ Extracted[p][i].contact = c
      <4>1. backend = "sqlite" => Seen(p, c) >= Extracted[p][i].confidence
        BY <3>2, <3>4 DEF Suffices
      <4>2. Seen(p, Extracted[p][i].contact)' = n
        BY <2>4, <3>4
      <4>3. backend = "sqlite" => n >= Extracted[p][i].confidence
        BY <2>2, <2>5, <3>1, <4>1
      <4>4. QED
        BY <2>1, <2>2, <4>2, <4>3 DEF Suffices
    <3>5. CASE i < position[p] /\ Extracted[p][i].contact # c
      <4>1. Seen(p, Extracted[p][i].contact)' = Seen(p, Extracted[p][i].contact)
        BY <2>4, <3>1, <3>5
      <4>2. QED
        BY <2>1, <3>2, <3>5, <4>1 DEF Suffices
    <3>6. QED
      BY <2>2, <2>3, <2>6, <3>3, <3>4, <3>5
  <2>7. QED
    BY <2>3, <2>6 DEF PartOf
<1>5. QED
  BY <1>1, <1>2, <1>3, <1>4 DEF PageStep, Undone

\* On SQLite a transaction opens only when no other is open.
LEMMA OneWriterKept ==
  ASSUME PageInv, NEW p \in Page, PageStep(p)
  PROVE  OneWriter'
<1>1. CASE Open(p)
  <2>1. backend = "sqlite" => \A q \in Page \ {p} : pc[q] \notin Inside
    BY <1>1 DEF Open, Locked
  <2>2. QED
    BY <2>1, Frame DEF PageInv, OneWriter
<1>2. CASE ~Open(p)
  <2>1. pc'[p] \in Inside => pc[p] \in Inside
    <3>1. CASE Undone(p) \/ Commit(p)
      BY <3>1, UndoneEffect, CommitEffect
         DEF PageInv, RowInv, TypeOK, Inside
    <3>2. CASE Select(p) \/ Update(p) \/ Insert(p)
      BY <3>2 DEF Select, Update, Insert, Inside
    <3>3. QED
      BY <1>2, <3>1, <3>2 DEF PageStep, Undone
  <2>2. QED
    BY <2>1, Frame DEF PageInv, OneWriter
<1>3. QED
  BY <1>1, <1>2

\* On SQLite the only transaction inside writes nothing worse than the row.
LEMMA DraftFloorKept ==
  ASSUME PageInv, NEW p \in Page, PageStep(p)
  PROVE  DraftFloor'
<1> SUFFICES ASSUME backend' = "sqlite", NEW q \in Page, NEW c \in Contact,
                    draft'[q][c] > 0
             PROVE  draft'[q][c] >= contacts'[c]
  BY DEF DraftFloor
<1>1. backend = "sqlite"
  BY Frame DEF PageInv
<1>2. /\ draft[p][c] \in Nat /\ draft[q][c] \in Nat /\ contacts[c] \in Nat
  BY DEF PageInv, RowInv, TypeOK
<1>3. CASE Commit(p)
  <2>1. pc[p] \in Inside /\ \A d \in Contact : draft'[p][d] = 0
    BY <1>3, CommitEffect DEF Inside, PageInv, RowInv, TypeOK, NoDraft
  <2>2. q # p /\ draft'[q] = draft[q]
    BY <2>1, Frame DEF PageInv
  <2>3. pc[q] \notin Inside
    BY <1>1, <2>1, <2>2 DEF PageInv, OneWriter
  <2>4. draft[q][c] = 0
    BY <2>3, NoDraftOutside DEF PageInv, RowInv
  <2>5. QED
    BY <2>2, <2>4
<1>4. CASE ~Commit(p) /\ q # p
  BY <1>1, <1>4, Frame DEF PageInv, DraftFloor
<1>5. CASE q = p /\ (Open(p) \/ Select(p) \/ Undone(p))
  <2>1. draft'[p] \in {draft[p], NoDraft} /\ contacts' = contacts
    <3>1. CASE Open(p) \/ Select(p)
      BY <3>1 DEF Open, Select, committedVars
    <3>2. CASE Undone(p)
      BY <3>2, UndoneEffect DEF PageInv, RowInv, TypeOK
    <3>3. QED
      BY <1>5, <3>1, <3>2
  <2>2. QED
    BY <1>1, <1>5, <2>1 DEF PageInv, DraftFloor, NoDraft
<1>6. CASE q = p /\ (Update(p) \/ Insert(p))
  <2>1. /\ pc[p] \in {"update", "insert"} /\ Write(p) /\ contacts' = contacts
    BY <1>6 DEF Update, Insert, committedVars
  <2>2. PICK d \in Contact, n \in Nat :
          d = Current(p) /\ n = Entry(p).confidence
    BY <2>1, EntryType DEF PageInv, RowInv
  <2>3. draft'[p] = [draft[p] EXCEPT ![d] = n]
    BY <2>1, <2>2, WriteType DEF PageInv, RowInv
  <2>4. draft[p] \in [Contact -> Nat]
    BY DEF PageInv, RowInv, TypeOK
  <2>5. CASE c # d
    <3>1. draft'[q][c] = draft[q][c]
      BY <1>6, <2>3, <2>4, <2>5
    <3>2. QED
      BY <1>1, <2>1, <3>1 DEF PageInv, DraftFloor
  <2>6. CASE c = d /\ Update(p)
    <3>1. n > Seen(p, c)
      BY <1>1, <2>2, <2>6 DEF Update, PageInv, WriteInv
    <3>2. Seen(p, c) >= contacts[c]
      BY <1>1, <1>2 DEF Seen, PageInv, DraftFloor
    <3>3. draft'[q][c] = n /\ Seen(p, c) \in Nat
      BY <1>2, <1>6, <2>3, <2>4, <2>6 DEF Seen
    <3>4. QED
      BY <1>2, <2>1, <3>1, <3>2, <3>3
  <2>7. CASE c = d /\ Insert(p)
    <3>1. contacts[c] = 0
      BY <1>2, <2>2, <2>7 DEF Insert, Taken
    <3>2. draft'[q][c] = n
      BY <1>6, <2>3, <2>4, <2>7
    <3>3. QED
      BY <2>1, <3>1, <3>2
  <2>8. QED
    BY <1>6, <2>5, <2>6, <2>7
<1>7. QED
  BY <1>3, <1>4, <1>5, <1>6 DEF PageStep, Undone

\* A commit leaves its page covered, and takes nothing from the pages stored
\* before.
LEMMA StoredPageCoveredKept ==
  ASSUME PageInv, NEW p \in Page, PageStep(p)
  PROVE  StoredPageCovered'
<1> SUFFICES ASSUME NEW q \in Page, pc'[q] = "saved",
                    NEW i \in 1 .. Len(Extracted[q])
             PROVE  Suffices(q, i, contacts[Extracted[q][i].contact])'
  BY ListedType DEF StoredPageCovered, Suffices
<1>1. PICK c \in Contact :
        c = Extracted[q][i].contact /\ Extracted[q][i].confidence \in Nat
  BY ListedType
<1>2. /\ contacts[c] \in Nat /\ contacts'[c] \in Nat /\ draft[p][c] \in Nat
  BY TypeStep DEF PageInv, RowInv, TypeOK, Next
<1>3. backend' = backend
  BY Frame DEF PageInv
<1>4. ASSUME pc[q] = "saved"
      PROVE  Suffices(q, i, contacts[c])
  BY <1>1, <1>4, ListedType DEF PageInv, StoredPageCovered, Suffices
<1>5. CASE ~Commit(p)
  <2>1. contacts' = contacts
    BY <1>5, Frame DEF PageInv
  <2>2. pc[q] = "saved"
    <3>1. CASE q # p
      BY <3>1, Frame DEF PageInv
    <3>2. CASE q = p /\ Undone(p)
      BY <3>2, UndoneEffect DEF PageInv, RowInv, TypeOK
    <3>3. CASE q = p /\ ~Undone(p)
      BY <1>5, <3>3 DEF PageStep, Undone, Open, Select, Update, Insert, GoTo,
           Advance, PageInv, RowInv, TypeOK
    <3>4. QED
      BY <3>1, <3>2, <3>3
  <2>3. QED
    BY <1>1, <1>3, <1>4, <2>1, <2>2 DEF Suffices
<1>6. CASE Commit(p) /\ q = p
  <2>1. /\ pc[p] = "commit" /\ i < position[p]
    BY <1>6, ListedType DEF Commit, PageInv, RowInv, PositionInv
  <2>2. Suffices(p, i, Seen(p, c))
    BY <1>1, <1>6, <2>1 DEF PageInv, CoverInv, Inside
  <2>3. contacts'[c] = Seen(p, c)
    BY <1>6, CommitEffect DEF PageInv, Seen
  <2>4. QED
    BY <1>1, <1>3, <1>6, <2>2, <2>3 DEF Suffices
<1>7. CASE Commit(p) /\ q # p
  <2>1. pc[q] = "saved"
    BY <1>7, Frame DEF PageInv
  <2>2. /\ contacts[c] > 0 => contacts'[c] > 0
        /\ contacts'[c] = IF draft[p][c] > 0 THEN draft[p][c] ELSE contacts[c]
    BY <1>2, <1>7, CommitEffect DEF PageInv
  <2>3. backend = "sqlite" => contacts'[c] >= contacts[c]
    BY <1>2, <2>2 DEF PageInv, DraftFloor
  <2>4. /\ contacts[c] > 0
        /\ backend = "sqlite" => contacts[c] >= Extracted[q][i].confidence
    BY <1>4, <2>1 DEF Suffices
  <2>5. /\ contacts'[c] > 0
        /\ backend = "sqlite" => contacts'[c] >= Extracted[q][i].confidence
    BY <1>1, <1>2, <2>2, <2>3, <2>4
  <2>6. QED
    BY <1>1, <1>3, <2>5 DEF Suffices
<1>8. QED
  BY <1>5, <1>6, <1>7

\* PageInv is inductive.
LEMMA PageInvInit == Init => PageInv
<1> SUFFICES ASSUME Init PROVE PageInv
  OBVIOUS
<1>1. RowInv
  BY RowInvInit
<1>2. /\ \A p \in Page : pc[p] = "idle" /\ draft[p] = NoDraft
      /\ \A c \in Contact : NoDraft[c] = 0
  BY DEF Init, NoDraft
<1>3. QED
  BY <1>1, <1>2 DEF PageInv, OneWriter, DraftFloor, WriteInv, CoverInv,
       StoredPageCovered, Inside

\* Every step keeps PageInv.
LEMMA PageInvStep == PageInv /\ [Next]_vars => PageInv'
<1> SUFFICES ASSUME PageInv, [Next]_vars PROVE PageInv'
  OBVIOUS
<1>1. RowInv'
  BY RowInvStep DEF PageInv
<1>2. ASSUME NEW p \in Page, PageStep(p)
      PROVE  PageInv'
  <2>1. \A q \in Page : PartOf(q)'
    BY <1>2, OwnPart, OthersKeepParts
  <2>2. WriteInv' /\ CoverInv'
    BY <2>1 DEF PartOf, WriteInv, CoverInv
  <2>3. QED
    BY <1>1, <1>2, <2>2, OneWriterKept, DraftFloorKept, StoredPageCoveredKept
       DEF PageInv
<1>3. CASE UNCHANGED vars
  <2>1. OneWriter' /\ DraftFloor' /\ StoredPageCovered'
    BY <1>3 DEF vars, committedVars, PageInv, OneWriter, DraftFloor,
         StoredPageCovered
  <2>2. WriteInv'
    BY <1>3 DEF vars, committedVars, PageInv, WriteInv, Seen, Current, Entry
  <2>3. CoverInv'
    BY <1>3 DEF vars, committedVars, PageInv, CoverInv, Suffices, Seen
  <2>4. QED
    BY <1>1, <2>1, <2>2, <2>3 DEF PageInv
<1>4. QED
  BY <1>2, <1>3 DEF Next

\* Every contact of a stored page is stored, on either database, and on SQLite
\* it never falls below the confidence that any stored page gave it: the
\* SELECT and the UPDATE of a transaction are not atomic, but there the write
\* lock makes them so.
THEOREM StoredPageCoveredAlways == Spec => []StoredPageCovered
<1>1. PageInv => StoredPageCovered
  BY DEF PageInv
<1>2. QED
  BY <1>1, PageInvInit, PageInvStep, PTL DEF Spec
=============================================================================
