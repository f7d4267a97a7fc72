------------------------- MODULE SitemapWalkProofs -------------------------
(***************************************************************************)
(* Proofs about SitemapWalk, for every site, every list of roots and every *)
(* limit of pages and levels.                                              *)
(***************************************************************************)
EXTENDS SitemapWalk, SequenceTheorems, Recursion

-----------------------------------------------------------------------------
(***************************************************************************)
(* The two loops over what a sitemap lists, one turn after the other.      *)
(***************************************************************************)

\* One turn of the loop over pages.
AddPage(found, p) ==
  IF Full(found) \/ ~InScope(p) \/ p \in Range(found) THEN found
                                                      ELSE Append(found, p)

\* The list before the first turn, after each turn, and at the end.
IsPagesRun(run, list, pages) ==
  /\ run[0] = list
  /\ \A k \in 1 .. Len(pages) : run[k] = AddPage(run[k - 1], pages[k])
  /\ run[Len(pages)] = AddPages(list, pages)

\* AddPages is a run of that loop.
LEMMA AddPagesRun ==
  ASSUME NEW list \in Seq(Page), NEW pages \in Seq(Page)
  PROVE  \E run \in [0 .. Len(pages) -> Seq(Page)] :
           IsPagesRun(run, list, pages)
<1> DEFINE n == Len(pages)
           State == Seq(Page)
           step == [a \in (1 .. n) \X State |-> AddPage(a[2], pages[a[1]])]
           loop(g) == [s \in SUBSET DOMAIN pages |->
                         IF s = {} THEN list
                         ELSE AddPage(g[s \ {Max(s)}], pages[Max(s)])]
           fold == CHOOSE g : g = loop(g)
<1>1. AddPages(list, pages) = fold[DOMAIN pages]
  BY DEF AddPages, FoldLeft, MapThenFoldSet, AddPage
<1>2. n \in Nat /\ DOMAIN pages = 1 .. n /\ \A i \in 1 .. n : pages[i] \in Page
  OBVIOUS
<1>3. \A found \in State, p \in Page : AddPage(found, p) \in State
  BY DEF AddPage
<1>4. list \in State /\ step \in [(1 .. n) \X State -> State]
  BY <1>2, <1>3
<1>5. \A i \in 1 .. n, found \in State :
        step[<<i, found>>] = AddPage(found, pages[i])
  OBVIOUS
<1> HIDE DEF n, step, State
<1>6. PICK g \in [SUBSET (1 .. n) -> State] : FoldsBy(g, n, list, step)
  BY <1>2, <1>4, FoldSolution
<1>7. \A s \in SUBSET (1 .. n) : s # {} => Max(s) \in 1 .. n
  BY <1>2, MaxOfRange
<1>8. g = loop(g)
  <2>1. ASSUME NEW s \in SUBSET (1 .. n), s # {}
        PROVE  g[s] = AddPage(g[s \ {Max(s)}], pages[Max(s)])
    <3>1. g[s \ {Max(s)}] \in State
      OBVIOUS
    <3>2. QED
      BY <1>5, <1>6, <1>7, <2>1, <3>1 DEF FoldsBy
  <2>2. \A s \in SUBSET (1 .. n) : s = {} => g[s] = list
    BY <1>6 DEF FoldsBy
  <2>3. QED
    BY <1>2, <2>1, <2>2
<1>9. fold = loop(fold)
  BY <1>8
<1> HIDE DEF fold
<1>10. FoldsWithin(fold, n, State, list, step)
  <2>1. fold[{}] = list
    BY <1>9
  <2>2. ASSUME NEW s \in SUBSET (1 .. n), s # {}, fold[s \ {Max(s)}] \in State
        PROVE  fold[s] = step[<<Max(s), fold[s \ {Max(s)}]>>]
    BY <1>2, <1>5, <1>7, <1>9, <2>2
  <2>3. QED
    BY <2>1, <2>2 DEF FoldsWithin
<1>11. PICK run \in [0 .. n -> State] : IsRun(run, n, list, step, fold[1 .. n])
  BY <1>2, <1>4, <1>10, FoldRuns
<1>12. ASSUME NEW k \in 1 .. n PROVE run[k] = AddPage(run[k - 1], pages[k])
  <2>1. run[k - 1] \in State
    BY <1>2
  <2>2. QED
    BY <1>5, <1>11, <2>1 DEF IsRun
<1>13. QED
  BY <1>1, <1>2, <1>11, <1>12 DEF n, State, IsRun, IsPagesRun

\* What the queue holds: nothing is put there below the last level.
Entry == [sitemap : Sitemap, depth : 0 .. MaxDepth]

\* One turn of the loop over child sitemaps.
AddChild(kept, s, seen, depth) ==
  IF s \in seen \/ depth + 1 > MaxDepth THEN kept
  ELSE Append(kept, [sitemap |-> s, depth |-> depth + 1])

\* The queue before the first turn, after each turn, and at the end.
IsChildrenRun(run, entries, list, seen, depth) ==
  /\ run[0] = entries
  /\ \A k \in 1 .. Len(list) :
       run[k] = AddChild(run[k - 1], list[k], seen, depth)
  /\ run[Len(list)] = AddChildren(entries, list, seen, depth)

\* AddChildren is a run of that loop.
LEMMA AddChildrenRun ==
  ASSUME NEW entries \in Seq(Entry), NEW list \in Seq(Sitemap), NEW seen,
         NEW depth \in 0 .. MaxDepth
  PROVE  \E run \in [0 .. Len(list) -> Seq(Entry)] :
           IsChildrenRun(run, entries, list, seen, depth)
<1> DEFINE n == Len(list)
           State == Seq(Entry)
           step == [a \in (1 .. n) \X State |->
                      AddChild(a[2], list[a[1]], seen, depth)]
           loop(g) == [s \in SUBSET DOMAIN list |->
                         IF s = {} THEN entries
                         ELSE AddChild(g[s \ {Max(s)}], list[Max(s)], seen, depth)]
           fold == CHOOSE g : g = loop(g)
<1>1. AddChildren(entries, list, seen, depth) = fold[DOMAIN list]
  BY DEF AddChildren, FoldLeft, MapThenFoldSet, AddChild
<1>2. n \in Nat /\ DOMAIN list = 1 .. n /\ \A i \in 1 .. n : list[i] \in Sitemap
  OBVIOUS
<1>3. ASSUME NEW kept \in State, NEW s \in Sitemap
      PROVE  AddChild(kept, s, seen, depth) \in State
  <2>1. CASE s \in seen \/ depth + 1 > MaxDepth
    BY <2>1 DEF AddChild
  <2>2. CASE ~(s \in seen \/ depth + 1 > MaxDepth)
    <3>1. depth + 1 \in 0 .. MaxDepth
      BY <2>2, WalkAssumption
    <3>2. [sitemap |-> s, depth |-> depth + 1] \in Entry
      BY <3>1 DEF Entry
    <3>3. QED
      BY <2>2, <3>2 DEF AddChild
  <2>3. QED
    BY <2>1, <2>2
<1>4. entries \in State /\ step \in [(1 .. n) \X State -> State]
  BY <1>2, <1>3, WalkAssumption
<1>5. \A i \in 1 .. n, kept \in State :
        step[<<i, kept>>] = AddChild(kept, list[i], seen, depth)
  OBVIOUS
<1> HIDE DEF n, step, State
<1>6. PICK g \in [SUBSET (1 .. n) -> State] : FoldsBy(g, n, entries, step)
  BY <1>2, <1>4, FoldSolution
<1>7. \A s \in SUBSET (1 .. n) : s # {} => Max(s) \in 1 .. n
  BY <1>2, MaxOfRange
<1>8. g = loop(g)
  <2>1. ASSUME NEW s \in SUBSET (1 .. n), s # {}
        PROVE  g[s] = AddChild(g[s \ {Max(s)}], list[Max(s)], seen, depth)
    <3>1. g[s \ {Max(s)}] \in State
      OBVIOUS
    <3>2. QED
      BY <1>5, <1>6, <1>7, <2>1, <3>1 DEF FoldsBy
  <2>2. \A s \in SUBSET (1 .. n) : s = {} => g[s] = entries
    BY <1>6 DEF FoldsBy
  <2>3. QED
    BY <1>2, <2>1, <2>2
<1>9. fold = loop(fold)
  BY <1>8
<1> HIDE DEF fold
<1>10. FoldsWithin(fold, n, State, entries, step)
  <2>1. fold[{}] = entries
    BY <1>9
  <2>2. ASSUME NEW s \in SUBSET (1 .. n), s # {}, fold[s \ {Max(s)}] \in State
        PROVE  fold[s] = step[<<Max(s), fold[s \ {Max(s)}]>>]
    BY <1>2, <1>5, <1>7, <1>9, <2>2
  <2>3. QED
    BY <2>1, <2>2 DEF FoldsWithin
<1>11. PICK run \in [0 .. n -> State] : IsRun(run, n, entries, step, fold[1 .. n])
  BY <1>2, <1>4, <1>10, FoldRuns
<1>12. ASSUME NEW k \in 1 .. n
       PROVE  run[k] = AddChild(run[k - 1], list[k], seen, depth)
  <2>1. run[k - 1] \in State
    BY <1>2
  <2>2. QED
    BY <1>5, <1>11, <2>1 DEF IsRun
<1>13. QED
  BY <1>1, <1>2, <1>11, <1>12 DEF n, State, IsRun, IsChildrenRun

-----------------------------------------------------------------------------
(***************************************************************************)
(* What the two loops find.                                                *)
(***************************************************************************)

\* A page that is new joins the list at its end, once.
LEMMA AppendNew ==
  ASSUME NEW S, NEW f \in Seq(S), NEW e \in S, IsInjective(f), e \notin Range(f)
  PROVE  /\ Append(f, e) \in Seq(S)
         /\ Len(Append(f, e)) = Len(f) + 1
         /\ IsInjective(Append(f, e))
         /\ Range(Append(f, e)) = Range(f) \union {e}
<1> DEFINE g == Append(f, e)
<1>1. /\ g \in Seq(S) /\ Len(g) = Len(f) + 1
      /\ DOMAIN f = 1 .. Len(f) /\ DOMAIN g = 1 .. Len(f) + 1
      /\ \A i \in 1 .. Len(f) : g[i] = f[i]
      /\ g[Len(f) + 1] = e /\ Len(f) \in Nat
  OBVIOUS
<1> HIDE DEF g
<1>2. \A i \in DOMAIN g : i \in DOMAIN f \/ i = Len(f) + 1
  BY <1>1
<1>3. \A i \in DOMAIN f : i \in DOMAIN g /\ i # Len(f) + 1 /\ f[i] # e
  BY <1>1 DEF Range
<1>4. IsInjective(g)
  BY <1>1, <1>2, <1>3 DEF IsInjective
<1>5. Range(g) = Range(f) \union {e}
  <2>1. ASSUME NEW x \in Range(g) PROVE x \in Range(f) \union {e}
    BY <1>1, <1>2, <2>1 DEF Range
  <2>2. ASSUME NEW x \in Range(f) \union {e} PROVE x \in Range(g)
    BY <1>1, <1>3, <2>2 DEF Range
  <2>3. QED
    BY <2>1, <2>2
<1>6. QED
  BY <1>1, <1>4, <1>5 DEF g

\* The loop over pages keeps what was found and each page once, adds nothing
\* but pages in scope, and skips one of them only if it is full.
LEMMA AddPagesFinds ==
  ASSUME NEW list \in Seq(Page), NEW pages \in Seq(Page), IsInjective(list)
  PROVE  LET found == AddPages(list, pages)
         IN  /\ found \in Seq(Page)
             /\ IsInjective(found)
             /\ Len(list) <= Len(found)
             /\ Range(list) \subseteq Range(found)
             /\ Range(found) \subseteq
                  Range(list) \union {p \in Range(pages) : InScope(p)}
             /\ Len(found) < MaxUrls =>
                  {p \in Range(pages) : InScope(p)} \subseteq Range(found)
<1> DEFINE n == Len(pages)
<1>1. PICK run \in [0 .. n -> Seq(Page)] :
        /\ run[0] = list
        /\ \A k \in 1 .. n : run[k] = AddPage(run[k - 1], pages[k])
        /\ run[n] = AddPages(list, pages)
  BY AddPagesRun DEF IsPagesRun
<1>2. n \in Nat /\ DOMAIN pages = 1 .. n /\ MaxUrls \in Nat
  BY WalkAssumption
<1> DEFINE Good(k) ==
      /\ IsInjective(run[k])
      /\ Len(list) <= Len(run[k])
      /\ Range(list) \subseteq Range(run[k])
      /\ \A p \in Range(run[k]) :
           \/ p \in Range(list)
           \/ InScope(p) /\ \E i \in 1 .. k : pages[i] = p
      /\ Len(run[k]) < MaxUrls =>
           \A i \in 1 .. k : InScope(pages[i]) => pages[i] \in Range(run[k])
<1>3. Good(0)
  BY <1>1
<1>4. ASSUME NEW k \in 1 .. n, Good(k - 1) PROVE Good(k)
  <2>1. /\ run[k - 1] \in Seq(Page) /\ Len(run[k - 1]) \in Nat
        /\ pages[k] \in Page
        /\ run[k] = AddPage(run[k - 1], pages[k])
    <3>1. k - 1 \in 0 .. n /\ k \in 1 .. n
      BY <1>2
    <3>2. run[k - 1] \in Seq(Page)
      BY <1>1, <3>1
    <3>3. pages[k] \in Page
      BY <1>2, <3>1
    <3>4. Len(run[k - 1]) \in Nat
      BY <3>2
    <3>5. QED
      BY <1>1, <3>1, <3>2, <3>3, <3>4
  <2>2. /\ \A i \in 1 .. k - 1 : i \in 1 .. k
        /\ k \in 1 .. k
        /\ \A i \in 1 .. k : i \in 1 .. k - 1 \/ i = k
    BY <1>2
  <2>3. CASE Full(run[k - 1])
    <3>1. run[k] = run[k - 1] /\ ~(Len(run[k]) < MaxUrls)
      BY <1>2, <2>1, <2>3 DEF AddPage, Full
    <3>2. QED
      BY <1>4, <2>2, <3>1
  <2>4. CASE ~InScope(pages[k]) \/ pages[k] \in Range(run[k - 1])
    <3>1. run[k] = run[k - 1]
      BY <2>1, <2>4 DEF AddPage
    <3>2. QED
      BY <1>4, <2>2, <2>4, <3>1
  <2>5. CASE /\ ~Full(run[k - 1]) /\ InScope(pages[k])
             /\ pages[k] \notin Range(run[k - 1])
    <3>1. run[k] = Append(run[k - 1], pages[k])
      BY <2>1, <2>5 DEF AddPage
    <3>2. /\ Len(run[k]) = Len(run[k - 1]) + 1
          /\ IsInjective(run[k])
          /\ Range(run[k]) = Range(run[k - 1]) \union {pages[k]}
      BY <1>4, <2>1, <2>5, <3>1, AppendNew
    <3>3. Len(list) <= Len(run[k]) /\ Len(run[k - 1]) < MaxUrls
      BY <1>2, <1>4, <2>1, <2>5, <3>2 DEF Full
    <3>4. \A p \in Range(run[k]) :
            \/ p \in Range(list)
            \/ InScope(p) /\ \E i \in 1 .. k : pages[i] = p
      BY <1>4, <2>2, <2>5, <3>2
    <3>5. \A i \in 1 .. k : InScope(pages[i]) => pages[i] \in Range(run[k])
      BY <1>4, <2>2, <3>2, <3>3
    <3>6. QED
      BY <1>4, <3>2, <3>3, <3>4, <3>5
  <2>6. QED
    BY <2>3, <2>4, <2>5
<1> HIDE DEF Good
<1>5. Good(n)
  <2> DEFINE Bad == {k \in 0 .. n : ~Good(k)}
  <2> SUFFICES ASSUME Bad # {} PROVE FALSE
    BY <1>2
  <2>1. Bad \in SUBSET Nat
    OBVIOUS
  <2>2. PICK k \in Bad : \A j \in Bad : k <= j
    <3> HIDE DEF Bad
    <3> QED
      BY <2>1, LeastNumber
  <2>3. k \in 1 .. n
    BY <1>2, <1>3, <2>2
  <2>4. k - 1 \in 0 .. n /\ ~(k <= k - 1)
    BY <1>2, <2>3
  <2>5. QED
    BY <1>4, <2>2, <2>3, <2>4
<1>6. run[n] \in Seq(Page)
  BY <1>1, <1>2
<1>7. Range(run[n]) \subseteq
        Range(list) \union {p \in Range(pages) : InScope(p)}
  <2>1. \A i \in 1 .. n : pages[i] \in Range(pages)
    BY <1>2 DEF Range
  <2>2. QED
    BY <1>5, <2>1 DEF Good
<1>8. Len(run[n]) < MaxUrls =>
        {p \in Range(pages) : InScope(p)} \subseteq Range(run[n])
  <2>1. \A p \in Range(pages) : \E i \in 1 .. n : pages[i] = p
    BY <1>2 DEF Range
  <2>2. QED
    BY <1>5, <2>1 DEF Good
<1> HIDE DEF n
<1>9. QED
  BY <1>1, <1>5, <1>6, <1>7, <1>8 DEF Good

\* The loop over children leaves the queue as it is, and puts those behind it
\* that were not visited, if that is not too deep.
LEMMA AddChildrenQueues ==
  ASSUME NEW entries \in Seq(Entry), NEW list \in Seq(Sitemap), NEW seen,
         NEW depth \in 0 .. MaxDepth
  PROVE  LET result == AddChildren(entries, list, seen, depth)
         IN  /\ result \in Seq(Entry)
             /\ Len(entries) <= Len(result)
             /\ \A i \in 1 .. Len(entries) : result[i] = entries[i]
             /\ \A i \in 1 .. Len(result) : i > Len(entries) =>
                  /\ result[i].depth = depth + 1
                  /\ result[i].sitemap \in Range(list)
             /\ depth < MaxDepth =>
                  \A c \in Range(list) \ seen :
                    \E i \in 1 .. Len(result) :
                      result[i].sitemap = c /\ result[i].depth = depth + 1
<1> DEFINE n == Len(list)
<1>0. PICK run \in [0 .. n -> Seq(Entry)] :
        IsChildrenRun(run, entries, list, seen, depth)
  BY AddChildrenRun
<1>1. /\ run[0] = entries
      /\ \A k \in 1 .. n : run[k] = AddChild(run[k - 1], list[k], seen, depth)
      /\ run[n] = AddChildren(entries, list, seen, depth)
  BY <1>0 DEF IsChildrenRun
<1>2. /\ n \in Nat /\ DOMAIN list = 1 .. n
      /\ MaxDepth \in Nat /\ depth \in Nat /\ Len(entries) \in Nat
  BY WalkAssumption
<1> DEFINE Joined(e) == e.depth = depth + 1 /\ \E j \in 1 .. n : list[j] = e.sitemap
           Good(k) ==
             /\ Len(entries) <= Len(run[k])
             /\ \A i \in 1 .. Len(entries) : run[k][i] = entries[i]
             /\ \A i \in 1 .. Len(run[k]) : i > Len(entries) => Joined(run[k][i])
             /\ depth < MaxDepth =>
                  \A j \in 1 .. k : list[j] \notin seen =>
                    \E i \in 1 .. Len(run[k]) :
                      /\ run[k][i].sitemap = list[j]
                      /\ run[k][i].depth = depth + 1
<1>3. Good(0)
  BY <1>1, <1>2
<1>4. ASSUME NEW k \in 1 .. n, Good(k - 1) PROVE Good(k)
  <2>1. /\ run[k - 1] \in Seq(Entry) /\ Len(run[k - 1]) \in Nat
        /\ run[k] = AddChild(run[k - 1], list[k], seen, depth)
    <3>1. k - 1 \in 0 .. n /\ k \in 1 .. n
      BY <1>2
    <3>2. run[k - 1] \in Seq(Entry)
      BY <1>1, <3>1
    <3>3. Len(run[k - 1]) \in Nat
      BY <3>2
    <3>4. QED
      BY <1>1, <3>1, <3>2, <3>3
  <2>2. \A j \in 1 .. k : j \in 1 .. k - 1 \/ j = k
    BY <1>2
  <2>3. CASE list[k] \in seen \/ depth + 1 > MaxDepth
    <3>1. run[k] = run[k - 1]
      BY <2>1, <2>3 DEF AddChild
    <3>2. depth < MaxDepth => list[k] \in seen
      BY <1>2, <2>3
    <3>3. QED
      BY <1>4, <2>2, <3>1, <3>2
  <2>4. CASE ~(list[k] \in seen \/ depth + 1 > MaxDepth)
    <3> DEFINE e == [sitemap |-> list[k], depth |-> depth + 1]
               m == Len(run[k - 1])
    <3>1. run[k] = Append(run[k - 1], e)
      BY <2>1, <2>4 DEF AddChild
    <3>2. e.sitemap = list[k] /\ e.depth = depth + 1
      OBVIOUS
    <3> HIDE DEF e
    <3>3. /\ Len(run[k]) = m + 1 /\ m \in Nat
          /\ \A i \in 1 .. m : run[k][i] = run[k - 1][i]
          /\ run[k][m + 1] = e
      BY <2>1, <3>1
    <3> HIDE DEF m
    <3>4. \A i \in 1 .. m + 1 : i \in 1 .. m \/ i = m + 1
      BY <3>3
    <3>5. /\ Len(entries) <= m
          /\ \A i \in 1 .. Len(entries) : run[k - 1][i] = entries[i]
          /\ \A i \in 1 .. m : i > Len(entries) => Joined(run[k - 1][i])
          /\ depth < MaxDepth =>
                  \A j \in 1 .. k - 1 : list[j] \notin seen =>
                    \E i \in 1 .. m :
                      /\ run[k - 1][i].sitemap = list[j]
                      /\ run[k - 1][i].depth = depth + 1
      BY <1>4 DEF m
    <3>6. Len(entries) <= Len(run[k])
      BY <1>2, <3>3, <3>5
    <3>7. \A i \in 1 .. Len(entries) : run[k][i] = entries[i]
      <4>1. \A i \in 1 .. Len(entries) : i \in 1 .. m
        BY <1>2, <3>3, <3>5
      <4>2. QED
        BY <3>3, <3>5, <4>1
    <3>8. \A i \in 1 .. Len(run[k]) : i > Len(entries) => Joined(run[k][i])
      <4>1. Joined(e)
        BY <3>2
      <4> HIDE DEF Joined
      <4>2. QED
        BY <3>3, <3>4, <3>5, <4>1
    <3>9. ASSUME depth < MaxDepth, NEW j \in 1 .. k, list[j] \notin seen
          PROVE  \E i \in 1 .. Len(run[k]) :
                   /\ run[k][i].sitemap = list[j]
                   /\ run[k][i].depth = depth + 1
      <4>1. CASE j = k
        <5>1. m + 1 \in 1 .. Len(run[k])
          BY <3>3
        <5>2. QED
          BY <3>2, <3>3, <4>1, <5>1
      <4>2. CASE j # k
        <5>1. PICK i \in 1 .. m : /\ run[k - 1][i].sitemap = list[j]
                                  /\ run[k - 1][i].depth = depth + 1
          BY <2>2, <3>5, <3>9, <4>2
        <5>2. i \in 1 .. Len(run[k]) /\ run[k][i] = run[k - 1][i]
          BY <3>3
        <5>3. QED
          BY <5>1, <5>2
      <4>3. QED
        BY <4>1, <4>2
    <3> HIDE DEF Joined
    <3>10. QED
      BY <3>6, <3>7, <3>8, <3>9
  <2>5. QED
    BY <2>3, <2>4
<1> HIDE DEF Good
<1>5. Good(n)
  <2> DEFINE Bad == {k \in 0 .. n : ~Good(k)}
  <2> SUFFICES ASSUME Bad # {} PROVE FALSE
    BY <1>2
  <2>1. Bad \in SUBSET Nat
    OBVIOUS
  <2>2. PICK k \in Bad : \A j \in Bad : k <= j
    <3> HIDE DEF Bad
    <3> QED
      BY <2>1, LeastNumber
  <2>3. k \in 1 .. n
    BY <1>2, <1>3, <2>2
  <2>4. k - 1 \in 0 .. n /\ ~(k <= k - 1)
    BY <1>2, <2>3
  <2>5. QED
    BY <1>4, <2>2, <2>3, <2>4
<1>6. run[n] \in Seq(Entry)
  BY <1>1, <1>2
<1>7. \A e : Joined(e) => e.depth = depth + 1 /\ e.sitemap \in Range(list)
  BY <1>2 DEF Range
<1>8. depth < MaxDepth =>
        \A c \in Range(list) \ seen :
          \E i \in 1 .. Len(run[n]) :
            run[n][i].sitemap = c /\ run[n][i].depth = depth + 1
  <2>1. \A c \in Range(list) : \E j \in 1 .. n : list[j] = c
    BY <1>2 DEF Range
  <2>2. ASSUME depth < MaxDepth, NEW c \in Range(list) \ seen
        PROVE  \E i \in 1 .. Len(run[n]) :
                 run[n][i].sitemap = c /\ run[n][i].depth = depth + 1
    <3>1. PICK j \in 1 .. n : list[j] = c
      BY <2>1
    <3>2. list[j] \notin seen
      BY <3>1
    <3>3. \E i \in 1 .. Len(run[n]) :
            /\ run[n][i].sitemap = list[j]
            /\ run[n][i].depth = depth + 1
      BY <1>5, <2>2, <3>2 DEF Good
    <3>4. QED
      BY <3>1, <3>3
  <2>3. QED
    BY <2>2
<1> HIDE DEF n, Joined
<1>9. QED
  BY <1>1, <1>5, <1>6, <1>7, <1>8 DEF Good

-----------------------------------------------------------------------------
(***************************************************************************)
(* The levels of the site.                                                 *)
(***************************************************************************)

\* What the sitemaps of W list, and W.
Below(W) == W \union UNION {Range(children[s]) : s \in W}

\* Within is the recursion that its definition says it is.
LEMMA WithinLevels ==
  ASSUME children \in [Sitemap -> Seq(Sitemap)]
  PROVE  /\ Within[0] = Range(Roots)
         /\ \A d \in Nat \ {0} : Within[d] = Below(Within[d - 1])
         /\ \A d \in Nat : Within[d] \subseteq Sitemap
<1> DEFINE State == SUBSET Sitemap
           step == [W \in State |-> Below(W)]
           levels(f) == [d \in Nat |-> IF d = 0 THEN Range(Roots)
                                        ELSE Below(f[d - 1])]
<1>1. Within = CHOOSE f : f = levels(f)
  BY DEF Within, Below
<1>2. \A W \in State : Below(W) \in State
  BY DEF Below, Range
<1>3. Range(Roots) \in State /\ step \in [State -> State]
  BY <1>2, WalkAssumption DEF Range
<1>4. \A W \in State : step[W] = Below(W)
  OBVIOUS
<1> HIDE DEF State, step
<1>0. PICK f \in [Nat -> State] : Recurs(f, Range(Roots), step)
  BY <1>3, RecursionSolution
<1>5. /\ f[0] = Range(Roots)
      /\ \A d \in Nat \ {0} : f[d] = step[f[d - 1]]
  BY <1>0 DEF Recurs
<1>6. \A d \in Nat \ {0} : f[d] = Below(f[d - 1])
  <2> SUFFICES ASSUME NEW d \in Nat \ {0} PROVE f[d] = Below(f[d - 1])
    OBVIOUS
  <2>1. d - 1 \in Nat
    OBVIOUS
  <2>2. QED
    BY <1>4, <1>5, <2>1
<1>7. f = levels(f)
  BY <1>5, <1>6
<1>8. Within = levels(Within)
  BY <1>1, <1>7
<1>9. /\ Within[0] = Range(Roots)
      /\ \A d \in Nat \ {0} : Within[d] = Below(Within[d - 1])
  BY <1>8
<1>10. \A d \in Nat : Within[d] \in State
  <2> DEFINE Bad == {d \in Nat : Within[d] \notin State}
  <2> SUFFICES ASSUME Bad # {} PROVE FALSE
    OBVIOUS
  <2>1. Bad \in SUBSET Nat
    OBVIOUS
  <2>2. PICK d \in Bad : \A j \in Bad : d <= j
    <3> HIDE DEF Bad
    <3> QED
      BY <2>1, LeastNumber
  <2>3. d \in Nat \ {0}
    BY <1>3, <1>9, <2>2
  <2>4. d - 1 \in Nat /\ ~(d <= d - 1)
    BY <2>3
  <2>5. Within[d - 1] \in State
    BY <2>2, <2>4
  <2>6. QED
    BY <1>2, <1>9, <2>2, <2>3, <2>5 DEF State
<1>11. QED
  BY <1>9, <1>10 DEF State

\* The site stays as it is, and so do its levels.
LEMMA WithinStays ==
  ASSUME children' = children
  PROVE  Within' = Within
BY DEF Within

\* A level holds the levels above it.
LEMMA WithinGrows ==
  ASSUME children \in [Sitemap -> Seq(Sitemap)], NEW d \in Nat
  PROVE  \A k \in Nat : d <= k => Within[d] \subseteq Within[k]
<1> DEFINE Bad == {k \in Nat : d <= k /\ ~(Within[d] \subseteq Within[k])}
<1> SUFFICES ASSUME Bad # {} PROVE FALSE
  OBVIOUS
<1>1. Bad \in SUBSET Nat
  OBVIOUS
<1>2. PICK k \in Bad : \A j \in Bad : k <= j
  <2> HIDE DEF Bad
  <2> QED
    BY <1>1, LeastNumber
<1>3. k # d /\ d <= k /\ k \in Nat
  BY <1>2
<1>4. k \in Nat \ {0} /\ k - 1 \in Nat /\ d <= k - 1 /\ ~(k <= k - 1)
  BY <1>3
<1>5. Within[d] \subseteq Within[k - 1]
  BY <1>2, <1>4
<1>6. Within[k - 1] \subseteq Within[k]
  BY <1>4, WithinLevels DEF Below
<1>7. QED
  BY <1>2, <1>5, <1>6

-----------------------------------------------------------------------------
(***************************************************************************)
(* One turn of the walk, and the types of its variables.                   *)
(***************************************************************************)

WalkTypes ==
  /\ children \in [Sitemap -> Seq(Sitemap)]
  /\ queue \in Seq(Entry)
  /\ visited \subseteq Sitemap
  /\ discovered \in Seq(Page)
  /\ fetched \in Seq(Sitemap)
  /\ failed \subseteq visited

\* The head of the queue is taken off; the others move up.
LEMMA TakenOff ==
  ASSUME WalkTypes, queue # <<>>
  PROVE  /\ Taken = queue[1] /\ Taken \in Entry
         /\ Rest \in Seq(Entry)
         /\ Len(queue) \in Nat \ {0}
         /\ Len(Rest) = Len(queue) - 1
         /\ \A i \in 1 .. Len(Rest) : Rest[i] = queue[i + 1]
<1>1. queue \in Seq(Entry) /\ Len(queue) \in Nat \ {0}
  BY DEF WalkTypes
<1>2. Taken = queue[1] /\ Taken \in Entry
  BY <1>1 DEF Taken, Popped
<1> DEFINE first == SubSeq(queue, 1, 0)
           tail == SubSeq(queue, 2, Len(queue))
<1>3. Rest = first \o tail
  BY DEF Rest, Popped, RemoveAt
<1>4. first \in Seq(Entry) /\ Len(first) = 0
  BY <1>1
<1>5. /\ tail \in Seq(Entry) /\ Len(tail) = Len(queue) - 1
      /\ \A i \in 1 .. Len(queue) - 1 : tail[i] = queue[i + 1]
  <2>1. /\ \A i \in 2 .. Len(queue) : i \in 1 .. Len(queue)
        /\ \A i \in 1 .. Len(queue) - 1 : 2 + i - 1 = i + 1
        /\ (IF 2 <= Len(queue) THEN Len(queue) - 2 + 1 ELSE 0) = Len(queue) - 1
    BY <1>1
  <2>2. \A i \in 2 .. Len(queue) : queue[i] \in Entry
    BY <1>1, <2>1, ElementOfSeq
  <2>3. /\ tail \in Seq(Entry)
        /\ Len(tail) = IF 2 <= Len(queue) THEN Len(queue) - 2 + 1 ELSE 0
        /\ \A i \in 1 .. Len(queue) - 2 + 1 : tail[i] = queue[2 + i - 1]
    BY <1>1, <2>1, <2>2, SubSeqProperties
  <2>4. Len(queue) - 2 + 1 = Len(queue) - 1
    BY <1>1
  <2> HIDE DEF tail
  <2>5. QED
    BY <2>1, <2>3, <2>4
<1> HIDE DEF first, tail
<1>6. first \o tail = tail
  BY <1>4, <1>5
<1>7. QED
  BY <1>1, <1>2, <1>3, <1>5, <1>6

\* What the entry e costs: it is skipped, or fetched, or its fetch fails.
SkipTurn(e) ==
  /\ e.sitemap \in visited
  /\ queue' = Rest
  /\ UNCHANGED <<visited, discovered, fetched, failed>>

FetchTurn(e) ==
  /\ e.sitemap \notin visited
  /\ visited' = visited \union {e.sitemap}
  /\ fetched' = Append(fetched, e.sitemap)
  /\ discovered' = AddPages(discovered, Pages[e.sitemap])
  /\ queue' = AddChildren(Rest, children[e.sitemap], visited', e.depth)
  /\ failed' = failed

FailTurn(e) ==
  /\ e.sitemap \notin visited
  /\ visited' = visited \union {e.sitemap}
  /\ fetched' = Append(fetched, e.sitemap)
  /\ \E n \in 0 .. Len(Pages[e.sitemap]) :
       discovered' = AddPages(discovered, SubSeq(Pages[e.sitemap], 1, n))
  /\ queue' = Rest
  /\ failed' = failed \union {e.sitemap}

\* Every step is a turn of one of the three kinds.
LEMMA Turns ==
  ASSUME WalkTypes, Next
  PROVE  /\ queue # <<>> /\ queue[1] \in Entry
         /\ children' = children
         /\ SkipTurn(queue[1]) \/ FetchTurn(queue[1]) \/ FailTurn(queue[1])
<1>1. queue # <<>> /\ children' = children
  BY DEF Next, Skip, Fetch, FetchFails, Walking
<1>2. Taken = queue[1] /\ Taken \in Entry
  BY <1>1, TakenOff
<1>3. ~(Taken.depth > MaxDepth)
  BY <1>2, WalkAssumption DEF Entry
<1>4. ASSUME Skip PROVE SkipTurn(queue[1])
  <2>1. queue[1].sitemap \in visited
    BY <1>2, <1>3, <1>4 DEF Skip, IsSkipped
  <2>2. /\ queue' = Rest /\ visited' = visited /\ discovered' = discovered
        /\ fetched' = fetched /\ failed' = failed
    BY <1>4 DEF Skip
  <2>3. QED
    BY <2>1, <2>2 DEF SkipTurn
<1>5. ASSUME Fetch PROVE FetchTurn(queue[1])
  <2>1. queue[1].sitemap \notin visited
    BY <1>2, <1>5 DEF Fetch, IsSkipped
  <2>2. /\ visited' = visited \union {queue[1].sitemap}
        /\ fetched' = Append(fetched, queue[1].sitemap)
        /\ discovered' = AddPages(discovered, Pages[queue[1].sitemap])
        /\ queue' = AddChildren(Rest, children[queue[1].sitemap], visited',
                                queue[1].depth)
        /\ failed' = failed
    BY <1>2, <1>5 DEF Fetch
  <2>3. QED
    BY <2>1, <2>2 DEF FetchTurn
<1>6. ASSUME NEW n \in 0 .. Len(Pages[Taken.sitemap]), FetchFails(n)
      PROVE  FailTurn(queue[1])
  BY <1>2, <1>3, <1>6 DEF FetchFails, IsSkipped, AfterFailure, FailTurn
<1>7. QED
  BY <1>1, <1>2, <1>4, <1>5, <1>6 DEF Next

\* A sitemap that fails in the middle has handed on a part of its pages.
LEMMA SomePages ==
  ASSUME NEW s \in Sitemap, NEW n \in 0 .. Len(Pages[s])
  PROVE  /\ Pages[s] \in Seq(Page)
         /\ SubSeq(Pages[s], 1, n) \in Seq(Page)
         /\ Range(SubSeq(Pages[s], 1, n)) \subseteq Range(Pages[s])
<1>1. Pages[s] \in Seq(Page)
  BY WalkAssumption
<1> DEFINE all == Pages[s]
           some == SubSeq(all, 1, n)
<1>2. all \in Seq(Page) /\ n \in 0 .. Len(all)
  BY <1>1
<1> HIDE DEF all
<1>3. /\ some \in Seq(Page) /\ Len(some) = n
      /\ \A i \in 1 .. n : some[i] = all[i] /\ i \in 1 .. Len(all)
  BY <1>2
<1>4. Range(some) \subseteq Range(all)
  <2> HIDE DEF some
  <2>1. DOMAIN some = 1 .. n /\ DOMAIN all = 1 .. Len(all)
    BY <1>2, <1>3
  <2>2. QED
    BY <1>3, <2>1 DEF Range
<1>5. QED
  BY <1>2, <1>3, <1>4 DEF all

-----------------------------------------------------------------------------
(***************************************************************************)
(* What is fetched and found.                                              *)
(***************************************************************************)

\* A sitemap is visited when it is fetched.
FetchedInv == IsInjective(fetched) /\ Range(fetched) \subseteq visited

\* The pages found are different, in scope, and on sitemaps visited; and while
\* there is room, all pages are found of those that did not fail.
PagesInv ==
  /\ IsInjective(discovered)
  /\ \A p \in Range(discovered) :
       InScope(p) /\ \E s \in visited : p \in Range(Pages[s])
  /\ Len(discovered) < MaxUrls =>
       \A s \in visited \ failed :
         {p \in Range(Pages[s]) : InScope(p)} \subseteq Range(discovered)

FoundInv == WalkTypes /\ FetchedInv /\ PagesInv

\* Nothing is visited or found at first.
LEMMA FoundInvInit == Init => FoundInv
<1> SUFFICES ASSUME Init PROVE FoundInv
  OBVIOUS
<1>1. queue \in Seq(Entry)
  <2>1. /\ Roots \in Seq(Sitemap) /\ Len(Roots) \in Nat
        /\ DOMAIN Roots = 1 .. Len(Roots)
    BY WalkAssumption
  <2>2. \A i \in 1 .. Len(Roots) :
          [sitemap |-> Roots[i], depth |-> 0] \in Entry
    BY <2>1, WalkAssumption DEF Entry
  <2>3. queue = [i \in 1 .. Len(Roots) |-> [sitemap |-> Roots[i], depth |-> 0]]
    BY <2>1 DEF Init
  <2>4. \A i \in 1 .. Len(Roots) : queue[i] \in Entry
    BY <2>2, <2>3
  <2>5. queue \in [1 .. Len(Roots) -> Entry]
    BY <2>3, <2>4
  <2>6. QED
    BY <2>1, <2>5, SeqDef
<1>2. WalkTypes
  BY <1>1, WalkAssumption DEF Init, WalkTypes
<1>3. FetchedInv /\ PagesInv
  BY DEF Init, FetchedInv, PagesInv, IsInjective, Range
<1>4. QED
  BY <1>2, <1>3 DEF FoundInv

\* Every turn keeps that.
LEMMA FoundInvStep ==
  ASSUME FoundInv, [Next]_vars
  PROVE  FoundInv'
<1>0. WalkTypes /\ FetchedInv /\ PagesInv
  BY DEF FoundInv
<1>1. CASE UNCHANGED vars
  BY <1>0, <1>1 DEF vars, FoundInv, WalkTypes, FetchedInv, PagesInv
<1>2. CASE Next
  <2> DEFINE e == queue[1]
  <2>1. /\ queue # <<>> /\ e \in Entry /\ children' = children
        /\ SkipTurn(e) \/ FetchTurn(e) \/ FailTurn(e)
    BY <1>0, <1>2, Turns
  <2>2. Rest \in Seq(Entry)
    BY <1>0, <2>1, TakenOff
  <2>3. e.sitemap \in Sitemap /\ e.depth \in 0 .. MaxDepth
    BY <2>1 DEF Entry
  <2> HIDE DEF e
  <2>4. CASE SkipTurn(e)
    BY <1>0, <2>1, <2>2, <2>4
       DEF SkipTurn, FoundInv, WalkTypes, FetchedInv, PagesInv
  <2>5. ASSUME e.sitemap \notin visited, visited' = visited \union {e.sitemap},
               fetched' = Append(fetched, e.sitemap)
        PROVE  FetchedInv' /\ fetched' \in Seq(Sitemap)
    <3>1. e.sitemap \notin Range(fetched)
      BY <1>0, <2>5 DEF FetchedInv
    <3>2. /\ Append(fetched, e.sitemap) \in Seq(Sitemap)
          /\ IsInjective(Append(fetched, e.sitemap))
          /\ Range(Append(fetched, e.sitemap)) = Range(fetched) \union {e.sitemap}
      BY <1>0, <2>3, <3>1, AppendNew DEF FetchedInv, WalkTypes
    <3>3. QED
      BY <1>0, <2>5, <3>2 DEF FetchedInv
  <2>6. ASSUME NEW pages \in Seq(Page), discovered' = AddPages(discovered, pages),
               Range(pages) \subseteq Range(Pages[e.sitemap]),
               visited' = visited \union {e.sitemap},
               \/ failed' = failed /\ pages = Pages[e.sitemap]
               \/ failed' = failed \union {e.sitemap}
        PROVE  PagesInv' /\ discovered' \in Seq(Page)
    <3>1. /\ discovered \in Seq(Page) /\ IsInjective(discovered)
          /\ Len(discovered) \in Nat /\ MaxUrls \in Nat
      BY <1>0, WalkAssumption DEF WalkTypes, PagesInv
    <3>2. /\ discovered' \in Seq(Page)
          /\ IsInjective(discovered')
          /\ Len(discovered) <= Len(discovered')
          /\ Range(discovered) \subseteq Range(discovered')
          /\ Range(discovered') \subseteq
               Range(discovered) \union {p \in Range(pages) : InScope(p)}
          /\ Len(discovered') < MaxUrls =>
               {p \in Range(pages) : InScope(p)} \subseteq Range(discovered')
      BY <2>6, <3>1, AddPagesFinds
    <3>3. ASSUME NEW p \in Range(discovered')
          PROVE  InScope(p) /\ \E s \in visited' : p \in Range(Pages[s])
      <4>1. CASE p \in Range(discovered)
        BY <1>0, <2>6, <4>1 DEF PagesInv
      <4>2. CASE p \in Range(pages) /\ InScope(p)
        BY <2>6, <4>2
      <4>3. QED
        BY <3>2, <4>1, <4>2
    <3>4. ASSUME Len(discovered') < MaxUrls, NEW s \in visited' \ failed'
          PROVE  {p \in Range(Pages[s]) : InScope(p)} \subseteq Range(discovered')
      <4>1. Len(discovered) < MaxUrls
        <5>1. Len(discovered') \in Nat
          BY <3>2
        <5>2. QED
          BY <3>1, <3>2, <3>4, <5>1
      <4>2. CASE s \in visited \ failed
        BY <1>0, <3>2, <4>1, <4>2 DEF PagesInv
      <4>3. CASE s = e.sitemap /\ pages = Pages[e.sitemap]
        BY <3>2, <3>4, <4>3
      <4>4. QED
        BY <2>6, <3>4, <4>2, <4>3
    <3>5. IsInjective(discovered)'
      BY <3>2
    <3>6. QED
      BY <3>2, <3>3, <3>4, <3>5 DEF PagesInv, InScope
  <2>7. CASE FetchTurn(e)
    <3>1. Pages[e.sitemap] \in Seq(Page)
      BY <2>3, WalkAssumption
    <3>2. PagesInv' /\ discovered' \in Seq(Page)
      BY <2>6, <2>7, <3>1 DEF FetchTurn
    <3>3. FetchedInv' /\ fetched' \in Seq(Sitemap)
      BY <2>5, <2>7 DEF FetchTurn
    <3>4. children[e.sitemap] \in Seq(Sitemap)
      BY <1>0, <2>3 DEF WalkTypes
    <3>5. queue' \in Seq(Entry)
      BY <2>2, <2>3, <2>7, <3>4, AddChildrenQueues DEF FetchTurn
    <3>6. WalkTypes'
      BY <1>0, <2>1, <2>3, <2>7, <3>2, <3>3, <3>5 DEF FetchTurn, WalkTypes
    <3>7. QED
      BY <3>2, <3>3, <3>6 DEF FoundInv
  <2>8. CASE FailTurn(e)
    <3>1. PICK n \in 0 .. Len(Pages[e.sitemap]) :
            discovered' = AddPages(discovered, SubSeq(Pages[e.sitemap], 1, n))
      BY <2>8 DEF FailTurn
    <3>2. /\ SubSeq(Pages[e.sitemap], 1, n) \in Seq(Page)
          /\ Range(SubSeq(Pages[e.sitemap], 1, n)) \subseteq
               Range(Pages[e.sitemap])
      BY <2>3, SomePages
    <3>3. PagesInv' /\ discovered' \in Seq(Page)
      BY <2>6, <2>8, <3>1, <3>2 DEF FailTurn
    <3>4. FetchedInv' /\ fetched' \in Seq(Sitemap)
      BY <2>5, <2>8 DEF FailTurn
    <3>5. WalkTypes'
      BY <1>0, <2>1, <2>2, <2>3, <2>8, <3>3, <3>4 DEF FailTurn, WalkTypes
    <3>6. QED
      BY <3>3, <3>4, <3>5 DEF FoundInv
  <2>9. QED
    BY <2>1, <2>4, <2>7, <2>8
<1>3. QED
  BY <1>1, <1>2

\* So that holds throughout the walk.
LEMMA FoundInvAlways == Spec => []FoundInv
<1> QED
  BY FoundInvInit, FoundInvStep, PTL DEF Spec

\* However the sitemaps of a site refer to each other and whichever fetches
\* fail, none is fetched twice and no page is handed on twice.
THEOREM EachOnceAlways == Spec => []EachOnce
<1>1. FoundInv => EachOnce
  BY DEF FoundInv, FetchedInv, PagesInv, EachOnce
<1>2. QED
  BY <1>1, FoundInvAlways, PTL

-----------------------------------------------------------------------------
(***************************************************************************)
(* The order of the walk: no sitemap is reached later than it could be.    *)
(***************************************************************************)

\* The queue is sorted by level, and holds two levels at most.
SortedInv ==
  \A i, k \in 1 .. Len(queue) : i <= k =>
    /\ queue[i].depth <= queue[k].depth
    /\ queue[k].depth <= queue[i].depth + 1

\* What is queued at a level is within that level.
ReachInv ==
  /\ \A i \in 1 .. Len(queue) : queue[i].sitemap \in Within[queue[i].depth]
  /\ visited \subseteq Within[MaxDepth]

Queued(s, d) ==
  \E i \in 1 .. Len(queue) : queue[i].sitemap = s /\ queue[i].depth <= d

\* The sitemap s is or will be visited at level d or above it.
Covered(s, d) == s \in visited \/ Queued(s, d)

RootsInv == \A s \in Range(Roots) : Covered(s, 0)

\* The children of s, which is at level d, are covered at the next level.  A
\* failure loses children, but none of another sitemap of level 0.
ChildrenCovered(s, d) == \A c \in Range(children[s]) : Covered(c, d + 1)

ChildrenInv ==
  \A s \in visited \ failed, d \in 0 .. MaxDepth - 1 :
    (failed = {} \/ d = 0) /\ s \in Within[d] => ChildrenCovered(s, d)

OrderInv == SortedInv /\ ReachInv /\ RootsInv /\ ChildrenInv

\* How a turn moves the queue: what joins it is one level below the head.
LEMMA QueueMoves ==
  ASSUME WalkTypes, Next
  PROVE  /\ queue # <<>> /\ queue[1] \in Entry /\ Len(queue) \in Nat \ {0}
         /\ children' = children
         /\ visited' = visited \union {queue[1].sitemap}
         /\ queue' \in Seq(Entry)
         /\ Len(queue) - 1 <= Len(queue')
         /\ \A i \in 1 .. Len(queue) - 1 : queue'[i] = queue[i + 1]
         /\ \A i \in 1 .. Len(queue') : i > Len(queue) - 1 =>
              /\ queue'[i].depth = queue[1].depth + 1
              /\ queue'[i].sitemap \in Range(children[queue[1].sitemap])
<1> DEFINE e == queue[1]
<1>1. /\ queue # <<>> /\ e \in Entry /\ children' = children
      /\ SkipTurn(e) \/ FetchTurn(e) \/ FailTurn(e)
  BY Turns
<1>2. /\ Rest \in Seq(Entry) /\ Len(queue) \in Nat \ {0}
      /\ Len(Rest) = Len(queue) - 1
      /\ \A i \in 1 .. Len(Rest) : Rest[i] = queue[i + 1]
  BY <1>1, TakenOff
<1>3. e.sitemap \in Sitemap /\ e.depth \in 0 .. MaxDepth
  BY <1>1 DEF Entry
<1> HIDE DEF e
<1>4. visited' = visited \union {e.sitemap}
  BY <1>1 DEF SkipTurn, FetchTurn, FailTurn
<1>5. ASSUME queue' = Rest
      PROVE  /\ queue' \in Seq(Entry)
             /\ Len(queue) - 1 <= Len(queue')
             /\ \A i \in 1 .. Len(queue) - 1 : queue'[i] = queue[i + 1]
             /\ \A i \in 1 .. Len(queue') : ~(i > Len(queue) - 1)
  <2>1. queue' \in Seq(Entry) /\ Len(queue') = Len(queue) - 1
    BY <1>2, <1>5
  <2>2. QED
    BY <1>2, <1>5, <2>1
<1>6. CASE SkipTurn(e) \/ FailTurn(e)
  <2>1. queue' = Rest
    BY <1>6 DEF SkipTurn, FailTurn
  <2>2. QED
    BY <1>1, <1>2, <1>4, <1>5, <2>1 DEF e
<1>7. CASE FetchTurn(e)
  <2>1. children[e.sitemap] \in Seq(Sitemap)
    BY <1>3 DEF WalkTypes
  <2>2. queue' = AddChildren(Rest, children[e.sitemap], visited', e.depth)
    BY <1>7 DEF FetchTurn
  <2>3. /\ queue' \in Seq(Entry)
        /\ Len(Rest) <= Len(queue')
        /\ \A i \in 1 .. Len(Rest) : queue'[i] = Rest[i]
        /\ \A i \in 1 .. Len(queue') : i > Len(Rest) =>
             /\ queue'[i].depth = e.depth + 1
             /\ queue'[i].sitemap \in Range(children[e.sitemap])
    BY <1>2, <1>3, <2>1, <2>2, AddChildrenQueues
  <2>4. QED
    BY <1>1, <1>2, <1>4, <2>3 DEF e
<1>8. QED
  BY <1>1, <1>6, <1>7

\* What is covered stays so: an entry leaves the queue when it is visited.
LEMMA CoveredStays ==
  ASSUME WalkTypes, Next, NEW s, NEW d \in Nat, Covered(s, d)
  PROVE  Covered(s, d)'
<1>1. /\ Len(queue) \in Nat \ {0}
      /\ visited' = visited \union {queue[1].sitemap}
      /\ queue' \in Seq(Entry)
      /\ Len(queue) - 1 <= Len(queue')
      /\ \A i \in 1 .. Len(queue) - 1 : queue'[i] = queue[i + 1]
  BY QueueMoves
<1>2. CASE s \in visited
  BY <1>1, <1>2 DEF Covered
<1>3. CASE Queued(s, d)
  <2>1. PICK i \in 1 .. Len(queue) : queue[i].sitemap = s /\ queue[i].depth <= d
    BY <1>3 DEF Queued
  <2>2. CASE i = 1
    BY <1>1, <2>1, <2>2 DEF Covered
  <2>3. CASE i # 1
    <3>1. Len(queue') \in Nat
      BY <1>1
    <3>2. i - 1 \in 1 .. Len(queue) - 1 /\ (i - 1) + 1 = i
      BY <1>1, <2>1, <2>3
    <3>3. i - 1 \in 1 .. Len(queue')
      BY <1>1, <3>1, <3>2
    <3>4. queue'[i - 1] = queue[i]
      BY <1>1, <3>2
    <3>5. QED
      BY <2>1, <3>3, <3>4 DEF Covered, Queued
  <2>4. QED
    BY <2>2, <2>3
<1>4. QED
  BY <1>2, <1>3 DEF Covered

\* Once the queue holds nothing of the levels down to d, these are visited.
LEMMA LevelsSeen ==
  ASSUME WalkTypes, RootsInv, ChildrenInv, failed = {}, NEW d \in 0 .. MaxDepth,
         \A i \in 1 .. Len(queue) : ~(queue[i].depth <= d)
  PROVE  Within[d] \subseteq visited
<1>1. MaxDepth \in Nat /\ Len(queue) \in Nat
  BY WalkAssumption DEF WalkTypes
<1>2. queue \in Seq(Entry)
  BY DEF WalkTypes
<1>3. \A i \in 1 .. Len(queue) : queue[i].depth \in Nat
  <2>1. \A i \in 1 .. Len(queue) : queue[i] \in Entry
    BY <1>2
  <2>2. \A x \in Entry : x.depth \in Nat
    BY <1>1 DEF Entry
  <2>3. QED
    BY <2>1, <2>2
<1>4. \A s, k : k \in 0 .. d /\ Covered(s, k) => s \in visited
  BY <1>1, <1>3 DEF Covered, Queued
<1>5. /\ Within[0] = Range(Roots)
      /\ \A k \in Nat \ {0} : Within[k] = Below(Within[k - 1])
  BY WithinLevels DEF WalkTypes
<1> DEFINE Bad == {k \in 0 .. d : ~(Within[k] \subseteq visited)}
<1>6. ASSUME Bad # {} PROVE FALSE
  <2>1. Bad \in SUBSET Nat
    OBVIOUS
  <2>2. PICK k \in Bad : \A j \in Bad : k <= j
    <3> HIDE DEF Bad
    <3> QED
      BY <1>6, <2>1, LeastNumber
  <2>3. k # 0
    <3>1. 0 \in 0 .. d
      OBVIOUS
    <3>2. Within[0] \subseteq visited
      BY <1>4, <1>5, <3>1 DEF RootsInv
    <3>3. QED
      BY <2>2, <3>2
  <2>4. /\ k \in Nat \ {0} /\ k - 1 \in 0 .. d /\ k - 1 \in 0 .. MaxDepth - 1
        /\ ~(k <= k - 1) /\ (k - 1) + 1 = k /\ k \in 0 .. d
    BY <1>1, <2>2, <2>3
  <2>5. Within[k - 1] \subseteq visited
    BY <2>2, <2>4
  <2>6. ASSUME NEW s \in Within[k - 1], NEW c \in Range(children[s])
        PROVE  c \in visited
    <3>1. ChildrenCovered(s, k - 1)
      BY <2>4, <2>5, <2>6 DEF ChildrenInv
    <3>2. Covered(c, k)
      BY <2>4, <2>6, <3>1 DEF ChildrenCovered
    <3>3. QED
      BY <1>4, <2>4, <3>2
  <2>7. Within[k] \subseteq visited
    BY <1>5, <2>4, <2>5, <2>6 DEF Below
  <2>8. QED
    BY <2>2, <2>7
<1>7. d \in 0 .. d
  BY <1>1
<1>8. QED
  BY <1>6, <1>7

\* At first the queue is the list of roots.
LEMMA OrderInvInit == Init => OrderInv
<1> SUFFICES ASSUME Init PROVE OrderInv
  OBVIOUS
<1>1. WalkTypes
  BY FoundInvInit DEF FoundInv
<1>2. /\ Len(Roots) \in Nat /\ DOMAIN Roots = 1 .. Len(Roots)
  BY WalkAssumption
<1>3. queue = [i \in 1 .. Len(Roots) |-> [sitemap |-> Roots[i], depth |-> 0]]
  BY <1>2 DEF Init
<1>4. /\ Len(queue) = Len(Roots)
      /\ \A i \in 1 .. Len(queue) :
           queue[i].depth = 0 /\ queue[i].sitemap = Roots[i]
  <2>1. DOMAIN queue = 1 .. Len(Roots)
    BY <1>3
  <2>2. Len(queue) \in Nat /\ DOMAIN queue = 1 .. Len(queue)
    BY <1>1 DEF WalkTypes
  <2>3. Len(queue) = Len(Roots)
    BY <1>2, <2>1, <2>2
  <2>4. QED
    BY <1>3, <2>3
<1>5. visited = {} /\ failed = {}
  BY DEF Init
<1>6. Range(Roots) = {Roots[i] : i \in 1 .. Len(Roots)}
  BY <1>2 DEF Range
<1>7. SortedInv
  BY <1>4 DEF SortedInv
<1>8. ReachInv
  <2>1. Within[0] = Range(Roots)
    BY <1>1, WithinLevels DEF WalkTypes
  <2>2. QED
    BY <1>4, <1>5, <1>6, <2>1 DEF ReachInv
<1>9. RootsInv
  BY <1>4, <1>6 DEF RootsInv, Covered, Queued
<1>10. ChildrenInv
  BY <1>5 DEF ChildrenInv
<1>11. QED
  BY <1>7, <1>8, <1>9, <1>10 DEF OrderInv

\* Every turn keeps the order.
LEMMA OrderInvStep ==
  ASSUME FoundInv, OrderInv, [Next]_vars
  PROVE  OrderInv'
<1>0. WalkTypes /\ SortedInv /\ ReachInv /\ RootsInv /\ ChildrenInv
  BY DEF FoundInv, OrderInv
<1>1. CASE UNCHANGED vars
  <2>1. Within' = Within
    BY <1>1, WithinStays DEF vars
  <2>2. QED
    BY <1>0, <1>1, <2>1
       DEF vars, OrderInv, SortedInv, ReachInv, RootsInv, ChildrenInv,
           ChildrenCovered, Covered, Queued
<1>2. CASE Next
  <2> DEFINE e == queue[1]
             n == Len(queue) - 1
             m == Len(queue')
  <2>1. /\ e \in Entry
        /\ children' = children
        /\ visited' = visited \union {e.sitemap}
        /\ queue' \in Seq(Entry)
        /\ n <= m
        /\ \A i \in 1 .. n : queue'[i] = queue[i + 1]
        /\ \A i \in 1 .. m : i > n =>
             /\ queue'[i].depth = e.depth + 1
             /\ queue'[i].sitemap \in Range(children[e.sitemap])
        /\ Len(queue) \in Nat \ {0}
    BY <1>0, <1>2, QueueMoves
  <2>2. /\ n \in Nat /\ m \in Nat /\ Len(queue) = n + 1
        /\ 1 \in 1 .. n + 1
        /\ \A i \in 1 .. n : i + 1 \in 1 .. n + 1
        /\ \A i \in 1 .. m : i > n \/ i \in 1 .. n
    BY <2>1
  <2>3. /\ e.sitemap \in Sitemap /\ e.depth \in 0 .. MaxDepth
        /\ MaxDepth \in Nat
    BY <2>1, WalkAssumption DEF Entry
  <2>4. \A i \in 1 .. n + 1 : queue[i].depth \in Nat
    <3>1. \A i \in 1 .. n + 1 : queue[i] \in Entry
      BY <1>0, <2>2 DEF WalkTypes
    <3>2. \A x \in Entry : x.depth \in Nat
      BY <2>3 DEF Entry
    <3>3. QED
      BY <3>1, <3>2
  <2>5. /\ \A i, k \in 1 .. n + 1 : i <= k =>
             /\ queue[i].depth <= queue[k].depth
             /\ queue[k].depth <= queue[i].depth + 1
        /\ \A i \in 1 .. n + 1 :
             e.depth <= queue[i].depth /\ queue[i].depth <= e.depth + 1
    <3>1. \A i, k \in 1 .. n + 1 : i <= k =>
             /\ queue[i].depth <= queue[k].depth
             /\ queue[k].depth <= queue[i].depth + 1
      BY <1>0, <2>2 DEF SortedInv
    <3>2. \A i \in 1 .. n + 1 : 1 <= i
      BY <2>2
    <3>3. QED
      BY <2>2, <3>1, <3>2
  <2>6. Within' = Within
    BY <2>1, WithinStays
  <2>7. /\ \A d \in Nat : Within[d] \union
                 UNION {Range(children[s]) : s \in Within[d]}
                   \subseteq Within[d + 1]
        /\ \A d \in 0 .. MaxDepth : Within[d] \subseteq Within[MaxDepth]
        /\ Within[0] = Range(Roots)
    <3>1. children \in [Sitemap -> Seq(Sitemap)]
      BY <1>0 DEF WalkTypes
    <3>2. \A d \in Nat : d + 1 \in Nat \ {0} /\ (d + 1) - 1 = d
      OBVIOUS
    <3>3. \A d \in Nat : Within[d + 1] = Below(Within[d])
      <4>1. \A d \in Nat \ {0} : Within[d] = Below(Within[d - 1])
        BY <3>1, WithinLevels
      <4>2. SUFFICES ASSUME NEW d \in Nat PROVE Within[d + 1] = Below(Within[d])
        OBVIOUS
      <4>3. Within[d + 1] = Below(Within[(d + 1) - 1])
        BY <3>2, <4>1
      <4>4. QED
        BY <3>2, <4>3
    <3>4. \A d \in 0 .. MaxDepth : Within[d] \subseteq Within[MaxDepth]
      <4>1. SUFFICES ASSUME NEW d \in 0 .. MaxDepth
                     PROVE  Within[d] \subseteq Within[MaxDepth]
        OBVIOUS
      <4>2. d \in Nat /\ d <= MaxDepth
        BY <2>3
      <4>3. QED
        BY <2>3, <3>1, <4>2, WithinGrows
    <3>5. QED
      BY <3>1, <3>3, <3>4, WithinLevels DEF Below
  <2>8. e.sitemap \in Within[e.depth]
    BY <1>0, <2>2 DEF ReachInv
  <2> HIDE DEF e, n, m
  <2>9. SortedInv'
    <3>1. ASSUME NEW i \in 1 .. m, NEW k \in 1 .. m, i <= k
          PROVE  /\ queue'[i].depth <= queue'[k].depth
                 /\ queue'[k].depth <= queue'[i].depth + 1
      <4>1. e.depth \in Nat
        BY <2>3
      <4>2. CASE k \in 1 .. n
        <5>1. i \in 1 .. n /\ i + 1 <= k + 1
          BY <2>2, <3>1, <4>2
        <5>2. QED
          BY <2>1, <2>2, <2>5, <4>2, <5>1
      <4>3. CASE i \in 1 .. n /\ k > n
        <5>1. queue'[i] = queue[i + 1] /\ queue'[k].depth = e.depth + 1
          BY <2>1, <4>3
        <5>2. /\ queue[i + 1].depth \in Nat
              /\ e.depth <= queue[i + 1].depth
              /\ queue[i + 1].depth <= e.depth + 1
          BY <2>2, <2>4, <2>5, <4>3
        <5>3. QED
          BY <4>1, <5>1, <5>2
      <4>4. CASE i > n
        <5>1. k > n
          BY <2>2, <3>1, <4>4
        <5>2. QED
          BY <2>1, <4>1, <4>4, <5>1
      <4>5. QED
        BY <2>2, <4>2, <4>3, <4>4
    <3>2. QED
      BY <3>1 DEF SortedInv, m
  <2>10. ReachInv'
    <3>1. visited' \subseteq Within[MaxDepth]
      BY <1>0, <2>1, <2>3, <2>7, <2>8 DEF ReachInv
    <3>2. ASSUME NEW i \in 1 .. m
          PROVE  queue'[i].sitemap \in Within[queue'[i].depth]
      <4>1. CASE i > n
        <5>1. /\ queue'[i].depth = e.depth + 1 /\ e.depth \in Nat
              /\ queue'[i].sitemap \in Range(children[e.sitemap])
          BY <2>1, <2>3, <4>1
        <5>2. queue'[i].sitemap \in Within[e.depth + 1]
          BY <2>7, <2>8, <5>1
        <5>3. QED
          BY <5>1, <5>2
      <4>2. CASE i \in 1 .. n
        <5>1. queue[i + 1].sitemap \in Within[queue[i + 1].depth]
          BY <1>0, <2>2, <4>2 DEF ReachInv
        <5>2. QED
          BY <2>1, <4>2, <5>1
      <4>3. QED
        BY <2>2, <4>1, <4>2
    <3>3. QED
      BY <2>6, <3>1, <3>2 DEF ReachInv, m
  <2>11. RootsInv'
    <3>1. \A s \in Range(Roots) : Covered(s, 0)'
      BY <1>0, <1>2, CoveredStays DEF RootsInv
    <3>2. QED
      BY <3>1 DEF RootsInv
  <2>12. ASSUME NEW s \in visited' \ failed', NEW d \in 0 .. MaxDepth - 1,
                failed' = {} \/ d = 0, s \in Within[d]
         PROVE  ChildrenCovered(s, d)'
    <3>1. \/ failed' = failed
          \/ failed' = failed \union {e.sitemap} /\ e.sitemap \in failed'
      BY <1>0, <1>2, Turns DEF SkipTurn, FetchTurn, FailTurn, e
    <3>2. d \in Nat /\ d + 1 \in Nat /\ d \in 0 .. MaxDepth
      BY <2>3
    <3>3. CASE s \in visited
      <4>1. s \notin failed /\ (failed = {} \/ d = 0)
        BY <2>12, <3>1
      <4>2. ChildrenCovered(s, d)
        BY <1>0, <2>12, <3>3, <4>1 DEF ChildrenInv
      <4>3. \A c \in Range(children[s]) : Covered(c, d + 1)'
        <5>1. SUFFICES ASSUME NEW c \in Range(children[s])
                       PROVE  Covered(c, d + 1)'
          OBVIOUS
        <5>2. Covered(c, d + 1)
          BY <4>2 DEF ChildrenCovered
        <5>3. QED
          BY <1>0, <1>2, <3>2, <5>2, CoveredStays
      <4>4. QED
        BY <2>1, <4>3 DEF ChildrenCovered
    <3>4. CASE s \notin visited
      <4>1. s = e.sitemap
        BY <2>1, <2>12, <3>4
      <4>2. failed' = failed /\ FetchTurn(e)
        <5>1. s \notin failed'
          BY <2>12
        <5>2. SkipTurn(e) \/ FetchTurn(e) \/ FailTurn(e)
          BY <1>0, <1>2, Turns DEF e
        <5>3. ~SkipTurn(e) /\ ~FailTurn(e)
          BY <3>4, <4>1, <5>1 DEF SkipTurn, FailTurn
        <5>4. QED
          BY <5>2, <5>3 DEF FetchTurn
      <4>3. e.depth <= d
        <5>1. CASE d = 0
          <6>1. Queued(s, 0)
            BY <1>0, <2>7, <2>12, <3>4, <5>1 DEF RootsInv, Covered
          <6>2. PICK i \in 1 .. n + 1 : queue[i].depth <= 0
            BY <2>2, <6>1 DEF Queued
          <6>3. QED
            BY <2>3, <2>4, <2>5, <5>1, <6>2
        <5>2. CASE failed = {}
          <6>1. ~(Within[d] \subseteq visited)
            BY <2>12, <3>4
          <6>2. PICK i \in 1 .. Len(queue) : queue[i].depth <= d
            BY <1>0, <3>2, <5>2, <6>1, LevelsSeen
          <6>3. /\ queue[i].depth \in Nat /\ e.depth <= queue[i].depth
                /\ e.depth \in Nat
            BY <2>2, <2>3, <2>4, <2>5, <6>2
          <6>4. QED
            BY <3>2, <6>2, <6>3
        <5>3. QED
          BY <2>12, <4>2, <5>1, <5>2
      <4>4. e.depth < MaxDepth /\ e.depth + 1 <= d + 1
        BY <2>3, <3>2, <4>3
      <4>5. ASSUME NEW c \in Range(children[s])
            PROVE  Covered(c, d + 1)'
        <5>1. CASE c \in visited'
          BY <5>1 DEF Covered
        <5>2. CASE c \notin visited'
          <6>1. /\ Rest \in Seq(Entry)
                /\ children[e.sitemap] \in Seq(Sitemap)
            BY <1>0, <1>2, <2>3, Turns, TakenOff DEF WalkTypes
          <6>2. queue' = AddChildren(Rest, children[e.sitemap], visited', e.depth)
            BY <4>2 DEF FetchTurn
          <6>3. PICK i \in 1 .. Len(queue') :
                  queue'[i].sitemap = c /\ queue'[i].depth = e.depth + 1
            BY <2>3, <4>1, <4>4, <4>5, <5>2, <6>1, <6>2, AddChildrenQueues
          <6>4. Queued(c, d + 1)'
            BY <4>4, <6>3 DEF Queued
          <6>5. QED
            BY <6>4 DEF Covered
        <5>3. QED
          BY <5>1, <5>2
      <4>6. QED
        BY <2>1, <4>5 DEF ChildrenCovered
    <3>5. QED
      BY <3>3, <3>4
  <2>13. ChildrenInv'
    <3>1. \A s \in visited' \ failed', d \in 0 .. MaxDepth - 1 :
            (failed' = {} \/ d = 0) /\ s \in Within'[d] => ChildrenCovered(s, d)'
      BY <2>6, <2>12
    <3>2. QED
      BY <3>1 DEF ChildrenInv
  <2>14. QED
    BY <2>9, <2>10, <2>11, <2>13 DEF OrderInv
<1>3. QED
  BY <1>1, <1>2

\* So the order holds throughout the walk.
LEMMA OrderInvAlways == Spec => []OrderInv
<1>1. FoundInv /\ FoundInv' /\ OrderInv /\ [Next]_vars => OrderInv'
  BY OrderInvStep
<1>2. QED
  BY <1>1, OrderInvInit, FoundInvAlways, PTL DEF Spec

\* Whatever the site, a walk that no failure and no limit of pages cuts short
\* visits exactly the sitemaps within MaxDepth levels of the roots, and finds
\* exactly the pages in scope that they list.
THEOREM WalkCompleteAlways == Spec => []WalkComplete
<1>1. FoundInv /\ OrderInv => WalkComplete
  <2> SUFFICES ASSUME FoundInv, OrderInv, queue = <<>>, failed = {},
                      Len(discovered) < MaxUrls
               PROVE  /\ visited = Within[MaxDepth]
                      /\ Range(discovered) =
                           {p \in UNION {Range(Pages[s]) : s \in visited} :
                              InScope(p)}
    BY DEF WalkComplete
  <2>1. MaxDepth \in 0 .. MaxDepth /\ \A i \in 1 .. Len(queue) : FALSE
    BY WalkAssumption
  <2>2. Within[MaxDepth] \subseteq visited
    BY <2>1, LevelsSeen DEF FoundInv, OrderInv
  <2>3. visited \subseteq Within[MaxDepth]
    BY DEF OrderInv, ReachInv
  <2>4. \A s \in visited :
          {p \in Range(Pages[s]) : InScope(p)} \subseteq Range(discovered)
    BY DEF FoundInv, PagesInv
  <2>5. \A p \in Range(discovered) :
          InScope(p) /\ \E s \in visited : p \in Range(Pages[s])
    BY DEF FoundInv, PagesInv
  <2>6. QED
    BY <2>2, <2>3, <2>4, <2>5
<1>2. QED
  BY <1>1, FoundInvAlways, OrderInvAlways, PTL

\* Whichever fetches fail, a root that did not fail has handed on its pages and
\* its children by the end of the walk, unless the limit of pages was reached.
THEOREM FailureContainedAlways == Spec => []FailureContained
<1>1. FoundInv /\ OrderInv => FailureContained
  <2> SUFFICES ASSUME FoundInv, OrderInv, queue = <<>>,
                      Len(discovered) < MaxUrls,
                      NEW s \in Range(Roots) \ failed
               PROVE  /\ {p \in Range(Pages[s]) : InScope(p)}
                           \subseteq Range(discovered)
                      /\ MaxDepth > 0 => Range(children[s]) \subseteq visited
    BY DEF FailureContained
  <2>1. \A c, d : Covered(c, d) => c \in visited
    BY DEF Covered, Queued
  <2>2. s \in visited \ failed
    BY <2>1 DEF OrderInv, RootsInv
  <2>3. {p \in Range(Pages[s]) : InScope(p)} \subseteq Range(discovered)
    BY <2>2 DEF FoundInv, PagesInv
  <2>4. ASSUME MaxDepth > 0 PROVE Range(children[s]) \subseteq visited
    <3>1. 0 \in 0 .. MaxDepth - 1
      BY <2>4, WalkAssumption
    <3>2. s \in Within[0]
      BY WithinLevels DEF FoundInv, WalkTypes
    <3>3. ChildrenCovered(s, 0)
      BY <2>2, <3>1, <3>2 DEF OrderInv, ChildrenInv
    <3>4. QED
      BY <2>1, <3>3 DEF ChildrenCovered
  <2>5. QED
    BY <2>3, <2>4
<1>2. QED
  BY <1>1, FoundInvAlways, OrderInvAlways, PTL
=============================================================================
