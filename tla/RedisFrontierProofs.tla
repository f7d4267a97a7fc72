------------------------ MODULE RedisFrontierProofs ------------------------
(***************************************************************************)
(* Proofs about RedisFrontier, for every number of workers, every site,    *)
(* every depth and every number of failing commands.                       *)
(***************************************************************************)
EXTENDS RedisFrontier, FiniteSetTheorems, TLAPS

-----------------------------------------------------------------------------
(***************************************************************************)
(* Types.                                                                  *)
(***************************************************************************)

\* The commands of push.
Pushing == {"inVisited", "inEnqueued", "add"}

\* Only links of pages above the last level are pushed.
PushInv == \A w \in Worker : pc[w] \in Pushing => entry[w].depth < MaxDepth

\* Whether a command raises or answers, the counter of errors keeps its type.
LEMMA ErrorsType ==
  ASSUME TypeOK
  PROVE  /\ errors \in Nat
         /\ Answers => errors' \in 0 .. MaxErrors /\ errors' = errors
         /\ Raises => errors' \in 0 .. MaxErrors /\ errors' = errors + 1
BY FrontierAssumption DEF TypeOK, Answers, Raises

\* Going on to the next link keeps the types.
LEMMA NextLinkType ==
  ASSUME TypeOK, NEW w \in Worker, NEW rest \in SUBSET Url, NextLink(w, rest)
  PROVE  /\ pc' \in [Worker -> Command] /\ links' \in [Worker -> SUBSET Url]
         /\ link' \in [Worker -> Url] /\ offered' \subseteq Url
         /\ \A v \in Worker \ {w} : pc'[v] = pc[v] /\ link'[v] = link[v]
         /\ \/ rest = {} /\ pc'[w] = "zpopmax" /\ UNCHANGED <<link, offered>>
            \/ /\ rest # {} /\ pc'[w] = "inVisited"
               /\ offered' = offered \union {link'[w]}
<1>1. links' \in [Worker -> SUBSET Url]
  BY DEF NextLink, TypeOK
<1>2. CASE rest = {}
  BY <1>1, <1>2 DEF NextLink, GoTo, TypeOK, Command
<1>3. CASE rest # {}
  <2>1. PICK u \in rest : /\ link' = [link EXCEPT ![w] = u]
                          /\ offered' = offered \union {u}
                          /\ pc' = [pc EXCEPT ![w] = "inVisited"]
    BY <1>3 DEF NextLink, GoTo
  <2>2. QED
    BY <1>1, <1>3, <2>1 DEF TypeOK, Command
<1>4. QED
  BY <1>2, <1>3

\* So does dropping the current link.
LEMMA DroppedType ==
  ASSUME TypeOK, NEW w \in Worker, Dropped(w)
  PROVE  /\ pc' \in [Worker -> Command] /\ links' \in [Worker -> SUBSET Url]
         /\ link' \in [Worker -> Url] /\ offered' \subseteq Url
         /\ \A v \in Worker \ {w} : pc'[v] = pc[v] /\ link'[v] = link[v]
         /\ \/ pc'[w] = "zpopmax" /\ UNCHANGED <<link, offered>>
            \/ pc'[w] = "inVisited" /\ offered' = offered \union {link'[w]}
<1>1. links[w] \ {link[w]} \in SUBSET Url
  BY DEF TypeOK
<1>2. QED
  BY <1>1, NextLinkType DEF Dropped

\* There are finitely many seeds.
LEMMA SeedFinite == IsFiniteSet(Seed)
<1> DEFINE listed == {[url |-> u, depth |-> 1] : u \in SitemapUrls \ {StartUrl}}
<1>1. IsFiniteSet(SitemapUrls \ {StartUrl})
  BY FrontierAssumption, FS_Subset
<1>2. IsFiniteSet(listed)
  <2> DEFINE f == [u \in SitemapUrls \ {StartUrl} |-> [url |-> u, depth |-> 1]]
  <2>1. f \in Surjection(SitemapUrls \ {StartUrl}, listed)
    BY DEF Surjection
  <2>2. QED
    BY <1>1, <2>1, FS_Surjection
<1>3. IsFiniteSet({[url |-> StartUrl, depth |-> 0]})
  BY FS_Singleton
<1>4. QED
  BY <1>2, <1>3, FS_Union DEF Seed

\* As many pushes of seeds have raised as there are errors; with none, the
\* queue holds every seed.
LEMMA SeedsLost ==
  ASSUME Init
  PROVE  /\ errors \in 0 .. MaxErrors /\ zset \subseteq Seed
         /\ errors = 0 => zset = Seed
<1>1. PICK raised \in SUBSET Seed : \E missing \in SUBSET raised :
        /\ errors = Cardinality(raised) /\ errors <= MaxErrors
        /\ zset = Seed \ missing
  BY DEF Init
<1>2. PICK missing \in SUBSET raised :
        /\ errors = Cardinality(raised) /\ errors <= MaxErrors
        /\ zset = Seed \ missing
  BY <1>1
<1>3. IsFiniteSet(raised) /\ Cardinality(raised) \in Nat
  BY SeedFinite, FS_Subset, FS_CardinalityType
<1>4. errors = 0 => missing = {}
  BY <1>2, <1>3, FS_EmptySet
<1>5. QED
  BY <1>2, <1>3, <1>4, FrontierAssumption

\* The initial states and every step keep the types.
LEMMA TypeInit == Init => TypeOK /\ PushInv
<1> SUFFICES ASSUME Init PROVE TypeOK /\ PushInv
  OBVIOUS
<1>1. Seed \subseteq Member
  BY FrontierAssumption DEF Seed, Member, Depth
<1>2. errors \in 0 .. MaxErrors /\ zset \subseteq Seed
  BY SeedsLost
<1>3. TypeOK
  <2>1. zset \subseteq Member /\ enqueued \subseteq Url /\ offered \subseteq Url
    BY <1>1, <1>2 DEF Init, Member
  <2>2. [url |-> StartUrl, depth |-> 0] \in Member
    BY FrontierAssumption DEF Member, Depth
  <2>3. QED
    BY <1>2, <2>1, <2>2, FrontierAssumption DEF Init, TypeOK, Command
<1>4. PushInv
  BY DEF Init, PushInv, Pushing
<1>5. QED
  BY <1>3, <1>4

\* Every step keeps the types and the depth of what is pushed.
LEMMA TypeStep == TypeOK /\ PushInv /\ [Next]_vars => TypeOK' /\ PushInv'
<1> SUFFICES ASSUME TypeOK, PushInv, [Next]_vars PROVE TypeOK' /\ PushInv'
  OBVIOUS
<1>1. CASE UNCHANGED vars
  BY <1>1 DEF vars, TypeOK, PushInv
<1>2. ASSUME NEW w \in Worker, Zpopmax(w) PROVE TypeOK' /\ PushInv'
  <2>1. /\ pc[w] = "zpopmax"
        /\ UNCHANGED <<enqueued, visited, links, link, fetches, offered>>
        /\ errors' \in 0 .. MaxErrors
        /\ zset' \subseteq zset
        /\ \/ UNCHANGED <<entry, pc>>
           \/ \E m \in zset : /\ entry' = [entry EXCEPT ![w] = m]
                              /\ pc' = [pc EXCEPT ![w] = "srem"]
    BY <1>2, ErrorsType DEF Zpopmax, GoTo
  <2>2. TypeOK'
    BY <2>1 DEF TypeOK, Command
  <2>3. PushInv'
    BY <2>1 DEF TypeOK, PushInv, Pushing
  <2>4. QED
    BY <2>2, <2>3
<1>3. ASSUME NEW w \in Worker, Srem(w) \/ IsVisited(w) \/ MarkVisited(w)
      PROVE  TypeOK' /\ PushInv'
  <2>1. /\ UNCHANGED <<zset, entry, links, link, fetches, offered>>
        /\ errors' \in 0 .. MaxErrors
        /\ \E c \in {"isVisited", "zpopmax", "markVisited", "fetch"} :
             pc' = [pc EXCEPT ![w] = c]
    BY <1>3, ErrorsType DEF Srem, IsVisited, MarkVisited, GoTo, redisVars
  <2>2. enqueued' \subseteq enqueued
    BY <1>3 DEF Srem, IsVisited, MarkVisited, redisVars
  <2>3. visited' \subseteq Url
    BY <1>3 DEF Srem, IsVisited, MarkVisited, redisVars, Marked, TypeOK, Member
  <2>4. TypeOK'
    BY <2>1, <2>2, <2>3 DEF TypeOK, Command
  <2>5. PushInv'
    BY <2>1 DEF TypeOK, PushInv, Pushing
  <2>6. QED
    BY <2>4, <2>5
<1>4. ASSUME NEW w \in Worker, Fetch(w) PROVE TypeOK' /\ PushInv'
  <2>1. /\ fetches' = [fetches EXCEPT ![entry[w].url] = @ + 1]
        /\ UNCHANGED <<zset, enqueued, visited, entry, errors>>
    BY <1>4 DEF Fetch, redisVars
  <2>2. fetches' \in [Url -> Nat]
    <3>1. fetches \in [Url -> Nat] /\ entry[w].url \in Url
      BY DEF TypeOK, Member
    <3>2. QED
      BY <2>1, <3>1
  <2>3. PICK found \in {{}, Links[entry[w].url]} :
          NextLink(w, Followed(w, found))
    BY <1>4 DEF Fetch
  <2>4. entry[w].url \in Url
    BY DEF TypeOK, Member
  <2>5. Followed(w, found) \in SUBSET Url
    BY <2>3, <2>4, FrontierAssumption DEF Followed
  <2>6. TypeOK'
    BY <2>1, <2>2, <2>3, <2>5, NextLinkType DEF TypeOK
  <2>7. pc'[w] = "inVisited" => entry[w].depth < MaxDepth
    BY <2>3, <2>5, NextLinkType DEF Followed
  <2>8. pc'[w] \in {"zpopmax", "inVisited"}
        /\ \A v \in Worker \ {w} : pc'[v] = pc[v]
    BY <2>3, <2>5, NextLinkType
  <2>9. PushInv'
    BY <2>1, <2>7, <2>8 DEF PushInv, Pushing
  <2>10. QED
    BY <2>6, <2>9
<1>5. ASSUME NEW w \in Worker, InVisited(w) \/ InEnqueued(w)
      PROVE  TypeOK' /\ PushInv'
  <2>1. /\ UNCHANGED <<zset, enqueued, visited, entry, fetches>>
        /\ errors' \in 0 .. MaxErrors /\ pc[w] \in Pushing
        /\ \/ Dropped(w)
           \/ /\ \E c \in {"inEnqueued", "add"} : pc' = [pc EXCEPT ![w] = c]
              /\ UNCHANGED <<links, link, offered>>
    BY <1>5, ErrorsType DEF InVisited, InEnqueued, GoTo, redisVars, Pushing
  <2>2. TypeOK'
    BY <2>1, DroppedType DEF TypeOK, Command
  <2>3. \A v \in Worker \ {w} : pc'[v] = pc[v]
    BY <2>1, DroppedType DEF TypeOK
  <2>4. PushInv'
    BY <2>1, <2>3 DEF PushInv
  <2>5. QED
    BY <2>2, <2>4
<1>6. ASSUME NEW w \in Worker, Add(w) PROVE TypeOK' /\ PushInv'
  <2>1. /\ UNCHANGED <<visited, entry, fetches>> /\ Dropped(w)
        /\ errors' \in 0 .. MaxErrors /\ pc[w] \in Pushing
        /\ zset' \subseteq zset \union Pushed(w)
        /\ enqueued' \subseteq enqueued \union {link[w]}
    BY <1>6, ErrorsType DEF Add, Pushing
  <2>2. Pushed(w) \subseteq Member
    <3>1. entry[w].depth < MaxDepth /\ entry[w].depth \in Depth /\ link[w] \in Url
      BY <2>1 DEF PushInv, TypeOK, Member
    <3>2. entry[w].depth + 1 \in Depth
      BY <3>1, FrontierAssumption DEF Depth
    <3>3. QED
      BY <3>1, <3>2 DEF Pushed, Member
  <2>3. TypeOK'
    BY <2>1, <2>2, DroppedType DEF TypeOK
  <2>4. PushInv'
    BY <2>1, DroppedType DEF PushInv
  <2>5. QED
    BY <2>3, <2>4
<1>7. QED
  BY <1>1, <1>2, <1>3, <1>4, <1>5, <1>6 DEF Next, WorkerStep

\* So they hold in every reachable state.
LEMMA TypeAndPush == Spec => [](TypeOK /\ PushInv)
<1> QED
  BY TypeInit, TypeStep, PTL DEF Spec

\* Every variable keeps its type; in particular no member of the queue is
\* deeper than max_depth, whatever the workers push at the same time.
THEOREM TypeCorrect == Spec => []TypeOK
<1> QED
  BY TypeAndPush, PTL

-----------------------------------------------------------------------------
(***************************************************************************)
(* Duplicate fetches.                                                      *)
(***************************************************************************)

\* The workers at one of the commands in cs with an entry for u.
At(cs, u) == {w \in Worker : pc[w] \in cs /\ entry[w].url = u}

\* 1 if the worker w is one of them.
Share(cs, u, w) == IF pc[w] \in cs /\ entry[w].url = u THEN 1 ELSE 0

\* Sets of workers are finite.
LEMMA AtFinite ==
  ASSUME NEW cs, NEW u
  PROVE  /\ IsFiniteSet(At(cs, u)) /\ Cardinality(At(cs, u)) \in Nat
         /\ Cardinality(Worker) \in Nat
         /\ Cardinality(At(cs, u)) <= Cardinality(Worker)
BY FrontierAssumption, FS_Subset, FS_CardinalityType DEF At

\* If the workers of S are those of T and some more, they are at most all
\* workers more.
LEMMA AtMostAllMore ==
  ASSUME NEW S \in SUBSET Worker, NEW T \in SUBSET S
  PROVE  /\ Cardinality(T) \in Nat /\ Cardinality(S) \in Nat
         /\ Cardinality(S) <= Cardinality(T) + Cardinality(Worker)
<1>1. IsFiniteSet(S) /\ IsFiniteSet(T) /\ Cardinality(S) <= Cardinality(Worker)
  BY FrontierAssumption, FS_Subset
<1>2. /\ Cardinality(S) \in Nat /\ Cardinality(T) \in Nat
      /\ Cardinality(Worker) \in Nat
  BY <1>1, FrontierAssumption, FS_CardinalityType
<1>3. QED
  BY <1>1, <1>2

\* When only w moves, the workers of a set become one more, one fewer, or as
\* many.
LEMMA AtMoved ==
  ASSUME NEW cs, NEW u, NEW w \in Worker,
         \A v \in Worker \ {w} : pc'[v] = pc[v] /\ entry'[v] = entry[v]
  PROVE  /\ Share(cs, u, w) \in {0, 1} /\ Share(cs, u, w)' \in {0, 1}
         /\ Cardinality(At(cs, u)') =
              Cardinality(At(cs, u)) + Share(cs, u, w)' - Share(cs, u, w)
<1>1. IsFiniteSet(At(cs, u)) /\ Cardinality(At(cs, u)) \in Nat
  BY AtFinite
<1>2. /\ w \in At(cs, u) <=> Share(cs, u, w) = 1
      /\ w \notin At(cs, u) <=> Share(cs, u, w) = 0
      /\ Share(cs, u, w) \in {0, 1} /\ Share(cs, u, w)' \in {0, 1}
  BY DEF At, Share
<1>3. CASE Share(cs, u, w)' = 1
  <2>1. At(cs, u)' = At(cs, u) \union {w}
    BY <1>3 DEF At, Share
  <2>2. Cardinality(At(cs, u) \union {w}) =
          IF w \in At(cs, u) THEN Cardinality(At(cs, u))
                             ELSE Cardinality(At(cs, u)) + 1
    BY <1>1, FS_AddElement
  <2>3. QED
    BY <1>1, <1>2, <1>3, <2>1, <2>2
<1>4. CASE Share(cs, u, w)' = 0
  <2>1. At(cs, u)' = At(cs, u) \ {w}
    BY <1>4 DEF At, Share
  <2>2. Cardinality(At(cs, u) \ {w}) =
          IF w \in At(cs, u) THEN Cardinality(At(cs, u)) - 1
                             ELSE Cardinality(At(cs, u))
    BY <1>1, FS_RemoveElement
  <2>3. QED
    BY <1>1, <1>2, <1>4, <2>1, <2>2
<1>5. QED
  BY <1>2, <1>3, <1>4

\* The strengthening of DuplicateFetchesBounded that is inductive: while a URL
\* is not marked, each fetch of it, begun or done, has cost an error.
UnmarkedInv ==
  \A u \in Url \ visited :
    fetches[u] + Cardinality(At({"fetch"}, u)) <= errors

\* What a step of w does to the counts of u: n fetches of u more, e errors
\* more; a and f say whether w is about to fetch u, tested and marked.
CountStep(w, u) ==
  LET a == Share({"markVisited", "fetch"}, u, w)
      f == Share({"fetch"}, u, w)
      n == fetches'[u] - fetches[u]
      e == errors' - errors
  IN /\ n \in {0, 1} /\ e \in {0, 1}
     /\ \A v \in Worker \ {w} : pc'[v] = pc[v] /\ entry'[v] = entry[v]
     /\ u \in visited => u \in visited' /\ n + a' - a <= e
     /\ u \notin visited' => n + f' - f <= e
     /\ u \notin visited /\ u \in visited' => n + a' - a <= 0

\* Every step of w is a CountStep for every URL.
LEMMA CountSteps ==
  ASSUME TypeOK, PushInv, NEW w \in Worker, WorkerStep(w), NEW u \in Url
  PROVE  CountStep(w, u)
<1>1. /\ errors \in Nat
      /\ Answers => errors' = errors
      /\ Raises => errors' = errors + 1
  BY ErrorsType
<1>2. /\ fetches[u] \in Nat /\ entry[w].url \in Url
      /\ pc \in [Worker -> Command] /\ entry \in [Worker -> Member]
  BY DEF TypeOK, Member
<1>3. CASE /\ UNCHANGED <<fetches, visited>>
           /\ errors' = errors \/ errors' = errors + 1
           /\ \A v \in Worker \ {w} : pc'[v] = pc[v] /\ entry'[v] = entry[v]
           /\ pc[w] \notin {"markVisited", "fetch"}
           /\ pc'[w] \notin {"markVisited", "fetch"}
  BY <1>1, <1>2, <1>3 DEF CountStep, Share
<1>4. CASE Zpopmax(w)
  <2>1. /\ \A v \in Worker \ {w} : pc'[v] = pc[v] /\ entry'[v] = entry[v]
        /\ pc'[w] \in {"srem", "zpopmax"}
    BY <1>2, <1>4 DEF Zpopmax, GoTo
  <2>2. QED
    BY <1>1, <1>3, <1>4, <2>1 DEF Zpopmax
<1>5. CASE Srem(w)
  <2>1. /\ \A v \in Worker \ {w} : pc'[v] = pc[v] /\ entry'[v] = entry[v]
        /\ pc'[w] \in {"isVisited", "zpopmax"}
    BY <1>2, <1>5 DEF Srem, GoTo
  <2>2. QED
    BY <1>1, <1>3, <1>5, <2>1 DEF Srem
<1>6. CASE IsVisited(w)
  <2>1. /\ \A v \in Worker \ {w} : pc'[v] = pc[v]
        /\ UNCHANGED <<visited, entry, fetches>> /\ pc[w] = "isVisited"
        /\ \/ pc'[w] = "zpopmax" /\ errors' = errors
           \/ /\ pc'[w] = "markVisited" /\ errors' = errors
              /\ entry[w].url \notin visited
           \/ pc'[w] = "markVisited" /\ errors' = errors + 1
    BY <1>1, <1>2, <1>6 DEF IsVisited, GoTo, Skips, redisVars
  <2>2. QED
    BY <1>1, <1>2, <2>1 DEF CountStep, Share
<1>7. CASE MarkVisited(w)
  <2>1. /\ \A v \in Worker \ {w} : pc'[v] = pc[v]
        /\ UNCHANGED <<entry, fetches>>
        /\ pc[w] = "markVisited" /\ pc'[w] = "fetch"
        /\ \/ /\ visited' = visited \union {entry[w].url}
              /\ errors' = errors \/ errors' = errors + 1
           \/ visited' = visited /\ errors' = errors + 1
    BY <1>1, <1>2, <1>7 DEF MarkVisited, Marked, GoTo
  <2>2. QED
    BY <1>1, <1>2, <2>1 DEF CountStep, Share
<1>8. CASE Fetch(w)
  <2>1. /\ fetches' = [fetches EXCEPT ![entry[w].url] = @ + 1]
        /\ UNCHANGED <<visited, entry, errors>> /\ pc[w] = "fetch"
    BY <1>8 DEF Fetch, redisVars
  <2>2. PICK found \in {{}, Links[entry[w].url]} :
          NextLink(w, Followed(w, found))
    BY <1>8 DEF Fetch
  <2>3. Followed(w, found) \in SUBSET Url
    BY <1>2, <2>2, FrontierAssumption DEF Followed
  <2>4. pc'[w] \in {"zpopmax", "inVisited"}
        /\ \A v \in Worker \ {w} : pc'[v] = pc[v]
    BY <2>2, <2>3, NextLinkType
  <2>5. fetches'[u] = fetches[u] + (IF entry[w].url = u THEN 1 ELSE 0)
    BY <1>2, <2>1 DEF TypeOK
  <2>6. QED
    BY <1>1, <1>2, <2>1, <2>4, <2>5 DEF CountStep, Share
<1>9. CASE InVisited(w) \/ InEnqueued(w) \/ Add(w)
  <2>1. /\ pc[w] \in Pushing /\ UNCHANGED <<visited, entry, fetches>>
        /\ errors' = errors \/ errors' = errors + 1
    BY <1>1, <1>9 DEF InVisited, InEnqueued, Add, Pushing, redisVars
  <2>2. \/ Dropped(w)
        \/ \E c \in {"inEnqueued", "add"} : pc' = [pc EXCEPT ![w] = c]
    BY <1>9 DEF InVisited, InEnqueued, Add, GoTo
  <2>3. pc'[w] \in {"zpopmax", "inVisited", "inEnqueued", "add"}
        /\ \A v \in Worker \ {w} : pc'[v] = pc[v]
    BY <1>2, <2>2, DroppedType
  <2>4. QED
    BY <1>3, <2>1, <2>3 DEF Pushing
<1>10. QED
  BY <1>4, <1>5, <1>6, <1>7, <1>8, <1>9 DEF WorkerStep

\* Every step keeps UnmarkedInv and DuplicateFetchesBounded.
LEMMA DuplicateFetchesStep ==
  TypeOK /\ PushInv /\ UnmarkedInv /\ DuplicateFetchesBounded /\ [Next]_vars
    => UnmarkedInv' /\ DuplicateFetchesBounded'
<1> SUFFICES ASSUME TypeOK, PushInv, UnmarkedInv, DuplicateFetchesBounded,
                    [Next]_vars
             PROVE  UnmarkedInv' /\ DuplicateFetchesBounded'
  OBVIOUS
<1>1. CASE UNCHANGED vars
  BY <1>1 DEF vars, UnmarkedInv, At, DuplicateFetchesBounded, Fetchers
<1>2. ASSUME NEW w \in Worker, WorkerStep(w), NEW u \in Url
      PROVE  /\ u \notin visited' =>
                  fetches'[u] + Cardinality(At({"fetch"}, u)') <= errors'
             /\ fetches'[u] + Cardinality(Fetchers(u)')
                  <= Cardinality(Worker) + errors'
  <2> DEFINE a == Share({"markVisited", "fetch"}, u, w)
             f == Share({"fetch"}, u, w)
             about == Cardinality(At({"markVisited", "fetch"}, u))
             sent == Cardinality(At({"fetch"}, u))
             all == Cardinality(Worker)
             n == fetches'[u] - fetches[u]
             e == errors' - errors
  <2>1. CountStep(w, u)
    BY <1>2, CountSteps
  <2>2. \A v \in Worker \ {w} : pc'[v] = pc[v] /\ entry'[v] = entry[v]
    BY <2>1 DEF CountStep
  <2>3. /\ about' = about + a' - a /\ a \in {0, 1} /\ a' \in {0, 1}
        /\ sent' = sent + f' - f /\ f \in {0, 1} /\ f' \in {0, 1}
    BY <2>2, AtMoved
  <2>4. /\ about \in Nat /\ sent \in Nat /\ all \in Nat /\ about <= all
    BY AtFinite
  <2>5. /\ fetches[u] \in Nat /\ fetches'[u] \in Nat
        /\ errors \in Nat /\ errors' \in Nat
    BY <1>2, TypeStep, FrontierAssumption DEF Next, TypeOK
  <2>6. /\ u \in visited => u \in visited' /\ n + a' - a <= e
        /\ u \notin visited' => n + f' - f <= e
        /\ u \notin visited /\ u \in visited' => n + a' - a <= 0
        /\ n \in {0, 1} /\ e \in {0, 1}
    BY <2>1 DEF CountStep
  <2>7. /\ u \notin visited => fetches[u] + sent <= errors
        /\ fetches[u] + about <= all + errors
    BY DEF UnmarkedInv, DuplicateFetchesBounded, Fetchers, At
  <2>8. about' <= sent' + all /\ about' \in Nat /\ sent' \in Nat
    <3>1. /\ At({"markVisited", "fetch"}, u)' \in SUBSET Worker
          /\ At({"fetch"}, u)' \in SUBSET At({"markVisited", "fetch"}, u)'
      BY DEF At
    <3>2. QED
      BY <3>1, AtMostAllMore
  <2> HIDE DEF a, f, about, sent, all
  <2>9. u \notin visited' => fetches'[u] + sent' <= errors'
    BY <2>3, <2>4, <2>5, <2>6, <2>7
  <2>10. fetches'[u] + about' <= all + errors'
    <3>1. CASE u \in visited
      BY <2>3, <2>4, <2>5, <2>6, <2>7, <3>1
    <3>2. CASE u \notin visited'
      <4>1. fetches'[u] + sent' <= errors'
        BY <2>9, <3>2
      <4>2. about' <= sent' + all /\ about' \in Nat /\ sent' \in Nat
        BY <2>8
      <4>3. all \in Nat /\ fetches'[u] \in Nat /\ errors' \in Nat
        BY <2>4, <2>5
      <4>4. \A x, y, z, k, m \in Nat :
              x + z <= m /\ y <= z + k => x + y <= k + m
        OBVIOUS
      <4>5. QED
        BY <4>1, <4>2, <4>3, <4>4
    <3>3. CASE u \notin visited /\ u \in visited'
      <4>1. fetches'[u] - fetches[u] + a' - a <= 0
        BY <2>6, <3>3
      <4>2. about' = about + a' - a /\ a \in Nat /\ a' \in Nat
        BY <2>3
      <4>3. fetches'[u] + about' <= fetches[u] + about
        BY <2>4, <2>5, <4>1, <4>2
      <4>4. fetches[u] + about <= all + errors /\ errors <= errors'
        <5>1. fetches[u] + about <= all + errors
          BY <2>7
        <5>2. errors' - errors \in {0, 1}
          BY <2>6
        <5>3. errors <= errors'
          BY <2>5, <5>2
        <5>4. QED
          BY <5>1, <5>3
      <4>5. about' \in Int
        BY <2>4, <4>2
      <4>6. QED
        BY <2>4, <2>5, <4>3, <4>4, <4>5
    <3>4. QED
      BY <2>6, <3>1, <3>2, <3>3
  <2>11. QED
    BY <2>9, <2>10 DEF about, sent, all, At, Fetchers
<1>3. QED
  BY <1>1, <1>2 DEF Next, UnmarkedInv, DuplicateFetchesBounded

\* Over Redis the test and the mark of a URL are two commands, and a URL may
\* be fetched twice; but only by workers that tested it before the first of
\* them had marked it: at most once for each worker, and once more for each
\* command that raised.
THEOREM DuplicateFetchesBoundedAlways == Spec => []DuplicateFetchesBounded
<1>1. ASSUME Init PROVE UnmarkedInv /\ DuplicateFetchesBounded
  <2>1. ASSUME NEW u \in Url
        PROVE  /\ At({"fetch"}, u) = {} /\ Fetchers(u) = {}
               /\ fetches[u] = 0
    BY <1>1 DEF Init, At, Fetchers
  <2>2. errors \in Nat /\ Cardinality(Worker) \in Nat
    BY <1>1, SeedsLost, FrontierAssumption, FS_CardinalityType
  <2>3. ASSUME NEW u \in Url
        PROVE  /\ fetches[u] + Cardinality(At({"fetch"}, u)) <= errors
               /\ fetches[u] + Cardinality(Fetchers(u))
                    <= Cardinality(Worker) + errors
    <3>1. Cardinality(At({"fetch"}, u)) = 0 /\ Cardinality(Fetchers(u)) = 0
      BY <2>1, FS_EmptySet
    <3>2. QED
      BY <2>1, <2>2, <3>1
  <2>4. QED
    BY <2>3 DEF UnmarkedInv, DuplicateFetchesBounded
<1>2. Init => UnmarkedInv /\ DuplicateFetchesBounded
  BY <1>1
<1>3. QED
  BY <1>2, TypeAndPush, DuplicateFetchesStep, PTL DEF Spec

-----------------------------------------------------------------------------
(***************************************************************************)
(* No URL is lost but to a command that raised.                            *)
(***************************************************************************)

\* u is a member of the queue, or some worker has popped it and has not marked
\* it yet.
Waiting(u) ==
  \/ \E m \in zset : m.url = u
  \/ \E w \in Worker :
       entry[w].url = u /\ pc[w] \in {"srem", "isVisited", "markVisited"}

\* Worker w is pushing u.
Pushes(w, u) == link[w] = u /\ pc[w] \in Pushing

\* What is pushed or enqueued has been offered.
OfferedInv ==
  /\ enqueued \subseteq offered
  /\ \A w \in Worker : pc[w] \in Pushing => link[w] \in offered

\* The URLs that a command which raised has cost: they wait nowhere, and no
\* worker will push them, for nobody is about to or because the set of enqueued
\* URLs promises what the queue has not got.
Lost ==
  {u \in offered \ visited :
     /\ ~Waiting(u)
     /\ u \in enqueued \/ ~\E w \in Worker : Pushes(w, u)}

\* The strengthening of LossesBounded that is inductive.  A URL some worker is
\* pushing is held, and is lost all the same if it is enqueued.
LossInv == IsFiniteSet(Lost) /\ Cardinality(Lost) <= errors

\* What a step does to a URL that it does not lose: it goes on waiting or is
\* visited, is enqueued anew only if it waits, offered anew only if it is
\* pushed, and pushed until it is enqueued, visited or waits.
Keeps(u) ==
  /\ visited \subseteq visited'
  /\ Waiting(u) => Waiting(u)' \/ u \in visited'
  /\ u \in enqueued' => u \in enqueued \/ Waiting(u)'
  /\ u \in offered' => u \in offered \/ \E w \in Worker : Pushes(w, u)'
  /\ \A w \in Worker : Pushes(w, u) =>
       \/ u \in enqueued \/ u \in visited' \/ Waiting(u)'
       \/ Pushes(w, u)'

\* A URL that a step keeps is not lost by it.
LEMMA KeptIsNotLost ==
  ASSUME OfferedInv, NEW u, Keeps(u), u \in Lost'
  PROVE  u \in Lost
<1>1. /\ u \in offered' /\ u \notin visited' /\ ~Waiting(u)'
      /\ u \in enqueued' \/ ~\E w \in Worker : Pushes(w, u)'
  BY DEF Lost
<1>2. u \notin visited /\ ~Waiting(u)
  BY <1>1 DEF Keeps
<1>3. u \in offered
  BY <1>1 DEF Keeps, OfferedInv
<1>4. u \in enqueued \/ ~\E w \in Worker : Pushes(w, u)
  BY <1>1 DEF Keeps
<1>5. QED
  BY <1>2, <1>3, <1>4 DEF Lost

\* The commands of pop and of the test keep every URL but the one they are
\* about, and that one too unless they raise.
LEMMA PoppingKeeps ==
  ASSUME TypeOK, NEW w \in Worker,
         Zpopmax(w) \/ Srem(w) \/ IsVisited(w) \/ MarkVisited(w)
  PROVE  \E s \in Url : \A u \in Url :
           (u = s /\ errors' = errors + 1) \/ Keeps(u)
<1>1. /\ errors \in Nat /\ (Answers => errors' = errors)
      /\ Raises => errors' = errors + 1
  BY ErrorsType
<1>2. /\ pc \in [Worker -> Command] /\ entry \in [Worker -> Member]
      /\ entry[w].url \in Url /\ zset \subseteq Member
  BY DEF TypeOK, Member
<1>3. /\ pc[w] \notin Pushing /\ UNCHANGED <<link, offered>>
      /\ visited \subseteq visited' /\ enqueued' \subseteq enqueued
      /\ \A v \in Worker \ {w} : pc'[v] = pc[v] /\ entry'[v] = entry[v]
  BY <1>2
     DEF Zpopmax, Srem, IsVisited, MarkVisited, GoTo, Pushing, redisVars
<1>4. ASSUME NEW u \in Url, Waiting(u) => Waiting(u)' \/ u \in visited'
      PROVE  Keeps(u)
  BY <1>3, <1>4 DEF Keeps, Pushes
<1>5. CASE Zpopmax(w)
  <2>1. pc[w] = "zpopmax" /\ UNCHANGED visited
    BY <1>5 DEF Zpopmax
  <2>2. CASE UNCHANGED <<zset, entry, pc>>
    BY <1>2, <1>4, <2>2 DEF Waiting
  <2>3. CASE \E m \in zset : /\ zset' = zset \ {m} /\ UNCHANGED <<entry, pc>>
                             /\ Raises
    <3>1. PICK m \in zset : zset' = zset \ {m} /\ UNCHANGED <<entry, pc>>
                            /\ Raises
      BY <2>3
    <3>2. m.url \in Url
      BY <1>2 DEF Member
    <3>3. ASSUME NEW u \in Url, u # m.url PROVE Keeps(u)
      BY <1>4, <3>1, <3>3 DEF Waiting
    <3>4. QED
      BY <1>1, <3>1, <3>2, <3>3
  <2>4. CASE \E m \in zset : /\ zset' = zset \ {m}
                             /\ entry' = [entry EXCEPT ![w] = m]
                             /\ pc' = [pc EXCEPT ![w] = "srem"]
    <3>1. PICK m \in zset : /\ zset' = zset \ {m}
                            /\ entry' = [entry EXCEPT ![w] = m]
                            /\ pc' = [pc EXCEPT ![w] = "srem"]
      BY <2>4
    <3>2. entry'[w] = m /\ pc'[w] = "srem"
      BY <1>2, <3>1
    <3>3. ASSUME NEW u \in Url, Waiting(u) PROVE Waiting(u)'
      <4>1. CASE u = m.url
        BY <3>2, <4>1 DEF Waiting
      <4>2. CASE \E n \in zset : n # m /\ n.url = u
        BY <3>1, <4>2 DEF Waiting
      <4>3. CASE \E v \in Worker : /\ entry[v].url = u
                                   /\ pc[v] \in {"srem", "isVisited", "markVisited"}
        BY <1>3, <2>1, <4>3 DEF Waiting
      <4>4. QED
        BY <3>3, <4>1, <4>2, <4>3 DEF Waiting
    <3>4. QED
      BY <1>2, <1>4, <3>3
  <2>5. QED
    BY <1>5, <2>2, <2>3, <2>4 DEF Zpopmax, GoTo
<1>6. CASE Srem(w) \/ IsVisited(w) \/ MarkVisited(w)
  <2>1. UNCHANGED <<zset, entry>>
    BY <1>6 DEF Srem, IsVisited, MarkVisited, redisVars
  <2>2. ASSUME NEW u \in Url, u # entry[w].url PROVE Keeps(u)
    BY <1>3, <1>4, <2>1, <2>2 DEF Waiting
  <2>3. \/ errors' = errors + 1
        \/ pc'[w] \in {"isVisited", "markVisited"}
        \/ entry[w].url \in visited'
    BY <1>1, <1>2, <1>6
       DEF Srem, IsVisited, MarkVisited, GoTo, Skips, Marked, redisVars
  <2>4. CASE errors' = errors + 1
    BY <1>2, <2>2, <2>4
  <2>5. CASE pc'[w] \in {"isVisited", "markVisited"} \/ entry[w].url \in visited'
    <3>1. ASSUME NEW u \in Url, u = entry[w].url PROVE Keeps(u)
      <4>1. Waiting(u)' \/ u \in visited'
        BY <2>1, <2>5, <3>1 DEF Waiting
      <4>2. QED
        BY <1>4, <4>1
    <3>2. QED
      BY <1>2, <2>2, <3>1
  <2>6. QED
    BY <2>3, <2>4, <2>5
<1>7. QED
  BY <1>5, <1>6

\* So do the commands of push; the fetch before them raises nothing.
LEMMA PushingKeeps ==
  ASSUME TypeOK, NEW w \in Worker,
         Fetch(w) \/ InVisited(w) \/ InEnqueued(w) \/ Add(w)
  PROVE  \E s \in Url : \A u \in Url :
           (u = s /\ errors' = errors + 1) \/ Keeps(u)
<1>1. /\ errors \in Nat /\ (Answers => errors' = errors)
      /\ Raises => errors' = errors + 1
  BY ErrorsType
<1>2. /\ pc \in [Worker -> Command] /\ entry \in [Worker -> Member]
      /\ link \in [Worker -> Url] /\ link[w] \in Url /\ entry[w].url \in Url
  BY DEF TypeOK, Member
<1>3. /\ pc[w] \in {"fetch"} \union Pushing
      /\ UNCHANGED <<visited, entry>> /\ zset \subseteq zset'
      /\ pc[w] = "fetch" <=> Fetch(w)
  BY DEF Fetch, InVisited, InEnqueued, Add, Pushing, redisVars
<1>4. /\ \A v \in Worker \ {w} : pc'[v] = pc[v] /\ link'[v] = link[v]
      /\ \/ UNCHANGED offered
         \/ pc'[w] = "inVisited" /\ offered' = offered \union {link'[w]}
      /\ pc'[w] \in {"zpopmax", "inVisited", "inEnqueued", "add"}
  <2>1. CASE Fetch(w)
    <3>1. PICK found \in {{}, Links[entry[w].url]} :
            NextLink(w, Followed(w, found))
      BY <2>1 DEF Fetch
    <3>2. Followed(w, found) \in SUBSET Url
      BY <1>2, <3>1, FrontierAssumption DEF Followed
    <3>3. QED
      BY <3>1, <3>2, NextLinkType
  <2>2. CASE Dropped(w)
    BY <2>2, DroppedType
  <2>3. CASE (GoTo(w, "inEnqueued") \/ GoTo(w, "add"))
             /\ UNCHANGED <<link, offered>>
    BY <1>2, <2>3 DEF GoTo
  <2>4. QED
    BY <2>1, <2>2, <2>3 DEF InVisited, InEnqueued, Add
<1>5. ASSUME NEW u \in Url, Waiting(u) PROVE Waiting(u)'
  BY <1>3, <1>4, <1>5 DEF Waiting, Pushing
<1>6. ASSUME NEW u \in Url, u \in offered' \ offered
      PROVE  \E v \in Worker : Pushes(v, u)'
  BY <1>4, <1>6 DEF Pushes, Pushing
<1>7. /\ enqueued' \subseteq enqueued \union {link[w]}
      /\ UNCHANGED <<zset, enqueued>>
           \/ \E m \in zset' : m.url = link[w]
  <2>1. CASE Fetch(w) \/ InVisited(w) \/ InEnqueued(w)
    BY <2>1 DEF Fetch, InVisited, InEnqueued, redisVars
  <2>2. CASE Add(w) /\ zset' = zset \union Pushed(w)
    <3>1. \E m \in Pushed(w) : m.url = link[w]
      BY DEF Pushed
    <3>2. enqueued' \subseteq enqueued \union {link[w]}
      BY <2>2 DEF Add
    <3>3. QED
      BY <2>2, <3>1, <3>2
  <2>3. CASE Add(w) /\ UNCHANGED <<zset, enqueued>>
    BY <2>3
  <2>4. QED
    BY <2>1, <2>2, <2>3 DEF Add
<1>8. ASSUME NEW u \in Url, u \in enqueued' PROVE u \in enqueued \/ Waiting(u)'
  BY <1>7, <1>8 DEF Waiting
<1>9. ASSUME NEW u \in Url, NEW v \in Worker, Pushes(v, u), v # w \/ Fetch(w)
      PROVE  Pushes(v, u)'
  BY <1>3, <1>4, <1>9 DEF Pushes, Pushing
<1>10. ASSUME NEW u \in Url,
              ~Fetch(w) /\ u = link[w] =>
                u \in enqueued \/ u \in visited' \/ Waiting(u)' \/ Pushes(w, u)'
       PROVE  Keeps(u)
  <2>1. ASSUME NEW v \in Worker, Pushes(v, u)
        PROVE  \/ u \in enqueued \/ u \in visited' \/ Waiting(u)'
               \/ Pushes(v, u)'
    BY <1>9, <1>10, <2>1 DEF Pushes
  <2>2. QED
    BY <1>3, <1>5, <1>6, <1>8, <2>1 DEF Keeps
<1>11. CASE Fetch(w)
  BY <1>2, <1>10, <1>11
<1>12. CASE InVisited(w) \/ InEnqueued(w) \/ Add(w)
  <2>1. ASSUME NEW u \in Url, u # link[w] PROVE Keeps(u)
    BY <1>10, <2>1
  <2>2. CASE errors' = errors + 1
    BY <1>2, <2>1, <2>2
  <2>3. CASE errors' = errors
    <3>1. ASSUME NEW u \in Url, u = link[w] PROVE Keeps(u)
      <4>1. \/ u \in enqueued \/ u \in visited
            \/ \E m \in zset' : m.url = u
            \/ (GoTo(w, "inEnqueued") \/ GoTo(w, "add")) /\ UNCHANGED link
        <5>1. ~Raises
          BY <1>1, <2>3
        <5>2. CASE InVisited(w) \/ InEnqueued(w)
          BY <3>1, <5>1, <5>2 DEF InVisited, InEnqueued
        <5>3. CASE Add(w)
          <6>1. \E m \in Pushed(w) : m.url = link[w]
            BY DEF Pushed
          <6>2. zset' = zset \union Pushed(w)
            BY <5>1, <5>3 DEF Add
          <6>3. QED
            BY <3>1, <6>1, <6>2
        <5>4. QED
          BY <1>12, <5>2, <5>3
      <4>2. CASE (GoTo(w, "inEnqueued") \/ GoTo(w, "add")) /\ UNCHANGED link
        <5>1. Pushes(w, u)'
          BY <1>2, <3>1, <4>2 DEF GoTo, Pushes, Pushing
        <5>2. QED
          BY <1>10, <5>1
      <4>3. CASE \E m \in zset' : m.url = u
        <5>1. Waiting(u)'
          BY <4>3 DEF Waiting
        <5>2. QED
          BY <1>10, <5>1
      <4>4. QED
        BY <1>3, <1>10, <4>1, <4>2, <4>3
    <3>2. QED
      BY <1>2, <2>1, <3>1
  <2>4. errors' = errors \/ errors' = errors + 1
    BY <1>1, <1>12 DEF InVisited, InEnqueued, Add
  <2>5. QED
    BY <2>2, <2>3, <2>4
<1>13. QED
  BY <1>11, <1>12

\* Every step keeps OfferedInv.
LEMMA OfferedStep ==
  TypeOK /\ PushInv /\ OfferedInv /\ [Next]_vars => OfferedInv'
<1> SUFFICES ASSUME TypeOK, PushInv, OfferedInv, [Next]_vars PROVE OfferedInv'
  OBVIOUS
<1>1. CASE UNCHANGED vars
  BY <1>1 DEF vars, OfferedInv
<1>2. ASSUME NEW w \in Worker,
             Zpopmax(w) \/ Srem(w) \/ IsVisited(w) \/ MarkVisited(w)
      PROVE  OfferedInv'
  <2>1. /\ UNCHANGED <<link, offered>> /\ enqueued' \subseteq enqueued
        /\ pc' = pc \/ \E c \in Command \ Pushing : pc' = [pc EXCEPT ![w] = c]
    BY <1>2
       DEF Zpopmax, Srem, IsVisited, MarkVisited, GoTo, Pushing, Command,
           redisVars
  <2>2. QED
    BY <2>1 DEF OfferedInv, TypeOK
<1>3. ASSUME NEW w \in Worker,
             Fetch(w) \/ InVisited(w) \/ InEnqueued(w) \/ Add(w)
      PROVE  OfferedInv'
  <2>1. /\ \A v \in Worker \ {w} : pc'[v] = pc[v] /\ link'[v] = link[v]
        /\ offered \subseteq offered'
        /\ pc'[w] \in Pushing => link'[w] \in offered'
    <3>1. CASE Fetch(w)
      <4>1. PICK found \in {{}, Links[entry[w].url]} :
              NextLink(w, Followed(w, found))
        BY <3>1 DEF Fetch
      <4>2. entry[w].url \in Url
        BY DEF TypeOK, Member
      <4>3. Followed(w, found) \in SUBSET Url
        BY <4>1, <4>2, FrontierAssumption DEF Followed
      <4>4. QED
        BY <4>1, <4>3, NextLinkType DEF Pushing
    <3>2. CASE Dropped(w)
      BY <3>2, DroppedType DEF Pushing
    <3>3. CASE /\ GoTo(w, "inEnqueued") \/ GoTo(w, "add")
               /\ UNCHANGED <<link, offered>> /\ pc[w] \in Pushing
      BY <3>3 DEF GoTo, TypeOK, OfferedInv
    <3>4. QED
      BY <1>3, <3>1, <3>2, <3>3 DEF InVisited, InEnqueued, Add, Pushing
  <2>2. enqueued' \subseteq offered
    BY <1>3 DEF Fetch, InVisited, InEnqueued, Add, OfferedInv, Pushing, redisVars
  <2>3. QED
    BY <2>1, <2>2 DEF OfferedInv
<1>4. QED
  BY <1>1, <1>2, <1>3 DEF Next, WorkerStep

\* A step loses nothing unless a command raises, and then its URL at most.
LEMMA LossStep ==
  TypeOK /\ PushInv /\ OfferedInv /\ LossInv /\ [Next]_vars => LossInv'
<1> SUFFICES ASSUME TypeOK, PushInv, OfferedInv, LossInv, [Next]_vars
             PROVE  LossInv'
  OBVIOUS
<1>1. CASE UNCHANGED vars
  BY <1>1 DEF vars, LossInv, Lost, Waiting, Pushes
<1>2. ASSUME NEW w \in Worker, WorkerStep(w) PROVE LossInv'
  <2>1. PICK s \in Url : \A u \in Url :
          (u = s /\ errors' = errors + 1) \/ Keeps(u)
    BY <1>2, PoppingKeeps, PushingKeeps DEF WorkerStep
  <2>2. errors' \in {errors, errors + 1} /\ errors \in Nat
    <3>1. Answers \/ Raises \/ errors' = errors
      BY <1>2 DEF WorkerStep, Zpopmax, Srem, IsVisited, MarkVisited, Fetch,
         InVisited, InEnqueued, Add
    <3>2. QED
      BY <3>1, ErrorsType
  <2>3. Lost' \subseteq Url
    BY TypeStep DEF TypeOK, Lost
  <2>4. \A u \in Lost' : u \in Lost \/ (u = s /\ errors' = errors + 1)
    BY <2>1, <2>3, KeptIsNotLost
  <2>5. /\ IsFiniteSet(Lost) /\ Cardinality(Lost) <= errors
        /\ Cardinality(Lost) \in Nat
    BY FS_CardinalityType DEF LossInv
  <2>6. CASE errors' = errors
    <3>1. Lost' \subseteq Lost
      BY <2>2, <2>4, <2>6
    <3>2. /\ IsFiniteSet(Lost') /\ Cardinality(Lost') \in Nat
          /\ Cardinality(Lost') <= Cardinality(Lost)
      BY <2>5, <3>1, FS_Subset, FS_CardinalityType
    <3>3. QED
      BY <2>2, <2>5, <2>6, <3>2 DEF LossInv
  <2>7. CASE errors' = errors + 1
    <3>1. Lost' \subseteq Lost \union {s}
      BY <2>4
    <3>2. /\ IsFiniteSet(Lost \union {s})
          /\ Cardinality(Lost \union {s}) <= Cardinality(Lost) + 1
          /\ Cardinality(Lost \union {s}) \in Nat
      <4>1. /\ IsFiniteSet(Lost \union {s})
            /\ \/ Cardinality(Lost \union {s}) = Cardinality(Lost)
               \/ Cardinality(Lost \union {s}) = Cardinality(Lost) + 1
        BY <2>5, FS_AddElement
      <4>2. QED
        BY <2>5, <4>1
    <3>3. /\ IsFiniteSet(Lost') /\ Cardinality(Lost') \in Nat
          /\ Cardinality(Lost') <= Cardinality(Lost \union {s})
      BY <3>1, <3>2, FS_Subset, FS_CardinalityType
    <3>4. QED
      BY <2>2, <2>5, <2>7, <3>2, <3>3 DEF LossInv
  <2>8. QED
    BY <2>2, <2>6, <2>7
<1>3. QED
  BY <1>1, <1>2 DEF Next

\* At first, only seeds whose push raised are lost.
LEMMA LossInit == Init => OfferedInv /\ LossInv
<1> SUFFICES ASSUME Init PROVE OfferedInv /\ LossInv
  OBVIOUS
<1>1. OfferedInv
  BY SeedsLost DEF Init, OfferedInv, Pushing
<1>2. PICK raised \in SUBSET Seed :
        /\ errors = Cardinality(raised) /\ Seed \ raised \subseteq zset
        /\ zset \subseteq Seed
  BY DEF Init
<1>3. IsFiniteSet(raised) /\ Cardinality(raised) \in Nat
  BY <1>2, SeedFinite, FS_Subset, FS_CardinalityType
<1> DEFINE f == [m \in raised |-> m.url]
           missed == {m.url : m \in raised}
<1>4. f \in Surjection(raised, missed)
  BY DEF Surjection
<1>5. IsFiniteSet(missed) /\ Cardinality(missed) <= Cardinality(raised)
  BY <1>3, <1>4, FS_Surjection
<1>6. Lost \subseteq missed
  <2>1. ASSUME NEW u \in Lost PROVE u \in missed
    <3>1. u \in offered /\ ~\E m \in zset : m.url = u
      BY <2>1 DEF Lost, Waiting
    <3>2. PICK m \in Seed : m.url = u
      BY <3>1 DEF Init
    <3>3. QED
      BY <1>2, <3>1, <3>2
  <2>2. QED
    BY <2>1
<1>7. /\ IsFiniteSet(Lost) /\ Cardinality(Lost) <= Cardinality(missed)
      /\ Cardinality(Lost) \in Nat /\ Cardinality(missed) \in Nat
  BY <1>5, <1>6, FS_Subset, FS_CardinalityType
<1> HIDE DEF missed, f
<1>8. LossInv
  BY <1>2, <1>3, <1>5, <1>7 DEF LossInv
<1>9. QED
  BY <1>1, <1>8

\* So both hold in every reachable state.
LEMMA LossInvAlways == Spec => [](TypeOK /\ LossInv)
<1> QED
  BY LossInit, OfferedStep, LossStep, TypeAndPush, PTL DEF Spec

\* A URL that is neither visited nor held is lost.
LEMMA UnheldIsLost ==
  \A u \in offered \ visited : Held(u) \/ u \in Lost
BY DEF Held, Lost, Waiting, Pushes, Pushing

\* Whatever commands of the workers or of the seeding raise, and whether they
\* took effect or not, each costs one URL at most: however often a lost URL is
\* found again, and dropped again because it is still enqueued.
THEOREM LossesBoundedAlways == Spec => []LossesBounded
<1>1. ASSUME TypeOK, LossInv PROVE LossesBounded
  <2> DEFINE unheld == {u \in offered \ visited : ~Held(u)}
  <2>1. unheld \subseteq Lost
    BY UnheldIsLost
  <2> HIDE DEF unheld
  <2>2. /\ IsFiniteSet(unheld) /\ Cardinality(unheld) <= Cardinality(Lost)
        /\ Cardinality(unheld) \in Nat /\ Cardinality(Lost) \in Nat
    BY <1>1, <2>1, FS_Subset, FS_CardinalityType DEF LossInv
  <2>3. Cardinality(unheld) <= errors
    BY <1>1, <2>2, ErrorsType DEF LossInv
  <2>4. QED
    BY <2>3 DEF LossesBounded, unheld
<1>2. TypeOK /\ LossInv => LossesBounded
  BY <1>1
<1>3. QED
  BY <1>2, LossInvAlways, PTL

\* As long as no command has raised, no URL that push was called with is lost
\* between the commands: it is visited, in the queue, or held by a worker that
\* will mark it or push it.
THEOREM OfferedIsHeldAlways == Spec => []OfferedIsHeld
<1>1. ASSUME TypeOK, LossInv, errors = 0 PROVE Lost = {}
  <2>1. Cardinality(Lost) = 0 /\ IsFiniteSet(Lost)
    <3>1. IsFiniteSet(Lost) /\ Cardinality(Lost) <= 0 /\ Cardinality(Lost) \in Nat
      BY <1>1, FS_CardinalityType DEF LossInv
    <3>2. QED
      BY <3>1
  <2>2. QED
    BY <2>1, FS_EmptySet
<1>2. TypeOK /\ LossInv => OfferedIsHeld
  BY <1>1, UnheldIsLost DEF OfferedIsHeld
<1>3. QED
  BY <1>2, LossInvAlways, PTL

=============================================================================
