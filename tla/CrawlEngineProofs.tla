------------------------- MODULE CrawlEngineProofs -------------------------
(***************************************************************************)
(* Proofs about CrawlEngine, for every number of workers, every site and   *)
(* every value of the limits.                                              *)
(***************************************************************************)
EXTENDS CrawlEngine, FiniteSetTheorems, TLAPS

-----------------------------------------------------------------------------
(***************************************************************************)
(* Types.                                                                  *)
(***************************************************************************)

\* Wherever the robots test sends a worker, it is one of three places.
LEMMA AfterRobotsType ==
  ASSUME NEW answer, NEW url
  PROVE  AfterRobots(answer, url) \in {"loop", "limiter", "raised"}
BY DEF AfterRobots

\* A popped URL leads its worker to one of the known locations.
LEMMA AfterPopType ==
  ASSUME NEW url
  PROVE  AfterPop(url) \in {"loop", "robots", "limiter", "raised"}
BY AfterRobotsType DEF AfterPop

\* Entries built from well-typed parts are well typed, one for each URL.
LEMMA EntriesOfType ==
  ASSUME NEW us \in SUBSET Url, NEW depth \in Depth,
         NEW priority \in [Url -> Nat], NEW n \in Nat
  PROVE  EntriesOf(us, depth, priority, n) \subseteq Entry
BY DEF EntriesOf, Entry

\* The entries made for us have exactly the URLs us, one each.
LEMMA EntriesOfUrls ==
  ASSUME NEW us, NEW depth, NEW priority, NEW n
  PROVE  /\ {e.url : e \in EntriesOf(us, depth, priority, n)} = us
         /\ \A e, f \in EntriesOf(us, depth, priority, n) :
              e.url = f.url => e = f
<1> DEFINE entry(u) == [url |-> u, depth |-> depth, priority |-> priority[u],
                        batch |-> n]
<1>1. \A e \in EntriesOf(us, depth, priority, n) :
        \E u \in us : e = entry(u) /\ e.url = u
  BY DEF EntriesOf
<1>2. \A u \in us : entry(u) \in EntriesOf(us, depth, priority, n)
                    /\ entry(u).url = u
  BY DEF EntriesOf
<1> HIDE DEF entry
<1>3. QED
  BY <1>1, <1>2

\* Pushing keeps the frontier well typed when the depth is in range.
LEMMA PushAllType ==
  ASSUME TypeOK, NEW us \in SUBSET Url, NEW depth \in Depth,
         PushAll(us, depth)
  PROVE  /\ queue' \subseteq Entry
         /\ enqueued' \subseteq Url
         /\ batch' \in Nat
<1>1. Fresh(us) \subseteq Url
  BY DEF Fresh
<1>2. batch + 1 \in Nat
  BY DEF TypeOK
<1>3. EntriesOf(Fresh(us), depth, Priority, batch + 1) \subseteq Entry
  BY <1>1, <1>2, EntriesOfType, EngineAssumption
<1>4. QED
  BY <1>1, <1>2, <1>3 DEF PushAll, TypeOK

\* Pushing the links of a page keeps the types of the frontier: links of a
\* page at the last level are not pushed, so no depth exceeds MaxDepth.
LEMMA PushLinksType ==
  ASSUME TypeOK, NEW w \in Worker, NEW crawled \in Nat,
         PushLinks(w, crawled)
  PROVE  /\ queue' \subseteq Entry
         /\ enqueued' \subseteq Url
         /\ batch' \in Nat
<1>1. CASE PushAll(Links[item[w].url], item[w].depth + 1)
           /\ item[w].depth < MaxDepth
  <2>1. item[w].url \in Url /\ item[w].depth \in Depth
    BY DEF TypeOK
  <2>2. Links[item[w].url] \in SUBSET Url
    BY <2>1, EngineAssumption
  <2>3. item[w].depth + 1 \in Depth
    BY <2>1, <1>1, EngineAssumption DEF Depth
  <2>4. QED
    BY <1>1, <2>2, <2>3, PushAllType
<1>2. CASE UNCHANGED queueVars
  BY <1>2 DEF queueVars, TypeOK
<1>3. QED
  BY <1>1, <1>2 DEF PushLinks

\* The initial states and every step keep the types.
LEMMA TypeInit == Init => TypeOK
<1> SUFFICES ASSUME Init PROVE TypeOK
  OBVIOUS
<1>1. robots \in [Domain -> RobotsAnswer \union {"unknown"}]
  <2>1. PICK answer \in RobotsAnswer :
          robots = [d \in Domain |->
            IF RespectRobots /\ d = DomainOf[StartUrl]
              THEN answer ELSE "unknown"]
    BY DEF Init
  <2>2. QED
    BY <2>1
<1>2. item \in [Worker -> [url : Url, depth : Depth]]
  <2>1. [url |-> StartUrl, depth |-> 0] \in [url : Url, depth : Depth]
    BY EngineAssumption DEF Depth
  <2>2. QED
    BY <2>1 DEF Init
<1>3. pc \in [Worker -> Location] /\ idleCycles \in [Worker -> Nat]
  BY DEF Init, Location
<1>4. pageRows \in [Url -> Nat] /\ jobRow \in [crawled : Nat, failed : Nat]
  BY DEF Init
<1>5. queue \subseteq Entry /\ enqueued \subseteq Url /\ visited \subseteq Url
  BY DEF Init
<1>6. batch \in Nat /\ activeWorkers \in Int /\ pagesCrawled \in Nat
  <2>1. batch = 0 /\ activeWorkers = 0 /\ pagesCrawled = 0
    BY DEF Init
  <2>2. QED
    BY <2>1
<1>7. isStopped \in BOOLEAN /\ outcome \in Outcome
  <2>1. isStopped = FALSE /\ outcome = "seeding"
    BY Zenon DEF Init
  <2>2. QED
    BY <2>1 DEF Outcome
<1>8. QED
  BY <1>1, <1>2, <1>3, <1>4, <1>5, <1>6, <1>7 DEF TypeOK

\* Every step of the engine keeps the types.
LEMMA TypeStep == TypeOK /\ [Next]_vars => TypeOK'
<1> SUFFICES ASSUME TypeOK, [Next]_vars
             PROVE  TypeOK'
  OBVIOUS
<1> USE DEF queueVars, storeVars
<1>1. CASE Seed
  <2>1. 0 \in Depth /\ 1 \in Depth
    BY EngineAssumption DEF Depth
  <2>2. queue' \subseteq Entry
    <3>1. [u \in Url |-> 50] \in [Url -> Nat] /\ [u \in Url |-> 100] \in [Url -> Nat]
      OBVIOUS
    <3>2. SitemapUrls \ {StartUrl} \in SUBSET Url /\ {StartUrl} \in SUBSET Url
      BY EngineAssumption
    <3>3. EntriesOf(SitemapUrls \ {StartUrl}, 1, [u \in Url |-> 50], 1)
            \subseteq Entry
      BY <2>1, <3>1, <3>2, EntriesOfType
    <3>4. EntriesOf({StartUrl}, 0, [u \in Url |-> 100], 2) \subseteq Entry
      BY <2>1, <3>1, <3>2, EntriesOfType
    <3>5. QED
      BY <1>1, <3>3, <3>4 DEF Seed
  <2>3. enqueued' \subseteq Url /\ batch' \in Nat /\ outcome' \in Outcome
    BY <1>1, EngineAssumption DEF Seed, Outcome
  <2>4. QED
    BY <1>1, <2>2, <2>3 DEF Seed, TypeOK
<1>2. CASE Finish
  BY <1>2 DEF Finish, TypeOK, Outcome
<1>3. CASE Abort
  BY <1>3 DEF Abort, TypeOK, Outcome
<1>4. CASE Stop
  BY <1>4 DEF Stop, TypeOK
<1>5. ASSUME NEW w \in Worker, WorkerStep(w)
      PROVE  TypeOK'
  <2>1. CASE Leave(w)
    BY <2>1 DEF Leave, TypeOK, Location
  <2>2. CASE IdleBesideBusy(w)
    BY <2>2 DEF IdleBesideBusy, TypeOK
  <2>3. CASE IdleAlone(w)
    BY <2>3 DEF IdleAlone, TypeOK
  <2>4. CASE BreakIdle(w)
    BY <2>4 DEF BreakIdle, TypeOK, Location
  <2>5. CASE Pop(w)
    <3>1. PICK e \in queue :
            /\ queue' = queue \ {e}
            /\ enqueued' = enqueued \ {e.url}
            /\ visited' = visited \union {e.url}
            /\ item' = [item EXCEPT ![w] = [url |-> e.url, depth |-> e.depth]]
            /\ MoveTo(w, AfterPop(e.url))
      BY <2>5 DEF Pop, MarkVisited
    <3>2. e.url \in Url /\ e.depth \in Depth
      BY DEF TypeOK, Entry
    <3>3. pc' \in [Worker -> Location] /\ activeWorkers' \in Int
      BY <3>1, AfterPopType DEF MoveTo, TypeOK, Location
    <3>4. item' \in [Worker -> [url : Url, depth : Depth]]
      BY <3>1, <3>2 DEF TypeOK
    <3>5. idleCycles' \in [Worker -> Nat]
      BY <2>5 DEF Pop, TypeOK
    <3>6. QED
      BY <2>5, <3>1, <3>2, <3>3, <3>4, <3>5 DEF Pop, TypeOK
  <2>6. CASE RobotsAnswered(w)
    <3>1. PICK answer \in RobotsAnswer :
            /\ robots' = [robots EXCEPT ![DomainOf[item[w].url]] = answer]
            /\ MoveTo(w, AfterRobots(answer, item[w].url))
      BY <2>6 DEF RobotsAnswered
    <3>2. robots' \in [Domain -> RobotsAnswer \union {"unknown"}]
      BY <3>1 DEF TypeOK
    <3>3. pc' \in [Worker -> Location] /\ activeWorkers' \in Int
      BY <3>1, AfterRobotsType DEF MoveTo, TypeOK, Location
    <3>4. QED
      BY <2>6, <3>2, <3>3 DEF RobotsAnswered, TypeOK
  <2>7. CASE Acquired(w)
    BY <2>7 DEF Acquired, TypeOK, Location
  <2>8. CASE FetchFailed(w)
    BY <2>8 DEF FetchFailed, TypeOK, Location
  <2>9. CASE FetchRaised(w)
    BY <2>9 DEF FetchRaised, Release, TypeOK, Location
  <2>10. CASE FetchSucceeded(w)
    <3>1. pagesCrawled' \in Nat
      BY <2>10 DEF FetchSucceeded, TypeOK
    <3>2. queue' \subseteq Entry /\ enqueued' \subseteq Url /\ batch' \in Nat
      BY <2>10, <3>1, PushLinksType DEF FetchSucceeded
    <3>3. QED
      BY <2>10, <3>1, <3>2 DEF FetchSucceeded, TypeOK, Location
  <2>11. CASE ParseRaised(w)
    BY <2>11 DEF ParseRaised, Release, TypeOK, Location
  <2>12. CASE NeedsBrowser(w)
    BY <2>12 DEF NeedsBrowser, TypeOK, Location
  <2>13. CASE Rendered(w)
    <3>1. queue' \subseteq Entry /\ enqueued' \subseteq Url /\ batch' \in Nat
      BY <2>13, PushLinksType DEF Rendered, TypeOK
    <3>2. QED
      BY <2>13, <3>1 DEF Rendered, TypeOK, Location
  <2>14. CASE Saved(w)
    <3>1. item[w].url \in Url
      BY DEF TypeOK
    <3>2. pageRows' \in [Url -> Nat]
      BY <2>14, <3>1 DEF Saved, TypeOK
    <3>3. jobRow' \in [crawled : Nat, failed : Nat]
      BY <2>14 DEF Saved, Counted, TypeOK
    <3>4. QED
      BY <2>14, <3>2, <3>3 DEF Saved, Release, TypeOK, Location
  <2>15. CASE SaveRaised(w)
    BY <2>15 DEF SaveRaised, Release, TypeOK, Location
  <2>16. QED
    BY <1>5, <2>1, <2>2, <2>3, <2>4, <2>5, <2>6, <2>7, <2>8, <2>9, <2>10,
       <2>11, <2>12, <2>13, <2>14, <2>15 DEF WorkerStep
<1>6. CASE UNCHANGED vars
  BY <1>6 DEF vars, TypeOK
<1>7. ASSUME NEW d \in Domain, Expire(d)
      PROVE  TypeOK'
  BY <1>7 DEF Expire, TypeOK
<1>8. QED
  BY <1>1, <1>2, <1>3, <1>4, <1>5, <1>6, <1>7 DEF Next, Terminating

\* Every reachable state of the worker pool is well typed; in particular no
\* entry and no page is deeper than max_depth.
THEOREM TypeCorrect == Spec => []TypeOK
<1>1. QED
  BY TypeInit, TypeStep, PTL DEF Spec

-----------------------------------------------------------------------------
(***************************************************************************)
(* What every step of a worker has in common.                              *)
(***************************************************************************)
Active(loc) == IF loc \in ActiveLocation THEN 1 ELSE 0

\* A worker steps from its location to loc (perhaps the same).
Moves(w, loc) ==
  /\ pc' = [pc EXCEPT ![w] = loc]
  /\ activeWorkers' = activeWorkers + Active(loc) - Active(pc[w])

\* It counts a page on its way out of the fetch, and only then.
CountsPage(w, loc) ==
  /\ pagesCrawled' = pagesCrawled + 1
  /\ pc[w] \in UncountedLocation
  /\ loc \notin UncountedLocation

\* Otherwise it gets in front of the fetch only below the budget.
CountsNothing(w, loc) ==
  /\ pagesCrawled' = pagesCrawled
  /\ loc \in UncountedLocation =>
       pc[w] \in UncountedLocation \/ pagesCrawled < MaxPages

\* Each action moves its worker in this way: the one place where the proofs
\* about counters look at the actions.
LEMMA WorkerMoves ==
  ASSUME TypeOK, NEW w \in Worker, WorkerStep(w)
  PROVE  \E loc \in Location :
           Moves(w, loc) /\ (CountsPage(w, loc) \/ CountsNothing(w, loc))
<1> USE DEF Moves, CountsPage, CountsNothing, Active, ActiveLocation,
            UncountedLocation, Location
<1>0. pc \in [Worker -> Location] /\ activeWorkers \in Int /\ pagesCrawled \in Nat
  BY DEF TypeOK
<1>1. CASE Leave(w)
  BY <1>0, <1>1 DEF Leave, AtLoop
<1>2. CASE IdleBesideBusy(w) \/ IdleAlone(w)
  <2>1. pc' = pc /\ activeWorkers' = activeWorkers /\ pagesCrawled' = pagesCrawled
        /\ pc[w] = "loop"
    BY <1>2 DEF IdleBesideBusy, IdleAlone, AtLoop
  <2>2. pc' = [pc EXCEPT ![w] = pc[w]]
    BY <2>1, <1>0
  <2>3. QED
    BY <2>1, <2>2, <1>0
<1>3. CASE BreakIdle(w)
  BY <1>0, <1>3 DEF BreakIdle, AtLoop
<1>4. CASE Pop(w)
  <2>1. PICK url : MoveTo(w, AfterPop(url))
    BY <1>4 DEF Pop
  <2>2. pc[w] = "loop" /\ pagesCrawled' = pagesCrawled /\ pagesCrawled < MaxPages
    BY <1>4 DEF Pop, AtLoop, MayContinue
  <2>3. PICK loc \in {"loop", "robots", "limiter", "raised"} : MoveTo(w, loc)
    BY <2>1, AfterPopType
  <2>4. Active(loc) = (IF loc = "limiter" THEN 1 ELSE 0) /\ Active(pc[w]) = 0
    BY <2>2, <2>3
  <2>5. Moves(w, loc)
    BY <1>0, <2>3, <2>4 DEF MoveTo
  <2>6. CountsNothing(w, loc) /\ loc \in Location
    BY <2>2, <2>3
  <2> HIDE DEF Moves, CountsNothing, CountsPage, Location
  <2>7. QED
    BY <2>5, <2>6
<1>5. CASE RobotsAnswered(w)
  <2>1. PICK answer, url : MoveTo(w, AfterRobots(answer, url))
    BY <1>5 DEF RobotsAnswered
  <2>2. pc[w] = "robots" /\ pagesCrawled' = pagesCrawled
    BY <1>5 DEF RobotsAnswered
  <2>3. PICK loc \in {"loop", "limiter", "raised"} : MoveTo(w, loc)
    BY <2>1, AfterRobotsType
  <2>4. Active(loc) = (IF loc = "limiter" THEN 1 ELSE 0) /\ Active(pc[w]) = 0
    BY <2>2, <2>3
  <2>5. Moves(w, loc)
    BY <1>0, <2>3, <2>4 DEF MoveTo
  <2>6. CountsNothing(w, loc) /\ loc \in Location
    BY <2>2, <2>3
  <2> HIDE DEF Moves, CountsNothing, CountsPage, Location
  <2>7. QED
    BY <2>5, <2>6
<1>6. CASE Acquired(w) \/ FetchFailed(w)
  BY <1>0, <1>6 DEF Acquired, FetchFailed
<1>7. CASE FetchRaised(w)
  BY <1>0, <1>7 DEF FetchRaised, Release
<1>8. CASE FetchSucceeded(w) \/ NeedsBrowser(w)
  BY <1>0, <1>8 DEF FetchSucceeded, NeedsBrowser
<1>9. CASE ParseRaised(w)
  BY <1>0, <1>9 DEF ParseRaised, Release
<1>10. CASE Rendered(w)
  BY <1>0, <1>10 DEF Rendered
<1>11. CASE Saved(w) \/ SaveRaised(w)
  BY <1>0, <1>11 DEF Saved, SaveRaised, Release
<1>12. QED
  BY <1>1, <1>2, <1>3, <1>4, <1>5, <1>6, <1>7, <1>8, <1>9, <1>10, <1>11
     DEF WorkerStep

\* Any other step leaves the workers and the counters alone.
LEMMA OthersDoNotMove ==
  ASSUME Seed \/ Finish \/ Abort \/ Stop \/ UNCHANGED vars
  PROVE  UNCHANGED <<pc, activeWorkers, pagesCrawled, item, visited, pageRows,
                     robots>>
BY DEF Seed, Finish, Abort, Stop, vars, storeVars

\* How the number of workers at certain locations changes when one moves.
LEMMA WorkersAtMoved ==
  ASSUME NEW A, NEW w \in Worker, NEW loc \in Location,
         pc \in [Worker -> Location], pc' = [pc EXCEPT ![w] = loc]
  PROVE  /\ Cardinality(WorkersAt(A)) \in Nat
         /\ Cardinality(WorkersAt(A)') = Cardinality(WorkersAt(A))
              + (IF loc \in A THEN 1 ELSE 0) - (IF pc[w] \in A THEN 1 ELSE 0)
<1>1. IsFiniteSet(WorkersAt(A)) /\ Cardinality(WorkersAt(A)) \in Nat
  BY EngineAssumption, FS_Subset, FS_CardinalityType DEF WorkersAt
<1>2. CASE loc \in A
  <2>1. WorkersAt(A)' = WorkersAt(A) \union {w}
    BY <1>2 DEF WorkersAt
  <2>2. w \in WorkersAt(A) <=> pc[w] \in A
    BY DEF WorkersAt
  <2>3. Cardinality(WorkersAt(A) \union {w}) =
          IF w \in WorkersAt(A) THEN Cardinality(WorkersAt(A))
                                ELSE Cardinality(WorkersAt(A)) + 1
    BY <1>1, FS_AddElement
  <2>4. QED
    BY <1>1, <1>2, <2>1, <2>2, <2>3
<1>3. CASE loc \notin A
  <2>1. WorkersAt(A)' = WorkersAt(A) \ {w}
    BY <1>3 DEF WorkersAt
  <2>2. w \in WorkersAt(A) <=> pc[w] \in A
    BY DEF WorkersAt
  <2>3. Cardinality(WorkersAt(A) \ {w}) =
          IF w \in WorkersAt(A) THEN Cardinality(WorkersAt(A)) - 1
                                ELSE Cardinality(WorkersAt(A))
    BY <1>1, FS_RemoveElement
  <2>4. QED
    BY <1>1, <1>3, <2>1, <2>2, <2>3
<1>4. QED
  BY <1>1, <1>2, <1>3

\* At first no worker is anywhere but at the loop.
LEMMA WorkersAtInit ==
  ASSUME Init, NEW A, "loop" \notin A
  PROVE  Cardinality(WorkersAt(A)) = 0
<1>1. WorkersAt(A) = {}
  BY DEF Init, WorkersAt
<1>2. QED
  BY <1>1, FS_EmptySet

-----------------------------------------------------------------------------
(***************************************************************************)
(* The counters.                                                           *)
(***************************************************************************)
LEMMA ActiveCountedStep ==
  TypeOK /\ ActiveCounted /\ [Next]_vars => ActiveCounted'
<1> SUFFICES ASSUME TypeOK, ActiveCounted, [Next]_vars
             PROVE  ActiveCounted'
  OBVIOUS
<1>1. CASE Seed \/ Finish \/ Abort \/ Stop \/ UNCHANGED vars
  BY <1>1, OthersDoNotMove DEF ActiveCounted, WorkersAt
<1>2. ASSUME NEW w \in Worker, WorkerStep(w)
      PROVE  ActiveCounted'
  <2>1. PICK loc \in Location : Moves(w, loc)
    BY <1>2, WorkerMoves
  <2>2. /\ Cardinality(WorkersAt(ActiveLocation)) \in Nat
        /\ Cardinality(WorkersAt(ActiveLocation)') =
             Cardinality(WorkersAt(ActiveLocation)) + Active(loc) - Active(pc[w])
    BY <2>1, WorkersAtMoved DEF TypeOK, Moves, Active
  <2>3. QED
    BY <2>1, <2>2 DEF ActiveCounted, Moves
<1>3. ASSUME NEW d \in Domain, Expire(d)
      PROVE  ActiveCounted'
  BY <1>3 DEF Expire, ActiveCounted, WorkersAt
<1>4. QED
  BY <1>1, <1>2, <1>3 DEF Next, Terminating

\* _active_workers is exact in every reachable state: the increment before
\* the rate limiter and the decrement in the finally clause match on every
\* path, so no exception leaves a worker counted busy for ever.
THEOREM ActiveCountedAlways == Spec => []ActiveCounted
<1>1. Init => ActiveCounted
  <2>1. ASSUME Init PROVE ActiveCounted
    <3>1. "loop" \notin ActiveLocation
      BY DEF ActiveLocation
    <3>2. activeWorkers = 0
      BY <2>1 DEF Init
    <3>3. QED
      BY <2>1, <3>1, <3>2, WorkersAtInit DEF ActiveCounted
  <2>2. QED
    BY <2>1
<1>2. QED
  BY <1>1, TypeCorrect, ActiveCountedStep, PTL DEF Spec

\* The strengthening of BudgetOvershootBounded that is inductive: the workers
\* that have passed the budget test are part of the sum, and each of them
\* entered it while at least one page was left.
BudgetInv ==
  pagesCrawled + Cardinality(WorkersAt(UncountedLocation))
    <= MaxPages - 1 + Cardinality(Worker)

\* Every step keeps BudgetInv: a worker joins the uncounted ones only after
\* the test of the budget, and leaves them when its page is counted.
LEMMA BudgetInvStep ==
  TypeOK /\ BudgetInv /\ [Next]_vars => BudgetInv'
<1> SUFFICES ASSUME TypeOK, BudgetInv, [Next]_vars
             PROVE  BudgetInv'
  OBVIOUS
<1>1. CASE Seed \/ Finish \/ Abort \/ Stop \/ UNCHANGED vars
  BY <1>1, OthersDoNotMove DEF BudgetInv, WorkersAt
<1>2. ASSUME NEW w \in Worker, WorkerStep(w)
      PROVE  BudgetInv'
  <2> DEFINE before == Cardinality(WorkersAt(UncountedLocation))
             after  == Cardinality(WorkersAt(UncountedLocation)')
  <2>1. PICK loc \in Location :
          Moves(w, loc) /\ (CountsPage(w, loc) \/ CountsNothing(w, loc))
    BY <1>2, WorkerMoves
  <2>2. /\ before \in Nat
        /\ after = before + (IF loc \in UncountedLocation THEN 1 ELSE 0)
                          - (IF pc[w] \in UncountedLocation THEN 1 ELSE 0)
    BY <2>1, WorkersAtMoved DEF TypeOK, Moves
  <2>3. after <= Cardinality(Worker) /\ Cardinality(Worker) \in Nat
        /\ after \in Nat
    <3>1. WorkersAt(UncountedLocation)' \subseteq Worker
      BY DEF WorkersAt
    <3>2. QED
      BY <3>1, EngineAssumption, FS_Subset, FS_CardinalityType
  <2>4. MaxPages \in Nat /\ pagesCrawled \in Nat
    BY EngineAssumption DEF TypeOK
  <2> HIDE DEF before, after
  <2>5. CASE CountsPage(w, loc)
    <3>1. pagesCrawled' = pagesCrawled + 1 /\ after = before - 1
      BY <2>2, <2>5 DEF CountsPage
    <3>2. pagesCrawled' + after <= MaxPages - 1 + Cardinality(Worker)
      BY <2>2, <2>3, <2>4, <3>1 DEF BudgetInv, before
    <3>3. QED
      BY <3>2 DEF BudgetInv, after
  <2>6. CASE CountsNothing(w, loc)
    <3>1. \/ after <= before
          \/ pagesCrawled < MaxPages
      BY <2>2, <2>6 DEF CountsNothing
    <3>2. pagesCrawled' + after <= MaxPages - 1 + Cardinality(Worker)
      BY <2>2, <2>3, <2>4, <2>6, <3>1 DEF BudgetInv, before, CountsNothing
    <3>3. QED
      BY <3>2 DEF BudgetInv, after
  <2>7. QED
    BY <2>1, <2>5, <2>6
<1>3. ASSUME NEW d \in Domain, Expire(d)
      PROVE  BudgetInv'
  BY <1>3 DEF Expire, BudgetInv, WorkersAt
<1>4. QED
  BY <1>1, <1>2, <1>3 DEF Next, Terminating

\* For every number of workers, the crawl exceeds max_pages by at most
\* concurrency - 1 pages.
THEOREM BudgetOvershootBoundedAlways == Spec => []BudgetOvershootBounded
<1>1. Init => BudgetInv
  <2>1. ASSUME Init PROVE BudgetInv
    <3>1. "loop" \notin UncountedLocation
      BY DEF UncountedLocation
    <3>2. pagesCrawled = 0
      BY <2>1 DEF Init
    <3>3. Cardinality(Worker) \in Nat /\ MaxPages \in Nat \ {0}
      BY EngineAssumption, FS_CardinalityType
    <3>4. QED
      BY <2>1, <3>1, <3>2, <3>3, WorkersAtInit DEF BudgetInv
  <2>2. QED
    BY <2>1
<1>2. TypeOK /\ BudgetInv => BudgetOvershootBounded
  <2>1. Cardinality(WorkersAt(UncountedLocation)) \in Nat
        /\ Cardinality(Worker) \in Nat
    BY EngineAssumption, FS_Subset, FS_CardinalityType DEF WorkersAt
  <2>2. QED
    BY <2>1, EngineAssumption DEF BudgetInv, BudgetOvershootBounded, TypeOK
<1>3. QED
  BY <1>1, <1>2, TypeCorrect, BudgetInvStep, PTL DEF Spec

-----------------------------------------------------------------------------
(***************************************************************************)
(* The frontier.                                                           *)
(***************************************************************************)
\* No worker steps before the seeding is done or after a normal end.
PhaseInv ==
  /\ outcome = "seeding" =>
       /\ queue = {} /\ enqueued = {} /\ visited = {}
       /\ \A w \in Worker : pc[w] = "loop"
  /\ outcome \in {"completed", "stopped"} => AllReturned

\* A worker takes a step only after the seeding, and only if it has not ended.
LEMMA WorkerStepPhase ==
  ASSUME PhaseInv, NEW w \in Worker, WorkerStep(w)
  PROVE  outcome' = outcome /\ outcome \notin {"seeding", "completed", "stopped"}
<1>1. outcome' = outcome
  BY DEF WorkerStep, Leave, IdleBesideBusy, IdleAlone, BreakIdle, Pop,
         RobotsAnswered, Acquired, FetchFailed, FetchRaised, FetchSucceeded,
         ParseRaised, NeedsBrowser, Rendered, Saved, SaveRaised
<1>2. pc[w] = "loop" => outcome # "seeding"
  BY DEF WorkerStep, Leave, IdleBesideBusy, IdleAlone, BreakIdle, Pop, AtLoop,
         RobotsAnswered, Acquired, FetchFailed, FetchRaised, FetchSucceeded,
         ParseRaised, NeedsBrowser, Rendered, Saved, SaveRaised
<1>3. pc[w] # "done"
  BY DEF WorkerStep, Leave, IdleBesideBusy, IdleAlone, BreakIdle, Pop, AtLoop,
         RobotsAnswered, Acquired, FetchFailed, FetchRaised, FetchSucceeded,
         ParseRaised, NeedsBrowser, Rendered, Saved, SaveRaised
<1>4. QED
  BY <1>1, <1>2, <1>3 DEF PhaseInv, AllReturned

\* Every step keeps PhaseInv.
LEMMA PhaseInvStep == PhaseInv /\ [Next]_vars => PhaseInv'
<1> SUFFICES ASSUME PhaseInv, [Next]_vars
             PROVE  PhaseInv'
  OBVIOUS
<1>1. CASE Seed
  BY <1>1 DEF Seed, PhaseInv
<1>2. CASE Finish
  BY <1>2 DEF Finish, PhaseInv, AllReturned
<1>3. CASE Abort
  BY <1>3 DEF Abort, PhaseInv
<1>4. CASE Stop
  BY <1>4 DEF Stop, PhaseInv, AllReturned, queueVars
<1>5. CASE UNCHANGED vars
  BY <1>5 DEF vars, PhaseInv, AllReturned
<1>6. ASSUME NEW w \in Worker, WorkerStep(w)
      PROVE  PhaseInv'
  BY <1>6, WorkerStepPhase DEF PhaseInv
<1>7. ASSUME NEW d \in Domain, Expire(d)
      PROVE  PhaseInv'
  BY <1>7 DEF Expire, PhaseInv, AllReturned, queueVars
<1>8. QED
  BY <1>1, <1>2, <1>3, <1>4, <1>5, <1>6, <1>7 DEF Next, Terminating

\* PhaseInv holds throughout.
LEMMA PhaseInvAlways == Spec => []PhaseInv
<1>1. Init => PhaseInv
  <2>1. ASSUME Init PROVE PhaseInv
    <3>1. outcome = "seeding" /\ queue = {} /\ enqueued = {} /\ visited = {}
          /\ pc = [w \in Worker |-> "loop"]
      BY <2>1 DEF Init
    <3>2. QED
      BY <3>1 DEF PhaseInv
  <2>2. QED
    BY <2>1
<1>2. QED
  BY <1>1, PhaseInvStep, PTL DEF Spec

\* Pushing the URLs of a page keeps the three collections in agreement.
LEMMA PushAllDisciplined ==
  ASSUME QueueDisciplined, NEW us, NEW depth, PushAll(us, depth),
         visited' = visited
  PROVE  QueueDisciplined'
<1> DEFINE new == EntriesOf(Fresh(us), depth, Priority, batch + 1)
<1>1. queue' = queue \union new /\ enqueued' = enqueued \union Fresh(us)
  BY DEF PushAll
<1>2. {e.url : e \in new} = Fresh(us)
  BY EntriesOfUrls
<1>3. \A e, f \in new : e.url = f.url => e = f
  BY EntriesOfUrls
<1>4. Fresh(us) \intersect visited = {} /\ Fresh(us) \intersect enqueued = {}
  BY DEF Fresh
<1> HIDE DEF new
<1>5. enqueued' = {e.url : e \in queue'}
  BY <1>1, <1>2 DEF QueueDisciplined
<1>6. \A e \in queue, f \in new : e.url # f.url
  BY <1>2, <1>4 DEF QueueDisciplined
<1>7. \A e, f \in queue' : e.url = f.url => e = f
  BY <1>1, <1>3, <1>6 DEF QueueDisciplined
<1>8. enqueued' \intersect visited' = {}
  BY <1>1, <1>4 DEF QueueDisciplined
<1>9. QED
  BY <1>5, <1>7, <1>8 DEF QueueDisciplined

\* What a pop does to the frontier: it takes the one entry of a URL that was
\* not visited and marks it visited, so the test that follows never fires.
LEMMA PopClaims ==
  ASSUME QueueDisciplined, NEW w \in Worker, Pop(w)
  PROVE  \E e \in queue :
           /\ e.url \in enqueued /\ e.url \notin visited
           /\ queue' = queue \ {e}
           /\ enqueued' = enqueued \ {e.url}
           /\ visited' = visited \union {e.url}
           /\ item' = [item EXCEPT ![w] = [url |-> e.url, depth |-> e.depth]]
           /\ MoveTo(w, AfterPop(e.url))
<1>1. \A e \in queue : e.url \in enqueued /\ e.url \notin visited
  BY DEF QueueDisciplined
<1>2. QED
  BY <1>1 DEF Pop, MarkVisited

\* The actions of a worker that leave the frontier as it is.
KeepsFrontier(w) ==
  \/ Leave(w) \/ IdleBesideBusy(w) \/ IdleAlone(w) \/ BreakIdle(w)
  \/ RobotsAnswered(w) \/ Acquired(w) \/ FetchFailed(w) \/ FetchRaised(w)
  \/ ParseRaised(w) \/ NeedsBrowser(w) \/ Saved(w) \/ SaveRaised(w)

\* These actions change neither the frontier nor the stop flag.
LEMMA FrontierKept ==
  ASSUME NEW w, KeepsFrontier(w)
  PROVE  UNCHANGED <<queue, enqueued, visited, isStopped>>
BY DEF KeepsFrontier, Leave, IdleBesideBusy, IdleAlone, BreakIdle,
       RobotsAnswered, Acquired, FetchFailed, FetchRaised, ParseRaised,
       NeedsBrowser, Saved, SaveRaised, queueVars

\* With one entry per URL the queue is finite.
LEMMA QueueFinite ==
  ASSUME TypeOK, QueueDisciplined
  PROVE  Cardinality(queue) \in Nat
<1> DEFINE f == [e \in queue |-> e.url]
<1>1. f \in [queue -> Url]
  BY DEF TypeOK, Entry
<1>2. \A d, e \in queue : f[d] = f[e] => d = e
  BY DEF QueueDisciplined
<1> HIDE DEF f
<1>3. f \in Injection(queue, Url)
  BY <1>1, <1>2 DEF Injection, IsInjective
<1>4. QED
  BY <1>3, EngineAssumption, FS_Injection, FS_CardinalityType

\* The actions that may push the links of a page.
LEMMA LinksPushed ==
  ASSUME TypeOK, QueueDisciplined, NEW w \in Worker, FetchSucceeded(w) \/ Rendered(w)
  PROVE  /\ UNCHANGED <<visited, item, isStopped, pageRows, robots>>
         /\ pagesCrawled' \in Nat /\ pagesCrawled' >= pagesCrawled
         /\ \/ UNCHANGED <<queue, enqueued>>
            \/ /\ \E us \in SUBSET Url : \E depth : PushAll(us, depth)
               /\ pagesCrawled' < MaxPages
<1>1. UNCHANGED <<visited, item, isStopped, pageRows, robots>>
  BY DEF FetchSucceeded, Rendered, storeVars
<1>2. pagesCrawled' \in Nat /\ pagesCrawled' >= pagesCrawled
  BY DEF FetchSucceeded, Rendered, TypeOK
<1>3. PushLinks(w, pagesCrawled')
  BY DEF FetchSucceeded, Rendered
<1>4. CASE UNCHANGED queueVars
  BY <1>1, <1>2, <1>4 DEF queueVars
<1>5. CASE /\ PushAll(Links[item[w].url], item[w].depth + 1)
           /\ pagesCrawled' + Cardinality(queue) < MaxPages
  <2>1. Links[item[w].url] \in SUBSET Url
    BY EngineAssumption DEF TypeOK
  <2>2. Cardinality(queue) \in Nat
    BY QueueFinite
  <2>3. QED
    BY <1>1, <1>2, <1>5, <2>1, <2>2, EngineAssumption
<1>6. QED
  BY <1>3, <1>4, <1>5 DEF PushLinks

\* Every step keeps the three collections in agreement.
LEMMA QueueDisciplinedStep ==
  TypeOK /\ PhaseInv /\ QueueDisciplined /\ [Next]_vars => QueueDisciplined'
<1> SUFFICES ASSUME TypeOK, PhaseInv, QueueDisciplined, [Next]_vars
             PROVE  QueueDisciplined'
  OBVIOUS
<1>1. CASE Seed
  <2> DEFINE listed == SitemapUrls \ {StartUrl}
             fromSitemap == EntriesOf(listed, 1, [u \in Url |-> 50], 1)
             start == EntriesOf({StartUrl}, 0, [u \in Url |-> 100], 2)
  <2>1. /\ queue' = fromSitemap \union start
        /\ enqueued' = listed \union {StartUrl}
        /\ visited' = visited
    BY <1>1 DEF Seed
  <2>2. /\ {e.url : e \in fromSitemap} = listed
        /\ {e.url : e \in start} = {StartUrl}
        /\ \A e, f \in fromSitemap : e.url = f.url => e = f
        /\ \A e, f \in start : e.url = f.url => e = f
    <3> DEFINE sitemapPriority == [u \in Url |-> 50]
               startPriority == [u \in Url |-> 100]
    <3>1. fromSitemap = EntriesOf(listed, 1, sitemapPriority, 1)
      OBVIOUS
    <3>2. start = EntriesOf({StartUrl}, 0, startPriority, 2)
      OBVIOUS
    <3> HIDE DEF listed, fromSitemap, start, sitemapPriority, startPriority
    <3>3. /\ {e.url : e \in fromSitemap} = listed
          /\ \A e, f \in fromSitemap : e.url = f.url => e = f
      BY <3>1, EntriesOfUrls
    <3>4. /\ {e.url : e \in start} = {StartUrl}
          /\ \A e, f \in start : e.url = f.url => e = f
      BY <3>2, EntriesOfUrls, ZenonT(60)
    <3>5. QED
      BY <3>3, <3>4
  <2>3. StartUrl \notin listed
    OBVIOUS
  <2> HIDE DEF listed, fromSitemap, start
  <2>4. visited = {}
    BY <1>1 DEF Seed, PhaseInv
  <2>5. enqueued' = {e.url : e \in queue'}
    BY <2>1, <2>2
  <2>6. \A e, f \in queue' : e.url = f.url => e = f
    <3>1. \A e \in fromSitemap, f \in start : e.url # f.url
      BY <2>2, <2>3
    <3>2. QED
      BY <2>1, <2>2, <3>1
  <2>7. QED
    BY <2>1, <2>4, <2>5, <2>6 DEF QueueDisciplined
<1>2. CASE Finish \/ Abort \/ Stop \/ UNCHANGED vars
  BY <1>2 DEF Finish, Abort, Stop, vars, queueVars, QueueDisciplined
<1>3. ASSUME NEW w \in Worker, WorkerStep(w)
      PROVE  QueueDisciplined'
  <2>1. CASE KeepsFrontier(w)
    BY <2>1, FrontierKept DEF QueueDisciplined
  <2>2. CASE Pop(w)
    <3>1. PICK e \in queue :
            /\ queue' = queue \ {e}
            /\ enqueued' = enqueued \ {e.url}
            /\ visited' = visited \union {e.url}
      BY <2>2, PopClaims
    <3>2. enqueued' = {f.url : f \in queue'}
      BY <3>1 DEF QueueDisciplined
    <3>3. QED
      BY <3>1, <3>2 DEF QueueDisciplined
  <2>3. CASE FetchSucceeded(w) \/ Rendered(w)
    <3>1. CASE UNCHANGED <<queue, enqueued>>
      BY <2>3, <3>1, LinksPushed DEF QueueDisciplined
    <3>2. ASSUME NEW us \in SUBSET Url, NEW depth, PushAll(us, depth)
          PROVE  QueueDisciplined'
      BY <2>3, <3>2, LinksPushed, PushAllDisciplined
    <3>3. QED
      BY <2>3, <3>1, <3>2, LinksPushed
  <2>4. QED
    BY <1>3, <2>1, <2>2, <2>3 DEF WorkerStep, KeepsFrontier
<1>4. ASSUME NEW d \in Domain, Expire(d)
      PROVE  QueueDisciplined'
  BY <1>4 DEF Expire, queueVars, QueueDisciplined
<1>5. QED
  BY <1>1, <1>2, <1>3, <1>4 DEF Next, Terminating

\* The queue and the two sets of MemoryCrawlQueue never disagree, whatever
\* the workers push and pop.
THEOREM QueueDisciplinedAlways == Spec => []QueueDisciplined
<1>1. Init => QueueDisciplined
  <2>1. ASSUME Init PROVE QueueDisciplined
    <3>1. queue = {} /\ enqueued = {}
      BY <2>1 DEF Init
    <3>2. QED
      BY <3>1 DEF QueueDisciplined
  <2>2. QED
    BY <2>1
<1>2. QED
  BY <1>1, TypeCorrect, PhaseInvAlways, QueueDisciplinedStep, PTL DEF Spec

-----------------------------------------------------------------------------
(***************************************************************************)
(* One fetch and one row per URL.                                          *)
(***************************************************************************)
\* The actions of a worker in the middle of an iteration that do not pop,
\* write a row or learn of a robots.txt.
Proceeds(w) ==
  \/ Acquired(w) \/ FetchFailed(w) \/ FetchRaised(w) \/ FetchSucceeded(w)
  \/ ParseRaised(w) \/ NeedsBrowser(w) \/ Rendered(w) \/ SaveRaised(w)

\* What the actions in the middle of an iteration leave alone.
LEMMA ProceedsKeeps ==
  ASSUME TypeOK, NEW w \in Worker, Proceeds(w)
  PROVE  /\ UNCHANGED <<visited, item, pageRows, robots>>
         /\ InFlight(w) /\ pc[w] # "robots"
         /\ \E loc \in {"loop", "fetch", "render", "save", "saveFailed"} :
              /\ pc' = [pc EXCEPT ![w] = loc]
              /\ loc = "fetch" => pc[w] = "limiter"
BY DEF Proceeds, Acquired, FetchFailed, FetchRaised, FetchSucceeded,
       ParseRaised, NeedsBrowser, Rendered, SaveRaised, Release, InFlight,
       storeVars, TypeOK

\* What the actions of an idle worker leave alone.
LEMMA IdlesKeeps ==
  ASSUME TypeOK, NEW w \in Worker,
         Leave(w) \/ IdleBesideBusy(w) \/ IdleAlone(w) \/ BreakIdle(w)
  PROVE  /\ UNCHANGED <<visited, item, pageRows, robots>>
         /\ pc' = pc \/ pc' = [pc EXCEPT ![w] = "done"]
BY DEF Leave, IdleBesideBusy, IdleAlone, BreakIdle, storeVars

\* Every step keeps OneFetchPerUrl: only a pop starts on a URL, and what it
\* pops is not visited.
LEMMA OneFetchPerUrlStep ==
  TypeOK /\ QueueDisciplined /\ OneFetchPerUrl /\ [Next]_vars => OneFetchPerUrl'
<1> SUFFICES ASSUME TypeOK, QueueDisciplined, OneFetchPerUrl, [Next]_vars
             PROVE  OneFetchPerUrl'
  OBVIOUS
<1>0. /\ pc \in [Worker -> Location]
      /\ item \in [Worker -> [url : Url, depth : Depth]]
      /\ pageRows \in [Url -> Nat]
  BY DEF TypeOK
<1>1. CASE Seed \/ Finish \/ Abort \/ Stop \/ UNCHANGED vars
  BY <1>1, OthersDoNotMove DEF OneFetchPerUrl, InFlight
<1>2. ASSUME NEW w \in Worker, WorkerStep(w)
      PROVE  OneFetchPerUrl'
  <2>1. CASE Leave(w) \/ IdleBesideBusy(w) \/ IdleAlone(w) \/ BreakIdle(w)
    <3>1. \A v \in Worker : InFlight(v)' => InFlight(v)
      BY <1>0, <2>1, IdlesKeeps DEF InFlight
    <3>2. QED
      BY <2>1, <3>1, IdlesKeeps DEF OneFetchPerUrl
  <2>2. CASE Pop(w)
    <3>1. PICK e \in queue :
            /\ e.url \in enqueued /\ e.url \notin visited
            /\ visited' = visited \union {e.url}
            /\ item' = [item EXCEPT ![w] = [url |-> e.url, depth |-> e.depth]]
            /\ MoveTo(w, AfterPop(e.url))
      BY <2>2, PopClaims
    <3>2. pageRows' = pageRows
      BY <2>2 DEF Pop, storeVars
    <3>3. e.url \in Url
      BY DEF TypeOK, Entry
    <3>4. pageRows[e.url] = 0
      <4>1. pageRows[e.url] \in Nat
        BY <1>0, <3>3
      <4>2. pageRows[e.url] <= 1 /\ pageRows[e.url] # 1
        BY <3>1, <3>3 DEF OneFetchPerUrl
      <4>3. QED
        BY <4>1, <4>2
    <3>5. \A v \in Worker \ {w} :
            /\ item'[v] = item[v]
            /\ InFlight(v)' => InFlight(v)
      BY <1>0, <3>1 DEF MoveTo, InFlight
    <3>6. item'[w].url = e.url
      BY <1>0, <3>1
    <3>7. \A v \in Worker \ {w} : InFlight(v) => item[v].url # e.url
      BY <3>1 DEF OneFetchPerUrl
    <3>8. \A v \in Worker : InFlight(v)' =>
            item'[v].url \in visited' /\ pageRows'[item'[v].url] = 0
      BY <3>1, <3>2, <3>4, <3>5, <3>6 DEF OneFetchPerUrl
    <3>9. \A u, v \in Worker :
            InFlight(u)' /\ InFlight(v)' /\ item'[u].url = item'[v].url => u = v
      BY <3>5, <3>6, <3>7 DEF OneFetchPerUrl
    <3>10. \A u \in Url :
             pageRows'[u] <= 1 /\ (pageRows'[u] = 1 => u \in visited')
      BY <3>1, <3>2 DEF OneFetchPerUrl
    <3>11. QED
      BY <3>8, <3>9, <3>10 DEF OneFetchPerUrl
  <2>3. CASE RobotsAnswered(w)
    <3>1. /\ UNCHANGED <<visited, item, pageRows>>
          /\ pc[w] = "robots"
          /\ \E answer : MoveTo(w, AfterRobots(answer, item[w].url))
      BY <2>3 DEF RobotsAnswered, storeVars
    <3>2. \A v \in Worker : InFlight(v)' => InFlight(v)
      BY <1>0, <3>1 DEF MoveTo, InFlight
    <3>3. QED
      BY <3>1, <3>2 DEF OneFetchPerUrl
  <2>4. CASE Proceeds(w)
    <3>1. \A v \in Worker : InFlight(v)' => InFlight(v)
      BY <1>0, <2>4, ProceedsKeeps DEF InFlight
    <3>2. QED
      BY <2>4, <3>1, ProceedsKeeps DEF OneFetchPerUrl
  <2>5. CASE Saved(w)
    <3> DEFINE url == item[w].url
    <3>1. /\ UNCHANGED <<visited, item>>
          /\ pageRows' = [pageRows EXCEPT ![url] = @ + 1]
          /\ pc' = [pc EXCEPT ![w] = "loop"]
          /\ InFlight(w)
      BY <2>5 DEF Saved, Release, InFlight
    <3>2. url \in Url /\ url \in visited /\ pageRows[url] = 0
      BY <1>0, <3>1 DEF OneFetchPerUrl
    <3>3. \A v \in Worker : InFlight(v)' =>
            v # w /\ InFlight(v) /\ item[v].url # url
      BY <1>0, <3>1 DEF InFlight, OneFetchPerUrl
    <3>4. pageRows'[url] = 1 /\ \A u \in Url \ {url} : pageRows'[u] = pageRows[u]
      BY <1>0, <3>1, <3>2
    <3>5. \A v \in Worker : item[v].url \in Url
      BY <1>0
    <3> HIDE DEF url
    <3>6. \A v \in Worker : InFlight(v)' =>
            item'[v].url \in visited' /\ pageRows'[item'[v].url] = 0
      BY <3>1, <3>3, <3>4, <3>5 DEF OneFetchPerUrl
    <3>7. \A u, v \in Worker :
            InFlight(u)' /\ InFlight(v)' /\ item'[u].url = item'[v].url => u = v
      BY <3>1, <3>3 DEF OneFetchPerUrl
    <3>8. \A u \in Url :
            pageRows'[u] <= 1 /\ (pageRows'[u] = 1 => u \in visited')
      BY <3>1, <3>2, <3>4 DEF OneFetchPerUrl
    <3>9. QED
      BY <3>6, <3>7, <3>8 DEF OneFetchPerUrl
  <2>6. QED
    BY <1>2, <2>1, <2>2, <2>3, <2>4, <2>5 DEF WorkerStep, Proceeds
<1>3. ASSUME NEW d \in Domain, Expire(d)
      PROVE  OneFetchPerUrl'
  BY <1>3 DEF Expire, storeVars, OneFetchPerUrl, InFlight
<1>4. QED
  BY <1>1, <1>2, <1>3 DEF Next, Terminating

\* However many workers share the queue, no URL is in the hands of two of
\* them, none is fetched again after its page was stored, and table pages
\* gets at most one row for it.
THEOREM OneFetchPerUrlAlways == Spec => []OneFetchPerUrl
<1>1. Init => OneFetchPerUrl
  <2>1. ASSUME Init PROVE OneFetchPerUrl
    <3>1. pc = [w \in Worker |-> "loop"] /\ pageRows = [u \in Url |-> 0]
      BY <2>1 DEF Init
    <3>2. QED
      BY <3>1 DEF OneFetchPerUrl, InFlight
  <2>2. QED
    BY <2>1
<1>2. QED
  BY <1>1, TypeCorrect, QueueDisciplinedAlways, OneFetchPerUrlStep, PTL
     DEF Spec

-----------------------------------------------------------------------------
(***************************************************************************)
(* Rows and counters.                                                      *)
(***************************************************************************)
\* A page that was counted and whose row is still to be written.
Pending == {"render", "save"}

StoredUrls == {u \in Url : pageRows[u] > 0}

\* A worker gets a page pending only by counting it, and nothing but a commit
\* touches the rows and the job's counters.
LEMMA PendingIsCounted ==
  ASSUME TypeOK, NEW w \in Worker, WorkerStep(w), ~Saved(w)
  PROVE  /\ UNCHANGED <<pageRows, jobRow>>
         /\ \E loc \in Location :
              /\ pc' = [pc EXCEPT ![w] = loc]
              /\ \/ loc \in Pending => pc[w] \in Pending
                 \/ pagesCrawled' = pagesCrawled + 1
<1> USE DEF Pending
<1>1. UNCHANGED <<pageRows, jobRow>>
  BY DEF WorkerStep, Leave, IdleBesideBusy, IdleAlone, BreakIdle, Pop,
         RobotsAnswered, Acquired, FetchFailed, FetchRaised, FetchSucceeded,
         ParseRaised, NeedsBrowser, Rendered, SaveRaised, storeVars
<1>2. PICK loc \in Location :
        Moves(w, loc) /\ (CountsPage(w, loc) \/ CountsNothing(w, loc))
  BY WorkerMoves
<1>3. pc'[w] = loc
  BY <1>2 DEF Moves, TypeOK
<1>4. CASE FetchSucceeded(w) \/ NeedsBrowser(w)
  BY <1>1, <1>2, <1>4 DEF FetchSucceeded, NeedsBrowser, Moves
<1>5. CASE Rendered(w)
  BY <1>1, <1>2, <1>5 DEF Rendered, Moves
<1>6. CASE ~(FetchSucceeded(w) \/ NeedsBrowser(w) \/ Rendered(w))
  <2>1. pc'[w] = "loop" \/ pc'[w] \in {"done", "robots", "limiter", "raised",
                                       "fetch", "saveFailed"}
    BY <1>6, AfterPopType, AfterRobotsType
       DEF WorkerStep, Leave, IdleBesideBusy, IdleAlone, BreakIdle, Pop, MoveTo,
           RobotsAnswered, Acquired, FetchFailed, FetchRaised, ParseRaised,
           SaveRaised, Release, AtLoop, TypeOK
  <2>2. QED
    BY <1>1, <1>2, <1>3, <2>1 DEF Moves
<1>7. QED
  BY <1>4, <1>5, <1>6

\* pagesCrawled never goes down.
LEMMA PagesGrow ==
  ASSUME TypeOK, NEW w \in Worker, WorkerStep(w)
  PROVE  pagesCrawled' \in Nat /\ pagesCrawled' >= pagesCrawled
<1>1. pagesCrawled' = pagesCrawled \/ pagesCrawled' = pagesCrawled + 1
  BY WorkerMoves DEF CountsPage, CountsNothing
<1>2. QED
  BY <1>1 DEF TypeOK

\* A commit writes the first row of its URL and adds one to one counter.
LEMMA StatsSaved ==
  ASSUME TypeOK, OneFetchPerUrl, StatsMatchRows, NEW w \in Worker, Saved(w)
  PROVE  StatsMatchRows'
<1> DEFINE url == item[w].url
           before == Cardinality(WorkersAt(Pending))
           after == Cardinality(WorkersAt(Pending)')
<1>1. /\ pc \in [Worker -> Location] /\ pageRows \in [Url -> Nat]
      /\ jobRow \in [crawled : Nat, failed : Nat] /\ pagesCrawled \in Nat
      /\ url \in Url
  BY DEF TypeOK
<1>2. /\ pc[w] \in {"save", "saveFailed"}
      /\ pageRows' = [pageRows EXCEPT ![url] = @ + 1]
      /\ pc' = [pc EXCEPT ![w] = "loop"]
      /\ pagesCrawled' = pagesCrawled
      /\ jobRow' = Counted(pc[w], jobRow)
  BY DEF Saved, Release
<1>3. pageRows[url] = 0
  BY <1>2 DEF OneFetchPerUrl, InFlight
<1>4. Cardinality(StoredUrls') = Cardinality(StoredUrls) + 1
      /\ Cardinality(StoredUrls) \in Nat
  <2>1. url \notin StoredUrls /\ StoredUrls' = StoredUrls \union {url}
    BY <1>1, <1>2, <1>3 DEF StoredUrls
  <2>2. IsFiniteSet(StoredUrls)
    BY EngineAssumption, FS_Subset DEF StoredUrls
  <2>3. QED
    BY <2>1, <2>2, FS_AddElement, FS_CardinalityType
<1>5. /\ before \in Nat
      /\ after = before - (IF pc[w] \in Pending THEN 1 ELSE 0)
  <2>1. "loop" \in Location /\ "loop" \notin Pending
    BY DEF Location, Pending
  <2>2. /\ before \in Nat
        /\ after = before + (IF "loop" \in Pending THEN 1 ELSE 0)
                         - (IF pc[w] \in Pending THEN 1 ELSE 0)
    BY <1>1, <1>2, <2>1, WorkersAtMoved
  <2> HIDE DEF before, after
  <2>3. QED
    BY <2>1, <2>2
<1>6. jobRow'.crawled + jobRow'.failed = jobRow.crawled + jobRow.failed + 1
      /\ jobRow'.crawled = jobRow.crawled + (IF pc[w] = "save" THEN 1 ELSE 0)
  BY <1>1, <1>2 DEF Counted
<1> HIDE DEF before, after, url
<1>7. jobRow'.crawled + after <= pagesCrawled'
  <2>1. jobRow.crawled + before <= pagesCrawled
    BY DEF StatsMatchRows, before, Pending
  <2>2. jobRow.crawled \in Nat
    BY <1>1
  <2>3. CASE pc[w] = "save"
    BY <1>1, <1>2, <1>5, <1>6, <2>1, <2>2, <2>3 DEF Pending
  <2>4. CASE pc[w] = "saveFailed"
    BY <1>1, <1>2, <1>5, <1>6, <2>1, <2>2, <2>4 DEF Pending
  <2>5. QED
    BY <1>2, <2>3, <2>4
<1>8. jobRow'.crawled + jobRow'.failed = Cardinality(StoredUrls')
  BY <1>1, <1>4, <1>6 DEF StatsMatchRows, StoredUrls
<1>9. QED
  BY <1>7, <1>8 DEF StatsMatchRows, StoredUrls, after, Pending

\* Every step keeps StatsMatchRows.
LEMMA StatsMatchRowsStep ==
  TypeOK /\ OneFetchPerUrl /\ StatsMatchRows /\ [Next]_vars => StatsMatchRows'
<1> SUFFICES ASSUME TypeOK, OneFetchPerUrl, StatsMatchRows, [Next]_vars
             PROVE  StatsMatchRows'
  OBVIOUS
<1>1. CASE Seed \/ Finish \/ Abort \/ Stop \/ UNCHANGED vars
  BY <1>1 DEF Seed, Finish, Abort, Stop, vars, storeVars, StatsMatchRows,
              WorkersAt
<1>2. ASSUME NEW w \in Worker, WorkerStep(w)
      PROVE  StatsMatchRows'
  <2>1. CASE Saved(w)
    BY <2>1, StatsSaved
  <2>2. CASE ~Saved(w)
    <3> DEFINE before == Cardinality(WorkersAt(Pending))
               after == Cardinality(WorkersAt(Pending)')
    <3>1. UNCHANGED <<pageRows, jobRow>>
      BY <1>2, <2>2, PendingIsCounted
    <3>2. PICK loc \in Location :
            /\ pc' = [pc EXCEPT ![w] = loc]
            /\ \/ loc \in Pending => pc[w] \in Pending
               \/ pagesCrawled' = pagesCrawled + 1
      BY <1>2, <2>2, PendingIsCounted
    <3>3. /\ before \in Nat
          /\ after = before + (IF loc \in Pending THEN 1 ELSE 0)
                            - (IF pc[w] \in Pending THEN 1 ELSE 0)
      BY <3>2, WorkersAtMoved DEF TypeOK
    <3>4. /\ pagesCrawled \in Nat /\ pagesCrawled' \in Nat
          /\ pagesCrawled' >= pagesCrawled /\ jobRow.crawled \in Nat
      BY <1>2, PagesGrow DEF TypeOK
    <3>5. jobRow.crawled + before <= pagesCrawled
      BY DEF StatsMatchRows, Pending
    <3> HIDE DEF before, after
    <3>6. jobRow.crawled + after <= pagesCrawled'
      BY <3>2, <3>3, <3>4, <3>5
    <3>7. QED
      BY <3>1, <3>6 DEF StatsMatchRows, after, Pending
  <2>3. QED
    BY <2>1, <2>2
<1>3. ASSUME NEW d \in Domain, Expire(d)
      PROVE  StatsMatchRows'
  BY <1>3 DEF Expire, storeVars, StatsMatchRows, WorkersAt
<1>4. QED
  BY <1>1, <1>2, <1>3 DEF Next, Terminating

\* However the workers interleave and whichever transactions fail, the job's
\* counters are those of the rows in pages, and no page is in the counters
\* that the engine has not counted: row and counter change in one transaction.
THEOREM StatsMatchRowsAlways == Spec => []StatsMatchRows
<1>1. Init => StatsMatchRows
  <2>1. ASSUME Init PROVE StatsMatchRows
    <3>1. /\ pageRows = [u \in Url |-> 0] /\ pagesCrawled = 0
          /\ jobRow = [crawled |-> 0, failed |-> 0]
      BY <2>1 DEF Init
    <3>2. {u \in Url : pageRows[u] > 0} = {}
      BY <3>1
    <3>3. Cardinality(WorkersAt({"render", "save"})) = 0
      BY <2>1, WorkersAtInit
    <3>4. Cardinality({u \in Url : pageRows[u] > 0}) = 0
      BY <3>2, FS_EmptySet
    <3>5. QED
      BY <3>1, <3>3, <3>4 DEF StatsMatchRows
  <2>2. QED
    BY <2>1
<1>2. QED
  BY <1>1, TypeCorrect, OneFetchPerUrlAlways, StatsMatchRowsStep, PTL DEF Spec

-----------------------------------------------------------------------------
(***************************************************************************)
(* The rules of the start host.                                            *)
(***************************************************************************)
\* The strengthening of StartHostRulesBind: the answer run() got is cached, so
\* no worker ever asks the start host again and nothing can replace it.
StartHostInv ==
  RespectRobots /\ ~OutlivesCache =>
    /\ robots[DomainOf[StartUrl]] # "unknown"
    /\ \A w \in Worker :
         pc[w] = "robots" => DomainOf[item[w].url] # DomainOf[StartUrl]
    /\ StartHostRulesBind

\* Every step keeps StartHostInv: nobody fetches the robots.txt of the start
\* host, so its cached rules are never replaced.
LEMMA StartHostInvStep ==
  TypeOK /\ StartHostInv /\ [Next]_vars => StartHostInv'
<1> SUFFICES ASSUME TypeOK, StartHostInv, [Next]_vars,
                    RespectRobots, ~OutlivesCache
             PROVE  StartHostInv'
  BY DEF StartHostInv
<1> DEFINE start == DomainOf[StartUrl]
           barred(u) == u \in Disallowed /\ DomainOf[u] = start
<1>0. /\ pc \in [Worker -> Location]
      /\ item \in [Worker -> [url : Url, depth : Depth]]
      /\ robots \in [Domain -> RobotsAnswer \union {"unknown"}]
      /\ start \in Domain
  BY EngineAssumption DEF TypeOK
<1>a. robots[start] # "unknown"
  BY DEF StartHostInv
<1>b. \A w \in Worker : pc[w] = "robots" => DomainOf[item[w].url] # start
  BY DEF StartHostInv
<1>c. ASSUME robots[start] = "rules", NEW w \in Worker, barred(item[w].url)
      PROVE  pc[w] \notin {"limiter", "fetch"}
  BY <1>c DEF StartHostInv, StartHostRulesBind, Trespassers
\* It is enough to show the three parts for the worker that moves.
<1>d. ASSUME NEW w \in Worker, NEW loc,
             pc' = [pc EXCEPT ![w] = loc],
             \A v \in Worker \ {w} : item'[v] = item[v],
             robots'[start] = robots[start],
             loc = "robots" => DomainOf[item'[w].url] # start,
             robots[start] = "rules" /\ barred(item'[w].url)
               => loc \notin {"limiter", "fetch"}
      PROVE  StartHostInv'
  <2>1. pc'[w] = loc /\ \A v \in Worker \ {w} : pc'[v] = pc[v]
    BY <1>0, <1>d
  <2>2. \A v \in Worker : pc'[v] = "robots" => DomainOf[item'[v].url] # start
    BY <1>b, <1>d, <2>1
  <2>3. robots'[start] = "rules" =>
          \A v \in Worker : barred(item'[v].url) =>
             pc'[v] \notin {"limiter", "fetch"}
    BY <1>c, <1>d, <2>1
  <2>4. StartHostRulesBind'
    BY <2>3 DEF StartHostRulesBind, Trespassers
  <2>5. QED
    BY <1>a, <1>d, <2>2, <2>4 DEF StartHostInv
<1>1. CASE Seed \/ Finish \/ Abort \/ Stop \/ UNCHANGED vars
  BY <1>1, OthersDoNotMove
     DEF StartHostInv, StartHostRulesBind, Trespassers
<1>2. ASSUME NEW w \in Worker, WorkerStep(w)
      PROVE  StartHostInv'
  <2>1. CASE Leave(w) \/ IdleBesideBusy(w) \/ IdleAlone(w) \/ BreakIdle(w)
    <3>1. CASE pc' = pc
      BY <2>1, <3>1, IdlesKeeps
         DEF StartHostInv, StartHostRulesBind, Trespassers
    <3>2. CASE pc' = [pc EXCEPT ![w] = "done"]
      BY <2>1, <3>2, <1>d, IdlesKeeps
    <3>3. QED
      BY <2>1, <3>1, <3>2, IdlesKeeps
  <2>2. CASE Pop(w)
    <3>1. PICK e \in queue :
            /\ item' = [item EXCEPT ![w] = [url |-> e.url, depth |-> e.depth]]
            /\ MoveTo(w, AfterPop(e.url))
      BY <2>2 DEF Pop
    <3>2. robots' = robots
      BY <2>2 DEF Pop
    <3>3. item'[w].url = e.url /\ \A v \in Worker \ {w} : item'[v] = item[v]
      BY <1>0, <3>1
    <3>4. AfterPop(e.url) = "robots" => DomainOf[e.url] # start
      BY <1>a, AfterRobotsType DEF AfterPop
    <3>5. robots[start] = "rules" /\ barred(e.url)
            => AfterPop(e.url) \notin {"limiter", "fetch"}
      BY DEF AfterPop, AfterRobots
    <3>6. QED
      BY <1>d, <3>1, <3>2, <3>3, <3>4, <3>5 DEF MoveTo
  <2>3. CASE RobotsAnswered(w)
    <3>1. /\ item' = item /\ pc[w] = "robots"
          /\ \E answer :
               /\ robots' = [robots EXCEPT ![DomainOf[item[w].url]] = answer]
               /\ MoveTo(w, AfterRobots(answer, item[w].url))
      BY <2>3 DEF RobotsAnswered
    <3>2. DomainOf[item[w].url] # start
      BY <1>b, <3>1
    <3>3. robots'[start] = robots[start]
      BY <1>0, <3>1, <3>2
    <3>4. PICK loc \in {"loop", "limiter", "raised"} :
            pc' = [pc EXCEPT ![w] = loc]
      BY <3>1, AfterRobotsType DEF MoveTo
    <3>5. QED
      BY <1>d, <3>1, <3>2, <3>3, <3>4
  <2>4. CASE Proceeds(w)
    <3>1. PICK loc \in {"loop", "fetch", "render", "save", "saveFailed"} :
            /\ pc' = [pc EXCEPT ![w] = loc]
            /\ loc = "fetch" => pc[w] = "limiter"
      BY <2>4, ProceedsKeeps
    <3>2. UNCHANGED <<item, robots>>
      BY <2>4, ProceedsKeeps
    <3>3. QED
      BY <1>c, <1>d, <3>1, <3>2
  <2>5. CASE Saved(w)
    BY <1>d, <2>5 DEF Saved, Release
  <2>6. QED
    BY <1>2, <2>1, <2>2, <2>3, <2>4, <2>5 DEF WorkerStep, Proceeds
<1>3. ASSUME NEW d \in Domain, Expire(d)
      PROVE  StartHostInv'
  BY <1>3 DEF Expire
<1>4. QED
  BY <1>1, <1>2, <1>3 DEF Next, Terminating

\* Once run() has read rules for the start host, no interleaving of workers
\* and robots.txt answers of other hosts lets a disallowed URL of the start
\* host through to the fetcher, in a crawl that ends within a day.
THEOREM StartHostRulesBindAlways == Spec => []StartHostRulesBind
<1>1. Init => StartHostInv
  <2>1. ASSUME Init, RespectRobots, ~OutlivesCache PROVE StartHostInv
    <3>1. DomainOf[StartUrl] \in Domain
      BY EngineAssumption
    <3>2. robots[DomainOf[StartUrl]] \in RobotsAnswer
      BY <2>1, <3>1 DEF Init
    <3>3. pc = [w \in Worker |-> "loop"]
      BY <2>1 DEF Init
    <3>4. QED
      BY <3>2, <3>3
         DEF StartHostInv, StartHostRulesBind, Trespassers, RobotsAnswer
  <2>2. QED
    BY <2>1 DEF StartHostInv
<1>2. StartHostInv => StartHostRulesBind
  BY DEF StartHostInv, StartHostRulesBind
<1>3. QED
  BY <1>1, <1>2, TypeCorrect, StartHostInvStep, PTL DEF Spec

-----------------------------------------------------------------------------
(***************************************************************************)
(* The engine implements the contract.                                     *)
(***************************************************************************)
\* Workers return only from an empty queue or a crawl that was cut short, and
\* the last one to return leaves nothing behind it.
DrainedInv == AllReturned => queue = {} \/ ~MayContinue

\* A worker other than the one that leaves: nobody returns in such a step.
LEMMA NotReturned ==
  ASSUME TypeOK, NEW w \in Worker, NEW loc, loc # "done",
         pc' = [pc EXCEPT ![w] = loc]
  PROVE  ~AllReturned'
BY DEF AllReturned, TypeOK

\* Every step keeps DrainedInv.
LEMMA DrainedInvStep ==
  TypeOK /\ PhaseInv /\ DrainedInv /\ [Next]_vars => DrainedInv'
<1> SUFFICES ASSUME TypeOK, PhaseInv, DrainedInv, [Next]_vars
             PROVE  DrainedInv'
  OBVIOUS
<1>1. CASE Seed
  <2>1. \A w \in Worker : pc'[w] = "loop"
    BY <1>1 DEF Seed, PhaseInv
  <2>2. QED
    BY <2>1, EngineAssumption DEF DrainedInv, AllReturned
<1>2. CASE Finish \/ Abort \/ Stop \/ UNCHANGED vars
  BY <1>2 DEF Finish, Abort, Stop, vars, queueVars, DrainedInv, AllReturned,
              MayContinue
<1>3. ASSUME NEW w \in Worker, WorkerStep(w)
      PROVE  DrainedInv'
  <2>1. CASE Leave(w)
    BY <2>1 DEF Leave, DrainedInv, MayContinue, AllReturned
  <2>2. CASE BreakIdle(w)
    BY <2>2 DEF BreakIdle, NothingToDo, queueVars, DrainedInv
  <2>3. CASE IdleBesideBusy(w) \/ IdleAlone(w)
    BY <2>3 DEF IdleBesideBusy, IdleAlone, AtLoop, AllReturned, DrainedInv
  <2>4. CASE Pop(w)
    <3>1. PICK url : pc' = [pc EXCEPT ![w] = AfterPop(url)]
      BY <2>4 DEF Pop, MoveTo
    <3>2. QED
      BY <3>1, AfterPopType, NotReturned DEF DrainedInv
  <2>5. CASE RobotsAnswered(w)
    <3>1. PICK answer, url : pc' = [pc EXCEPT ![w] = AfterRobots(answer, url)]
      BY <2>5 DEF RobotsAnswered, MoveTo
    <3>2. QED
      BY <3>1, AfterRobotsType, NotReturned DEF DrainedInv
  <2>6. CASE Proceeds(w)
    BY <2>6, ProceedsKeeps, NotReturned DEF DrainedInv
  <2>7. CASE Saved(w)
    BY <2>7, NotReturned DEF Saved, Release, DrainedInv
  <2>8. QED
    BY <1>3, <2>1, <2>2, <2>3, <2>4, <2>5, <2>6, <2>7 DEF WorkerStep, Proceeds
<1>4. ASSUME NEW d \in Domain, Expire(d)
      PROVE  DrainedInv'
  BY <1>4 DEF Expire, queueVars, DrainedInv, AllReturned, MayContinue
<1>5. QED
  BY <1>1, <1>2, <1>3, <1>4 DEF Next, Terminating

\* DrainedInv holds throughout.
LEMMA DrainedInvAlways == Spec => []DrainedInv
<1>1. Init => DrainedInv
  <2>1. ASSUME Init PROVE DrainedInv
    <3>1. queue = {}
      BY <2>1 DEF Init
    <3>2. QED
      BY <3>1 DEF DrainedInv
  <2>2. QED
    BY <2>1
<1>2. QED
  BY <1>1, TypeCorrect, PhaseInvAlways, DrainedInvStep, PTL DEF Spec

\* The contract's variables, as the refinement mapping defines them.
Known == enqueued \union visited
Cut == isStopped \/ pagesCrawled >= MaxPages
Over == outcome \in {"completed", "stopped"}

\* Every step of the engine is a step of the contract or changes nothing in it.
LEMMA ContractStep ==
  TypeOK /\ PhaseInv /\ QueueDisciplined /\ DrainedInv /\ [Next]_vars
    => [Contract!ContractNext]_(Contract!contractVars)
<1> SUFFICES ASSUME TypeOK, PhaseInv, QueueDisciplined, DrainedInv, [Next]_vars
             PROVE  \/ Contract!ContractNext
                    \/ UNCHANGED <<Known, visited, Cut, Over>>
  BY DEF Contract!contractVars, Known, Cut, Over
\* The four steps of the contract, in the engine's variables.
<1>a. ASSUME ~Over, Known' \in SUBSET Url, Known \subseteq Known',
             UNCHANGED <<visited, Cut, Over>>
      PROVE  Contract!ContractNext
  BY <1>a DEF Contract!ContractNext, Contract!Discover, Known, Cut, Over
<1>b. ASSUME ~Over, ~Cut, NEW u \in Known \ visited,
             visited' = visited \union {u}, UNCHANGED <<Known, Cut, Over>>
      PROVE  Contract!ContractNext
  BY <1>b DEF Contract!ContractNext, Contract!Claim, Known, Cut, Over
<1>c. ASSUME Cut', UNCHANGED <<Known, visited, Over>>
      PROVE  Contract!ContractNext
  BY <1>c DEF Contract!ContractNext, Contract!CutShort, Known, Cut, Over
<1>d. ASSUME ~Over, Cut \/ Known = visited, Over',
             UNCHANGED <<Known, visited, Cut>>
      PROVE  Contract!ContractNext
  BY <1>d DEF Contract!ContractNext, Contract!End, Known, Cut, Over
<1>1. CASE Seed
  <2>1. ~Over /\ UNCHANGED <<visited, Cut, Over>>
    BY <1>1 DEF Seed, Over, Cut
  <2>2. Known = {} /\ visited' = {} /\ enqueued' \in SUBSET Url
    BY <1>1, EngineAssumption DEF Seed, PhaseInv, Known
  <2>3. QED
    BY <1>a, <2>1, <2>2 DEF Known
<1>2. CASE Finish
  <2>1. ~Over /\ Over' /\ UNCHANGED <<Known, visited, Cut>>
    BY <1>2 DEF Finish, Over, Known, Cut, queueVars
  <2>2. queue = {} \/ ~MayContinue
    BY <1>2 DEF Finish, DrainedInv
  <2>3. queue = {} => Known = visited
    BY DEF QueueDisciplined, Known
  <2>4. ~MayContinue => Cut
    BY EngineAssumption DEF MayContinue, Cut, TypeOK
  <2>5. QED
    BY <1>d, <2>1, <2>2, <2>3, <2>4
<1>3. CASE Abort
  BY <1>3 DEF Abort, Known, Cut, Over, queueVars
<1>4. CASE Stop
  <2>1. Cut'
    BY <1>4 DEF Stop, Cut
  <2>2. UNCHANGED <<Known, visited, Over>>
    BY <1>4 DEF Stop, Known, Over, queueVars
  <2>3. QED
    BY <1>c, <2>1, <2>2
<1>5. CASE UNCHANGED vars
  BY <1>5 DEF vars, Known, Cut, Over
<1>6. ASSUME NEW w \in Worker, WorkerStep(w)
      PROVE  \/ Contract!ContractNext
             \/ UNCHANGED <<Known, visited, Cut, Over>>
  <2>1. ~Over /\ Over' = Over
    BY <1>6, WorkerStepPhase DEF Over
  <2>2. CASE KeepsFrontier(w)
    <3>1. UNCHANGED <<Known, visited, isStopped>>
      BY <2>2, FrontierKept DEF Known
    <3>2. pagesCrawled' = pagesCrawled \/ pagesCrawled' = pagesCrawled + 1
      BY <2>2
         DEF KeepsFrontier, Leave, IdleBesideBusy, IdleAlone, BreakIdle,
             RobotsAnswered, Acquired, FetchFailed, FetchRaised, ParseRaised,
             NeedsBrowser, Saved, SaveRaised
    <3>3. Cut' = Cut \/ Cut'
      BY <3>1, <3>2, EngineAssumption DEF Cut, TypeOK
    <3>4. QED
      BY <1>c, <2>1, <3>1, <3>3
  <2>3. CASE Pop(w)
    <3>1. PICK e \in queue :
            /\ e.url \in enqueued /\ e.url \notin visited
            /\ enqueued' = enqueued \ {e.url}
            /\ visited' = visited \union {e.url}
      BY <2>3, PopClaims
    <3>2. ~Cut /\ Cut' = Cut
      BY <2>3, EngineAssumption DEF Pop, MayContinue, Cut, TypeOK
    <3>3. e.url \in Known \ visited /\ Known' = Known
      BY <3>1 DEF Known
    <3>4. QED
      BY <1>b, <2>1, <3>1, <3>2, <3>3
  <2>4. CASE FetchSucceeded(w) \/ Rendered(w)
    <3>1. /\ UNCHANGED <<visited, isStopped>>
          /\ pagesCrawled' \in Nat /\ pagesCrawled' >= pagesCrawled
      BY <2>4, LinksPushed
    <3>2. CASE UNCHANGED <<queue, enqueued>>
      <4>1. UNCHANGED <<Known, visited>>
        BY <3>1, <3>2 DEF Known
      <4>2. Cut' = Cut \/ Cut'
        BY <3>1, EngineAssumption DEF Cut, TypeOK
      <4>3. QED
        BY <1>c, <2>1, <4>1, <4>2
    <3>3. ASSUME NEW us \in SUBSET Url, NEW depth, PushAll(us, depth),
                 pagesCrawled' < MaxPages
          PROVE  Contract!ContractNext
      <4>1. Cut' = Cut
        BY <3>1, <3>3, EngineAssumption DEF Cut, TypeOK
      <4>2. Known' \in SUBSET Url /\ Known \subseteq Known'
        BY <3>1, <3>3 DEF PushAll, Fresh, Known, TypeOK
      <4>3. QED
        BY <1>a, <2>1, <3>1, <4>1, <4>2
    <3>4. QED
      BY <2>4, <3>2, <3>3, LinksPushed
  <2>5. QED
    BY <1>6, <2>2, <2>3, <2>4 DEF WorkerStep, KeepsFrontier
<1>7. ASSUME NEW d \in Domain, Expire(d)
      PROVE  UNCHANGED <<Known, visited, Cut, Over>>
  BY <1>7 DEF Expire, queueVars, Known, Cut, Over
<1>8. QED
  BY <1>1, <1>2, <1>3, <1>4, <1>5, <1>6, <1>7 DEF Next, Terminating

\* The worker pool implements the contract: each URL is claimed once, nothing
\* is claimed after a stop or once the budget is used up, and the crawl does
\* not end with known URLs left over unless it was cut short.
THEOREM EngineImplementsContract == Spec => ImplementsContract
<1>1. Init => Contract!ContractInit
  <2>1. ASSUME Init PROVE Contract!ContractInit
    <3>1. enqueued = {} /\ visited = {} /\ pagesCrawled = 0 /\ outcome = "seeding"
      BY <2>1 DEF Init
    <3>2. isStopped = FALSE
      BY <2>1, Zenon DEF Init
    <3>3. ~(isStopped \/ pagesCrawled >= MaxPages)
      BY <3>1, <3>2, EngineAssumption
    <3>4. QED
      BY <3>1, <3>3 DEF Contract!ContractInit
  <2>2. QED
    BY <2>1
<1>2. QED
  BY <1>1, TypeCorrect, PhaseInvAlways, QueueDisciplinedAlways,
     DrainedInvAlways, ContractStep, PTL
     DEF Spec, ImplementsContract, Contract!ContractSpec

=============================================================================
