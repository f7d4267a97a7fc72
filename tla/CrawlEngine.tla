---------------------------- MODULE CrawlEngine ----------------------------
(***************************************************************************)
(* The worker pool of one crawl: CrawlEngine._worker_loop run by           *)
(* `concurrency` asyncio tasks over one MemoryCrawlQueue, from the moment  *)
(* run() seeds the queue to the moment asyncio.gather returns.             *)
(*                                                                         *)
(* Tasks of one event loop interleave only where a coroutine suspends.     *)
(* The locks of MemoryCrawlQueue and _workers_lock are never held across a *)
(* suspension, so acquiring them never suspends: pop, is_visited and       *)
(* mark_visited run as one step.  A worker suspends, and another may run,  *)
(* only in the places named by its program counter:                        *)
(*                                                                         *)
(*   loop        not started yet, or in asyncio.sleep after an empty pop   *)
(*   robots      waiting for a robots.txt that is not cached               *)
(*   limiter     waiting in rate_limiter.acquire                           *)
(*   fetch       waiting for fetcher.fetch                                 *)
(*   render      waiting for the optional browser                          *)
(*   save        waiting for the transaction of a page that was fetched    *)
(*   saveFailed  waiting for the transaction of a page that was not        *)
(*   done        returned             raised   ended with an exception     *)
(***************************************************************************)
EXTENDS Integers, FiniteSets

CONSTANTS
  Worker,         \* the worker tasks; concurrency = Cardinality(Worker)
  Url,            \* the (normalised) URLs of the site
  Domain,         \* hosts; robots.txt is cached per host
  DomainOf,       \* [Url -> Domain]
  Links,          \* [Url -> SUBSET Url], what get_links returns for a page
  Priority,       \* [Url -> Nat], get_url_priority
  StartUrl,
  SitemapUrls,    \* what sitemap discovery returned
  Disallowed,     \* URLs the robots.txt of their host disallows
  MaxPages,
  MaxDepth,
  IdleLimit,      \* the 15 empty pops a worker tolerates
  RespectRobots,  \* respect_robots_txt
  OutlivesCache,  \* the crawl may take longer than cache_ttl, a day
  EnableBrowser,  \* enable_browser_rendering
  BadAgent        \* the user agent has no product token ("/1.0"): matching
                  \* it against a robots.txt raises IndexError

ASSUME EngineAssumption ==
  /\ IsFiniteSet(Worker) /\ Worker # {}
  /\ IsFiniteSet(Url) /\ StartUrl \in Url
  /\ DomainOf \in [Url -> Domain]
  /\ Links \in [Url -> SUBSET Url]
  /\ Priority \in [Url -> Nat]
  /\ SitemapUrls \subseteq Url
  /\ Disallowed \subseteq Url
  /\ MaxPages \in Nat \ {0}
  /\ MaxDepth \in Nat \ {0}
  /\ IdleLimit \in Nat
  /\ RespectRobots \in BOOLEAN
  /\ OutlivesCache \in BOOLEAN
  /\ EnableBrowser \in BOOLEAN
  /\ BadAgent \in BOOLEAN

VARIABLES
  queue,         \* MemoryCrawlQueue._queue
  enqueued,      \* MemoryCrawlQueue._enqueued
  visited,       \* MemoryCrawlQueue._visited
  batch,         \* MemoryCrawlQueue._counter, once per batch of pushes
  pc,            \* where each worker is suspended
  item,          \* the (url, depth) a worker popped last
  idleCycles,    \* idle_cycles of each worker
  activeWorkers, \* _active_workers
  pagesCrawled,  \* _pages_crawled
  isStopped,     \* _is_stopped
  robots,        \* RobotsManager._cache: what is known of each host
  pageRows,      \* rows of table pages, per URL
  jobRow,        \* the counters of the row in table crawl_jobs
  outcome        \* what gather gave run(): the final status, once there

queueVars == <<queue, enqueued, batch>>
storeVars == <<pageRows, jobRow>>
vars == <<queue, enqueued, visited, batch, pc, item, idleCycles,
          activeWorkers, pagesCrawled, isStopped, robots, pageRows, jobRow,
          outcome>>

Location == {"loop", "robots", "limiter", "fetch", "render", "save",
             "saveFailed", "done", "raised"}

\* A worker counts itself active from the rate limiter to the release.
ActiveLocation == {"limiter", "fetch", "render", "save", "saveFailed"}

\* A worker that has passed the budget test but not counted its page yet.
UncountedLocation == {"robots", "limiter", "fetch"}

\* "rules": a robots.txt was read; "open": there is none, or it could not be
\* read, and then everything is allowed.
RobotsAnswer == {"rules", "open"}

Ended == {"done", "raised"}

WorkersAt(locations) == {w \in Worker : pc[w] \in locations}

Depth == 0 .. MaxDepth

Entry == [url : Url, depth : Depth, priority : Nat, batch : Nat]

-----------------------------------------------------------------------------
(***************************************************************************)
(* The queue.  Entries pop in the order of (-priority, counter); the links *)
(* of one page share a counter here, because their order in the page does  *)
(* not matter to anything that follows.                                    *)
(***************************************************************************)
PopsBefore(e, f) ==
  \/ e.priority > f.priority
  \/ e.priority = f.priority /\ e.batch <= f.batch

\* The definitions named Faulty... are deliberate faults that no action uses:
\* each stands in for the definition after it to show that a property notices.
FaultyFreshVisited(us) == us \ enqueued

\* The URLs of us that push accepts: neither visited nor enqueued.
Fresh(us) == us \ (visited \union enqueued)

EntriesOf(us, depth, priority, n) ==
  {[url |-> u, depth |-> depth, priority |-> priority[u], batch |-> n] :
     u \in us}

PushAll(us, depth) ==
  /\ queue' = queue \union EntriesOf(Fresh(us), depth, Priority, batch + 1)
  /\ enqueued' = enqueued \union Fresh(us)
  /\ batch' = batch + 1

-----------------------------------------------------------------------------
(***************************************************************************)
(* run(): seeding the queue and collecting the workers.                    *)
(***************************************************************************)
Init ==
  /\ queue = {} /\ enqueued = {} /\ visited = {} /\ batch = 0
  /\ pc = [w \in Worker |-> "loop"]
  /\ item = [w \in Worker |-> [url |-> StartUrl, depth |-> 0]]
  /\ idleCycles = [w \in Worker |-> 0]
  /\ activeWorkers = 0
  /\ pagesCrawled = 0
  /\ isStopped = FALSE
  \* run() has read the robots.txt of the start host, and has returned
  \* already if it disallows the start URL or could not be matched.
  /\ \E answer \in RobotsAnswer :
       /\ (RespectRobots /\ answer = "rules") =>
            (StartUrl \notin Disallowed /\ ~BadAgent)
       /\ robots = [d \in Domain |->
            IF RespectRobots /\ d = DomainOf[StartUrl]
              THEN answer ELSE "unknown"]
  /\ pageRows = [u \in Url |-> 0]
  /\ jobRow = [crawled |-> 0, failed |-> 0]
  /\ outcome = "seeding"

\* The sitemap URLs are pushed first, the start URL last, with nothing in
\* between: the workers do not exist yet.
Seed ==
  /\ outcome = "seeding"
  /\ LET listed == SitemapUrls \ {StartUrl} IN
       /\ queue' =
            EntriesOf(listed, 1, [u \in Url |-> 50], 1) \union
            EntriesOf({StartUrl}, 0, [u \in Url |-> 100], 2)
       /\ enqueued' = listed \union {StartUrl}
       /\ batch' = 2
  /\ outcome' = "crawling"
  /\ UNCHANGED <<visited, pc, item, idleCycles, activeWorkers, pagesCrawled,
                 isStopped, robots, storeVars>>

FaultyAllReturned == \E w \in Worker : pc[w] = "done"
AllReturned == \A w \in Worker : pc[w] = "done"

\* asyncio.gather returns once every worker has returned.
Finish ==
  /\ outcome = "crawling"
  /\ AllReturned
  /\ outcome' = IF isStopped THEN "stopped" ELSE "completed"
  /\ UNCHANGED <<queueVars, visited, pc, item, idleCycles, activeWorkers,
                 pagesCrawled, isStopped, robots, storeVars>>

\* asyncio.gather raises as soon as one worker has; it cancels no other.
Abort ==
  /\ outcome = "crawling"
  /\ \E w \in Worker : pc[w] = "raised"
  /\ outcome' = "failed"
  /\ UNCHANGED <<queueVars, visited, pc, item, idleCycles, activeWorkers,
                 pagesCrawled, isStopped, robots, storeVars>>

\* CrawlEngine.stop: the service may call it until run() has returned, so
\* even after the outcome is settled, when it changes nothing any more.
Stop ==
  /\ ~isStopped
  /\ isStopped' = TRUE
  /\ UNCHANGED <<queueVars, visited, pc, item, idleCycles, activeWorkers,
                 pagesCrawled, robots, storeVars, outcome>>

\* A cached robots.txt gets too old, and counts as not read.
Expire(d) ==
  /\ OutlivesCache
  /\ robots[d] # "unknown"
  /\ robots' = [robots EXCEPT ![d] = "unknown"]
  /\ UNCHANGED <<queueVars, visited, pc, item, idleCycles, activeWorkers,
                 pagesCrawled, isStopped, storeVars, outcome>>

-----------------------------------------------------------------------------
(***************************************************************************)
(* _worker_loop, up to the first suspension of an iteration.               *)
(***************************************************************************)
\* The workers are tasks created after the seeding.
AtLoop(w) == outcome # "seeding" /\ pc[w] = "loop"

FaultyMayContinue == pagesCrawled < MaxPages
FaultyMayContinueBudget == ~isStopped /\ pagesCrawled <= MaxPages

\* The condition of the while.
MayContinue == ~isStopped /\ pagesCrawled < MaxPages

Leave(w) ==
  /\ AtLoop(w)
  /\ ~MayContinue
  /\ pc' = [pc EXCEPT ![w] = "done"]
  /\ UNCHANGED <<queueVars, visited, item, idleCycles, activeWorkers,
                 pagesCrawled, isStopped, robots, storeVars, outcome>>

FaultyNothingToDo == activeWorkers = 0
NothingToDo == queue = {} /\ activeWorkers = 0

\* An empty pop while another worker is active resets the idle count, any
\* other empty pop raises it, and the one that exceeds the limit breaks.
IdleBesideBusy(w) ==
  /\ AtLoop(w) /\ MayContinue /\ queue = {}
  /\ activeWorkers > 0
  /\ idleCycles' = [idleCycles EXCEPT ![w] = 0]
  /\ UNCHANGED <<queueVars, visited, pc, item, activeWorkers, pagesCrawled,
                 isStopped, robots, storeVars, outcome>>

IdleAlone(w) ==
  /\ AtLoop(w) /\ MayContinue /\ NothingToDo
  /\ idleCycles[w] + 1 <= IdleLimit
  /\ idleCycles' = [idleCycles EXCEPT ![w] = @ + 1]
  /\ UNCHANGED <<queueVars, visited, pc, item, activeWorkers, pagesCrawled,
                 isStopped, robots, storeVars, outcome>>

BreakIdle(w) ==
  /\ AtLoop(w) /\ MayContinue /\ NothingToDo
  /\ idleCycles[w] + 1 > IdleLimit
  /\ idleCycles' = [idleCycles EXCEPT ![w] = @ + 1]
  /\ pc' = [pc EXCEPT ![w] = "done"]
  /\ UNCHANGED <<queueVars, visited, item, activeWorkers, pagesCrawled,
                 isStopped, robots, storeVars, outcome>>

FaultyAfterRobots(answer, url) ==
  IF answer = "rules" /\ BadAgent THEN "raised" ELSE "limiter"

\* Where a worker goes with url once it knows what the host's robots say.
AfterRobots(answer, url) ==
  CASE answer = "rules" /\ BadAgent -> "raised"
    [] answer = "rules" /\ ~BadAgent /\ url \in Disallowed -> "loop"
    [] OTHER -> "limiter"

\* Where it goes from the pop: past the visited test, and past the robots
\* test if it is off or the host is cached.
AfterPop(url) ==
  IF url \in visited THEN "loop"
  ELSE IF ~RespectRobots THEN "limiter"
  ELSE IF robots[DomainOf[url]] = "unknown" THEN "robots"
  ELSE AfterRobots(robots[DomainOf[url]], url)

\* The step of w to location loc; entering the rate limiter counts it active.
MoveTo(w, loc) ==
  /\ pc' = [pc EXCEPT ![w] = loc]
  /\ activeWorkers' = activeWorkers + (IF loc = "limiter" THEN 1 ELSE 0)

FaultyMarkVisited(url) == UNCHANGED visited
MarkVisited(url) == visited' = visited \union {url}

Pop(w) ==
  /\ AtLoop(w) /\ MayContinue
  /\ \E e \in queue :
       /\ \A f \in queue : PopsBefore(e, f)
       /\ queue' = queue \ {e}
       /\ enqueued' = enqueued \ {e.url}
       /\ MarkVisited(e.url)
       /\ item' = [item EXCEPT ![w] = [url |-> e.url, depth |-> e.depth]]
       /\ MoveTo(w, AfterPop(e.url))
  /\ idleCycles' = [idleCycles EXCEPT ![w] = 0]
  /\ UNCHANGED <<batch, pagesCrawled, isStopped, robots, storeVars, outcome>>

-----------------------------------------------------------------------------
(***************************************************************************)
(* The rest of an iteration.                                               *)
(***************************************************************************)
\* The answer replaces whatever another worker has cached meanwhile.
RobotsAnswered(w) ==
  /\ pc[w] = "robots"
  /\ \E answer \in RobotsAnswer :
       /\ robots' = [robots EXCEPT ![DomainOf[item[w].url]] = answer]
       /\ MoveTo(w, AfterRobots(answer, item[w].url))
  /\ UNCHANGED <<queueVars, visited, item, idleCycles, pagesCrawled,
                 isStopped, storeVars, outcome>>

\* The rate limiter lets w go; nothing is tested again before the fetch.
Acquired(w) ==
  /\ pc[w] = "limiter"
  /\ pc' = [pc EXCEPT ![w] = "fetch"]
  /\ UNCHANGED <<queueVars, visited, item, idleCycles, activeWorkers,
                 pagesCrawled, isStopped, robots, storeVars, outcome>>

FaultyRelease(w) ==
  /\ pc' = [pc EXCEPT ![w] = "loop"]
  /\ activeWorkers' = activeWorkers - (IF pc[w] = "fetch" THEN 0 ELSE 1)

\* The finally clause: w is no longer active and starts over.
Release(w) ==
  /\ pc' = [pc EXCEPT ![w] = "loop"]
  /\ activeWorkers' = activeWorkers - 1

FetchFailed(w) ==
  /\ pc[w] = "fetch"
  /\ pc' = [pc EXCEPT ![w] = "saveFailed"]
  /\ UNCHANGED <<queueVars, visited, item, idleCycles, activeWorkers,
                 pagesCrawled, isStopped, robots, storeVars, outcome>>

\* fetch itself raises (reading the body): logged, counted nowhere.
FetchRaised(w) ==
  /\ pc[w] = "fetch"
  /\ Release(w)
  /\ UNCHANGED <<queueVars, visited, item, idleCycles, pagesCrawled,
                 isStopped, robots, storeVars, outcome>>

FaultyPushLinks(w, crawled) ==
  IF crawled + Cardinality(queue) < MaxPages
  THEN PushAll(Links[item[w].url], item[w].depth + 1)
  ELSE UNCHANGED queueVars

\* The links of a page are queued if depth and budget leave room for any;
\* the test sees crawled pages already counting this one.
PushLinks(w, crawled) ==
  IF /\ item[w].depth < MaxDepth
     /\ crawled + Cardinality(queue) < MaxPages
  THEN PushAll(Links[item[w].url], item[w].depth + 1)
  ELSE UNCHANGED queueVars

FetchSucceeded(w) ==
  /\ pc[w] = "fetch"
  /\ pagesCrawled' = pagesCrawled + 1
  /\ PushLinks(w, pagesCrawled')
  /\ pc' = [pc EXCEPT ![w] = "save"]
  /\ UNCHANGED <<visited, item, idleCycles, activeWorkers, isStopped, robots,
                 storeVars, outcome>>

\* The page was counted, then parsing it raised.
ParseRaised(w) ==
  /\ \/ pc[w] = "fetch" /\ pagesCrawled' = pagesCrawled + 1
     \/ pc[w] = "render" /\ UNCHANGED pagesCrawled
  /\ Release(w)
  /\ UNCHANGED <<queueVars, visited, item, idleCycles, isStopped, robots,
                 storeVars, outcome>>

\* A page with hardly any content is rendered before it is parsed.
NeedsBrowser(w) ==
  /\ EnableBrowser
  /\ pc[w] = "fetch"
  /\ pagesCrawled' = pagesCrawled + 1
  /\ pc' = [pc EXCEPT ![w] = "render"]
  /\ UNCHANGED <<queueVars, visited, item, idleCycles, activeWorkers,
                 isStopped, robots, storeVars, outcome>>

Rendered(w) ==
  /\ pc[w] = "render"
  /\ PushLinks(w, pagesCrawled)
  /\ pc' = [pc EXCEPT ![w] = "save"]
  /\ UNCHANGED <<visited, item, idleCycles, activeWorkers, pagesCrawled,
                 isStopped, robots, storeVars, outcome>>

FaultyCounted(loc, row) == [row EXCEPT !.crawled = @ + 1]

\* The counters after the page of a worker at loc has been written.
Counted(loc, row) ==
  IF loc = "save" THEN [row EXCEPT !.crawled = @ + 1]
                  ELSE [row EXCEPT !.failed = @ + 1]

\* One transaction writes the page and adds to the job's counters.
Saved(w) ==
  /\ pc[w] \in {"save", "saveFailed"}
  /\ pageRows' = [pageRows EXCEPT ![item[w].url] = @ + 1]
  /\ jobRow' = Counted(pc[w], jobRow)
  /\ Release(w)
  /\ UNCHANGED <<queueVars, visited, item, idleCycles, pagesCrawled,
                 isStopped, robots, outcome>>

\* Or it fails as a whole, and the exception is logged.
SaveRaised(w) ==
  /\ pc[w] \in {"save", "saveFailed"}
  /\ Release(w)
  /\ UNCHANGED <<queueVars, visited, item, idleCycles, pagesCrawled,
                 isStopped, robots, storeVars, outcome>>

-----------------------------------------------------------------------------
WorkerStep(w) ==
  \/ Leave(w) \/ IdleBesideBusy(w) \/ IdleAlone(w) \/ BreakIdle(w) \/ Pop(w)
  \/ RobotsAnswered(w) \/ Acquired(w)
  \/ FetchFailed(w) \/ FetchRaised(w) \/ FetchSucceeded(w) \/ ParseRaised(w)
  \/ NeedsBrowser(w) \/ Rendered(w)
  \/ Saved(w) \/ SaveRaised(w)

\* run() has its outcome and no worker is left.
Terminating ==
  /\ outcome \in {"completed", "stopped", "failed"}
  /\ \A w \in Worker : pc[w] \in Ended
  /\ UNCHANGED vars

Next ==
  \/ Seed \/ Finish \/ Abort \/ Stop
  \/ \E d \in Domain : Expire(d)
  \/ \E w \in Worker : WorkerStep(w)
  \/ Terminating

\* The event loop runs every task that is ready; sleeps, fetches and
\* transactions all end.  Nobody has to call stop.
Fairness ==
  /\ WF_vars(Seed) /\ WF_vars(Finish) /\ WF_vars(Abort)
  /\ \A w \in Worker : WF_vars(WorkerStep(w))

Spec == Init /\ [][Next]_vars /\ Fairness

-----------------------------------------------------------------------------
(***************************************************************************)
(* Properties.                                                             *)
(***************************************************************************)
Outcome == {"seeding", "crawling", "completed", "stopped", "failed"}

\* Every variable keeps its type; no entry gets deeper than max_depth.
TypeOK ==
  /\ queue \subseteq Entry
  /\ enqueued \subseteq Url
  /\ visited \subseteq Url
  /\ batch \in Nat
  /\ pc \in [Worker -> Location]
  /\ item \in [Worker -> [url : Url, depth : Depth]]
  /\ idleCycles \in [Worker -> Nat]
  /\ activeWorkers \in Int
  /\ pagesCrawled \in Nat
  /\ isStopped \in BOOLEAN
  /\ robots \in [Domain -> RobotsAnswer \union {"unknown"}]
  /\ pageRows \in [Url -> Nat]
  /\ jobRow \in [crawled : Nat, failed : Nat]
  /\ outcome \in Outcome

\* The three collections of MemoryCrawlQueue agree: a URL has at most one
\* entry, _enqueued is exactly the URLs that have one, and none is visited.
QueueDisciplined ==
  /\ enqueued = {e.url : e \in queue}
  /\ \A e, f \in queue : e.url = f.url => e = f
  /\ enqueued \intersect visited = {}

InFlight(w) == pc[w] \notin {"loop", "done", "raised"}

\* A URL is fetched by one worker at a time and gets at most one row in
\* pages, however many pages link to it and whoever pops it: a second worker
\* or a second round never starts on it.
OneFetchPerUrl ==
  /\ \A w \in Worker : InFlight(w) =>
       item[w].url \in visited /\ pageRows[item[w].url] = 0
  /\ \A v, w \in Worker :
       InFlight(v) /\ InFlight(w) /\ item[v].url = item[w].url => v = w
  /\ \A u \in Url :
       pageRows[u] <= 1 /\ (pageRows[u] = 1 => u \in visited)

\* _active_workers counts exactly the workers between the rate limiter and
\* the end of the finally clause, whichever way the iteration ended.
ActiveCounted == activeWorkers = Cardinality(WorkersAt(ActiveLocation))

\* max_pages is tested before the pop and pages are counted after the fetch,
\* so each other worker may be one page past the test: the crawl overshoots
\* its budget by at most concurrency - 1 pages.
BudgetOvershootBounded ==
  pagesCrawled <= MaxPages + Cardinality(Worker) - 1

\* The job's counters agree with the rows in pages, and never exceed what
\* the engine counted in memory.
StatsMatchRows ==
  /\ jobRow.crawled + jobRow.failed =
       Cardinality({u \in Url : pageRows[u] > 0})
  /\ jobRow.crawled + Cardinality(WorkersAt({"render", "save"}))
       <= pagesCrawled

\* Workers that were granted a fetch of a disallowed URL of host d.
Trespassers(d) ==
  {w \in Worker : /\ pc[w] \in {"limiter", "fetch"}
                  /\ item[w].url \in Disallowed
                  /\ DomainOf[item[w].url] = d}

\* The rules run() read for the start host bind every worker to the end of the
\* crawl, or of the day for which they are cached: whatever the other hosts
\* answer meanwhile, no worker is granted the fetch of a disallowed URL of the
\* start host it has popped (where a redirect of the fetch leads is not tested).
StartHostRulesBind ==
  (RespectRobots /\ ~OutlivesCache /\ robots[DomainOf[StartUrl]] = "rules")
    => Trespassers(DomainOf[StartUrl]) = {}

\* What the engine promises to whoever looks at its frontier only: each URL
\* is claimed once, nothing is claimed after a stop or past the budget, and
\* the crawl does not end with URLs left over unless it was cut short.
Contract == INSTANCE CrawlContract WITH
  known <- enqueued \union visited,
  claimed <- visited,
  cut <- isStopped \/ pagesCrawled >= MaxPages,
  ended <- outcome \in {"completed", "stopped"}

ImplementsContract == Contract!ContractSpec

\* Every crawl comes to its outcome and every worker returns, although an idle
\* worker polls for as long as another one is busy.
CrawlEnds ==
  <>(outcome \in {"completed", "stopped", "failed"}
     /\ \A w \in Worker : pc[w] \in Ended)

\* A queued URL is not forgotten: some worker takes it out, unless the crawl
\* is cut short or a worker has brought it down.
QueuedIsTaken ==
  \A u \in Url :
    u \in enqueued ~> (u \notin enqueued \/ ~MayContinue
                       \/ \E w \in Worker : pc[w] = "raised")

\* What the README says of robots.txt, read for one host: once its rules have
\* been read and no fetch against them is under way, none gets under way.
RulesOnceReadBind ==
  \A d \in Domain :
    []((robots[d] = "rules" /\ Trespassers(d) = {}) => [](Trespassers(d) = {}))

=============================================================================
