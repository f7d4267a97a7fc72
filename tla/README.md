# A TLA+ model of the contact crawler

The repository is a Python 3.12 service that crawls web sites for contact
data: a FastAPI process accepts crawl jobs, each job runs a `CrawlEngine` with
a pool of asyncio workers, pages and contacts go to SQLite or PostgreSQL.
This directory holds the specification kept beside that code: TLA+ modules,
TLC configurations and TLAPS proofs.

    tlc -workers 2 -config EngineSafety.cfg MCCrawlEngine.tla   # one run
    tlapm CrawlEngineProofs.tla                                 # proofs of one module

`PROJECT.json` lists the runs, the lines of code that every definition stands
for, the hazards with the properties that cover them, and the findings.

## 1. Inventory

| part | source (`src/app/`) | state | operations |
|---|---|---|---|
| crawl engine | `crawler/engine.py` | `_is_stopped`, `_pages_crawled`, `_active_workers`; per worker: its place in the loop, the popped item, `idle_cycles` | `run`, `_worker_loop`, `stop` |
| in-memory frontier | `crawler/queue.py` 42-93 | `_queue`, `_visited`, `_enqueued`, `_counter` | `push`, `pop`, `is_visited`, `mark_visited`, `size` |
| Redis frontier | `crawler/queue.py` 96-172 | one sorted set and two sets per job | the same, each one or several awaited commands |
| service | `services/crawl_service.py` | `_active_engines` | `start_crawl`, `stop_crawl`; queries and exports |
| job row, domain row | `db/models.py`, `db/repository.py` | status and counters in `crawl_jobs`; table `domains` | `create_job`, `update_job_status`, `increment_job_stats`, `update_domain_robots` |
| contact store | `db/repository.py` 116-236 | tables `pages`, `contacts`, `contact_sources` | `create_page`, `save_contacts` |
| robots | `crawler/robots.py` | cache of parsed robots.txt per host | `get_robots`, `is_allowed`, parser |
| rate limiter | `crawler/scheduler.py` | per host: last grant, crawl delay, semaphore, lock | `acquire`, `release`, `set_crawl_delay` |
| fetcher | `crawler/fetcher.py` | one HTTP client | `fetch` (address check, retries, redirects, limits), `close` |
| sitemaps | `crawler/sitemap.py` | none beyond a call | `discover_urls_from_sitemaps` |
| dispatch worker | `workers/crawl_worker.py` | `_running`; the list `crawler:dispatch_queue` | `start`, `stop` |
| URL rules | `crawler/url.py`, `extractors/html.py` | none | `normalize_url`, `is_same_domain`, `get_url_priority`, `get_links` |
| extractors | `extractors/*.py` | none | `extract_from_nodes` |
| gauge and counters | `crawler/metrics.py` | `ACTIVE_CRAWLS_GAUGE` and counters | `inc`, `dec` |

**How they interact.** `start_crawl` commits a job row, constructs an engine,
registers it and creates a task that calls `run()`. `run()` writes the status,
reads the start host's robots.txt, walks the sitemaps, seeds the frontier and
gathers `concurrency` workers. A worker pops a URL, marks it visited, asks the
robots cache, waits in the rate limiter, fetches, pushes the links it found
and stores the page in one transaction. `stop_crawl` sets a flag in the engine
and writes the status itself. Everything in one process runs on one event
loop: tasks interleave only where a coroutine really suspends. The database
and Redis are shared by all jobs and by all processes.

**What is hard.**

- Which code runs without a suspension. The in-memory queue and
  `_workers_lock` never suspend while they hold their lock, so `pop`,
  `is_visited` and `mark_visited` are one step; with Redis each of them, and
  each half of `push`, is a step of its own.
- The end of a crawl: nobody closes the frontier. Workers poll, count idle
  rounds, look at the active count and leave one by one, while a worker that
  waits for a robots.txt is not counted active.
- Two writers of one status column (`run` and `stop_crawl`) that do not look
  at what they overwrite, and paths of `run()` that leave it early.
- A robots cache that forgets that a fetch is under way.
- Check-then-act on the contacts table from several workers and several jobs.
- Failures in the middle: a transaction, a Redis command, the parser, the
  browser, the process.

**What makes each part correct.** Frontier: each URL is fetched once and none
is lost. Engine: the page budget and the stop are honoured, the active count
is exact, every crawl ends. Robots: rules that were read bind. Job row: what
the status says is true of the engine, the counters agree with the pages.
Contact store: one row and one source per contact, the best confidence kept.
Rate limiter: requests of a host are spaced and limited in number. Fetcher:
bounded requests per fetch, one result. Sitemaps: the walk ends within its
limits. Dispatch: one job's failure costs that job only. Page scan: the links
are normal, in scope, complete and different, every contact of a page is
handed on once.

## 2. Modules

| module | what it is |
|---|---|
| `CrawlContract` | what a crawl promises about its URLs: known, claimed, cut short, ended |
| `CrawlEngine` | the worker pool over the in-memory frontier; implements `CrawlContract` |
| `CrawlEngineProofs` | theorems about `CrawlEngine` |
| `JobLifecycle` | jobs from the POST request or the dispatch list to their last status, the dispatch worker, stop requests, domain rows, the gauge, crashes |
| `JobLifecycleProofs` | theorems about `JobLifecycle` |
| `RedisFrontier` | the workers over a Redis frontier, command by command |
| `RedisFrontierProofs` | theorems about `RedisFrontier` |
| `ContactStore` | the transactions that store pages and contacts, on SQLite and PostgreSQL |
| `RateLimiter` | semaphore, lock and sleeps of one engine's rate limiter, in discrete time |
| `PoliteFetch` | extends `RateLimiter` by what a worker does between acquire and release: `fetch` with its redirects, retries and back-off |
| `PoliteFetchProofs` | theorems about both |
| `RobotsTxt` | the line-by-line parser of a robots.txt and the longest-match verdict |
| `RobotsTxtProofs` | theorems about `RobotsTxt` |
| `SitemapWalk` | the bounded walk through sitemap indexes, with the scope test of its pages |
| `SitemapWalkProofs` | theorems about `SitemapWalk` |
| `Url` | operators on URLs: `normalize_url`, scope, priority |
| `PageScan` | extends `Url` by what is taken from a page: links and contacts |
| `PageProofs` | theorems about what becomes of a fetched page: `PageScan` and `ContactStore` |
| `Recursion` | lemmas about recursion over numbers and folds over sequences, for the proofs about loops |
| `MC...` | the finite instances for TLC |

The modules cut the system where its parts meet through few facts.
`JobLifecycle` sees a crawl as a phase that ends normally or raises;
`CrawlEngine` shows that it does end (`CrawlEnds`) and what it does meanwhile.
`CrawlEngine` sees the storing of a page as one step that succeeds or fails;
`ContactStore` opens that step. `RedisFrontier` replaces the frontier
operations that `CrawlEngine` runs as one step by their commands.
`PoliteFetch` opens the two suspensions that `CrawlEngine` calls `limiter` and
`fetch`, and shows that they end (`EveryoneServed`). The constants
`Disallowed` and `SitemapUrls` of `CrawlEngine` are what `RobotsTxt` and
`SitemapWalk` compute, `Links` and `Priority` what `GetLinks` of `PageScan`
does; the lists of contacts that `ContactStore` is given, with an email in it
twice, are what its `AllContacts` may be: `ContactsStorable` proves that they
have the form `StoreAssumption` asks for.

### CrawlEngine

The program counter of a worker names the suspension it is in: `loop` (not
started, or asleep after an empty pop), `robots` (fetching a robots.txt),
`limiter`, `fetch`, `render`, `save`, `saveFailed`; `done` and `raised` are
ends. A step runs from one suspension to the next, so `Pop` is lines 247-288
of `engine.py` up to whichever of its awaits suspends first: `AfterPop`
follows the visited test, the robots cache and `is_allowed`. `Saved` and
`SaveRaised` are the two ends of the transaction, `ParseRaised`, `FetchRaised`
the ways into the `except` clause; all of them share `Release`, the `finally`.
`Seed`, `Finish` and `Abort` are the parts of `run()` around `gather`; `Abort`
leaves the other workers running, as `gather` does.

Abstractions, each of which only adds behaviours or drops what no property
tells apart:

- After `continue` or `finally` a worker stands at `loop`, where another task
  may run. In the code it goes straight on to the loop test; the model allows
  more interleavings.
- The links of one page share a counter value, so they may pop in any order.
- A worker asleep after an empty pop may wake at any time.
- `robots.txt` rules are a set of disallowed URLs; a host's cached answer is
  `rules` or `open` (none, unreadable, failed). If `OutlivesCache` is set, an
  answer may get too old at any time (`Expire`), and not only after 24 hours.
- A fetch succeeds, fails or raises; content and redirects are left out, and
  so are the HTTP client that `run()` closes under workers that survive an
  `Abort` (their fetches fail, which every fetch may) and `_pages_failed`,
  which nothing reads.
- `stop()` may come until the end of time; after the outcome it changes
  nothing.

### JobLifecycle

`phase` is where `start_crawl` and then `run()` are; `verdict` is the local
`final_status`, `unbound` until it is assigned, which matters because the
`return` for a disallowed start URL enters the `finally` clause without it
(`Refuse`, `Reported`). Each transaction is a step and may fail
(`DatabaseError`); `MarkRunningFails` is the one outside the `try`. A stop
request is three steps: the flag (`Signal`), the read of the status
(`ReadStatus`), the write (`Acknowledge`). It may name any job whose row is
committed, since the API lists those. It counts as `heard` only where the flag
reaches an engine that has no verdict yet: the service keeps the engine in its
dictionary (`Registered`), and `run()` has not assigned `final_status`
(`Undecided`). `Crash` ends every engine and request
of one process, which is started again; start-up (`lifespan`) repairs nothing.

`Dispatched` jobs are run by the worker's process. Nothing in the repository
pushes to its list, so `Dispatch` is what a producer must do: commit the row,
then push. `Take` and `ReplyLost` are the two ends of `blpop`, which has
removed the entry either way; an entry that is no request is `Unparsable`. The
worker runs one engine at a time (`IsBusy`), registers it nowhere, so that a
stop request reaches the row only, and has a gauge of its own.

Before it crawls, `run()` writes the start host's robots.txt to `domains`:
`Inspect` looks for the row, `RecordDomain` writes it, and `DomainTaken` is
the insert that meets the unique key because another job was faster.

### RedisFrontier

One program-counter value per command. A command that raises may or may not
have taken effect, and the queue then carries on with the default answer the
code gives. The score is left out (any member may pop), so are the page budget
and the end of the crawl: both only remove behaviours of the frontier. `Init`
is the state after `run()` has pushed its seeds: each of those pushes may have
raised, and then its seed is missing or there all the same.

### ContactStore

One transaction per page. `backend` is chosen once. On SQLite the `INSERT` of
the page takes the write lock, so transactions are serial and one may time out
while it waits; on PostgreSQL (READ COMMITTED) they interleave statement by
statement, wait for rows and keys written by open transactions (`Waits`), see
their unique key refused (`InsertRefused`) or are the victim of a deadlock.
What `save_contacts` returns counts inserts only (`Gained`). A SELECT gives
what is committed or the transaction's own write (`Seen`). The session also
keeps the attributes of the objects it has loaded, but refers to them weakly,
so an old reading can outlive its entry only if the next entry of the page has
the same contact; that is the behaviour in which no other page commits between
the two. The counters'
UPDATE and the COMMIT are one step: the job row is the last lock a transaction
takes, so nobody who holds it waits.

### RateLimiter and PoliteFetch

`stage` is where a worker is in `acquire`: in the queue of the semaphore, in
the queue of the host's lock, asleep under that lock, or granted. Both queues
are first in, first out, as in `asyncio`, and `release` hands the permit to
the first in line. The clock is not kept: `since[h]` is the difference
`acquire` computes, and stops at `LongAgo`, when nothing depends on it any
more; `Tick` advances it and every sleep. A step may come any number of ticks
late. `Delays` is what `run()` gave to `set_crawl_delay`: the start host's
delay and no other.

`at` is the suspension a fetch is in: the look-up of addresses, a request, the
back-off, the body. `Unavailable` and `TooManyRequests` go around the inner
loop, `Redirected` around the outer one, and `End` is every return and every
exception. A 429 backs off even on the last attempt, after which the loop ends
without an answer (`Retry`); a 503 there is returned. `Release` is the
`finally` of the worker loop. Left out: contents, headers, and the counters.
`Waits`, what a `Retry-After` may ask for, is finite: the code caps it at 15
seconds.

### RobotsTxt

The state is that of `_parse`: the groups, whether one is open, whether its
rules have begun. Each action reads one kind of line, so TLC reads every file
of the bounded length. `IsAllowed` and `FileDelay` are the loops over the
result. The properties compare them with two readings of the whole file that
know no parser state: `Governs` and `Together` are the groups as the parser
means them, `Addressing` and `StandardGoverns` the groups of RFC 9309.
`VerdictAsWritten` says that the verdict is the standard's on every file that
is `Conventional`, that is, without the constructs in which the code departs
from it (listed under the findings). What a path pattern matches is a
constant.

### SitemapWalk

One action per turn of the loop: `Skip`, `Fetch`, `FetchFails`; `AddPages` and
`AddChildren` are the two inner loops over what a sitemap lists. The site, that
is what each sitemap lists, is chosen in `Init`, so one run covers all graphs
of the bounded size, cycles and self-loops included. `InScope` is
`is_same_domain` on domains as sequences of labels, and
`is_valid_crawlable_url`; the code does not pass `include_subdomains` here, so
a job that excludes subdomains still gets those that sitemaps list. The
reference is the recursive function `Within`.

### Url and PageScan

A URL is a record of scheme, host (its labels), port, path (its segments) and
query (its pairs, by rank); `Resolve` is `urljoin`, `NormalizeUrl` the rest of
`normalize_url`. Upper case, user names and fragments are left out.

A phone number is its country code and the rest, with `prefix` for the way it
is written: after a plus, after the digits that are dialled to call abroad, or
without its code. `Possible`, `Valid` and `CountryOf` are what the phone
library says of a number; a number may have a region without being valid. An
empty href stands with those that are no link.

A page is the sequence of its elements in document order, and the state of
`PageScan` is nothing else: it grows by one element at a time, and the
operators, which have no state in the code either, read it as a whole, so TLC
evaluates them on every page of the bounded length. `GetLinks` is `get_links`;
`Emails`, `Phones` and `Profiles` are the three `extract_from_nodes`, each over
the anchors of its kind and then over the text nodes. What the regular
expressions and the phone library find in a text is given with the text. The
reference reads the page without the loops: `LinkedUrls`, `PlacesOf`, `Shown`,
`AnchorHits`, `TextHits`, `InAnchors`, `InTexts`.

`Keep` and `InOrder` select and sort by rank: the operators of the standard
modules that do so are built into TLC and cannot be expanded in a proof.
`Consider`, `AddUnseen` and `AddAll` are the bodies of the loops, which are
folds over them (`GetLinks`, `Collect`). `PageAssumption` says what an element
of each tag has and no more. `ScanInit`, `ScanNext` and `ScanSpec` have names
of their own because `PageProofs` extends `ContactStore` too.

What the properties say may surprise: `max_links` cuts before the sort by
priority; `mailto` anchors are not compared with what is listed already; the
first place decides the confidence, not the best; a comment is a text node; a
number with country code 1 and no region gets the country of the page's host; a host
that merely ends in `linkedin.com` has profiles. And relative links are
resolved against the URL that was popped, also after a redirect or when
normalisation has taken away its trailing slash: `url` is that URL, as in the
code, and no property says where a browser would go.

## 3. Runs

Each property of a passing run has a mutant in `PROJECT.json`: a definition
named `Faulty...` that replaces the definition after it the way a plausible
bug would, under which TLC finds the property violated.

| run | instance | shows |
|---|---|---|
| `engine_safety` | 3 workers, 5 URLs on 2 hosts, budget 3, depth 2, a sitemap | `TypeOK`, `QueueDisciplined`, `OneFetchPerUrl`, `ActiveCounted`, `StatsMatchRows`, `StartHostRulesBind` |
| `engine_liveness` | 2 workers, budget 2, browser on, a robots cache that expires, a user agent that makes the robots match raise | `BudgetOvershootBounded`, `ImplementsContract`, `CrawlEnds`, `QueuedIsTaken` |
| `jobs` | 1 job of the service and 2 dispatched ones (one unparsable), one host, 1 stop, 1 failed transaction or reply, 1 crash | `TypeOK`, `LiveJobHasEngine`, `GaugeLeakBounded`, `HeardStopNotCompleted`, `VerdictReplacedOnlyByStop`, `JobsSettle`, `DispatchedIsServed` |
| `redis` | 2 workers, 3 URLs in a cycle, one also in a sitemap, depth 3, 2 commands that raise | `TypeOK`, `DuplicateFetchesBounded`, `OfferedIsHeld`, `LossesBounded`, `OfferedIsVisited` |
| `contacts` | 4 pages, 2 contacts listed in opposite orders and twice, 1 failure, both databases | `TypeOK`, `OneSourcePerContact`, `FoundMatchesSources`, `StoredPageCovered`, `PagesSettle` |
| `polite` | 3 workers, one host with 2 permits, Crawl-delay twice the interval, 1 retry, 1 redirect | `TypeOK`, `PermitsConserved`, `RequestsBounded`, `GrantsSpaced`, `EveryoneServed` |
| `robots_file` | every file of up to 5 lines over 4 agents (the crawler's, a part of its name, another, everyone), 2 patterns, 2 delays | `VerdictAsWritten`, `DelayAsWritten` |
| `sitemaps` | every graph of 4 sitemaps with up to 2 children, 7 pages, a limit of 4 pages and 2 levels | `EachOnce`, `WalkComplete`, `FailureContained` |
| `page_scan` | every page of up to 4 of 19 elements, at 2 URLs, 2 links at most | `LinksWellFormed`, `LinksComplete`, `ContactsOnce` |
| `engine_robots` | 2 workers, a second host | **violated** `RulesOnceReadBind` |
| `jobs_stop` | 1 job, 1 stop | **violated** `AcknowledgedStopHolds` |
| `polite_delay` | 2 workers, a second host with a Crawl-delay | **violated** `CrawlDelayKept` |

**Bounds and why they are enough.** Three workers are one to hold a URL, one
to race for it and one to leave in between; the overshoot of the budget grows
with their number and the theorems cover all numbers. The site has a link
back to the start page, a page linked from two others, a page below the last
followed level, a second host and a disallowed page on each host. In
`engine_safety` a budget of 3 lets three workers pass the test together and leaves room for links found
below the start page; pages that fail are not counted, so the frontier also
runs dry before the budget does. `IdleLimit` is 1 or 0 instead of 15: the limit is
compared with a count that starts over at each pop, and its value only
stretches the polling. In `jobs` a stop meets every
write of `run()`, two jobs of one host meet in `domains`, and a job that
cannot start stands before or behind another in the list; the crash and the
failure make every path of the code reachable. In `redis` each property
either excludes errors or grows by one for each, so that with two one can spoil
the seeding and one the crawl, or both the same URL; depth 3 is what a link cycle
needs to bring a URL back more often than the bound allows, if it were not
marked. In `contacts`
the opposite orders give the deadlock, the equal contacts the refused insert,
and the different confidences of one contact the updates that must not lower it.

In `polite` and `polite_delay` a tick is half a second, the default interval
and back-off factor. Two permits are the default of the class; the engine
passes its own `concurrency`, with which nobody ever waits for a permit.
`polite` has fewer permits than workers so that the semaphore's queue is used,
and one host, because hosts share nothing but the workers; the theorems cover
the rest. Five lines of robots.txt are two groups of agents with rules and
something between them, or one group that is left and entered again; each clause
of `Conventional` excludes a file of this length on which the verdict differs
from the standard's. Four
sitemaps under two levels make a walk that is cut by depth, one that is cut by
the limit of pages, a sitemap met first on a deep and then on a shallow path,
and every kind of cycle.
Four elements of a page are a link in two spellings with two others around the
limit, or a contact in three places; the elements are the cases of the code
(each kind of anchor and text, inside and outside of the containers it looks
for, in and out of scope; phone numbers that are valid, that have a region only,
that are merely possible, and none of these).

**Fairness.** Weak fairness of each worker, of `run()`, of each job's task, of
each stop handler that has begun, of each page's transaction, and of the
worker's `blpop` while it listens: the event loop runs every ready task, and
sleeps, requests with timeouts, transactions and Redis commands end. Nobody
has to start, dispatch or stop a job, and crashes and
failures never have to happen. No strong fairness is used: between the choices
of one worker (a fetch that fails or succeeds) none is assumed.

Two assumptions go beyond the loop. `CrawlEngine` takes it that
`rate_limiter.acquire` returns (`Acquired`); `PoliteFetch` shows that from
finite delays, which a robots.txt with an infinite `Crawl-delay` breaks (see
the hazards). And `PoliteFetch` takes it that the body of an answer ends: the
client's timeouts bound the wait for each piece, nothing bounds their number
below the size limit.

**Findings.** The three violated properties each quote a sentence of the
repository.

- A robots.txt that was read is forgotten when a concurrent fetch of it fails.
- A stop that was acknowledged is overwritten by `running`, and a job stopped
  while it ends by `completed` or `failed`.
- The `Crawl-delay` of a host other than the start host is never applied.

Other divergences are not findings but show in what the properties leave out,
or in their weaker form. `max_pages` is exceeded, by at most `concurrency - 1`
pages (`BudgetOvershootBounded`). `push` of the Redis queue adds URLs that
another worker has queued or visited since it looked, so a URL may be fetched
more than once (`DuplicateFetchesBounded`). On PostgreSQL the confidence of a
contact is compared with a value that may be stale, so a later transaction may
lower what another one has just raised (`StoredPageCovered` says what remains
true).

And the parser of robots.txt, which calls itself "RFC 9309 compliant" with
"User-agent specificity selection" (`robots.py:38`), departs from that
standard in five ways. Files that show one of them are not `Conventional`:

- A token that is only a part of the crawler's name counts as its name, also
  where the comment says "Exact match" (`robots.py:117`), and the first group
  with such a token is obeyed, not the most specific one. With `User-agent: bot`
  before `User-agent: ContactDiscoveryBot`, the crawler of that name obeys the
  rules for `bot`.
- Of several groups for one agent the first counts and the others are dropped;
  the standard joins them.
- A blank line between rules, or one with only a comment, ends the group, and
  the rules below it are dropped.
- A `Crawl-delay` or an unknown key between two user agents puts them into
  different groups.
- An empty `Disallow` is kept as `Allow: /`, which undoes a `Disallow: /` of
  the same group.

The delay of a file is that of its groups for everyone
(`robots.py:109-112`): a `Crawl-delay` in the group that names the crawler is
dropped, although `README.md:43` says that the crawler adheres to it.
`DelayAsWritten` therefore speaks of files that do not name the crawler.

## 4. Proofs

Every invariant of the passing runs is proved for every value of the
constants, and so are the action properties
`VerdictReplacedOnlyByStop` and `GrantsSpaced` and the refinement
`ImplementsContract`. What stays with TLC stands at the end of this section.

`CrawlEngineProofs` proves, for every finite set of workers, every site and every
value of the other constants that `EngineAssumption` allows:

| theorem | inductive invariant and argument |
|---|---|
| `TypeCorrect` | `TypeOK` is inductive by itself: links are pushed only below `MaxDepth`, so the entries' depth stays in its range |
| `ActiveCountedAlways` | `TypeOK` and `ActiveCounted`; each step moves one worker between locations (`WorkerMoves`), and `WorkersAtMoved` says what that does to the number of workers in a set of locations |
| `BudgetOvershootBoundedAlways` | `ActiveCounted`'s method with `BudgetInv`: the pages counted plus the workers past the test but not counted yet are at most `MaxPages + workers - 1`; the bound itself is not inductive |
| `QueueDisciplinedAlways` | inductive with the types; a popped entry was the only one of its URL (`PopClaims`), pushed links are fresh (`LinksPushed`) |
| `OneFetchPerUrlAlways` | needs `QueueDisciplined`: whatever pops is not visited |
| `StatsMatchRowsAlways` | inductive with the types and `OneFetchPerUrl`: a commit writes the first row of its URL and adds one to one counter; the page it counts is one of those counted in memory but not stored yet (`PendingIsCounted`) |
| `StartHostRulesBindAlways` | `StartHostInv`: unless the cache expires, the start host is in it from the beginning and no worker is ever fetching its robots.txt |
| `EngineImplementsContract` | refinement step by step; needs `PhaseInv` (nobody moves before the seeding or after the end) and `DrainedInv` (when a worker has left without a cut, the queue stays empty or somebody is there to empty it) |

`PoliteFetchProofs` proves, for every finite set of workers, every set of
hosts, every number of permits and all delays and limits that
`LimiterAssumption` and `FetchAssumption` allow:

| theorem | inductive invariant and argument |
|---|---|
| `FetchesUseLimiter` | a step of `PoliteFetch` is a step of `RateLimiter` or leaves it alone, so that what follows is proved of the limiter |
| `TypeCorrect` | `LimiterTypeOK`, `FetchTypes` and `ResultTypes`: a fetch has a result exactly from its end to the release, and no pause is longer than the longest that back-off or `Retry-After` asks for, which exists because both are finitely many (`PausesBounded`) |
| `PermitsConservedAlways` | `PermitsConserved` alone is not inductive: `release` hands a permit to the head of the queue, which must be waiting for this host and stand in it once (`QueueInv`) |
| `GrantsSpacedAlways` | `SleepInv`: who sleeps holds the lock, and the time since the last grant plus what is left of the sleep is at least the target delay; so no other grant can come in between |
| `RequestsBoundedAlways` | `RequestInv`: the requests of a fetch are at most `Spent`, what its redirects and attempts so far allow, which never passes the product |

`FetchAssumption` says that `2^k` is a natural number for the attempts that
there are. That is arithmetic; it is an assumption because the provers know
nothing of `^`, and TLC evaluates it on every run.

`JobLifecycleProofs` proves, for every set of jobs, of the service or
dispatched, and every number of stop requests, failures and crashes:

| theorem | inductive invariant and argument |
|---|---|
| `TypeCorrect` | inductive by itself |
| `LiveJobHasEngineAlways` | `StatusInv`: what the phase of a job allows as its status and its verdict (`Fits`). It needs `ListedOnce` (an entry of the dispatch list is there once and has not been started) and `AskedOfJob` (a stop handler is about a job that exists) |
| `VerdictReplacedOnlyByStopAlways` | from the same invariant: every step of a job writes a row that fits (`RowStep`), the one other writer is the handler |
| `HeardStopNotCompletedAlways` | `HeardInv`: the flag of a heard stop stays up and no verdict `completed` is left to be written; neither the row nor the flag alone is enough |
| `GaugeLeakBoundedAlways` | a phase weighs 1 inside `run()` and 0 outside; each step moves the gauge by the weight it takes or spends a failure (`GaugeStep`), and the number of jobs inside is the sum of the weights |

`PageProofs` proves of `ContactStore`, for every set of pages, any lists of
contacts and both databases:

| theorem | inductive invariant and argument |
|---|---|
| `TypeCorrect` | with `PositionInv`: a transaction is at an element of its list or behind the last |
| `OneSourcePerContactAlways` | `RowInv`: one open transaction at a time has written a row (`RowLocks`); a row that was inserted is not committed yet, one that was updated is (`DraftInv`); who is about to update has seen the row (`UpdateInv`) |
| `FoundMatchesSourcesAlways` | with `RowInv`: the contacts that a commit adds have no source before it, so the sum of the counters grows by as many |
| `StoredPageCoveredAlways` | `PageInv`: the transaction sees enough of every contact it has been through (`CoverInv`); on SQLite because it is alone (`OneWriter`), writes nothing worse than what is committed (`DraftFloor`) and updates only upwards (`WriteInv`) |

And of `PageScan`, for every page of any length with any elements, every URL it
may have, every scope and every limit of links:

| theorem | argument |
|---|---|
| `LinksWellFormedAlways` | `NormalForm`: whatever `Resolve` makes of an href, `Canonicalize` gives a URL in normal form that it leaves as it is, or none. `LinksSoFar` is the invariant of the loop over the anchors: the links so far are in scope, different and in normal form (`ConsiderKeeps`). The sort permutes them (`GetLinksOrder`), and the priorities of contact pages and of others do not overlap, with or without the ten more of a canonical link |
| `LinksCompleteAlways` | the other half of `LinksSoFar`: each link so far is one of the page, and the link of an anchor gone through that is not among them met a full list, all of it from places before it |
| `ContactsOnceAlways` | `Extends` and `Collects` are the invariants of the two loops: the list is the old one and then, of each contact it did not have, the first hit in the first element with it. So a contact that the anchors gave stays as it is (`ListedStays`), another one is added once, as the first text has it (`AddedOnce`, `Gathered`); the `mailto` anchors map one to one to the hits of an email (`MailtoBase`). The three lists are joined by kind (`ThreeKinds`) |
| `ContactsStorable` | every hit of the extractors has its kind, a value and a confidence above zero (`NumberType`), and `Collect` adds no other (`CollectKind`): what is handed to `save_contacts` has the form that `StoreAssumption` asks for |

The state of `PageScan` is only the page and its URL, with the invariant
`ScanTypeOK` that they are what `PageAssumption` allows; the work is in the
operators. `InOrder` is shown to list a finite set in any total order
(`Ranking`), so `Keep` and `Tagged` select the places they should in their
order (`AtPlaces`, `SelectsTwice`, `TaggedPlaces`), and `CleanQuery` sorts
(`CleanQueryFacts`).

`RedisFrontierProofs` proves, for every finite set of workers, every site,
depth and number of commands that raise:

| theorem | inductive invariant and argument |
|---|---|
| `TypeCorrect` | with `PushInv`: only links of pages above the last level are pushed |
| `DuplicateFetchesBoundedAlways` | `UnmarkedInv`: while a URL is not marked, each fetch of it, begun or done, has cost an error; `CountStep` says what a step does to both counts. The bound itself is not inductive: it does not say how many more fetches the workers that are past the test will begin |
| `LossesBoundedAlways` | `LossInv`: the URLs in `Lost` are no more than the errors. A lost URL that is still enqueued may be found and pushed again, is held meanwhile, and is dropped once more without an error: it stays in `Lost` all the time, which the bound itself does not say. Each step keeps every URL (`Keeps`) but that of a command that raises; at first the lost URLs are seeds whose push raised (`LossInit`) |
| `OfferedIsHeldAlways` | the same with no errors: then nothing is lost |

`SitemapWalkProofs` proves, for every site with any graph of sitemaps, all
roots and both limits:

| theorem | inductive invariant and argument |
|---|---|
| `EachOnceAlways` | `FoundInv`: what was fetched is visited (`FetchedInv`), the pages are those of visited sitemaps and, while there is room, all of those that did not fail (`PagesInv`) |
| `WalkCompleteAlways` | `OrderInv`: the queue is sorted by level and spans two levels at most (`SortedInv`), so the levels are those of `Within` (`ReachInv`), and every root and every child of a visited sitemap is visited or queued at its level (`RootsInv`, `ChildrenInv`); at the end, with an empty queue, induction on the level gives all of `Within` (`LevelsSeen`). Without the order a sitemap could be met on a long path first and lose its children to the limit of depth |
| `FailureContainedAlways` | the same invariant at level 0, where failures of others cost nothing |

`RobotsTxtProofs` proves, for files of any length over any agents, patterns
and delays:

| theorem | inductive invariant and argument |
|---|---|
| `VerdictAsWrittenAlways` | `Parsed`: there is a function from the lines to the groups of the parser that agrees with the reading of the whole file, agent lines are together exactly if they have the same group, and govern a line exactly if it has theirs (`AsWhole`); a group holds exactly what its lines say (`Content`). The parser's two flags stand for what the next line will be together with or governed by (`FlagsFit`, `Fresh`, `Reaches`), without which the invariant is not inductive. Then the loop of `is_allowed` finds a longest rule (`LongestRule`, by induction over the fold), which gives the verdict of the group obeyed (`VerdictOfGroup`); and in a conventional file the rules of that group are those that bind the crawler in the standard's reading (`ObeyedAddresses`, `ObeyedBinds`) |
| `DelayAsWrittenAlways` | the same invariant; the largest delay of a group is that of one of its lines, and that of the file is the largest of the groups for everyone |

**Loops and recursion.** The induction theorems of the library have an operator
as a parameter, which the installed provers cannot instantiate. `Recursion`
does without: a set of natural numbers that is not empty has a least element
(`LeastNumber`, from the well-founded order of the library), so an induction is
a look at the least exception. From that it proves that a function given by its
value at 0 and a step exists (`RecursionSolution`), which makes `Within` what
its definition says, and that a fold over a sequence is the last state of a run
through it (`FoldSolution`, `FoldRuns`), which is what the proofs about
`AddPages`, `AddChildren`, the loop of `IsAllowed`, `GetLinks` and `Collect`
use. The
worker counts are cardinalities and rest on `FiniteSetTheorems`.

**Only model-checked.** All liveness (`CrawlEnds`, `QueuedIsTaken`,
`JobsSettle`, `DispatchedIsServed`, `OfferedIsVisited`, `PagesSettle`,
`EveryoneServed`): it rests on fairness and `ENABLED`, which the proof system
does not reach.

## 5. Plan

Order of work: `CrawlEngine` with its contract and proofs, the two stores and
the job lifecycle around it, then what the engine takes as a constant or as
one step, then the dispatch worker, the page scan and the expiry of the robots
cache, and the proofs of all invariants. That much is done, in the modules
above. Next: a site with redirects in `CrawlEngine`, where a fetch of one URL
ends at another.

## 6. Not modelled

- Regular expressions and library calls over text: what the patterns for
  emails, phones and profiles match, the phone library, the HTML and XML
  parsers. What they give to the rest is chosen freely or a constant. Context
  snippets and titles: no property tells them apart.
- The address check of outgoing requests and the browser: their outcomes are
  among those of a fetch or a rendering.
- Where redirects lead, and an infinite `Crawl-delay`: see the plan and the
  hazards.
- Queries, exports, schemas, the dashboard, the mock site: no state of the
  crawler changes in them. `MAX_QUEUE_SIZE` and `MAX_RUNTIME_SECONDS` of
  `config.py` are read by nothing.
- The country column of `contacts`, the text and the dates in `domains`: written
  and never read by the crawler.
