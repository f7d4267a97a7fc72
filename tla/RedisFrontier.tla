--------------------------- MODULE RedisFrontier ---------------------------
(***************************************************************************)
(* The workers of one crawl over a RedisCrawlQueue.  Each command (or      *)
(* MULTI/EXEC) is atomic in Redis, but every one is awaited, so the test   *)
(* and the update of push, the two commands of pop and the engine's        *)
(* is_visited / mark_visited pair interleave with the other workers, which *)
(* they never do over a MemoryCrawlQueue.                                  *)
(*                                                                         *)
(* The scores and the engine's page budget are left out: any member may be *)
(* popped, and every link is offered that the depth allows.  A command may *)
(* raise before or after it took effect; the queue then carries on with a  *)
(* default answer.                                                         *)
(*                                                                         *)
(* The definitions named Faulty... are deliberate faults that no action    *)
(* uses: each stands in for the definition after it to show that a         *)
(* property notices.                                                       *)
(***************************************************************************)
EXTENDS Integers, FiniteSets

CONSTANTS
  Worker,
  Url,
  Links,      \* [Url -> SUBSET Url]
  StartUrl,
  SitemapUrls,  \* what sitemap discovery returned
  MaxDepth,
  MaxErrors   \* bound: commands that raise

ASSUME FrontierAssumption ==
  /\ IsFiniteSet(Worker) /\ Worker # {}
  /\ StartUrl \in Url
  /\ SitemapUrls \subseteq Url /\ IsFiniteSet(SitemapUrls)
  /\ Links \in [Url -> SUBSET Url]
  /\ MaxDepth \in Nat \ {0}
  /\ MaxErrors \in Nat

VARIABLES
  zset,      \* crawl:{job}:queue, members (url, depth)
  enqueued,  \* crawl:{job}:enqueued
  visited,   \* crawl:{job}:visited
  pc,        \* the command each worker is about to send
  entry,     \* the member it popped last
  links,     \* the links it has still to push, the current one included
  link,      \* the link it is pushing
  fetches,   \* how often each URL has been fetched
  errors,    \* commands that raised so far
  offered    \* history: URLs that push was called with

vars == <<zset, enqueued, visited, pc, entry, links, link, fetches, errors,
          offered>>
redisVars == <<zset, enqueued, visited>>

\* zpopmax, srem: the two commands of pop.  isVisited, markVisited: the
\* engine's test.  fetch: everything up to the links.  inVisited, inEnqueued,
\* add: the three commands of push.
Command == {"zpopmax", "srem", "isVisited", "markVisited", "fetch",
            "inVisited", "inEnqueued", "add"}

Depth == 0 .. MaxDepth
Member == [url : Url, depth : Depth]

\* What run() pushes before there are workers: the sitemaps' pages one level
\* down, and the start URL.
Seed ==
  {[url |-> StartUrl, depth |-> 0]} \union
  {[url |-> u, depth |-> 1] : u \in SitemapUrls \ {StartUrl}}

\* A push that raises leaves its seed out, or has added it all the same.
Init ==
  /\ \E raised \in SUBSET Seed : \E missing \in SUBSET raised :
       /\ errors = Cardinality(raised) /\ errors <= MaxErrors
       /\ zset = Seed \ missing
  /\ enqueued = {m.url : m \in zset}
  /\ visited = {}
  /\ pc = [w \in Worker |-> "zpopmax"]
  /\ entry = [w \in Worker |-> [url |-> StartUrl, depth |-> 0]]
  /\ links = [w \in Worker |-> {}]
  /\ link = [w \in Worker |-> StartUrl]
  /\ fetches = [u \in Url |-> 0]
  /\ offered = {m.url : m \in Seed}

GoTo(w, c) == pc' = [pc EXCEPT ![w] = c]

\* A command raises: it took effect (done) or not, and its answer is lost.
Raises == errors < MaxErrors /\ errors' = errors + 1
Answers == UNCHANGED errors

-----------------------------------------------------------------------------
(***************************************************************************)
(* pop.                                                                    *)
(***************************************************************************)
Zpopmax(w) ==
  /\ pc[w] = "zpopmax"
  /\ \/ \E m \in zset :
          /\ zset' = zset \ {m}
          /\ \/ /\ Answers
                /\ entry' = [entry EXCEPT ![w] = m]
                /\ GoTo(w, "srem")
             \/ Raises /\ UNCHANGED <<entry, pc>>
     \/ Raises /\ UNCHANGED <<zset, entry, pc>>
  /\ UNCHANGED <<enqueued, visited, links, link, fetches, offered>>

\* A pop that raises on its second command returns nothing.
Srem(w) ==
  /\ pc[w] = "srem"
  /\ \/ Answers /\ GoTo(w, "isVisited") /\ enqueued' = enqueued \ {entry[w].url}
     \/ /\ Raises /\ GoTo(w, "zpopmax")
        /\ enqueued' \in {enqueued, enqueued \ {entry[w].url}}
  /\ UNCHANGED <<zset, visited, entry, links, link, fetches, offered>>

-----------------------------------------------------------------------------
(***************************************************************************)
(* The engine between pop and push.                                        *)
(***************************************************************************)
\* What the engine does not fetch once it has popped it.
Skips(url) == url \in visited

\* An error counts as not visited.
IsVisited(w) ==
  /\ pc[w] = "isVisited"
  /\ \/ Answers /\ GoTo(w, IF Skips(entry[w].url) THEN "zpopmax" ELSE "markVisited")
     \/ Raises /\ GoTo(w, "markVisited")
  /\ UNCHANGED <<redisVars, entry, links, link, fetches, offered>>

FaultyMarked(url) == {}
Marked(url) == {url}

\* One MULTI: both sets change or neither does.
MarkVisited(w) ==
  /\ pc[w] = "markVisited"
  /\ \/ /\ visited' = visited \union Marked(entry[w].url)
        /\ enqueued' = enqueued \ {entry[w].url}
        /\ Answers \/ Raises
     \/ UNCHANGED <<visited, enqueued>> /\ Raises
  /\ GoTo(w, "fetch")
  /\ UNCHANGED <<zset, entry, links, link, fetches, offered>>

\* The next link, in any order, or back to pop.
NextLink(w, rest) ==
  /\ links' = [links EXCEPT ![w] = rest]
  /\ IF rest = {}
       THEN GoTo(w, "zpopmax") /\ UNCHANGED <<link, offered>>
       ELSE \E u \in rest :
              /\ link' = [link EXCEPT ![w] = u]
              /\ offered' = offered \union {u}
              /\ GoTo(w, "inVisited")

FaultyFollowed(w, found) == found

\* Links of a page at the last level are not followed.
Followed(w, found) == IF entry[w].depth < MaxDepth THEN found ELSE {}

\* The page is fetched; it yields its links, or fails and yields none.
Fetch(w) ==
  /\ pc[w] = "fetch"
  /\ fetches' = [fetches EXCEPT ![entry[w].url] = @ + 1]
  /\ \E found \in {{}, Links[entry[w].url]} :
       NextLink(w, Followed(w, found))
  /\ UNCHANGED <<redisVars, entry, errors>>

-----------------------------------------------------------------------------
(***************************************************************************)
(* push(link, depth + 1): a link that is known, or meets an error, is      *)
(* dropped.                                                                *)
(***************************************************************************)
Dropped(w) == NextLink(w, links[w] \ {link[w]})

InVisited(w) ==
  /\ pc[w] = "inVisited"
  /\ \/ Answers /\ link[w] \in visited /\ Dropped(w)
     \/ /\ Answers /\ link[w] \notin visited
        /\ GoTo(w, "inEnqueued") /\ UNCHANGED <<links, link, offered>>
     \/ Raises /\ Dropped(w)
  /\ UNCHANGED <<redisVars, entry, fetches>>

InEnqueued(w) ==
  /\ pc[w] = "inEnqueued"
  /\ \/ Answers /\ link[w] \in enqueued /\ Dropped(w)
     \/ /\ Answers /\ link[w] \notin enqueued
        /\ GoTo(w, "add") /\ UNCHANGED <<links, link, offered>>
     \/ Raises /\ Dropped(w)
  /\ UNCHANGED <<redisVars, entry, fetches>>

FaultyPushed(w) == {}
Pushed(w) == {[url |-> link[w], depth |-> entry[w].depth + 1]}

\* One MULTI of SADD and ZADD.
Add(w) ==
  /\ pc[w] = "add"
  /\ \/ /\ zset' = zset \union Pushed(w)
        /\ enqueued' = enqueued \union {link[w]}
        /\ Answers \/ Raises
     \/ UNCHANGED <<zset, enqueued>> /\ Raises
  /\ Dropped(w)
  /\ UNCHANGED <<visited, entry, fetches>>

-----------------------------------------------------------------------------
WorkerStep(w) ==
  \/ Zpopmax(w) \/ Srem(w) \/ IsVisited(w) \/ MarkVisited(w) \/ Fetch(w)
  \/ InVisited(w) \/ InEnqueued(w) \/ Add(w)

Next == \E w \in Worker : WorkerStep(w)

\* Commands and fetches all end, and every worker is scheduled; no command has
\* to raise.
Fairness == \A w \in Worker : WF_vars(WorkerStep(w) /\ Answers)

Spec == Init /\ [][Next]_vars /\ Fairness

-----------------------------------------------------------------------------
(***************************************************************************)
(* Properties.                                                             *)
(***************************************************************************)
\* Every variable keeps its type; no member is deeper than max_depth.
TypeOK ==
  /\ zset \subseteq Member
  /\ enqueued \subseteq Url
  /\ visited \subseteq Url
  /\ pc \in [Worker -> Command]
  /\ entry \in [Worker -> Member]
  /\ links \in [Worker -> SUBSET Url]
  /\ link \in [Worker -> Url]
  /\ fetches \in [Url -> Nat]
  /\ errors \in 0 .. MaxErrors
  /\ offered \subseteq Url

\* The workers about to fetch u.
Fetchers(u) ==
  {w \in Worker : pc[w] \in {"markVisited", "fetch"} /\ entry[w].url = u}

\* A URL may be fetched by several workers, but only by those that tested it
\* before the first of them had marked it: once per worker, and once more for
\* each command that raised.
DuplicateFetchesBounded ==
  \A u \in Url :
    fetches[u] + Cardinality(Fetchers(u)) <= Cardinality(Worker) + errors

\* u is in the queue, or some worker holds it between two commands.
Held(u) ==
  \/ \E m \in zset : m.url = u
  \/ \E w \in Worker :
       \/ entry[w].url = u /\ pc[w] \in {"srem", "isVisited", "markVisited"}
       \/ link[w] = u /\ pc[w] \in {"inVisited", "inEnqueued", "add"}

\* Whenever no command has raised, an offered URL that is neither enqueued nor
\* visited is on its way: some worker holds it between two commands.
OfferedIsHeld == errors = 0 => \A u \in offered \ visited : Held(u)

\* A command that raises costs one URL at most, its own: the URLs that were
\* offered and are neither visited nor held any more, because a push, a pop or
\* a mark swallowed the error, are never more than the commands that raised.
LossesBounded ==
  Cardinality({u \in offered \ visited : ~Held(u)}) <= errors

\* Every offered URL is visited in the end, unless a command raised.
OfferedIsVisited ==
  \A u \in Url : u \in offered ~> (u \in visited \/ errors > 0)

=============================================================================
