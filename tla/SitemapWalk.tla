---------------------------- MODULE SitemapWalk ----------------------------
(***************************************************************************)
(* SitemapParser.discover_urls_from_sitemaps: a breadth-first walk from    *)
(* the sitemaps of robots.txt and /sitemap.xml through sitemap indexes,    *)
(* which may be shared, circular or repeated, cut by a depth and by a      *)
(* number of pages.  A sitemap is fetched once, and may fail: then it is   *)
(* passed over, or, if a page in it does, what comes after the page.       *)
(*                                                                         *)
(* A page stands for its normalised URL, a domain for the sequence of its  *)
(* labels.  The crawl that waits for the walk is left out.                 *)
(*                                                                         *)
(* The definitions named Faulty... are deliberate faults that no action    *)
(* uses: each stands in for the definition after it to show that a         *)
(* property notices.                                                       *)
(***************************************************************************)
EXTENDS Integers, FiniteSets, SequencesExt

CONSTANTS
  Sitemap,      \* URLs of sitemaps
  Roots,        \* sitemap_urls, the first of the walk
  ChildLists,   \* what a sitemap index may list
  Page,         \* normalised URLs of pages
  Pages,        \* [Sitemap -> Seq(Page)]: what each sitemap lists
  Domain,       \* [Page -> Seq(label)]: get_domain
  Crawlable,    \* pages whose path has no extension of a static file
  AllowedDomains, \* allowed_domains of the job
  MaxUrls,      \* max_urls
  MaxDepth      \* max_depth

ASSUME WalkAssumption ==
  /\ Roots \in Seq(Sitemap)
  /\ ChildLists \subseteq Seq(Sitemap)
  /\ \A s \in Sitemap : Pages[s] \in Seq(Page)
  /\ Crawlable \subseteq Page
  /\ MaxUrls \in Nat \ {0}
  /\ MaxDepth \in Nat

VARIABLES
  children,     \* [Sitemap -> ChildLists]: the site, which stays as it is
  queue,        \* sitemap_queue: [sitemap, depth]
  visited,      \* visited_sitemaps
  discovered,   \* discovered
  fetched,      \* the sitemaps fetched so far, in order
  failed        \* those that failed

vars == <<children, queue, visited, discovered, fetched, failed>>

Init ==
  /\ children \in [Sitemap -> ChildLists]
  /\ queue = [i \in DOMAIN Roots |-> [sitemap |-> Roots[i], depth |-> 0]]
  /\ visited = {}
  /\ discovered = <<>>
  /\ fetched = <<>>
  /\ failed = {}
-----------------------------------------------------------------------------
Walking == queue # <<>> /\ Len(discovered) < MaxUrls

FaultyPopped == Len(queue)
\* sitemap_queue.pop(0): the place of the entry that is taken.
Popped == 1

Taken == queue[Popped]
Rest == RemoveAt(queue, Popped)

FaultyIsSkipped == Taken.depth > MaxDepth
IsSkipped == Taken.sitemap \in visited \/ Taken.depth > MaxDepth

Skip ==
  /\ Walking /\ IsSkipped
  /\ queue' = Rest
  /\ UNCHANGED <<children, visited, discovered, fetched, failed>>

Full(list) == Len(list) >= MaxUrls

\* is_same_domain, here always with subdomains, and is_valid_crawlable_url.
InScope(p) ==
  /\ p \in Crawlable
  /\ \E d \in AllowedDomains : IsSuffix(d, Domain[p])

\* The loop over the pages of a sitemap: those in scope that are new, until
\* the limit is reached.
AddPages(list, pages) ==
  FoldLeft(LAMBDA found, p : IF Full(found) \/ ~InScope(p) \/ p \in Range(found)
                               THEN found ELSE Append(found, p),
           list, pages)

\* The children that are not visited yet join the queue, one level deeper, if
\* that is allowed.
AddChildren(entries, list, seen, depth) ==
  FoldLeft(LAMBDA kept, s :
             IF s \in seen \/ depth + 1 > MaxDepth THEN kept
             ELSE Append(kept, [sitemap |-> s, depth |-> depth + 1]),
           entries, list)

Fetch ==
  LET s == Taken.sitemap
  IN /\ Walking /\ ~IsSkipped
     /\ visited' = visited \union {s}
     /\ fetched' = Append(fetched, s)
     /\ discovered' = AddPages(discovered, Pages[s])
     /\ queue' = AddChildren(Rest, children[s], visited', Taken.depth)
     /\ UNCHANGED <<children, failed>>

FaultyAfterFailure == <<>>
\* The handler of exceptions is inside the loop, which goes on.
AfterFailure == Rest

\* The fetch fails or its answer is no sitemap (n = 0), or a page cannot be
\* normalised: the pages before it stay, the rest and the children are lost.
FetchFails(n) ==
  LET s == Taken.sitemap
  IN /\ Walking /\ ~IsSkipped
     /\ visited' = visited \union {s}
     /\ fetched' = Append(fetched, s)
     /\ failed' = failed \union {s}
     /\ discovered' = AddPages(discovered, SubSeq(Pages[s], 1, n))
     /\ queue' = AfterFailure
     /\ UNCHANGED children

Next ==
  \/ Skip \/ Fetch
  \/ /\ Walking
     /\ \E n \in 0 .. Len(Pages[Taken.sitemap]) : FetchFails(n)

Spec == Init /\ [][Next]_vars
-----------------------------------------------------------------------------
(***************************************************************************)
(* A sitemap that several indexes list, itself included, is fetched once,  *)
(* and a page that several sitemaps list is handed to the frontier once.   *)
(***************************************************************************)
EachOnce == IsInjective(fetched) /\ IsInjective(discovered)

\* The sitemaps within d levels of the roots, as a reference.
Within[d \in Nat] ==
  IF d = 0 THEN Range(Roots)
  ELSE Within[d - 1] \union UNION {Range(children[s]) : s \in Within[d - 1]}

(***************************************************************************)
(* A walk that ended with room left and without failure has seen every     *)
(* sitemap within max_depth levels and found every page in scope in them:  *)
(* to mark a sitemap at its first, shallowest, entry loses nothing.        *)
(***************************************************************************)
WalkComplete ==
  queue = <<>> /\ failed = {} /\ Len(discovered) < MaxUrls =>
    /\ visited = Within[MaxDepth]
    /\ Range(discovered) =
         {p \in UNION {Range(Pages[s]) : s \in visited} : InScope(p)}

(***************************************************************************)
(* A failure costs no more than what only the failed sitemaps lead to: if  *)
(* a root did not fail, the walk never ends without its pages, unless the  *)
(* limit was reached.                                                      *)
(***************************************************************************)
FailureContained ==
  queue = <<>> /\ Len(discovered) < MaxUrls =>
    \A s \in Range(Roots) \ failed :
      /\ {p \in Range(Pages[s]) : InScope(p)} \subseteq Range(discovered)
      /\ MaxDepth > 0 => Range(children[s]) \subseteq visited
=============================================================================
