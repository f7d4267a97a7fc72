-------------------------------- MODULE Url --------------------------------
(***************************************************************************)
(* app/crawler/url.py: what the crawler takes two URLs to be the same by,  *)
(* which ones it may crawl, and how soon.                                  *)
(*                                                                         *)
(* A host is the sequence of its labels, a path that of its segments, in   *)
(* which an empty one stands for two slashes in a row or for one at the    *)
(* end.  A query is a sequence of pairs (k, v), each known by its rank in  *)
(* the order in which they are sorted.  Upper case in scheme and host,     *)
(* user names, ;parameters, and fragments, which are dropped, are left     *)
(* out.                                                                    *)
(*                                                                         *)
(* The definitions named Faulty... are deliberate faults that no           *)
(* definition uses: each stands in for the definition after it to show     *)
(* that a property notices.                                                *)
(***************************************************************************)
EXTENDS Integers, FiniteSets, SequencesExt

CONSTANTS
  KeywordSegment,  \* segments that contain one of CONTACT_PATH_KEYWORDS
  StaticSegment,   \* segments that end in one of STATIC_EXTENSIONS
  DeniedPair       \* pairs that are dropped: tracking parameters, and pairs
                   \* without a value

ASSUME UrlAssumption == DeniedPair \subseteq Nat

\* A normalised URL, or an href with a scheme of its own.  An href without a
\* host is relative to a page; it is rooted if its path starts with a slash.
Location(scheme, host, port, segments, query) ==
  [scheme |-> scheme, host |-> host, port |-> port, rooted |-> TRUE,
   segments |-> segments, query |-> query]

Href == [scheme : STRING, host : Seq(STRING), port : STRING, rooted : BOOLEAN,
         segments : Seq(STRING), query : Seq(Nat)]

NoUrl == Location("none", <<>>, "", <<>>, <<>>)

-----------------------------------------------------------------------------
\* The elements of a finite set in the order of Before, by rank.  The built-in
\* SortSeq and SelectSeq have no definition that a proof could expand.
InOrder(S, Before(_, _)) ==
  [n \in 1 .. Cardinality(S) |->
     CHOOSE i \in S : Cardinality({k \in S : Before(k, i)}) = n - 1]

\* The elements of a sequence for which Test holds, in their order.
Keep(seq, Test(_)) ==
  LET places == InOrder({i \in DOMAIN seq : Test(seq[i])}, <)
  IN [n \in DOMAIN places |-> seq[places[n]]]

NonEmpty(segments) == Keep(segments, LAMBDA s : s # "")

\* urljoin resolves "." and ".."; there is nothing above the root.
Dotless(segments) ==
  LET Step(path, s) == CASE s = "."  -> path
                         [] s = ".." -> IF path = <<>> THEN path ELSE Front(path)
                         [] OTHER    -> Append(path, s)
  IN FoldLeft(Step, <<>>, segments)

\* The path a relative href starts from: the base without its last segment.
Directory(base) == IF base.segments = <<>> THEN <<>> ELSE Front(base.segments)

\* urljoin(base, href).
Resolve(href, base) ==
  LET path == CASE href.rooted         -> Dotless(href.segments)
                [] href.segments = <<>> -> base.segments
                [] OTHER -> Dotless(NonEmpty(Directory(base) \o href.segments))
      inherits == href.segments = <<>> /\ ~href.rooted /\ href.query = <<>>
  IN IF href.scheme # "" THEN href
     ELSE IF href.host # <<>> THEN [href EXCEPT !.scheme = base.scheme]
     ELSE Location(base.scheme, base.host, base.port, path,
                   IF inherits THEN base.query ELSE href.query)

FaultyPort(u) == u.port
\* The port, if it is not the default of the scheme.
Port(u) ==
  IF <<u.scheme, u.port>> \in {<<"http", "80">>, <<"https", "443">>}
    THEN "" ELSE u.port

\* The pairs of the query that stay, sorted; equal pairs stay both.
CleanQuery(query) ==
  LET kept == Keep(query, LAMBDA p : p \notin DeniedPair)
      Before(i, k) == kept[i] < kept[k] \/ (kept[i] = kept[k] /\ i < k)
      order == InOrder(DOMAIN kept, Before)
  IN [i \in DOMAIN kept |-> kept[order[i]]]

\* The form all spellings of an absolute URL share; NoUrl stands for None.
Canonicalize(u) ==
  IF u.scheme \notin {"http", "https"} \/ u.host = <<>> THEN NoUrl
  ELSE Location(u.scheme, u.host, Port(u), NonEmpty(u.segments),
                CleanQuery(u.query))

\* normalize_url.
NormalizeUrl(href, base) == Canonicalize(Resolve(href, base))

-----------------------------------------------------------------------------
\* is_same_domain: get_domain drops the port.
IsSameDomain(u, allowed, includeSubdomains) ==
  \E d \in allowed :
    u.host = d \/ (includeSubdomains /\ IsStrictSuffix(d, u.host))

\* is_valid_crawlable_url.
IsCrawlable(u) == u.segments = <<>> \/ Last(u.segments) \notin StaticSegment

\* is_likely_contact_url.
IsContactUrl(u) == \E s \in ToSet(u.segments) : s \in KeywordSegment

\* get_url_priority: contact pages first, then shallow paths.
UrlPriority(u) ==
  LET penalty == IF Len(u.segments) > 8 THEN 40 ELSE 5 * Len(u.segments)
  IN IF IsContactUrl(u) THEN 100 ELSE 50 - penalty
=============================================================================
