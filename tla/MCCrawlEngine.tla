--------------------------- MODULE MCCrawlEngine ---------------------------
(***************************************************************************)
(* Instances of CrawlEngine for TLC: a site of five URLs on two hosts,     *)
(*                                                                         *)
(*     home --> about, partner, blocked       about --> home, admin        *)
(*     partner --> about                                                   *)
(*                                                                         *)
(* home, about and admin are on the start host, partner and blocked on     *)
(* another one; the robots.txt of each host, if it has one, disallows      *)
(* admin or blocked.                                                       *)
(***************************************************************************)
EXTENDS CrawlEngine, TLC

CONSTANTS home, about, admin, partner, blocked, main, other

MCUrl == {home, about, admin, partner, blocked}
MCDomain == {main, other}
MCDisallowed == {admin, blocked}

MCDomainOf ==
  [u \in MCUrl |-> IF u \in {partner, blocked} THEN other ELSE main]

MCLinks ==
  [u \in MCUrl |-> CASE u = home    -> {about, partner, blocked}
                     [] u = about   -> {home, admin}
                     [] u = partner -> {about}
                     [] OTHER       -> {}]

\* get_url_priority ranks an about page above the others.
MCPriority == [u \in MCUrl |-> IF u = about THEN 85 ELSE 50]

MCSitemapUrls == {partner}
MCLongSitemap == {partner, admin}
MCNoSitemapUrls == {}

WorkerSymmetry == Permutations(Worker)
=============================================================================
