--------------------------- MODULE MCSitemapWalk ---------------------------
(***************************************************************************)
(* Every site of four sitemaps, each with up to two children.  robots.txt  *)
(* names /sitemap.xml, which the crawler adds once more; two sitemaps      *)
(* share a page.  One of the seven pages is an image and one is on another *)
(* host; the five in scope, one on a subdomain, are one more than allowed. *)
(***************************************************************************)
EXTENDS SitemapWalk

CONSTANTS default, shop, news, deep, p1, p2, p3, p4, p5, abroad, image, com, example, www

MCSitemap == {default, shop, news, deep}
MCRoots == <<default, default>>
MCChildLists ==
  {<<>>, <<default>>, <<news>>, <<deep>>, <<shop, news>>, <<news, deep>>}
MCPages ==
  [s \in MCSitemap |->
     CASE s = default -> <<p1, p2>> [] s = shop -> <<p2>>
       [] s = news -> <<p3, abroad, p1>>
       [] s = deep -> <<image, p4, p5>>]
MCPage == {p1, p2, p3, p4, p5, abroad, image}
MCDomain ==
  [p \in MCPage |-> CASE p = abroad -> <<www, com>>
                      [] p = p5 -> <<www, example, com>>
                      [] OTHER -> <<example, com>>]
MCAllowedDomains == {<<example, com>>}
=============================================================================
