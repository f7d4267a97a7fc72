--------------------------- MODULE MCPoliteFetch ---------------------------
(***************************************************************************)
(* Instances of PoliteFetch for TLC: workers that share two permits of a   *)
(* host, the default of the class, and hosts that all ask for a            *)
(* Crawl-delay of two ticks.  A tick is half a second: the default         *)
(* interval and the default backoff factor.                                *)
(***************************************************************************)
EXTENDS PoliteFetch

MCCrawlDelay == [h \in Hosts |-> 2]
MCWaits == {0, 1}
=============================================================================
