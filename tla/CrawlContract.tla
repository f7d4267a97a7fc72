--------------------------- MODULE CrawlContract ---------------------------
(***************************************************************************)
(* What a crawl promises about the URLs it learns of, without saying       *)
(* anything of workers, priorities, rate limits or storage:                *)
(*                                                                         *)
(*   - a URL is claimed for fetching at most once, and only if it was      *)
(*     discovered before;                                                  *)
(*   - a crawl that is cut short (stop request, page budget used up)       *)
(*     claims nothing more;                                                *)
(*   - a crawl ends only when it was cut short or when nothing that was    *)
(*     discovered is left unclaimed, and then it is over for good.         *)
(*                                                                         *)
(* CrawlEngine implements this contract (see its operator Contract).       *)
(***************************************************************************)
CONSTANT Url

VARIABLES
  known,     \* URLs ever accepted by the frontier
  claimed,   \* URLs some worker has taken out of the frontier to fetch
  cut,       \* the crawl was told to stop or has used up its page budget
  ended      \* the crawl has returned normally

contractVars == <<known, claimed, cut, ended>>

ContractInit ==
  /\ known = {}
  /\ claimed = {}
  /\ cut = FALSE
  /\ ended = FALSE

Discover ==
  /\ ~ended
  /\ known' \in SUBSET Url
  /\ known \subseteq known'
  /\ UNCHANGED <<claimed, cut, ended>>

Claim ==
  /\ ~cut /\ ~ended
  /\ \E u \in known \ claimed : claimed' = claimed \union {u}
  /\ UNCHANGED <<known, cut, ended>>

CutShort ==
  /\ cut' = TRUE
  /\ UNCHANGED <<known, claimed, ended>>

End ==
  /\ ~ended
  /\ cut \/ known = claimed
  /\ ended' = TRUE
  /\ UNCHANGED <<known, claimed, cut>>

ContractNext == Discover \/ Claim \/ CutShort \/ End

ContractSpec == ContractInit /\ [][ContractNext]_contractVars

=============================================================================
