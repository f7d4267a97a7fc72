--------------------------- MODULE MCContactStore ---------------------------
(***************************************************************************)
(* Instances of ContactStore for TLC: two pages that list the same two     *)
(* contacts in opposite orders, one of them twice and better the second    *)
(* time, a page with one of them at a middle confidence, and a page with   *)
(* none.                                                                   *)
(***************************************************************************)
EXTENDS ContactStore

CONSTANTS p1, p2, p3, p4, mail, phone

MCPage == {p1, p2, p3, p4}
MCContact == {mail, phone}

Hit(c, n) == [contact |-> c, confidence |-> n]

MCExtracted ==
  [p \in MCPage |-> CASE p = p1 -> <<Hit(mail, 1), Hit(phone, 3), Hit(mail, 2)>>
                      [] p = p2 -> <<Hit(phone, 2), Hit(mail, 3)>>
                      [] p = p3 -> <<Hit(mail, 2)>>
                      [] OTHER  -> <<>>]
=============================================================================
