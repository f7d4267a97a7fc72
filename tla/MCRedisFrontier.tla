-------------------------- MODULE MCRedisFrontier --------------------------
(***************************************************************************)
(* Instances of RedisFrontier for TLC: home links to a and b, a to b and   *)
(* home, b to a; so a and b are found at two depths, by several workers.   *)
(***************************************************************************)
EXTENDS RedisFrontier

CONSTANTS home, a, b

MCUrl == {home, a, b}
MCLinks ==
  [u \in MCUrl |-> CASE u = home -> {a, b}
                     [] u = a    -> {b, home}
                     [] OTHER    -> {a}]
=============================================================================
