---------------------------- MODULE MCRobotsTxt ----------------------------
(***************************************************************************)
(* Every robots.txt of up to MaxLines lines over four agents, of which one *)
(* is the crawler and one a part of its name, two patterns of which one is *)
(* longer and matches less, and two delays.                                *)
(***************************************************************************)
EXTENDS RobotsTxt

CONSTANTS star, ours, part, other, root, inner, admin, home

MCToken == {star, ours, part, other}
MCLength == [p \in {root, inner} |-> IF p = root THEN 1 ELSE 7]
MCMatches == [p \in {root, inner} |-> IF p = root THEN {admin, home} ELSE {admin}]
=============================================================================
