----------------------------- MODULE RobotsTxt -----------------------------
(***************************************************************************)
(* DomainRobots: the parser of a robots.txt, and the verdict is_allowed    *)
(* gives on a path.  The file is read line by line; its lines are          *)
(* chosen freely, so that every file up to MaxLines is read.               *)
(*                                                                         *)
(* A line is known by its key.  One that is empty once its comment is      *)
(* gone is "blank"; one without a colon is skipped and not modelled, nor   *)
(* is a Sitemap line, which the parser takes aside of the groups.  What    *)
(* the regular expression of a path matches is a constant.                 *)
(*                                                                         *)
(* The definitions named Faulty... are deliberate faults that no action    *)
(* uses: each stands in for the definition after it to show that a         *)
(* property notices.                                                       *)
(***************************************************************************)
EXTENDS Integers, FiniteSets, SequencesExt

CONSTANTS
  Token,        \* values of User-agent lines, lower case
  Star,         \* the token *
  Name,         \* the crawler's own name, the token the standard looks for
  Ours,         \* the tokens contained in it, itself among them
  Pattern,      \* values of Allow and Disallow lines
  Everything,   \* the pattern /
  Length,       \* [Pattern -> Nat]: characters of each
  Path,         \* paths that are asked for
  Matches,      \* [Pattern -> SUBSET Path]
  Delay,        \* values of Crawl-delay lines, in ticks
  MaxLines      \* bound: lines of a file

ASSUME RobotsAssumption ==
  /\ Star \in Token \ Ours /\ Ours \subseteq Token /\ Name \in Ours
  /\ Everything \in Pattern
  /\ Length \in [Pattern -> Nat \ {0}]
  /\ \A p \in Pattern : Length[Everything] <= Length[p]
  /\ Matches \in [Pattern -> SUBSET Path]
  /\ Matches[Everything] = Path
  /\ Delay \subseteq Nat
  /\ MaxLines \in Nat

VARIABLES
  file,         \* the lines read so far: [key, and agent, path or delay]
  groups,       \* groups, in the order of the file: [agents, rules, delay],
                \* and a rule is [allow, path]
  open,         \* current_group is not None: it is the last of groups
  inRuleBlock   \* in_rule_block

vars == <<file, groups, open, inRuleBlock>>

Init == file = <<>> /\ groups = <<>> /\ open = FALSE /\ inRuleBlock = FALSE
-----------------------------------------------------------------------------
Read(line) ==
  /\ Len(file) < MaxLines
  /\ file' = Append(file, line)

\* A blank line, or one with nothing but a comment, ends a group with rules.
Blank ==
  /\ Read([key |-> "blank"])
  /\ open' = (open /\ ~inRuleBlock)
  /\ inRuleBlock' = FALSE
  /\ UNCHANGED groups

StartsGroup == ~open \/ inRuleBlock

\* User-agent: joins the agents of the group, or starts another one.
UserAgent(a) ==
  /\ Read([key |-> "user-agent", agent |-> a])
  /\ groups' =
       IF StartsGroup
         THEN Append(groups, [agents |-> {a}, rules |-> <<>>, delay |-> 0])
         ELSE [groups EXCEPT ![Len(groups)].agents = @ \union {a}]
  /\ open' = TRUE
  /\ inRuleBlock' = FALSE

\* What any other line does first: it belongs to the group, or to nothing.
InGroup == inRuleBlock' = open /\ UNCHANGED open

Current == Len(groups)

\* Adds a rule to the group that is open, if there is one.
AddRule(allow, p) ==
  groups' = IF open
              THEN [groups EXCEPT ![Current].rules =
                      Append(@, [allow |-> allow, path |-> p])]
              ELSE groups

PathRule(p) ==
  /\ InGroup
  /\ \E key \in {"allow", "disallow"} :
       Read([key |-> key, path |-> p]) /\ AddRule(key = "allow", p)

\* Disallow without a path allows everything, Allow without one says nothing.
EmptyRule ==
  /\ InGroup
  /\ \/ Read([key |-> "empty allow"]) /\ UNCHANGED groups
     \/ Read([key |-> "empty disallow"]) /\ AddRule(TRUE, Everything)

FaultyLonger(a, b) == b
Longer(a, b) == IF a > b THEN a ELSE b

CrawlDelay(d) ==
  /\ Read([key |-> "crawl-delay", delay |-> d])
  /\ InGroup
  /\ groups' = IF open
                 THEN [groups EXCEPT ![Current].delay = Longer(@, d)]
                 ELSE groups

\* A key the parser does not know counts as part of the group's rules.
Unknown == Read([key |-> "unknown"]) /\ InGroup /\ UNCHANGED groups

Next ==
  \/ Blank \/ EmptyRule \/ Unknown
  \/ \E a \in Token : UserAgent(a)
  \/ \E p \in Pattern : PathRule(p)
  \/ \E d \in Delay : CrawlDelay(d)

Spec == Init /\ [][Next]_vars
-----------------------------------------------------------------------------
\* The first index in S; 0 if there is none.
First(S) == IF S = {} THEN 0 ELSE CHOOSE i \in S : \A k \in S : i <= k

\* _find_best_group: the first group that names the crawler, else the first
\* for everyone; the index of the group.
BestGroup ==
  LET named == {i \in DOMAIN groups : groups[i].agents \intersect Ours # {}}
      general == {i \in DOMAIN groups : Star \in groups[i].agents}
  IN IF named # {} THEN First(named) ELSE First(general)

FaultyBeats(r, best) == Length[r.path] >= Length[best.path]
\* The rule replaces the best one found before it.
Beats(r, best) ==
  \/ Length[r.path] > Length[best.path]
  \/ Length[r.path] = Length[best.path] /\ r.allow

\* is_allowed: the loop over the group's rules.  No rule at all allows.
IsAllowed(path) ==
  LET Default == [allow |-> TRUE, path |-> Everything]
      Consider(state, r) ==
        IF /\ path \in Matches[r.path]
           /\ state.found => Beats(r, state.best)
          THEN [found |-> TRUE, best |-> r] ELSE state
      rules == IF BestGroup = 0 THEN <<>> ELSE groups[BestGroup].rules
  IN FoldLeft(Consider, [found |-> FALSE, best |-> Default], rules).best.allow

\* The groups whose delay counts: those for everyone, and not the crawler's own.
FileDelayGroups == {i \in DOMAIN groups : Star \in groups[i].agents}

\* crawl_delay of the file.
FileDelay ==
  CHOOSE d \in {0} \union {groups[i].delay : i \in FileDelayGroups} :
    \A i \in FileDelayGroups : groups[i].delay <= d
-----------------------------------------------------------------------------
(***************************************************************************)
(* A reading of the file as a whole, without the parser's state.  First    *)
(* that of the parser: a line belongs to the user agents before it with    *)
(* nothing in between that ends their group.                               *)
(***************************************************************************)
IsAgent(i) == file[i].key = "user-agent"
IsMember(i) == file[i].key \notin {"user-agent", "blank"}

Governs(j, i) ==
  /\ j < i /\ IsAgent(j) /\ IsMember(i)
  /\ \A k \in j + 1 .. i - 1 :
       file[k].key \in {"user-agent", "blank"} =>
         \A m \in j + 1 .. k - 1 : ~IsMember(m)

\* Two user-agent lines of one group.
Together(j, k) ==
  \A m \in (j + 1 .. k - 1) \union (k + 1 .. j - 1) : ~IsMember(m)

\* Then that of RFC 9309: only rules are part of a group, and only a rule
\* before a user agent ends the one before it.
IsRule(i) ==
  file[i].key \in {"allow", "disallow", "empty allow", "empty disallow"}

StandardGoverns(j, i) ==
  /\ j < i /\ IsAgent(j) /\ IsRule(i)
  /\ \A k \in j + 1 .. i - 1 :
       IsAgent(k) => \A m \in j + 1 .. k - 1 : ~IsRule(m)

\* The lines that address the crawler: all that name it, else all for everyone.
Addressing ==
  LET lines(a) == {j \in DOMAIN file : IsAgent(j) /\ file[j].agent = a}
  IN IF lines(Name) # {} THEN lines(Name) ELSE lines(Star)

Binds(i) == \E j \in Addressing : StandardGoverns(j, i)

Applying(key, path) ==
  {i \in DOMAIN file : Binds(i) /\ file[i].key = key /\ path \in Matches[file[i].path]}

(***************************************************************************)
(* A file on which the parser and the standard can agree.  Left out are    *)
(* the five ways in which the parser departs from the standard that its    *)
(* docstring names:                                                        *)
(*                                                                         *)
(*   - a token that is only a part of the crawler's name counts as its     *)
(*     name, and the first group that has one is obeyed, not the most      *)
(*     specific one;                                                       *)
(*   - of several groups for one agent the first counts and the others     *)
(*     are dropped, where the standard joins them;                         *)
(*   - a blank line between rules cuts off those that follow it;           *)
(*   - a Crawl-delay or an unknown key between user agents separates them; *)
(*   - an empty Disallow weighs as much as Disallow: / in the same group.  *)
(***************************************************************************)
Conventional ==
  /\ \A j \in DOMAIN file : IsAgent(j) => file[j].agent \notin Ours \ {Name}
  /\ \A j, k \in Addressing : Together(j, k)
  /\ \A j \in Addressing, i \in DOMAIN file :
       StandardGoverns(j, i) => Governs(j, i)
  /\ \A i, k \in DOMAIN file :
       /\ Binds(i) /\ file[i].key = "disallow"
       /\ Binds(k) /\ file[k].key = "empty disallow"
       => Length[file[i].path] > Length[Everything]

(***************************************************************************)
(* A conventional file is obeyed as RFC 9309 has it, in whatever order its *)
(* groups and rules come: a path is refused exactly if a Disallow that     *)
(* addresses the crawler matches it and is longer than every Allow that    *)
(* does.                                                                   *)
(***************************************************************************)
VerdictAsWritten ==
  Conventional =>
    \A path \in Path :
      IsAllowed(path) =
        ~\E i \in Applying("disallow", path) :
           \A k \in Applying("allow", path) :
             Length[file[k].path] < Length[file[i].path]

(***************************************************************************)
(* In a file that does not name the crawler, the delay kept is the largest *)
(* that a line asks of everyone: none from a group of others, none from    *)
(* after the end of the group, and none lost.  A file that names the       *)
(* crawler is left out: the Crawl-delay of its own group is dropped, and   *)
(* that for everyone is kept instead.                                      *)
(***************************************************************************)
DelayAsWritten ==
  LET asked == {i \in DOMAIN file :
                  /\ file[i].key = "crawl-delay"
                  /\ \E j \in DOMAIN file : file[j].key = "user-agent"
                                            /\ file[j].agent = Star
                                            /\ Governs(j, i)}
  IN (\A j \in DOMAIN file : IsAgent(j) => file[j].agent \notin Ours) =>
       /\ \A i \in asked : file[i].delay <= FileDelay
       /\ FileDelay # 0 => \E i \in asked : file[i].delay = FileDelay
=============================================================================
