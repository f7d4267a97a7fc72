-------------------------- MODULE RobotsTxtProofs --------------------------
(***************************************************************************)
(* Proofs about RobotsTxt, for files of every length over any agents,      *)
(* patterns and delays: the parser, which keeps two flags and a list of    *)
(* groups, reads a file as its definition as a whole has it.               *)
(***************************************************************************)
EXTENDS RobotsTxt, FiniteSetTheorems, Recursion

Rule == [allow : BOOLEAN, path : Pattern]

Line ==
  [key : {"blank", "unknown", "empty allow", "empty disallow"}]
    \union [key : {"user-agent"}, agent : Token]
    \union [key : {"allow", "disallow"}, path : Pattern]
    \union [key : {"crawl-delay"}, delay : Delay]

Group == [agents : SUBSET Token, rules : Seq(Rule), delay : Nat]

ParserTypes ==
  /\ file \in Seq(Line)
  /\ groups \in Seq(Group)
  /\ open \in BOOLEAN /\ inRuleBlock \in BOOLEAN
  /\ open => groups # <<>>

-----------------------------------------------------------------------------
(***************************************************************************)
(* The three kinds of steps.                                               *)
(***************************************************************************)

\* A line of a group: a rule, a delay or a key the parser does not know.
IsMemberLine(line) == line.key \notin {"user-agent", "blank"}

BlankStep ==
  /\ file' = Append(file, [key |-> "blank"])
  /\ open' = (open /\ ~inRuleBlock) /\ inRuleBlock' = FALSE
  /\ groups' = groups

AgentStep(a) ==
  /\ file' = Append(file, [key |-> "user-agent", agent |-> a])
  /\ open' = TRUE /\ inRuleBlock' = FALSE
  /\ \/ StartsGroup /\ groups' =
          Append(groups, [agents |-> {a}, rules |-> <<>>, delay |-> 0])
     \/ ~StartsGroup /\ groups' =
          [groups EXCEPT ![Len(groups)].agents = @ \union {a}]

\* The rule that a line adds to its group.
IsRuleLine(line) == line.key \in {"allow", "disallow", "empty disallow"}

RuleOf(line) ==
  [allow |-> line.key \in {"allow", "empty disallow"},
   path  |-> IF line.key = "empty disallow" THEN Everything ELSE line.path]

MemberStep(line) ==
  /\ IsMemberLine(line)
  /\ file' = Append(file, line)
  /\ open' = open /\ inRuleBlock' = open
  /\ \/ ~open /\ groups' = groups
     \/ /\ ~IsRuleLine(line) /\ line.key # "crawl-delay"
        /\ groups' = groups
     \/ /\ open /\ IsRuleLine(line)
        /\ groups' = [groups EXCEPT ![Len(groups)].rules =
                        Append(@, RuleOf(line))]
     \/ /\ open /\ line.key = "crawl-delay"
        /\ groups' = [groups EXCEPT ![Len(groups)].delay =
                        Longer(@, line.delay)]

\* Every step is of one of them.
LEMMA Steps ==
  ASSUME Next
  PROVE  \/ BlankStep
         \/ \E a \in Token : AgentStep(a)
         \/ \E line \in Line : MemberStep(line)
<1>1. CASE Blank
  BY <1>1 DEF Blank, Read, BlankStep
<1>2. ASSUME NEW a \in Token, UserAgent(a) PROVE AgentStep(a)
  BY <1>2 DEF UserAgent, Read, AgentStep
<1>3. ASSUME EmptyRule PROVE \E line \in Line : MemberStep(line)
  <2>1. CASE Read([key |-> "empty allow"]) /\ UNCHANGED groups
    <3> DEFINE line == [key |-> "empty allow"]
    <3>1. line \in Line /\ line.key = "empty allow"
      BY DEF Line
    <3> HIDE DEF line
    <3>2. file' = Append(file, line) /\ groups' = groups
      BY <2>1 DEF Read, line
    <3>3. open' = open /\ inRuleBlock' = open
      BY <1>3 DEF EmptyRule, InGroup
    <3>4. MemberStep(line)
      BY <3>1, <3>2, <3>3 DEF MemberStep, IsMemberLine, IsRuleLine
    <3>5. QED
      BY <3>1, <3>4
  <2>2. CASE Read([key |-> "empty disallow"]) /\ AddRule(TRUE, Everything)
    <3> DEFINE line == [key |-> "empty disallow"]
    <3>1. line \in Line /\ line.key = "empty disallow"
      BY DEF Line
    <3> HIDE DEF line
    <3>2. /\ file' = Append(file, line)
          /\ RuleOf(line) = [allow |-> TRUE, path |-> Everything]
      BY <2>2, <3>1 DEF Read, RuleOf, line
    <3>3. open' = open /\ inRuleBlock' = open
      BY <1>3 DEF EmptyRule, InGroup
    <3>4. groups' = IF open THEN [groups EXCEPT ![Len(groups)].rules =
                                    Append(@, RuleOf(line))]
                            ELSE groups
      BY <2>2, <3>2 DEF AddRule, Current
    <3>5. MemberStep(line)
      BY <3>1, <3>2, <3>3, <3>4 DEF MemberStep, IsMemberLine, IsRuleLine
    <3>6. QED
      BY <3>1, <3>5
  <2>3. QED
    BY <1>3, <2>1, <2>2 DEF EmptyRule
<1>4. ASSUME NEW p \in Pattern, PathRule(p)
      PROVE  \E line \in Line : MemberStep(line)
  <2>1. PICK key \in {"allow", "disallow"} :
          Read([key |-> key, path |-> p]) /\ AddRule(key = "allow", p)
    BY <1>4 DEF PathRule
  <2> DEFINE line == [key |-> key, path |-> p]
  <2>2. line \in Line /\ line.key = key /\ line.path = p
    BY DEF Line
  <2> HIDE DEF line
  <2>3. file' = Append(file, line)
    BY <2>1 DEF Read, line
  <2>4. RuleOf(line) = [allow |-> key = "allow", path |-> p]
    <3>1. line.key # "empty disallow"
      BY <2>2
    <3>2. line.key \in {"allow", "empty disallow"} <=> key = "allow"
      BY <2>2
    <3>3. (line.key \in {"allow", "empty disallow"}) = (key = "allow")
      <4> DEFINE A == line.key \in {"allow", "empty disallow"}
                 B == key = "allow"
      <4>1. A <=> B
        BY <3>2
      <4>2. A \in BOOLEAN /\ B \in BOOLEAN
        OBVIOUS
      <4> HIDE DEF A, B
      <4>3. A = B
        BY <4>1, <4>2
      <4>4. QED
        BY <4>3 DEF A, B
    <3>4. QED
      BY <2>2, <3>1, <3>3 DEF RuleOf
  <2>5. open' = open /\ inRuleBlock' = open
    BY <1>4 DEF PathRule, InGroup
  <2>6. groups' = IF open THEN [groups EXCEPT ![Len(groups)].rules =
                                  Append(@, RuleOf(line))]
                          ELSE groups
    BY <2>1, <2>4 DEF AddRule, Current
  <2>7. MemberStep(line)
    BY <2>2, <2>3, <2>5, <2>6 DEF MemberStep, IsMemberLine, IsRuleLine
  <2>8. QED
    BY <2>2, <2>7
<1>5. ASSUME NEW d \in Delay, CrawlDelay(d)
      PROVE  \E line \in Line : MemberStep(line)
  <2> DEFINE line == [key |-> "crawl-delay", delay |-> d]
  <2>1. line \in Line /\ line.key = "crawl-delay" /\ line.delay = d
    BY DEF Line
  <2> HIDE DEF line
  <2>2. file' = Append(file, line)
    BY <1>5 DEF CrawlDelay, Read, line
  <2>3. open' = open /\ inRuleBlock' = open
    BY <1>5 DEF CrawlDelay, InGroup
  <2>4. groups' = IF open THEN [groups EXCEPT ![Len(groups)].delay =
                                  Longer(@, line.delay)]
                          ELSE groups
    BY <1>5, <2>1 DEF CrawlDelay, Current
  <2>5. IsMemberLine(line) /\ ~IsRuleLine(line)
    BY <2>1 DEF IsMemberLine, IsRuleLine
  <2>6. MemberStep(line)
    <3>1. CASE open
      BY <2>1, <2>2, <2>3, <2>4, <2>5, <3>1 DEF MemberStep
    <3>2. CASE ~open
      BY <2>2, <2>3, <2>4, <2>5, <3>2 DEF MemberStep
    <3>3. QED
      BY <3>1, <3>2
  <2>7. QED
    BY <2>1, <2>6
<1>6. ASSUME Unknown PROVE \E line \in Line : MemberStep(line)
  <2> DEFINE line == [key |-> "unknown"]
  <2>1. line \in Line /\ line.key = "unknown"
    BY DEF Line
  <2> HIDE DEF line
  <2>2. file' = Append(file, line) /\ groups' = groups
    BY <1>6 DEF Unknown, Read, line
  <2>3. open' = open /\ inRuleBlock' = open
    BY <1>6 DEF Unknown, InGroup
  <2>4. MemberStep(line)
    BY <2>1, <2>2, <2>3 DEF MemberStep, IsMemberLine, IsRuleLine
  <2>5. QED
    BY <2>1, <2>4
<1>7. QED
  BY <1>1, <1>2, <1>3, <1>4, <1>5, <1>6 DEF Next

-----------------------------------------------------------------------------
(***************************************************************************)
(* The file as a whole, and the same file with one line more.              *)
(***************************************************************************)

\* No member of a group comes after line j: an agent line at the end would be
\* together with it.
Fresh(j) == \A m \in j + 1 .. Len(file) : ~IsMember(m)

\* A member at the end would be governed by the agent line j.
Reaches(j) ==
  \A k \in j + 1 .. Len(file) :
    file[k].key \in {"user-agent", "blank"} =>
      \A m \in j + 1 .. k - 1 : ~IsMember(m)

\* What a line more changes; n is the length before.
LEMMA LineRead ==
  ASSUME file \in Seq(Line), NEW n, n = Len(file),
         NEW line \in Line, file' = Append(file, line)
  PROVE  /\ n \in Nat /\ Len(file') = n + 1 /\ file'[n + 1] = line
         /\ \A i \in 1 .. n : file'[i] = file[i]
         /\ \A i \in 1 .. Len(file') : i \in 1 .. n \/ i = n + 1
OBVIOUS

\* What it changes in the relations between the lines before it and itself.
LEMMA RelationsRead ==
  ASSUME file \in Seq(Line), NEW n, n = Len(file),
         NEW line \in Line, file' = Append(file, line)
  PROVE  /\ \A j, k \in 1 .. n : Together(j, k)' <=> Together(j, k)
         /\ \A j \in 1 .. n : /\ Together(j, n + 1)' <=> Fresh(j)
                              /\ Together(n + 1, j)' <=> Fresh(j)
         /\ Together(n + 1, n + 1)'
         /\ \A j, i \in 1 .. n : Governs(j, i)' <=> Governs(j, i)
         /\ \A j \in 1 .. n : IsAgent(j) /\ IsMemberLine(line) =>
              (Governs(j, n + 1)' <=> Reaches(j))
         /\ \A i \in 1 .. n + 1 : ~Governs(n + 1, i)'
         /\ \A j \in 1 .. n :
              /\ Fresh(j)' <=> Fresh(j) /\ ~IsMemberLine(line)
              /\ Reaches(j)' <=> Reaches(j) /\ (IsMemberLine(line) \/ Fresh(j))
              /\ Fresh(j) => Reaches(j)
         /\ Fresh(n + 1)' /\ Reaches(n + 1)'
<1>1. /\ n \in Nat /\ Len(file') = n + 1 /\ file'[n + 1] = line
      /\ \A i \in 1 .. n : file'[i] = file[i]
  BY LineRead
<1>2. \A i \in 1 .. n : /\ IsAgent(i)' <=> IsAgent(i)
                        /\ IsMember(i)' <=> IsMember(i)
                        /\ file'[i].key = file[i].key
  BY <1>1 DEF IsAgent, IsMember
<1>3. IsMember(n + 1)' <=> IsMemberLine(line)
  BY <1>1 DEF IsMember, IsMemberLine
<1>4. \A j, k \in 1 .. n : Together(j, k)' <=> Together(j, k)
  <2>1. SUFFICES ASSUME NEW j \in 1 .. n, NEW k \in 1 .. n
                 PROVE  Together(j, k)' <=> Together(j, k)
    OBVIOUS
  <2>2. \A m \in (j + 1 .. k - 1) \union (k + 1 .. j - 1) : m \in 1 .. n
    BY <1>1
  <2>3. QED
    BY <1>2, <2>2 DEF Together
<1>5. \A j \in 1 .. n : /\ Together(j, n + 1)' <=> Fresh(j)
                        /\ Together(n + 1, j)' <=> Fresh(j)
  <2>1. SUFFICES ASSUME NEW j \in 1 .. n
                 PROVE  /\ Together(j, n + 1)' <=> Fresh(j)
                        /\ Together(n + 1, j)' <=> Fresh(j)
    OBVIOUS
  <2>2. /\ (j + 1 .. (n + 1) - 1) \union ((n + 1) + 1 .. j - 1) = j + 1 .. n
        /\ ((n + 1) + 1 .. j - 1) \union (j + 1 .. (n + 1) - 1) = j + 1 .. n
        /\ \A m \in j + 1 .. n : m \in 1 .. n
    BY <1>1
  <2>3. QED
    BY <1>2, <2>2 DEF Together, Fresh
<1>6. Together(n + 1, n + 1)'
  BY <1>1 DEF Together
<1>7. \A j, i \in 1 .. n : Governs(j, i)' <=> Governs(j, i)
  <2>1. SUFFICES ASSUME NEW j \in 1 .. n, NEW i \in 1 .. n
                 PROVE  Governs(j, i)' <=> Governs(j, i)
    OBVIOUS
  <2>2. \A k \in j + 1 .. i - 1 :
          k \in 1 .. n /\ \A m \in j + 1 .. k - 1 : m \in 1 .. n
    BY <1>1
  <2>3. QED
    BY <1>2, <2>2 DEF Governs
<1>8. ASSUME NEW j \in 1 .. n
      PROVE  /\ \A m \in j + 1 .. n : m \in 1 .. n
             /\ \A k \in j + 1 .. n + 1 :
                  /\ k \in j + 1 .. n \/ k = n + 1
                  /\ \A m \in j + 1 .. k - 1 : m \in 1 .. n /\ m \in j + 1 .. n
             /\ (n + 1) - 1 = n /\ j < n + 1
             /\ n + 1 \in j + 1 .. n + 1
             /\ \A k \in j + 1 .. n : k \in j + 1 .. n + 1
  BY <1>1
<1>9. ASSUME NEW j \in 1 .. n, IsAgent(j), IsMemberLine(line)
      PROVE  Governs(j, n + 1)' <=> Reaches(j)
  <2>1. IsAgent(j)' /\ IsMember(n + 1)'
    BY <1>2, <1>3, <1>9
  <2>2. QED
    BY <1>2, <1>8, <2>1 DEF Governs, Reaches
<1>10. \A i \in 1 .. n + 1 : ~Governs(n + 1, i)'
  BY <1>1 DEF Governs
<1>11. ASSUME NEW j \in 1 .. n
       PROVE  Fresh(j)' <=> Fresh(j) /\ ~IsMemberLine(line)
  BY <1>1, <1>2, <1>3, <1>8 DEF Fresh
<1>12. ASSUME NEW j \in 1 .. n
       PROVE  Reaches(j)' <=> Reaches(j) /\ (IsMemberLine(line) \/ Fresh(j))
  <2>1. file'[n + 1].key \in {"user-agent", "blank"} <=> ~IsMemberLine(line)
    BY <1>1 DEF IsMemberLine
  <2>2. Reaches(j)' <=>
          /\ \A k \in j + 1 .. n : file'[k].key \in {"user-agent", "blank"} =>
               \A m \in j + 1 .. k - 1 : ~IsMember(m)'
          /\ file'[n + 1].key \in {"user-agent", "blank"} =>
               \A m \in j + 1 .. n : ~IsMember(m)'
    BY <1>1, <1>8 DEF Reaches
  <2>3. \A k \in j + 1 .. n :
          /\ file'[k].key = file[k].key
          /\ \A m \in j + 1 .. k - 1 : IsMember(m)' <=> IsMember(m)
    BY <1>2, <1>8
  <2>4. QED
    BY <1>2, <1>8, <2>1, <2>2, <2>3 DEF Reaches, Fresh
<1>13. ASSUME NEW j \in 1 .. n PROVE Fresh(j) => Reaches(j)
  BY <1>8 DEF Fresh, Reaches
<1>14. Fresh(n + 1)' /\ Reaches(n + 1)'
  BY <1>1 DEF Fresh, Reaches
<1>15. QED
  BY <1>4, <1>5, <1>6, <1>7, <1>9, <1>10, <1>11, <1>12, <1>13, <1>14

-----------------------------------------------------------------------------
(***************************************************************************)
(* The group of every line: G[i] is the index of the group that the agent  *)
(* or member line i belongs to, 0 if to none.                              *)
(***************************************************************************)

\* Agent lines have a group, and their groups are in order.
Ordered(G) ==
  /\ G \in [1 .. Len(file) -> 0 .. Len(groups)]
  /\ \A j \in 1 .. Len(file) : IsAgent(j) => G[j] # 0
  /\ \A j, k \in 1 .. Len(file) :
       IsAgent(j) /\ IsAgent(k) /\ j <= k => G[j] <= G[k]

\* The parser's groups are those of the file read as a whole.
AsWhole(G) ==
  /\ \A j, k \in 1 .. Len(file) :
       IsAgent(j) /\ IsAgent(k) => (Together(j, k) <=> G[j] = G[k])
  /\ \A j, i \in 1 .. Len(file) :
       IsAgent(j) /\ IsMember(i) => (Governs(j, i) <=> G[j] = G[i])

\* What the parser's flags know of the lines so far.
FlagsFit(G) ==
  /\ \A j \in 1 .. Len(file) : IsAgent(j) =>
       /\ Fresh(j) <=> open /\ ~inRuleBlock /\ G[j] = Len(groups)
       /\ Reaches(j) <=> open /\ G[j] = Len(groups)
  /\ open /\ ~inRuleBlock =>
       \A i \in 1 .. Len(file) : IsMember(i) => G[i] # Len(groups)

Shape(G) == Ordered(G) /\ AsWhole(G) /\ FlagsFit(G)

\* H is G with the group h of one more line.
Extends(H, G, n, h) ==
  /\ DOMAIN H = 1 .. n + 1 /\ H = [i \in 1 .. n + 1 |-> H[i]]
  /\ \A i \in 1 .. n : H[i] = G[i]
  /\ H[n + 1] = h

\* There is such an H.
LEMMA Extension ==
  ASSUME NEW n \in Nat, NEW G, NEW h
  PROVE  \E H : Extends(H, G, n, h)
<1> DEFINE H == [i \in 1 .. n + 1 |-> IF i <= n THEN G[i] ELSE h]
<1>1. H = [i \in 1 .. n + 1 |-> H[i]]
  OBVIOUS
<1>2. Extends(H, G, n, h)
  BY <1>1 DEF Extends
<1>3. QED
  BY <1>2

\* The group of a line that is read: h, of a list that is m long before.
ReadBlank(line, h, m) ==
  /\ line.key = "blank" /\ h = 0
  /\ open' = (open /\ ~inRuleBlock) /\ inRuleBlock' = FALSE
  /\ Len(groups') = m

ReadAgent(line, h, m) ==
  /\ line.key = "user-agent"
  /\ open' = TRUE /\ inRuleBlock' = FALSE
  /\ h = IF StartsGroup THEN m + 1 ELSE m
  /\ Len(groups') = h

ReadMember(line, h, m) ==
  /\ IsMemberLine(line)
  /\ open' = open /\ inRuleBlock' = open
  /\ h = IF open THEN m ELSE 0
  /\ Len(groups') = m

\* Every line that is read is given the group it has in the whole file.
LEMMA ShapeStep ==
  ASSUME ParserTypes, NEW G, Shape(G),
         NEW n, n = Len(file), NEW m, m = Len(groups),
         NEW line \in Line, file' = Append(file, line),
         NEW h, NEW H, Extends(H, G, n, h),
         \/ ReadBlank(line, h, m)
         \/ ReadAgent(line, h, m)
         \/ ReadMember(line, h, m)
  PROVE  Shape(H)'
<1>1. /\ file \in Seq(Line) /\ n \in Nat /\ m \in Nat
      /\ open \in BOOLEAN /\ inRuleBlock \in BOOLEAN
      /\ open => m # 0
  BY DEF ParserTypes
<1>2. /\ Len(file') = n + 1 /\ file'[n + 1] = line
      /\ \A i \in 1 .. n : file'[i] = file[i]
      /\ \A i \in 1 .. n + 1 : i \in 1 .. n \/ i = n + 1
  BY <1>1, LineRead
<1>3. /\ \A i \in 1 .. n : IsAgent(i)' <=> IsAgent(i)
      /\ \A i \in 1 .. n : IsMember(i)' <=> IsMember(i)
      /\ IsAgent(n + 1)' <=> line.key = "user-agent"
      /\ IsMember(n + 1)' <=> IsMemberLine(line)
  BY <1>2 DEF IsAgent, IsMember, IsMemberLine
<1>4. /\ \A j, k \in 1 .. n : Together(j, k)' <=> Together(j, k)
      /\ \A j \in 1 .. n : /\ Together(j, n + 1)' <=> Fresh(j)
                           /\ Together(n + 1, j)' <=> Fresh(j)
      /\ Together(n + 1, n + 1)'
  BY <1>1, RelationsRead
<1>5. /\ \A j, i \in 1 .. n : Governs(j, i)' <=> Governs(j, i)
      /\ \A j \in 1 .. n : IsAgent(j) /\ IsMemberLine(line) =>
           (Governs(j, n + 1)' <=> Reaches(j))
      /\ \A i \in 1 .. n + 1 : ~Governs(n + 1, i)'
  BY <1>1, RelationsRead
<1>6. /\ \A j \in 1 .. n :
           /\ Fresh(j)' <=> Fresh(j) /\ ~IsMemberLine(line)
           /\ Reaches(j)' <=> Reaches(j) /\ (IsMemberLine(line) \/ Fresh(j))
           /\ Fresh(j) => Reaches(j)
      /\ Fresh(n + 1)' /\ Reaches(n + 1)'
  BY <1>1, RelationsRead
<1>7. /\ \A i \in 1 .. n : G[i] \in 0 .. m
      /\ \A j \in 1 .. n : IsAgent(j) => G[j] # 0
      /\ \A j, k \in 1 .. n : IsAgent(j) /\ IsAgent(k) /\ j <= k => G[j] <= G[k]
  BY DEF Shape, Ordered
<1>8. /\ \A j, k \in 1 .. n :
           IsAgent(j) /\ IsAgent(k) => (Together(j, k) <=> G[j] = G[k])
      /\ \A j, i \in 1 .. n :
           IsAgent(j) /\ IsMember(i) => (Governs(j, i) <=> G[j] = G[i])
  BY DEF Shape, AsWhole
<1>9. /\ \A j \in 1 .. n : IsAgent(j) =>
           /\ Fresh(j) <=> open /\ ~inRuleBlock /\ G[j] = m
           /\ Reaches(j) <=> open /\ G[j] = m
      /\ open /\ ~inRuleBlock => \A i \in 1 .. n : IsMember(i) => G[i] # m
  BY DEF Shape, FlagsFit
<1>10. /\ H = [i \in 1 .. n + 1 |-> H[i]]
       /\ \A i \in 1 .. n : H[i] = G[i]
       /\ H[n + 1] = h
  BY DEF Extends
<1>11. \A i \in 1 .. n + 1 : 
         (H[i] = G[i] /\ i \in 1 .. n) \/ (H[i] = h /\ i = n + 1)
  BY <1>2, <1>10
<1>12. ASSUME NEW j \in 1 .. n, NEW k \in 1 .. n, IsAgent(j)', IsAgent(k)'
       PROVE  Together(j, k)' <=> H[j] = H[k]
  <2>1. H[j] = G[j] /\ H[k] = G[k]
    BY <1>10
  <2>2. IsAgent(j) /\ IsAgent(k)
    BY <1>3, <1>12
  <2>3. Together(j, k)' <=> Together(j, k)
    BY <1>4
  <2>4. QED
    BY <1>8, <2>1, <2>2, <2>3
<1>13. ASSUME NEW j \in 1 .. n, NEW i \in 1 .. n, IsAgent(j)', IsMember(i)'
       PROVE  Governs(j, i)' <=> H[j] = H[i]
  <2>1. H[j] = G[j] /\ H[i] = G[i]
    BY <1>10
  <2>2. IsAgent(j) /\ IsMember(i)
    BY <1>3, <1>13
  <2>3. Governs(j, i)' <=> Governs(j, i)
    BY <1>5
  <2>4. QED
    BY <1>8, <2>1, <2>2, <2>3
<1>14. n + 1 \in Nat /\ m + 1 \in Nat
  BY <1>1
<1>15. CASE ReadBlank(line, h, m)
  <2>1. /\ line.key = "blank" /\ ~IsMemberLine(line) /\ h = 0
        /\ open' = (open /\ ~inRuleBlock) /\ inRuleBlock' = FALSE
        /\ Len(groups') = m
    BY <1>15 DEF ReadBlank, IsMemberLine
  <2>2. ~IsAgent(n + 1)' /\ ~IsMember(n + 1)'
    BY <1>3, <2>1
  <2>3. Ordered(H)'
    <3>1. \A i \in 1 .. n + 1 : H[i] \in 0 .. m
      <4>1. h \in 0 .. m
        BY <1>1, <2>1
      <4>2. QED
        BY <1>7, <1>11, <4>1
    <3>2. H \in [1 .. n + 1 -> 0 .. m]
      BY <1>10, <3>1
    <3>3. QED
      BY <1>2, <1>3, <1>7, <1>10, <2>1, <2>2, <3>2 DEF Ordered
  <2>4. AsWhole(H)'
    BY <1>2, <1>12, <1>13, <2>2 DEF AsWhole
  <2>5. FlagsFit(H)'
    BY <1>2, <1>3, <1>6, <1>9, <1>10, <2>1, <2>2 DEF FlagsFit
  <2>6. QED
    BY <2>3, <2>4, <2>5 DEF Shape
<1>16. CASE ReadAgent(line, h, m)
  <2>1. /\ line.key = "user-agent" /\ ~IsMemberLine(line)
        /\ open' = TRUE /\ inRuleBlock' = FALSE
        /\ Len(groups') = h
        /\ ~open \/ inRuleBlock => h = m + 1
        /\ open /\ ~inRuleBlock => h = m
        /\ h \in Nat /\ m <= h /\ h # 0
    BY <1>1, <1>16 DEF ReadAgent, IsMemberLine, StartsGroup
  <2>2. IsAgent(n + 1)' /\ ~IsMember(n + 1)'
    BY <1>3, <2>1
  <2>3. \A j \in 1 .. n : G[j] <= h /\ G[j] \in 0 .. h
    BY <1>1, <1>7, <2>1
  <2>4. Ordered(H)'
    <3>1. \A i \in 1 .. n + 1 : H[i] \in 0 .. h
      <4>1. h \in 0 .. h
        BY <2>1
      <4>2. QED
        BY <1>11, <2>3, <4>1
    <3>2. H \in [1 .. n + 1 -> 0 .. h]
      BY <1>10, <3>1
    <3>3. ASSUME NEW j \in 1 .. n + 1, NEW k \in 1 .. n + 1, IsAgent(j)',
                 IsAgent(k)', j <= k
          PROVE  H[j] <= H[k]
      <4>1. CASE k = n + 1
        <5>1. H[k] = h /\ H[j] \in 0 .. h
          BY <1>10, <3>1, <4>1
        <5>2. QED
          BY <2>1, <5>1
      <4>2. CASE k # n + 1
        <5>1. j \in 1 .. n /\ k \in 1 .. n
          BY <1>1, <3>3, <4>2
        <5>2. QED
          BY <1>3, <1>7, <1>10, <3>3, <5>1
      <4>3. QED
        BY <4>1, <4>2
    <3>4. \A j \in 1 .. n + 1 : IsAgent(j)' => H[j] # 0
      BY <1>2, <1>3, <1>7, <1>10, <2>1
    <3>5. QED
      BY <1>2, <2>1, <3>2, <3>3, <3>4 DEF Ordered
  <2>5. \A j \in 1 .. n : IsAgent(j) => (Fresh(j) <=> G[j] = h)
    <3>1. SUFFICES ASSUME NEW j \in 1 .. n, IsAgent(j)
                   PROVE  Fresh(j) <=> G[j] = h
      OBVIOUS
    <3>2. CASE open /\ ~inRuleBlock
      BY <1>9, <2>1, <3>1, <3>2
    <3>3. CASE ~open \/ inRuleBlock
      <4>1. G[j] # h
        BY <1>1, <1>7, <2>1, <3>3
      <4>2. QED
        BY <1>9, <3>1, <3>3, <4>1
    <3>4. QED
      BY <1>1, <3>2, <3>3
  <2>6. \A i \in 1 .. n : IsMember(i) => G[i] # h
    <3>1. CASE open /\ ~inRuleBlock
      BY <1>9, <2>1, <3>1
    <3>2. CASE ~open \/ inRuleBlock
      BY <1>1, <1>7, <2>1, <3>2
    <3>3. QED
      BY <1>1, <3>1, <3>2
  <2>7. AsWhole(H)'
    <3>1. ASSUME NEW j \in 1 .. n + 1, NEW k \in 1 .. n + 1, IsAgent(j)',
                 IsAgent(k)'
          PROVE  Together(j, k)' <=> H[j] = H[k]
      <4>1. CASE j \in 1 .. n /\ k \in 1 .. n
        BY <1>12, <3>1, <4>1
      <4>2. CASE j \in 1 .. n /\ k = n + 1
        BY <1>3, <1>4, <1>10, <2>5, <3>1, <4>2
      <4>3. CASE j = n + 1 /\ k \in 1 .. n
        BY <1>3, <1>4, <1>10, <2>5, <3>1, <4>3
      <4>4. CASE j = n + 1 /\ k = n + 1
        BY <1>4, <4>4
      <4>5. QED
        BY <1>2, <4>1, <4>2, <4>3, <4>4
    <3>2. ASSUME NEW j \in 1 .. n + 1, NEW i \in 1 .. n + 1, IsAgent(j)',
                 IsMember(i)'
          PROVE  Governs(j, i)' <=> H[j] = H[i]
      <4>1. i \in 1 .. n
        BY <1>2, <2>2, <3>2
      <4>2. CASE j \in 1 .. n
        BY <1>13, <3>2, <4>1, <4>2
      <4>3. CASE j = n + 1
        BY <1>3, <1>5, <1>10, <2>6, <3>2, <4>1, <4>3
      <4>4. QED
        BY <1>2, <4>2, <4>3
    <3>3. QED
      BY <1>2, <3>1, <3>2 DEF AsWhole
  <2>8. FlagsFit(H)'
    <3>1. ASSUME NEW j \in 1 .. n + 1, IsAgent(j)'
          PROVE  /\ Fresh(j)' <=> H[j] = h
                 /\ Reaches(j)' <=> H[j] = h
      <4>1. CASE j \in 1 .. n
        BY <1>3, <1>6, <1>10, <2>1, <2>5, <3>1, <4>1
      <4>2. CASE j = n + 1
        BY <1>6, <1>10, <4>2
      <4>3. QED
        BY <1>2, <4>1, <4>2
    <3>2. \A i \in 1 .. n + 1 : IsMember(i)' => H[i] # h
      BY <1>2, <1>3, <1>10, <2>2, <2>6
    <3>3. QED
      BY <1>2, <2>1, <3>1, <3>2 DEF FlagsFit
  <2>9. QED
    BY <2>4, <2>7, <2>8 DEF Shape
<1>17. CASE ReadMember(line, h, m)
  <2>1. /\ IsMemberLine(line) /\ line.key # "user-agent"
        /\ open' = open /\ inRuleBlock' = open
        /\ Len(groups') = m
        /\ open => h = m
        /\ ~open => h = 0
        /\ h \in 0 .. m
    BY <1>1, <1>17 DEF ReadMember, IsMemberLine
  <2>2. ~IsAgent(n + 1)' /\ IsMember(n + 1)'
    BY <1>3, <2>1
  <2>3. Ordered(H)'
    <3>1. \A i \in 1 .. n + 1 : H[i] \in 0 .. m
      BY <1>2, <1>7, <1>10, <2>1
    <3>2. H \in [1 .. n + 1 -> 0 .. m]
      BY <1>10, <3>1
    <3>3. QED
      BY <1>2, <1>3, <1>7, <1>10, <2>1, <2>2, <3>2 DEF Ordered
  <2>4. \A j \in 1 .. n : IsAgent(j) => (Reaches(j) <=> G[j] = h)
    BY <1>1, <1>7, <1>9, <2>1
  <2>5. AsWhole(H)'
    <3>1. \A j, k \in 1 .. n + 1 : IsAgent(j)' /\ IsAgent(k)' =>
            (Together(j, k)' <=> H[j] = H[k])
      BY <1>2, <1>12, <2>2
    <3>2. ASSUME NEW j \in 1 .. n + 1, NEW i \in 1 .. n + 1, IsAgent(j)',
                 IsMember(i)'
          PROVE  Governs(j, i)' <=> H[j] = H[i]
      <4>1. j \in 1 .. n /\ IsAgent(j) /\ H[j] = G[j]
        BY <1>2, <1>3, <1>10, <2>2, <3>2
      <4>2. CASE i \in 1 .. n
        BY <1>13, <3>2, <4>1, <4>2
      <4>3. CASE i = n + 1
        BY <1>5, <1>10, <2>1, <2>4, <4>1, <4>3
      <4>4. QED
        BY <1>2, <4>2, <4>3
    <3>3. QED
      BY <1>2, <3>1, <3>2 DEF AsWhole
  <2>6. FlagsFit(H)'
    <3>1. ASSUME NEW j \in 1 .. n + 1, IsAgent(j)'
          PROVE  /\ ~Fresh(j)'
                 /\ Reaches(j)' <=> open /\ H[j] = m
      <4>1. j \in 1 .. n /\ IsAgent(j) /\ H[j] = G[j]
        BY <1>2, <1>3, <1>10, <2>2, <3>1
      <4>2. QED
        BY <1>6, <1>9, <2>1, <4>1
    <3>2. QED
      BY <1>2, <2>1, <3>1 DEF FlagsFit
  <2>7. QED
    BY <2>3, <2>5, <2>6 DEF Shape
<1>18. QED
  BY <1>15, <1>16, <1>17

-----------------------------------------------------------------------------
(***************************************************************************)
(* What the groups hold: exactly what the lines of each say.               *)
(***************************************************************************)

NamedIn(G, g, a) ==
  \E j \in 1 .. Len(file) : IsAgent(j) /\ G[j] = g /\ file[j].agent = a

RuledIn(G, g, r) ==
  \E i \in 1 .. Len(file) :
    IsRuleLine(file[i]) /\ G[i] = g /\ RuleOf(file[i]) = r

DelayedIn(G, g, d) ==
  \E i \in 1 .. Len(file) :
    file[i].key = "crawl-delay" /\ G[i] = g /\ file[i].delay = d

\* The group g: its agents, the set of its rules, and the largest delay.
Fits(G, g) ==
  /\ \A a : a \in groups[g].agents <=> NamedIn(G, g, a)
  /\ \A r : r \in Range(groups[g].rules) <=> RuledIn(G, g, r)
  /\ \A d : DelayedIn(G, g, d) => d <= groups[g].delay
  /\ groups[g].delay # 0 => DelayedIn(G, g, groups[g].delay)

Content(G) == \A g \in 1 .. Len(groups) : Fits(G, g)

\* What a line more adds to the lines of a group.
LEMMA ContentRead ==
  ASSUME file \in Seq(Line), NEW n, n = Len(file), NEW line \in Line,
         file' = Append(file, line), NEW G, NEW h, NEW H, Extends(H, G, n, h),
         NEW g
  PROVE  /\ \A a : NamedIn(H, g, a)' <=>
              \/ NamedIn(G, g, a)
              \/ line.key = "user-agent" /\ h = g /\ line.agent = a
         /\ \A r : RuledIn(H, g, r)' <=>
              \/ RuledIn(G, g, r)
              \/ IsRuleLine(line) /\ h = g /\ RuleOf(line) = r
         /\ \A d : DelayedIn(H, g, d)' <=>
              \/ DelayedIn(G, g, d)
              \/ line.key = "crawl-delay" /\ h = g /\ line.delay = d
<1>1. /\ Len(file') = n + 1 /\ file'[n + 1] = line
      /\ \A i \in 1 .. n : file'[i] = file[i] /\ i \in 1 .. n + 1
      /\ \A i \in 1 .. n + 1 : i \in 1 .. n \/ i = n + 1
      /\ n + 1 \in 1 .. n + 1
  BY LineRead
<1>2. /\ \A i \in 1 .. n : H[i] = G[i]
      /\ H[n + 1] = h
  BY DEF Extends
<1>3. /\ \A i \in 1 .. n : IsAgent(i)' <=> IsAgent(i)
      /\ IsAgent(n + 1)' <=> line.key = "user-agent"
  BY <1>1 DEF IsAgent
<1>4. ASSUME NEW a
      PROVE  NamedIn(H, g, a)' <=>
               \/ NamedIn(G, g, a)
               \/ line.key = "user-agent" /\ h = g /\ line.agent = a
  BY <1>1, <1>2, <1>3 DEF NamedIn
<1>5. ASSUME NEW r
      PROVE  RuledIn(H, g, r)' <=>
               \/ RuledIn(G, g, r)
               \/ IsRuleLine(line) /\ h = g /\ RuleOf(line) = r
  <2>1. RuledIn(H, g, r)' <=>
          \E i \in 1 .. n + 1 :
            IsRuleLine(file'[i]) /\ H[i] = g /\ RuleOf(file'[i]) = r
    BY <1>1 DEF RuledIn, IsRuleLine, RuleOf
  <2>2. QED
    BY <1>1, <1>2, <2>1 DEF RuledIn
<1>6. ASSUME NEW d
      PROVE  DelayedIn(H, g, d)' <=>
               \/ DelayedIn(G, g, d)
               \/ line.key = "crawl-delay" /\ h = g /\ line.delay = d
  BY <1>1, <1>2 DEF DelayedIn
<1>7. QED
  BY <1>4, <1>5, <1>6

\* The group of every line is known, and every group holds what its lines say.
Grouping(G) == Shape(G) /\ Content(G)

Parsed == ParserTypes /\ \E G : Grouping(G)

\* An empty file has no groups.
LEMMA ParsedInit == Init => Parsed
<1> SUFFICES ASSUME Init PROVE Parsed
  OBVIOUS
<1>1. /\ file = <<>> /\ groups = <<>> /\ open = FALSE /\ inRuleBlock = FALSE
  BY DEF Init
<1>2. ParserTypes
  <2>1. <<>> \in Seq(Line) /\ <<>> \in Seq(Group)
    OBVIOUS
  <2>2. QED
    BY <1>1, <2>1 DEF ParserTypes
<1> DEFINE G == [i \in 1 .. 0 |-> 0]
<1>3. Len(file) = 0 /\ Len(groups) = 0 /\ \A i \in 1 .. 0 : FALSE
  BY <1>1
<1>4. G \in [1 .. 0 -> 0 .. 0]
  OBVIOUS
<1> HIDE DEF G
<1>5. Shape(G)
  BY <1>1, <1>3, <1>4 DEF Shape, Ordered, AsWhole, FlagsFit
<1>6. Content(G)
  BY <1>3 DEF Content
<1>7. QED
  BY <1>2, <1>5, <1>6 DEF Parsed, Grouping

\* A blank line changes no group.
LEMMA BlankParsed ==
  ASSUME ParserTypes, NEW G, Grouping(G), BlankStep
  PROVE  Parsed'
<1>1. PICK n \in Nat : n = Len(file)
  BY DEF ParserTypes
<1>2. PICK m \in Nat : m = Len(groups)
  BY DEF ParserTypes
<1>3. PICK line \in Line : line = [key |-> "blank"]
  BY DEF Line
<1>4. line.key = "blank" /\ ~IsRuleLine(line)
  BY <1>3 DEF IsRuleLine
<1>5. /\ file' = Append(file, line) /\ groups' = groups
      /\ open' = (open /\ ~inRuleBlock) /\ inRuleBlock' = FALSE
  BY <1>3 DEF BlankStep
<1>6. PICK H : Extends(H, G, n, 0)
  BY Extension
<1>7. ParserTypes'
  <2>1. Append(file, line) \in Seq(Line)
    BY DEF ParserTypes
  <2>2. (open /\ ~inRuleBlock) \in BOOLEAN
    OBVIOUS
  <2>3. QED
    BY <1>5, <2>1, <2>2 DEF ParserTypes
<1>8. Shape(H)'
  <2>1. ReadBlank(line, 0, m)
    BY <1>2, <1>4, <1>5 DEF ReadBlank
  <2>2. QED
    BY <1>1, <1>2, <1>5, <1>6, <2>1, ShapeStep DEF Grouping
<1>9. Content(H)'
  <2>1. ASSUME NEW g \in 1 .. m PROVE Fits(H, g)'
    <3>1. /\ \A a : NamedIn(H, g, a)' <=> NamedIn(G, g, a)
          /\ \A r : RuledIn(H, g, r)' <=> RuledIn(G, g, r)
          /\ \A d : DelayedIn(H, g, d)' <=> DelayedIn(G, g, d)
      BY <1>1, <1>4, <1>5, <1>6, ContentRead DEF ParserTypes
    <3>2. Fits(G, g)
      BY <1>2 DEF Grouping, Content
    <3>3. QED
      BY <1>5, <3>1, <3>2 DEF Fits
  <2>2. QED
    BY <1>2, <1>5, <2>1 DEF Content
<1>10. QED
  BY <1>7, <1>8, <1>9 DEF Parsed, Grouping

\* An agent line opens a group with this agent, or adds it to the last one.
LEMMA AgentParsed ==
  ASSUME ParserTypes, NEW G, Grouping(G), NEW b \in Token, AgentStep(b)
  PROVE  Parsed'
<1>1. PICK n \in Nat : n = Len(file)
  BY DEF ParserTypes
<1>2. PICK m \in Nat : m = Len(groups)
  BY DEF ParserTypes
<1>3. PICK line \in Line : line = [key |-> "user-agent", agent |-> b]
  BY DEF Line
<1>4. line.key = "user-agent" /\ line.agent = b /\ ~IsRuleLine(line)
  BY <1>3 DEF IsRuleLine
<1>5. /\ file' = Append(file, line)
      /\ open' = TRUE /\ inRuleBlock' = FALSE
  BY <1>3 DEF AgentStep
<1>6. /\ file \in Seq(Line) /\ groups \in Seq(Group)
      /\ ~StartsGroup => m # 0
  BY <1>2 DEF ParserTypes, StartsGroup
<1>7. PICK h \in Nat : h = IF StartsGroup THEN m + 1 ELSE m
  OBVIOUS
<1>8. PICK H : Extends(H, G, n, h)
  BY Extension
<1>9. ASSUME NEW g
      PROVE  /\ \A x : NamedIn(H, g, x)' <=> NamedIn(G, g, x) \/ (h = g /\ b = x)
             /\ \A r : RuledIn(H, g, r)' <=> RuledIn(G, g, r)
             /\ \A d : DelayedIn(H, g, d)' <=> DelayedIn(G, g, d)
  BY <1>1, <1>4, <1>5, <1>6, <1>8, ContentRead
<1>10. \A g \in 1 .. m : Fits(G, g)
  BY <1>2 DEF Grouping, Content
<1>11. /\ groups' \in Seq(Group) /\ groups' # <<>> /\ Len(groups') = h
       /\ \A g \in 1 .. h : Fits(H, g)'
  <2>1. CASE StartsGroup
    <3> DEFINE new == [agents |-> {b}, rules |-> <<>>, delay |-> 0]
    <3>1. groups' = Append(groups, new) /\ h = m + 1
      BY <1>7, <2>1 DEF AgentStep
    <3>2. /\ new.agents = {b} /\ new.rules = <<>> /\ new.delay = 0
          /\ new \in Group
      <4>1. <<>> \in Seq(Rule) /\ {b} \in SUBSET Token
        OBVIOUS
      <4>2. QED
        BY <4>1 DEF Group
    <3> HIDE DEF new
    <3>3. /\ groups' \in Seq(Group) /\ Len(groups') = h
          /\ \A g \in 1 .. m : groups'[g] = groups[g]
          /\ groups'[h] = new
      BY <1>2, <1>6, <3>1, <3>2
    <3>4. groups' # <<>>
      BY <3>1, <3>3
    <3>5. ASSUME NEW g \in 1 .. m PROVE Fits(H, g)'
      <4>1. h # g /\ groups'[g] = groups[g]
        BY <3>1, <3>3
      <4>2. QED
        BY <1>9, <1>10, <4>1 DEF Fits
    <3>6. Fits(H, h)'
      <4>1. \A i \in 1 .. n : G[i] # h
        <5>1. \A i \in 1 .. n : G[i] \in 0 .. m
          BY <1>1, <1>2 DEF Grouping, Shape, Ordered
        <5>2. QED
          BY <3>1, <5>1
      <4>2. /\ \A x : ~NamedIn(G, h, x)
            /\ \A r : ~RuledIn(G, h, r)
            /\ \A d : ~DelayedIn(G, h, d)
        BY <1>1, <4>1 DEF NamedIn, RuledIn, DelayedIn
      <4>3. Range(new.rules) = {}
        BY <3>2 DEF Range
      <4>4. QED
        BY <1>9, <3>2, <3>3, <4>2, <4>3 DEF Fits
    <3>7. \A g \in 1 .. h : g \in 1 .. m \/ g = h
      BY <3>1
    <3>8. QED
      BY <3>3, <3>4, <3>5, <3>6, <3>7
  <2>2. CASE ~StartsGroup
    <3>1. groups' = [groups EXCEPT ![m].agents = @ \union {b}] /\ h = m
      BY <1>2, <1>7, <2>2 DEF AgentStep
    <3>2. /\ m \in 1 .. m /\ DOMAIN groups = 1 .. m
          /\ \A g \in 1 .. m : groups[g] \in Group
      BY <1>2, <1>6, <2>2
    <3>3. /\ \A g \in 1 .. m : g # m => groups'[g] = groups[g]
          /\ groups'[m] = [groups[m] EXCEPT !.agents = @ \union {b}]
          /\ DOMAIN groups' = 1 .. m
      BY <3>1, <3>2
    <3>4. /\ groups'[m].agents = groups[m].agents \union {b}
          /\ groups'[m].rules = groups[m].rules
          /\ groups'[m].delay = groups[m].delay
          /\ groups'[m] \in Group
      BY <3>2, <3>3 DEF Group
    <3>5. /\ groups' \in Seq(Group) /\ Len(groups') = m
      <4>1. groups' = [g \in 1 .. m |-> groups'[g]]
        BY <3>1, <3>2
      <4>2. \A g \in 1 .. m : groups'[g] \in Group
        BY <3>2, <3>3, <3>4
      <4>3. groups' \in [1 .. m -> Group]
        BY <4>1, <4>2
      <4>4. QED
        BY <1>2, <3>3, <4>3
    <3>6. groups' # <<>>
      BY <1>6, <2>2, <3>5
    <3>7. ASSUME NEW g \in 1 .. m, g # m PROVE Fits(H, g)'
      BY <1>9, <1>10, <3>1, <3>3, <3>7 DEF Fits
    <3>8. Fits(H, m)'
      <4>1. Fits(G, m)
        BY <1>10, <3>2
      <4>2. QED
        BY <1>9, <3>1, <3>4, <4>1 DEF Fits
    <3>9. QED
      BY <3>1, <3>5, <3>6, <3>7, <3>8
  <2>3. QED
    BY <2>1, <2>2
<1>12. ParserTypes'
  <2>1. Append(file, line) \in Seq(Line)
    BY <1>6
  <2>2. QED
    BY <1>5, <1>11, <2>1 DEF ParserTypes
<1>13. Shape(H)'
  <2>1. ReadAgent(line, h, m)
    BY <1>4, <1>5, <1>7, <1>11 DEF ReadAgent
  <2>2. QED
    BY <1>1, <1>2, <1>5, <1>8, <2>1, ShapeStep DEF Grouping
<1>14. Content(H)'
  BY <1>11 DEF Content
<1>15. QED
  BY <1>12, <1>13, <1>14 DEF Parsed, Grouping

\* The rule of a line.
LEMMA RuleTypes ==
  ASSUME NEW line \in Line, IsRuleLine(line)
  PROVE  RuleOf(line) \in Rule
<1>1. (line.key \in {"allow", "empty disallow"}) \in BOOLEAN
  OBVIOUS
<1>2. CASE line.key = "empty disallow"
  BY <1>1, <1>2, RobotsAssumption DEF RuleOf, Rule
<1>3. CASE line.key # "empty disallow"
  <2>1. line.path \in Pattern
    BY <1>3 DEF Line, IsRuleLine
  <2>2. QED
    BY <1>1, <1>3, <2>1 DEF RuleOf, Rule
<1>4. QED
  BY <1>2, <1>3

\* A member line adds its rule or its delay to the group that is open.
LEMMA MemberParsed ==
  ASSUME ParserTypes, NEW G, Grouping(G), NEW line \in Line, MemberStep(line)
  PROVE  Parsed'
<1>1. PICK n \in Nat : n = Len(file)
  BY DEF ParserTypes
<1>2. PICK m \in Nat : m = Len(groups)
  BY DEF ParserTypes
<1>3. /\ IsMemberLine(line) /\ line.key # "user-agent"
      /\ file' = Append(file, line)
      /\ open' = open /\ inRuleBlock' = open
  BY DEF MemberStep, IsMemberLine
<1>4. /\ file \in Seq(Line) /\ groups \in Seq(Group)
      /\ open \in BOOLEAN
      /\ open => m # 0
  BY <1>2 DEF ParserTypes
<1>5. PICK h \in Nat : h = IF open THEN m ELSE 0
  OBVIOUS
<1>6. PICK H : Extends(H, G, n, h)
  BY Extension
<1>7. ASSUME NEW g
      PROVE  /\ \A x : NamedIn(H, g, x)' <=> NamedIn(G, g, x)
             /\ \A r : RuledIn(H, g, r)' <=>
                  \/ RuledIn(G, g, r)
                  \/ IsRuleLine(line) /\ h = g /\ RuleOf(line) = r
             /\ \A d : DelayedIn(H, g, d)' <=>
                  \/ DelayedIn(G, g, d)
                  \/ line.key = "crawl-delay" /\ h = g /\ line.delay = d
  BY <1>1, <1>3, <1>4, <1>6, ContentRead
<1>8. \A g \in 1 .. m : Fits(G, g)
  BY <1>2 DEF Grouping, Content
<1>9. /\ DOMAIN groups = 1 .. m
      /\ \A g \in 1 .. m : groups[g] \in Group
  BY <1>2, <1>4
<1>10. ASSUME NEW new \in Group, open, groups' = [groups EXCEPT ![m] = new],
              Fits(H, m)'
       PROVE  /\ groups' \in Seq(Group) /\ Len(groups') = m
              /\ \A g \in 1 .. m : Fits(H, g)'
  <2>1. \A g \in 1 .. m : g # m => groups'[g] = groups[g]
    BY <1>9, <1>10
  <2>2. /\ groups' \in Seq(Group) /\ Len(groups') = m
    BY <1>2, <1>4, <1>10
  <2>3. ASSUME NEW g \in 1 .. m, g # m PROVE Fits(H, g)'
    BY <1>5, <1>7, <1>8, <1>10, <2>1, <2>3 DEF Fits
  <2>4. QED
    BY <1>10, <2>2, <2>3
<1>11. /\ groups' \in Seq(Group) /\ Len(groups') = m
       /\ \A g \in 1 .. m : Fits(H, g)'
  <2>1. CASE ~open /\ groups' = groups
    <3>1. ASSUME NEW g \in 1 .. m PROVE Fits(H, g)'
      <4>1. h # g
        BY <1>5, <2>1
      <4>2. QED
        BY <1>7, <1>8, <2>1, <4>1 DEF Fits
    <3>2. QED
      BY <1>2, <1>4, <2>1, <3>1
  <2>2. CASE ~IsRuleLine(line) /\ line.key # "crawl-delay" /\ groups' = groups
    <3>1. ASSUME NEW g \in 1 .. m PROVE Fits(H, g)'
      BY <1>7, <1>8, <2>2 DEF Fits
    <3>2. QED
      BY <1>2, <1>4, <2>2, <3>1
  <2>3. CASE /\ open /\ IsRuleLine(line)
             /\ groups' = [groups EXCEPT ![m].rules = Append(@, RuleOf(line))]
    <3>1. PICK old \in Group : old = groups[m]
      BY <1>4, <1>9, <2>3
    <3>2. PICK r \in Rule : r = RuleOf(line)
      BY <2>3, RuleTypes
    <3> DEFINE new == [old EXCEPT !.rules = Append(@, r)]
    <3>3. old.rules \in Seq(Rule) /\ Append(old.rules, r) \in Seq(Rule)
      BY DEF Group
    <3>4. /\ new \in Group
          /\ new.agents = old.agents /\ new.delay = old.delay
          /\ new.rules = Append(old.rules, r)
      BY <3>3 DEF Group
    <3>5. Range(new.rules) = Range(old.rules) \union {r}
      <4>1. \A q : q \in Range(Append(old.rules, r)) <=> q \in Range(old.rules) \union {r}
        <5>1. PICK l \in Nat : l = Len(old.rules)
          BY <3>3
        <5>2. /\ DOMAIN old.rules = 1 .. l
              /\ DOMAIN Append(old.rules, r) = 1 .. l + 1
              /\ Append(old.rules, r)[l + 1] = r
              /\ \A i \in 1 .. l : /\ Append(old.rules, r)[i] = old.rules[i]
                                   /\ i \in 1 .. l + 1
              /\ \A i \in 1 .. l + 1 : i \in 1 .. l \/ i = l + 1
              /\ l + 1 \in 1 .. l + 1
          BY <3>3, <5>1
        <5>3. QED
          BY <5>2 DEF Range
      <4>2. QED
        BY <3>4, <4>1
    <3>6. groups' = [groups EXCEPT ![m] = new]
      BY <2>3, <3>1, <3>2
    <3> HIDE DEF new
    <3>7. groups'[m] = new /\ m \in 1 .. m
      BY <1>4, <1>9, <2>3, <3>6
    <3>8. Fits(H, m)'
      <4>1. Fits(G, m) /\ h = m /\ line.key # "crawl-delay"
        BY <1>5, <1>8, <2>3, <3>7 DEF IsRuleLine
      <4>2. QED
        BY <1>7, <2>3, <3>1, <3>2, <3>4, <3>5, <3>7, <4>1 DEF Fits
    <3>9. QED
      BY <1>10, <2>3, <3>4, <3>6, <3>8
  <2>4. CASE /\ open /\ line.key = "crawl-delay"
             /\ groups' = [groups EXCEPT ![m].delay = Longer(@, line.delay)]
    <3>1. PICK old \in Group : old = groups[m]
      BY <1>4, <1>9, <2>4
    <3>2. PICK d \in Nat : d = line.delay
      BY <2>4, RobotsAssumption DEF Line
    <3> DEFINE new == [old EXCEPT !.delay = Longer(@, d)]
    <3>3. old.delay \in Nat /\ Longer(old.delay, d) \in Nat
      BY DEF Group, Longer
    <3>4. /\ new \in Group
          /\ new.agents = old.agents /\ new.rules = old.rules
          /\ new.delay = Longer(old.delay, d)
      BY <3>3 DEF Group
    <3>5. /\ old.delay <= new.delay /\ d <= new.delay
          /\ new.delay = old.delay \/ new.delay = d
          /\ new.delay \in Nat
      BY <3>3, <3>4 DEF Longer
    <3>6. groups' = [groups EXCEPT ![m] = new]
      BY <2>4, <3>1, <3>2
    <3> HIDE DEF new
    <3>7. groups'[m] = new /\ m \in 1 .. m
      BY <1>4, <1>9, <2>4, <3>6
    <3>8. Fits(H, m)'
      <4>1. Fits(G, m) /\ h = m /\ ~IsRuleLine(line)
        BY <1>5, <1>8, <2>4, <3>7 DEF IsRuleLine
      <4>2. \A x : DelayedIn(H, m, x)' <=> DelayedIn(G, m, x) \/ x = d
        BY <1>7, <2>4, <3>2, <4>1
      <4>3. \A x : DelayedIn(G, m, x) => x \in Nat
        <5>1. \A i \in 1 .. n : file[i].key = "crawl-delay" => file[i].delay \in Nat
          <6>1. \A i \in 1 .. n : file[i] \in Line
            BY <1>1, <1>4
          <6>2. \A l \in Line : l.key = "crawl-delay" => l.delay \in Nat
            BY RobotsAssumption DEF Line
          <6>3. QED
            BY <6>1, <6>2
        <5>2. QED
          BY <1>1, <5>1 DEF DelayedIn
      <4>4. /\ \A x : DelayedIn(H, m, x)' => x <= new.delay
            /\ new.delay # 0 => DelayedIn(H, m, new.delay)'
        <5>1. /\ \A x : DelayedIn(G, m, x) => x <= old.delay
              /\ old.delay # 0 => DelayedIn(G, m, old.delay)
          BY <3>1, <4>1 DEF Fits
        <5>2. ASSUME NEW x, DelayedIn(H, m, x)' PROVE x <= new.delay
          <6>1. CASE x = d
            BY <3>5, <6>1
          <6>2. CASE DelayedIn(G, m, x)
            BY <3>3, <3>5, <4>3, <5>1, <6>2
          <6>3. QED
            BY <4>2, <5>2, <6>1, <6>2
        <5>3. QED
          BY <3>5, <4>2, <5>1, <5>2
      <4>5. QED
        BY <1>7, <3>1, <3>4, <3>7, <4>1, <4>4 DEF Fits
    <3>9. QED
      BY <1>10, <2>4, <3>4, <3>6, <3>8
  <2>5. QED
    BY <1>2, <2>1, <2>2, <2>3, <2>4 DEF MemberStep
<1>12. ParserTypes'
  <2>1. Append(file, line) \in Seq(Line)
    BY <1>4
  <2>2. open' => groups' # <<>>
    BY <1>3, <1>4, <1>11
  <2>3. QED
    BY <1>3, <1>4, <1>11, <2>1, <2>2 DEF ParserTypes
<1>13. Shape(H)'
  <2>1. ReadMember(line, h, m)
    BY <1>3, <1>5, <1>11 DEF ReadMember
  <2>2. QED
    BY <1>1, <1>2, <1>3, <1>6, <2>1, ShapeStep DEF Grouping
<1>14. Content(H)'
  BY <1>11 DEF Content
<1>15. QED
  BY <1>12, <1>13, <1>14 DEF Parsed, Grouping

\* However the lines follow each other, the parser's groups are those of the
\* file read as a whole.
LEMMA ParsedAlways == Spec => []Parsed
<1>1. Parsed /\ [Next]_vars => Parsed'
  <2> SUFFICES ASSUME Parsed, [Next]_vars PROVE Parsed'
    OBVIOUS
  <2>1. CASE UNCHANGED vars
    <3>1. /\ file' = file /\ groups' = groups
          /\ open' = open /\ inRuleBlock' = inRuleBlock
      BY <2>1 DEF vars
    <3>2. ParserTypes'
      BY <3>1 DEF Parsed, ParserTypes
    <3>3. PICK G : Grouping(G)
      BY DEF Parsed
    <3>4. Ordered(G)'
      BY <3>1, <3>3 DEF Grouping, Shape, Ordered, IsAgent
    <3>5. AsWhole(G)'
      BY <3>1, <3>3
         DEF Grouping, Shape, AsWhole, IsAgent, IsMember, Together, Governs
    <3>6. FlagsFit(G)'
      BY <3>1, <3>3
         DEF Grouping, Shape, FlagsFit, IsAgent, IsMember, Fresh, Reaches
    <3>7. Content(G)'
      <4>1. \A g \in 1 .. Len(groups) : Fits(G, g)
        BY <3>3 DEF Grouping, Content
      <4>2. ASSUME NEW g
            PROVE  /\ \A x : NamedIn(G, g, x)' <=> NamedIn(G, g, x)
                   /\ \A x : RuledIn(G, g, x)' <=> RuledIn(G, g, x)
                   /\ \A x : DelayedIn(G, g, x)' <=> DelayedIn(G, g, x)
        BY <3>1 DEF NamedIn, RuledIn, DelayedIn, IsAgent
      <4>3. ASSUME NEW g \in 1 .. Len(groups) PROVE Fits(G, g)'
        BY <3>1, <4>1, <4>2 DEF Fits
      <4>4. QED
        BY <3>1, <4>3 DEF Content
    <3>8. QED
      BY <3>2, <3>4, <3>5, <3>6, <3>7 DEF Parsed, Grouping, Shape
  <2>2. CASE Next
    <3>1. ParserTypes /\ \E G : Grouping(G)
      BY DEF Parsed
    <3>2. PICK G : Grouping(G)
      BY <3>1
    <3>3. CASE BlankStep
      BY <3>1, <3>2, <3>3, BlankParsed
    <3>4. ASSUME NEW a \in Token, AgentStep(a) PROVE Parsed'
      BY <3>1, <3>2, <3>4, AgentParsed
    <3>5. ASSUME NEW line \in Line, MemberStep(line) PROVE Parsed'
      BY <3>1, <3>2, <3>5, MemberParsed
    <3>6. QED
      BY <2>2, <3>3, <3>4, <3>5, Steps
  <2>3. QED
    BY <2>1, <2>2
<1>2. QED
  BY <1>1, ParsedInit, PTL DEF Spec

-----------------------------------------------------------------------------
(***************************************************************************)
(* The group that the crawler obeys, and the lines of it.                  *)
(***************************************************************************)

\* First finds the first.
LEMMA FirstOf ==
  ASSUME NEW S \in SUBSET Nat, S # {}
  PROVE  First(S) \in S /\ \A k \in S : First(S) <= k
BY LeastNumber DEF First

\* The lines and the groups with an agent of C.
LinesWith(C) == {j \in DOMAIN file : IsAgent(j) /\ file[j].agent \in C}
GroupsWith(C) == {i \in DOMAIN groups : groups[i].agents \intersect C # {}}

\* The first line with an agent of C is in the first group that has one.
LEMMA FirstWith ==
  ASSUME ParserTypes, NEW G, Grouping(G), NEW C
  PROVE  /\ LinesWith(C) = {} <=> GroupsWith(C) = {}
         /\ LinesWith(C) # {} =>
              /\ First(LinesWith(C)) \in 1 .. Len(file)
              /\ IsAgent(First(LinesWith(C)))
              /\ First(GroupsWith(C)) \in 1 .. Len(groups)
              /\ G[First(LinesWith(C))] = First(GroupsWith(C))
<1> DEFINE lines == LinesWith(C)
           with == GroupsWith(C)
<1>1. /\ DOMAIN file = 1 .. Len(file) /\ Len(file) \in Nat
      /\ DOMAIN groups = 1 .. Len(groups) /\ Len(groups) \in Nat
  BY DEF ParserTypes
<1>2. /\ \A j \in 1 .. Len(file) : G[j] \in 0 .. Len(groups)
      /\ \A j \in 1 .. Len(file) : IsAgent(j) => G[j] # 0
      /\ \A j, k \in 1 .. Len(file) :
           IsAgent(j) /\ IsAgent(k) /\ j <= k => G[j] <= G[k]
  BY DEF Grouping, Shape, Ordered
<1>3. \A g \in 1 .. Len(groups) : \A a :
        a \in groups[g].agents <=> NamedIn(G, g, a)
  BY DEF Grouping, Content, Fits
<1>4. ASSUME NEW j \in lines PROVE G[j] \in with
  <2>1. j \in 1 .. Len(file) /\ IsAgent(j) /\ file[j].agent \in C
    BY <1>1 DEF LinesWith
  <2>2. G[j] \in 1 .. Len(groups)
    BY <1>1, <1>2, <2>1
  <2>3. NamedIn(G, G[j], file[j].agent)
    BY <2>1 DEF NamedIn
  <2>4. file[j].agent \in groups[G[j]].agents
    BY <1>3, <2>2, <2>3
  <2>5. QED
    BY <1>1, <2>1, <2>2, <2>4 DEF GroupsWith
<1>5. ASSUME NEW g \in with PROVE \E j \in lines : G[j] = g
  <2>1. g \in 1 .. Len(groups)
    BY <1>1 DEF GroupsWith
  <2>2. PICK a \in C : a \in groups[g].agents
    BY DEF GroupsWith
  <2>3. NamedIn(G, g, a)
    BY <1>3, <2>1, <2>2
  <2>4. QED
    BY <1>1, <2>2, <2>3 DEF NamedIn, LinesWith
<1>6. lines \in SUBSET Nat /\ with \in SUBSET Nat
  BY <1>1 DEF LinesWith, GroupsWith
<1>7. lines = {} <=> with = {}
  BY <1>4, <1>5
<1>8. ASSUME lines # {}
      PROVE  /\ First(lines) \in 1 .. Len(file) /\ IsAgent(First(lines))
             /\ First(with) \in 1 .. Len(groups)
             /\ G[First(lines)] = First(with)
  <2>1. First(lines) \in lines /\ \A k \in lines : First(lines) <= k
    BY <1>6, <1>8, FirstOf
  <2>2. First(with) \in with /\ \A k \in with : First(with) <= k
    BY <1>6, <1>7, <1>8, FirstOf
  <2>3. /\ First(lines) \in 1 .. Len(file) /\ IsAgent(First(lines))
        /\ First(with) \in 1 .. Len(groups)
    BY <1>1, <2>1, <2>2 DEF LinesWith, GroupsWith
  <2>4. First(with) <= G[First(lines)]
    BY <1>4, <2>1, <2>2
  <2>5. PICK j \in lines : G[j] = First(with)
    BY <1>5, <2>2
  <2>6. G[First(lines)] <= First(with)
    <3>1. j \in 1 .. Len(file) /\ IsAgent(j)
      BY <1>1, <2>5 DEF LinesWith
    <3>2. First(lines) <= j
      BY <2>1, <2>5
    <3>3. QED
      BY <1>2, <2>3, <2>5, <3>1, <3>2
  <2>7. G[First(lines)] \in 0 .. Len(groups)
    BY <1>2, <2>3
  <2>8. G[First(lines)] = First(with)
    BY <1>1, <2>3, <2>4, <2>6, <2>7
  <2>9. QED
    BY <2>3, <2>8
<1>9. QED
  BY <1>7, <1>8

\* The agent line of the group that the parser obeys: the first with a token of
\* the crawler's name, else the first for everyone.
Obeyed ==
  LET named == {j \in DOMAIN file : IsAgent(j) /\ file[j].agent \in Ours}
      general == {j \in DOMAIN file : IsAgent(j) /\ file[j].agent = Star}
  IN IF named # {} THEN First(named) ELSE First(general)

\* A line of the group of Obeyed.
InObeyed(i) ==
  \E j \in DOMAIN file :
    IsAgent(j) /\ Obeyed # 0 /\ Together(j, Obeyed) /\ Governs(j, i)

\* A rule of the obeyed group that matches: does it allow, how long is it?
Applies(i, path) ==
  /\ InObeyed(i)
  /\ \/ file[i].key \in {"allow", "disallow"} /\ path \in Matches[file[i].path]
     \/ file[i].key = "empty disallow"

Allows(i) == file[i].key \in {"allow", "empty disallow"}
LengthAt(i) ==
  IF file[i].key = "empty disallow" THEN Length[Everything]
                                    ELSE Length[file[i].path]

\* The group that the parser chooses is that of the line Obeyed.
LEMMA ObeyedGroup ==
  ASSUME ParserTypes, NEW G, Grouping(G)
  PROVE  /\ Obeyed = 0 <=> BestGroup = 0
         /\ Obeyed # 0 =>
              /\ Obeyed \in 1 .. Len(file) /\ IsAgent(Obeyed)
              /\ BestGroup \in 1 .. Len(groups)
              /\ G[Obeyed] = BestGroup
<1> DEFINE lines1 == LinesWith(Ours)
           lines2 == LinesWith({Star})
           with1 == GroupsWith(Ours)
           with2 == GroupsWith({Star})
<1>1. /\ lines1 = {j \in DOMAIN file : IsAgent(j) /\ file[j].agent \in Ours}
      /\ lines2 = {j \in DOMAIN file : IsAgent(j) /\ file[j].agent = Star}
      /\ with1 = {i \in DOMAIN groups : groups[i].agents \intersect Ours # {}}
      /\ with2 = {i \in DOMAIN groups : Star \in groups[i].agents}
  BY DEF LinesWith, GroupsWith
<1>2. /\ Obeyed = IF lines1 # {} THEN First(lines1) ELSE First(lines2)
      /\ BestGroup = IF with1 # {} THEN First(with1) ELSE First(with2)
  BY <1>1 DEF Obeyed, BestGroup
<1>3. /\ lines1 = {} <=> with1 = {}
      /\ lines1 # {} =>
           /\ First(lines1) \in 1 .. Len(file) /\ IsAgent(First(lines1))
           /\ First(with1) \in 1 .. Len(groups)
           /\ G[First(lines1)] = First(with1)
  BY FirstWith
<1>4. /\ lines2 = {} <=> with2 = {}
      /\ lines2 # {} =>
           /\ First(lines2) \in 1 .. Len(file) /\ IsAgent(First(lines2))
           /\ First(with2) \in 1 .. Len(groups)
           /\ G[First(lines2)] = First(with2)
  BY FirstWith
<1> HIDE DEF lines1, with1, lines2, with2
<1>5. First({}) = 0
  BY DEF First
<1>6. \A x, k : x \in 1 .. k => x # 0
  OBVIOUS
<1>7. QED
  BY <1>2, <1>3, <1>4, <1>5, <1>6

\* A line applies to a path if its rule is in the obeyed group and matches.
LEMMA AppliesInGroup ==
  ASSUME ParserTypes, NEW G, Grouping(G), NEW i \in 1 .. Len(file),
         NEW path \in Path
  PROVE  Applies(i, path) <=>
           /\ BestGroup # 0 /\ IsRuleLine(file[i]) /\ G[i] = BestGroup
           /\ path \in Matches[RuleOf(file[i]).path]
<1>1. /\ Obeyed = 0 <=> BestGroup = 0
      /\ Obeyed # 0 =>
           /\ Obeyed \in 1 .. Len(file) /\ IsAgent(Obeyed)
           /\ BestGroup \in 1 .. Len(groups)
           /\ G[Obeyed] = BestGroup
  BY ObeyedGroup
<1>2. /\ \A j, k \in 1 .. Len(file) :
           IsAgent(j) /\ IsAgent(k) => (Together(j, k) <=> G[j] = G[k])
      /\ \A j, k \in 1 .. Len(file) :
           IsAgent(j) /\ IsMember(k) => (Governs(j, k) <=> G[j] = G[k])
  BY DEF Grouping, Shape, AsWhole
<1>3. DOMAIN file = 1 .. Len(file)
  BY DEF ParserTypes
<1> DEFINE matches == \/ /\ file[i].key \in {"allow", "disallow"}
                         /\ path \in Matches[file[i].path]
                      \/ file[i].key = "empty disallow"
           ruled == IsRuleLine(file[i]) /\ path \in Matches[RuleOf(file[i]).path]
<1>4. matches <=> ruled
  BY RobotsAssumption DEF IsRuleLine, RuleOf
<1>5. matches => IsMember(i)
  BY DEF IsMember
<1>6. Applies(i, path) <=>
        /\ \E j \in DOMAIN file :
             IsAgent(j) /\ Obeyed # 0 /\ Together(j, Obeyed) /\ Governs(j, i)
        /\ matches
  BY DEF Applies, InObeyed
<1> HIDE DEF matches
<1>7. ASSUME Applies(i, path) PROVE BestGroup # 0 /\ G[i] = BestGroup
  <2>1. PICK j \in 1 .. Len(file) :
          IsAgent(j) /\ Obeyed # 0 /\ Together(j, Obeyed) /\ Governs(j, i)
    BY <1>3, <1>6, <1>7
  <2>2. IsMember(i)
    BY <2>1 DEF Governs
  <2>3. QED
    BY <1>1, <1>2, <2>1, <2>2
<1>8. ASSUME BestGroup # 0, G[i] = BestGroup, matches PROVE Applies(i, path)
  BY <1>1, <1>2, <1>3, <1>5, <1>6, <1>8
<1>9. QED
  BY <1>4, <1>6, <1>7, <1>8

-----------------------------------------------------------------------------
(***************************************************************************)
(* The loop of is_allowed.                                                 *)
(***************************************************************************)

ObeyedRules == IF BestGroup = 0 THEN <<>> ELSE groups[BestGroup].rules

\* The best rule found so far.
Finding == [found : BOOLEAN, best : Rule]

Nothing == [found |-> FALSE, best |-> [allow |-> TRUE, path |-> Everything]]

\* One turn of the loop.
Weigh(state, r, path) ==
  IF /\ path \in Matches[r.path]
     /\ state.found => Beats(r, state.best)
    THEN [found |-> TRUE, best |-> r] ELSE state

\* What is found before the first turn, after each turn, and at the end.
IsWeighing(run, rules, path) ==
  /\ run[0] = Nothing
  /\ \A k \in 1 .. Len(rules) : run[k] = Weigh(run[k - 1], rules[k], path)
  /\ IsAllowed(path) = run[Len(rules)].best.allow

\* IsAllowed is a run of that loop.
LEMMA Weighing ==
  ASSUME NEW rules \in Seq(Rule), rules = ObeyedRules, NEW path \in Path
  PROVE  \E run \in [0 .. Len(rules) -> Finding] : IsWeighing(run, rules, path)
<1> DEFINE n == Len(rules)
           State == Finding
           base == Nothing
           step == [a \in (1 .. n) \X State |-> Weigh(a[2], rules[a[1]], path)]
           loop(g) == [s \in SUBSET DOMAIN rules |->
                         IF s = {} THEN base
                         ELSE Weigh(g[s \ {Max(s)}], rules[Max(s)], path)]
           fold == CHOOSE g : g = loop(g)
<1>1. IsAllowed(path) = fold[DOMAIN rules].best.allow
  BY DEF IsAllowed, FoldLeft, MapThenFoldSet, Weigh, ObeyedRules, Nothing
<1>2. n \in Nat /\ DOMAIN rules = 1 .. n /\ \A i \in 1 .. n : rules[i] \in Rule
  OBVIOUS
<1>3. \A state \in State, r \in Rule : Weigh(state, r, path) \in State
  BY DEF Weigh, Finding
<1>4. base \in State /\ step \in [(1 .. n) \X State -> State]
  <2>1. base \in State
    BY RobotsAssumption DEF Nothing, Finding, Rule
  <2>2. QED
    BY <1>2, <1>3, <2>1
<1>5. \A i \in 1 .. n, state \in State :
        step[<<i, state>>] = Weigh(state, rules[i], path)
  OBVIOUS
<1> HIDE DEF n, step, State, base
<1>6. PICK g \in [SUBSET (1 .. n) -> State] : FoldsBy(g, n, base, step)
  BY <1>2, <1>4, FoldSolution
<1>7. \A s \in SUBSET (1 .. n) : s # {} => Max(s) \in 1 .. n
  BY <1>2, MaxOfRange
<1>8. g = loop(g)
  <2>1. ASSUME NEW s \in SUBSET (1 .. n), s # {}
        PROVE  g[s] = Weigh(g[s \ {Max(s)}], rules[Max(s)], path)
    <3>1. g[s \ {Max(s)}] \in State
      OBVIOUS
    <3>2. QED
      BY <1>5, <1>6, <1>7, <2>1, <3>1 DEF FoldsBy
  <2>2. \A s \in SUBSET (1 .. n) : s = {} => g[s] = base
    BY <1>6 DEF FoldsBy
  <2>3. QED
    BY <1>2, <2>1, <2>2
<1>9. fold = loop(fold)
  BY <1>8
<1> HIDE DEF fold
<1>10. FoldsWithin(fold, n, State, base, step)
  <2>1. fold[{}] = base
    BY <1>9
  <2>2. ASSUME NEW s \in SUBSET (1 .. n), s # {}, fold[s \ {Max(s)}] \in State
        PROVE  fold[s] = step[<<Max(s), fold[s \ {Max(s)}]>>]
    BY <1>2, <1>5, <1>7, <1>9, <2>2
  <2>3. QED
    BY <2>1, <2>2 DEF FoldsWithin
<1>11. PICK run \in [0 .. n -> State] : IsRun(run, n, base, step, fold[1 .. n])
  BY <1>2, <1>4, <1>10, FoldRuns
<1>12. ASSUME NEW k \in 1 .. n
       PROVE  run[k] = Weigh(run[k - 1], rules[k], path)
  <2>1. run[k - 1] \in State
    BY <1>2
  <2>2. QED
    BY <1>5, <1>11, <2>1 DEF IsRun
<1>13. QED
  BY <1>1, <1>2, <1>11, <1>12 DEF n, State, base, IsRun, IsWeighing

\* A path is refused if a rule against it is longer than every rule for it.
LEMMA LongestRule ==
  ASSUME NEW rules \in Seq(Rule), rules = ObeyedRules, NEW path \in Path
  PROVE  LET matching == {r \in Range(rules) : path \in Matches[r.path]}
         IN  /\ IsAllowed(path) \in BOOLEAN
             /\ ~IsAllowed(path) <=>
                  \E r \in matching :
                    /\ ~r.allow
                    /\ \A q \in matching :
                         q.allow => Length[q.path] < Length[r.path]
<1> DEFINE n == Len(rules)
           Matching(r) == path \in Matches[r.path]
           L(r) == Length[r.path]
<1>0. PICK run \in [0 .. n -> Finding] : IsWeighing(run, rules, path)
  BY Weighing
<1>1. /\ run[0] = Nothing
      /\ \A k \in 1 .. n : run[k] = Weigh(run[k - 1], rules[k], path)
      /\ IsAllowed(path) = run[n].best.allow
  BY <1>0 DEF IsWeighing
<1>2. /\ n \in Nat /\ DOMAIN rules = 1 .. n
      /\ \A i \in 1 .. n : rules[i] \in Rule
      /\ \A k \in 0 .. n : run[k] \in Finding
  OBVIOUS
<1>3. \A r \in Rule : L(r) \in Nat
  BY RobotsAssumption DEF Rule
<1>4. \A s \in Finding : s.best \in Rule /\ s.found \in BOOLEAN
  BY DEF Finding
<1>5. \A r, b : Beats(r, b) <=> L(r) > L(b) \/ (L(r) = L(b) /\ r.allow)
  BY DEF Beats
<1>6. \A s \in Finding : \A r :
        Weigh(s, r, path) = IF Matching(r) /\ (s.found => Beats(r, s.best))
                              THEN [found |-> TRUE, best |-> r] ELSE s
  BY DEF Weigh
<1>7. ~Nothing.found /\ Nothing.best.allow
  BY DEF Nothing
<1> DEFINE Outdone(r, b) == L(r) <= L(b) /\ (L(r) = L(b) /\ r.allow => b.allow)
           Good(k) ==
             /\ ~run[k].found =>
                  run[k].best.allow /\ \A i \in 1 .. k : ~Matching(rules[i])
             /\ run[k].found =>
                  /\ \E i \in 1 .. k : rules[i] = run[k].best
                  /\ Matching(run[k].best)
                  /\ \A i \in 1 .. k :
                       Matching(rules[i]) => Outdone(rules[i], run[k].best)
<1> HIDE DEF L, Matching
<1>8. \A r, b \in Rule : ~Beats(r, b) => Outdone(r, b)
  BY <1>3, <1>5
<1>9. \A r, b, q \in Rule : Beats(r, b) /\ Outdone(q, b) => Outdone(q, r)
  BY <1>3, <1>5
<1>10. \A r \in Rule : Outdone(r, r)
  BY <1>3
<1> HIDE DEF Outdone
<1>11. Good(0)
  BY <1>1, <1>7
<1>12. ASSUME NEW k \in 1 .. n, Good(k - 1) PROVE Good(k)
  <2>1. PICK s \in Finding : s = run[k - 1]
    <3>1. k - 1 \in 0 .. n
      BY <1>2
    <3>2. QED
      BY <1>2, <3>1
  <2>2. PICK r \in Rule : r = rules[k]
    BY <1>2
  <2>3. PICK t \in Finding : t = run[k]
    <3>1. k \in 0 .. n
      BY <1>2
    <3>2. QED
      BY <1>2, <3>1
  <2>4. t = IF Matching(r) /\ (s.found => Beats(r, s.best))
              THEN [found |-> TRUE, best |-> r] ELSE s
    BY <1>1, <1>6, <2>1, <2>2, <2>3
  <2>5. /\ \A i \in 1 .. k - 1 : i \in 1 .. k /\ rules[i] \in Rule
        /\ \A i \in 1 .. k : i \in 1 .. k - 1 \/ i = k
        /\ k \in 1 .. k
    BY <1>2
  <2>6. /\ ~s.found => s.best.allow /\ \A i \in 1 .. k - 1 : ~Matching(rules[i])
        /\ s.found =>
             /\ \E i \in 1 .. k - 1 : rules[i] = s.best
             /\ Matching(s.best)
             /\ \A i \in 1 .. k - 1 :
                  Matching(rules[i]) => Outdone(rules[i], s.best)
    BY <1>12, <2>1
  <2>7. CASE Matching(r) /\ (s.found => Beats(r, s.best))
    <3>1. t.found /\ t.best = r
      BY <2>4, <2>7
    <3>2. \A i \in 1 .. k - 1 : Matching(rules[i]) => Outdone(rules[i], r)
      <4>1. CASE s.found
        BY <1>4, <1>9, <2>5, <2>6, <2>7, <4>1
      <4>2. CASE ~s.found
        BY <2>6, <4>2
      <4>3. QED
        BY <4>1, <4>2
    <3>3. QED
      BY <1>10, <2>2, <2>3, <2>5, <2>7, <3>1, <3>2
  <2>8. CASE ~(Matching(r) /\ (s.found => Beats(r, s.best)))
    <3>1. t = s
      BY <2>4, <2>8
    <3>2. CASE s.found
      <4>1. Matching(r) => Outdone(r, s.best)
        BY <1>4, <1>8, <2>8, <3>2
      <4>2. QED
        BY <2>2, <2>3, <2>5, <2>6, <3>1, <3>2, <4>1
    <3>3. CASE ~s.found
      BY <2>2, <2>3, <2>5, <2>6, <2>8, <3>1, <3>3
    <3>4. QED
      BY <3>2, <3>3
  <2>9. QED
    BY <2>7, <2>8
<1> HIDE DEF Good
<1>13. Good(n)
  <2> DEFINE Bad == {k \in 0 .. n : ~Good(k)}
  <2> SUFFICES ASSUME Bad # {} PROVE FALSE
    BY <1>2
  <2>1. Bad \in SUBSET Nat
    OBVIOUS
  <2>2. PICK k \in Bad : \A j \in Bad : k <= j
    <3> HIDE DEF Bad
    <3> QED
      BY <2>1, LeastNumber
  <2>3. k \in 1 .. n
    BY <1>2, <1>11, <2>2
  <2>4. k - 1 \in 0 .. n /\ ~(k <= k - 1)
    BY <1>2, <2>3
  <2>5. QED
    BY <1>12, <2>2, <2>3, <2>4
<1>14. PICK t \in Finding : t = run[n]
  BY <1>2
<1>15. /\ ~t.found => t.best.allow /\ \A i \in 1 .. n : ~Matching(rules[i])
       /\ t.found =>
            /\ \E i \in 1 .. n : rules[i] = t.best
            /\ Matching(t.best)
            /\ \A i \in 1 .. n :
                 Matching(rules[i]) => Outdone(rules[i], t.best)
  BY <1>13, <1>14 DEF Good
<1>16. IsAllowed(path) = t.best.allow /\ t.best.allow \in BOOLEAN
  BY <1>1, <1>4, <1>14 DEF Rule
<1> DEFINE matching == {r \in Range(rules) : path \in Matches[r.path]}
<1>17. \A r : r \in matching <=> \E i \in 1 .. n : rules[i] = r /\ Matching(r)
  BY <1>2 DEF Range, Matching
<1> HIDE DEF matching
<1>18. /\ matching \subseteq Rule
       /\ ~t.found => matching = {} /\ t.best.allow
       /\ t.found => /\ t.best \in matching
                     /\ \A r \in matching : Outdone(r, t.best)
  BY <1>2, <1>15, <1>17
<1>19. ~t.best.allow <=>
         \E r \in matching :
           ~r.allow /\ \A q \in matching : q.allow => L(q) < L(r)
  <2>1. ASSUME ~t.best.allow
        PROVE  \E r \in matching :
                 ~r.allow /\ \A q \in matching : q.allow => L(q) < L(r)
    <3>1. t.best \in matching /\ \A r \in matching : Outdone(r, t.best)
      BY <1>18, <2>1
    <3>2. \A q \in matching : q.allow => L(q) < L(t.best)
      BY <1>3, <1>4, <1>18, <2>1, <3>1 DEF Outdone
    <3>3. QED
      BY <2>1, <3>1, <3>2
  <2>2. ASSUME t.best.allow, NEW r \in matching, ~r.allow,
               \A q \in matching : q.allow => L(q) < L(r)
        PROVE  FALSE
    <3>1. t.best \in matching /\ Outdone(r, t.best)
      BY <1>18, <2>2
    <3>2. L(t.best) < L(r) /\ L(r) <= L(t.best)
      BY <2>2, <3>1 DEF Outdone
    <3>3. QED
      BY <1>3, <1>18, <3>1, <3>2
  <2>3. QED
    BY <2>1, <2>2
<1>20. QED
  BY <1>16, <1>19 DEF matching, L

\* The rules weighed for a path are those of the lines that apply to it.
LEMMA RulesOfLines ==
  ASSUME ParserTypes, NEW G, Grouping(G), NEW path \in Path
  PROVE  /\ ObeyedRules \in Seq(Rule)
         /\ \A r : r \in {q \in Range(ObeyedRules) : path \in Matches[q.path]} <=>
              \E i \in 1 .. Len(file) : Applies(i, path) /\ RuleOf(file[i]) = r
<1>1. \A i \in 1 .. Len(file) :
        Applies(i, path) <=>
           /\ BestGroup # 0 /\ IsRuleLine(file[i]) /\ G[i] = BestGroup
           /\ path \in Matches[RuleOf(file[i]).path]
  BY AppliesInGroup
<1>2. CASE BestGroup = 0
  <2>1. ObeyedRules = <<>> /\ Range(<<>>) = {} /\ <<>> \in Seq(Rule)
    BY <1>2 DEF ObeyedRules, Range
  <2>2. QED
    BY <1>1, <1>2, <2>1
<1>3. CASE BestGroup # 0
  <2>1. BestGroup \in 1 .. Len(groups)
    BY <1>3, ObeyedGroup
  <2>2. groups[BestGroup] \in Group /\ ObeyedRules = groups[BestGroup].rules
    BY <1>3, <2>1 DEF ParserTypes, ObeyedRules
  <2>3. ObeyedRules \in Seq(Rule)
    BY <2>2 DEF Group
  <2>4. \A r : r \in Range(ObeyedRules) <=> RuledIn(G, BestGroup, r)
    BY <2>1, <2>2 DEF Grouping, Content, Fits
  <2>5. QED
    BY <1>1, <1>3, <2>3, <2>4 DEF RuledIn
<1>4. QED
  BY <1>2, <1>3

\* Whatever a file holds, a path is refused exactly if a Disallow of the group
\* that the parser obeys matches it that is longer than every Allow that does.
LEMMA VerdictOfGroup ==
  ASSUME Parsed, NEW path \in Path
  PROVE  IsAllowed(path) =
           ~\E i \in DOMAIN file :
              /\ Applies(i, path) /\ ~Allows(i)
              /\ \A k \in DOMAIN file :
                   Applies(k, path) /\ Allows(k) => LengthAt(k) < LengthAt(i)
<1>1. ParserTypes /\ \E G : Grouping(G)
  BY DEF Parsed
<1>2. PICK G : Grouping(G)
  BY <1>1
<1> DEFINE matching == {q \in Range(ObeyedRules) : path \in Matches[q.path]}
<1>3. /\ ObeyedRules \in Seq(Rule)
      /\ \A r : r \in matching <=>
           \E i \in 1 .. Len(file) : Applies(i, path) /\ RuleOf(file[i]) = r
  BY <1>1, <1>2, RulesOfLines
<1>4. /\ IsAllowed(path) \in BOOLEAN
      /\ ~IsAllowed(path) <=>
           \E r \in matching :
             /\ ~r.allow
             /\ \A q \in matching : q.allow => Length[q.path] < Length[r.path]
  BY <1>3, LongestRule
<1>5. DOMAIN file = 1 .. Len(file)
  BY <1>1 DEF ParserTypes
<1>6. \A i : /\ Allows(i) <=> RuleOf(file[i]).allow
             /\ LengthAt(i) = Length[RuleOf(file[i]).path]
  BY DEF Allows, LengthAt, RuleOf
<1> HIDE DEF matching
<1>7. (\E r \in matching :
         /\ ~r.allow
         /\ \A q \in matching : q.allow => Length[q.path] < Length[r.path])
      <=>
      (\E i \in DOMAIN file :
         /\ Applies(i, path) /\ ~Allows(i)
         /\ \A k \in DOMAIN file :
              Applies(k, path) /\ Allows(k) => LengthAt(k) < LengthAt(i))
  BY <1>3, <1>5, <1>6
<1> DEFINE verdict == IsAllowed(path)
           refused == \E i \in DOMAIN file :
                        /\ Applies(i, path) /\ ~Allows(i)
                        /\ \A k \in DOMAIN file :
                             Applies(k, path) /\ Allows(k) =>
                               LengthAt(k) < LengthAt(i)
<1>8. verdict \in BOOLEAN /\ (~verdict <=> refused) /\ refused \in BOOLEAN
  BY <1>4, <1>7
<1> HIDE DEF verdict, refused
<1>9. verdict = ~refused
  BY <1>8
<1>10. QED
  BY <1>9 DEF verdict, refused

-----------------------------------------------------------------------------
(***************************************************************************)
(* The standard's reading of a conventional file.                          *)
(***************************************************************************)

\* The line whose group is obeyed addresses the crawler, if any line does.
LEMMA ObeyedAddresses ==
  ASSUME ParserTypes, Conventional
  PROVE  /\ Addressing \subseteq 1 .. Len(file)
         /\ \A j \in Addressing : IsAgent(j)
         /\ Addressing # {} => Obeyed \in Addressing
         /\ Addressing = {} => Obeyed = 0
<1> DEFINE named == {j \in DOMAIN file : IsAgent(j) /\ file[j].agent \in Ours}
           general == {j \in DOMAIN file : IsAgent(j) /\ file[j].agent = Star}
           exact == {j \in DOMAIN file : IsAgent(j) /\ file[j].agent = Name}
<1>1. DOMAIN file = 1 .. Len(file) /\ Len(file) \in Nat
  BY DEF ParserTypes
<1>2. named = exact
  BY RobotsAssumption DEF Conventional
<1>3. Addressing = IF named # {} THEN named ELSE general
  BY <1>2 DEF Addressing
<1>4. named \in SUBSET Nat /\ general \in SUBSET Nat
  BY <1>1
<1>5. Obeyed = IF named # {} THEN First(named) ELSE First(general)
  BY DEF Obeyed
<1>6. /\ \A j \in named \union general : j \in 1 .. Len(file) /\ IsAgent(j)
      /\ First({}) = 0
  BY <1>1 DEF First
<1> HIDE DEF named, general, exact
<1>7. /\ named # {} => First(named) \in named
      /\ general # {} => First(general) \in general
  BY <1>4, FirstOf
<1>8. QED
  BY <1>3, <1>5, <1>6, <1>7

\* The rules of the obeyed group are those that address the crawler.
LEMMA ObeyedBinds ==
  ASSUME ParserTypes, Conventional, NEW i \in 1 .. Len(file), IsRule(i)
  PROVE  InObeyed(i) <=> Binds(i)
<1>1. DOMAIN file = 1 .. Len(file) /\ Len(file) \in Nat
  BY DEF ParserTypes
<1>2. /\ Addressing \subseteq 1 .. Len(file)
      /\ \A j \in Addressing : IsAgent(j)
      /\ Addressing # {} => Obeyed \in Addressing
      /\ Addressing = {} => Obeyed = 0
  BY ObeyedAddresses
<1>3. ASSUME Binds(i) PROVE InObeyed(i)
  <2>1. PICK j \in Addressing : StandardGoverns(j, i)
    BY <1>3 DEF Binds
  <2>2. Obeyed \in Addressing /\ Together(j, Obeyed) /\ Governs(j, i)
    BY <1>1, <1>2, <2>1 DEF Conventional
  <2>3. Obeyed # 0 /\ j \in DOMAIN file /\ IsAgent(j)
    BY <1>1, <1>2, <2>1, <2>2
  <2>4. QED
    BY <2>2, <2>3 DEF InObeyed
<1>4. ASSUME InObeyed(i) PROVE Binds(i)
  <2>1. PICK j \in 1 .. Len(file) :
          IsAgent(j) /\ Obeyed # 0 /\ Together(j, Obeyed) /\ Governs(j, i)
    BY <1>1, <1>4 DEF InObeyed
  <2>2. /\ Obeyed \in Addressing /\ Obeyed \in 1 .. Len(file)
        /\ IsAgent(Obeyed)
    BY <1>2, <2>1
  <2>3. IsMember(i) /\ j < i
    BY <2>1 DEF Governs
  <2>4. StandardGoverns(Obeyed, i)
    <3> DEFINE o == Obeyed
    <3>1. o \in 1 .. Len(file) /\ IsAgent(o) /\ ~IsMember(o) /\ ~IsMember(j)
      BY <2>1, <2>2 DEF IsAgent, IsMember
    <3>2. \A m \in (j + 1 .. o - 1) \union (o + 1 .. j - 1) : ~IsMember(m)
      BY <2>1 DEF Together
    <3>3. \A k \in j + 1 .. i - 1 :
            IsAgent(k) => \A m \in j + 1 .. k - 1 : ~IsMember(m)
      BY <2>1 DEF Governs, IsAgent
    <3>4. \A m : IsRule(m) => IsMember(m)
      BY DEF IsRule, IsMember
    <3> HIDE DEF o
    <3>5. o < i
      BY <1>1, <2>3, <3>1, <3>2
    <3>6. ASSUME NEW k \in o + 1 .. i - 1, IsAgent(k), NEW m \in o + 1 .. k - 1
          PROVE  ~IsMember(m)
      <4>1. m \in o + 1 .. j - 1 \/ m = j \/ m \in j + 1 .. k - 1
        BY <1>1, <3>1, <3>6
      <4>2. CASE m \in j + 1 .. k - 1
        <5>1. k \in j + 1 .. i - 1
          BY <1>1, <3>1, <3>6, <4>2
        <5>2. QED
          BY <3>3, <3>6, <4>2, <5>1
      <4>3. QED
        BY <3>1, <3>2, <4>1, <4>2
    <3>7. \A k \in o + 1 .. i - 1 :
            IsAgent(k) => \A m \in o + 1 .. k - 1 : ~IsRule(m)
      BY <3>4, <3>6
    <3>8. QED
      BY <3>1, <3>5, <3>7 DEF StandardGoverns, o
  <2>5. QED
    BY <2>2, <2>4 DEF Binds
<1>5. QED
  BY <1>3, <1>4

\* Every conventional file, of whatever length and in whatever order its lines
\* come, is obeyed as RFC 9309 has it: a path is refused exactly if a Disallow
\* that addresses the crawler matches it and is longer than every Allow that
\* does.
THEOREM VerdictAsWrittenAlways == Spec => []VerdictAsWritten
<1>1. Parsed => VerdictAsWritten
  <2> SUFFICES ASSUME Parsed, Conventional, NEW path \in Path
               PROVE  IsAllowed(path) =
                        ~\E i \in Applying("disallow", path) :
                           \A k \in Applying("allow", path) :
                             Length[file[k].path] < Length[file[i].path]
    BY DEF VerdictAsWritten
  <2>1. ParserTypes
    BY DEF Parsed
  <2>2. DOMAIN file = 1 .. Len(file) /\ Len(file) \in Nat
    BY <2>1 DEF ParserTypes
  <2>3. \A i \in DOMAIN file : IsRule(i) => (InObeyed(i) <=> Binds(i))
    BY <2>1, <2>2, ObeyedBinds
  <2>4. \A i \in DOMAIN file :
          Applies(i, path) /\ ~Allows(i) <=> i \in Applying("disallow", path)
    BY <2>3 DEF Applies, Allows, Applying, IsRule
  <2>5. \A k \in DOMAIN file :
          Applies(k, path) /\ Allows(k) <=>
            \/ k \in Applying("allow", path)
            \/ Binds(k) /\ file[k].key = "empty disallow"
    BY <2>3 DEF Applies, Allows, Applying, IsRule
  <2>6. \A key : Applying(key, path) \subseteq DOMAIN file
    BY DEF Applying
  <2>7. /\ \A i \in Applying("disallow", path) :
             LengthAt(i) = Length[file[i].path]
        /\ \A k \in Applying("allow", path) :
             LengthAt(k) = Length[file[k].path]
    BY DEF LengthAt, Applying
  <2>8. \A i \in DOMAIN file : file[i].key = "disallow" => file[i].path \in Pattern
    <3>1. \A i \in 1 .. Len(file) : file[i] \in Line
      BY <2>1 DEF ParserTypes
    <3>2. \A l \in Line : l.key = "disallow" => l.path \in Pattern
      BY RobotsAssumption DEF Line
    <3>3. QED
      BY <2>2, <3>1, <3>2
  <2>9. \A i \in Applying("disallow", path), k \in DOMAIN file :
          Binds(k) /\ file[k].key = "empty disallow" => LengthAt(k) < LengthAt(i)
    <3> SUFFICES ASSUME NEW i \in Applying("disallow", path),
                        NEW k \in DOMAIN file, Binds(k),
                        file[k].key = "empty disallow"
                 PROVE  LengthAt(k) < LengthAt(i)
      OBVIOUS
    <3>1. /\ i \in DOMAIN file /\ Binds(i) /\ file[i].key = "disallow"
          /\ LengthAt(k) = Length[Everything]
      BY DEF Applying, LengthAt
    <3>2. Length[file[i].path] > Length[Everything]
      BY <3>1 DEF Conventional
    <3>3. file[i].path \in Pattern /\ Everything \in Pattern
      BY <2>8, <3>1, RobotsAssumption
    <3>4. Length[file[i].path] \in Nat /\ Length[Everything] \in Nat
      BY <3>3, RobotsAssumption
    <3>5. QED
      BY <2>7, <3>1, <3>2, <3>4
  <2>10. IsAllowed(path) =
          ~\E i \in DOMAIN file :
             /\ Applies(i, path) /\ ~Allows(i)
             /\ \A k \in DOMAIN file :
                  Applies(k, path) /\ Allows(k) => LengthAt(k) < LengthAt(i)
    BY VerdictOfGroup
  <2>11. (\E i \in DOMAIN file :
            /\ Applies(i, path) /\ ~Allows(i)
            /\ \A k \in DOMAIN file :
                 Applies(k, path) /\ Allows(k) => LengthAt(k) < LengthAt(i))
         <=>
         (\E i \in Applying("disallow", path) :
            \A k \in Applying("allow", path) :
              Length[file[k].path] < Length[file[i].path])
    <3> DEFINE beaten(i, k) == LengthAt(k) < LengthAt(i)
    <3>1. \A i \in Applying("disallow", path), k \in Applying("allow", path) :
            beaten(i, k) <=> Length[file[k].path] < Length[file[i].path]
      BY <2>7
    <3>2. \A i \in Applying("disallow", path) :
            (\A k \in DOMAIN file :
               Applies(k, path) /\ Allows(k) => beaten(i, k))
            <=> (\A k \in Applying("allow", path) : beaten(i, k))
      BY <2>5, <2>6, <2>9
    <3> HIDE DEF beaten
    <3>3. (\E i \in DOMAIN file :
             /\ Applies(i, path) /\ ~Allows(i)
             /\ \A k \in DOMAIN file :
                  Applies(k, path) /\ Allows(k) => beaten(i, k))
          <=>
          (\E i \in Applying("disallow", path) :
             \A k \in Applying("allow", path) : beaten(i, k))
      BY <2>4, <2>6, <3>2
    <3>4. QED
      BY <3>1, <3>3 DEF beaten
  <2>12. QED
    BY <2>10, <2>11
<1>2. QED
  BY <1>1, ParsedAlways, PTL

\* The delay kept is, for every file that does not name the crawler, the largest
\* that a line asks of everyone, and 0 if none does.
THEOREM DelayAsWrittenAlways == Spec => []DelayAsWritten
<1>1. Parsed => DelayAsWritten
  <2> SUFFICES ASSUME Parsed PROVE DelayAsWritten
    OBVIOUS
  <2>1. ParserTypes /\ \E G : Grouping(G)
    BY DEF Parsed
  <2>2. PICK G : Grouping(G)
    BY <2>1
  <2>3. /\ DOMAIN file = 1 .. Len(file) /\ Len(file) \in Nat
        /\ DOMAIN groups = 1 .. Len(groups) /\ Len(groups) \in Nat
        /\ \A g \in 1 .. Len(groups) : groups[g].delay \in Nat
    <3>1. \A g \in 1 .. Len(groups) : groups[g] \in Group
      BY <2>1 DEF ParserTypes
    <3>2. QED
      BY <2>1, <3>1 DEF ParserTypes, Group
  <2>4. \A g \in 1 .. Len(groups) : Fits(G, g)
    BY <2>2 DEF Grouping, Content
  <2>5. \A g : g \in FileDelayGroups <=>
               g \in 1 .. Len(groups) /\ NamedIn(G, g, Star)
    BY <2>3, <2>4 DEF FileDelayGroups, Fits
  <2> DEFINE asked == {i \in DOMAIN file :
                        /\ file[i].key = "crawl-delay"
                        /\ \E j \in DOMAIN file : file[j].key = "user-agent"
                                                  /\ file[j].agent = Star
                                                  /\ Governs(j, i)}
  <2>6. \A i : i \in asked <=> /\ i \in 1 .. Len(file)
                               /\ file[i].key = "crawl-delay"
                               /\ G[i] \in FileDelayGroups
    <3>1. \A j, i \in 1 .. Len(file) :
            IsAgent(j) /\ IsMember(i) => (Governs(j, i) <=> G[j] = G[i])
      BY <2>2 DEF Grouping, Shape, AsWhole
    <3>2. \A j \in 1 .. Len(file) : IsAgent(j) => G[j] \in 1 .. Len(groups)
      <4>1. \A j \in 1 .. Len(file) : G[j] \in 0 .. Len(groups)
        BY <2>2 DEF Grouping, Shape, Ordered
      <4>2. \A j \in 1 .. Len(file) : IsAgent(j) => G[j] # 0
        BY <2>2 DEF Grouping, Shape, Ordered
      <4>3. QED
        BY <2>3, <4>1, <4>2
    <3>3. ASSUME NEW i \in 1 .. Len(file), file[i].key = "crawl-delay"
          PROVE  i \in asked <=> G[i] \in FileDelayGroups
      <4>1. IsMember(i)
        BY <3>3 DEF IsMember
      <4>2. i \in asked <=>
              \E j \in 1 .. Len(file) :
                IsAgent(j) /\ file[j].agent = Star /\ Governs(j, i)
        BY <2>3, <3>3 DEF IsAgent
      <4>3. i \in asked <=>
              \E j \in 1 .. Len(file) :
                IsAgent(j) /\ file[j].agent = Star /\ G[j] = G[i]
        BY <3>1, <4>1, <4>2
      <4> HIDE DEF asked
      <4>4. QED
        BY <2>5, <3>2, <4>3 DEF NamedIn
    <3>4. \A i \in asked : i \in 1 .. Len(file) /\ file[i].key = "crawl-delay"
      BY <2>3
    <3> HIDE DEF asked
    <3>5. QED
      BY <3>3, <3>4
  <2> HIDE DEF asked
  <2>7. /\ FileDelay \in {0} \union {groups[g].delay : g \in FileDelayGroups}
        /\ \A g \in FileDelayGroups : groups[g].delay <= FileDelay
    <3> DEFINE delays == {0} \union {groups[g].delay : g \in FileDelayGroups}
    <3>1. delays \in SUBSET Nat /\ delays # {} /\ 0 \in delays
      BY <2>3, <2>5
    <3>2. IsFiniteSet(delays)
      <4>1. IsFiniteSet(1 .. Len(groups))
        BY <2>3, FS_Interval
      <4>2. IsFiniteSet(FileDelayGroups)
        <5>1. FileDelayGroups \in SUBSET (1 .. Len(groups))
          BY <2>5
        <5>2. QED
          BY <4>1, <5>1, FS_Subset
      <4>3. IsFiniteSet({groups[g].delay : g \in FileDelayGroups})
        <5> DEFINE some == {groups[g].delay : g \in FileDelayGroups}
                   of == [g \in FileDelayGroups |-> groups[g].delay]
        <5>1. of \in Surjection(FileDelayGroups, some)
          BY DEF Surjection
        <5> HIDE DEF of, some
        <5>2. IsFiniteSet(some)
          BY <4>2, <5>1, FS_Surjection
        <5>3. QED
          BY <5>2 DEF some
      <4>4. IsFiniteSet({groups[g].delay : g \in FileDelayGroups} \union {0})
        BY <4>3, FS_AddElement
      <4>5. delays = {groups[g].delay : g \in FileDelayGroups} \union {0}
        OBVIOUS
      <4>6. QED
        BY <4>4, <4>5
    <3>3. \A g \in FileDelayGroups : groups[g].delay \in delays
      OBVIOUS
    <3>4. FileDelay = CHOOSE d \in delays :
                        \A g \in FileDelayGroups : groups[g].delay <= d
      BY DEF FileDelay
    <3> HIDE DEF delays
    <3>5. \E d \in delays : \A x \in delays : x <= d
      BY <3>1, <3>2, FiniteGreatest
    <3>6. \E d \in delays : \A g \in FileDelayGroups : groups[g].delay <= d
      BY <3>3, <3>5
    <3>7. /\ FileDelay \in delays
          /\ \A g \in FileDelayGroups : groups[g].delay <= FileDelay
      BY <3>4, <3>6
    <3>8. QED
      BY <3>7 DEF delays
  <2>8. ASSUME NEW i \in asked PROVE file[i].delay <= FileDelay
    <3>1. /\ i \in 1 .. Len(file) /\ file[i].key = "crawl-delay"
          /\ G[i] \in FileDelayGroups
      BY <2>6
    <3>2. DelayedIn(G, G[i], file[i].delay)
      BY <3>1 DEF DelayedIn
    <3>3. file[i].delay <= groups[G[i]].delay
      BY <2>4, <2>5, <3>1, <3>2 DEF Fits
    <3>4. groups[G[i]].delay <= FileDelay
      BY <2>7, <3>1
    <3>5. groups[G[i]].delay \in Nat /\ FileDelay \in Nat
      BY <2>3, <2>5, <2>7, <3>1
    <3>6. file[i].delay \in Nat
      <4>1. file[i] \in Line
        BY <2>1, <3>1 DEF ParserTypes
      <4>2. QED
        BY <3>1, <4>1, RobotsAssumption DEF Line
    <3>7. QED
      BY <3>3, <3>4, <3>5, <3>6
  <2>9. ASSUME FileDelay # 0
        PROVE  \E i \in asked : file[i].delay = FileDelay
    <3>1. PICK g \in FileDelayGroups : FileDelay = groups[g].delay
      BY <2>7, <2>9
    <3>2. DelayedIn(G, g, FileDelay)
      BY <2>4, <2>5, <2>9, <3>1 DEF Fits
    <3>3. PICK i \in 1 .. Len(file) :
            file[i].key = "crawl-delay" /\ G[i] = g /\ file[i].delay = FileDelay
      BY <3>2 DEF DelayedIn
    <3>4. i \in asked
      BY <2>6, <3>1, <3>3
    <3>5. QED
      BY <3>3, <3>4
  <2>10. QED
    BY <2>8, <2>9 DEF DelayAsWritten, asked
<1>2. QED
  BY <1>1, ParsedAlways, PTL
=============================================================================
