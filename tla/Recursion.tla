----------------------------- MODULE Recursion -----------------------------
(***************************************************************************)
(* What recursion over numbers and folds over sequences compute, stated    *)
(* without operators as parameters, so that the lemmas apply to the loops  *)
(* of the other modules.  They rest on one fact: a set of natural numbers  *)
(* that is not empty has a least element.                                  *)
(***************************************************************************)
EXTENDS Integers, FiniteSets, SequencesExt, FiniteSetTheorems, TLAPS

-----------------------------------------------------------------------------
(***************************************************************************)
(* Least and greatest elements.                                            *)
(***************************************************************************)

\* Induction in the form that proofs use it: look at the least exception.
LEMMA LeastNumber ==
  ASSUME NEW S \in SUBSET Nat, S # {}
  PROVE  \E n \in S : \A m \in S : n <= m
<1> DEFINE R == {p \in Nat \X Nat : p[1] < p[2]}
<1>1. IsWellFoundedOn(OpToRel(<, Nat), Nat)
  BY NatLessThanWellFounded
<1>2. R = OpToRel(<, Nat)
  BY DEF OpToRel
<1>3. \A m, n \in S : m < n => <<m, n>> \in R
  OBVIOUS
<1> HIDE DEF R
<1>4. IsWellFoundedOn(R, Nat)
  BY <1>1, <1>2
<1>5. \E n \in S : \A m \in S : ~(<<m, n>> \in R)
  BY <1>4, WFMin
<1>6. PICK n \in S : \A m \in S : ~(m < n)
  BY <1>3, <1>5
<1>7. \A i, k \in Nat : ~(k < i) => i <= k
  OBVIOUS
<1>8. QED
  BY <1>6, <1>7

\* A bounded set of numbers that is not empty has a greatest element.
LEMMA GreatestNumber ==
  ASSUME NEW S \in SUBSET Nat, S # {},
         NEW b \in Nat, \A n \in S : n <= b
  PROVE  \E n \in S : \A m \in S : m <= n
<1> DEFINE Above == {m \in Nat : \A i \in S : i <= m}
<1>1. Above \in SUBSET Nat /\ b \in Above
  OBVIOUS
<1>2. PICK m \in Above : \A k \in Above : m <= k
  <2> HIDE DEF Above
  <2> QED
    BY <1>1, LeastNumber
<1>3. m \in S
  <2> SUFFICES ASSUME m \notin S PROVE FALSE
    OBVIOUS
  <2>1. m # 0
    <3> SUFFICES ASSUME m = 0 PROVE FALSE
      OBVIOUS
    <3>1. PICK i \in S : TRUE
      OBVIOUS
    <3>2. i <= 0 /\ i \in Nat
      BY <1>2, <3>1
    <3>3. QED
      BY <3>1, <3>2
  <2>2. \A i \in S : i <= m - 1
    BY <1>2
  <2>3. m - 1 \in Above
    BY <1>2, <2>1, <2>2
  <2>4. QED
    BY <1>2, <2>3
<1>4. QED
  BY <1>2, <1>3

\* Finitely many numbers have a bound.
LEMMA FiniteBound ==
  ASSUME NEW S \in SUBSET Nat, IsFiniteSet(S)
  PROVE  \E b \in Nat : \A m \in S : m <= b
<1>1. PICK n \in Nat : ExistsSurjection(1 .. n, S)
  BY FS_NatSurjection
<1>2. PICK f \in [1 .. n -> S] : \A m \in S : \E i \in 1 .. n : f[i] = m
  BY <1>1 DEF ExistsSurjection, Surjection
<1> DEFINE Bounded(k) == \E b \in Nat : \A i \in 1 .. k : f[i] <= b
           Open == {k \in 0 .. n : ~Bounded(k)}
<1>3. Bounded(0)
  OBVIOUS
<1>4. ASSUME NEW k \in 1 .. n, Bounded(k - 1) PROVE Bounded(k)
  <2>1. PICK b \in Nat : \A i \in 1 .. k - 1 : f[i] <= b
    BY <1>4
  <2>2. f[k] \in Nat /\ b + f[k] \in Nat /\ f[k] <= b + f[k]
    <3>1. f[k] \in S
      BY <1>2
    <3>2. \A x, y \in Nat : x + y \in Nat /\ y <= x + y
      OBVIOUS
    <3>3. QED
      BY <3>1, <3>2
  <2>3. ASSUME NEW i \in 1 .. k PROVE f[i] <= b + f[k]
    <3>1. CASE i = k
      BY <2>2, <3>1
    <3>2. CASE i # k
      <4>1. i \in 1 .. n /\ i \in 1 .. k - 1
        BY <3>2
      <4>2. f[i] \in Nat /\ f[i] <= b
        BY <1>2, <2>1, <4>1
      <4>3. QED
        BY <2>2, <4>2
    <3>3. QED
      BY <3>1, <3>2
  <2>4. QED
    BY <2>2, <2>3
<1> HIDE DEF Bounded
<1>5. Open = {}
  <2> SUFFICES ASSUME Open # {} PROVE FALSE
    OBVIOUS
  <2>1. Open \in SUBSET Nat
    OBVIOUS
  <2>2. PICK k \in Open : \A j \in Open : k <= j
    <3> HIDE DEF Open
    <3> QED
      BY <2>1, LeastNumber
  <2>3. k # 0 /\ k \in 1 .. n
    BY <1>3, <2>2
  <2>4. Bounded(k - 1)
    BY <2>2, <2>3
  <2>5. QED
    BY <1>4, <2>2, <2>3, <2>4
<1>6. Bounded(n)
  BY <1>5
<1>7. QED
  BY <1>2, <1>6 DEF Bounded

\* A finite set of numbers that is not empty has a greatest element.
LEMMA FiniteGreatest ==
  ASSUME NEW S \in SUBSET Nat, IsFiniteSet(S), S # {}
  PROVE  \E n \in S : \A m \in S : m <= n
<1>1. PICK b \in Nat : \A m \in S : m <= b
  BY FiniteBound
<1>2. QED
  BY <1>1, GreatestNumber

\* Max of FiniteSetsExt on the sets that a fold over a sequence goes through.
LEMMA MaxOfRange ==
  ASSUME NEW n \in Nat, NEW s \in SUBSET (1 .. n), s # {}
  PROVE  /\ Max(s) \in s
         /\ \A i \in s : i <= Max(s)
<1>1. s \in SUBSET Nat /\ \A i \in s : i <= n
  OBVIOUS
<1>2. PICK x \in s : \A y \in s : y <= x
  BY <1>1, GreatestNumber
<1>3. \A x1, y \in Nat : y <= x1 => x1 >= y
  OBVIOUS
<1>4. \A y \in s : x >= y
  BY <1>1, <1>2, <1>3
<1>5. Max(s) \in s /\ \A y \in s : Max(s) >= y
  BY <1>4 DEF Max
<1>6. QED
  BY <1>1, <1>5

-----------------------------------------------------------------------------
(***************************************************************************)
(* Recursion.                                                              *)
(***************************************************************************)

\* Every value of f is made from the one before it.
Recurs(f, base, step) ==
  f[0] = base /\ \A n \in Nat \ {0} : f[n] = step[f[n - 1]]

\* A function on the natural numbers may be defined in this way.
LEMMA RecursionSolution ==
  ASSUME NEW State, NEW base \in State, NEW step \in [State -> State]
  PROVE  \E f \in [Nat -> State] : Recurs(f, base, step)
<1> DEFINE Runs(n) == {r \in [0 .. n -> State] :
                         /\ r[0] = base
                         /\ \A k \in 1 .. n : r[k] = step[r[k - 1]]}
           Unrun == {n \in Nat : Runs(n) = {}}
<1>1. Runs(0) # {}
  <2>1. [k \in 0 .. 0 |-> base] \in Runs(0)
    OBVIOUS
  <2>2. QED
    BY <2>1
<1>2. ASSUME NEW n \in Nat \ {0}, Runs(n - 1) # {} PROVE Runs(n) # {}
  <2>1. PICK r \in [0 .. n - 1 -> State] :
               /\ r[0] = base
               /\ \A k \in 1 .. n - 1 : r[k] = step[r[k - 1]]
    BY <1>2
  <2> DEFINE q == [k \in 0 .. n |-> IF k = n THEN step[r[n - 1]] ELSE r[k]]
  <2>2. q \in [0 .. n -> State]
    OBVIOUS
  <2>3. q[0] = base
    BY <2>1
  <2>4. ASSUME NEW k \in 1 .. n PROVE q[k] = step[q[k - 1]]
    <3>1. k - 1 \in 0 .. n /\ k - 1 # n /\ q[k - 1] = r[k - 1]
      OBVIOUS
    <3>2. CASE k = n
      BY <3>1, <3>2
    <3>3. CASE k # n
      <4>1. k \in 1 .. n - 1 /\ q[k] = r[k]
        BY <3>3
      <4>2. QED
        BY <2>1, <3>1, <4>1
    <3>4. QED
      BY <3>2, <3>3
  <2>5. q \in Runs(n)
    <3> HIDE DEF q
    <3> QED
      BY <2>2, <2>3, <2>4
  <2>6. QED
    BY <2>5
<1>3. Unrun = {}
  <2> SUFFICES ASSUME Unrun # {} PROVE FALSE
    OBVIOUS
  <2>1. Unrun \in SUBSET Nat
    OBVIOUS
  <2>2. PICK n \in Unrun : \A j \in Unrun : n <= j
    <3> HIDE DEF Unrun
    <3> QED
      BY <2>1, LeastNumber
  <2> HIDE DEF Runs
  <2>3. n \in Nat \ {0}
    BY <1>1, <2>2
  <2>4. n - 1 \in Nat /\ Runs(n - 1) # {}
    BY <2>2, <2>3
  <2>5. QED
    BY <1>2, <2>2, <2>3, <2>4
<1>4. ASSUME NEW n \in Nat, NEW r \in Runs(n), NEW m \in Nat,
             NEW q \in Runs(m), n <= m
      PROVE  \A k \in 0 .. n : r[k] = q[k]
  <2> DEFINE Differ == {k \in 0 .. n : r[k] # q[k]}
  <2> SUFFICES ASSUME Differ # {} PROVE FALSE
    OBVIOUS
  <2>1. Differ \in SUBSET Nat
    OBVIOUS
  <2>2. PICK k \in Differ : \A j \in Differ : k <= j
    <3> HIDE DEF Differ
    <3> QED
      BY <2>1, LeastNumber
  <2>3. k \in 1 .. n /\ k \in 1 .. m
    BY <1>4, <2>2
  <2>4. r[k - 1] = q[k - 1]
    BY <2>2, <2>3
  <2>5. r[k] = step[r[k - 1]] /\ q[k] = step[q[k - 1]]
    BY <2>3
  <2>6. QED
    BY <2>2, <2>4, <2>5
<1> DEFINE run(n) == CHOOSE r : r \in Runs(n)
           f == [n \in Nat |-> run(n)[n]]
<1>5. \A n \in Nat : run(n) \in Runs(n)
  BY <1>3
<1>6. ASSUME NEW n \in Nat
      PROVE  f[n] = run(n)[n] /\ f[n] \in State
  <2>1. run(n) \in Runs(n)
    BY <1>5
  <2>2. run(n) \in [0 .. n -> State]
    BY <2>1
  <2> HIDE DEF run
  <2>3. QED
    BY <2>2
<1>7. f[0] = base
  <2>1. run(0) \in Runs(0)
    BY <1>5
  <2>2. run(0)[0] = base
    BY <2>1
  <2>3. QED
    BY <1>6, <2>2
<1>8. ASSUME NEW n \in Nat \ {0} PROVE f[n] = step[f[n - 1]]
  <2>0. n - 1 \in Nat
    OBVIOUS
  <2>1. run(n) \in Runs(n) /\ run(n - 1) \in Runs(n - 1) /\ n - 1 \in Nat
    <3> HIDE DEF Runs, run
    <3> QED
      BY <1>5, <2>0
  <2>2. n - 1 \in 0 .. n - 1 /\ n - 1 <= n /\ n \in 1 .. n
    OBVIOUS
  <2>3. run(n)[n] = step[run(n)[n - 1]]
    BY <2>1, <2>2
  <2> HIDE DEF Runs, run
  <2>4. run(n - 1)[n - 1] = run(n)[n - 1]
    BY <1>4, <2>1, <2>2
  <2> HIDE DEF f
  <2>5. QED
    BY <1>6, <2>1, <2>3, <2>4
<1>9. f \in [Nat -> State]
  BY <1>6
<1> HIDE DEF f
<1>10. QED
  BY <1>7, <1>8, <1>9 DEF Recurs

-----------------------------------------------------------------------------
(***************************************************************************)
(* Folds.  FoldLeft of SequencesExt over a sequence of length n chooses a  *)
(* function on the subsets of 1 .. n that takes their greatest element     *)
(* off; what it gives for 1 .. n is the end of a run through the sequence. *)
(***************************************************************************)

\* What a fold computes in n turns from base, if turn k makes step[<<k, v>>]
\* of v: on every subset of 1 .. n, by its greatest element.
FoldsBy(g, n, base, step) ==
  \A s \in SUBSET (1 .. n) :
    g[s] = IF s = {} THEN base ELSE step[<<Max(s), g[s \ {Max(s)}]>>]

\* The same, as far as the values that it rests on are states.
FoldsWithin(g, n, State, base, step) ==
  /\ g[{}] = base
  /\ \A s \in SUBSET (1 .. n) :
       s # {} /\ g[s \ {Max(s)}] \in State =>
         g[s] = step[<<Max(s), g[s \ {Max(s)}]>>]

\* The values of the loop before its first turn and after each one.
IsRun(run, n, base, step, result) ==
  /\ run[0] = base
  /\ \A k \in 1 .. n : run[k] = step[<<k, run[k - 1]>>]
  /\ run[n] = result

\* There is such a function, if the states of the fold form a set.
LEMMA FoldSolution ==
  ASSUME NEW n \in Nat, NEW State, NEW base \in State,
         NEW step \in [(1 .. n) \X State -> State]
  PROVE  \E g \in [SUBSET (1 .. n) -> State] : FoldsBy(g, n, base, step)
<1> DEFINE Solves(g, k) ==
      \A s \in SUBSET (1 .. k) :
             g[s] = IF s = {} THEN base
                    ELSE step[<<Max(s), g[s \ {Max(s)}]>>]
    Solved(k) == \E g \in [SUBSET (1 .. k) -> State] : Solves(g, k)
    Open == {k \in 0 .. n : ~Solved(k)}
<1>1. Solved(0)
  <2>1. SUBSET (1 .. 0) = {{}}
    OBVIOUS
  <2> DEFINE g == [s \in SUBSET (1 .. 0) |-> base]
  <2>2. g \in [SUBSET (1 .. 0) -> State] /\ Solves(g, 0)
    BY <2>1
  <2>3. QED
    BY <2>2
<1>2. ASSUME NEW k \in 1 .. n, Solved(k - 1) PROVE Solved(k)
  <2>1. PICK g \in [SUBSET (1 .. k - 1) -> State] : Solves(g, k - 1)
    BY <1>2
  <2> DEFINE h == [s \in SUBSET (1 .. k) |->
                     IF k \in s THEN step[<<k, g[s \ {k}]>>] ELSE g[s]]
  <2>2. \A s \in SUBSET (1 .. k) : k \notin s => s \in SUBSET (1 .. k - 1)
    OBVIOUS
  <2>3. \A s \in SUBSET (1 .. k) : s \ {k} \in SUBSET (1 .. k - 1)
    OBVIOUS
  <2>4. \A s \in SUBSET (1 .. k) : h[s] \in State
    <3> SUFFICES ASSUME NEW s \in SUBSET (1 .. k) PROVE h[s] \in State
      OBVIOUS
    <3>1. CASE k \in s
      BY <2>1, <2>3, <3>1
    <3>2. CASE k \notin s
      BY <2>1, <2>2, <3>2
    <3>3. QED
      BY <3>1, <3>2
  <2>5. Solves(h, k)
    <3> SUFFICES ASSUME NEW s \in SUBSET (1 .. k)
                 PROVE  h[s] = IF s = {} THEN base
                               ELSE step[<<Max(s), h[s \ {Max(s)}]>>]
      OBVIOUS
    <3>1. CASE s = {}
      BY <2>1, <3>1
    <3>2. CASE s # {} /\ k \in s
      <4>1. Max(s) = k
        <5>0. k \in Nat
          OBVIOUS
        <5>1. Max(s) \in s /\ k <= Max(s)
          BY <3>2, <5>0, MaxOfRange
        <5>2. \A m \in 1 .. k : k <= m => m = k
          OBVIOUS
        <5>3. QED
          BY <5>1, <5>2
      <4>2. s \ {k} \in SUBSET (1 .. k) /\ k \notin s \ {k}
        OBVIOUS
      <4>3. h[s \ {k}] = g[s \ {k}]
        BY <4>2
      <4>4. QED
        BY <3>2, <4>1, <4>3
    <3>3. CASE s # {} /\ k \notin s
      <4>1. s \in SUBSET (1 .. k - 1)
        BY <2>2, <3>3
      <4>2. h[s] = g[s] /\ g[s] = step[<<Max(s), g[s \ {Max(s)}]>>]
        BY <2>1, <3>3, <4>1
      <4>3. s \ {Max(s)} \in SUBSET (1 .. k) /\ k \notin s \ {Max(s)}
        BY <3>3
      <4>4. h[s \ {Max(s)}] = g[s \ {Max(s)}]
        BY <4>3
      <4>5. QED
        BY <3>3, <4>2, <4>4
    <3>4. QED
      BY <3>1, <3>2, <3>3
  <2>6. h \in [SUBSET (1 .. k) -> State]
    BY <2>4
  <2>7. QED
    BY <2>5, <2>6
<1> HIDE DEF Solved
<1>3. Open = {}
  <2> SUFFICES ASSUME Open # {} PROVE FALSE
    OBVIOUS
  <2>0. Open \in SUBSET Nat
    OBVIOUS
  <2>1. PICK k \in Open : \A j \in Open : k <= j
    <3> HIDE DEF Open
    <3> QED
      BY <2>0, LeastNumber
  <2>2. k # 0 /\ k \in 1 .. n
    BY <1>1, <2>1
  <2>3. Solved(k - 1)
    BY <2>1, <2>2
  <2>4. QED
    BY <1>2, <2>1, <2>2, <2>3
<1>4. Solved(n)
  BY <1>3
<1>5. QED
  BY <1>4 DEF Solved, FoldsBy

\* A fold over the first n numbers is the last state of a run through them.
LEMMA FoldRuns ==
  ASSUME NEW n \in Nat, NEW State, NEW base \in State,
         NEW step \in [(1 .. n) \X State -> State], NEW g,
         FoldsWithin(g, n, State, base, step)
  PROVE  \E run \in [0 .. n -> State] : IsRun(run, n, base, step, g[1 .. n])
<1> DEFINE run == [k \in 0 .. n |-> g[1 .. k]]
<1>0. /\ g[{}] = base
      /\ \A s \in SUBSET (1 .. n) :
           s # {} /\ g[s \ {Max(s)}] \in State =>
             g[s] = step[<<Max(s), g[s \ {Max(s)}]>>]
  BY DEF FoldsWithin
<1>1. run[0] = base
  <2>1. 1 .. 0 = {} /\ 0 \in 0 .. n
    OBVIOUS
  <2>2. QED
    BY <1>0, <2>1
<1>2. ASSUME NEW k \in 1 .. n, run[k - 1] \in State
      PROVE  run[k] = step[<<k, run[k - 1]>>]
  <2>1. 1 .. k \in SUBSET (1 .. n) /\ 1 .. k # {} /\ k \in 1 .. k
    OBVIOUS
  <2>2. Max(1 .. k) = k
    <3>1. Max(1 .. k) \in 1 .. k /\ k <= Max(1 .. k)
      BY <2>1, MaxOfRange
    <3>2. \A m \in 1 .. k : k <= m => m = k
      OBVIOUS
    <3>3. QED
      BY <3>1, <3>2
  <2>3. (1 .. k) \ {k} = 1 .. k - 1
    OBVIOUS
  <2>4. k \in 0 .. n /\ k - 1 \in 0 .. n
    OBVIOUS
  <2>5. run[k - 1] = g[1 .. k - 1] /\ run[k] = g[1 .. k]
    BY <2>4
  <2>6. g[1 .. k] = step[<<k, g[1 .. k - 1]>>]
    BY <1>0, <1>2, <2>1, <2>2, <2>3, <2>5
  <2>7. QED
    BY <2>5, <2>6
<1>3. \A k \in 0 .. n : run[k] \in State
  <2> DEFINE Bad == {k \in 0 .. n : run[k] \notin State}
  <2> HIDE DEF run
  <2> SUFFICES ASSUME Bad # {} PROVE FALSE
    OBVIOUS
  <2>1. Bad \in SUBSET Nat
    OBVIOUS
  <2>2. PICK k \in Bad : \A j \in Bad : k <= j
    <3> HIDE DEF Bad
    <3> QED
      BY <2>1, LeastNumber
  <2>3. k \in 1 .. n
    BY <1>1, <2>2
  <2>4. run[k - 1] \in State
    BY <2>2, <2>3
  <2>5. step[<<k, run[k - 1]>>] \in State
    BY <2>3, <2>4
  <2>6. QED
    BY <1>2, <2>2, <2>3, <2>4, <2>5
<1>4. run \in [0 .. n -> State] /\ run[n] = g[1 .. n]
  BY <1>3
<1>5. \A k \in 1 .. n : run[k] = step[<<k, run[k - 1]>>]
  <2> SUFFICES ASSUME NEW k \in 1 .. n PROVE run[k] = step[<<k, run[k - 1]>>]
    OBVIOUS
  <2>1. run[k - 1] \in State
    BY <1>3
  <2>2. QED
    BY <1>2, <2>1
<1> HIDE DEF run
<1>6. QED
  BY <1>1, <1>4, <1>5 DEF IsRun
=============================================================================
