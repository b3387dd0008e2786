------------------------ MODULE ProviderBudgetProofs ------------------------
(***************************************************************************)
(* ProviderBudget for every limit, fan-in and size of the merge tree: the    *)
(* limits hold over all runs of a job, a stop is final for extraction and    *)
(* linking, what a reservation sets aside is enough to merge and to          *)
(* synthesise, and the counters are the sums of the receipts.               *)
(***************************************************************************)
EXTENDS ProviderBudget, FiniteSetTheorems, WellFoundedInduction, TLAPS
-----------------------------------------------------------------------------
(* The merge tree                                                          *)

\* An induction over the numbers, for a set of them.
LessThan == {pair \in Nat \X Nat : pair[1] < pair[2]}
LEMMA Upwards ==
  ASSUME NEW S, S \subseteq Nat, 0 \in S, \A n \in S : n + 1 \in S
  PROVE  S = Nat
<1> SUFFICES ASSUME Nat \ S # {} PROVE FALSE
  OBVIOUS
<1>1. OpToRel(<, Nat) = LessThan
  BY DEF OpToRel, LessThan
<1>2. IsWellFoundedOn(LessThan, Nat)
  BY NatLessThanWellFounded, <1>1
<1>3. PICK x \in Nat \ S : \A y \in Nat \ S : <<y, x>> \notin LessThan
  BY <1>2, WFMin, Zenon
<1>4. x # 0 /\ x - 1 \in Nat /\ (x - 1) + 1 = x
  BY <1>3
<1>5. <<x - 1, x>> \in Nat \X Nat /\ <<x - 1, x>>[1] = x - 1 /\ <<x - 1, x>>[2] = x /\ x - 1 < x
  BY <1>4, <1>3
<1>6. <<x - 1, x>> \in LessThan
  BY <1>5 DEF LessThan
<1> QED
  BY <1>3, <1>4, <1>6


LEMMA Quotient ==
  ASSUME NEW f \in Nat, f >= 2, NEW n \in Nat
  PROVE  /\ n \div f \in Nat /\ n % f \in 0 .. f - 1
         /\ n = f * (n \div f) + (n % f)
OBVIOUS

LEMMA QuotientGrows ==
  ASSUME NEW f \in Nat, f >= 2, NEW s \in Nat, NEW r \in Nat, s <= r
  PROVE  \/ s \div f < r \div f
         \/ s \div f = r \div f /\ s % f <= r % f
<1> DEFINE p == s \div f
           q == r \div f
           a == s % f
           b == r % f
<1>1. p \in Nat /\ q \in Nat /\ a \in 0 .. f - 1 /\ b \in 0 .. f - 1 /\ s = f * p + a /\ r = f * q + b
  BY Quotient
<1> HIDE DEF p, q, a, b
<1>2. CASE p > q
  <2>1. p >= q + 1
    BY <1>1, <1>2
  <2>2. f * p >= f * (q + 1)
    BY <1>1, <2>1
  <2>3. f * (q + 1) = f * q + f
    BY <1>1
  <2> QED
    BY <1>1, <2>2, <2>3
<1>3. CASE p = q
  BY <1>1, <1>3
<1>4. CASE p < q
  BY <1>4 DEF p, q
<1>5. CASE p = q /\ a <= b
  BY <1>5 DEF p, q, a, b
<1> QED
  BY <1>1, <1>2, <1>3, <1>4, <1>5

LEMMA LevelsShrink ==
  ASSUME NEW f \in Nat, f >= 2, NEW n \in Nat, n >= 2
  PROVE  /\ Groups(f, n) \in Nat /\ Groups(f, n) >= 1
         /\ NextLevel(f, n) \in Nat /\ NextLevel(f, n) < n
<1> DEFINE q == n \div f
           m == n % f
<1>1. q \in Nat /\ m \in Nat /\ m < f /\ n = f * q + m
  BY Quotient
<1>2. Groups(f, n) = q + (IF m > 1 THEN 1 ELSE 0) /\ NextLevel(f, n) = q + (IF m > 0 THEN 1 ELSE 0)
  BY DEF Groups, NextLevel
<1> HIDE DEF q, m
<1>3. f * q >= 2 * q
  BY <1>1
<1>4. q = 0 => f * q = 0
  BY <1>1
<1> QED
  BY <1>1, <1>2, <1>3, <1>4

LEMMA LevelsGrow ==
  ASSUME NEW f \in Nat, f >= 2, NEW s \in Nat, NEW r \in Nat, s <= r
  PROVE  Groups(f, s) <= Groups(f, r) /\ NextLevel(f, s) <= NextLevel(f, r)
<1> DEFINE p == s \div f
           q == r \div f
           a == s % f
           b == r % f
<1>1. p \in Nat /\ q \in Nat /\ a \in Nat /\ b \in Nat /\ (p < q \/ (p = q /\ a <= b))
  <2>1. p \in Nat /\ a \in 0 .. f - 1
    BY Quotient
  <2>2. q \in Nat /\ b \in 0 .. f - 1
    BY Quotient
  <2>3. p < q \/ (p = q /\ a <= b)
    BY QuotientGrows
  <2> QED
    BY <2>1, <2>2, <2>3
<1>2. /\ Groups(f, s) = p + (IF a > 1 THEN 1 ELSE 0) /\ NextLevel(f, s) = p + (IF a > 0 THEN 1 ELSE 0)
      /\ Groups(f, r) = q + (IF b > 1 THEN 1 ELSE 0) /\ NextLevel(f, r) = q + (IF b > 0 THEN 1 ELSE 0)
  BY DEF Groups, NextLevel
<1> HIDE DEF p, q, a, b
<1> QED
  BY <1>1, <1>2

\* What a node of a recursion over the levels adds, and the node the rest is taken from.
Descends(top, w, next) ==
  /\ w \in [2 .. top -> Nat] /\ next \in [2 .. top -> Nat]
  /\ \A n \in 2 .. top : w[n] >= 1 /\ next[n] < n
Descent(g, top, w, next) ==
  g = [n \in 0 .. top |-> IF n <= 1 THEN 0 ELSE w[n] + g[next[n]]]

LEMMA DescentExists ==
  ASSUME NEW top \in Nat, NEW w, NEW next, Descends(top, w, next)
  PROVE  \E g : Descent(g, top, w, next)
<1> DEFINE Value(g, n) == IF n <= 1 THEN 0 ELSE w[n] + g[next[n]]
           Upto(g, k) == g \in [0 .. top -> Nat] /\ \A n \in 0 .. top : n <= 1 \/ n <= k => g[n] = Value(g, n)
           Solved == {k \in Nat : \E g : Upto(g, k)}
<1>1. 0 \in Solved
  <2>1. Upto([n \in 0 .. top |-> 0], 0)
    OBVIOUS
  <2> QED
    BY <2>1
<1>2. ASSUME NEW k \in Solved PROVE k + 1 \in Solved
  <2>1. PICK g : Upto(g, k)
    BY <1>2
  <2>2. CASE k + 1 <= top /\ k + 1 > 1
    <3> DEFINE h == [g EXCEPT ![k + 1] = w[k + 1] + g[next[k + 1]]]
    <3>1. k + 1 \in 2 .. top /\ next[k + 1] \in 0 .. top /\ w[k + 1] \in Nat
      BY <2>2 DEF Descends
    <3>2. w[k + 1] + g[next[k + 1]] \in Nat
      BY <2>1, <3>1
    <3>3. h \in [0 .. top -> Nat]
      BY <2>1, <3>2
    <3>4. ASSUME NEW n \in 0 .. top, n <= 1 \/ n <= k + 1 PROVE h[n] = Value(h, n)
      <4>1. CASE n <= 1
        BY <2>1, <2>2, <3>4, <4>1
      <4>2. CASE n > 1
        <5>1. n \in 2 .. top /\ next[n] \in 0 .. top /\ next[n] < n
          BY <4>2 DEF Descends
        <5>2. h[next[n]] = g[next[n]]
          BY <2>1, <3>4, <5>1
        <5>3. CASE n = k + 1
          BY <2>1, <4>2, <5>2, <5>3
        <5>4. CASE n <= k
          BY <2>1, <4>2, <5>2, <5>4
        <5> QED
          BY <3>4, <5>3, <5>4
      <4> QED
        BY <4>1, <4>2
    <3> HIDE DEF h
    <3>5. Upto(h, k + 1)
      BY <3>3, <3>4
    <3> HIDE DEF Upto
    <3> QED
      BY <3>5
  <2>3. CASE ~(k + 1 <= top /\ k + 1 > 1)
    <3>1. Upto(g, k + 1)
      BY <2>1, <2>3
    <3> HIDE DEF Upto
    <3> QED
      BY <3>1
  <2> QED
    BY <2>2, <2>3
<1> HIDE DEF Solved
<1>3. Solved = Nat
  <2>1. Solved \subseteq Nat
    BY DEF Solved
  <2> QED
    BY <1>1, <1>2, <2>1, Upwards
<1>4. PICK g : Upto(g, top)
  BY <1>3 DEF Solved
<1>5. g = [n \in 0 .. top |-> Value(g, n)]
  BY <1>4
<1> QED
  BY <1>5 DEF Descent

\* What adds at least one at every level is zero for a single node only, and is no less for
\* more nodes if neither the addition nor the next level is.
LEMMA DescentGrows ==
  ASSUME NEW top \in Nat, NEW w, NEW next, Descends(top, w, next), NEW g, Descent(g, top, w, next),
         \A s, r \in 2 .. top : s <= r => w[s] <= w[r] /\ next[s] <= next[r]
  PROVE  \A r \in 0 .. top :
           /\ g[r] \in Nat
           /\ r <= 1 <=> g[r] = 0
           /\ \A s \in 0 .. r : g[s] <= g[r]
<1> DEFINE Good(r) == /\ g[r] \in Nat
                      /\ r <= 1 <=> g[r] = 0
                      /\ \A s \in 0 .. r : g[s] \in Nat /\ g[s] <= g[r]
           Known == {k \in Nat : \A r \in 0 .. top : r <= k => Good(r)}
<1>1. \A n \in 0 .. top : g[n] = IF n <= 1 THEN 0 ELSE w[n] + g[next[n]]
  BY DEF Descent
<1>2. 0 \in Known
  BY <1>1
<1>3. ASSUME NEW k \in Known PROVE k + 1 \in Known
  <2>1. ASSUME NEW r \in 0 .. top, r = k + 1 PROVE Good(r)
    <3>1. CASE r <= 1
      BY <1>1, <2>1, <3>1
    <3>2. CASE r > 1
      <4>1. r \in 2 .. top /\ w[r] \in Nat /\ w[r] >= 1 /\ next[r] \in Nat /\ next[r] <= k
        BY <2>1, <3>2 DEF Descends
      <4>2. next[r] \in 0 .. top /\ Good(next[r])
        BY <1>3, <2>1, <4>1
      <4>3. g[r] = w[r] + g[next[r]] /\ g[r] \in Nat /\ g[r] >= 1
        BY <1>1, <3>2, <4>1, <4>2
      <4>4. ASSUME NEW s \in 0 .. r PROVE g[s] \in Nat /\ g[s] <= g[r]
        <5>1. CASE s <= 1
          BY <1>1, <4>3, <5>1
        <5>2. CASE s > 1
          <6>1. /\ s \in 2 .. top /\ w[s] \in Nat /\ w[s] <= w[r]
                /\ next[s] \in Nat /\ next[s] <= next[r]
            BY <4>1, <5>2 DEF Descends
          <6>2. g[next[s]] \in Nat /\ g[next[s]] <= g[next[r]]
            BY <4>2, <6>1
          <6> QED
            BY <1>1, <4>1, <4>2, <4>3, <5>2, <6>1, <6>2
        <5> QED
          BY <5>1, <5>2
      <4> QED
        BY <3>2, <4>3, <4>4
    <3> QED
      BY <3>1, <3>2
  <2>2. ASSUME NEW r \in 0 .. top, r <= k PROVE Good(r)
    BY <1>3, <2>2
  <2> HIDE DEF Good
  <2> QED
    BY <2>1, <2>2
<1> HIDE DEF Known
<1>4. Known = Nat
  <2>1. Known \subseteq Nat
    BY DEF Known
  <2> QED
    BY <1>2, <1>3, <2>1, Upwards
<1> QED
  BY <1>4 DEF Known

\* The requests of the merge tree and its levels: none for a single root, and no fewer for
\* more roots.
LEMMA CallsGrowWithRoots ==
  ASSUME NEW f \in Nat, f >= 2, NEW top \in Nat
  PROVE  \A r \in 0 .. top :
           /\ CallsFor(f, top)[r] \in Nat
           /\ r <= 1 <=> CallsFor(f, top)[r] = 0
           /\ \A s \in 0 .. r : CallsFor(f, top)[s] <= CallsFor(f, top)[r]
<1> DEFINE w == [n \in 2 .. top |-> Groups(f, n)]
           next == [n \in 2 .. top |-> NextLevel(f, n)]
           Value(g, n) == IF n <= 1 THEN 0 ELSE Groups(f, n) + g[NextLevel(f, n)]
           Unfolds(g) == g = [n \in 0 .. top |-> Value(g, n)]
<1>1. Descends(top, w, next)
  BY LevelsShrink DEF Descends
<1>2. \A s, r \in 2 .. top : s <= r => w[s] <= w[r] /\ next[s] <= next[r]
  BY LevelsGrow
<1>3. ASSUME NEW g PROVE Descent(g, top, w, next) <=> Unfolds(g)
  <2> DEFINE Other(n) == IF n <= 1 THEN 0 ELSE w[n] + g[next[n]]
  <2>1. \A n \in 0 .. top : Value(g, n) = Other(n)
    OBVIOUS
  <2> HIDE DEF Value, Other
  <2>2. [n \in 0 .. top |-> Value(g, n)] = [n \in 0 .. top |-> Other(n)]
    BY <2>1
  <2> QED
    BY <2>2 DEF Descent, Other
<1>4. CallsFor(f, top) = CHOOSE g : Unfolds(g)
  BY DEF CallsFor
<1> HIDE DEF Unfolds, w, next
<1>5. Unfolds(CallsFor(f, top))
  BY <1>1, <1>3, <1>4, DescentExists
<1> QED
  BY <1>1, <1>2, <1>3, <1>5, DescentGrows

LEMMA LevelsGrowWithRoots ==
  ASSUME NEW f \in Nat, f >= 2, NEW top \in Nat
  PROVE  \A r \in 0 .. top :
           /\ LevelsFor(f, top)[r] \in Nat
           /\ r <= 1 <=> LevelsFor(f, top)[r] = 0
           /\ \A s \in 0 .. r : LevelsFor(f, top)[s] <= LevelsFor(f, top)[r]
<1> DEFINE w == [n \in 2 .. top |-> 1]
           next == [n \in 2 .. top |-> NextLevel(f, n)]
           Value(g, n) == IF n <= 1 THEN 0 ELSE 1 + g[NextLevel(f, n)]
           Unfolds(g) == g = [n \in 0 .. top |-> Value(g, n)]
<1>1. Descends(top, w, next)
  BY LevelsShrink DEF Descends
<1>2. \A s, r \in 2 .. top : s <= r => w[s] <= w[r] /\ next[s] <= next[r]
  BY LevelsGrow
<1>3. ASSUME NEW g PROVE Descent(g, top, w, next) <=> Unfolds(g)
  <2> DEFINE Other(n) == IF n <= 1 THEN 0 ELSE w[n] + g[next[n]]
  <2>1. \A n \in 0 .. top : Value(g, n) = Other(n)
    OBVIOUS
  <2> HIDE DEF Value, Other
  <2>2. [n \in 0 .. top |-> Value(g, n)] = [n \in 0 .. top |-> Other(n)]
    BY <2>1
  <2> QED
    BY <2>2 DEF Descent, Other
<1>4. LevelsFor(f, top) = CHOOSE g : Unfolds(g)
  BY DEF LevelsFor
<1> HIDE DEF Unfolds, w, next
<1>5. Unfolds(LevelsFor(f, top))
  BY <1>1, <1>3, <1>4, DescentExists
<1> QED
  BY <1>1, <1>2, <1>3, <1>5, DescentGrows

\* What completion_budget computes, for every fan-in and every number of roots: a single root
\* takes no request and no level, several take at least one of each, and fewer roots never
\* take more.  Hence a reserve for some roots is one for any that are left of them.
THEOREM TreeGrows ==
  ASSUME NEW f \in Nat, f >= 2, NEW top \in Nat, NEW r \in 0 .. top
  PROVE  /\ CallsFor(f, top)[r] \in Nat /\ LevelsFor(f, top)[r] \in Nat
         /\ r <= 1 <=> CallsFor(f, top)[r] = 0
         /\ r <= 1 <=> LevelsFor(f, top)[r] = 0
         /\ \A s \in 0 .. r :
              /\ CallsFor(f, top)[s] <= CallsFor(f, top)[r]
              /\ LevelsFor(f, top)[s] <= LevelsFor(f, top)[r]
BY CallsGrowWithRoots, LevelsGrowWithRoots
-----------------------------------------------------------------------------
(* The limits                                                              *)

Limits == MaxCalls \in Nat /\ MaxRequests \in Nat /\ MaxTokens \in Nat /\ MaxRecords \in Nat

\* The frontier never holds more nodes than its level had, so that every tree the
\* reserve is asked about has a size.
TreeInv ==
  /\ records \in Nat /\ records <= MaxRecords
  /\ tree \in [state : {"none", "running", "ready", "partial"}, width : Nat, front : Nat,
               next : Nat, depth : Nat, fan : 2 .. FanIn]
  /\ tree.front + tree.next <= tree.width /\ tree.width <= MaxRecords
  /\ inputs \in Nat /\ inputs <= FanIn
  /\ stage = "merge" => inputs <= tree.front

\* WithinBudget, and the request under way has no receipt yet.
SpentInv ==
  /\ calls \in Nat /\ requests \in Nat /\ used \in Nat /\ reserved \in Int
  /\ at = "inferring" => mine.tokens \in Nat /\ mine.usage = NoUsage /\ mine.over = FALSE
  /\ WithinBudget

LEMMA TreeFacts ==
  ASSUME NEW f \in 2 .. FanIn, NEW r \in Roots
  PROVE  /\ TreeCalls[f][r] \in Nat /\ TreeDepth[f][r] \in Nat
         /\ r <= 1 <=> TreeCalls[f][r] = 0
         /\ r <= 1 => TreeDepth[f][r] = 0
         /\ \A s \in 0 .. r : TreeCalls[f][s] <= TreeCalls[f][r] /\ TreeDepth[f][s] <= TreeDepth[f][r]
<1>1. f \in Nat /\ f >= 2 /\ MaxRecords + 1 \in Nat /\ r \in 0 .. MaxRecords + 1
  BY BudgetAssumption DEF BudgetAssumption, Roots
<1>2. TreeCalls[f] = CallsFor(f, MaxRecords + 1) /\ TreeDepth[f] = LevelsFor(f, MaxRecords + 1)
  BY DEF TreeCalls, TreeDepth
<1> QED
  BY <1>1, <1>2, TreeGrows

LEMMA Constants ==
  /\ Limits
  /\ FanIn \in Nat /\ FanIn >= 2
  /\ MergeCost \in Nat /\ FinalCost \in Nat
  /\ \A f \in 2 .. FanIn, r \in Roots : TreeCalls[f][r] \in Nat
  /\ NoUsage \notin Nat /\ MaxUsage \in Nat
BY BudgetAssumption, TreeFacts DEF BudgetAssumption, Limits

LEMMA MinOfTwo ==
  ASSUME NEW a \in Nat, NEW b \in Nat
  PROVE  Min({a, b}) \in {a, b} /\ Min({a, b}) <= a /\ Min({a, b}) <= b
<1>1. \E x \in {a, b} : \A y \in {a, b} : x <= y
  OBVIOUS
<1> QED
  BY <1>1 DEF Min

LEMMA MaxOfTwo ==
  ASSUME NEW a \in Nat, NEW b \in Nat
  PROVE  Max({a, b}) \in {a, b} /\ Max({a, b}) >= a /\ Max({a, b}) >= b
<1>1. \E x \in {a, b} : \A y \in {a, b} : x >= y
  OBVIOUS
<1> QED
  BY <1>1 DEF Max

\* The reserve is a natural number.
LEMMA ReserveIsNat == TreeInv => Merges \in Nat /\ Final \in {0, 1}
<1> SUFFICES ASSUME TreeInv PROVE Merges \in Nat /\ Final \in {0, 1}
  OBVIOUS
<1>1. TreeRoots \in Roots
  BY Constants DEF TreeInv, TreeRoots, RootsAfterMerge, Roots, Limits
<1>2. Fan \in 2 .. FanIn
  BY Constants DEF TreeInv, Fan
<1> QED
  BY <1>1, <1>2, Constants DEF Merges, Final

-----------------------------------------------------------------------------
(* The limits                                                              *)

LEMMA InitSpent == Init => SpentInv
<1> SUFFICES ASSUME Init PROVE SpentInv
  OBVIOUS
<1> QED
  BY Constants DEF Init, SpentInv, WithinBudget, Limits

\* Steps that neither spend nor settle.
LEMMA NothingSpent ==
  ASSUME SpentInv, UNCHANGED <<counterVars, journal>>, at' # "inferring"
  PROVE  SpentInv'
BY DEF SpentInv, WithinBudget, Overrun, counterVars

LEMMA CountSpent ==
  ASSUME TreeInv, SpentInv, ReserveCount PROVE SpentInv'
<1>1. requests + 1 <= MaxRequests
  BY ReserveIsNat, Constants DEF ReserveCount, MayCount, Affordable, SpentInv, Limits
<1> QED
  BY <1>1, Constants DEF ReserveCount, Keep, SpentInv, WithinBudget, Overrun, Limits

LEMMA InferenceSpent ==
  ASSUME TreeInv, SpentInv, NEW t \in Sizes, ReserveInference(t) PROVE SpentInv'
<1>1. t \in Nat
  BY Constants DEF Sizes
<1>2. calls + 1 <= MaxCalls /\ requests + 1 <= MaxRequests /\ used + reserved + t <= MaxTokens
  <2>1. Merges * MergeCost \in Nat /\ Final * FinalCost \in Nat
    BY ReserveIsNat, Constants
  <2> QED
    BY <2>1, <1>1, ReserveIsNat, Constants
       DEF ReserveInference, MayInfer, Affordable, Committed, SpentInv, Limits
<1>3. mine'.tokens \in Nat /\ mine'.usage = NoUsage /\ mine'.over = FALSE
  BY <1>1 DEF ReserveInference
<1> QED
  BY <1>1, <1>2, <1>3, Constants DEF ReserveInference, SpentInv, WithinBudget, Limits

\* A receipt entered for a request without one: what was there of overruns remains.
LEMMA OverrunRemains ==
  ASSUME NEW u \in Usage \cup {NoUsage}, NEW o \in BOOLEAN, Settle(u, o), mine.over = FALSE, Overrun
  PROVE  Overrun'
<1>1. PICK a \in DOMAIN journal : a.over
  BY DEF Overrun
<1>2. a \in DOMAIN B!BagRemove(journal, mine)
  BY <1>1 DEF B!BagRemove
<1>3. a \in DOMAIN journal'
  BY <1>1, <1>2 DEF Settle, B!BagAdd, journalVars
<1> QED
  BY <1>1, <1>3 DEF Overrun

LEMMA AnswerSpent ==
  ASSUME SpentInv, NEW u \in Usage \cup {NoUsage}, NEW o \in BOOLEAN, Answer(u, o)
  PROVE  SpentInv'
<1>1. /\ at = "inferring" /\ mine.tokens \in Nat /\ mine.usage = NoUsage /\ mine.over = FALSE
      /\ Settle(u, o) /\ at' # "inferring"
  BY DEF Answer, SpentInv
<1>2. CASE u = NoUsage
  BY <1>1, <1>2, NothingSpent DEF Settle, journalVars
<1>3. CASE u # NoUsage
  <2>1. u \in Nat /\ used' = used + u /\ reserved' = reserved - mine.tokens
        /\ calls' = calls /\ requests' = requests
    BY <1>1, <1>3, Constants DEF Usage, Settle
  <2>2. CASE o
    <3>1. Settled(u, o).over = TRUE
      BY <1>1, <2>2 DEF Settled
    <3>2. Overrun'
      BY <1>1, <1>3, <3>1 DEF Settle, Overrun, B!BagAdd
    <3> QED
      BY <1>1, <2>1, <3>2 DEF SpentInv, WithinBudget
  <2>3. CASE ~o
    <3>1. u <= mine.tokens
      BY <1>1, <1>3, <2>1, <2>3 DEF Answer, Tokens
    <3>2. used + reserved <= MaxTokens => used' + reserved' <= MaxTokens
      BY <1>1, <2>1, <3>1, Constants DEF SpentInv, Limits
    <3>3. Overrun => Overrun'
      BY <1>1, OverrunRemains
    <3>4. reserved' \in Int /\ used' \in Nat
      BY <1>1, <2>1 DEF SpentInv
    <3> QED
      BY <1>1, <2>1, <3>2, <3>3, <3>4 DEF SpentInv, WithinBudget
  <2> QED
    BY <2>2, <2>3
<1> QED
  BY <1>2, <1>3

-----------------------------------------------------------------------------
(* The tree                                                                *)

LEMMA InitTree == Init => TreeInv
BY Constants DEF Init, TreeInv, NoTree, Frontier, Limits

\* Steps that leave the tree and the records alone and take no new inputs.
LEMMA TreeKept ==
  ASSUME TreeInv, UNCHANGED <<records, tree>>, inputs' = 0 \/ UNCHANGED <<stage, inputs>>
  PROVE  TreeInv'
BY Constants DEF TreeInv

\* Steps that take no inputs, under which the tree or the records change.
LEMMA TreeChanged ==
  ASSUME TreeInv, inputs' = 0, records' \in Nat, records' <= MaxRecords,
         tree' \in [state : {"none", "running", "ready", "partial"}, width : Nat, front : Nat,
                    next : Nat, depth : Nat, fan : 2 .. FanIn],
         tree'.front + tree'.next <= tree'.width, tree'.width <= MaxRecords
  PROVE  TreeInv'
BY Constants DEF TreeInv

LEMMA StopTreeKept ==
  ASSUME TreeInv, inputs' = 0, UNCHANGED records, StopTree
  PROVE  TreeInv'
<1>1. /\ tree' \in [state : {"none", "running", "ready", "partial"}, width : Nat, front : Nat,
                    next : Nat, depth : Nat, fan : 2 .. FanIn]
      /\ tree'.front = tree.front /\ tree'.next = tree.next /\ tree'.width = tree.width
  BY DEF TreeInv, StopTree
<1> QED
  BY <1>1, TreeChanged DEF TreeInv

LEMMA BudgetStopKept ==
  ASSUME TreeInv, NEW r, BudgetStop(r) PROVE TreeInv'
<1>1. inputs' = 0 /\ UNCHANGED records /\ (UNCHANGED tree \/ StopTree)
  BY DEF BudgetStop, NextBatch, Leave, Go, MayStopTree
<1> QED
  BY <1>1, TreeKept, StopTreeKept

LEMMA AddRecordsKept ==
  ASSUME TreeInv, NEW k \in Nat, AddRecords(k) PROVE TreeInv'
<1>1. CASE records + k <= MaxRecords
  BY <1>1, Constants DEF AddRecords, TreeInv, NextBatch, Go, Limits
<1>2. CASE ~(records + k <= MaxRecords)
  BY <1>2, BudgetStopKept DEF AddRecords
<1> QED
  BY <1>1, <1>2

\* n nodes of the level become at most n of the next.
LEMMA AdvancedKept ==
  ASSUME TreeInv, NEW n \in Nat, NEW p \in Nat, NEW b \in BOOLEAN,
         n <= tree.front, p <= n, tree' = Advanced(n, p, b)
  PROVE  /\ tree' \in [state : {"none", "running", "ready", "partial"}, width : Nat, front : Nat,
                       next : Nat, depth : Nat, fan : 2 .. FanIn]
         /\ tree'.front + tree'.next <= tree'.width /\ tree'.width <= MaxRecords
<1> USE Constants DEF TreeInv, Limits
<1>1. CASE tree.front > n
  <2>1. tree.front - n \in Nat /\ tree.next + p \in Nat
    BY <1>1
  <2> QED
    BY <1>1, <2>1 DEF Advanced, Frontier
<1>2. CASE ~(tree.front > n)
  <2>1. tree.front = n /\ tree.next + p \in Nat /\ tree.next + p <= tree.width
    BY <1>2
  <2>2. PICK s \in {"ready", "partial", tree.state} :
          tree' = Frontier(s, tree.next + p, tree.next + p, 0, tree.depth + 1, tree.fan)
    BY <1>2 DEF Advanced
  <2>3. s \in {"none", "running", "ready", "partial"}
    OBVIOUS
  <2> QED
    BY <2>1, <2>2, <2>3 DEF Frontier
<1> QED
  BY <1>1, <1>2

LEMMA MergeStepKept ==
  ASSUME TreeInv, MergeStep PROVE TreeInv'
<1>0. UNCHANGED records
  BY DEF MergeStep
<1>1. CASE tree.state = "none" /\ Stay /\ StartTree
  <2>1. PICK s \in {"ready", "running"} : tree' = Frontier(s, records, records, 0, 0, FanIn)
    BY <1>1 DEF StartTree
  <2>2. s \in {"none", "running", "ready", "partial"} /\ records \in Nat /\ FanIn \in 2 .. FanIn
    BY Constants DEF TreeInv
  <2>3. tree' \in [state : {"none", "running", "ready", "partial"}, width : Nat, front : Nat,
                   next : Nat, depth : Nat, fan : 2 .. FanIn]
    BY <2>1, <2>2 DEF Frontier
  <2>4. tree'.front = records /\ tree'.next = 0 /\ tree'.width = records
    BY <2>1 DEF Frontier
  <2>5. inputs' = 0
    BY <1>1 DEF Stay, Leave, Go
  <2>6. records' = records /\ records \in Nat /\ records <= MaxRecords
    BY <1>0 DEF TreeInv
  <2>7. /\ records' \in Nat /\ records' <= MaxRecords
        /\ tree'.front + tree'.next <= tree'.width /\ tree'.width <= MaxRecords
    BY <2>4, <2>6
  <2> QED
    BY <2>3, <2>5, <2>7, TreeChanged
<1>2. CASE Stay /\ tree' = [tree EXCEPT !.state = "ready"]
  <2>1. /\ tree' \in [state : {"none", "running", "ready", "partial"}, width : Nat, front : Nat,
                      next : Nat, depth : Nat, fan : 2 .. FanIn]
        /\ tree'.front = tree.front /\ tree'.next = tree.next /\ tree'.width = tree.width
    BY <1>2 DEF TreeInv
  <2> QED
    BY <1>0, <1>2, <2>1, TreeChanged DEF TreeInv, Stay, Leave, Go
<1>3. CASE Stay /\ StopTree
  BY <1>0, <1>3, StopTreeKept DEF Stay, Leave, Go
<1>4. CASE tree.state = "running" /\ tree.front = 1 /\ Stay /\ tree' = Advanced(1, 1, FALSE)
  <2>1. /\ tree' \in [state : {"none", "running", "ready", "partial"}, width : Nat, front : Nat,
                      next : Nat, depth : Nat, fan : 2 .. FanIn]
        /\ tree'.front + tree'.next <= tree'.width /\ tree'.width <= MaxRecords
    <3>1. 1 \in Nat /\ 1 <= 1 /\ 1 <= tree.front /\ FALSE \in BOOLEAN
      BY <1>4
    <3>2. tree' = Advanced(1, 1, FALSE)
      BY <1>4
    <3> QED
      BY <3>1, <3>2, AdvancedKept
  <2>2. inputs' = 0 /\ records' \in Nat /\ records' <= MaxRecords
    BY <1>0, <1>4 DEF Stay, Leave, Go, TreeInv
  <2> QED
    BY <2>1, <2>2, TreeChanged
<1>5. CASE Go("count", stage, left, Min({tree.front, tree.fan})) /\ UNCHANGED tree
  <2>1. inputs' = Min({tree.front, tree.fan}) /\ stage' = stage
    BY <1>5 DEF Go
  <2>2. tree.front \in Nat /\ tree.fan \in Nat /\ tree.fan <= FanIn
    BY Constants DEF TreeInv
  <2>3. inputs' \in Nat /\ inputs' <= tree.front /\ inputs' <= FanIn
    BY <2>1, <2>2, MinOfTwo, Constants
  <2> QED
    BY <1>0, <1>5, <2>1, <2>3 DEF TreeInv
<1>6. CASE Leave("synthesize") /\ UNCHANGED tree
  BY <1>0, <1>6, TreeKept DEF Leave, Go
<1> QED
  BY <1>1, <1>2, <1>3, <1>4, <1>5, <1>6 DEF MergeStep

LEMMA InputTooLargeKept ==
  ASSUME TreeInv, InputTooLarge PROVE TreeInv'
<1>0. UNCHANGED records /\ inputs' = 0
  BY DEF InputTooLarge, NextBatch, Leave, Go
<1>1. CASE UNCHANGED tree
  BY <1>0, <1>1, TreeKept
<1>2. CASE StopTree
  BY <1>0, <1>2, StopTreeKept
<1>3. CASE tree' = [tree EXCEPT !.fan = Max({2, inputs \div 2})]
  <2>1. inputs \div 2 \in Nat /\ inputs \div 2 <= FanIn
    BY Constants DEF TreeInv
  <2>2. Max({2, inputs \div 2}) \in 2 .. FanIn
    BY <2>1, MaxOfTwo, Constants
  <2>3. /\ tree' \in [state : {"none", "running", "ready", "partial"}, width : Nat, front : Nat,
                      next : Nat, depth : Nat, fan : 2 .. FanIn]
        /\ tree'.front = tree.front /\ tree'.next = tree.next /\ tree'.width = tree.width
    BY <1>3, <2>2 DEF TreeInv
  <2> QED
    BY <1>0, <2>3, TreeChanged DEF TreeInv
<1> QED
  BY <1>1, <1>2, <1>3 DEF InputTooLarge

LEMMA CompleteMergeKept ==
  ASSUME TreeInv, CompleteMerge PROVE TreeInv'
<1>1. PICK p \in 0 .. inputs : tree' = Advanced(inputs, p, inputs = tree.width)
  BY DEF CompleteMerge
<1>2. UNCHANGED records /\ inputs' = 0 /\ stage = "merge"
  BY DEF CompleteMerge, NextBatch, Go
<1>3. inputs \in Nat /\ inputs <= tree.front /\ p \in Nat /\ p <= inputs
  BY <1>2 DEF TreeInv
<1> QED
  BY <1>1, <1>2, <1>3, AdvancedKept, TreeChanged DEF TreeInv

LEMMA InitialTree ==
  ASSUME TreeInv PROVE NoTree \in [state : {"none", "running", "ready", "partial"}, width : Nat,
                          front : Nat, next : Nat, depth : Nat, fan : 2 .. FanIn]
BY Constants DEF NoTree, Frontier

LEMMA SourcesEditedKept ==
  ASSUME TreeInv, SourcesEdited PROVE TreeInv'
<1>1. tree' = NoTree /\ inputs' = 0 /\ records' \in Nat /\ records' <= MaxRecords
  BY Constants DEF SourcesEdited, Go, TreeInv, Limits
<1>2. NoTree.front = 0 /\ NoTree.next = 0 /\ NoTree.width = 0
  BY DEF NoTree, Frontier
<1> QED
  BY <1>1, <1>2, InitialTree, TreeChanged, Constants DEF Limits

\* TreeInv is kept by every step.
LEMMA TreeStep == TreeInv /\ [Next]_vars => TreeInv'
<1> SUFFICES ASSUME TreeInv, [Next]_vars PROVE TreeInv'
  OBVIOUS
<1> USE DEF dataVars
<1>1. ASSUME UNCHANGED vars PROVE TreeInv'
  BY <1>1, TreeKept DEF vars, workVars
<1>2. ASSUME Claim \/ RunEnds \/ SourcesStand PROVE TreeInv'
  BY <1>2, TreeKept DEF Claim, RunEnds, SourcesStand, Go
<1>3. ASSUME RequestCancel \/ Resume PROVE TreeInv'
  BY <1>3, TreeKept DEF RequestCancel, Resume, workVars
<1>4. ASSUME SourcesEdited PROVE TreeInv'
  BY <1>4, SourcesEditedKept
<1>5. ASSUME ExtractStep \/ SkipPreflight \/ LinkStep PROVE TreeInv'
  BY <1>5, TreeKept DEF ExtractStep, SkipPreflight, LinkStep, Again, Leave, NextBatch, Go
<1>6. ASSUME ReuseExtraction \/ CompleteExtraction PROVE TreeInv'
  <2>1. PICK k \in 0 .. MaxRecords + 1 : AddRecords(k)
    BY <1>6 DEF ReuseExtraction, CompleteExtraction
  <2> QED
    BY <2>1, AddRecordsKept, Constants DEF Limits
<1>7. ASSUME MergeStep PROVE TreeInv'
  BY <1>7, MergeStepKept
<1>8. ASSUME SynthesizeStep PROVE TreeInv'
  BY <1>8, TreeKept DEF SynthesizeStep, Again, Go
<1>9. ASSUME OtherStop \/ RecordOverrun PROVE TreeInv'
  BY <1>9, BudgetStopKept DEF OtherStop, RecordOverrun
<1>10. ASSUME RefuseCount \/ \E t \in Sizes : RefuseInference(t) PROVE TreeInv'
  BY <1>10, BudgetStopKept DEF RefuseCount, RefuseInference, Refuse
<1>11. ASSUME CountCached \/ ReserveCount \/ CountAnswer PROVE TreeInv'
  BY <1>11, TreeKept DEF CountCached, ReserveCount, CountAnswer, Keep
<1>12. ASSUME InputTooLarge PROVE TreeInv'
  BY <1>12, InputTooLargeKept
<1>13. ASSUME \E t \in Sizes : ReserveInference(t) PROVE TreeInv'
  BY <1>13, TreeKept DEF ReserveInference
<1>14. ASSUME \E u \in Usage \cup {NoUsage}, o \in BOOLEAN : Answer(u, o) PROVE TreeInv'
  BY <1>14, TreeKept DEF Answer
<1>15. ASSUME AnswerFails \/ Repair PROVE TreeInv'
  BY <1>15, TreeKept DEF AnswerFails, Repair
<1>16. ASSUME CompleteLink \/ CompleteSynthesis PROVE TreeInv'
  BY <1>16, TreeKept DEF CompleteLink, CompleteSynthesis, NextBatch, Go
<1>17. ASSUME CompleteMerge PROVE TreeInv'
  BY <1>17, CompleteMergeKept
<1>18. ASSUME OutputRejected PROVE TreeInv'
  <2>1. UNCHANGED records /\ inputs' = 0 /\ (UNCHANGED tree \/ StopTree)
    BY <1>18 DEF OutputRejected, NextBatch, Leave, Go
  <2> QED
    BY <2>1, TreeKept, StopTreeKept
<1> QED
  BY <1>1, <1>2, <1>3, <1>4, <1>5, <1>6, <1>7, <1>8, <1>9, <1>10, <1>11, <1>12, <1>13, <1>14,
     <1>15, <1>16, <1>17, <1>18 DEF Next

-----------------------------------------------------------------------------
(* Both together                                                           *)

\* SpentInv is kept by every step.
LEMMA SpentStep == TreeInv /\ SpentInv /\ [Next]_vars => SpentInv'
<1> SUFFICES ASSUME TreeInv, SpentInv, [Next]_vars PROVE SpentInv'
  OBVIOUS
<1> USE DEF journalVars
<1>1. ASSUME UNCHANGED vars PROVE SpentInv'
  BY <1>1 DEF vars, workVars, counterVars, SpentInv, WithinBudget, Overrun
<1>2. ASSUME Claim \/ RunEnds \/ SourcesStand \/ SourcesEdited PROVE SpentInv'
  BY <1>2, NothingSpent DEF Claim, RunEnds, SourcesStand, SourcesEdited, Go
<1>3. ASSUME RequestCancel \/ Resume PROVE SpentInv'
  BY <1>3 DEF RequestCancel, Resume, workVars, counterVars, SpentInv, WithinBudget, Overrun
<1>4. ASSUME ExtractStep \/ SkipPreflight \/ LinkStep \/ SynthesizeStep PROVE SpentInv'
  BY <1>4, NothingSpent DEF ExtractStep, SkipPreflight, LinkStep, SynthesizeStep, Again, Leave,
     NextBatch, Go
<1>5. ASSUME NEW r, BudgetStop(r) PROVE at' # "inferring"
  BY <1>5 DEF BudgetStop, NextBatch, Leave, Go
<1>6. ASSUME OtherStop \/ RecordOverrun PROVE SpentInv'
  BY <1>5, <1>6, NothingSpent DEF OtherStop, RecordOverrun
<1>7. ASSUME RefuseCount \/ \E t \in Sizes : RefuseInference(t) PROVE SpentInv'
  BY <1>5, <1>7, NothingSpent DEF RefuseCount, RefuseInference, Refuse
<1>8. ASSUME NEW k, AddRecords(k) PROVE at' # "inferring"
  BY <1>5, <1>8 DEF AddRecords, NextBatch, Go
<1>9. ASSUME ReuseExtraction PROVE SpentInv'
  BY <1>8, <1>9, NothingSpent DEF ReuseExtraction
<1>10. ASSUME MergeStep PROVE SpentInv'
  <2>1. at' \in {"step", "count"}
    BY <1>10 DEF MergeStep, Stay, Leave, Go
  <2> QED
    BY <1>10, <2>1, NothingSpent DEF MergeStep
<1>11. ASSUME CountCached \/ CountAnswer PROVE SpentInv'
  BY <1>11, NothingSpent DEF CountCached, CountAnswer, Keep
<1>12. ASSUME ReserveCount PROVE SpentInv'
  BY <1>12, CountSpent
<1>13. ASSUME InputTooLarge PROVE SpentInv'
  <2>1. at' \in {"step", "end"}
    BY <1>13 DEF InputTooLarge, NextBatch, Leave, Go
  <2> QED
    BY <1>13, <2>1, NothingSpent DEF InputTooLarge
<1>14. ASSUME \E t \in Sizes : ReserveInference(t) PROVE SpentInv'
  BY <1>14, InferenceSpent
<1>15. ASSUME \E u \in Usage \cup {NoUsage}, o \in BOOLEAN : Answer(u, o) PROVE SpentInv'
  BY <1>15, AnswerSpent
<1>16. ASSUME AnswerFails PROVE SpentInv'
  <2>1. UNCHANGED <<counterVars, journal>> /\ at' = "infer"
    BY <1>16 DEF AnswerFails, Settle, SpentInv
  <2> QED
    BY <2>1, NothingSpent
<1>17. ASSUME Resettled PROVE UNCHANGED <<counterVars, journal>>
  BY <1>17 DEF Resettled, Settle
<1>18. ASSUME CompleteExtraction PROVE SpentInv'
  BY <1>8, <1>17, <1>18, NothingSpent DEF CompleteExtraction
<1>19. ASSUME CompleteLink \/ CompleteMerge \/ CompleteSynthesis PROVE SpentInv'
  BY <1>17, <1>19, NothingSpent DEF CompleteLink, CompleteMerge, CompleteSynthesis, NextBatch, Go
<1>20. ASSUME Repair \/ OutputRejected PROVE SpentInv'
  <2>1. at' \in {"count", "step", "end"}
    BY <1>20 DEF Repair, OutputRejected, NextBatch, Leave, Go
  <2> QED
    BY <1>20, <2>1, NothingSpent DEF Repair, OutputRejected
<1> QED
  BY <1>1, <1>2, <1>3, <1>4, <1>6, <1>7, <1>9, <1>10, <1>11, <1>12, <1>13, <1>14, <1>15, <1>16,
     <1>18, <1>19, <1>20 DEF Next

\* The limits on inferences, requests and tokens (max_llm_calls, max_provider_requests,
\* max_total_tokens) hold over all runs of a job, whatever crashes, is lost or is made again;
\* on tokens, as long as no answer has used more than was reserved for it.
THEOREM BudgetHolds == Spec => []WithinBudget
<1>1. Init => TreeInv /\ SpentInv
  BY InitTree, InitSpent
<1>2. TreeInv /\ SpentInv /\ [Next]_vars => (TreeInv /\ SpentInv)'
  BY TreeStep, SpentStep
<1>3. SpentInv => WithinBudget
  BY DEF SpentInv
<1> QED
  BY <1>1, <1>2, <1>3, PTL DEF Spec

-----------------------------------------------------------------------------
(* Stops                                                                   *)

\* Requests are added by a reservation only.
LEMMA RequestsAdded ==
  ASSUME requests \in Nat, [Next]_vars, requests' # requests
  PROVE  ReserveCount \/ \E t \in Sizes : ReserveInference(t)
<1> USE DEF counterVars
<1>1. \/ Claim \/ RequestCancel \/ RunEnds \/ Resume \/ SourcesStand \/ SourcesEdited
      \/ ExtractStep \/ SkipPreflight \/ ReuseExtraction \/ LinkStep \/ MergeStep
      \/ SynthesizeStep \/ OtherStop \/ UNCHANGED vars
      => requests' = requests
  BY DEF Claim, RequestCancel, RunEnds, Resume, SourcesStand, SourcesEdited, ExtractStep,
     SkipPreflight, ReuseExtraction, LinkStep, MergeStep, SynthesizeStep, OtherStop, vars
<1>2. \/ CountCached \/ RefuseCount \/ CountAnswer \/ InputTooLarge
      \/ \E t \in Sizes : RefuseInference(t)
      \/ RecordOverrun \/ Repair \/ OutputRejected
      => requests' = requests
  BY DEF CountCached, RefuseCount, CountAnswer, InputTooLarge, RefuseInference, Refuse,
     RecordOverrun, Repair, OutputRejected
<1>3. ASSUME NEW u, NEW o, Settle(u, o) PROVE requests' = requests
  BY <1>3 DEF Settle
<1>4. \/ AnswerFails \/ \E u \in Usage \cup {NoUsage}, o \in BOOLEAN : Answer(u, o)
      \/ CompleteExtraction \/ CompleteLink \/ CompleteMerge \/ CompleteSynthesis
      => requests' = requests
  BY <1>3 DEF AnswerFails, Answer, CompleteExtraction, CompleteLink, CompleteMerge,
     CompleteSynthesis, Resettled
<1> QED
  BY <1>1, <1>2, <1>4 DEF Next

\* Once budget_stop is recorded, no later run or retry of extraction or linking makes a
\* request: try_reserve refuses every stage but merge and synthesis.
THEOREM StopIsFinal == Spec => StopStands
<1>1. SpentInv /\ [Next]_vars => [stop # "none" => ~(requests' > requests /\ ~Completing)]_vars
  <2> SUFFICES ASSUME SpentInv, [Next]_vars, stop # "none", requests' > requests, ~Completing
               PROVE  FALSE
    OBVIOUS
  <2>1. ReserveCount \/ \E t \in Sizes : ReserveInference(t)
    <3>1. requests \in Nat
      BY DEF SpentInv
    <3>2. requests' # requests
      BY <3>1
    <3> QED
      BY <3>1, <3>2, RequestsAdded
  <2>2. ~Stopped
    BY <2>1 DEF ReserveCount, ReserveInference, MayCount, MayInfer
  <2> QED
    BY <2>2 DEF Stopped
<1>2. Init => TreeInv /\ SpentInv
  BY InitTree, InitSpent
<1>3. TreeInv /\ SpentInv /\ [Next]_vars => (TreeInv /\ SpentInv)'
  BY TreeStep, SpentStep
<1> QED
  BY <1>1, <1>2, <1>3, PTL DEF Spec, StopStands

-----------------------------------------------------------------------------
(* The reserve                                                             *)

Sent == at \in {"inferring", "overran", "output"}

\* What is still to be merged, and whether the synthesis is still to be made, when the
\* request under way has succeeded.
KeptFan == IF stage = "merge" /\ tree.state = "running" THEN tree.fan ELSE FanIn
KeptRoots ==
  IF stage = "synthesize" \/ (stage = "merge" /\ tree.state \in {"ready", "partial"}) THEN 0
  ELSE IF stage = "merge" /\ tree.state = "running"
  THEN IF Sent THEN RootsAfterMerge ELSE tree.front + tree.next
  ELSE IF stage = "extract" /\ Sent THEN records + 1 ELSE records
KeptFinal ==
  IF stage = "synthesize" /\ (Sent \/ at = "end") THEN 0
  ELSE IF records > 0 \/ (stage = "extract" /\ Sent) THEN 1 ELSE 0

KeptCalls == TreeCalls[KeptFan][KeptRoots]
KeptLevels == TreeDepth[KeptFan][KeptRoots]

\* Of the two requests set aside for a step of merge or synthesis, the count may be made.
Counted == IF Completing /\ at \in {"counting", "infer"} THEN 1 ELSE 0

\* That much can still be afforded.
Kept ==
  /\ KeptLevels <= MaxDepth
  /\ calls + KeptCalls + KeptFinal <= MaxCalls
  /\ requests + 2 * (KeptCalls + KeptFinal) <= MaxRequests + Counted
  /\ Committed + KeptCalls * MergeCost + KeptFinal * FinalCost <= MaxTokens

ReserveInv == ~strained /\ ~Overrun => Kept

\* Where the worker is in which stage.
PlaceInv ==
  /\ stage \in {"extract", "link", "merge", "synthesize"}
  /\ status # "running" => at = "none"
  /\ at \in {"none", "select"} => stage = "extract"

\* An overrun is recorded as a stop only when there is one.
OverrunInv == at = "overran" \/ stop = "usage_overrun" => Overrun

\* What the place of the worker says of the tree and the records.
FrontierInv ==
  /\ ~Completing /\ tree.state # "none" => strained
  /\ tree.state = "running" => tree.front >= 1 /\ records >= 1
  /\ stage = "merge" /\ at # "step" => tree.state = "running" /\ inputs >= 2
  /\ stage = "synthesize" /\ at \notin {"step", "end"} => records >= 1

ShapeInv == PlaceInv /\ OverrunInv /\ FrontierInv

LEMMA LessTimes ==
  ASSUME NEW a \in Nat, NEW b \in Nat, NEW c \in Nat, a <= b
  PROVE  a * c \in Nat /\ b * c \in Nat /\ a * c <= b * c
OBVIOUS

LEMMA LessAdded ==
  ASSUME NEW a \in Int, NEW b \in Int, NEW c \in Int, NEW d \in Int, NEW e \in Int, NEW m \in Int,
         d <= b, e <= c, a + b + c <= m
  PROVE  a + d + e <= m
OBVIOUS

LEMMA LessTwice ==
  ASSUME NEW a \in Int, NEW b \in Int, NEW c \in Int, NEW x \in Int, NEW y \in Int, NEW m \in Int,
         a + 2 * b <= m + x, x + 2 * c <= y + 2 * b
  PROVE  a + 2 * c <= m + y
OBVIOUS

LEMMA LessSummed ==
  ASSUME NEW a \in Int, NEW b \in Int, NEW c \in Int, NEW d \in Int, NEW x \in {0, 1}, NEW y \in {0, 1},
         b <= a, d <= c, x <= y \/ b < a \/ d < c
  PROVE  x + 2 * (b + d) <= y + 2 * (a + c)
OBVIOUS

\* What is kept has a size.
KeptTyped ==
  /\ KeptFan \in 2 .. FanIn /\ KeptRoots \in Roots
  /\ KeptCalls \in Nat /\ KeptLevels \in Nat
  /\ KeptFinal \in {0, 1} /\ Counted \in {0, 1}

LEMMA KeptTypes == TreeInv => KeptTyped
<1> SUFFICES ASSUME TreeInv PROVE KeptTyped
  OBVIOUS
<1>1. KeptFan \in 2 .. FanIn
  BY Constants DEF TreeInv, KeptFan
<1>2. KeptRoots \in Roots
  BY Constants DEF TreeInv, KeptRoots, RootsAfterMerge, Roots, Limits
<1>3. KeptCalls \in Nat /\ KeptLevels \in Nat
  BY <1>1, <1>2, TreeFacts DEF KeptCalls, KeptLevels
<1> QED
  BY <1>1, <1>2, <1>3 DEF KeptFinal, Counted, KeptTyped

LEMMA KeptTypesNext == TreeInv' => KeptTyped'
BY KeptTypes, PTL

\* A step leaves no more to do than there was.
NoMoreToDo ==
  /\ KeptLevels' <= KeptLevels /\ KeptCalls' <= KeptCalls /\ KeptFinal' <= KeptFinal
  /\ Counted + 2 * (KeptCalls' + KeptFinal') <= Counted' + 2 * (KeptCalls + KeptFinal)

\* A step that neither spends nor settles keeps the reserve if it leaves no more to do.
LEMMA Eased ==
  ASSUME TreeInv, TreeInv', SpentInv, ReserveInv, UNCHANGED <<counterVars, journal>>,
         strained => strained',
         ~strained' => NoMoreToDo
  PROVE  ReserveInv'
<1> SUFFICES ASSUME ~strained', ~Overrun' PROVE Kept'
  BY DEF ReserveInv
<1>1. Kept
  BY DEF ReserveInv, Overrun
<1>2. /\ KeptCalls \in Nat /\ KeptLevels \in Nat /\ KeptFinal \in Nat /\ Counted \in Nat
      /\ KeptCalls' \in Nat /\ KeptLevels' \in Nat /\ KeptFinal' \in Nat /\ Counted' \in Nat
  BY KeptTypes, KeptTypesNext DEF KeptTyped
<1>3. MergeCost \in Nat /\ FinalCost \in Nat /\ Limits /\ MaxDepth \in Nat
  BY Constants, BudgetAssumption DEF BudgetAssumption
<1>4. /\ calls \in Nat /\ requests \in Nat /\ used \in Nat /\ reserved \in Int
      /\ calls' = calls /\ requests' = requests /\ used' = used /\ reserved' = reserved
  BY DEF SpentInv, counterVars
<1>5. /\ KeptLevels' <= KeptLevels /\ KeptCalls' <= KeptCalls /\ KeptFinal' <= KeptFinal
      /\ Counted + 2 * (KeptCalls' + KeptFinal') <= Counted' + 2 * (KeptCalls + KeptFinal)
  BY DEF NoMoreToDo
<1>6. /\ KeptCalls' * MergeCost <= KeptCalls * MergeCost
      /\ KeptFinal' * FinalCost <= KeptFinal * FinalCost
      /\ KeptCalls' * MergeCost \in Nat /\ KeptCalls * MergeCost \in Nat
      /\ KeptFinal' * FinalCost \in Nat /\ KeptFinal * FinalCost \in Nat
  BY <1>2, <1>3, <1>5, LessTimes
<1>7. KeptLevels' <= MaxDepth /\ calls' + KeptCalls' + KeptFinal' <= MaxCalls
  <2>1. KeptLevels <= MaxDepth /\ calls + KeptCalls + KeptFinal <= MaxCalls
    BY <1>1 DEF Kept
  <2>2. KeptLevels' <= MaxDepth
    BY <1>2, <1>3, <1>5, <2>1
  <2>3. calls + KeptCalls' + KeptFinal' <= MaxCalls
    <3>1. /\ calls \in Int /\ KeptCalls \in Int /\ KeptFinal \in Int /\ KeptCalls' \in Int
          /\ KeptFinal' \in Int /\ MaxCalls \in Int
      BY <1>2, <1>3, <1>4 DEF Limits
    <3>2. KeptCalls' <= KeptCalls /\ KeptFinal' <= KeptFinal /\ calls + KeptCalls + KeptFinal <= MaxCalls
      BY <1>5, <2>1
    <3> QED
      BY <3>1, <3>2, LessAdded
  <2> QED
    BY <1>4, <2>2, <2>3
<1>8. requests' + 2 * (KeptCalls' + KeptFinal') <= MaxRequests + Counted'
  <2>1. requests + 2 * (KeptCalls + KeptFinal) <= MaxRequests + Counted
    BY <1>1 DEF Kept
  <2>2. KeptCalls + KeptFinal \in Int /\ KeptCalls' + KeptFinal' \in Int
    BY <1>2
  <2>3. requests + 2 * (KeptCalls' + KeptFinal') <= MaxRequests + Counted'
    <3>1. /\ requests \in Int /\ MaxRequests \in Int /\ Counted \in Int /\ Counted' \in Int
      BY <1>2, <1>3, <1>4 DEF Limits
    <3>2. Counted + 2 * (KeptCalls' + KeptFinal') <= Counted' + 2 * (KeptCalls + KeptFinal)
      BY <1>5
    <3> QED
      BY <3>1, <3>2, <2>1, <2>2, LessTwice
  <2> QED
    BY <1>4, <2>3
<1>9. Committed' + KeptCalls' * MergeCost + KeptFinal' * FinalCost <= MaxTokens
  BY <1>1, <1>3, <1>4, <1>6 DEF Kept, Limits, Committed
<1> QED
  BY <1>7, <1>8, <1>9 DEF Kept

\* The same fan and no more roots.
LEMMA FewerRoots ==
  ASSUME TreeInv, TreeInv', KeptFan' = KeptFan, KeptRoots' <= KeptRoots,
         KeptFinal' <= KeptFinal, Counted <= Counted'
  PROVE  NoMoreToDo
<1>1. KeptTyped /\ KeptTyped'
  BY KeptTypes, KeptTypesNext
<1>2. KeptRoots' \in 0 .. KeptRoots
  BY <1>1 DEF Roots, KeptTyped
<1>3. KeptLevels' <= KeptLevels /\ KeptCalls' <= KeptCalls
  BY <1>1, <1>2, TreeFacts DEF KeptCalls, KeptLevels, KeptTyped
<1>4. /\ KeptCalls \in Int /\ KeptCalls' \in Int /\ KeptFinal \in Int /\ KeptFinal' \in Int
      /\ Counted \in {0, 1} /\ Counted' \in {0, 1}
  BY <1>1 DEF KeptTyped
<1> QED
  BY <1>3, <1>4, LessSummed DEF NoMoreToDo

\* Nothing is left to merge.
LEMMA NoRoots ==
  ASSUME TreeInv, TreeInv', KeptRoots' = 0, KeptFinal' <= KeptFinal,
         Counted <= Counted' \/ KeptCalls >= 1 \/ KeptFinal' < KeptFinal
  PROVE  NoMoreToDo
<1>1. KeptTyped /\ KeptTyped'
  BY KeptTypes, KeptTypesNext
<1>2. KeptLevels' = 0 /\ KeptCalls' = 0
  BY <1>1, TreeFacts DEF KeptCalls, KeptLevels, KeptTyped
<1>3. KeptLevels' <= KeptLevels /\ KeptCalls' <= KeptCalls
  BY <1>1, <1>2 DEF KeptTyped
<1>4. /\ KeptCalls \in Int /\ KeptCalls' \in Int /\ KeptFinal \in Int /\ KeptFinal' \in Int
      /\ Counted \in {0, 1} /\ Counted' \in {0, 1}
  BY <1>1 DEF KeptTyped
<1>5. Counted <= Counted' \/ KeptCalls' < KeptCalls \/ KeptFinal' < KeptFinal
  BY <1>2, <1>4
<1> QED
  BY <1>3, <1>4, <1>5, LessSummed DEF NoMoreToDo

\* At a request of the merge there is more than one root.
LEMMA RootsBefore ==
  ASSUME TreeInv, ShapeInv, stage = "merge", at # "step", ~Sent
  PROVE  KeptCalls >= 1 /\ KeptRoots = tree.front + tree.next /\ KeptFan = tree.fan
<1>1. tree.state = "running" /\ inputs >= 2 /\ inputs \in Nat /\ inputs <= tree.front
      /\ tree.front \in Nat /\ tree.next \in Nat
  BY DEF ShapeInv, PlaceInv, FrontierInv, TreeInv
<1>2. KeptRoots = tree.front + tree.next /\ KeptFan = tree.fan
  BY <1>1 DEF KeptRoots, KeptFan
<1>3. KeptRoots \in Roots /\ ~(KeptRoots <= 1) /\ KeptFan \in 2 .. FanIn /\ KeptCalls \in Nat
  BY <1>1, <1>2, KeptTypes DEF KeptTyped
<1> QED
  BY <1>2, <1>3, TreeFacts DEF KeptCalls

\* Before the merge every record is a root.
LEMMA BeforeMerge ==
  ASSUME TreeInv, TreeInv', stage \in {"extract", "link"}, ~Sent', records' <= KeptRoots,
         stage' \in {"extract", "link", "merge"}, stage' = "merge" => tree'.state = "none"
  PROVE  NoMoreToDo
<1>1. records \in Nat /\ records' \in Nat
  BY DEF TreeInv
<1>2. KeptFan = FanIn /\ KeptFan' = FanIn /\ KeptRoots' = records'
  BY DEF KeptFan, KeptRoots
<1>3. KeptFinal' = IF records' > 0 THEN 1 ELSE 0
  BY DEF KeptFinal
<1>4. KeptFinal = IF KeptRoots > 0 THEN 1 ELSE 0
  BY <1>1 DEF KeptFinal, KeptRoots
<1>5. Counted = 0 /\ Counted' \in {0, 1} /\ KeptRoots \in Nat
  BY <1>1 DEF Counted, Completing, KeptRoots
<1>6. KeptFinal' <= KeptFinal /\ Counted <= Counted'
  BY <1>1, <1>3, <1>4, <1>5
<1> QED
  BY <1>2, <1>6, FewerRoots

LEMMA AllRoots ==
  ASSUME TreeInv, stage \in {"extract", "link"} PROVE records <= KeptRoots
BY DEF TreeInv, KeptRoots

\* Whoever leaves the merge gives up the rest of it, and keeps the synthesis.
LEMMA LeavesMerge ==
  ASSUME TreeInv, TreeInv', ShapeInv, stage = "merge", stage' = "synthesize", at' = "step",
         UNCHANGED records
  PROVE  NoMoreToDo
<1>1. KeptRoots' = 0 /\ Counted' = 0
  BY DEF KeptRoots, Counted
<1>2. KeptFinal' = KeptFinal
  BY DEF KeptFinal, Sent
<1>3. Counted = 0 \/ KeptCalls >= 1
  BY RootsBefore DEF Counted, Sent
<1> QED
  BY <1>1, <1>2, <1>3, NoRoots, KeptTypes DEF KeptTyped

LEMMA SynthesisEnds ==
  ASSUME TreeInv, TreeInv', ShapeInv, stage = "synthesize", stage' = "synthesize", at' = "end"
  PROVE  NoMoreToDo
<1>1. KeptRoots' = 0 /\ KeptFinal' = 0 /\ Counted' = 0
  BY DEF KeptRoots, KeptFinal, Counted
<1>2. records \in Nat
  BY DEF TreeInv
<1>3. Counted = 0 \/ KeptFinal = 1
  BY <1>2 DEF Counted, KeptFinal, ShapeInv, PlaceInv, FrontierInv, Sent
<1> QED
  BY <1>1, <1>3, NoRoots, KeptTypes DEF KeptTyped

\* A stop leaves the stage in hand: what it was still to request is given up.
LEMMA BudgetStopLess ==
  ASSUME TreeInv, TreeInv', ShapeInv, NEW r, BudgetStop(r), ~strained
  PROVE  NoMoreToDo
<1>1. records' = records /\ at' \in {"step", "end"} /\ ~Sent'
  BY DEF BudgetStop, NextBatch, Leave, Go, Sent
<1>2. ASSUME stage \in {"extract", "link"} PROVE NoMoreToDo
  <2>1. stage' \in {"extract", "link", "merge"} /\ UNCHANGED tree
    BY <1>2 DEF BudgetStop, NextBatch, Leave, Go
  <2>2. tree.state = "none"
    BY <1>2 DEF ShapeInv, PlaceInv, FrontierInv, Completing
  <2> QED
    BY <1>1, <1>2, <2>1, <2>2, BeforeMerge, AllRoots
<1>3. ASSUME stage = "merge" PROVE NoMoreToDo
  <2>1. stage' = "synthesize" /\ at' = "step"
    BY <1>3 DEF BudgetStop, Leave, Go
  <2> QED
    BY <1>1, <1>3, <2>1, LeavesMerge
<1>4. ASSUME stage = "synthesize" PROVE NoMoreToDo
  <2>1. stage' = "synthesize" /\ at' = "end"
    BY <1>4 DEF BudgetStop, Go
  <2> QED
    BY <1>4, <2>1, SynthesisEnds
<1> QED
  BY <1>2, <1>3, <1>4 DEF ShapeInv, PlaceInv, FrontierInv

-----------------------------------------------------------------------------
(* Requests and answers keep the reserve                                   *)

LEMMA SameToDo ==
  ASSUME UNCHANGED <<stage, tree, records, inputs>>, Sent' <=> Sent, at # "end", at' # "end"
  PROVE  /\ KeptFan' = KeptFan /\ KeptRoots' = KeptRoots /\ KeptFinal' = KeptFinal
         /\ KeptCalls' = KeptCalls /\ KeptLevels' = KeptLevels
<1>1. KeptFan' = KeptFan
  BY DEF KeptFan
<1>2. KeptRoots' = KeptRoots
  BY DEF KeptRoots, RootsAfterMerge
<1>3. KeptFinal' = KeptFinal
  BY DEF KeptFinal
<1> QED
  BY <1>1, <1>2, <1>3 DEF KeptCalls, KeptLevels

\* A request that is authorised leaves what the authorisation set aside.
LEMMA InferenceReserve ==
  ASSUME TreeInv, TreeInv', SpentInv, ShapeInv, NEW t \in Sizes, ReserveInference(t)
  PROVE  Kept'
<1>1. /\ at = "infer" /\ at' = "inferring" /\ Sent' /\ ~Sent
      /\ stage' = stage /\ tree' = tree /\ records' = records /\ inputs' = inputs
      /\ calls' = calls + 1 /\ requests' = requests + 1 /\ used' = used /\ reserved' = reserved + t
  BY DEF ReserveInference, dataVars, Sent
<1>2. KeptFan' = Fan /\ KeptRoots' = TreeRoots /\ KeptFinal' = Final
  <2>1. CASE stage \in {"extract", "link"}
    <3>1. records \in Nat /\ records + 1 > 0
      BY DEF TreeInv
    <3>2. KeptFan' = Fan
      BY <1>1, <2>1 DEF KeptFan, Fan
    <3>3. KeptRoots' = IF stage = "extract" THEN records + 1 ELSE records
      BY <1>1, <2>1 DEF KeptRoots
    <3>4. TreeRoots = IF stage = "extract" THEN records + 1 ELSE records
      BY <2>1 DEF TreeRoots
    <3>5. KeptFinal' = IF records > 0 \/ stage = "extract" THEN 1 ELSE 0
      BY <1>1, <2>1 DEF KeptFinal
    <3> QED
      BY <3>1, <3>2, <3>3, <3>4, <3>5 DEF Final
  <2>2. CASE stage = "merge"
    <3>1. tree.state = "running" /\ records >= 1 /\ records \in Nat
      BY <1>1, <2>2 DEF ShapeInv, PlaceInv, FrontierInv, TreeInv
    <3>2. RootsAfterMerge >= 1 /\ RootsAfterMerge' = RootsAfterMerge
      BY <1>1, <2>2 DEF TreeInv, RootsAfterMerge
    <3>3. KeptFan' = Fan
      BY <1>1, <2>2, <3>1 DEF KeptFan, Fan
    <3>4. KeptRoots' = RootsAfterMerge
      BY <1>1, <2>2, <3>1, <3>2 DEF KeptRoots
    <3>5. TreeRoots = RootsAfterMerge
      BY <2>2 DEF TreeRoots
    <3>6. RootsAfterMerge > 0
      BY <2>2, <3>2 DEF TreeInv, RootsAfterMerge
    <3>7. KeptFinal' = 1
      BY <1>1, <2>2, <3>1 DEF KeptFinal
    <3> QED
      BY <3>3, <3>4, <3>5, <3>6, <3>7 DEF Final
  <2>3. CASE stage = "synthesize"
    BY <1>1, <2>3 DEF KeptFan, Fan, KeptRoots, TreeRoots, KeptFinal, Final
  <2> QED
    BY <2>1, <2>2, <2>3 DEF ShapeInv, PlaceInv, FrontierInv
<1>3. KeptCalls' = Merges /\ KeptLevels' = TreeDepth[Fan][TreeRoots]
  BY <1>2 DEF KeptCalls, KeptLevels, Merges
<1>4. Affordable(1, t, 0)
  BY DEF ReserveInference, MayInfer
<1>5. /\ Merges \in Nat /\ Final \in Nat /\ calls \in Nat /\ requests \in Nat
      /\ used \in Nat /\ reserved \in Int /\ t \in Nat /\ Limits /\ Counted' = 0
  BY <1>1, ReserveIsNat, Constants DEF SpentInv, Sizes, Counted
<1>6. KeptLevels' <= MaxDepth
  BY <1>3, <1>4 DEF Affordable
<1>7. calls' + KeptCalls' + KeptFinal' <= MaxCalls
  <2>1. calls + 1 + Merges + Final + 0 <= MaxCalls
    BY <1>4 DEF Affordable
  <2> QED
    BY <1>1, <1>2, <1>3, <1>5, <2>1
<1>8. requests' + 2 * (KeptCalls' + KeptFinal') <= MaxRequests + Counted'
  <2>1. requests + 1 + 2 * (Merges + Final) + 0 <= MaxRequests
    BY <1>4 DEF Affordable
  <2>2. MaxRequests \in Int
    BY <1>5 DEF Limits
  <2> QED
    BY <1>1, <1>2, <1>3, <1>5, <2>1, <2>2
<1>9. Committed' + KeptCalls' * MergeCost + KeptFinal' * FinalCost <= MaxTokens
  <2>1. Committed + t + Merges * MergeCost + Final * FinalCost <= MaxTokens
    BY <1>4 DEF Affordable
  <2>2. Committed' = Committed + t
    BY <1>1, <1>5 DEF Committed
  <2> QED
    BY <1>2, <1>3, <2>1, <2>2
<1> QED
  BY <1>6, <1>7, <1>8, <1>9 DEF Kept

\* A token count takes a request that was set aside for it, or leaves all that was.
LEMMA CountReserve ==
  ASSUME TreeInv, TreeInv', SpentInv, ShapeInv, ReserveInv, ReserveCount
  PROVE  ReserveInv'
<1> SUFFICES ASSUME ~strained', ~Overrun' PROVE Kept'
  BY DEF ReserveInv
<1>1. /\ at = "count" /\ at' = "counting" /\ ~Sent' /\ ~Sent
      /\ stage' = stage /\ tree' = tree /\ records' = records /\ inputs' = inputs
      /\ calls' = calls /\ requests' = requests + 1 /\ used' = used /\ reserved' = reserved
      /\ strained' = strained /\ journal' = journal
  BY DEF ReserveCount, Keep, dataVars, Sent
<1>2. Kept
  BY <1>1 DEF ReserveInv, Overrun
<1>3. /\ KeptFan' = KeptFan /\ KeptRoots' = KeptRoots /\ KeptFinal' = KeptFinal
      /\ KeptCalls' = KeptCalls /\ KeptLevels' = KeptLevels
  BY <1>1, SameToDo
<1>4. /\ KeptCalls \in Nat /\ KeptFinal \in Nat /\ requests \in Nat /\ MaxRequests \in Nat
      /\ KeptFan \in 2 .. FanIn /\ KeptRoots \in Roots /\ Merges \in Nat /\ Final \in {0, 1}
  BY KeptTypes, ReserveIsNat, Constants DEF KeptTyped, SpentInv, Limits
<1>5. requests' + 2 * (KeptCalls' + KeptFinal') <= MaxRequests + Counted'
  <2>1. CASE Completing
    <3>1. Counted = 0 /\ Counted' = 1
      BY <1>1, <2>1 DEF Counted, Completing
    <3>2. requests + 2 * (KeptCalls + KeptFinal) <= MaxRequests + Counted
      BY <1>2 DEF Kept
    <3> QED
      BY <1>1, <1>3, <1>4, <3>1, <3>2
  <2>2. CASE ~Completing
    <3>1. stage \in {"extract", "link"} /\ Counted' = 0
      BY <1>1, <2>2 DEF Counted, Completing, ShapeInv, PlaceInv, FrontierInv
    <3>2. KeptFan = Fan /\ KeptRoots <= TreeRoots /\ KeptFinal <= Final
      BY <1>1, <3>1 DEF KeptFan, Fan, KeptRoots, TreeRoots, KeptFinal, Final, TreeInv
    <3>3. TreeRoots \in Roots /\ KeptRoots \in 0 .. TreeRoots
      <4>1. records \in Nat /\ records <= MaxRecords /\ MaxRecords \in Nat
        BY Constants DEF TreeInv, Limits
      <4>2. TreeRoots \in {records, records + 1}
        BY <3>1 DEF TreeRoots
      <4> QED
        BY <1>4, <3>2, <4>1, <4>2 DEF Roots
    <3>4. KeptCalls <= Merges
      BY <1>4, <3>2, <3>3, TreeFacts DEF KeptCalls, Merges
    <3>5. requests + 1 + 2 * (Merges + Final) + 1 <= MaxRequests
      BY DEF ReserveCount, MayCount, Affordable
    <3> QED
      BY <1>1, <1>3, <1>4, <3>1, <3>2, <3>4, <3>5
  <2> QED
    BY <2>1, <2>2
<1>6. Committed' = Committed
  BY <1>1 DEF Committed
<1> QED
  BY <1>1, <1>2, <1>3, <1>5, <1>6 DEF Kept

\* An answer takes no more than was reserved for it, or it is an overrun.
LEMMA AnswerReserve ==
  ASSUME TreeInv, SpentInv, ReserveInv, NEW u \in Usage \cup {NoUsage}, NEW o \in BOOLEAN, Answer(u, o)
  PROVE  ReserveInv' /\ (Overrun => Overrun') /\ (o => Overrun')
<1>1. /\ at = "inferring" /\ mine.tokens \in Nat /\ mine.usage = NoUsage /\ mine.over = FALSE
      /\ Settle(u, o) /\ at' \in {"overran", "output"} /\ Sent /\ Sent'
      /\ stage' = stage /\ tree' = tree /\ records' = records /\ inputs' = inputs
      /\ strained' = strained
  BY DEF Answer, SpentInv, dataVars, Sent
<1>2. Overrun => Overrun'
  BY <1>1, OverrunRemains
<1>3. o => u # NoUsage
  BY DEF Answer
<1>4. o => Overrun'
  <2>1. SUFFICES ASSUME o PROVE Overrun'
    OBVIOUS
  <2>2. Settled(u, o).over = TRUE
    BY <1>1, <2>1 DEF Settled
  <2> QED
    BY <1>1, <1>3, <2>1, <2>2 DEF Settle, Overrun, B!BagAdd
<1>5. /\ KeptFan' = KeptFan /\ KeptRoots' = KeptRoots /\ KeptFinal' = KeptFinal
      /\ KeptCalls' = KeptCalls /\ KeptLevels' = KeptLevels
  BY <1>1, SameToDo
<1>6. Counted = 0 /\ Counted' = 0
  BY <1>1 DEF Counted
<1>7. ASSUME ~o, Kept PROVE Kept'
  <2>1. calls' = calls /\ requests' = requests
    BY <1>1 DEF Settle, counterVars
  <2>2. CASE u = NoUsage
    <3>1. Committed' = Committed
      BY <1>1, <2>2 DEF Settle, counterVars, Committed
    <3> QED
      BY <1>5, <1>6, <1>7, <2>1, <3>1 DEF Kept
  <2>3. CASE u # NoUsage
    <3>1. u \in Nat /\ used' = used + u /\ reserved' = reserved - mine.tokens
      BY <1>1, <2>3, Constants DEF Usage, Settle
    <3>2. u <= mine.tokens
      BY <1>1, <1>7, <2>3, <3>1 DEF Answer, Tokens
    <3>3. Committed' <= Committed /\ Committed \in Int /\ Committed' \in Int
      BY <1>1, <3>1, <3>2 DEF Committed, SpentInv
    <3>4. KeptCalls * MergeCost \in Nat /\ KeptFinal * FinalCost \in Nat /\ MaxTokens \in Nat
      BY KeptTypes, Constants DEF KeptTyped, Limits
    <3>5. Committed + KeptCalls * MergeCost + KeptFinal * FinalCost <= MaxTokens
      BY <1>7 DEF Kept
    <3>6. Committed' + KeptCalls * MergeCost + KeptFinal * FinalCost <= MaxTokens
      BY <3>3, <3>4, <3>5
    <3> QED
      BY <1>5, <1>6, <1>7, <2>1, <3>6 DEF Kept
  <2> QED
    BY <2>2, <2>3
<1> QED
  BY <1>1, <1>2, <1>4, <1>7 DEF ReserveInv

LEMMA EarlySteps ==
  ASSUME TreeInv, TreeInv', ShapeInv, ~strained',
         \/ Claim \/ RunEnds \/ SourcesStand \/ SourcesEdited
         \/ ExtractStep \/ SkipPreflight \/ LinkStep
  PROVE  NoMoreToDo
<1>1. ASSUME RunEnds PROVE NoMoreToDo
  <2>1. /\ stage \in {"extract", "link"} /\ stage' = "extract" /\ at' = "none" /\ ~Sent'
        /\ records' = records
    BY <1>1 DEF RunEnds, Go, Strains, Completing, ShapeInv, PlaceInv, FrontierInv, dataVars, Sent
  <2> QED
    BY <2>1, BeforeMerge, AllRoots
<1>2. ASSUME Claim \/ SourcesStand \/ SourcesEdited PROVE NoMoreToDo
  <2>1. /\ stage = "extract" /\ stage' = "extract" /\ ~Sent' /\ ~Sent
        /\ records' \in Nat /\ records' <= records /\ records \in Nat
    <3>1. stage = "extract" /\ stage' = "extract" /\ ~Sent' /\ ~Sent
      BY <1>2 DEF Claim, SourcesStand, SourcesEdited, Go, ShapeInv, PlaceInv, FrontierInv, Sent
    <3>2. records' = records \/ records' \in 0 .. records
      BY <1>2 DEF Claim, SourcesStand, SourcesEdited, dataVars
    <3> QED
      BY <3>1, <3>2 DEF TreeInv
  <2>2. records' <= KeptRoots
    BY <2>1 DEF KeptRoots
  <2> QED
    BY <2>1, <2>2, BeforeMerge
<1>3. ASSUME ExtractStep \/ SkipPreflight PROVE NoMoreToDo
  <2>1. /\ stage = "extract" /\ stage' \in {"extract", "link"} /\ ~Sent' /\ records' = records
    BY <1>3 DEF ExtractStep, SkipPreflight, Preflight, Again, Leave, NextBatch, Go, dataVars, Sent
  <2> QED
    BY <2>1, BeforeMerge, AllRoots
<1>4. ASSUME LinkStep PROVE NoMoreToDo
  <2>1. /\ stage = "link" /\ stage' \in {"link", "merge"} /\ ~Sent' /\ records' = records
        /\ tree' = tree /\ strained' = strained
    BY <1>4 DEF LinkStep, Again, Leave, Go, Sent
  <2>2. tree.state = "none"
    BY <2>1 DEF ShapeInv, PlaceInv, FrontierInv, Completing
  <2> QED
    BY <2>1, <2>2, BeforeMerge, AllRoots
<1> QED
  BY <1>1, <1>2, <1>3, <1>4

\* complete_batch: one record was reckoned with.
LEMMA RecordsLess ==
  ASSUME TreeInv, TreeInv', ShapeInv, stage = "extract", NEW k \in Nat, AddRecords(k), ~strained,
         k = 0 \/ (Sent /\ k <= 1)
  PROVE  NoMoreToDo
<1>1. CASE records + k <= MaxRecords
  <2>1. records' = records + k /\ stage' = "extract" /\ at' = "step" /\ ~Sent'
    BY <1>1 DEF AddRecords, NextBatch, Go, Sent
  <2>2. records' <= KeptRoots
    BY <2>1 DEF KeptRoots, TreeInv
  <2> QED
    BY <2>1, <2>2, BeforeMerge
<1>2. CASE ~(records + k <= MaxRecords)
  BY <1>2, BudgetStopLess DEF AddRecords
<1> QED
  BY <1>1, <1>2

LEMMA ExtractionSteps ==
  ASSUME TreeInv, TreeInv', ShapeInv, ~strained', ReuseExtraction \/ CompleteExtraction
  PROVE  NoMoreToDo
<1>1. stage = "extract" /\ ~strained
  BY DEF ReuseExtraction, CompleteExtraction, Strains
<1>2. PICK k \in 0 .. MaxRecords + 1 :
        AddRecords(k) /\ \/ strained' = (strained \/ k > 0)
                         \/ at = "output" /\ strained' = (strained \/ k > 1)
  BY DEF ReuseExtraction, CompleteExtraction, Strains
<1>3. ~(k > 0) \/ (Sent /\ ~(k > 1))
  BY <1>2 DEF Sent
<1>4. k \in Nat /\ (k = 0 \/ (Sent /\ k <= 1))
  <2>1. k \in Nat
    BY Constants DEF Limits
  <2> QED
    BY <1>3, <2>1
<1> QED
  BY <1>1, <1>2, <1>4, RecordsLess

\* The tree is finished, or stopped.
LEMMA MergeOver ==
  ASSUME TreeInv, TreeInv', stage = "merge", stage' = "merge", tree'.state \in {"ready", "partial"},
         at = "step" \/ Sent, UNCHANGED records
  PROVE  NoMoreToDo
<1>1. KeptRoots' = 0 /\ Counted = 0 /\ Counted' \in {0, 1}
  BY DEF KeptRoots, Counted, Sent
<1>2. KeptFinal' = KeptFinal
  BY DEF KeptFinal
<1> QED
  BY <1>1, <1>2, NoRoots, KeptTypes DEF KeptTyped

\* The level goes on, or the next one starts, with as many roots or fewer.
LEMMA MergeGoesOn ==
  ASSUME TreeInv, TreeInv', stage = "merge", stage' = "merge",
         tree.state = "running", tree'.state = "running", tree'.fan = tree.fan,
         tree'.front + tree'.next <= KeptRoots, ~Sent', at = "step" \/ Sent, UNCHANGED records
  PROVE  NoMoreToDo
<1>1. KeptFan' = KeptFan /\ KeptRoots' = tree'.front + tree'.next
  BY DEF KeptFan, KeptRoots
<1>2. KeptFinal' = KeptFinal /\ Counted = 0 /\ Counted' \in {0, 1}
  BY DEF KeptFinal, Counted, Sent
<1> QED
  BY <1>1, <1>2, FewerRoots, KeptTypes DEF KeptTyped

\* What is left when n nodes of the level have become p of the next.
LEMMA RootsAdvanced ==
  ASSUME TreeInv, NEW n \in Nat, NEW p \in Nat, NEW b, n <= tree.front, tree' = Advanced(n, p, b)
  PROVE  /\ tree'.front + tree'.next = tree.front - n + tree.next + p
         /\ tree'.fan = tree.fan
         /\ tree'.state \in {"ready", "partial", tree.state}
         /\ tree'.state = "running" => tree'.front >= 1
         /\ b /\ n = tree.front => tree'.state = "ready"
<1>0. tree.front \in Nat /\ tree.next \in Nat
  BY DEF TreeInv
<1>1. CASE tree.front > n
  <2>1. tree' = Frontier(tree.state, tree.width, tree.front - n, tree.next + p, tree.depth, tree.fan)
    BY <1>1 DEF Advanced
  <2>2. /\ tree'.front = tree.front - n /\ tree'.next = tree.next + p
        /\ tree'.fan = tree.fan /\ tree'.state = tree.state
    BY <2>1 DEF Frontier
  <2> QED
    BY <1>0, <1>1, <2>2
<1>2. CASE ~(tree.front > n)
  <2>1. tree.front = n
    BY <1>0, <1>2
  <2>2. PICK s \in {"ready", "partial", tree.state} :
          /\ tree' = Frontier(s, tree.next + p, tree.next + p, 0, tree.depth + 1, tree.fan)
          /\ tree.next + p = 0 \/ b => s = "ready"
    BY <1>2 DEF Advanced
  <2>3. tree'.front = tree.next + p /\ tree'.next = 0 /\ tree'.fan = tree.fan /\ tree'.state = s
    BY <2>2 DEF Frontier
  <2>4. tree.next + p \in Nat
    BY <1>0
  <2>5. tree'.state = "running" => tree'.front >= 1
    BY <2>2, <2>3, <2>4
  <2> QED
    BY <1>0, <2>1, <2>2, <2>3, <2>4, <2>5
<1> QED
  BY <1>1, <1>2

LEMMA MergeSteps ==
  ASSUME TreeInv, TreeInv', ShapeInv, ~strained', MergeStep
  PROVE  NoMoreToDo
<1>0. stage = "merge" /\ at = "step" /\ records' = records /\ records \in Nat /\ ~Sent' /\ ~Sent
  BY DEF MergeStep, TreeInv, Stay, Leave, Go, Sent
<1>1. CASE tree.state = "none" /\ Stay /\ StartTree
  <2>1. /\ tree'.state \in {"ready", "running"} /\ tree'.front = records /\ tree'.next = 0
        /\ tree'.fan = FanIn /\ stage' = "merge"
    BY <1>0, <1>1 DEF StartTree, Frontier, Stay, Leave, Go
  <2>2. CASE tree'.state = "running"
    <3>1. KeptFan = FanIn /\ KeptFan' = FanIn /\ KeptRoots = records /\ KeptRoots' = records
      BY <1>0, <1>1, <2>1, <2>2 DEF KeptFan, KeptRoots
    <3>2. KeptFinal' = KeptFinal /\ Counted = 0 /\ Counted' \in {0, 1}
      BY <1>0, <2>1 DEF KeptFinal, Counted, Sent
    <3> QED
      BY <1>0, <3>1, <3>2, FewerRoots, KeptTypes DEF KeptTyped
  <2> QED
    BY <1>0, <2>1, <2>2, MergeOver
<1>2. CASE tree.state = "running" /\ Stay /\ tree' = [tree EXCEPT !.state = "ready"]
  <2>1. tree'.state = "ready" /\ stage' = "merge"
    BY <1>0, <1>2 DEF Stay, Leave, Go, TreeInv
  <2> QED
    BY <1>0, <2>1, MergeOver
<1>3. CASE tree.state = "running" /\ Stay /\ StopTree
  <2>1. tree'.state = "partial" /\ stage' = "merge"
    BY <1>0, <1>3 DEF Stay, Leave, Go, TreeInv, StopTree
  <2> QED
    BY <1>0, <2>1, MergeOver
<1>4. CASE tree.state = "running" /\ tree.front = 1 /\ Stay /\ tree' = Advanced(1, 1, FALSE)
  <2>1. /\ tree'.front + tree'.next = tree.front + tree.next /\ tree'.fan = tree.fan
        /\ tree'.state \in {"ready", "partial", "running"}
    <3>1. /\ tree'.front + tree'.next = tree.front - 1 + tree.next + 1 /\ tree'.fan = tree.fan
          /\ tree'.state \in {"ready", "partial", tree.state}
      <4>1. 1 \in Nat /\ 1 <= tree.front /\ tree' = Advanced(1, 1, FALSE)
        BY <1>4
      <4> QED
        BY <4>1, RootsAdvanced
    <3>2. tree.front - 1 + tree.next + 1 = tree.front + tree.next
      BY DEF TreeInv
    <3> QED
      BY <1>4, <3>1, <3>2
  <2>2. KeptRoots = tree.front + tree.next /\ stage' = "merge"
    BY <1>0, <1>4 DEF KeptRoots, Stay, Leave, Go
  <2>3. tree'.front + tree'.next <= KeptRoots
    BY <2>1, <2>2 DEF TreeInv
  <2> QED
    BY <1>0, <1>4, <2>1, <2>2, <2>3, MergeOver, MergeGoesOn
<1>5. CASE tree.state = "running" /\ UNCHANGED tree /\ Go("count", stage, left, Min({tree.front, tree.fan}))
  <2>1. KeptRoots = tree.front + tree.next /\ stage' = "merge"
    BY <1>0, <1>5 DEF KeptRoots, Go
  <2>2. tree'.front + tree'.next <= KeptRoots
    BY <1>5, <2>1 DEF TreeInv
  <2> QED
    BY <1>0, <1>5, <2>1, <2>2, MergeGoesOn
<1>6. CASE Leave("synthesize")
  BY <1>0, <1>6, LeavesMerge DEF Leave, Go
<1> QED
  BY <1>1, <1>2, <1>3, <1>4, <1>5, <1>6 DEF MergeStep

\* _advance_merge_frontier: one group was reckoned with; the global rank ends the tree.
LEMMA MergeCompleted ==
  ASSUME TreeInv, TreeInv', ShapeInv, ~strained', CompleteMerge
  PROVE  NoMoreToDo
<1>1. PICK p \in 0 .. inputs :
        /\ tree' = Advanced(inputs, p, inputs = tree.width)
        /\ strained' = (strained \/ (p > 1 /\ inputs < tree.width))
  BY DEF CompleteMerge, Strains
<1>2. /\ stage = "merge" /\ stage' = "merge" /\ at = "output" /\ Sent /\ ~Sent'
      /\ records' = records /\ tree.state = "running"
  BY DEF CompleteMerge, NextBatch, Go, Sent, ShapeInv, PlaceInv, FrontierInv
<1>3. /\ inputs \in Nat /\ inputs <= tree.front /\ p \in Nat /\ tree.front \in Nat
      /\ tree.next \in Nat /\ tree.width \in Nat /\ tree.front + tree.next <= tree.width
  BY <1>2 DEF TreeInv
<1>4. /\ tree'.front + tree'.next = tree.front - inputs + tree.next + p
      /\ tree'.fan = tree.fan /\ tree'.state \in {"ready", "partial", "running"}
      /\ inputs = tree.width /\ inputs = tree.front => tree'.state = "ready"
  BY <1>1, <1>2, <1>3, RootsAdvanced
<1>5. CASE inputs = tree.width
  <2>1. inputs = tree.front
    BY <1>3, <1>5
  <2> QED
    BY <1>2, <1>4, <1>5, <2>1, MergeOver
<1>6. CASE inputs # tree.width
  <2>1. ~(p > 1 /\ inputs < tree.width)
    BY <1>1
  <2>2. p <= 1
    BY <1>3, <1>6, <2>1
  <2>3. KeptRoots = tree.front - inputs + tree.next + 1
    BY <1>2, <1>6 DEF KeptRoots, RootsAfterMerge
  <2>4. tree'.front + tree'.next <= KeptRoots
    BY <1>3, <1>4, <2>2, <2>3
  <2> QED
    BY <1>2, <1>4, <2>4, MergeOver, MergeGoesOn
<1> QED
  BY <1>5, <1>6

LEMMA SynthesisSteps ==
  ASSUME TreeInv, TreeInv', ShapeInv, SynthesizeStep \/ CompleteSynthesis
  PROVE  NoMoreToDo
<1>1. stage = "synthesize" /\ stage' = "synthesize" /\ at' \in {"count", "end"}
  BY DEF SynthesizeStep, CompleteSynthesis, Again, Go
<1>2. CASE at' = "end"
  BY <1>1, <1>2, SynthesisEnds
<1>3. CASE at' = "count"
  <2>1. at = "step" /\ records' = records /\ ~Sent /\ ~Sent'
    BY <1>3 DEF SynthesizeStep, CompleteSynthesis, Go, dataVars, Sent
  <2>2. KeptRoots' = 0 /\ KeptFinal' = KeptFinal /\ Counted = 0 /\ Counted' \in {0, 1}
    BY <1>1, <1>3, <2>1 DEF KeptRoots, KeptFinal, Counted
  <2> QED
    BY <2>2, NoRoots, KeptTypes DEF KeptTyped
<1> QED
  BY <1>1, <1>2, <1>3

\* The count, and a request that is made again.
LEMMA RequestSteps ==
  ASSUME TreeInv, TreeInv', ShapeInv, ~strained',
         CountCached \/ CountAnswer \/ AnswerFails \/ Repair
  PROVE  NoMoreToDo
<1>1. CASE Completing
  <2>1. /\ stage' = stage /\ tree' = tree /\ records' = records /\ inputs' = inputs
        /\ at \in {"count", "counting"} /\ at' = "infer" /\ ~Sent /\ ~Sent'
    BY <1>1 DEF CountCached, CountAnswer, AnswerFails, Repair, Strains, Keep, dataVars, Sent
  <2>2. /\ KeptFan' = KeptFan /\ KeptRoots' = KeptRoots /\ KeptFinal' = KeptFinal
    BY <2>1, SameToDo
  <2>3. Counted <= Counted'
    BY <1>1, <2>1 DEF Counted, Completing
  <2> QED
    BY <2>2, <2>3, FewerRoots, KeptTypes DEF KeptTyped, Roots
<1>2. CASE ~Completing
  <2>1. /\ stage \in {"extract", "link"} /\ stage' = stage /\ records' = records /\ ~Sent'
    BY <1>2 DEF CountCached, CountAnswer, AnswerFails, Repair, Keep, dataVars, Sent,
       Completing, ShapeInv, PlaceInv, FrontierInv
  <2> QED
    BY <2>1, BeforeMerge, AllRoots
<1> QED
  BY <1>1, <1>2

\* Batches that are split, given up or finished without a new record or group.
LEMMA BatchSteps ==
  ASSUME TreeInv, TreeInv', ShapeInv, ~strained', InputTooLarge \/ OutputRejected \/ CompleteLink
  PROVE  NoMoreToDo
<1>1. records' = records /\ at' \in {"step", "end"} /\ ~Sent'
  BY DEF InputTooLarge, OutputRejected, CompleteLink, NextBatch, Leave, Go, Sent
<1>2. CASE stage \in {"extract", "link"}
  <2>1. stage' = stage
    BY <1>2 DEF InputTooLarge, OutputRejected, CompleteLink, NextBatch, Leave, Go
  <2> QED
    BY <1>1, <1>2, <2>1, BeforeMerge, AllRoots
<1>3. CASE stage = "merge"
  <2>1. stage' = "synthesize" /\ at' = "step"
    BY <1>3 DEF InputTooLarge, OutputRejected, CompleteLink, Leave, Go, Strains
  <2> QED
    BY <1>1, <1>3, <2>1, LeavesMerge
<1>4. CASE stage = "synthesize"
  <2>1. stage' = "synthesize" /\ at' = "end"
    BY <1>4 DEF InputTooLarge, OutputRejected, CompleteLink, Go, Strains
  <2> QED
    BY <1>4, <2>1, SynthesisEnds
<1> QED
  BY <1>2, <1>3, <1>4 DEF ShapeInv, PlaceInv, FrontierInv

LEMMA StopSteps ==
  ASSUME TreeInv, TreeInv', ShapeInv, ~strained',
         \/ OtherStop \/ RecordOverrun \/ RefuseCount \/ \E t \in Sizes : RefuseInference(t)
  PROVE  NoMoreToDo
<1>1. (\E r \in {"limit", "usage_overrun", stop} : BudgetStop(r)) /\ strained' = strained
  BY DEF OtherStop, RecordOverrun, RefuseCount, RefuseInference, Refuse
<1> QED
  BY <1>1, BudgetStopLess

LEMMA StrainsUp ==
  ASSUME NEW b, Strains(b) PROVE strained => strained'
BY Zenon DEF Strains

\* ReserveInv is kept by every step.
LEMMA ReserveStep == TreeInv /\ SpentInv /\ ShapeInv /\ ReserveInv /\ [Next]_vars => ReserveInv'
<1> SUFFICES ASSUME TreeInv, SpentInv, ShapeInv, ReserveInv, [Next]_vars PROVE ReserveInv'
  OBVIOUS
<1>0. TreeInv'
  BY TreeStep
<1>1. ASSUME UNCHANGED vars PROVE ReserveInv'
  <2>1. /\ KeptFan' = KeptFan /\ KeptRoots' = KeptRoots /\ KeptFinal' = KeptFinal
        /\ Counted' = Counted /\ strained' = strained /\ UNCHANGED <<counterVars, journal>>
    BY <1>1 DEF vars, workVars, dataVars, journalVars, KeptFan, KeptRoots, KeptFinal, Counted,
       Completing, Sent, RootsAfterMerge
  <2> QED
    BY <2>1 DEF ReserveInv, Kept, KeptCalls, KeptLevels, Committed, Overrun, counterVars
<1>2. ASSUME RequestCancel \/ Resume PROVE ReserveInv'
  <2>1. /\ KeptFan' = KeptFan /\ KeptRoots' = KeptRoots /\ KeptFinal' = KeptFinal
        /\ Counted' = Counted /\ strained' = strained /\ UNCHANGED <<counterVars, journal>>
    BY <1>2 DEF RequestCancel, Resume, workVars, dataVars, journalVars, KeptFan, KeptRoots,
       KeptFinal, Counted, Completing, Sent, RootsAfterMerge
  <2> QED
    BY <2>1 DEF ReserveInv, Kept, KeptCalls, KeptLevels, Committed, Overrun, counterVars
<1>3. ASSUME UNCHANGED <<counterVars, journal>>, strained => strained', ~strained' => NoMoreToDo
      PROVE  ReserveInv'
  BY <1>0, <1>3, Eased
<1>4. ASSUME \/ Claim \/ RunEnds \/ SourcesStand \/ SourcesEdited
             \/ ExtractStep \/ SkipPreflight \/ LinkStep
      PROVE  ReserveInv'
  <2>1. UNCHANGED <<counterVars, journal>> /\ (strained => strained')
    <3>1. UNCHANGED <<counterVars, journal>>
      BY <1>4 DEF Claim, RunEnds, SourcesStand, SourcesEdited, ExtractStep, SkipPreflight,
         LinkStep, journalVars
    <3>2. strained => strained'
      BY StrainsUp, <1>4 DEF Claim, RunEnds, SourcesStand, SourcesEdited, ExtractStep, SkipPreflight,
         LinkStep, Completing
    <3> QED
      BY <3>1, <3>2
  <2> QED
    BY <1>0, <1>3, <1>4, <2>1, EarlySteps
<1>5. Resettled => UNCHANGED <<counterVars, journal>>
  BY DEF Resettled, Settle, journalVars
<1>6. ASSUME ReuseExtraction \/ CompleteExtraction PROVE ReserveInv'
  <2>1. UNCHANGED <<counterVars, journal>> /\ (strained => strained')
    BY <1>5, <1>6 DEF ReuseExtraction, CompleteExtraction, journalVars, Strains
  <2> QED
    BY <1>0, <1>3, <1>6, <2>1, ExtractionSteps
<1>7. ASSUME MergeStep \/ CompleteMerge PROVE ReserveInv'
  <2>1. UNCHANGED <<counterVars, journal>> /\ (strained => strained')
    <3>1. UNCHANGED <<counterVars, journal>>
      BY <1>5, <1>7 DEF MergeStep, CompleteMerge, journalVars
    <3>2. strained => strained'
      BY StrainsUp, <1>7 DEF MergeStep, CompleteMerge
    <3> QED
      BY <3>1, <3>2
  <2> QED
    BY <1>0, <1>3, <1>7, <2>1, MergeSteps, MergeCompleted
<1>8. ASSUME SynthesizeStep \/ CompleteSynthesis PROVE ReserveInv'
  <2>1. UNCHANGED <<counterVars, journal>> /\ (strained => strained')
    BY <1>5, <1>8 DEF SynthesizeStep, CompleteSynthesis, journalVars
  <2> QED
    BY <1>0, <1>3, <1>8, <2>1, SynthesisSteps
<1>9. ASSUME CountCached \/ CountAnswer \/ AnswerFails \/ Repair PROVE ReserveInv'
  <2>1. UNCHANGED <<counterVars, journal>> /\ (strained => strained')
    <3>1. UNCHANGED <<counterVars, journal>>
      BY <1>9 DEF CountCached, CountAnswer, AnswerFails, Repair, Settle, journalVars, SpentInv
    <3>2. strained => strained'
      BY StrainsUp, <1>9 DEF CountCached, CountAnswer, AnswerFails, Repair, Completing
    <3> QED
      BY <3>1, <3>2
  <2> QED
    BY <1>0, <1>3, <1>9, <2>1, RequestSteps
<1>10. ASSUME InputTooLarge \/ OutputRejected \/ CompleteLink PROVE ReserveInv'
  <2>1. UNCHANGED <<counterVars, journal>> /\ (strained => strained')
    <3>1. UNCHANGED <<counterVars, journal>>
      BY <1>5, <1>10 DEF InputTooLarge, OutputRejected, CompleteLink, journalVars
    <3>2. strained => strained'
      BY StrainsUp, <1>10 DEF InputTooLarge, OutputRejected, CompleteLink
    <3> QED
      BY <3>1, <3>2
  <2> QED
    BY <1>0, <1>3, <1>10, <2>1, BatchSteps
<1>11. ASSUME \/ OtherStop \/ RecordOverrun \/ RefuseCount \/ \E t \in Sizes : RefuseInference(t)
       PROVE  ReserveInv'
  <2>1. UNCHANGED <<counterVars, journal>> /\ (strained => strained')
    BY <1>11 DEF OtherStop, RecordOverrun, RefuseCount, RefuseInference, Refuse, journalVars
  <2> QED
    BY <1>0, <1>3, <1>11, <2>1, StopSteps
<1>12. ASSUME ReserveCount PROVE ReserveInv'
  BY <1>0, <1>12, CountReserve
<1>13. ASSUME \E t \in Sizes : ReserveInference(t) PROVE ReserveInv'
  BY <1>0, <1>13, InferenceReserve DEF ReserveInv
<1>14. ASSUME \E u \in Usage \cup {NoUsage}, o \in BOOLEAN : Answer(u, o) PROVE ReserveInv'
  BY <1>14, AnswerReserve
<1> QED
  BY <1>1, <1>2, <1>4, <1>6, <1>7, <1>8, <1>9, <1>10, <1>11, <1>12, <1>13, <1>14 DEF Next

-----------------------------------------------------------------------------
(* The positions of the worker                                             *)

\* An overrun stays in the journal.
LEMMA OverrunStays == SpentInv /\ [Next]_vars => (Overrun => Overrun')
<1> SUFFICES ASSUME SpentInv, [Next]_vars, Overrun PROVE Overrun'
  OBVIOUS
<1>1. ASSUME journal' = journal PROVE Overrun'
  BY <1>1 DEF Overrun
<1>2. Resettled => journal' = journal
  BY DEF Resettled, Settle, journalVars
<1>3. ASSUME \E t \in Sizes : ReserveInference(t) PROVE Overrun'
  <2>1. PICK a \in DOMAIN journal : a.over
    BY DEF Overrun
  <2>2. a \in DOMAIN journal'
    BY <1>3, <2>1 DEF ReserveInference, B!BagAdd
  <2> QED
    BY <2>1, <2>2 DEF Overrun
<1>4. ASSUME \E u \in Usage \cup {NoUsage}, o \in BOOLEAN : Answer(u, o) PROVE Overrun'
  <2>1. PICK u \in Usage \cup {NoUsage}, o \in BOOLEAN : Answer(u, o)
    BY <1>4
  <2>2. Settle(u, o) /\ mine.over = FALSE
    BY <2>1 DEF Answer, SpentInv
  <2> QED
    BY <2>2, OverrunRemains
<1>5. AnswerFails => journal' = journal
  BY DEF AnswerFails, Settle, journalVars, SpentInv
<1>6. \/ UNCHANGED vars \/ Claim \/ RequestCancel \/ RunEnds \/ Resume \/ SourcesStand
      \/ SourcesEdited \/ ExtractStep \/ SkipPreflight \/ ReuseExtraction \/ LinkStep
      \/ MergeStep \/ SynthesizeStep \/ OtherStop
      => journal' = journal
  BY DEF vars, journalVars, Claim, RequestCancel, RunEnds, Resume, SourcesStand, SourcesEdited,
     ExtractStep, SkipPreflight, ReuseExtraction, LinkStep, MergeStep, SynthesizeStep, OtherStop
<1>7. \/ CountCached \/ ReserveCount \/ RefuseCount \/ CountAnswer \/ InputTooLarge
      \/ \E t \in Sizes : RefuseInference(t)
      \/ RecordOverrun \/ Repair \/ OutputRejected
      => journal' = journal
  BY DEF journalVars, CountCached, ReserveCount, RefuseCount, Refuse, CountAnswer, InputTooLarge,
     RefuseInference, RecordOverrun, Repair, OutputRejected
<1>8. CompleteExtraction \/ CompleteLink \/ CompleteMerge \/ CompleteSynthesis => journal' = journal
  BY <1>2 DEF CompleteExtraction, CompleteLink, CompleteMerge, CompleteSynthesis
<1> QED
  BY <1>1, <1>3, <1>4, <1>5, <1>6, <1>7, <1>8 DEF Next

LEMMA OverrunStep ==
  TreeInv /\ SpentInv /\ ReserveInv /\ OverrunInv /\ [Next]_vars => OverrunInv'
<1> SUFFICES ASSUME TreeInv, SpentInv, ReserveInv, OverrunInv, [Next]_vars,
                    at' = "overran" \/ stop' = "usage_overrun"
             PROVE  Overrun'
  BY DEF OverrunInv
<1>1. Overrun => Overrun'
  BY OverrunStays
<1>2. ASSUME at' = at, stop' = stop PROVE Overrun'
  BY <1>1, <1>2 DEF OverrunInv
<1>3. ASSUME at' # "overran", stop' = stop PROVE Overrun'
  BY <1>1, <1>3 DEF OverrunInv
<1>4. ASSUME NEW r \in {"limit", stop}, BudgetStop(r) PROVE Overrun'
  <2>1. at' # "overran" /\ stop' = r
    BY <1>4 DEF BudgetStop, NextBatch, Leave, Go
  <2> QED
    BY <1>1, <1>4, <2>1 DEF OverrunInv
<1>5. ASSUME \E u \in Usage \cup {NoUsage}, o \in BOOLEAN : Answer(u, o) PROVE Overrun'
  <2>1. PICK u \in Usage \cup {NoUsage}, o \in BOOLEAN : Answer(u, o)
    BY <1>5
  <2>2. o => Overrun'
    BY <2>1, AnswerReserve
  <2>3. CASE ~o
    BY <1>1, <2>1, <2>3 DEF Answer, OverrunInv
  <2> QED
    BY <2>2, <2>3
<1>6. ASSUME RecordOverrun PROVE Overrun'
  BY <1>1, <1>6 DEF RecordOverrun, OverrunInv
<1>7. ASSUME OtherStop \/ RefuseCount \/ \E t \in Sizes : RefuseInference(t) PROVE Overrun'
  BY <1>4, <1>7 DEF OtherStop, RefuseCount, RefuseInference, Refuse
<1>8. ASSUME ReuseExtraction \/ CompleteExtraction PROVE Overrun'
  <2>1. PICK k \in 0 .. MaxRecords + 1 : AddRecords(k)
    BY <1>8 DEF ReuseExtraction, CompleteExtraction
  <2> QED
    BY <1>3, <1>4, <2>1 DEF AddRecords, NextBatch, Go
<1>9. ASSUME UNCHANGED vars \/ RequestCancel \/ Resume PROVE Overrun'
  BY <1>2, <1>9 DEF vars, RequestCancel, Resume, workVars
<1>10. ASSUME \/ Claim \/ RunEnds \/ SourcesStand \/ SourcesEdited \/ ExtractStep
              \/ SkipPreflight \/ LinkStep \/ MergeStep \/ SynthesizeStep
       PROVE  Overrun'
  BY <1>3, <1>10 DEF Claim, RunEnds, SourcesStand, SourcesEdited, ExtractStep, SkipPreflight,
     LinkStep, MergeStep, SynthesizeStep, Stay, Again, Leave, NextBatch, Go
<1>11. ASSUME \/ CountCached \/ ReserveCount \/ CountAnswer \/ InputTooLarge
              \/ \E t \in Sizes : ReserveInference(t)
       PROVE  Overrun'
  BY <1>3, <1>11 DEF CountCached, ReserveCount, CountAnswer, InputTooLarge, ReserveInference,
     Keep, Leave, NextBatch, Go
<1>12. ASSUME \/ AnswerFails \/ CompleteLink \/ CompleteMerge \/ CompleteSynthesis
              \/ Repair \/ OutputRejected
       PROVE  Overrun'
  BY <1>3, <1>12 DEF AnswerFails, CompleteLink, CompleteMerge, CompleteSynthesis, Repair,
     OutputRejected, Leave, NextBatch, Go
<1> QED
  BY <1>5, <1>6, <1>7, <1>8, <1>9, <1>10, <1>11, <1>12 DEF Next

LEMMA PlaceStep == PlaceInv /\ [Next]_vars => PlaceInv'
<1> SUFFICES ASSUME PlaceInv, [Next]_vars PROVE PlaceInv'
  OBVIOUS
<1> USE DEF PlaceInv, rowVars
<1>1. ASSUME UNCHANGED vars PROVE PlaceInv'
  BY <1>1 DEF vars, workVars
<1>2. ASSUME Claim \/ RequestCancel \/ RunEnds \/ Resume \/ SourcesStand \/ SourcesEdited
      PROVE  PlaceInv'
  BY <1>2 DEF Claim, RequestCancel, RunEnds, Resume, SourcesStand, SourcesEdited, Fenced, Go, workVars
<1>3. ASSUME stage' \in {"extract", "link", "merge", "synthesize"}, status = "running",
             status' = status, at' \notin {"none", "select"}
      PROVE  PlaceInv'
  BY <1>3
<1>4. ASSUME NEW r, BudgetStop(r), status = "running", status' = status PROVE PlaceInv'
  <2>1. /\ stage' \in {"extract", "link", "merge", "synthesize"}
        /\ at' \notin {"none", "select"}
    BY <1>4 DEF BudgetStop, NextBatch, Leave, Go
  <2> QED
    BY <1>3, <1>4, <2>1
<1>5. ASSUME OtherStop \/ RecordOverrun \/ RefuseCount \/ \E t \in Sizes : RefuseInference(t)
      PROVE  PlaceInv'
  BY <1>4, <1>5 DEF OtherStop, RecordOverrun, RefuseCount, RefuseInference, Refuse, Fenced
<1>6. ASSUME ReuseExtraction \/ CompleteExtraction PROVE PlaceInv'
  <2>1. PICK k \in 0 .. MaxRecords + 1 : AddRecords(k)
    BY <1>6 DEF ReuseExtraction, CompleteExtraction
  <2>2. status = "running" /\ status' = status
    BY <1>6 DEF ReuseExtraction, CompleteExtraction, Resettled, Fenced
  <2> QED
    BY <1>3, <1>4, <2>1, <2>2 DEF AddRecords, NextBatch, Go
<1>7. ASSUME ExtractStep \/ SkipPreflight \/ LinkStep \/ MergeStep \/ SynthesizeStep
      PROVE  PlaceInv'
  BY <1>3, <1>7 DEF ExtractStep, SkipPreflight, LinkStep, MergeStep, SynthesizeStep, Fenced, Stay,
     Again, Leave, NextBatch, Go
<1>8. ASSUME \/ CountCached \/ ReserveCount \/ CountAnswer \/ InputTooLarge
             \/ \E t \in Sizes : ReserveInference(t)
      PROVE  PlaceInv'
  BY <1>8 DEF CountCached, ReserveCount, CountAnswer, InputTooLarge, ReserveInference,
     Fenced, Keep, Leave, NextBatch, Go
<1>9. ASSUME AnswerFails \/ \E u \in Usage \cup {NoUsage}, o \in BOOLEAN : Answer(u, o)
      PROVE  PlaceInv'
  BY <1>9 DEF AnswerFails, Answer
<1>10. ASSUME CompleteLink \/ CompleteMerge \/ CompleteSynthesis \/ Repair \/ OutputRejected
       PROVE  PlaceInv'
  BY <1>10 DEF CompleteLink, CompleteMerge, CompleteSynthesis, Repair, OutputRejected, Resettled,
     Fenced, Leave, NextBatch, Go
<1> QED
  BY <1>1, <1>2, <1>5, <1>6, <1>7, <1>8, <1>9, <1>10 DEF Next

\* The tree and the records stay; whoever enters extraction or linking comes from one of
\* them; the worker makes a step next, or goes on with the request in hand.
LEMMA FrontierKept ==
  ASSUME TreeInv, FrontierInv, UNCHANGED <<tree, records>>,
         ~Completing' /\ tree.state # "none" => strained',
         \/ stage' = "merge" /\ at' = "step"
         \/ stage' = "synthesize" /\ at' \in {"step", "end"}
         \/ ~Completing'
         \/ at \notin {"step", "end"} /\ UNCHANGED <<stage, inputs>>
  PROVE  FrontierInv'
BY DEF FrontierInv, Completing

LEMMA FrontierStopped ==
  ASSUME TreeInv, FrontierInv, UNCHANGED records, tree.state = "running", StopTree,
         stage' \in {"merge", "synthesize"}, at' = "step"
  PROVE  FrontierInv'
<1>1. tree'.state = "partial"
  BY DEF TreeInv, StopTree
<1> QED
  BY <1>1 DEF FrontierInv, Completing

LEMMA FrontierBudgetStop ==
  ASSUME TreeInv, PlaceInv, FrontierInv, NEW r, BudgetStop(r), strained' = strained \/ stage = "extract",
         strained => strained'
  PROVE  FrontierInv'
<1>1. records' = records
  BY DEF BudgetStop
<1>2. CASE UNCHANGED tree
  <2>1. \/ stage' = "merge" /\ at' = "step"
        \/ stage' = "synthesize" /\ at' \in {"step", "end"}
        \/ ~Completing'
    BY <1>2 DEF BudgetStop, PlaceInv, NextBatch, Leave, Go, Completing
  <2>2. ~Completing' => ~Completing
    BY <1>2 DEF BudgetStop, PlaceInv, NextBatch, Leave, Go, Completing
  <2>3. ~Completing' /\ tree.state # "none" => strained'
    BY <2>2 DEF FrontierInv
  <2> QED
    BY <1>1, <1>2, <2>1, <2>3, FrontierKept
<1>3. CASE MayStopTree /\ stage = "merge" /\ Leave("synthesize")
  BY <1>1, <1>3, FrontierStopped DEF MayStopTree, Leave, Go
<1> QED
  BY <1>2, <1>3 DEF BudgetStop

LEMMA FrontierAddRecords ==
  ASSUME TreeInv, PlaceInv, FrontierInv, NEW k \in Nat, AddRecords(k), stage = "extract",
         strained => strained'
  PROVE  FrontierInv'
<1>1. CASE records + k <= MaxRecords
  <2>1. records' = records + k /\ tree' = tree /\ stage' = "extract"
    BY <1>1 DEF AddRecords, NextBatch, Go
  <2>2. records \in Nat /\ tree.state # "none" => strained'
    BY DEF FrontierInv, Completing, TreeInv
  <2> QED
    BY <2>1, <2>2 DEF FrontierInv, Completing, TreeInv
<1>2. CASE ~(records + k <= MaxRecords)
  BY <1>2, FrontierBudgetStop DEF AddRecords
<1> QED
  BY <1>1, <1>2

LEMMA FrontierMerge ==
  ASSUME TreeInv, FrontierInv, MergeStep PROVE FrontierInv'
<1>0. stage = "merge" /\ records' = records /\ records \in Nat
  BY DEF MergeStep, TreeInv
<1>1. CASE Stay /\ StartTree
  <2>1. stage' = "merge" /\ at' = "step" /\ tree'.front = records
        /\ (tree'.state = "running" => records # 0)
    BY <1>0, <1>1 DEF Stay, Leave, Go, StartTree, Frontier
  <2> QED
    BY <1>0, <2>1 DEF FrontierInv, Completing
<1>2. CASE Stay /\ tree' = [tree EXCEPT !.state = "ready"]
  <2>1. stage' = "merge" /\ at' = "step" /\ tree'.state = "ready"
    BY <1>0, <1>2 DEF Stay, Leave, Go, TreeInv
  <2> QED
    BY <1>0, <2>1 DEF FrontierInv, Completing
<1>3. CASE tree.state = "running" /\ Stay /\ StopTree
  BY <1>0, <1>3, FrontierStopped DEF Stay, Leave, Go
<1>4. CASE tree.state = "running" /\ tree.front = 1 /\ Stay /\ tree' = Advanced(1, 1, FALSE)
  <2>1. stage' = "merge" /\ at' = "step" /\ records >= 1
    BY <1>0, <1>4 DEF Stay, Leave, Go, FrontierInv
  <2>2. tree'.state = "running" => tree'.front >= 1
    <3>1. 1 \in Nat /\ 1 <= tree.front /\ tree' = Advanced(1, 1, FALSE)
      BY <1>4
    <3> QED
      BY <3>1, RootsAdvanced
  <2> QED
    BY <1>0, <2>1, <2>2 DEF FrontierInv, Completing
<1>5. CASE /\ tree.state = "running" /\ tree.front # 1 /\ UNCHANGED tree
           /\ Go("count", stage, left, Min({tree.front, tree.fan}))
  <2>1. tree.front \in Nat /\ tree.fan \in Nat /\ tree.fan >= 2 /\ tree.front >= 1
    BY <1>5, Constants DEF TreeInv, FrontierInv
  <2>2. inputs' >= 2 /\ stage' = "merge" /\ at' = "count"
    BY <1>0, <1>5, <2>1, MinOfTwo DEF Go
  <2> QED
    BY <1>0, <1>5, <2>2 DEF FrontierInv, Completing
<1>6. CASE Leave("synthesize") /\ UNCHANGED tree
  BY <1>0, <1>6, FrontierKept DEF Leave, Go, Completing
<1> QED
  BY <1>1, <1>2, <1>3, <1>4, <1>5, <1>6 DEF MergeStep

LEMMA FrontierCompleted ==
  ASSUME TreeInv, FrontierInv, CompleteMerge PROVE FrontierInv'
<1>1. PICK p \in 0 .. inputs : tree' = Advanced(inputs, p, inputs = tree.width)
  BY DEF CompleteMerge
<1>2. /\ stage = "merge" /\ stage' = "merge" /\ at' = "step" /\ records' = records
      /\ tree.state = "running" /\ records >= 1
  BY DEF CompleteMerge, NextBatch, Go, FrontierInv
<1>3. inputs \in Nat /\ inputs <= tree.front /\ p \in Nat
  BY <1>2 DEF TreeInv
<1>4. tree'.state = "running" => tree'.front >= 1
  BY <1>1, <1>3, RootsAdvanced
<1> QED
  BY <1>2, <1>4 DEF FrontierInv, Completing

LEMMA FrontierBatches ==
  ASSUME TreeInv, PlaceInv, FrontierInv, InputTooLarge \/ OutputRejected \/ CompleteLink,
         strained => strained'
  PROVE  FrontierInv'
<1>1. records' = records /\ at' \in {"step", "end"}
  BY DEF InputTooLarge, OutputRejected, CompleteLink, NextBatch, Leave, Go
<1>2. CASE stage \in {"extract", "link"}
  <2>1. stage' = stage /\ tree' = tree
    BY <1>2 DEF InputTooLarge, OutputRejected, CompleteLink, NextBatch, Leave, Go
  <2> QED
    BY <1>1, <1>2, <2>1 DEF FrontierInv, Completing
<1>3. CASE stage = "merge" /\ StopTree /\ Leave("synthesize")
  <2>1. stage' = "synthesize" /\ at' = "step"
    BY <1>3 DEF Leave, Go
  <2>2. at # "step"
    BY DEF InputTooLarge, OutputRejected, CompleteLink
  <2>3. tree.state = "running"
    BY <1>3, <2>2 DEF FrontierInv
  <2> QED
    BY <1>1, <1>3, <2>1, <2>3, FrontierStopped
<1>4. CASE stage = "merge" /\ NextBatch /\ tree' = [tree EXCEPT !.fan = Max({2, inputs \div 2})]
  <2>1. tree'.state = tree.state /\ tree'.front = tree.front
    BY <1>4 DEF TreeInv
  <2>2. stage' = "merge" /\ at' = "step"
    BY <1>4 DEF NextBatch, Go
  <2> QED
    BY <1>1, <1>4, <2>1, <2>2 DEF FrontierInv, Completing
<1>5. CASE stage = "synthesize"
  <2>1. stage' = "synthesize" /\ tree' = tree
    BY <1>5 DEF InputTooLarge, OutputRejected, CompleteLink, Go, NextBatch
  <2> QED
    BY <1>1, <1>5, <2>1 DEF FrontierInv, Completing
<1> QED
  BY <1>2, <1>3, <1>4, <1>5 DEF PlaceInv, InputTooLarge, OutputRejected, CompleteLink

\* FrontierInv is kept by every step.
LEMMA FrontierStep == TreeInv /\ PlaceInv /\ FrontierInv /\ [Next]_vars => FrontierInv'
<1> SUFFICES ASSUME TreeInv, PlaceInv, FrontierInv, [Next]_vars PROVE FrontierInv'
  OBVIOUS
<1> USE DEF dataVars
<1>1. ASSUME UNCHANGED vars \/ RequestCancel \/ Resume PROVE FrontierInv'
  BY <1>1 DEF vars, workVars, RequestCancel, Resume, FrontierInv, Completing
<1>2. ASSUME Claim \/ SourcesStand PROVE FrontierInv'
  <2>1. UNCHANGED <<tree, records, strained>> /\ stage' = "extract" /\ stage = "extract"
    BY <1>2 DEF Claim, SourcesStand, Go, PlaceInv
  <2> QED
    BY <2>1 DEF FrontierInv, Completing
<1>3. ASSUME RunEnds PROVE FrontierInv'
  <2>1. UNCHANGED <<tree, records>> /\ stage' = "extract" /\ Strains(Completing)
    BY <1>3 DEF RunEnds, Go
  <2>2. Completing \/ strained => strained'
    BY <2>1, Zenon DEF Strains
  <2> QED
    BY <2>1, <2>2 DEF FrontierInv, Completing
<1>4. ASSUME SourcesEdited PROVE FrontierInv'
  <2>1. tree'.state = "none" /\ stage' = "extract"
    BY <1>4 DEF SourcesEdited, NoTree, Frontier, Go
  <2> QED
    BY <2>1 DEF FrontierInv, Completing
<1>5. ASSUME ExtractStep \/ SkipPreflight PROVE FrontierInv'
  <2>1. UNCHANGED <<tree, records, strained>> /\ stage' \in {"extract", "link"} /\ stage = "extract"
    BY <1>5 DEF ExtractStep, SkipPreflight, Preflight, Again, Leave, NextBatch, Go
  <2> QED
    BY <2>1 DEF FrontierInv, Completing
<1>6. ASSUME LinkStep PROVE FrontierInv'
  <2>1. /\ UNCHANGED <<tree, records, strained>> /\ stage = "link"
        /\ stage' = "link" \/ (stage' = "merge" /\ at' = "step")
    BY <1>6 DEF LinkStep, Again, Leave, Go
  <2> QED
    BY <2>1 DEF FrontierInv, Completing
<1>7. ASSUME ReuseExtraction \/ CompleteExtraction PROVE FrontierInv'
  <2>1. PICK k \in 0 .. MaxRecords + 1 : AddRecords(k)
    BY <1>7 DEF ReuseExtraction, CompleteExtraction
  <2>2. stage = "extract" /\ k \in Nat
    BY <1>7, Constants DEF ReuseExtraction, CompleteExtraction, Limits
  <2>3. strained => strained'
    BY <1>7, StrainsUp DEF ReuseExtraction, CompleteExtraction
  <2> QED
    BY <2>1, <2>2, <2>3, FrontierAddRecords
<1>8. ASSUME MergeStep PROVE FrontierInv'
  BY <1>8, FrontierMerge
<1>9. ASSUME SynthesizeStep PROVE FrontierInv'
  <2>1. /\ UNCHANGED <<tree, records>> /\ stage' = "synthesize" /\ records \in Nat
        /\ at' = "end" \/ (at' = "count" /\ records > 0)
    BY <1>9 DEF SynthesizeStep, Again, Go, TreeInv
  <2> QED
    BY <2>1 DEF FrontierInv, Completing
<1>10. ASSUME OtherStop \/ RecordOverrun \/ RefuseCount \/ \E t \in Sizes : RefuseInference(t)
       PROVE  FrontierInv'
  <2>1. (\E r \in {"limit", "usage_overrun", stop} : BudgetStop(r)) /\ strained' = strained
    BY <1>10 DEF OtherStop, RecordOverrun, RefuseCount, RefuseInference, Refuse
  <2> QED
    BY <2>1, FrontierBudgetStop
<1>11. ASSUME CountCached \/ ReserveCount \/ CountAnswer \/ AnswerFails \/ Repair
       PROVE  FrontierInv'
  <2>1. /\ UNCHANGED <<tree, records, stage, inputs>> /\ at \notin {"step", "end"}
    BY <1>11 DEF CountCached, ReserveCount, CountAnswer, AnswerFails, Repair, Keep
  <2>2. strained => strained'
    BY <1>11, StrainsUp DEF CountCached, ReserveCount, CountAnswer, AnswerFails, Repair
  <2> QED
    BY <2>1, <2>2 DEF FrontierInv, Completing
<1>12. ASSUME InputTooLarge \/ OutputRejected \/ CompleteLink PROVE FrontierInv'
  <2>1. strained => strained'
    BY <1>12, StrainsUp DEF InputTooLarge, OutputRejected, CompleteLink
  <2> QED
    BY <1>12, <2>1, FrontierBatches
<1>13. ASSUME \E t \in Sizes : ReserveInference(t) PROVE FrontierInv'
  <2>1. /\ UNCHANGED <<tree, records, stage, inputs>> /\ at \notin {"step", "end"}
        /\ strained' = (~Completing /\ tree.state # "none")
    BY <1>13 DEF ReserveInference
  <2>2. ~Completing /\ tree.state # "none" => strained'
    BY <2>1, Zenon
  <2> QED
    BY <2>1, <2>2 DEF FrontierInv, Completing
<1>14. ASSUME \E u \in Usage \cup {NoUsage}, o \in BOOLEAN : Answer(u, o) PROVE FrontierInv'
  <2>1. /\ UNCHANGED <<tree, records, stage, inputs, strained>> /\ at \notin {"step", "end"}
    BY <1>14 DEF Answer
  <2> QED
    BY <2>1 DEF FrontierInv, Completing
<1>15. ASSUME CompleteMerge PROVE FrontierInv'
  BY <1>15, FrontierCompleted
<1>16. ASSUME CompleteSynthesis PROVE FrontierInv'
  <2>1. UNCHANGED <<tree, records>> /\ stage' = "synthesize" /\ at' = "end"
    BY <1>16 DEF CompleteSynthesis, Go
  <2> QED
    BY <2>1 DEF FrontierInv, Completing
<1> QED
  BY <1>1, <1>2, <1>3, <1>4, <1>5, <1>6, <1>7, <1>8, <1>9, <1>10, <1>11, <1>12, <1>13, <1>14,
     <1>15, <1>16 DEF Next

-----------------------------------------------------------------------------
(* The reserve is enough                                                   *)

BudgetInv == TreeInv /\ SpentInv /\ ShapeInv /\ ReserveInv

LEMMA InitBudget == Init => BudgetInv
<1> SUFFICES ASSUME Init PROVE BudgetInv
  OBVIOUS
<1>1. TreeInv /\ SpentInv
  BY InitTree, InitSpent
<1>2. ShapeInv
  BY DEF Init, ShapeInv, PlaceInv, OverrunInv, FrontierInv, NoTree, Frontier, Completing
<1>3. /\ KeptFan = FanIn /\ KeptRoots = 0 /\ KeptFinal = 0 /\ Counted = 0 /\ Committed = 0
      /\ calls = 0 /\ requests = 0
  BY DEF Init, KeptFan, KeptRoots, KeptFinal, Counted, Completing, Sent, Committed
<1>4. KeptCalls = 0 /\ KeptLevels = 0
  BY <1>1, <1>3, KeptTypes, TreeFacts DEF KeptTyped, KeptCalls, KeptLevels
<1>5. Kept
  BY <1>3, <1>4, BudgetAssumption DEF Kept, BudgetAssumption
<1> QED
  BY <1>1, <1>2, <1>5 DEF BudgetInv, ReserveInv

LEMMA BudgetStep == BudgetInv /\ [Next]_vars => BudgetInv'
BY TreeStep, SpentStep, PlaceStep, OverrunStep, FrontierStep, ReserveStep DEF BudgetInv, ShapeInv

\* The next request of a merge: it and the tree it leaves are within what is kept.
LEMMA MergeAffordable ==
  ASSUME BudgetInv, Kept, WithinReserve, stage = "merge", at \in {"count", "infer"}
  PROVE  /\ TreeDepth[Fan][TreeRoots] <= MaxDepth
         /\ 1 + Merges <= KeptCalls /\ Final = 1 /\ KeptFinal = 1
<1>1. TreeInv /\ ShapeInv
  BY DEF BudgetInv
<1>2. /\ inputs >= 2 /\ inputs \in Nat /\ inputs <= tree.front /\ records >= 1 /\ records \in Nat
      /\ tree.front \in Nat /\ tree.next \in Nat
  BY <1>1 DEF ShapeInv, FrontierInv, TreeInv
<1>3. KeptRoots = tree.front + tree.next /\ KeptFan = tree.fan /\ Fan = tree.fan
  BY <1>1, RootsBefore DEF Fan, Sent
<1>4. TreeRoots \in 1 .. KeptRoots
  BY <1>2, <1>3 DEF TreeRoots, RootsAfterMerge
<1>5. KeptRoots \in Roots /\ KeptFan \in 2 .. FanIn
  BY <1>1, KeptTypes DEF KeptTyped
<1>6. TreeRoots \in 0 .. KeptRoots /\ TreeRoots \in Roots
  BY <1>4, <1>5, Constants DEF Roots, Limits
<1>7. TreeDepth[Fan][TreeRoots] <= KeptLevels /\ TreeDepth[Fan][TreeRoots] \in Nat /\ KeptLevels \in Nat
  BY <1>3, <1>5, <1>6, TreeFacts DEF KeptLevels
<1>8. TreeDepth[Fan][TreeRoots] <= MaxDepth
  <2>1. KeptLevels <= MaxDepth
    BY DEF Kept
  <2> QED
    BY <1>7, <2>1, BudgetAssumption DEF BudgetAssumption
<1>9. 1 + Merges <= KeptCalls
  BY <1>3 DEF WithinReserve, KeptCalls
<1>10. Final = 1 /\ KeptFinal = 1
  BY <1>2, <1>4 DEF Final, KeptFinal
<1> QED
  BY <1>8, <1>9, <1>10

LEMMA SynthesisAffordable ==
  ASSUME BudgetInv, stage = "synthesize", at \in {"count", "infer"}
  PROVE  /\ TreeDepth[Fan][TreeRoots] = 0 /\ Merges = 0 /\ KeptCalls = 0
         /\ Final = 0 /\ KeptFinal = 1
<1>1. TreeInv /\ ShapeInv
  BY DEF BudgetInv
<1>2. TreeRoots = 0 /\ KeptRoots = 0 /\ Fan = FanIn
  BY DEF TreeRoots, KeptRoots, Fan
<1>3. records >= 1 /\ records \in Nat
  BY <1>1 DEF ShapeInv, FrontierInv, TreeInv
<1>4. Final = 0 /\ KeptFinal = 1
  BY <1>2, <1>3 DEF Final, KeptFinal, Sent
<1>5. KeptRoots \in Roots /\ KeptFan \in 2 .. FanIn /\ FanIn \in 2 .. FanIn
  BY <1>1, KeptTypes, Constants DEF KeptTyped
<1> QED
  BY <1>2, <1>4, <1>5, TreeFacts DEF Merges, KeptCalls

\* Either way the next request and what follows it are within what is kept.
LEMMA NextAffordable ==
  ASSUME BudgetInv, Kept, WithinReserve, Completing, at \in {"count", "infer"}
  PROVE  /\ TreeDepth[Fan][TreeRoots] <= MaxDepth
         /\ Merges + Final + 1 <= KeptCalls + KeptFinal
         /\ \A t \in Sizes : Committed + t + Merges * MergeCost + Final * FinalCost <= MaxTokens
<1>1. /\ Merges \in Nat /\ Final \in Nat /\ KeptCalls \in Nat /\ KeptFinal \in Nat
      /\ MergeCost \in Nat /\ FinalCost \in Nat /\ Committed \in Int /\ MaxTokens \in Nat
      /\ MaxDepth \in Nat
  BY ReserveIsNat, KeptTypes, Constants, BudgetAssumption
     DEF BudgetInv, KeptTyped, SpentInv, Committed, Limits, BudgetAssumption
<1>2. Committed + KeptCalls * MergeCost + KeptFinal * FinalCost <= MaxTokens
  BY DEF Kept
<1>3. CASE stage = "merge"
  <2>1. /\ TreeDepth[Fan][TreeRoots] <= MaxDepth
        /\ 1 + Merges <= KeptCalls /\ Final = 1 /\ KeptFinal = 1
    BY <1>3, MergeAffordable
  <2>2. ASSUME NEW t \in Sizes
        PROVE  Committed + t + Merges * MergeCost + Final * FinalCost <= MaxTokens
    <3>1. t \in Nat /\ t <= MergeCost
      BY <1>1, <1>3 DEF Sizes
    <3>2. (1 + Merges) * MergeCost <= KeptCalls * MergeCost /\ KeptCalls * MergeCost \in Nat
      BY <1>1, <2>1, LessTimes
    <3>3. (1 + Merges) * MergeCost = MergeCost + Merges * MergeCost /\ Merges * MergeCost \in Nat
      BY <1>1
    <3>4. KeptFinal * FinalCost = Final * FinalCost /\ Final * FinalCost \in Nat
      BY <1>1, <2>1
    <3> HIDE DEF Committed
    <3> QED
      BY <1>1, <1>2, <3>1, <3>2, <3>3, <3>4
  <2> QED
    BY <1>1, <2>1, <2>2
<1>4. CASE stage = "synthesize"
  <2>1. /\ TreeDepth[Fan][TreeRoots] = 0 /\ Merges = 0 /\ KeptCalls = 0
        /\ Final = 0 /\ KeptFinal = 1
    BY <1>4, SynthesisAffordable
  <2>2. ASSUME NEW t \in Sizes
        PROVE  Committed + t + Merges * MergeCost + Final * FinalCost <= MaxTokens
    <3>1. t \in Nat /\ t <= FinalCost
      BY <1>1, <1>4 DEF Sizes
    <3>2. Merges * MergeCost = 0 /\ Final * FinalCost = 0 /\ KeptCalls * MergeCost = 0
          /\ KeptFinal * FinalCost = FinalCost
      BY <1>1, <2>1
    <3> QED
      BY <1>1, <1>2, <3>1, <3>2
  <2> QED
    BY <1>1, <2>1, <2>2
<1> QED
  BY <1>3, <1>4 DEF Completing

\* The invariant is inductive.
LEMMA BudgetInductive == Spec => []BudgetInv
BY InitBudget, BudgetStep, PTL DEF Spec

LEMMA ReserveSuffices == BudgetInv => CompletionAffordable
<1> SUFFICES ASSUME BudgetInv, Completing, ~strained, ~Overrun, WithinReserve
             PROVE  /\ at = "count" => MayCount
                    /\ at = "infer" => \A t \in Sizes : MayInfer(t)
  BY DEF CompletionAffordable
<1>1. Kept /\ ~Stopped
  BY DEF BudgetInv, ReserveInv, ShapeInv, OverrunInv, Stopped
<1>2. /\ Merges \in Nat /\ Final \in Nat /\ KeptCalls \in Nat /\ KeptFinal \in Nat
      /\ calls \in Nat /\ requests \in Nat /\ MaxCalls \in Nat /\ MaxRequests \in Nat
      /\ Committed \in Int /\ MaxTokens \in Nat
      /\ Merges * MergeCost \in Nat /\ Final * FinalCost \in Nat
  BY ReserveIsNat, KeptTypes, Constants
     DEF BudgetInv, KeptTyped, SpentInv, Committed, Limits
<1>3. calls + KeptCalls + KeptFinal <= MaxCalls
  BY <1>1 DEF Kept
<1>4. requests + 2 * (KeptCalls + KeptFinal) <= MaxRequests + Counted
  BY <1>1 DEF Kept
<1>5. ASSUME at = "count" PROVE MayCount
  <2>1. Counted = 0
    BY <1>5 DEF Counted
  <2>2. /\ TreeDepth[Fan][TreeRoots] <= MaxDepth
        /\ Merges + Final + 1 <= KeptCalls + KeptFinal
        /\ \A t \in Sizes : Committed + t + Merges * MergeCost + Final * FinalCost <= MaxTokens
    BY <1>1, <1>5, NextAffordable
  <2>3. 1 \in Sizes
    BY BudgetAssumption DEF Sizes, BudgetAssumption
  <2>4. Committed + 1 + Merges * MergeCost + Final * FinalCost <= MaxTokens
    BY <2>2, <2>3
  <2>5. Committed < MaxTokens /\ Committed + 0 + Merges * MergeCost + Final * FinalCost <= MaxTokens
    BY <1>2, <2>4
  <2>6. calls + 0 + Merges + Final + 1 <= MaxCalls
    BY <1>2, <1>3, <2>2
  <2>7. requests + 1 + 2 * (Merges + Final) + 1 <= MaxRequests
    BY <1>2, <1>4, <2>1, <2>2
  <2> QED
    BY <1>1, <2>2, <2>5, <2>6, <2>7 DEF MayCount, Affordable
<1>6. ASSUME at = "infer", NEW t \in Sizes PROVE MayInfer(t)
  <2>1. Counted = 1
    BY <1>6 DEF Counted
  <2>2. /\ TreeDepth[Fan][TreeRoots] <= MaxDepth
        /\ Merges + Final + 1 <= KeptCalls + KeptFinal
        /\ Committed + t + Merges * MergeCost + Final * FinalCost <= MaxTokens
    BY <1>1, <1>6, NextAffordable
  <2>3. calls + 1 + Merges + Final + 0 <= MaxCalls
    BY <1>2, <1>3, <2>2
  <2>4. requests + 1 + 2 * (Merges + Final) + 0 <= MaxRequests
    BY <1>2, <1>4, <2>1, <2>2
  <2> QED
    BY <1>1, <2>2, <2>3, <2>4 DEF MayInfer, Affordable
<1> QED
  BY <1>5, <1>6

\* _completion_reserve_no_tx sets aside enough: whatever crashes, edits, lost answers and
\* refusals came before, a merge or synthesis that has taken no more than one attempt and one
\* group per request since the last reservation can afford the request it is about to
\* make, if that is within the reserve.
THEOREM CompletionPaidFor == Spec => []CompletionAffordable
BY BudgetInductive, ReserveSuffices, PTL

-----------------------------------------------------------------------------
(***************************************************************************)
(* Sums over finite sets.  A predicate on naturals is a set of them, so     *)
(* that induction needs no operator for a parameter.                        *)
(***************************************************************************)


\* g gives the sum of the weights over each set of elements.
AnyOf(s) == CHOOSE x \in s : TRUE
Sums(g, w) ==
  /\ g \in [SUBSET DOMAIN w -> Int]
  /\ \A s \in SUBSET DOMAIN w : g[s] = IF s = {} THEN 0 ELSE w[AnyOf(s)] + g[s \ {AnyOf(s)}]
IsTotal(n, w) == \E g : Sums(g, w) /\ n = g[DOMAIN w]
Weights(w) == IsFiniteSet(DOMAIN w) /\ w \in [DOMAIN w -> Int]

\* An induction on the number of elements, for a set of sets.
LEMMA SetsUpwards ==
  ASSUME NEW D, IsFiniteSet(D), NEW Good, {} \in Good,
         \A s \in SUBSET D : s # {} /\ (\A x \in s : s \ {x} \in Good) => s \in Good
  PROVE  \A s \in SUBSET D : s \in Good
<1> DEFINE Holds == {n \in Nat : \A s \in SUBSET D : Cardinality(s) = n => s \in Good}
<1>1. \A s \in SUBSET D : IsFiniteSet(s) /\ Cardinality(s) \in Nat /\ (Cardinality(s) = 0 <=> s = {})
  BY FS_Subset, FS_CardinalityType, FS_EmptySet
<1>2. 0 \in Holds
  BY <1>1
<1>3. ASSUME NEW n \in Holds PROVE n + 1 \in Holds
  <2>1. ASSUME NEW s \in SUBSET D, Cardinality(s) = n + 1 PROVE s \in Good
    <3>1. s # {}
      BY <1>1, <2>1
    <3>2. ASSUME NEW x \in s PROVE s \ {x} \in Good
      <4>1. s \ {x} \in SUBSET D /\ Cardinality(s \ {x}) = n
        BY <1>1, <2>1, FS_RemoveElement
      <4> QED
        BY <4>1
    <3> QED
      BY <3>1, <3>2
  <2> QED
    BY <2>1
<1> HIDE DEF Holds
<1>4. Holds = Nat
  <2>1. Holds \subseteq Nat
    BY DEF Holds
  <2> QED
    BY <1>2, <1>3, <2>1, Upwards
<1> QED
  BY <1>1, <1>4 DEF Holds

LEMMA SumExists ==
  ASSUME NEW w, Weights(w)
  PROVE  \E g : Sums(g, w)
<1> DEFINE D == DOMAIN w
           Up(n) == {s \in SUBSET D : Cardinality(s) <= n}
           Value(g, s) == IF s = {} THEN 0 ELSE w[AnyOf(s)] + g[s \ {AnyOf(s)}]
           Solves(g, n) == \A s \in Up(n) : g[s] = Value(g, s)
           Solved == {n \in Nat : \E g \in [SUBSET D -> Int] : Solves(g, n)}
<1>0. IsFiniteSet(D) /\ w \in [D -> Int]
  BY DEF Weights
<1>1. \A s \in SUBSET D : IsFiniteSet(s) /\ Cardinality(s) \in Nat /\ (Cardinality(s) = 0 <=> s = {})
  BY <1>0, FS_Subset, FS_CardinalityType, FS_EmptySet
<1>2. ASSUME NEW s \in SUBSET D, s # {}
      PROVE  AnyOf(s) \in s /\ s \ {AnyOf(s)} \in SUBSET D /\ Cardinality(s \ {AnyOf(s)}) = Cardinality(s) - 1
  <2>1. AnyOf(s) \in s
    BY <1>2 DEF AnyOf
  <2> QED
    BY <1>1, <2>1, FS_RemoveElement
<1>3. \A g \in [SUBSET D -> Int] : \A s \in SUBSET D : Value(g, s) \in Int
  <2> SUFFICES ASSUME NEW g \in [SUBSET D -> Int], NEW s \in SUBSET D, s # {}
               PROVE  w[AnyOf(s)] + g[s \ {AnyOf(s)}] \in Int
    OBVIOUS
  <2>1. AnyOf(s) \in D /\ s \ {AnyOf(s)} \in SUBSET D
    BY <1>2
  <2> QED
    BY <1>0, <2>1
<1>4. 0 \in Solved
  <2> DEFINE g == [s \in SUBSET D |-> 0]
  <2>1. g \in [SUBSET D -> Int]
    OBVIOUS
  <2>2. Solves(g, 0)
    BY <1>1
  <2> QED
    BY <2>1, <2>2
<1>5. ASSUME NEW n \in Solved PROVE n + 1 \in Solved
  <2>1. PICK g \in [SUBSET D -> Int] : Solves(g, n)
    OBVIOUS
  <2> DEFINE h == [s \in SUBSET D |-> Value(g, s)]
  <2>2. h \in [SUBSET D -> Int]
    BY <1>3
  <2>3. \A s \in Up(n) : h[s] = g[s]
    BY <2>1
  <2>4. ASSUME NEW s \in Up(n + 1) PROVE h[s] = Value(h, s)
    <3>1. CASE s = {}
      BY <3>1
    <3>2. CASE s # {}
      <4>1. s \ {AnyOf(s)} \in Up(n)
        BY <1>1, <1>2, <3>2
      <4> QED
        BY <2>3, <3>2, <4>1
    <3> QED
      BY <3>1, <3>2
  <2> HIDE DEF h
  <2>5. Solves(h, n + 1)
    BY <2>4
  <2>6. n + 1 \in Nat
    OBVIOUS
  <2> QED
    BY <2>2, <2>5, <2>6
<1> HIDE DEF Solved
<1>6. Solved = Nat
  <2>1. Solved \subseteq Nat
    BY DEF Solved
  <2> QED
    BY <1>4, <1>5, <2>1, Upwards
<1>7. PICK g \in [SUBSET D -> Int] : Solves(g, Cardinality(D))
  BY <1>1, <1>6 DEF Solved
<1>8. \A s \in SUBSET D : s \in Up(Cardinality(D))
  BY <1>0, <1>1, FS_Subset
<1> QED
  BY <1>7, <1>8 DEF Sums

\* Any element may be taken out first.
AnyOrder(g, w) == \A s \in SUBSET DOMAIN w : \A x \in s : g[s] = w[x] + g[s \ {x}]
LEMMA SumWithout ==
  ASSUME NEW w, Weights(w), NEW g, Sums(g, w)
  PROVE  AnyOrder(g, w)
<1> DEFINE D == DOMAIN w
           Good == {s \in SUBSET D : \A x \in s : g[s] = w[x] + g[s \ {x}]}
<1>1. {} \in Good
  OBVIOUS
<1>2. ASSUME NEW s \in SUBSET D, s # {}, \A x \in s : s \ {x} \in Good PROVE s \in Good
  <2> DEFINE y == AnyOf(s)
  <2>1. y \in s /\ g[s] = w[y] + g[s \ {y}]
    BY <1>2 DEF AnyOf, Sums
  <2>2. ASSUME NEW x \in s, x # y PROVE g[s] = w[x] + g[s \ {x}]
    <3>1. g[s \ {y}] = w[x] + g[(s \ {y}) \ {x}]
      BY <1>2, <2>1, <2>2
    <3>2. g[s \ {x}] = w[y] + g[(s \ {x}) \ {y}]
      BY <1>2, <2>1, <2>2
    <3>3. (s \ {y}) \ {x} = (s \ {x}) \ {y}
      OBVIOUS
    <3>4. w[x] \in Int /\ w[y] \in Int /\ g[(s \ {x}) \ {y}] \in Int
      BY <1>2, <2>1 DEF Weights, Sums
    <3>5. g[(s \ {y}) \ {x}] = g[(s \ {x}) \ {y}]
      BY <3>3, Zenon
    <3> DEFINE p == w[x]
               q == w[y]
               r == g[(s \ {x}) \ {y}]
    <3>6. g[s] = q + (p + r) /\ g[s \ {x}] = q + r
      BY <2>1, <3>1, <3>2, <3>5, Zenon
    <3>7. p \in Int /\ q \in Int /\ r \in Int
      BY <3>4
    <3> HIDE DEF p, q, r
    <3>8. g[s] = p + g[s \ {x}]
      BY <3>6, <3>7
    <3> QED
      BY <3>8 DEF p
  <2> QED
    BY <2>1, <2>2
<1> HIDE DEF Good
<1>3. \A s \in SUBSET D : s \in Good
  BY <1>1, <1>2, SetsUpwards DEF Weights
<1> QED
  BY <1>3 DEF Good, AnyOrder

\* Equal weights have equal sums.
SameOn(s, w, v) == s \in SUBSET DOMAIN w /\ s \in SUBSET DOMAIN v /\ \A x \in s : w[x] = v[x]
LEMMA SumsAgree ==
  ASSUME NEW w, Weights(w), NEW g, Sums(g, w),
         NEW v, Weights(v), NEW h, Sums(h, v),
         NEW s, SameOn(s, w, v)
  PROVE  g[s] = h[s]
<1> DEFINE Good == {t \in SUBSET s : g[t] = h[t]}
<1>1. {} \in Good
  BY DEF Sums
<1>2. ASSUME NEW t \in SUBSET s, t # {}, \A x \in t : t \ {x} \in Good PROVE t \in Good
  <2>1. AnyOf(t) \in t
    BY <1>2 DEF AnyOf
  <2>2. g[t] = w[AnyOf(t)] + g[t \ {AnyOf(t)}] /\ h[t] = v[AnyOf(t)] + h[t \ {AnyOf(t)}]
    BY <1>2 DEF Sums, SameOn
  <2> QED
    BY <1>2, <2>1, <2>2 DEF SameOn
<1> HIDE DEF Good
<1>3. IsFiniteSet(s)
  BY FS_Subset DEF Weights, SameOn
<1>4. \A t \in SUBSET s : t \in Good
  BY <1>1, <1>2, <1>3, SetsUpwards
<1> QED
  BY <1>4 DEF Good

\* The weight of an element, none if it is not there.
WeightAt(w, x) == IF x \in DOMAIN w THEN w[x] ELSE 0

\* One weight changes, is added or is taken out.
LEMMA TotalChanges ==
  ASSUME NEW w, Weights(w), NEW v, Weights(v), NEW n \in Int, IsTotal(n, w), NEW x,
         (DOMAIN w) \ {x} = (DOMAIN v) \ {x}, \A y \in (DOMAIN w) \ {x} : w[y] = v[y]
  PROVE  IsTotal(n + WeightAt(v, x) - WeightAt(w, x), v)
<1>1. PICK g : Sums(g, w) /\ n = g[DOMAIN w]
  BY DEF IsTotal
<1>2. PICK h : Sums(h, v)
  BY SumExists
<1> DEFINE rest == (DOMAIN w) \ {x}
<1>3. SameOn(rest, w, v)
  BY DEF SameOn
<1>4. g[rest] = h[rest] /\ g[rest] \in Int
  <2> HIDE DEF rest
  <2>1. g[rest] = h[rest]
    BY <1>1, <1>2, <1>3, SumsAgree
  <2> QED
    BY <1>1, <1>3, <2>1 DEF Sums, SameOn
<1>5. g[DOMAIN w] = WeightAt(w, x) + g[rest] /\ WeightAt(w, x) \in Int
  <2>1. CASE x \in DOMAIN w
    <3>1. g[DOMAIN w] = w[x] + g[(DOMAIN w) \ {x}]
      <4>1. AnyOrder(g, w)
        BY <1>1, SumWithout
      <4>2. DOMAIN w \in SUBSET DOMAIN w
        OBVIOUS
      <4> QED
        BY <2>1, <4>1, <4>2, Zenon DEF AnyOrder
    <3>2. w[x] \in Int
      BY <2>1 DEF Weights
    <3> QED
      BY <2>1, <3>1, <3>2 DEF WeightAt
  <2>2. CASE x \notin DOMAIN w
    <3>1. rest = DOMAIN w
      BY <2>2
    <3> QED
      BY <1>4, <2>2, <3>1 DEF WeightAt
  <2> QED
    BY <2>1, <2>2
<1>6. h[DOMAIN v] = WeightAt(v, x) + h[rest] /\ WeightAt(v, x) \in Int
  <2>1. CASE x \in DOMAIN v
    <3>1. h[DOMAIN v] = v[x] + h[(DOMAIN v) \ {x}]
      <4>1. AnyOrder(h, v)
        BY <1>2, SumWithout
      <4>2. DOMAIN v \in SUBSET DOMAIN v
        OBVIOUS
      <4> QED
        BY <2>1, <4>1, <4>2, Zenon DEF AnyOrder
    <3>2. v[x] \in Int
      BY <2>1 DEF Weights
    <3> QED
      BY <2>1, <3>1, <3>2 DEF WeightAt
  <2>2. CASE x \notin DOMAIN v
    <3>1. rest = DOMAIN v
      BY <2>2
    <3> QED
      BY <1>4, <2>2, <3>1 DEF WeightAt
  <2> QED
    BY <2>1, <2>2
<1>7. h[DOMAIN v] = n + WeightAt(v, x) - WeightAt(w, x)
  <2> HIDE DEF rest
  <2> QED
    BY <1>1, <1>4, <1>5, <1>6
<1> QED
  BY <1>2, <1>7 DEF IsTotal

LEMMA TotalUnique ==
  ASSUME NEW w, Weights(w), NEW n, IsTotal(n, w), NEW m, IsTotal(m, w)
  PROVE  n = m
<1>1. PICK g : Sums(g, w) /\ n = g[DOMAIN w]
  BY DEF IsTotal
<1>2. PICK h : Sums(h, w) /\ m = h[DOMAIN w]
  BY DEF IsTotal
<1>3. SameOn(DOMAIN w, w, w)
  BY DEF SameOn
<1> QED
  BY <1>1, <1>2, <1>3, SumsAgree

\* Folding the weights with + gives their sum.
LEMMA SumOfWeights ==
  ASSUME NEW w, Weights(w), NEW n, IsTotal(n, w)
  PROVE  SumFunction(w) = n
<1> DEFINE D == DOMAIN w
           Solution(g) == g = [s \in SUBSET D |-> IF s = {} THEN 0 ELSE w[AnyOf(s)] + g[s \ {AnyOf(s)}]]
           solution == CHOOSE g : Solution(g)
<1>1. SumFunction(w) = solution[D]
  BY DEF SumFunction, SumFunctionOnSet, FoldFunctionOnSet, MapThenFoldSet, AnyOf
<1>2. PICK h : Sums(h, w) /\ n = h[D]
  BY DEF IsTotal
<1>3. Solution(h)
  BY <1>2 DEF Sums
<1>4. Solution(solution)
  BY <1>3
<1> HIDE DEF solution
<1> DEFINE Good == {s \in SUBSET D : solution[s] = h[s]}
<1>5. {} \in Good
  BY <1>3, <1>4
<1>6. ASSUME NEW s \in SUBSET D, s # {}, \A x \in s : s \ {x} \in Good PROVE s \in Good
  <2>1. AnyOf(s) \in s
    BY <1>6 DEF AnyOf
  <2>2. solution[s] = w[AnyOf(s)] + solution[s \ {AnyOf(s)}]
    BY <1>4, <1>6
  <2>3. h[s] = w[AnyOf(s)] + h[s \ {AnyOf(s)}]
    BY <1>3, <1>6
  <2>4. solution[s \ {AnyOf(s)}] = h[s \ {AnyOf(s)}]
    BY <1>6, <2>1
  <2> QED
    BY <2>2, <2>3, <2>4
<1>7. IsFiniteSet(D)
  BY DEF Weights
<1> HIDE DEF Good
<1>8. \A s \in SUBSET D : s \in Good
  BY <1>5, <1>6, <1>7, SetsUpwards
<1> QED
  BY <1>1, <1>2, <1>8 DEF Good

-----------------------------------------------------------------------------
(* The receipts                                                            *)

\* What a receipt may be, and what it counts for in each of the counters.
Receipt == [tokens : Nat, usage : Nat \cup {NoUsage}, over : BOOLEAN]
Single == [a \in Receipt |-> 1]
Spent == [a \in Receipt |-> Tokens(a.usage)]
Asked == [a \in Receipt |-> a.tokens]
Pending == {a \in Receipt : a.usage = NoUsage}

IsJournal(j) ==
  IsFiniteSet(DOMAIN j) /\ DOMAIN j \subseteq Receipt /\ j \in [DOMAIN j -> Nat \ {0}]

\* A bag with a value for each of its elements that are among some.
Weighted(j, some, value) == [a \in DOMAIN j \cap some |-> j[a] * value[a]]
CountsAs(x, some, value) == IF x \in some THEN value[x] ELSE 0

LEMMA JournalWeights ==
  ASSUME NEW j, IsJournal(j), NEW some, NEW value, value \in [Receipt -> Int]
  PROVE  Weights(Weighted(j, some, value))
<1>1. DOMAIN Weighted(j, some, value) = DOMAIN j \cap some
  BY DEF Weighted
<1>2. IsFiniteSet(DOMAIN j \cap some)
  BY FS_Intersection DEF IsJournal
<1>3. \A a \in DOMAIN j \cap some : j[a] * value[a] \in Int
  BY DEF IsJournal
<1> QED
  BY <1>1, <1>2, <1>3 DEF Weights, Weighted

\* How often an element is there.
Times(j, x) == IF x \in DOMAIN j THEN j[x] ELSE 0

\* Two journals that differ by one element.
LEMMA JournalChanges ==
  ASSUME NEW j, IsJournal(j), NEW k, IsJournal(k), NEW x, x \in Receipt,
         (DOMAIN j) \ {x} = (DOMAIN k) \ {x}, \A y \in (DOMAIN j) \ {x} : j[y] = k[y],
         NEW d \in Int, Times(k, x) = Times(j, x) + d,
         NEW some, NEW value, value \in [Receipt -> Int],
         NEW n \in Int, IsTotal(n, Weighted(j, some, value))
  PROVE  IsTotal(n + d * CountsAs(x, some, value), Weighted(k, some, value))
<1> DEFINE w == Weighted(j, some, value)
           v == Weighted(k, some, value)
<1>1. Weights(w) /\ Weights(v)
  BY JournalWeights
<1>2. DOMAIN w = DOMAIN j \cap some /\ DOMAIN v = DOMAIN k \cap some
  BY DEF Weighted
<1>3. (DOMAIN w) \ {x} = (DOMAIN v) \ {x} /\ \A y \in (DOMAIN w) \ {x} : w[y] = v[y]
  BY <1>2 DEF Weighted
<1>4. CountsAs(x, some, value) \in Int /\ Times(j, x) \in Int /\ Times(k, x) \in Int
  BY DEF CountsAs, Times, IsJournal
<1>5. WeightAt(w, x) = Times(j, x) * CountsAs(x, some, value)
  <2>1. CASE x \in DOMAIN w
    <3>1. w[x] = j[x] * value[x]
      BY <1>2, <2>1 DEF Weighted
    <3> QED
      BY <1>2, <2>1, <3>1 DEF WeightAt, Times, CountsAs
  <2>2. CASE x \in DOMAIN j /\ x \notin some
    BY <1>2, <1>4, <2>2 DEF WeightAt, CountsAs
  <2>3. CASE x \notin DOMAIN j
    BY <1>2, <1>4, <2>3 DEF WeightAt, Times
  <2> QED
    BY <1>2, <2>1, <2>2, <2>3
<1>6. WeightAt(v, x) = Times(k, x) * CountsAs(x, some, value)
  <2>1. CASE x \in DOMAIN v
    <3>1. v[x] = k[x] * value[x]
      BY <1>2, <2>1 DEF Weighted
    <3> QED
      BY <1>2, <2>1, <3>1 DEF WeightAt, Times, CountsAs
  <2>2. CASE x \in DOMAIN k /\ x \notin some
    BY <1>2, <1>4, <2>2 DEF WeightAt, CountsAs
  <2>3. CASE x \notin DOMAIN k
    BY <1>2, <1>4, <2>3 DEF WeightAt, Times
  <2> QED
    BY <1>2, <2>1, <2>2, <2>3
<1>7. WeightAt(v, x) - WeightAt(w, x) = d * CountsAs(x, some, value)
  <2> DEFINE c == CountsAs(x, some, value)
             t == Times(j, x)
  <2>1. c \in Int /\ t \in Int
    BY <1>4
  <2>2. WeightAt(v, x) = (t + d) * c /\ WeightAt(w, x) = t * c
    BY <1>5, <1>6
  <2> HIDE DEF c, t
  <2>3. (t + d) * c = t * c + d * c /\ t * c \in Int /\ d * c \in Int
    BY <2>1
  <2>4. WeightAt(v, x) - WeightAt(w, x) = d * c
    BY <2>2, <2>3
  <2> QED
    BY <2>4 DEF c
<1>8. IsTotal(n + WeightAt(v, x) - WeightAt(w, x), v)
  <2> HIDE DEF w, v
  <2>1. IsTotal(n, w)
    BY DEF w
  <2> QED
    BY <1>1, <1>3, <2>1, TotalChanges
<1>9. n + WeightAt(v, x) - WeightAt(w, x) = n + d * CountsAs(x, some, value)
  BY <1>5, <1>6, <1>4, <1>7
<1> QED
  BY <1>8, <1>9

\* What BagAdd and BagRemove do to a journal.
LEMMA Added ==
  ASSUME NEW j, IsJournal(j), NEW x, x \in Receipt
  PROVE  LET k == B!BagAdd(j, x)
         IN  /\ IsJournal(k) /\ DOMAIN k = DOMAIN j \cup {x}
             /\ (DOMAIN j) \ {x} = (DOMAIN k) \ {x} /\ \A y \in (DOMAIN j) \ {x} : j[y] = k[y]
             /\ Times(k, x) = Times(j, x) + 1
<1> DEFINE k == B!BagAdd(j, x)
<1>1. DOMAIN k = DOMAIN j \cup {x}
  BY DEF B!BagAdd
<1>2. IsFiniteSet(DOMAIN k)
  BY <1>1, FS_AddElement DEF IsJournal
<1>3. \A y \in DOMAIN k : k[y] = IF y = x THEN Times(j, x) + 1 ELSE j[y]
  BY <1>1 DEF B!BagAdd, Times
<1>4. k = [y \in DOMAIN k |-> k[y]]
  BY DEF B!BagAdd
<1>5. Times(j, x) \in Nat
  BY DEF Times, IsJournal
<1>6. k \in [DOMAIN k -> Nat \ {0}]
  <2> HIDE DEF k
  <2> QED
    BY <1>1, <1>3, <1>4, <1>5 DEF IsJournal
<1> HIDE DEF k
<1>7. IsJournal(k)
  BY <1>1, <1>2, <1>6 DEF IsJournal
<1>8. Times(k, x) = Times(j, x) + 1
  BY <1>1, <1>3 DEF Times
<1>9. (DOMAIN j) \ {x} = (DOMAIN k) \ {x} /\ \A y \in (DOMAIN j) \ {x} : j[y] = k[y]
  BY <1>1, <1>3
<1> QED
  BY <1>1, <1>7, <1>8, <1>9 DEF k

LEMMA Removed ==
  ASSUME NEW j, IsJournal(j), NEW x \in DOMAIN j
  PROVE  LET k == B!BagRemove(j, x)
         IN  /\ IsJournal(k)
             /\ (DOMAIN j) \ {x} = (DOMAIN k) \ {x} /\ \A y \in (DOMAIN j) \ {x} : j[y] = k[y]
             /\ Times(k, x) = Times(j, x) + (-1)
<1> DEFINE k == B!BagRemove(j, x)
<1>1. DOMAIN k = IF j[x] = 1 THEN DOMAIN j \ {x} ELSE DOMAIN j
  BY DEF B!BagRemove
<1>2. IsFiniteSet(DOMAIN k)
  BY <1>1, FS_RemoveElement DEF IsJournal
<1>3. \A y \in DOMAIN k : k[y] = IF y = x THEN j[x] - 1 ELSE j[y]
  BY <1>1 DEF B!BagRemove
<1>4. k = [y \in DOMAIN k |-> k[y]]
  BY DEF B!BagRemove
<1>5. j[x] \in Nat \ {0}
  BY DEF IsJournal
<1>6. k \in [DOMAIN k -> Nat \ {0}]
  <2> HIDE DEF k
  <2>1. \A y \in DOMAIN k : k[y] \in Nat \ {0}
    BY <1>1, <1>3, <1>5 DEF IsJournal
  <2> QED
    BY <1>4, <2>1
<1> HIDE DEF k
<1>7. IsJournal(k)
  BY <1>1, <1>2, <1>6 DEF IsJournal
<1>8. Times(k, x) = Times(j, x) + (-1)
  BY <1>1, <1>3, <1>5 DEF Times
<1>9. (DOMAIN j) \ {x} = (DOMAIN k) \ {x} /\ \A y \in (DOMAIN j) \ {x} : j[y] = k[y]
  BY <1>1, <1>3
<1> QED
  BY <1>7, <1>8, <1>9 DEF k

\* The counters are what the receipts add up to, and the request under way has one.
JournalInv ==
  /\ IsJournal(journal) /\ counts \in Nat
  /\ calls \in Int /\ used \in Int /\ reserved \in Int /\ requests = calls + counts
  /\ IsTotal(calls, Weighted(journal, Receipt, Single))
  /\ IsTotal(used, Weighted(journal, Receipt, Spent))
  /\ IsTotal(reserved, Weighted(journal, Pending, Asked))
  /\ at = "inferring" => mine \in DOMAIN journal /\ mine.usage = NoUsage

LEMMA ValuesTyped ==
  /\ Single \in [Receipt -> Int] /\ Spent \in [Receipt -> Int] /\ Asked \in [Receipt -> Int]
<1>1. \A a \in Receipt : Tokens(a.usage) \in Int /\ a.tokens \in Int
  BY DEF Receipt, Tokens
<1> QED
  BY <1>1 DEF Single, Spent, Asked

LEMMA InitJournal == Init => JournalInv
<1> SUFFICES ASSUME Init PROVE JournalInv
  OBVIOUS
<1>1. DOMAIN journal = {} /\ journal \in [{} -> Nat \ {0}]
  BY DEF Init
<1>2. IsJournal(journal)
  BY <1>1, FS_EmptySet DEF IsJournal
<1>3. ASSUME NEW some, NEW value PROVE IsTotal(0, Weighted(journal, some, value))
  <2> DEFINE w == Weighted(journal, some, value)
             g == [s \in SUBSET {} |-> 0]
  <2>1. DOMAIN w = {}
    BY <1>1 DEF Weighted
  <2>2. Sums(g, w) /\ 0 = g[DOMAIN w]
    BY <2>1 DEF Sums
  <2> QED
    BY <2>2 DEF IsTotal
<1> QED
  BY <1>2, <1>3 DEF Init, JournalInv

\* Steps that neither spend nor settle.
LEMMA JournalSame ==
  ASSUME JournalInv, UNCHANGED <<counterVars, journalVars>>, at' # "inferring"
  PROVE  JournalInv'
BY DEF JournalInv, IsJournal, counterVars, journalVars

\* A new receipt counts one, and what is asked for is reserved.
LEMMA ReserveJournal ==
  ASSUME JournalInv, NEW t \in Sizes, ReserveInference(t) PROVE JournalInv'
<1> DEFINE k == B!BagAdd(journal, mine')
<1>1. /\ mine' = [tokens |-> t, usage |-> NoUsage, over |-> FALSE]
      /\ journal' = k /\ counts' = counts
      /\ calls' = calls + 1 /\ requests' = requests + 1 /\ reserved' = reserved + t /\ used' = used
  BY DEF ReserveInference
<1>2. mine' \in Receipt /\ mine' \in Pending /\ t \in Nat
  BY <1>1, Constants DEF Receipt, Pending, Sizes
<1>3. /\ CountsAs(mine', Receipt, Single) = 1
      /\ CountsAs(mine', Receipt, Spent) = 0
      /\ CountsAs(mine', Pending, Asked) = t
  BY <1>1, <1>2 DEF CountsAs, Single, Spent, Asked, Tokens
<1>4. IsJournal(journal)
  BY DEF JournalInv
<1>5. /\ IsJournal(k) /\ DOMAIN k = DOMAIN journal \cup {mine'}
      /\ (DOMAIN journal) \ {mine'} = (DOMAIN k) \ {mine'}
      /\ \A y \in (DOMAIN journal) \ {mine'} : journal[y] = k[y]
      /\ Times(k, mine') = Times(journal, mine') + 1
  BY <1>2, <1>4, Added
<1> HIDE DEF k
<1>6. ASSUME NEW some, NEW value, value \in [Receipt -> Int], NEW n \in Int,
             IsTotal(n, Weighted(journal, some, value))
      PROVE  IsTotal(n + 1 * CountsAs(mine', some, value), Weighted(k, some, value))
  BY <1>2, <1>4, <1>5, <1>6, JournalChanges
<1>7. /\ calls \in Int /\ used \in Int /\ reserved \in Int
      /\ IsTotal(calls, Weighted(journal, Receipt, Single))
      /\ IsTotal(used, Weighted(journal, Receipt, Spent))
      /\ IsTotal(reserved, Weighted(journal, Pending, Asked))
  BY DEF JournalInv
<1>8. /\ IsTotal(calls + 1 * 1, Weighted(k, Receipt, Single))
      /\ IsTotal(used + 1 * 0, Weighted(k, Receipt, Spent))
      /\ IsTotal(reserved + 1 * t, Weighted(k, Pending, Asked))
  BY <1>3, <1>6, <1>7, ValuesTyped
<1>9. calls + 1 * 1 = calls' /\ used + 1 * 0 = used' /\ reserved + 1 * t = reserved'
  BY <1>1, <1>2, <1>7
<1>10. mine' \in DOMAIN journal' /\ mine'.usage = NoUsage
  BY <1>1, <1>5
<1>11. calls' \in Int /\ used' \in Int /\ reserved' \in Int /\ requests' = calls' + counts' /\ counts' \in Nat
  BY <1>1, <1>2 DEF JournalInv
<1>12. /\ IsTotal(calls', Weighted(journal', Receipt, Single))
       /\ IsTotal(used', Weighted(journal', Receipt, Spent))
       /\ IsTotal(reserved', Weighted(journal', Pending, Asked))
  BY <1>1, <1>8, <1>9
<1> QED
  BY <1>1, <1>5, <1>10, <1>11, <1>12 DEF JournalInv

\* The receipt of an answer takes the place of the one without usage.
LEMMA SettleJournal ==
  ASSUME JournalInv, NEW u \in Usage, NEW o \in BOOLEAN, at = "inferring", Settle(u, o),
         at' # "inferring"
  PROVE  JournalInv'
<1> DEFINE rest == B!BagRemove(journal, mine)
           k == B!BagAdd(rest, Settled(u, o))
<1>1. /\ mine \in DOMAIN journal /\ mine.usage = NoUsage /\ mine \in Receipt
      /\ IsJournal(journal)
  BY DEF JournalInv, IsJournal
<1>2. u \in Nat /\ u # NoUsage
  BY Constants DEF Usage
<1>3. /\ journal' = k /\ used' = used + u /\ reserved' = reserved - mine.tokens
      /\ calls' = calls /\ requests' = requests /\ counts' = counts
  BY <1>1, <1>2 DEF Settle
<1>4. /\ Settled(u, o) \in Receipt /\ Settled(u, o).usage = u
  BY <1>1, <1>2 DEF Settled, Receipt
<1>5. mine.tokens \in Nat /\ mine \in Pending /\ Settled(u, o) \notin Pending
  BY <1>1, <1>2, <1>4 DEF Receipt, Pending
<1>6. /\ CountsAs(mine, Receipt, Single) = 1 /\ CountsAs(Settled(u, o), Receipt, Single) = 1
      /\ CountsAs(mine, Receipt, Spent) = 0 /\ CountsAs(Settled(u, o), Receipt, Spent) = u
      /\ CountsAs(mine, Pending, Asked) = mine.tokens
      /\ CountsAs(Settled(u, o), Pending, Asked) = 0
  BY <1>1, <1>2, <1>4, <1>5 DEF CountsAs, Single, Spent, Asked, Tokens
<1>7. /\ IsJournal(rest)
      /\ (DOMAIN journal) \ {mine} = (DOMAIN rest) \ {mine}
      /\ \A y \in (DOMAIN journal) \ {mine} : journal[y] = rest[y]
      /\ Times(rest, mine) = Times(journal, mine) + (-1)
  BY <1>1, Removed
<1> HIDE DEF rest
<1>8. /\ IsJournal(k)
      /\ (DOMAIN rest) \ {Settled(u, o)} = (DOMAIN k) \ {Settled(u, o)}
      /\ \A y \in (DOMAIN rest) \ {Settled(u, o)} : rest[y] = k[y]
      /\ Times(k, Settled(u, o)) = Times(rest, Settled(u, o)) + 1
  BY <1>4, <1>7, Added
<1> HIDE DEF k
<1>9. ASSUME NEW some, NEW value, value \in [Receipt -> Int], NEW n \in Int,
             IsTotal(n, Weighted(journal, some, value))
      PROVE  IsTotal(n - CountsAs(mine, some, value) + CountsAs(Settled(u, o), some, value),
                     Weighted(k, some, value))
  <2> DEFINE m == n + (-1) * CountsAs(mine, some, value)
  <2>1. CountsAs(mine, some, value) \in Int /\ CountsAs(Settled(u, o), some, value) \in Int
    BY <1>1, <1>4, <1>9 DEF CountsAs
  <2>2. IsTotal(m, Weighted(rest, some, value))
    BY <1>1, <1>7, <1>9, JournalChanges
  <2>3. m \in Int /\ m = n - CountsAs(mine, some, value)
    BY <2>1
  <2> HIDE DEF m
  <2>4. IsTotal(m + 1 * CountsAs(Settled(u, o), some, value), Weighted(k, some, value))
    BY <1>4, <1>7, <1>8, <1>9, <2>2, <2>3, JournalChanges
  <2>5. m + 1 * CountsAs(Settled(u, o), some, value)
          = n - CountsAs(mine, some, value) + CountsAs(Settled(u, o), some, value)
    BY <2>1, <2>3
  <2> QED
    BY <2>4, <2>5
<1>10. /\ calls \in Int /\ used \in Int /\ reserved \in Int
       /\ IsTotal(calls, Weighted(journal, Receipt, Single))
       /\ IsTotal(used, Weighted(journal, Receipt, Spent))
       /\ IsTotal(reserved, Weighted(journal, Pending, Asked))
  BY DEF JournalInv
<1>11. /\ IsTotal(calls - 1 + 1, Weighted(k, Receipt, Single))
       /\ IsTotal(used - 0 + u, Weighted(k, Receipt, Spent))
       /\ IsTotal(reserved - mine.tokens + 0, Weighted(k, Pending, Asked))
  BY <1>6, <1>9, <1>10, ValuesTyped
<1>12. calls - 1 + 1 = calls' /\ used - 0 + u = used' /\ reserved - mine.tokens + 0 = reserved'
  BY <1>2, <1>3, <1>5, <1>10
<1>13. calls' \in Int /\ used' \in Int /\ reserved' \in Int /\ requests' = calls' + counts' /\ counts' \in Nat
  BY <1>2, <1>3, <1>5 DEF JournalInv
<1>14. /\ IsTotal(calls', Weighted(journal', Receipt, Single))
       /\ IsTotal(used', Weighted(journal', Receipt, Spent))
       /\ IsTotal(reserved', Weighted(journal', Pending, Asked))
  BY <1>3, <1>11, <1>12
<1> QED
  BY <1>3, <1>8, <1>13, <1>14 DEF JournalInv

LEMMA AnswerJournal ==
  ASSUME JournalInv, NEW u \in Usage \cup {NoUsage}, NEW o \in BOOLEAN, Answer(u, o)
  PROVE  JournalInv'
<1>1. at = "inferring" /\ Settle(u, o) /\ at' # "inferring" /\ mine.usage = NoUsage
  BY DEF Answer, JournalInv
<1>2. CASE u = NoUsage
  BY <1>1, <1>2, JournalSame DEF Settle
<1>3. CASE u # NoUsage
  BY <1>1, <1>3, SettleJournal
<1> QED
  BY <1>2, <1>3

LEMMA JournalStep == JournalInv /\ [Next]_vars => JournalInv'
<1> SUFFICES ASSUME JournalInv, [Next]_vars PROVE JournalInv'
  OBVIOUS
<1>1. ASSUME UNCHANGED vars PROVE JournalInv'
  BY <1>1 DEF vars, workVars, counterVars, journalVars, JournalInv, IsJournal
<1>2. ASSUME Claim \/ RunEnds \/ SourcesStand \/ SourcesEdited PROVE JournalInv'
  BY <1>2, JournalSame DEF Claim, RunEnds, SourcesStand, SourcesEdited, Go
<1>3. ASSUME RequestCancel \/ Resume PROVE JournalInv'
  BY <1>3 DEF RequestCancel, Resume, workVars, counterVars, journalVars, JournalInv, IsJournal
<1>4. ASSUME ExtractStep \/ SkipPreflight \/ LinkStep \/ SynthesizeStep PROVE JournalInv'
  BY <1>4, JournalSame DEF ExtractStep, SkipPreflight, LinkStep, SynthesizeStep, Again, Leave,
     NextBatch, Go
<1>5. ASSUME NEW r, BudgetStop(r) PROVE at' # "inferring"
  BY <1>5 DEF BudgetStop, NextBatch, Leave, Go
<1>6. ASSUME OtherStop \/ RecordOverrun PROVE JournalInv'
  BY <1>5, <1>6, JournalSame DEF OtherStop, RecordOverrun
<1>7. ASSUME RefuseCount \/ \E t \in Sizes : RefuseInference(t) PROVE JournalInv'
  BY <1>5, <1>7, JournalSame DEF RefuseCount, RefuseInference, Refuse
<1>8. ASSUME NEW k, AddRecords(k) PROVE at' # "inferring"
  BY <1>5, <1>8 DEF AddRecords, NextBatch, Go
<1>9. ASSUME ReuseExtraction PROVE JournalInv'
  BY <1>8, <1>9, JournalSame DEF ReuseExtraction
<1>10. ASSUME MergeStep PROVE JournalInv'
  <2>1. at' \in {"step", "count"}
    BY <1>10 DEF MergeStep, Stay, Leave, Go
  <2> QED
    BY <1>10, <2>1, JournalSame DEF MergeStep
<1>11. ASSUME CountCached \/ CountAnswer PROVE JournalInv'
  BY <1>11, JournalSame DEF CountCached, CountAnswer, Keep
<1>12. ASSUME ReserveCount PROVE JournalInv'
  BY <1>12 DEF ReserveCount, Keep, JournalInv, IsJournal
<1>13. ASSUME InputTooLarge PROVE JournalInv'
  <2>1. at' \in {"step", "end"}
    BY <1>13 DEF InputTooLarge, NextBatch, Leave, Go
  <2> QED
    BY <1>13, <2>1, JournalSame DEF InputTooLarge
<1>14. ASSUME \E t \in Sizes : ReserveInference(t) PROVE JournalInv'
  BY <1>14, ReserveJournal
<1>15. ASSUME \E u \in Usage \cup {NoUsage}, o \in BOOLEAN : Answer(u, o) PROVE JournalInv'
  BY <1>15, AnswerJournal
<1>16. ASSUME AnswerFails PROVE JournalInv'
  <2>1. UNCHANGED <<counterVars, journalVars>> /\ at' = "infer"
    BY <1>16 DEF AnswerFails, Settle, JournalInv
  <2> QED
    BY <2>1, JournalSame
<1>17. ASSUME Resettled PROVE UNCHANGED <<counterVars, journalVars>>
  BY <1>17 DEF Resettled, Settle
<1>18. ASSUME CompleteExtraction PROVE JournalInv'
  BY <1>8, <1>17, <1>18, JournalSame DEF CompleteExtraction
<1>19. ASSUME CompleteLink \/ CompleteMerge \/ CompleteSynthesis PROVE JournalInv'
  BY <1>17, <1>19, JournalSame DEF CompleteLink, CompleteMerge, CompleteSynthesis, NextBatch, Go
<1>20. ASSUME Repair \/ OutputRejected PROVE JournalInv'
  <2>1. at' \in {"count", "step", "end"}
    BY <1>20 DEF Repair, OutputRejected, NextBatch, Leave, Go
  <2> QED
    BY <1>20, <2>1, JournalSame DEF Repair, OutputRejected
<1> QED
  BY <1>1, <1>2, <1>3, <1>4, <1>6, <1>7, <1>9, <1>10, <1>11, <1>12, <1>13, <1>14, <1>15, <1>16,
     <1>18, <1>19, <1>20 DEF Next

LEMMA JournalMatches == JournalInv => CountersMatch
<1> SUFFICES ASSUME JournalInv PROVE CountersMatch
  OBVIOUS
<1>1. /\ Weights(Weighted(journal, Receipt, Single)) /\ Weights(Weighted(journal, Receipt, Spent))
      /\ Weights(Weighted(journal, Pending, Asked))
  BY JournalWeights, ValuesTyped DEF JournalInv
<1>2. /\ SumFunction(Weighted(journal, Receipt, Single)) = calls
      /\ SumFunction(Weighted(journal, Receipt, Spent)) = used
      /\ SumFunction(Weighted(journal, Pending, Asked)) = reserved
  BY <1>1, SumOfWeights DEF JournalInv
<1>3. DOMAIN journal \subseteq Receipt /\ journal \in [DOMAIN journal -> Nat \ {0}]
  BY DEF JournalInv, IsJournal
<1>4. Weighted(journal, Receipt, Single) = journal
  <2>1. DOMAIN journal \cap Receipt = DOMAIN journal
    BY <1>3
  <2>2. \A a \in DOMAIN journal : journal[a] * Single[a] = journal[a]
    BY <1>3 DEF Single
  <2>3. journal = [a \in DOMAIN journal |-> journal[a]]
    BY <1>3
  <2> QED
    BY <2>1, <2>2, <2>3 DEF Weighted
<1>5. Weighted(journal, Receipt, Spent) = [a \in DOMAIN journal |-> journal[a] * Tokens(a.usage)]
  <2>1. DOMAIN journal \cap Receipt = DOMAIN journal
    BY <1>3
  <2>2. \A a \in DOMAIN journal : Spent[a] = Tokens(a.usage)
    BY <1>3 DEF Spent
  <2> QED
    BY <2>1, <2>2 DEF Weighted
<1>6. Weighted(journal, Pending, Asked) = [a \in Unsettled |-> journal[a] * a.tokens]
  <2>1. DOMAIN journal \cap Pending = Unsettled
    BY <1>3 DEF Pending, Unsettled
  <2>2. \A a \in Unsettled : Asked[a] = a.tokens
    BY <1>3 DEF Asked, Unsettled
  <2> QED
    BY <2>1, <2>2 DEF Weighted
<1> QED
  BY <1>2, <1>4, <1>5, <1>6 DEF CountersMatch, JournalInv

\* The counters of the row (llm_calls, provider_requests, used_tokens, reserved_tokens)
\* are what its receipts add up to, over all runs, whichever requests were never answered and
\* however often a receipt was entered.
THEOREM CountersAddUp == Spec => []CountersMatch
BY InitJournal, JournalStep, JournalMatches, PTL DEF Spec
-----------------------------------------------------------------------------
(* Types                                                                   *)

FlagTypes ==
  /\ status \in {"queued", "running", "stopped", "over"} /\ cancel \in BOOLEAN
  /\ runs \in 1 .. MaxRuns
  /\ stop \in {"none", "limit", "usage_overrun"}
  /\ result \in {"none", "fallback", "final"}
  /\ links \in BOOLEAN /\ strained \in BOOLEAN
  /\ at \in {"none", "select", "step", "count", "counting", "infer", "inferring",
             "overran", "output", "end"}

\* The batches left of an iteration are among those that are open, and the preflight.
BatchInv ==
  /\ open \in Nat /\ open <= MaxBatches /\ left \in Nat /\ left <= MaxBatches + 1
  /\ stage = "extract" => left <= open + 1
  /\ stage = "extract" /\ at \notin {"none", "select", "step", "end"} => left >= 1
  /\ stage = "extract" /\ at \in {"inferring", "overran", "output"} => left <= open

\* No request is made at the last level.
DepthInv ==
  /\ tree.depth <= MaxDepth
  /\ stage = "merge" /\ at # "step" => tree.depth < MaxDepth

ReceiptInv ==
  /\ mine \in Attempt \cup {NoAttempt} /\ DOMAIN journal \subseteq Attempt
  /\ at = "inferring" => mine \in Attempt

LEMMA Bounds == MaxDepth \in Nat /\ MaxBatches \in Nat /\ MaxBatches >= 1 /\ MaxRuns \in Nat /\ MaxRuns >= 1
BY BudgetAssumption DEF BudgetAssumption

LEMMA StopKeeps ==
  ASSUME FlagTypes, BatchInv, DepthInv, TreeInv, PlaceInv, NEW r \in {"none", "limit", "usage_overrun"}, BudgetStop(r)
  PROVE  /\ stop' \in {"none", "limit", "usage_overrun"} /\ result' \in {"none", "fallback", "final"}
         /\ links' = links /\ at' \in {"step", "end"} /\ mine' = NoAttempt
         /\ BatchInv' /\ DepthInv'
<1>1. /\ stop' \in {"none", "limit", "usage_overrun"} /\ result' \in {"none", "fallback", "final"}
      /\ links' = links /\ at' \in {"step", "end"} /\ mine' = NoAttempt
  BY DEF BudgetStop, FlagTypes, NextBatch, Leave, Go
<1>2. BatchInv'
  <2>1. CASE stage = "extract" /\ left > 0 /\ NextBatch
    <3>1. left' = left - 1 /\ open' = open /\ stage' = "extract" /\ at' = "step"
      BY <2>1 DEF BudgetStop, NextBatch, Go
    <3> QED
      BY <2>1, <3>1, Bounds DEF BatchInv
  <2>2. CASE ~(stage = "extract" /\ left > 0 /\ NextBatch)
    <3>1. left' = left /\ open' = open /\ stage' # "extract"
      BY <2>2 DEF BudgetStop, Leave, Go
    <3> QED
      BY <3>1 DEF BatchInv
  <2> QED
    BY <2>1, <2>2
<1>3. DepthInv'
  <2>1. tree'.depth = tree.depth
    BY DEF BudgetStop, MayStopTree, StopTree, TreeInv
  <2>2. stage' = "merge" => at' = "step"
    BY DEF BudgetStop, NextBatch, Leave, Go
  <2> QED
    BY <2>1, <2>2 DEF DepthInv
<1> QED
  BY <1>1, <1>2, <1>3

\* Steps that leave the batches and the tree alone.
LEMMA BatchSame ==
  ASSUME BatchInv, UNCHANGED <<open, left>>, stage' # "extract" \/ at' \in {"none", "select", "step", "end"},
         stage' = "extract" => stage = "extract"
  PROVE  BatchInv'
BY DEF BatchInv

LEMMA DepthSame ==
  ASSUME DepthInv, UNCHANGED tree, stage' = "merge" => at' = "step" \/ (stage = "merge" /\ at # "step")
  PROVE  DepthInv'
BY DEF DepthInv

LEMMA StrainsBoolean == ASSUME NEW b, Strains(b) PROVE strained' \in BOOLEAN
BY DEF Strains

LEMMA FlagStep ==
  FlagTypes /\ BatchInv /\ DepthInv /\ TreeInv /\ PlaceInv /\ [Next]_vars => FlagTypes'
<1> SUFFICES ASSUME FlagTypes, BatchInv, DepthInv, TreeInv, PlaceInv, [Next]_vars PROVE FlagTypes'
  OBVIOUS
<1> USE DEF FlagTypes, rowVars, dataVars
<1>1. ASSUME UNCHANGED vars PROVE FlagTypes'
  BY <1>1 DEF vars, workVars
<1>2. ASSUME Claim \/ RequestCancel \/ Resume \/ SourcesStand PROVE FlagTypes'
  <2>1. CASE Claim \/ SourcesStand
    BY <2>1 DEF Claim, SourcesStand, Go
  <2>2. CASE RequestCancel
    BY <2>2 DEF RequestCancel, workVars
  <2>3. CASE Resume
    <3>1. runs' \in 1 .. MaxRuns
      BY <2>3, Bounds DEF Resume
    <3> QED
      BY <2>3, <3>1 DEF Resume, workVars
  <2> QED
    BY <1>2, <2>1, <2>2, <2>3
<1>3. ASSUME RunEnds \/ SourcesEdited PROVE FlagTypes'
  <2>1. strained' \in BOOLEAN
    BY <1>3, StrainsBoolean DEF RunEnds, SourcesEdited
  <2> QED
    BY <1>3, <2>1 DEF RunEnds, SourcesEdited, Go
<1>4. ASSUME ExtractStep \/ SkipPreflight \/ LinkStep \/ MergeStep \/ SynthesizeStep PROVE FlagTypes'
  BY <1>4 DEF ExtractStep, SkipPreflight, LinkStep, MergeStep, SynthesizeStep, Stay, Again, Leave, NextBatch, Go
<1>5. ASSUME OtherStop \/ RecordOverrun \/ RefuseCount \/ \E t \in Sizes : RefuseInference(t)
      PROVE  FlagTypes'
  <2>1. (\E r \in {"none", "limit", "usage_overrun"} : BudgetStop(r)) /\ UNCHANGED <<rowVars, strained>>
    BY <1>5 DEF OtherStop, RecordOverrun, RefuseCount, RefuseInference, Refuse
  <2>2. /\ stop' \in {"none", "limit", "usage_overrun"} /\ result' \in {"none", "fallback", "final"}
        /\ links' = links /\ at' \in {"step", "end"}
    BY <2>1, StopKeeps
  <2> QED
    BY <2>1, <2>2
<1>6. ASSUME ReuseExtraction \/ CompleteExtraction PROVE FlagTypes'
  <2>1. PICK k \in 0 .. MaxRecords + 1 : AddRecords(k)
    BY <1>6 DEF ReuseExtraction, CompleteExtraction
  <2>2. UNCHANGED rowVars /\ strained' \in BOOLEAN
    BY <1>6, StrainsBoolean DEF ReuseExtraction, CompleteExtraction, Resettled
  <2>3. CASE records + k <= MaxRecords
    BY <2>1, <2>2, <2>3 DEF AddRecords, NextBatch, Go
  <2>4. CASE ~(records + k <= MaxRecords)
    BY <2>1, <2>2, <2>4, StopKeeps DEF AddRecords
  <2> QED
    BY <2>3, <2>4
<1>7. ASSUME CountCached \/ ReserveCount \/ CountAnswer \/ Repair \/ AnswerFails PROVE FlagTypes'
  <2>1. strained' \in BOOLEAN
    BY <1>7, StrainsBoolean DEF CountCached, ReserveCount, CountAnswer, Repair, AnswerFails
  <2> QED
    BY <1>7, <2>1 DEF CountCached, ReserveCount, CountAnswer, Repair, AnswerFails, Keep
<1>8. ASSUME \E t \in Sizes : ReserveInference(t) PROVE FlagTypes'
  <2>1. strained' \in BOOLEAN
    BY <1>8 DEF ReserveInference
  <2> QED
    BY <1>8, <2>1 DEF ReserveInference
<1>9. ASSUME \E u \in Usage \cup {NoUsage}, o \in BOOLEAN : Answer(u, o) PROVE FlagTypes'
  BY <1>9 DEF Answer
<1>10. ASSUME InputTooLarge PROVE FlagTypes'
  <2>1. strained' \in BOOLEAN
    BY <1>10, StrainsBoolean DEF InputTooLarge
  <2> QED
    BY <1>10, <2>1 DEF InputTooLarge, NextBatch, Leave, Go
<1>11. ASSUME OutputRejected PROVE FlagTypes'
  BY <1>11 DEF OutputRejected, NextBatch, Leave, Go
<1>12. ASSUME CompleteLink \/ CompleteMerge \/ CompleteSynthesis PROVE FlagTypes'
  <2>1. strained' \in BOOLEAN
    BY <1>12, StrainsBoolean DEF CompleteLink, CompleteMerge, CompleteSynthesis
  <2> QED
    BY <1>12, <2>1 DEF CompleteLink, CompleteMerge, CompleteSynthesis, Resettled, NextBatch, Go
<1> QED
  BY <1>1, <1>2, <1>3, <1>4, <1>5, <1>6, <1>7, <1>8, <1>9, <1>10, <1>11, <1>12 DEF Next

LEMMA BatchStep ==
  FlagTypes /\ BatchInv /\ DepthInv /\ TreeInv /\ PlaceInv /\ [Next]_vars => BatchInv'
<1> SUFFICES ASSUME FlagTypes, BatchInv, DepthInv, TreeInv, PlaceInv, [Next]_vars PROVE BatchInv'
  OBVIOUS
<1> USE DEF dataVars
<1>1. ASSUME UNCHANGED vars \/ RequestCancel \/ Resume PROVE BatchInv'
  BY <1>1 DEF vars, workVars, RequestCancel, Resume, BatchInv
<1>2. ASSUME Claim \/ RunEnds \/ SourcesStand \/ SourcesEdited PROVE BatchInv'
  BY <1>2, Bounds DEF Claim, RunEnds, SourcesStand, SourcesEdited, Go, BatchInv
<1>3. ASSUME ExtractStep \/ SkipPreflight PROVE BatchInv'
  BY <1>3, Bounds DEF ExtractStep, SkipPreflight, Preflight, Again, Leave, NextBatch, Go, BatchInv
<1>4. ASSUME LinkStep \/ MergeStep \/ SynthesizeStep PROVE BatchInv'
  <2>1. UNCHANGED <<open, left>> /\ stage' # "extract"
    BY <1>4 DEF LinkStep, MergeStep, SynthesizeStep, Stay, Again, Leave, Go
  <2> QED
    BY <2>1, BatchSame
<1>5. ASSUME OtherStop \/ RecordOverrun \/ RefuseCount \/ \E t \in Sizes : RefuseInference(t)
      PROVE  BatchInv'
  <2>1. \E r \in {"none", "limit", "usage_overrun"} : BudgetStop(r)
    BY <1>5 DEF OtherStop, RecordOverrun, RefuseCount, RefuseInference, Refuse, FlagTypes
  <2> QED
    BY <2>1, StopKeeps
<1>6. ASSUME ReuseExtraction \/ CompleteExtraction PROVE BatchInv'
  <2>1. PICK k \in 0 .. MaxRecords + 1 : AddRecords(k)
    BY <1>6 DEF ReuseExtraction, CompleteExtraction
  <2>2. stage = "extract" /\ left >= 1 /\ left <= open
    BY <1>6, Bounds DEF ReuseExtraction, CompleteExtraction, Preflight, BatchInv
  <2>3. CASE records + k <= MaxRecords
    <3>1. open' = open - 1 /\ left' = left - 1 /\ stage' = "extract" /\ at' = "step"
      BY <2>1, <2>2, <2>3 DEF AddRecords, NextBatch, Go
    <3> QED
      BY <2>2, <3>1, Bounds DEF BatchInv
  <2>4. CASE ~(records + k <= MaxRecords)
    BY <2>1, <2>4, StopKeeps DEF AddRecords
  <2> QED
    BY <2>3, <2>4
<1>7. ASSUME CountCached \/ ReserveCount \/ CountAnswer \/ Repair \/ AnswerFails PROVE BatchInv'
  BY <1>7 DEF CountCached, ReserveCount, CountAnswer, Repair, AnswerFails, Keep, BatchInv
<1>8. ASSUME \E t \in Sizes : ReserveInference(t) PROVE BatchInv'
  BY <1>8 DEF ReserveInference, Preflight, BatchInv
<1>9. ASSUME \E u \in Usage \cup {NoUsage}, o \in BOOLEAN : Answer(u, o) PROVE BatchInv'
  BY <1>9 DEF Answer, BatchInv
<1>10. ASSUME InputTooLarge \/ OutputRejected PROVE BatchInv'
  <2>1. CASE stage = "extract"
    <3>1. left >= 1 /\ left <= open
      BY <1>10, <2>1 DEF InputTooLarge, OutputRejected, Preflight, BatchInv
    <3>2. /\ stage' = "extract" /\ at' = "step"
          /\ \/ open < MaxBatches /\ open' = open + 1 /\ left' = left + 1
             \/ open' = open - 1 /\ left' = left - 1
      BY <1>10, <2>1 DEF InputTooLarge, OutputRejected, NextBatch, Go
    <3> QED
      BY <3>1, <3>2, Bounds DEF BatchInv
  <2>2. CASE stage # "extract"
    <3>1. UNCHANGED <<open, left>> /\ stage' # "extract"
      BY <1>10, <2>2 DEF InputTooLarge, OutputRejected, NextBatch, Leave, Go
    <3> QED
      BY <3>1, BatchSame
  <2> QED
    BY <2>1, <2>2
<1>11. ASSUME CompleteLink \/ CompleteMerge \/ CompleteSynthesis PROVE BatchInv'
  <2>1. UNCHANGED <<open, left>> /\ stage' # "extract"
    BY <1>11 DEF CompleteLink, CompleteMerge, CompleteSynthesis, NextBatch, Go
  <2> QED
    BY <2>1, BatchSame
<1> QED
  BY <1>1, <1>2, <1>3, <1>4, <1>5, <1>6, <1>7, <1>8, <1>9, <1>10, <1>11 DEF Next

LEMMA DepthStep ==
  FlagTypes /\ BatchInv /\ DepthInv /\ TreeInv /\ PlaceInv /\ [Next]_vars => DepthInv'
<1> SUFFICES ASSUME FlagTypes, BatchInv, DepthInv, TreeInv, PlaceInv, [Next]_vars PROVE DepthInv'
  OBVIOUS
<1> USE DEF dataVars
<1>0. tree.depth \in Nat
  BY DEF TreeInv
<1>1. ASSUME UNCHANGED vars \/ RequestCancel \/ Resume PROVE DepthInv'
  BY <1>1 DEF vars, workVars, RequestCancel, Resume, DepthInv
<1>2. ASSUME Claim \/ RunEnds \/ SourcesStand PROVE DepthInv'
  BY <1>2, DepthSame DEF Claim, RunEnds, SourcesStand, Go
<1>3. ASSUME SourcesEdited PROVE DepthInv'
  BY <1>3, Bounds DEF SourcesEdited, Go, NoTree, Frontier, DepthInv
<1>4. ASSUME ExtractStep \/ SkipPreflight \/ LinkStep \/ SynthesizeStep PROVE DepthInv'
  <2>1. UNCHANGED tree /\ (stage' = "merge" => at' = "step")
    BY <1>4 DEF ExtractStep, SkipPreflight, Preflight, LinkStep, SynthesizeStep, Again, Leave, NextBatch, Go
  <2> QED
    BY <2>1, DepthSame
<1>5. ASSUME OtherStop \/ RecordOverrun \/ RefuseCount \/ \E t \in Sizes : RefuseInference(t)
      PROVE  DepthInv'
  <2>1. \E r \in {"none", "limit", "usage_overrun"} : BudgetStop(r)
    BY <1>5 DEF OtherStop, RecordOverrun, RefuseCount, RefuseInference, Refuse, FlagTypes
  <2> QED
    BY <2>1, StopKeeps
<1>6. ASSUME ReuseExtraction \/ CompleteExtraction PROVE DepthInv'
  <2>1. PICK k \in 0 .. MaxRecords + 1 : AddRecords(k)
    BY <1>6 DEF ReuseExtraction, CompleteExtraction
  <2>2. CASE records + k <= MaxRecords
    <3>1. UNCHANGED tree /\ stage' = stage /\ at' = "step"
      BY <2>1, <2>2 DEF AddRecords, NextBatch, Go
    <3> QED
      BY <3>1, DepthSame
  <2>3. CASE ~(records + k <= MaxRecords)
    BY <2>1, <2>3, StopKeeps DEF AddRecords
  <2> QED
    BY <2>2, <2>3
<1>7. ASSUME \/ CountCached \/ ReserveCount \/ CountAnswer \/ Repair \/ AnswerFails
             \/ \E t \in Sizes : ReserveInference(t)
             \/ \E u \in Usage \cup {NoUsage}, o \in BOOLEAN : Answer(u, o)
      PROVE  DepthInv'
  <2>1. UNCHANGED <<tree, stage>> /\ at # "step"
    BY <1>7 DEF CountCached, ReserveCount, CountAnswer, Repair, AnswerFails, ReserveInference, Answer, Keep
  <2> QED
    BY <2>1, DepthSame
<1>8. ASSUME NEW n \in Nat, NEW p \in Nat, NEW b \in BOOLEAN, tree' = Advanced(n, p, b),
             tree.depth < MaxDepth, at' = "step"
      PROVE  DepthInv'
  <2>1. tree'.depth = tree.depth \/ tree'.depth = tree.depth + 1
    BY <1>8 DEF Advanced, Frontier
  <2> QED
    BY <1>0, <1>8, <2>1, Bounds DEF DepthInv
<1>9. ASSUME MergeStep PROVE DepthInv'
  <2>1. CASE Stay /\ StartTree
    <3>1. tree'.depth = 0 /\ at' = "step"
      BY <2>1 DEF Stay, StartTree, Frontier, Leave, Go
    <3> QED
      BY <3>1, Bounds DEF DepthInv
  <2>2. CASE Stay /\ (tree' = [tree EXCEPT !.state = "ready"] \/ StopTree)
    <3>1. tree'.depth = tree.depth /\ at' = "step"
      BY <2>2 DEF Stay, StopTree, Leave, Go, TreeInv
    <3> QED
      BY <3>1 DEF DepthInv
  <2>3. CASE tree.depth < MaxDepth /\ Stay /\ tree' = Advanced(1, 1, FALSE)
    BY <1>8, <2>3 DEF Stay, Leave, Go
  <2>4. CASE tree.depth < MaxDepth /\ UNCHANGED tree
    BY <2>4 DEF DepthInv
  <2>5. CASE Leave("synthesize") /\ UNCHANGED tree
    BY <2>5, DepthSame DEF Leave, Go
  <2> QED
    BY <1>9, <2>1, <2>2, <2>3, <2>4, <2>5 DEF MergeStep
<1>10. ASSUME InputTooLarge \/ OutputRejected PROVE DepthInv'
  <2>1. tree'.depth = tree.depth
    BY <1>10 DEF InputTooLarge, OutputRejected, StopTree, TreeInv
  <2>2. stage' = "merge" => at' = "step"
    BY <1>10 DEF InputTooLarge, OutputRejected, NextBatch, Leave, Go
  <2> QED
    BY <2>1, <2>2 DEF DepthInv
<1>11. ASSUME CompleteLink \/ CompleteSynthesis PROVE DepthInv'
  <2>1. UNCHANGED tree /\ (stage' = "merge" => at' = "step")
    BY <1>11 DEF CompleteLink, CompleteSynthesis, NextBatch, Go
  <2> QED
    BY <2>1, DepthSame
<1>12. ASSUME CompleteMerge PROVE DepthInv'
  <2>1. PICK p \in 0 .. inputs : tree' = Advanced(inputs, p, inputs = tree.width)
    BY <1>12 DEF CompleteMerge
  <2>2. inputs \in Nat /\ p \in Nat /\ tree.depth < MaxDepth /\ at' = "step"
    BY <1>12 DEF CompleteMerge, NextBatch, Go, TreeInv, DepthInv
  <2> QED
    BY <1>8, <2>1, <2>2
<1> QED
  BY <1>1, <1>2, <1>3, <1>4, <1>5, <1>6, <1>7, <1>9, <1>10, <1>11, <1>12 DEF Next

\* A sum of naturals is one.
LEMMA TotalIsNat ==
  ASSUME NEW w, Weights(w), \A x \in DOMAIN w : w[x] >= 0, NEW n, IsTotal(n, w)
  PROVE  n \in Nat
<1>1. PICK g : Sums(g, w) /\ n = g[DOMAIN w]
  BY DEF IsTotal
<1> DEFINE D == DOMAIN w
           Good == {s \in SUBSET D : g[s] \in Nat}
<1>2. IsFiniteSet(D) /\ \A x \in D : w[x] \in Nat
  BY DEF Weights
<1>3. {} \in Good
  <2>1. {} \in SUBSET D /\ g[{}] = 0
    BY <1>1 DEF Sums
  <2> QED
    BY <2>1
<1>4. ASSUME NEW s \in SUBSET D, s # {}, \A x \in s : s \ {x} \in Good PROVE s \in Good
  <2>1. AnyOf(s) \in s
    BY <1>4 DEF AnyOf
  <2>2. g[s] = w[AnyOf(s)] + g[s \ {AnyOf(s)}]
    BY <1>1, <1>4 DEF Sums
  <2> QED
    BY <1>2, <1>4, <2>1, <2>2
<1> HIDE DEF Good
<1>5. D \in Good
  BY <1>2, <1>3, <1>4, SetsUpwards
<1> QED
  BY <1>1, <1>5 DEF Good

\* What is reserved is never less than nothing.
LEMMA ReservedIsNat == JournalInv => reserved \in Nat
<1> SUFFICES ASSUME JournalInv PROVE reserved \in Nat
  OBVIOUS
<1> DEFINE w == Weighted(journal, Pending, Asked)
<1>1. Weights(w) /\ IsTotal(reserved, w)
  BY JournalWeights, ValuesTyped DEF JournalInv
<1>2. \A x \in DOMAIN w : w[x] >= 0
  <2>1. \A x \in DOMAIN journal \cap Pending : journal[x] \in Nat /\ Asked[x] \in Nat
    BY DEF JournalInv, IsJournal, Asked, Receipt
  <2>2. \A m, n \in Nat : m * n >= 0
    OBVIOUS
  <2> QED
    BY <2>1, <2>2 DEF Weighted
<1> HIDE DEF w
<1> QED
  BY <1>1, <1>2, TotalIsNat

LEMMA ReserveFits ==
  ASSUME TreeInv, SpentInv, JournalInv, NEW t \in Sizes, ReserveInference(t)
  PROVE  t \in 1 .. MaxTokens
<1>1. t \in Nat /\ t >= 1
  BY Constants DEF Sizes
<1>2. Merges * MergeCost \in Nat /\ Final * FinalCost \in Nat
  BY ReserveIsNat, Constants
<1>3. reserved \in Nat /\ used \in Nat
  BY ReservedIsNat DEF SpentInv
<1> QED
  BY <1>1, <1>2, <1>3, Constants DEF ReserveInference, MayInfer, Affordable, Committed, Limits

LEMMA NewReceipt ==
  ASSUME ReceiptInv, TreeInv, SpentInv, JournalInv, NEW t \in Sizes, ReserveInference(t)
  PROVE  ReceiptInv'
<1>1. mine' = [tokens |-> t, usage |-> NoUsage, over |-> FALSE] /\ journal' = B!BagAdd(journal, mine')
  BY DEF ReserveInference
<1>2. mine' \in Attempt
  BY <1>1, ReserveFits DEF Attempt
<1>3. DOMAIN journal' \subseteq DOMAIN journal \cup {mine'}
  BY <1>1 DEF B!BagAdd
<1> QED
  BY <1>2, <1>3 DEF ReceiptInv

LEMMA AnsweredReceipt ==
  ASSUME ReceiptInv, NEW u \in Usage \cup {NoUsage}, NEW o \in BOOLEAN, Answer(u, o)
  PROVE  ReceiptInv'
<1>1. mine \in Attempt /\ Settle(u, o) /\ mine' = Settled(u, o) /\ at' # "inferring"
  BY DEF Answer, ReceiptInv
<1>2. Settled(u, o) \in Attempt
  BY <1>1 DEF Settled, Attempt
<1>3. DOMAIN journal' \subseteq DOMAIN journal \cup {Settled(u, o)}
  BY <1>1 DEF Settle, B!BagAdd, B!BagRemove, journalVars
<1> QED
  BY <1>1, <1>2, <1>3 DEF ReceiptInv

LEMMA ReceiptSame ==
  ASSUME ReceiptInv, UNCHANGED journal, mine' = mine \/ mine' = NoAttempt, at' # "inferring"
  PROVE  ReceiptInv'
BY DEF ReceiptInv, Attempt, NoAttempt

LEMMA ReceiptStep ==
  FlagTypes /\ BatchInv /\ DepthInv /\ PlaceInv /\ TreeInv /\ SpentInv /\ JournalInv /\ ReceiptInv
    /\ [Next]_vars => ReceiptInv'
<1> SUFFICES ASSUME FlagTypes, BatchInv, DepthInv, PlaceInv, TreeInv, SpentInv, JournalInv, ReceiptInv,
                    [Next]_vars
             PROVE  ReceiptInv'
  OBVIOUS
<1> USE DEF journalVars
<1>1. ASSUME UNCHANGED vars \/ RequestCancel \/ Resume PROVE ReceiptInv'
  BY <1>1 DEF vars, workVars, RequestCancel, Resume, ReceiptInv, Attempt, NoAttempt
<1>2. ASSUME Claim \/ RunEnds \/ SourcesStand \/ SourcesEdited PROVE ReceiptInv'
  BY <1>2, ReceiptSame DEF Claim, RunEnds, SourcesStand, SourcesEdited, Go
<1>3. ASSUME ExtractStep \/ SkipPreflight \/ LinkStep \/ MergeStep \/ SynthesizeStep PROVE ReceiptInv'
  <2>1. mine' = NoAttempt /\ at' \in {"step", "count", "end"} /\ UNCHANGED journal
    BY <1>3 DEF ExtractStep, SkipPreflight, LinkStep, MergeStep, SynthesizeStep, Stay, Again, Leave, NextBatch, Go
  <2> QED
    BY <2>1, ReceiptSame
<1>4. ASSUME OtherStop \/ RecordOverrun \/ RefuseCount \/ \E t \in Sizes : RefuseInference(t)
      PROVE  ReceiptInv'
  <2>1. (\E r \in {"none", "limit", "usage_overrun"} : BudgetStop(r)) /\ UNCHANGED journal
    BY <1>4 DEF OtherStop, RecordOverrun, RefuseCount, RefuseInference, Refuse, FlagTypes
  <2>2. mine' = NoAttempt /\ at' \in {"step", "end"}
    BY <2>1, StopKeeps
  <2> QED
    BY <2>1, <2>2, ReceiptSame
<1>5. Resettled => UNCHANGED journal
  BY DEF Resettled, Settle
<1>6. ASSUME ReuseExtraction \/ CompleteExtraction PROVE ReceiptInv'
  <2>1. PICK k \in 0 .. MaxRecords + 1 : AddRecords(k)
    BY <1>6 DEF ReuseExtraction, CompleteExtraction
  <2>2. UNCHANGED journal
    BY <1>5, <1>6 DEF ReuseExtraction, CompleteExtraction
  <2>3. mine' = NoAttempt /\ at' \in {"step", "end"}
    BY <2>1, StopKeeps DEF AddRecords, NextBatch, Go
  <2> QED
    BY <2>2, <2>3, ReceiptSame
<1>7. ASSUME CountCached \/ ReserveCount \/ CountAnswer \/ Repair PROVE ReceiptInv'
  BY <1>7, ReceiptSame DEF CountCached, ReserveCount, CountAnswer, Repair, Keep
<1>8. ASSUME AnswerFails PROVE ReceiptInv'
  <2>1. UNCHANGED <<journal, mine>> /\ at' = "infer"
    BY <1>8 DEF AnswerFails, Settle, JournalInv
  <2> QED
    BY <2>1, ReceiptSame
<1>9. ASSUME InputTooLarge \/ OutputRejected PROVE ReceiptInv'
  <2>1. mine' = NoAttempt /\ at' \in {"step", "end"} /\ UNCHANGED journal
    BY <1>9 DEF InputTooLarge, OutputRejected, NextBatch, Leave, Go
  <2> QED
    BY <2>1, ReceiptSame
<1>10. ASSUME CompleteLink \/ CompleteMerge \/ CompleteSynthesis PROVE ReceiptInv'
  <2>1. mine' = NoAttempt /\ at' \in {"step", "end"} /\ UNCHANGED journal
    BY <1>5, <1>10 DEF CompleteLink, CompleteMerge, CompleteSynthesis, NextBatch, Go
  <2> QED
    BY <2>1, ReceiptSame
<1> QED
  BY <1>1, <1>2, <1>3, <1>4, <1>6, <1>7, <1>8, <1>9, <1>10, NewReceipt, AnsweredReceipt DEF Next

TypeInv ==
  FlagTypes /\ BatchInv /\ DepthInv /\ ReceiptInv /\ BudgetInv /\ JournalInv

LEMMA InitTypes == Init => TypeInv
<1> SUFFICES ASSUME Init PROVE TypeInv
  OBVIOUS
<1>1. FlagTypes
  <2>1. cancel \in BOOLEAN /\ links \in BOOLEAN /\ strained \in BOOLEAN
    BY Zenon DEF Init
  <2>2. runs \in 1 .. MaxRuns
    BY Bounds DEF Init
  <2>3. /\ status = "queued" /\ stop = "none" /\ result = "none" /\ at = "none"
    BY DEF Init
  <2> QED
    BY <2>1, <2>2, <2>3 DEF FlagTypes
<1>2. BatchInv /\ DepthInv
  BY Bounds DEF Init, BatchInv, DepthInv, NoTree, Frontier
<1>3. ReceiptInv
  BY DEF Init, ReceiptInv
<1> QED
  BY <1>1, <1>2, <1>3, InitBudget, InitJournal DEF TypeInv

LEMMA TypeStep == TypeInv /\ [Next]_vars => TypeInv'
BY FlagStep, BatchStep, DepthStep, ReceiptStep, BudgetStep, JournalStep
   DEF TypeInv, BudgetInv, ShapeInv

\* Every variable has its type, for every value of the limits: no more batches are left than
\* are open, the merge never goes deeper than max_merge_depth, no request asks for more than
\* max_total_tokens, and what is reserved is never less than nothing.
THEOREM TypesHold == Spec => []TypeOK
<1>1. TypeInv => TypeOK
  <2> SUFFICES ASSUME TypeInv PROVE TypeOK
    OBVIOUS
  <2>1. tree \in Tree
    <3>1. /\ tree.width \in 0 .. MaxRecords /\ tree.front \in 0 .. MaxRecords
          /\ tree.next \in 0 .. MaxRecords /\ tree.depth \in 0 .. MaxDepth
      BY Bounds, Constants DEF TypeInv, BudgetInv, TreeInv, DepthInv, Limits
    <3> QED
      BY <3>1 DEF TypeInv, BudgetInv, TreeInv, Tree
  <2>2. records \in 0 .. MaxRecords /\ inputs \in 0 .. FanIn
    BY Constants DEF TypeInv, BudgetInv, TreeInv, Limits
  <2>3. open \in 0 .. MaxBatches /\ left \in 0 .. MaxBatches + 1
    BY Bounds DEF TypeInv, BatchInv
  <2>4. calls \in Nat /\ requests \in Nat /\ used \in Nat /\ reserved \in Nat /\ counts \in Nat
    BY ReservedIsNat DEF TypeInv, BudgetInv, SpentInv, JournalInv
  <2>5. DOMAIN journal \subseteq Attempt /\ \A a \in DOMAIN journal : journal[a] \in Nat \ {0}
    BY DEF TypeInv, ReceiptInv, JournalInv, IsJournal
  <2>6. stage \in {"extract", "link", "merge", "synthesize"} /\ mine \in Attempt \cup {NoAttempt}
    BY DEF TypeInv, ReceiptInv, BudgetInv, ShapeInv, PlaceInv
  <2>7. FlagTypes
    BY Zenon DEF TypeInv
  <2> QED
    BY <2>1, <2>2, <2>3, <2>4, <2>5, <2>6, <2>7 DEF TypeOK, FlagTypes
<1> QED
  BY InitTypes, TypeStep, <1>1, PTL DEF Spec
=============================================================================
