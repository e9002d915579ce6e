---------------------------- MODULE StakeLemmas ----------------------------
(***************************************************************************)
(* The lemmas that the proofs about the staked tokens and the incentives   *)
(* controller share, on the operators their specifications are built from: *)
(* arithmetic, sums of mappings, the reward index of DistributionManager   *)
(* and the bookkeeping of power of GovernancePowerDelegation.              *)
(***************************************************************************)
EXTENDS DistributionManager, TokenSums, GovernancePowerDelegation, Integers,
        FiniteSetTheorems, WellFoundedInduction, TLAPS

----------------------------------------------------------------------------
(* Products and truncating quotients of natural numbers: what reward       *)
(* indexes and weighted averages of timestamps rest on.                    *)

(* A quotient is a natural number: SafeMath.div. *)
LEMMA DivNat ==
  ASSUME NEW a \in Nat, NEW b \in Nat \ {0}
  PROVE  a \div b \in Nat
OBVIOUS

(* Truncation preserves order. *)
LEMMA DivMono ==
  ASSUME NEW a \in Nat, NEW c \in Nat, NEW b \in Nat \ {0}, a <= c
  PROVE  /\ a \div b \in Nat /\ c \div b \in Nat
         /\ a \div b <= c \div b
OBVIOUS

(* Truncating two terms apart loses at most one against truncating their    *)
(* sum.                                                                     *)
LEMMA DivSum ==
  ASSUME NEW a \in Nat, NEW c \in Nat, NEW b \in Nat \ {0}
  PROVE  /\ a \div b + c \div b <= (a + c) \div b
         /\ (a + c) \div b <= a \div b + c \div b + 1
OBVIOUS

(* Truncation loses less than one divisor. *)
LEMMA DivBound ==
  ASSUME NEW a \in Nat, NEW b \in Nat \ {0}
  PROVE  b * (a \div b) <= a /\ a < b * (a \div b) + b
OBVIOUS

(* A product is a natural number. *)
LEMMA MulNat ==
  ASSUME NEW a \in Nat, NEW b \in Nat
  PROVE  a * b \in Nat
OBVIOUS

(* A product grows with its factor. *)
LEMMA MulMono ==
  ASSUME NEW a \in Nat, NEW b \in Nat, NEW c \in Nat, a <= b
  PROVE  c * a <= c * b
OBVIOUS

(* Products distribute over sums and differences. *)
LEMMA MulDist ==
  ASSUME NEW a \in Int, NEW b \in Int, NEW c \in Int
  PROVE  c * (a + b) = c * a + c * b /\ c * (a - b) = c * a - c * b
OBVIOUS

(* A common factor can be dropped from a comparison. *)
LEMMA MulCancel ==
  ASSUME NEW a \in Nat, NEW b \in Nat, NEW c \in Nat \ {0}, c * a <= c * b
  PROVE  a <= b
<1> SUFFICES ASSUME b + 1 <= a PROVE FALSE
  OBVIOUS
<1>1. c * (b + 1) <= c * a
  BY MulMono
<1>2. c * (b + 1) = c * b + c * 1
  BY MulDist
<1>3. c * b \in Nat /\ c * a \in Nat
  BY MulNat
<1> QED
  BY <1>1, <1>2, <1>3

(* A quotient stays below every bound its dividend is a multiple below. *)
LEMMA DivAtMost ==
  ASSUME NEW x \in Nat, NEW b \in Nat \ {0}, NEW f \in Nat, x <= b * f
  PROVE  x \div b <= f
<1>1. x \div b \in Nat /\ b * (x \div b) <= x
  BY DivNat, DivBound
<1>2. CASE x \div b >= f + 1
  <2>1. b * (f + 1) <= b * (x \div b)
    BY <1>1, <1>2, MulMono
  <2>2. b * (f + 1) = b * f + b
    BY MulDist
  <2>3. b * f \in Nat /\ b * (x \div b) \in Nat
    BY <1>1, MulNat
  <2> QED
    BY <1>1, <2>1, <2>2, <2>3
<1> QED
  BY <1>1, <1>2

(* A quotient reaches every bound its dividend is a multiple above. *)
LEMMA DivAtLeast ==
  ASSUME NEW x \in Nat, NEW b \in Nat \ {0}, NEW f \in Nat, b * f <= x
  PROVE  f <= x \div b
<1>1. x \div b \in Nat /\ x < b * (x \div b) + b
  BY DivNat, DivBound
<1>2. CASE x \div b < f
  <2>1. b * (x \div b + 1) <= b * f
    BY <1>1, <1>2, MulMono
  <2>2. b * (x \div b + 1) = b * (x \div b) + b
    BY <1>1, MulDist
  <2>3. b * f \in Nat /\ b * (x \div b) \in Nat
    BY <1>1, MulNat
  <2> QED
    BY <1>1, <2>1, <2>2, <2>3
<1> QED
  BY <1>1, <1>2

(* The truncated average of t with weight b and of f with weight a lies     *)
(* between them, when f is the later one.                                   *)
LEMMA WeightedAverage ==
  ASSUME NEW a \in Nat, NEW b \in Nat, a + b # 0,
         NEW t \in Nat, NEW f \in Nat, t <= f
  PROVE  LET average == (a * f + b * t) \div (a + b)
         IN  /\ average \in Nat
             /\ t <= average
             /\ average <= f
<1>1. /\ a * f \in Nat /\ b * t \in Nat /\ a * t \in Nat /\ b * f \in Nat
      /\ a + b \in Nat \ {0}
  BY MulNat
<1>2. a * t <= a * f /\ b * t <= b * f
  BY MulMono
<1>3. (a + b) * t = a * t + b * t /\ (a + b) * f = a * f + b * f
  BY MulDist
<1>4. a * f + b * t \in Nat
  BY <1>1
<1>5. (a + b) * t <= a * f + b * t /\ a * f + b * t <= (a + b) * f
  BY <1>1, <1>2, <1>3
<1> QED
  BY <1>1, <1>4, <1>5, DivNat, DivAtMost, DivAtLeast

(* Every set of natural numbers has a least one. *)
LEMMA LeastNatural ==
  ASSUME NEW T \in SUBSET Nat, T # {}
  PROVE  \E n \in T : \A m \in T : n <= m
<1> DEFINE R == OpToRel(<, Nat)
<1>1. IsWellFoundedOn(R, Nat)
  BY NatLessThanWellFounded
<1>2. \A x \in Nat, y \in Nat : y < x => <<y, x>> \in R
  BY DEF OpToRel
<1> HIDE DEF R
<1>3. PICK n \in T : \A m \in T : ~(<<m, n>> \in R)
  BY <1>1, WFMin
<1>4. n \in Nat /\ \A m \in T : m \in Nat /\ ~(m < n)
  BY <1>2, <1>3
<1>5. \A m \in T : n <= m
  BY <1>4
<1> QED
  BY <1>5

(* Induction, on a set of natural numbers. *)
LEMMA SetInduction ==
  ASSUME NEW S \in SUBSET Nat, 0 \in S, \A n \in S : n + 1 \in S
  PROVE  S = Nat
<1> SUFFICES ASSUME Nat \ S # {} PROVE FALSE
  OBVIOUS
<1>1. PICK n \in Nat \ S : \A m \in Nat \ S : n <= m
  BY LeastNatural
<1>2. n # 0
  OBVIOUS
<1>3. n - 1 \in Nat /\ ~(n <= n - 1)
  BY <1>2
<1>4. n - 1 \in S
  BY <1>1, <1>3
<1>5. (n - 1) + 1 = n
  OBVIOUS
<1> QED
  BY <1>4, <1>5

----------------------------------------------------------------------------
(* What the sum of a mapping does when some of its values change.  The     *)
(* tokens of the changed account are separated from those of the others;   *)
(* the two sets are disjoint, so their cardinalities add up.               *)

(* The tokens of one account are as many as the mapping says. *)
LEMMA UnitsOfCount ==
  ASSUME NEW S, NEW f \in [S -> Nat], NEW u \in S
  PROVE  /\ IsFiniteSet(UnitsOf(f, u))
         /\ Cardinality(UnitsOf(f, u)) = f[u]
<1> DEFINE number == [i \in 1..f[u] |-> <<u, i>>]
<1>1. f[u] \in Nat
  OBVIOUS
<1>2. number \in Surjection(1..f[u], UnitsOf(f, u))
  BY DEF UnitsOf, Surjection
<1>3. number \in Injection(1..f[u], UnitsOf(f, u))
  BY DEF UnitsOf, Injection, IsInjective
<1>4. IsFiniteSet(1..f[u]) /\ Cardinality(1..f[u]) = f[u]
  BY <1>1, FS_Interval
<1> QED
  BY <1>2, <1>3, <1>4, FS_Surjection

(* Finitely many accounts hold finitely many tokens. *)
LEMMA UnitsFinite ==
  ASSUME NEW S, IsFiniteSet(S), NEW f \in [S -> Nat], NEW T \in SUBSET S
  PROVE  IsFiniteSet(UNION {UnitsOf(f, u) : u \in T})
<1> DEFINE all == {UnitsOf(f, u) : u \in T}
           map == [u \in T |-> UnitsOf(f, u)]
<1>1. IsFiniteSet(T)
  BY FS_Subset
<1>2. map \in Surjection(T, all)
  BY DEF Surjection
<1>3. IsFiniteSet(all)
  BY <1>1, <1>2, FS_Surjection
<1>4. \A t \in all : IsFiniteSet(t)
  BY UnitsOfCount
<1>5. IsFiniteSet(UNION all)
  <2> HIDE DEF all
  <2> QED
    BY <1>3, <1>4, FS_UNION
<1> QED
  BY <1>5

(* The sum of a mapping is a natural number, and no value exceeds it. *)
LEMMA SumType ==
  ASSUME NEW S, IsFiniteSet(S), NEW f \in [S -> Nat]
  PROVE  /\ Sum(f) \in Nat
         /\ \A u \in S : f[u] <= Sum(f)
<1>1. IsFiniteSet(Units(f))
  BY UnitsFinite DEF Units
<1>2. \A u \in S : UnitsOf(f, u) \in SUBSET Units(f)
  BY DEF Units
<1>3. \A u \in S : Cardinality(UnitsOf(f, u)) <= Cardinality(Units(f))
  BY <1>1, <1>2, FS_Subset
<1> QED
  BY <1>1, <1>3, FS_CardinalityType, UnitsOfCount DEF Sum

(* Nobody holds anything. *)
LEMMA SumZero ==
  ASSUME NEW S
  PROVE  Sum([u \in S |-> 0]) = 0
<1>1. Units([u \in S |-> 0]) = {}
  BY DEF Units, UnitsOf
<1> QED
  BY <1>1, FS_EmptySet DEF Sum

(* The tokens of one account and those of all others. *)
LEMMA SumSplit ==
  ASSUME NEW S, IsFiniteSet(S), NEW f \in [S -> Nat], NEW u \in S
  PROVE  LET others == UNION {UnitsOf(f, v) : v \in S \ {u}}
         IN  /\ Cardinality(others) \in Nat
             /\ Sum(f) = Cardinality(others) + f[u]
<1> DEFINE others == UNION {UnitsOf(f, v) : v \in S \ {u}}
<1>1. IsFiniteSet(others)
  <2>1. S \ {u} \in SUBSET S
    OBVIOUS
  <2> QED
    BY <2>1, UnitsFinite
<1>2. IsFiniteSet(UnitsOf(f, u)) /\ Cardinality(UnitsOf(f, u)) = f[u]
  BY UnitsOfCount
<1>3. Units(f) = others \cup UnitsOf(f, u)
  BY DEF Units
<1>4. others \cap UnitsOf(f, u) = {}
  BY DEF UnitsOf
<1>5. Cardinality(others \cap UnitsOf(f, u)) = 0
  BY <1>4, FS_EmptySet
<1>6. Cardinality(others) \in Nat
  BY <1>1, FS_CardinalityType
<1>7. Cardinality(others \cup UnitsOf(f, u)) =
        Cardinality(others) + Cardinality(UnitsOf(f, u))
          - Cardinality(others \cap UnitsOf(f, u))
  BY <1>1, <1>2, FS_Union
<1> HIDE DEF others
<1>8. Sum(f) = Cardinality(others) + f[u]
  BY <1>2, <1>3, <1>5, <1>6, <1>7 DEF Sum
<1> QED
  BY <1>6, <1>8 DEF others

(* Two mappings that differ in one account differ by that much in sum. *)
LEMMA SumChange ==
  ASSUME NEW S, IsFiniteSet(S), NEW f \in [S -> Nat], NEW g \in [S -> Nat],
         NEW u \in S, \A v \in S \ {u} : g[v] = f[v]
  PROVE  Sum(g) + f[u] = Sum(f) + g[u]
<1> DEFINE rest(h) == UNION {UnitsOf(h, v) : v \in S \ {u}}
<1>1. rest(g) = rest(f)
  <2>1. \A v \in S \ {u} : UnitsOf(g, v) = UnitsOf(f, v)
    BY DEF UnitsOf
  <2> QED
    BY <2>1
<1>2. Cardinality(rest(f)) \in Nat /\ Sum(f) = Cardinality(rest(f)) + f[u]
  BY SumSplit
<1>3. Sum(g) = Cardinality(rest(g)) + g[u]
  BY SumSplit
<1> HIDE DEF rest
<1>4. f[u] \in Nat /\ g[u] \in Nat
  OBVIOUS
<1> QED
  BY <1>1, <1>2, <1>3, <1>4

(* Giving one account another value. *)
LEMMA SumExcept ==
  ASSUME NEW S, IsFiniteSet(S), NEW f \in [S -> Nat], NEW u \in S, NEW n \in Nat
  PROVE  Sum([f EXCEPT ![u] = n]) + f[u] = Sum(f) + n
<1> DEFINE g == [f EXCEPT ![u] = n]
<1>1. g \in [S -> Nat] /\ g[u] = n /\ \A v \in S \ {u} : g[v] = f[v]
  OBVIOUS
<1> HIDE DEF g
<1>2. Sum(g) + f[u] = Sum(f) + g[u]
  BY <1>1, SumChange
<1>3. Sum(g) + f[u] = Sum(f) + n
  BY <1>1, <1>2
<1> QED
  BY <1>3 DEF g

(* What one account loses and another gains keeps the sum. *)
LEMMA SumMove ==
  ASSUME NEW S, IsFiniteSet(S), NEW f \in [S -> Nat], NEW h \in [S -> Nat],
         NEW u \in S, NEW v \in S, u # v,
         h[u] + h[v] = f[u] + f[v],
         \A w \in S \ {u, v} : h[w] = f[w]
  PROVE  Sum(h) = Sum(f)
<1> DEFINE g == [f EXCEPT ![u] = h[u]]
<1>1. /\ g \in [S -> Nat]
      /\ \A w \in S \ {u} : g[w] = f[w]
      /\ \A w \in S \ {v} : h[w] = g[w]
      /\ g[u] = h[u] /\ g[v] = f[v]
  OBVIOUS
<1> HIDE DEF g
<1>2. Sum(g) + f[u] = Sum(f) + g[u]
  BY <1>1, SumChange
<1>3. Sum(h) + g[v] = Sum(g) + h[v]
  BY <1>1, SumChange
<1>4. Sum(f) \in Nat /\ Sum(g) \in Nat /\ Sum(h) \in Nat
  BY <1>1, SumType
<1>5. f[u] \in Nat /\ f[v] \in Nat /\ h[u] \in Nat /\ h[v] \in Nat
  OBVIOUS
<1> QED
  BY <1>1, <1>2, <1>3, <1>4, <1>5

(* A mapping that is nowhere larger is not larger in sum. *)
LEMMA SumMonotone ==
  ASSUME NEW S, IsFiniteSet(S), NEW f \in [S -> Nat], NEW g \in [S -> Nat],
         \A u \in S : f[u] <= g[u]
  PROVE  Sum(f) <= Sum(g)
<1>1. IsFiniteSet(Units(g))
  BY UnitsFinite DEF Units
<1>2. Units(f) \in SUBSET Units(g)
  <2>1. \A u \in S : UnitsOf(f, u) \subseteq UnitsOf(g, u)
    BY DEF UnitsOf
  <2> QED
    BY <2>1 DEF Units
<1> QED
  BY <1>1, <1>2, FS_Subset DEF Sum

(* The sum of two mappings added up: the tokens of the second are numbered  *)
(* after those of the first.                                                *)
LEMMA SumAdd ==
  ASSUME NEW S, IsFiniteSet(S), NEW f \in [S -> Nat], NEW g \in [S -> Nat]
  PROVE  Sum([u \in S |-> f[u] + g[u]]) = Sum(f) + Sum(g)
<1> DEFINE h == [u \in S |-> f[u] + g[u]]
           shifted == {<<t[1], f[t[1]] + t[2]>> : t \in Units(g)}
           shift == [t \in Units(g) |-> <<t[1], f[t[1]] + t[2]>>]
<1>1. /\ \A t \in Units(f) : t[1] \in S /\ t[2] \in 1..f[t[1]] /\ t = <<t[1], t[2]>>
      /\ \A t \in Units(g) : t[1] \in S /\ t[2] \in 1..g[t[1]] /\ t = <<t[1], t[2]>>
      /\ \A t \in Units(h) : t[1] \in S /\ t[2] \in 1..h[t[1]] /\ t = <<t[1], t[2]>>
      /\ \A u \in S : \A i \in 1..f[u] : <<u, i>> \in Units(f)
      /\ \A u \in S : \A i \in 1..g[u] : <<u, i>> \in Units(g)
      /\ \A u \in S : \A i \in 1..h[u] : <<u, i>> \in Units(h)
  BY DEF Units, UnitsOf
<1>2. IsFiniteSet(Units(f)) /\ IsFiniteSet(Units(g))
  BY UnitsFinite DEF Units
<1>3. shift \in Surjection(Units(g), shifted)
  BY DEF Surjection
<1>4. shift \in Injection(Units(g), shifted)
  <2>1. \A t \in Units(g) : shift[t] = <<t[1], f[t[1]] + t[2]>>
    OBVIOUS
  <2>2. \A t, w \in Units(g) : shift[t] = shift[w] => t[1] = w[1] /\ t[2] = w[2]
    <3> SUFFICES ASSUME NEW t \in Units(g), NEW w \in Units(g), shift[t] = shift[w]
                 PROVE  t[1] = w[1] /\ t[2] = w[2]
      OBVIOUS
    <3>1. t[1] = w[1] /\ f[t[1]] + t[2] = f[w[1]] + w[2]
      BY <2>1
    <3>2. f[t[1]] \in Nat /\ t[2] \in Nat /\ w[2] \in Nat
      BY <1>1
    <3> QED
      BY <3>1, <3>2
  <2>3. \A t, w \in Units(g) : shift[t] = shift[w] => t = w
    BY <1>1, <2>2
  <2>4. shift \in [Units(g) -> shifted]
    OBVIOUS
  <2> QED
    BY <2>3, <2>4 DEF Injection, IsInjective
<1>5. IsFiniteSet(shifted) /\ Cardinality(shifted) = Cardinality(Units(g))
  BY <1>2, <1>3, <1>4, FS_Surjection
<1>6. Units(h) = Units(f) \cup shifted
  <2>1. ASSUME NEW t \in Units(h) PROVE t \in Units(f) \cup shifted
    <3>1. t[1] \in S /\ t[2] \in 1..(f[t[1]] + g[t[1]]) /\ t = <<t[1], t[2]>>
      BY <1>1
    <3>2. f[t[1]] \in Nat /\ g[t[1]] \in Nat
      BY <3>1
    <3>3. CASE t[2] <= f[t[1]]
      BY <1>1, <3>1, <3>2, <3>3
    <3>4. CASE t[2] > f[t[1]]
      <4> DEFINE i == t[2] - f[t[1]]
      <4>1. i \in 1..g[t[1]] /\ f[t[1]] + i = t[2]
        BY <3>1, <3>2, <3>4
      <4>2. <<t[1], i>> \in Units(g)
        BY <1>1, <3>1, <4>1
      <4> HIDE DEF i
      <4>3. <<t[1], f[t[1]] + i>> \in shifted
        BY <4>2
      <4> QED
        BY <3>1, <4>1, <4>3
    <3> QED
      BY <3>1, <3>2, <3>3, <3>4
  <2>2. ASSUME NEW t \in Units(f) PROVE t \in Units(h)
    <3>1. t[1] \in S /\ t[2] \in 1..f[t[1]] /\ t = <<t[1], t[2]>>
      BY <1>1
    <3>2. t[2] \in 1..h[t[1]]
      BY <3>1
    <3> QED
      BY <1>1, <3>1, <3>2
  <2>3. ASSUME NEW t \in Units(g) PROVE <<t[1], f[t[1]] + t[2]>> \in Units(h)
    <3>1. t[1] \in S /\ t[2] \in 1..g[t[1]]
      BY <1>1
    <3>2. f[t[1]] + t[2] \in 1..h[t[1]]
      BY <3>1
    <3> QED
      BY <1>1, <3>1, <3>2
  <2> QED
    BY <2>1, <2>2, <2>3
<1>7. Units(f) \cap shifted = {}
  <2> SUFFICES ASSUME NEW t \in Units(g), <<t[1], f[t[1]] + t[2]>> \in Units(f)
               PROVE  FALSE
    OBVIOUS
  <2>1. f[t[1]] + t[2] \in 1..f[t[1]]
    BY <1>1
  <2>2. t[1] \in S /\ t[2] \in 1..g[t[1]]
    BY <1>1
  <2> QED
    BY <2>1, <2>2
<1>8. Cardinality(Units(f) \cap shifted) = 0
  BY <1>7, FS_EmptySet
<1>9. Cardinality(Units(f)) \in Nat /\ Cardinality(Units(g)) \in Nat
  BY <1>2, FS_CardinalityType
<1> HIDE DEF h, shifted, shift
<1>10. Cardinality(Units(h)) = Cardinality(Units(f)) + Cardinality(Units(g))
  <2>1. Cardinality(Units(f) \cup shifted) =
          Cardinality(Units(f)) + Cardinality(shifted) - Cardinality(Units(f) \cap shifted)
    BY <1>2, <1>5, FS_Union
  <2> QED
    BY <1>5, <1>6, <1>8, <1>9, <2>1
<1> QED
  BY <1>10 DEF Sum, h

(* Counting in rows of d: every number has one row and one place in it. *)
LEMMA Rows ==
  ASSUME NEW d \in Nat \ {0}, NEW n \in Nat
  PROVE  /\ \A i \in 1..n : \A k \in 1..d : (i - 1) * d + k \in 1..(d * n)
         /\ \A i, j \in 1..n : \A k, l \in 1..d :
              (i - 1) * d + k = (j - 1) * d + l => i = j /\ k = l
         /\ \A m \in 1..(d * n) : \E i \in 1..n : \E k \in 1..d :
              m = (i - 1) * d + k
<1>1. ASSUME NEW i \in 1..n, NEW k \in 1..d
      PROVE  (i - 1) * d + k \in 1..(d * n)
  <2>1. i - 1 \in Nat /\ n - 1 \in Nat /\ i - 1 <= n - 1
    OBVIOUS
  <2>2. d * (i - 1) \in Nat /\ d * (i - 1) <= d * (n - 1)
    BY <2>1, MulNat, MulMono
  <2>3. d * (n - 1) = d * n - d /\ d * n \in Nat
    BY MulDist, MulNat
  <2>4. d * (i - 1) = (i - 1) * d
    BY <2>1
  <2> QED
    BY <2>2, <2>3, <2>4
<1>2. ASSUME NEW i \in 1..n, NEW j \in 1..n, NEW k \in 1..d, NEW l \in 1..d, i < j
      PROVE  (i - 1) * d + k # (j - 1) * d + l
  <2>1. i - 1 \in Nat /\ j - 1 \in Nat /\ (i - 1) + 1 <= j - 1
    BY <1>2
  <2>2. d * ((i - 1) + 1) <= d * (j - 1)
    BY <2>1, MulMono
  <2>3. d * ((i - 1) + 1) = d * (i - 1) + d
    BY <2>1, MulDist
  <2>4. d * (i - 1) \in Nat /\ d * (j - 1) \in Nat
    BY <2>1, MulNat
  <2>5. d * (i - 1) = (i - 1) * d /\ d * (j - 1) = (j - 1) * d
    BY <2>1
  <2> QED
    BY <2>2, <2>3, <2>4, <2>5
<1>3. ASSUME NEW i \in 1..n, NEW j \in 1..n, NEW k \in 1..d, NEW l \in 1..d,
             (i - 1) * d + k = (j - 1) * d + l
      PROVE  i = j /\ k = l
  <2>1. i = j
    BY <1>2, <1>3
  <2>2. (i - 1) * d \in Int
    OBVIOUS
  <2> QED
    BY <1>3, <2>1, <2>2
<1>4. ASSUME NEW m \in 1..(d * n)
      PROVE  \E i \in 1..n : \E k \in 1..d : m = (i - 1) * d + k
  <2> DEFINE q == (m - 1) \div d
  <2>1. q \in Nat /\ d * q <= m - 1 /\ m - 1 < d * q + d
    BY DivNat, DivBound
  <2> HIDE DEF q
  <2>2. d * q \in Nat /\ d * n \in Nat
    BY <2>1, MulNat
  <2>3. q + 1 \in 1..n
    <3>1. SUFFICES ASSUME q >= n PROVE FALSE
      BY <2>1
    <3>2. d * n <= d * q
      BY <2>1, <3>1, MulMono
    <3> QED
      BY <2>1, <2>2, <3>2
  <2>4. m - d * q \in 1..d
    BY <2>1, <2>2
  <2>5. m = ((q + 1) - 1) * d + (m - d * q)
    <3>1. ((q + 1) - 1) * d = d * q
      BY <2>1
    <3> QED
      BY <2>2, <3>1
  <2> QED
    BY <2>3, <2>4, <2>5
<1> QED
  BY <1>1, <1>3, <1>4

(* The sum of a multiple of a mapping: d rows of its tokens. *)
LEMMA SumScale ==
  ASSUME NEW S, IsFiniteSet(S), NEW g \in [S -> Nat], NEW d \in Nat
  PROVE  Sum([u \in S |-> d * g[u]]) = d * Sum(g)
<1> DEFINE h == [u \in S |-> d * g[u]]
<1>1. Sum(g) \in Nat
  BY SumType
<1>2. CASE d = 0
  <2>1. h = [u \in S |-> 0]
    BY <1>2
  <2>2. Sum(h) = 0
    BY <2>1, SumZero
  <2> QED
    BY <1>1, <1>2, <2>2
<1>3. CASE d # 0
  <2> DEFINE pairs == (1..d) \X Units(g)
             place == [p \in pairs |-> <<p[2][1], (p[2][2] - 1) * d + p[1]>>]
  <2>1. /\ \A t \in Units(g) : t[1] \in S /\ t[2] \in 1..g[t[1]] /\ t = <<t[1], t[2]>>
        /\ \A t \in Units(h) : t[1] \in S /\ t[2] \in 1..h[t[1]] /\ t = <<t[1], t[2]>>
        /\ \A u \in S : \A i \in 1..g[u] : <<u, i>> \in Units(g)
        /\ \A u \in S : \A i \in 1..h[u] : <<u, i>> \in Units(h)
    BY DEF Units, UnitsOf
  <2>2. /\ \A u \in S : g[u] \in Nat /\ h[u] = d * g[u]
        /\ d \in Nat \ {0}
    BY <1>3
  <2>3. \A p \in pairs : /\ p[1] \in 1..d /\ p[2] \in Units(g) /\ p = <<p[1], p[2]>>
                         /\ place[p] = <<p[2][1], (p[2][2] - 1) * d + p[1]>>
    OBVIOUS
  <2> HIDE DEF h
  <2>4. place \in [pairs -> Units(h)]
    <3> SUFFICES ASSUME NEW p \in pairs
                 PROVE  <<p[2][1], (p[2][2] - 1) * d + p[1]>> \in Units(h)
      OBVIOUS
    <3>1. p[2][1] \in S /\ p[2][2] \in 1..g[p[2][1]] /\ p[1] \in 1..d
      BY <2>1, <2>3
    <3>2. (p[2][2] - 1) * d + p[1] \in 1..h[p[2][1]]
      BY <2>2, <3>1, Rows
    <3> QED
      BY <2>1, <3>1, <3>2
  <2>5. \A p, q \in pairs : place[p] = place[q] => p = q
    <3> SUFFICES ASSUME NEW p \in pairs, NEW q \in pairs, place[p] = place[q]
                 PROVE  p = q
      OBVIOUS
    <3>1. /\ p[2][1] = q[2][1]
          /\ (p[2][2] - 1) * d + p[1] = (q[2][2] - 1) * d + q[1]
      BY <2>3
    <3>2. /\ p[2][1] \in S /\ p[2][2] \in 1..g[p[2][1]] /\ p[1] \in 1..d
          /\ q[2][2] \in 1..g[p[2][1]] /\ q[1] \in 1..d
          /\ p[2] = <<p[2][1], p[2][2]>> /\ q[2] = <<q[2][1], q[2][2]>>
      BY <2>1, <2>3, <3>1
    <3>3. p[2][2] = q[2][2] /\ p[1] = q[1]
      <4>1. g[p[2][1]] \in Nat
        BY <2>2, <3>2
      <4>2. \A i, j \in 1..g[p[2][1]] : \A k, l \in 1..d :
              (i - 1) * d + k = (j - 1) * d + l => i = j /\ k = l
        BY <2>2, <4>1, Rows
      <4> QED
        BY <3>1, <3>2, <4>2
    <3>4. p[2] = q[2]
      BY <3>1, <3>2, <3>3
    <3> QED
      BY <2>3, <3>3, <3>4
  <2>6. \A t \in Units(h) : \E p \in pairs : place[p] = t
    <3> SUFFICES ASSUME NEW t \in Units(h) PROVE \E p \in pairs : place[p] = t
      OBVIOUS
    <3>1. t[1] \in S /\ t[2] \in 1..(d * g[t[1]]) /\ t = <<t[1], t[2]>>
      BY <2>1, <2>2
    <3>2. PICK i \in 1..g[t[1]], k \in 1..d : t[2] = (i - 1) * d + k
      BY <2>2, <3>1, Rows
    <3>3. <<t[1], i>> \in Units(g)
      BY <2>1, <3>1
    <3>4. <<k, <<t[1], i>>>> \in pairs
      BY <3>3
    <3>5. place[<<k, <<t[1], i>>>>] = t
      BY <3>1, <3>2, <3>4
    <3> QED
      BY <3>4, <3>5
  <2>7. place \in Surjection(pairs, Units(h)) /\ place \in Injection(pairs, Units(h))
    <3> HIDE DEF place, pairs
    <3> QED
      BY <2>4, <2>5, <2>6 DEF Surjection, Injection, IsInjective
  <2>8. IsFiniteSet(Units(g)) /\ IsFiniteSet(1..d) /\ Cardinality(1..d) = d
    <3>1. IsFiniteSet(Units(g))
      BY UnitsFinite DEF Units
    <3>2. IsFiniteSet(1..d) /\ Cardinality(1..d) = d
      BY <2>2, FS_Interval
    <3> QED
      BY <3>1, <3>2
  <2>9. IsFiniteSet(pairs) /\ Cardinality(pairs) = d * Cardinality(Units(g))
    BY <2>8, FS_Product
  <2>10. Cardinality(Units(h)) = Cardinality(pairs)
    <3> HIDE DEF pairs, place
    <3> QED
      BY <2>7, <2>9, FS_Surjection
  <2>11. Sum(h) = d * Sum(g)
    <3> HIDE DEF pairs, place
    <3> QED
      BY <2>9, <2>10 DEF Sum
  <2> QED
    BY <2>11 DEF h
<1> QED
  BY <1>2, <1>3

(* What the movement of an index by d adds to the sum of all rewards. *)
LEMMA SumLinear ==
  ASSUME NEW S, IsFiniteSet(S), NEW f \in [S -> Nat], NEW g \in [S -> Nat], NEW d \in Nat
  PROVE  Sum([u \in S |-> f[u] + d * g[u]]) = Sum(f) + d * Sum(g)
<1> DEFINE m == [u \in S |-> d * g[u]]
<1>1. m \in [S -> Nat]
  BY MulNat
<1>2. Sum(m) = d * Sum(g)
  BY SumScale
<1>3. [u \in S |-> f[u] + d * g[u]] = [u \in S |-> f[u] + m[u]]
  OBVIOUS
<1> HIDE DEF m
<1>4. Sum([u \in S |-> f[u] + m[u]]) = Sum(f) + Sum(m)
  BY <1>1, SumAdd
<1> QED
  BY <1>2, <1>3, <1>4

(* The set C is the two others, which are apart. *)
Splits(C, A, B) == C = A \cup B /\ A \cap B = {}

(* The sum over two sets apart. *)
LEMMA SumApart ==
  ASSUME NEW C, NEW A, NEW B, IsFiniteSet(A), IsFiniteSet(B), Splits(C, A, B),
         NEW f \in [C -> Nat], NEW g \in [A -> Nat], NEW h \in [B -> Nat],
         \A x \in A : f[x] = g[x], \A x \in B : f[x] = h[x]
  PROVE  Sum(f) = Sum(g) + Sum(h)
<1> USE DEF Splits
<1>1. Units(g) = UNION {UnitsOf(f, x) : x \in A} /\ Units(h) = UNION {UnitsOf(f, x) : x \in B}
  BY DEF Units, UnitsOf
<1>2. Units(f) = UNION {UnitsOf(f, x) : x \in C}
  BY DEF Units
<1>3. Units(f) = Units(g) \cup Units(h)
  BY <1>1, <1>2
<1>4. Units(g) \cap Units(h) = {}
  BY <1>1 DEF UnitsOf
<1>5. IsFiniteSet(Units(g)) /\ IsFiniteSet(Units(h))
  BY UnitsFinite DEF Units
<1>6. Cardinality(Units(g) \cap Units(h)) = 0
  BY <1>4, FS_EmptySet
<1>7. Cardinality(Units(g)) \in Nat /\ Cardinality(Units(h)) \in Nat
  BY <1>5, FS_CardinalityType
<1>8. Cardinality(Units(g) \cup Units(h)) =
        Cardinality(Units(g)) + Cardinality(Units(h)) - Cardinality(Units(g) \cap Units(h))
  BY <1>5, FS_Union
<1> QED
  BY <1>3, <1>6, <1>7, <1>8 DEF Sum

(* The sum over one account. *)
LEMMA SumOfOne ==
  ASSUME NEW a, NEW f \in [{a} -> Nat]
  PROVE  Sum(f) = f[a]
<1>1. Units(f) = UnitsOf(f, a)
  BY DEF Units
<1> QED
  BY <1>1, UnitsOfCount DEF Sum

(* The sum over one row of a table. *)
LEMMA SumOfRow ==
  ASSUME NEW a, NEW T, IsFiniteSet(T), NEW f \in [{a} \X T -> Nat]
  PROVE  Sum(f) = Sum([u \in T |-> f[<<a, u>>]])
<1> DEFINE g == [u \in T |-> f[<<a, u>>]]
           place == [t \in Units(g) |-> <<<<a, t[1]>>, t[2]>>]
<1>1. g \in [T -> Nat] /\ \A u \in T : g[u] = f[<<a, u>>]
  OBVIOUS
<1>2. /\ \A t \in Units(g) : t[1] \in T /\ t[2] \in 1..f[<<a, t[1]>>] /\ t = <<t[1], t[2]>>
      /\ \A u \in T : \A i \in 1..f[<<a, u>>] : <<u, i>> \in Units(g)
  <2> HIDE DEF g
  <2> QED
    BY <1>1 DEF Units, UnitsOf
<1>3. /\ \A t \in Units(f) : /\ t[1] \in {a} \X T /\ t[2] \in 1..f[t[1]]
                             /\ t = <<t[1], t[2]>>
      /\ \A x \in {a} \X T : \A i \in 1..f[x] : <<x, i>> \in Units(f)
  BY DEF Units, UnitsOf
<1>4. IsFiniteSet(Units(g))
  <2> HIDE DEF g
  <2> QED
    BY <1>1, UnitsFinite DEF Units
<1>5. place \in [Units(g) -> Units(f)]
  <2> SUFFICES ASSUME NEW t \in Units(g) PROVE <<<<a, t[1]>>, t[2]>> \in Units(f)
    OBVIOUS
  <2>1. t[1] \in T /\ t[2] \in 1..f[<<a, t[1]>>] /\ <<a, t[1]>> \in {a} \X T
    BY <1>2
  <2> QED
    BY <1>3, <2>1
<1> HIDE DEF g
<1>6. \A t \in Units(g) : place[t] = <<<<a, t[1]>>, t[2]>>
  OBVIOUS
<1> HIDE DEF place
<1>7. \A t, w \in Units(g) : place[t] = place[w] => t = w
  BY <1>2, <1>6
<1>8. \A s \in Units(f) : \E t \in Units(g) : place[t] = s
  <2> SUFFICES ASSUME NEW s \in Units(f) PROVE \E t \in Units(g) : place[t] = s
    OBVIOUS
  <2>1. PICK u \in T : s = <<<<a, u>>, s[2]>> /\ s[2] \in 1..f[<<a, u>>]
    BY <1>3
  <2>2. <<u, s[2]>> \in Units(g)
    BY <1>2, <2>1
  <2>3. place[<<u, s[2]>>] = s
    BY <1>6, <2>1, <2>2
  <2> QED
    BY <2>2, <2>3
<1>9. place \in Bijection(Units(g), Units(f))
  BY <1>5, <1>7, <1>8 DEF Bijection, Injection, Surjection, IsInjective
<1>10. Cardinality(Units(f)) = Cardinality(Units(g))
  BY <1>4, <1>9, FS_Bijection DEF ExistsBijection
<1> QED
  BY <1>10 DEF Sum, g

(* A table of natural numbers, and the sums of its rows. *)
IsTable(f, S, T) == f \in [S \X T -> Nat]

RowSums(f, S, T) == [a \in S |-> Sum([u \in T |-> f[<<a, u>>]])]

(* The sum over a table is the sum of the sums of its rows. *)
LEMMA SumOfRows ==
  ASSUME NEW S, IsFiniteSet(S), NEW T, IsFiniteSet(T), NEW f, IsTable(f, S, T)
  PROVE  Sum(f) = Sum(RowSums(f, S, T))
<1> USE DEF IsTable, RowSums
<1> DEFINE row(a) == Sum([u \in T |-> f[<<a, u>>]])
           part(R) == Sum([x \in R \X T |-> f[x]])
           rows(R) == Sum([a \in R |-> row(a)])
           N == {n \in Nat : \A R \in SUBSET S : Cardinality(R) = n => part(R) = rows(R)}
<1>1. \A a \in S : row(a) \in Nat
  <2> SUFFICES ASSUME NEW a \in S PROVE row(a) \in Nat
    OBVIOUS
  <2> DEFINE g == [u \in T |-> f[<<a, u>>]]
  <2>1. g \in [T -> Nat]
    OBVIOUS
  <2> HIDE DEF g
  <2>2. Sum(g) \in Nat
    BY <2>1, SumType
  <2> QED
    BY <2>2 DEF g
<1>2. \A R \in SUBSET S : IsFiniteSet(R) /\ Cardinality(R) \in Nat
  BY FS_Subset, FS_CardinalityType
<1>3. 0 \in N
  <2> SUFFICES ASSUME NEW R \in SUBSET S, Cardinality(R) = 0 PROVE part(R) = rows(R)
    OBVIOUS
  <2>1. R = {}
    BY <1>2, FS_EmptySet
  <2>2. [x \in R \X T |-> f[x]] = [x \in {} |-> 0] /\ [a \in R |-> row(a)] = [x \in {} |-> 0]
    <3> HIDE DEF row
    <3> QED
      BY <2>1
  <2> QED
    BY <2>2
<1>4. ASSUME NEW n \in N PROVE n + 1 \in N
  <2> HIDE DEF part, rows
  <2>0. n \in Nat /\ n + 1 \in Nat
    OBVIOUS
  <2> SUFFICES ASSUME NEW R \in SUBSET S, Cardinality(R) = n + 1 PROVE part(R) = rows(R)
    BY <2>0
  <2> USE DEF part, rows
  <2>1. n \in Nat /\ \A Q \in SUBSET S : Cardinality(Q) = n => part(Q) = rows(Q)
    OBVIOUS
  <2>2. R # {}
    BY <2>1, FS_EmptySet
  <2>3. PICK a \in R : TRUE
    BY <2>2
  <2> DEFINE Q == R \ {a}
             one == {a}
             rest == Q \X T
             last == {a} \X T
  <2>4. IsFiniteSet(Q) /\ Q \in SUBSET S /\ Cardinality(Q) = n
    <3>1. Cardinality(Q) = (n + 1) - 1
      BY <1>2, FS_RemoveElement
    <3> QED
      BY <1>2, <2>1, <3>1
  <2>5. /\ Q \cup {a} = R /\ Q \cap {a} = {} /\ a \in S
        /\ (Q \X T) \cup ({a} \X T) = R \X T /\ (Q \X T) \cap ({a} \X T) = {}
    OBVIOUS
  <2>6. IsFiniteSet(one) /\ IsFiniteSet(rest) /\ IsFiniteSet(last)
    BY <2>4, FS_Singleton, FS_Product
  <2> HIDE DEF N, Q
  <2>7. part(R) = part(Q) + row(a)
    <3> DEFINE g == [x \in (Q \X T) \cup ({a} \X T) |-> f[x]]
               k == [x \in {a} \X T |-> f[x]]
    <3>1. g \in [(Q \X T) \cup ({a} \X T) -> Nat] /\ k \in [{a} \X T -> Nat]
      BY <2>5
    <3>2. /\ [x \in Q \X T |-> g[x]] = [x \in Q \X T |-> f[x]]
          /\ [x \in {a} \X T |-> g[x]] = k
      BY <2>5
    <3>3. [u \in T |-> k[<<a, u>>]] = [u \in T |-> f[<<a, u>>]]
      OBVIOUS
    <3>4. g = [x \in R \X T |-> f[x]]
      BY <2>5
    <3> HIDE DEF g, k
    <3>5. Sum(g) = Sum([x \in Q \X T |-> g[x]]) + Sum([x \in {a} \X T |-> g[x]])
      <4> DEFINE h == [x \in Q \X T |-> g[x]]
      <4>1. /\ Splits(R \X T, rest, last) /\ g \in [R \X T -> Nat]
            /\ h \in [rest -> Nat] /\ k \in [last -> Nat]
            /\ \A x \in rest : g[x] = h[x]
        BY <2>5, <3>1 DEF Splits
      <4>2. \A x \in last : g[x] = k[x]
        BY <3>2
      <4> HIDE DEF rest, last, h
      <4>3. Sum(g) = Sum(h) + Sum(k)
        BY <2>6, <4>1, <4>2, SumApart
      <4> QED
        BY <3>2, <4>3 DEF h
    <3>6. Sum(k) = Sum([u \in T |-> k[<<a, u>>]])
      BY <3>1, SumOfRow
    <3> QED
      BY <3>2, <3>3, <3>4, <3>5, <3>6
  <2>8. rows(R) = rows(Q) + row(a)
    <3> DEFINE g == [x \in Q \cup {a} |-> row(x)]
               k == [x \in {a} |-> row(x)]
    <3> HIDE DEF row
    <3>1. g \in [Q \cup {a} -> Nat] /\ k \in [{a} -> Nat] /\ k[a] = row(a)
      BY <1>1, <2>5
    <3>2. [x \in Q |-> g[x]] = [x \in Q |-> row(x)] /\ [x \in {a} |-> g[x]] = k
      OBVIOUS
    <3>3. g = [x \in R |-> row(x)]
      BY <2>5
    <3> HIDE DEF g, k
    <3>4. Sum(g) = Sum([x \in Q |-> g[x]]) + Sum([x \in {a} |-> g[x]])
      <4> DEFINE h == [x \in Q |-> g[x]]
      <4>1. /\ Splits(R, Q, one) /\ g \in [R -> Nat]
            /\ h \in [Q -> Nat] /\ k \in [one -> Nat]
            /\ \A x \in Q : g[x] = h[x]
        BY <2>5, <3>1 DEF Splits
      <4>2. \A x \in one : g[x] = k[x]
        BY <3>2
      <4> HIDE DEF one, h
      <4>3. Sum(g) = Sum(h) + Sum(k)
        BY <2>4, <2>6, <4>1, <4>2, SumApart
      <4> QED
        BY <3>2, <4>3 DEF h
    <3>5. Sum(k) = k[a]
      BY <3>1, SumOfOne
    <3> QED
      BY <3>1, <3>2, <3>3, <3>4, <3>5
  <2> QED
    BY <2>1, <2>4, <2>7, <2>8
<1>5. N = Nat
  <2> HIDE DEF N
  <2>1. N \in SUBSET Nat
    BY DEF N
  <2> QED
    BY <1>3, <1>4, <2>1, SetInduction
<1>6. part(S) = rows(S)
  BY <1>2, <1>5
<1>7. [x \in S \X T |-> f[x]] = f
  OBVIOUS
<1> QED
  BY <1>6, <1>7

----------------------------------------------------------------------------
(* What the operations on an AssetData record return, for every record a   *)
(* contract can hold: the index never falls, the indexes of the users      *)
(* never overtake it, and no reward is negative.                           *)

(* _getAssetIndex returns an index that has not fallen. *)
LEMMA IndexGrows ==
  ASSUME NEW Users, NEW now \in Nat, NEW total \in Nat,
         NEW asset, SoundAsset(asset, Users, now)
  PROVE  /\ GetAssetIndex(asset, total, now) \in Nat
         /\ GetAssetIndex(asset, total, now) >= asset.index
<1> USE DistributionManagerAssumption
<1>1. /\ asset.index \in Nat /\ asset.emissionPerSecond \in Nat
      /\ asset.lastUpdateTimestamp \in Nat /\ asset.lastUpdateTimestamp <= now
  BY DEF SoundAsset, AssetData
<1> DEFINE timeDelta == Earlier(now, DISTRIBUTION_END) - asset.lastUpdateTimestamp
           step == (asset.emissionPerSecond * timeDelta * SCALE) \div total
<1>2. CASE \/ asset.emissionPerSecond = 0
           \/ total = 0
           \/ asset.lastUpdateTimestamp = now
           \/ asset.lastUpdateTimestamp >= DISTRIBUTION_END
  BY <1>1, <1>2 DEF GetAssetIndex
<1>3. CASE ~ (\/ asset.emissionPerSecond = 0
              \/ total = 0
              \/ asset.lastUpdateTimestamp = now
              \/ asset.lastUpdateTimestamp >= DISTRIBUTION_END)
  <2>1. timeDelta \in Nat
    BY <1>1, <1>3 DEF Earlier
  <2>2. asset.emissionPerSecond * timeDelta * SCALE \in Nat
    <3> HIDE DEF timeDelta
    <3>1. asset.emissionPerSecond * timeDelta \in Nat
      BY <1>1, <2>1, MulNat
    <3> QED
      BY <3>1, MulNat
  <2>3. step \in Nat
    <3> HIDE DEF timeDelta
    <3> QED
      BY <1>3, <2>2, DivNat
  <2>4. GetAssetIndex(asset, total, now) = step + asset.index
    BY <1>3 DEF GetAssetIndex
  <2> HIDE DEF step
  <2> QED
    BY <1>1, <2>3, <2>4
<1> QED
  BY <1>2, <1>3

(* _getRewards is a natural number when the user's index is not ahead. *)
LEMMA RewardsNat ==
  ASSUME NEW balance \in Nat, NEW i \in Nat, NEW j \in Nat, j <= i
  PROVE  GetRewards(balance, i, j) \in Nat
<1>1. i - j \in Nat
  OBVIOUS
<1>2. balance * (i - j) \in Nat
  BY <1>1, MulNat
<1> QED
  BY <1>2, DivNat, DistributionManagerAssumption DEF GetRewards

(* When the index moves, a user gains the movement for each staked unit,    *)
(* rounded, wherever the last rounding left the user.                       *)
LEMMA RewardsGain ==
  ASSUME NEW b \in Nat, NEW i \in Nat, NEW j \in Nat, NEW x \in Nat, x <= i, i <= j
  PROVE  /\ GetRewards(b, i, x) \in Nat /\ GetRewards(b, j, x) \in Nat
         /\ (b * (j - i)) \div SCALE \in Nat
         /\ GetRewards(b, i, x) + (b * (j - i)) \div SCALE <= GetRewards(b, j, x)
         /\ GetRewards(b, j, x) <= GetRewards(b, i, x) + (b * (j - i)) \div SCALE + 1
<1> USE DistributionManagerAssumption
<1> DEFINE old   == i - x
           d     == j - i
           past  == b * old
           moved == b * d
<1>1. old \in Nat /\ d \in Nat /\ j - x = old + d
  OBVIOUS
<1> HIDE DEF old, d
<1>2. past \in Nat /\ moved \in Nat /\ b * (old + d) = past + moved
  BY <1>1, MulNat, MulDist
<1>3. /\ GetRewards(b, i, x) = past \div SCALE
      /\ GetRewards(b, j, x) = (past + moved) \div SCALE
      /\ (b * (j - i)) \div SCALE = moved \div SCALE
  BY <1>1, <1>2 DEF GetRewards, old, d
<1> HIDE DEF past, moved
<1>4. /\ past \div SCALE \in Nat /\ moved \div SCALE \in Nat
      /\ (past + moved) \div SCALE \in Nat
      /\ past \div SCALE + moved \div SCALE <= (past + moved) \div SCALE
      /\ (past + moved) \div SCALE <= past \div SCALE + moved \div SCALE + 1
  <2>1. past + moved \in Nat
    BY <1>2
  <2> QED
    BY <1>2, <2>1, DivSum, DivNat
<1> QED
  BY <1>3, <1>4

(* A larger stake gains no less than a smaller one, but for rounding. *)
LEMMA FairGain ==
  ASSUME NEW i \in Nat, NEW j \in Nat, i <= j,
         NEW b \in Nat, NEW x \in Nat, x <= i,
         NEW c \in Nat, NEW y \in Nat, y <= i, c <= b
  PROVE  (GetRewards(b, j, x) - GetRewards(b, i, x)) + 1
           >= GetRewards(c, j, y) - GetRewards(c, i, y)
<1> USE DistributionManagerAssumption
<1> DEFINE g == (b * (j - i)) \div SCALE
           h == (c * (j - i)) \div SCALE
<1>1. /\ GetRewards(b, i, x) \in Nat /\ GetRewards(b, j, x) \in Nat /\ g \in Nat
      /\ GetRewards(b, i, x) + g <= GetRewards(b, j, x)
  BY RewardsGain
<1>2. /\ GetRewards(c, i, y) \in Nat /\ GetRewards(c, j, y) \in Nat /\ h \in Nat
      /\ GetRewards(c, j, y) <= GetRewards(c, i, y) + h + 1
  BY RewardsGain
<1>3. h <= g
  <2> DEFINE d == j - i
             m == c * d
             n == b * d
  <2>1. d \in Nat
    OBVIOUS
  <2> HIDE DEF d
  <2>2. m \in Nat /\ n \in Nat /\ m = d * c /\ n = d * b
    BY <2>1, MulNat
  <2>3. d * c <= d * b
    BY <2>1, MulMono
  <2>4. g = n \div SCALE /\ h = m \div SCALE
    BY DEF d
  <2> HIDE DEF m, n
  <2>5. m <= n
    BY <2>2, <2>3
  <2> QED
    BY <2>2, <2>4, <2>5, DivMono
<1> HIDE DEF g, h
<1> QED
  BY <1>1, <1>2, <1>3

(* _updateAssetStateInternal keeps the record sound; its index does not     *)
(* fall, it is the one _getAssetIndex shows, and it is now up to date.      *)
LEMMA UpdateAssetStateSound ==
  ASSUME NEW Users, NEW now \in Nat, NEW total \in Nat,
         NEW asset, SoundAsset(asset, Users, now)
  PROVE  LET updated == UpdateAssetState(asset, total, now)
         IN  /\ SoundAsset(updated, Users, now)
             /\ updated.index = GetAssetIndex(asset, total, now)
             /\ updated.index >= asset.index
             /\ updated.lastUpdateTimestamp = now
             /\ updated.users = asset.users
             /\ updated.emissionPerSecond = asset.emissionPerSecond
<1> DEFINE newIndex == GetAssetIndex(asset, total, now)
<1>1. newIndex \in Nat /\ newIndex >= asset.index
  BY IndexGrows
<1>2. CASE now = asset.lastUpdateTimestamp
  BY <1>1, <1>2 DEF UpdateAssetState, GetAssetIndex, SoundAsset
<1>3. CASE now # asset.lastUpdateTimestamp
  <2>1. UpdateAssetState(asset, total, now) =
          [asset EXCEPT !.index = newIndex, !.lastUpdateTimestamp = now]
    BY <1>3 DEF UpdateAssetState
  <2> HIDE DEF newIndex
  <2>2. asset \in AssetData(Users) /\ \A u \in Users : asset.users[u] <= asset.index
    BY DEF SoundAsset
  <2>3. UpdateAssetState(asset, total, now) \in AssetData(Users)
    BY <1>1, <2>1, <2>2 DEF AssetData
  <2>4. \A u \in Users : asset.users[u] <= newIndex
    BY <1>1, <2>2 DEF AssetData
  <2>5. /\ UpdateAssetState(asset, total, now).index = newIndex
        /\ UpdateAssetState(asset, total, now).lastUpdateTimestamp = now
        /\ UpdateAssetState(asset, total, now).users = asset.users
        /\ UpdateAssetState(asset, total, now).emissionPerSecond = asset.emissionPerSecond
    BY <2>1, <2>2 DEF AssetData
  <2> QED
    BY <1>1, <2>3, <2>4, <2>5 DEF SoundAsset, newIndex
<1> QED
  BY <1>2, <1>3

(* A record in which one user has been brought up to date with the asset,   *)
(* whose index is now the one given; the other users keep theirs.           *)
BroughtUpToDate(updated, asset, user, Users, index, now) ==
  /\ SoundAsset(updated, Users, now)
  /\ updated.index = index
  /\ index >= asset.index
  /\ updated.lastUpdateTimestamp = now
  /\ updated.users[user] = index
  /\ \A u \in Users \ {user} : updated.users[u] = asset.users[u]
  /\ updated.emissionPerSecond = asset.emissionPerSecond

(* That is what _updateUserAssetInternal makes of a sound record. *)
LEMMA UpdateUserAssetSound ==
  ASSUME NEW Users, NEW now \in Nat, NEW total \in Nat, NEW user \in Users,
         NEW asset, SoundAsset(asset, Users, now)
  PROVE  BroughtUpToDate(UpdateUserAsset(asset, user, total, now), asset, user, Users,
                         GetAssetIndex(asset, total, now), now)
<1> DEFINE state == UpdateAssetState(asset, total, now)
           updated == [state EXCEPT !.users[user] = state.index]
<1>1. /\ SoundAsset(state, Users, now)
      /\ state.index = GetAssetIndex(asset, total, now)
      /\ state.index >= asset.index
      /\ state.lastUpdateTimestamp = now
      /\ state.users = asset.users
      /\ state.emissionPerSecond = asset.emissionPerSecond
  BY UpdateAssetStateSound
<1>2. UpdateUserAsset(asset, user, total, now) = updated
  BY DEF UpdateUserAsset
<1> HIDE DEF state
<1>3. state \in AssetData(Users) /\ \A u \in Users : state.users[u] <= state.index
  BY <1>1 DEF SoundAsset
<1>4. /\ updated.index = state.index
      /\ updated.lastUpdateTimestamp = state.lastUpdateTimestamp
      /\ updated.users = [state.users EXCEPT ![user] = state.index]
      /\ updated.emissionPerSecond = state.emissionPerSecond
      /\ updated \in AssetData(Users)
  BY <1>3 DEF AssetData
<1> HIDE DEF updated
<1>5. state.index \in Nat /\ state.users \in [Users -> Nat]
  BY <1>3 DEF AssetData
<1>6. \A u \in Users : updated.users[u] <= updated.index
  BY <1>3, <1>4, <1>5
<1>7. SoundAsset(updated, Users, now)
  BY <1>1, <1>4, <1>6 DEF SoundAsset
<1>8. /\ updated.users[user] = updated.index
      /\ \A u \in Users \ {user} : updated.users[u] = asset.users[u]
  BY <1>1, <1>4, <1>5
<1> QED
  BY <1>1, <1>2, <1>4, <1>7, <1>8 DEF BroughtUpToDate

(* In particular the record stays sound. *)
LEMMA UpdatedAssetSound ==
  ASSUME NEW Users, NEW now \in Nat, NEW total \in Nat, NEW user \in Users,
         NEW asset, SoundAsset(asset, Users, now)
  PROVE  SoundAsset(UpdateUserAsset(asset, user, total, now), Users, now)
<1>1. BroughtUpToDate(UpdateUserAsset(asset, user, total, now), asset, user, Users,
                      GetAssetIndex(asset, total, now), now)
  BY UpdateUserAssetSound
<1> QED
  BY <1>1 DEF BroughtUpToDate

(* The rewards _updateUserAssetInternal returns are never negative. *)
LEMMA AccruedRewardsNat ==
  ASSUME NEW Users, NEW now \in Nat, NEW total \in Nat, NEW user \in Users,
         NEW balance \in Nat, NEW asset, SoundAsset(asset, Users, now)
  PROVE  AccruedRewards(asset, user, balance, total, now) \in Nat
<1> DEFINE state == UpdateAssetState(asset, total, now)
<1>1. SoundAsset(state, Users, now) /\ state.users = asset.users
  BY UpdateAssetStateSound
<1> HIDE DEF state
<1>2. state.index \in Nat /\ asset.users[user] \in Nat /\ asset.users[user] <= state.index
  BY <1>1 DEF SoundAsset, AssetData
<1>3. GetRewards(balance, state.index, asset.users[user]) \in Nat
  BY <1>2, RewardsNat
<1> QED
  BY <1>3 DEF AccruedRewards, state

(* An update in the same block as an earlier one, as _transfer makes for   *)
(* its second user, moves only that user's index.                           *)
LEMMA SameBlockUpdate ==
  ASSUME NEW Users, NEW now \in Nat, NEW total \in Nat, NEW user \in Users,
         NEW asset, SoundAsset(asset, Users, now), asset.lastUpdateTimestamp = now
  PROVE  LET updated == UpdateUserAsset(asset, user, total, now)
         IN  /\ updated.index = asset.index
             /\ updated.lastUpdateTimestamp = now
             /\ updated.users[user] = asset.index
             /\ \A u \in Users \ {user} : updated.users[u] = asset.users[u]
             /\ updated.emissionPerSecond = asset.emissionPerSecond
<1>1. GetAssetIndex(asset, total, now) = asset.index
  BY DEF GetAssetIndex
<1> DEFINE updated == UpdateUserAsset(asset, user, total, now)
<1>2. BroughtUpToDate(updated, asset, user, Users, GetAssetIndex(asset, total, now), now)
  BY UpdateUserAssetSound
<1> HIDE DEF updated
<1>3. BroughtUpToDate(updated, asset, user, Users, asset.index, now)
  BY <1>1, <1>2
<1> QED
  BY <1>3 DEF updated, BroughtUpToDate

(* configureAssets keeps the record sound, whatever total it is told. *)
LEMMA ConfigureAssetSound ==
  ASSUME NEW Users, NEW now \in Nat, NEW total \in Nat, NEW emission \in Nat,
         NEW asset, SoundAsset(asset, Users, now)
  PROVE  LET updated == ConfigureAsset(asset, emission, total, now)
         IN  /\ SoundAsset(updated, Users, now)
             /\ updated.index = GetAssetIndex(asset, total, now)
             /\ updated.lastUpdateTimestamp = now
             /\ updated.users = asset.users
             /\ updated.emissionPerSecond = emission
<1> DEFINE state == UpdateAssetState(asset, total, now)
           updated == [state EXCEPT !.emissionPerSecond = emission]
<1>1. /\ SoundAsset(state, Users, now)
      /\ state.index = GetAssetIndex(asset, total, now)
      /\ state.lastUpdateTimestamp = now
      /\ state.users = asset.users
  BY UpdateAssetStateSound
<1>2. ConfigureAsset(asset, emission, total, now) = updated
  BY DEF ConfigureAsset
<1> HIDE DEF state
<1>3. /\ updated.index = state.index
      /\ updated.lastUpdateTimestamp = state.lastUpdateTimestamp
      /\ updated.users = state.users
      /\ updated.emissionPerSecond = emission
      /\ updated \in AssetData(Users)
  BY <1>1 DEF AssetData, SoundAsset
<1> HIDE DEF updated
<1>4. SoundAsset(updated, Users, now)
  BY <1>1, <1>3 DEF SoundAsset
<1> QED
  BY <1>1, <1>2, <1>3, <1>4
----------------------------------------------------------------------------
(* The emission of an asset against its index.                             *)

(* What was emitted for an asset since the last update of its record.      *)
EmissionSince(asset, total, now) ==
  IF total = 0 \/ asset.lastUpdateTimestamp >= DISTRIBUTION_END
  THEN 0
  ELSE asset.emissionPerSecond
         * (Earlier(now, DISTRIBUTION_END) - asset.lastUpdateTimestamp)

(* The movement of the index costs all stakers together no more than the    *)
(* emission since its last update.                                          *)
LEMMA IndexCost ==
  ASSUME NEW Users, NEW now \in Nat, NEW total \in Nat,
         NEW asset, SoundAsset(asset, Users, now)
  PROVE  /\ EmissionSince(asset, total, now) \in Nat
         /\ SCALE * EmissionSince(asset, total, now) \in Nat
         /\ (GetAssetIndex(asset, total, now) - asset.index) * total
              <= SCALE * EmissionSince(asset, total, now)
<1> DEFINE timeDelta == Earlier(now, DISTRIBUTION_END) - asset.lastUpdateTimestamp
           amount == asset.emissionPerSecond * timeDelta * SCALE
           index == GetAssetIndex(asset, total, now)
           pending == EmissionSince(asset, total, now)
<1>1. /\ index \in Nat /\ asset.index \in Nat /\ index >= asset.index
      /\ SCALE \in Nat \ {0}
      /\ asset.emissionPerSecond \in Nat /\ asset.lastUpdateTimestamp \in Nat
      /\ asset.lastUpdateTimestamp <= now /\ DISTRIBUTION_END \in Nat
  BY IndexGrows, DistributionManagerAssumption DEF SoundAsset, AssetData
<1>2. pending \in Nat /\ SCALE * pending \in Nat
  <2>1. CASE total = 0 \/ asset.lastUpdateTimestamp >= DISTRIBUTION_END
    BY <1>1, <2>1 DEF EmissionSince
  <2>2. CASE ~ (total = 0 \/ asset.lastUpdateTimestamp >= DISTRIBUTION_END)
    <3>1. timeDelta \in Nat
      BY <1>1, <2>2 DEF Earlier
    <3>2. pending = asset.emissionPerSecond * timeDelta
      BY <2>2 DEF EmissionSince
    <3> HIDE DEF timeDelta, pending
    <3>3. pending \in Nat
      BY <1>1, <3>1, <3>2, MulNat
    <3> QED
      BY <1>1, <3>3, MulNat
  <2> QED
    BY <2>1, <2>2
<1>3. CASE \/ asset.emissionPerSecond = 0
           \/ total = 0
           \/ asset.lastUpdateTimestamp = now
           \/ asset.lastUpdateTimestamp >= DISTRIBUTION_END
  <2>1. index = asset.index
    BY <1>3 DEF GetAssetIndex
  <2>2. (index - asset.index) * total = 0
    BY <1>1, <2>1
  <2> QED
    BY <1>2, <2>2
<1>4. CASE ~ (\/ asset.emissionPerSecond = 0
              \/ total = 0
              \/ asset.lastUpdateTimestamp = now
              \/ asset.lastUpdateTimestamp >= DISTRIBUTION_END)
  <2>1. timeDelta \in Nat
    BY <1>1, <1>4 DEF Earlier
  <2>2. pending = asset.emissionPerSecond * timeDelta
    BY <1>4 DEF EmissionSince
  <2>3. index = amount \div total + asset.index
    BY <1>4 DEF GetAssetIndex
  <2> HIDE DEF timeDelta, index, pending
  <2>4. amount \in Nat /\ amount = SCALE * pending
    BY <1>1, <1>2, <2>2
  <2> HIDE DEF amount
  <2>5. amount \div total \in Nat /\ total * (amount \div total) <= amount
    BY <1>1, <1>4, <2>4, DivNat, DivBound
  <2>6. index - asset.index = amount \div total
    BY <1>1, <2>3, <2>5
  <2>7. (index - asset.index) * total = total * (amount \div total)
    BY <1>1, <2>5, <2>6
  <2>8. (index - asset.index) * total <= SCALE * pending
    BY <1>2, <2>4, <2>5, <2>7
  <2> QED
    BY <1>2, <2>8 DEF index, pending
<1> QED
  BY <1>2, <1>3, <1>4

(* One second adds its emission, while somebody stakes and the             *)
(* distribution lasts.                                                     *)
LEMMA EmissionOfASecond ==
  ASSUME NEW Users, NEW now \in Nat, NEW total \in Nat,
         NEW asset, SoundAsset(asset, Users, now)
  PROVE  EmissionSince(asset, total, now + 1) =
           EmissionSince(asset, total, now)
             + (IF total # 0 /\ now < DISTRIBUTION_END
                THEN asset.emissionPerSecond ELSE 0)
<1> DEFINE last == asset.lastUpdateTimestamp
           rate == asset.emissionPerSecond
           past == Earlier(now, DISTRIBUTION_END) - last
<1>1. /\ rate \in Nat /\ last \in Nat /\ last <= now /\ DISTRIBUTION_END \in Nat
  BY DistributionManagerAssumption DEF SoundAsset, AssetData
<1>2. CASE total = 0 \/ last >= DISTRIBUTION_END
  BY <1>1, <1>2 DEF EmissionSince
<1>3. CASE ~(total = 0 \/ last >= DISTRIBUTION_END) /\ now < DISTRIBUTION_END
  <2>1. past \in Nat /\ Earlier(now + 1, DISTRIBUTION_END) - last = past + 1
    BY <1>1, <1>3 DEF Earlier
  <2>2. /\ EmissionSince(asset, total, now) = rate * past
        /\ EmissionSince(asset, total, now + 1) = rate * (past + 1)
    BY <1>3, <2>1 DEF EmissionSince
  <2>3. total # 0 /\ now < DISTRIBUTION_END
    BY <1>3
  <2> HIDE DEF past, rate
  <2>4. rate * (past + 1) = rate * past + rate
    BY <1>1, <2>1, MulDist
  <2> QED
    BY <2>2, <2>3, <2>4 DEF rate
<1>4. CASE ~(total = 0 \/ last >= DISTRIBUTION_END) /\ ~(now < DISTRIBUTION_END)
  <2>1. Earlier(now + 1, DISTRIBUTION_END) = Earlier(now, DISTRIBUTION_END)
    BY <1>1, <1>4 DEF Earlier
  <2>2. EmissionSince(asset, total, now + 1) = EmissionSince(asset, total, now)
    BY <2>1 DEF EmissionSince
  <2>3. EmissionSince(asset, total, now) \in Nat
    BY IndexCost
  <2> QED
    BY <1>4, <2>2, <2>3
<1> QED
  BY <1>2, <1>3, <1>4

(* The index of a later second is not a smaller one. *)
LEMMA LaterIndex ==
  ASSUME NEW Users, NEW now \in Nat, NEW total \in Nat,
         NEW asset, SoundAsset(asset, Users, now)
  PROVE  /\ GetAssetIndex(asset, total, now + 1) \in Nat
         /\ GetAssetIndex(asset, total, now + 1) >= GetAssetIndex(asset, total, now)
         /\ total = 0 \/ now >= DISTRIBUTION_END =>
              GetAssetIndex(asset, total, now + 1) = GetAssetIndex(asset, total, now)
<1> USE DistributionManagerAssumption
<1> DEFINE index == GetAssetIndex(asset, total, now)
           next == GetAssetIndex(asset, total, now + 1)
           last == asset.lastUpdateTimestamp
           rate == asset.emissionPerSecond
           step(t) == (rate * (Earlier(t, DISTRIBUTION_END) - last) * SCALE) \div total
<1>1. /\ last \in Nat /\ last <= now
      /\ rate \in Nat /\ asset.index \in Nat /\ index \in Nat
      /\ index >= asset.index
  BY IndexGrows DEF SoundAsset, AssetData
<1>2. CASE rate = 0 \/ total = 0 \/ last >= DISTRIBUTION_END
  <2>1. index = asset.index /\ next = asset.index
    BY <1>2 DEF GetAssetIndex
  <2> QED
    BY <1>1, <2>1
<1>3. CASE ~(rate = 0 \/ total = 0 \/ last >= DISTRIBUTION_END)
  <2>1. next = step(now + 1) + asset.index
    <3>1. last # now + 1
      BY <1>1
    <3> QED
      BY <1>3, <3>1 DEF GetAssetIndex
  <2>2. last # now => index = step(now) + asset.index
    BY <1>3 DEF GetAssetIndex
  <2>3. last = now => index = asset.index
    BY DEF GetAssetIndex
  <2> DEFINE d == Earlier(now, DISTRIBUTION_END) - last
             e == Earlier(now + 1, DISTRIBUTION_END) - last
  <2>4. d \in Nat /\ e \in Nat /\ d <= e /\ (now >= DISTRIBUTION_END => d = e)
    BY <1>1, <1>3 DEF Earlier
  <2> HIDE DEF last, rate, index, next
  <2>5. /\ step(now) = (rate * d * SCALE) \div total
        /\ step(now + 1) = (rate * e * SCALE) \div total
    OBVIOUS
  <2> HIDE DEF d, e
  <2>6. /\ rate * d * SCALE \in Nat /\ rate * e * SCALE \in Nat
        /\ rate * d * SCALE <= rate * e * SCALE
    <3>1. rate * d \in Nat /\ rate * e \in Nat /\ rate * d <= rate * e
      BY <1>1, <2>4, MulNat, MulMono
    <3> DEFINE x == rate * d
               y == rate * e
    <3>2. x \in Nat /\ y \in Nat /\ x <= y
      BY <3>1
    <3> HIDE DEF x, y
    <3>3. x * SCALE \in Nat /\ y * SCALE \in Nat /\ x * SCALE = SCALE * x
          /\ y * SCALE = SCALE * y
      BY <3>2, MulNat
    <3>4. SCALE * x <= SCALE * y
      BY <3>2, MulMono
    <3>5. x * SCALE <= y * SCALE
      BY <3>3, <3>4
    <3> QED
      BY <3>3, <3>5 DEF x, y
  <2> HIDE DEF step
  <2>7. step(now) \in Nat /\ step(now + 1) \in Nat /\ step(now) <= step(now + 1)
    <3> DEFINE x == rate * d * SCALE
               y == rate * e * SCALE
    <3>1. x \in Nat /\ y \in Nat /\ x <= y /\ total \in Nat \ {0}
      BY <1>1, <1>3, <2>6
    <3>2. step(now) = x \div total /\ step(now + 1) = y \div total
      BY <2>5
    <3> HIDE DEF x, y
    <3> QED
      BY <3>1, <3>2, DivMono
  <2>8. now >= DISTRIBUTION_END => step(now + 1) = step(now)
    BY <2>4, <2>5
  <2>9. last = now => ~(now >= DISTRIBUTION_END)
    BY <1>1, <1>3
  <2>10. /\ next \in Nat /\ next >= index
         /\ total = 0 \/ now >= DISTRIBUTION_END => next = index
    <3>1. CASE last = now
      BY <1>1, <1>3, <2>1, <2>3, <2>7, <2>9, <3>1
    <3>2. CASE last # now
      BY <1>1, <1>3, <2>1, <2>2, <2>7, <2>8, <3>2
    <3> QED
      BY <3>1, <3>2
  <2> QED
    BY <2>10 DEF next, index
<1> QED
  BY <1>2, <1>3

----------------------------------------------------------------------------
(* The histories of power and the delegations.                             *)

(* A history as the contracts keep it: a snapshot per block at most, in the *)
(* order of the blocks, none of the future.                                 *)
IsHistory(history, block) ==
  /\ history \in Seq(Snapshot)
  /\ \A i \in 1..Len(history) : history[i].blockNumber <= block
  /\ \A i, j \in 1..Len(history) :
       i < j => history[i].blockNumber < history[j].blockNumber

(* A longer history: what it says of earlier blocks is as it was. *)
Prolongs(later, history, block) ==
  /\ Len(history) <= Len(later)
  /\ \A i \in 1..Len(history) :
       history[i].blockNumber < block => later[i] = history[i]
  /\ \A i \in 1..Len(later) :
       later[i].blockNumber < block => i <= Len(history) /\ later[i] = history[i]

(* A snapshot whose value is replaced is a snapshot. *)
LEMMA ReplacedValue ==
  ASSUME NEW s \in Snapshot, NEW value \in Nat
  PROVE  LET t == [s EXCEPT !.value = value]
         IN  t \in Snapshot /\ t.blockNumber = s.blockNumber /\ t.value = value
BY DEF Snapshot

(* One more snapshot at the end. *)
LEMMA AppendedSnapshot ==
  ASSUME NEW h \in Seq(Snapshot), NEW e \in Snapshot, NEW block \in Nat,
         IsHistory(h, block), e.blockNumber = block,
         Len(h) # 0 => h[Len(h)].blockNumber # block
  PROVE  /\ IsHistory(Append(h, e), block)
         /\ Prolongs(Append(h, e), h, block)
         /\ Append(h, e) # <<>>
         /\ Append(h, e)[Len(Append(h, e))] = e
<1> DEFINE k == Append(h, e)
<1>1. /\ k \in Seq(Snapshot) /\ Len(h) \in Nat /\ Len(k) = Len(h) + 1
      /\ k[Len(h) + 1] = e
      /\ \A i \in 1..Len(h) : k[i] = h[i]
  OBVIOUS
<1>2. k # <<>>
  BY <1>1
<1> HIDE DEF k
<1>3. \A i \in 1..Len(h) : h[i] \in Snapshot /\ h[i].blockNumber \in Nat
  <2>1. \A i \in 1..Len(h) : h[i] \in Snapshot
    OBVIOUS
  <2>2. \A s \in Snapshot : s.blockNumber \in Nat
    BY DEF Snapshot
  <2> QED
    BY <2>1, <2>2
<1>4. \A i \in 1..Len(h) : h[i].blockNumber <= block
  BY DEF IsHistory
<1>5. \A i \in 1..Len(h) : h[i].blockNumber < block
  <2> TAKE i \in 1..Len(h)
  <2>1. CASE i = Len(h)
    BY <2>1, <1>3, <1>4
  <2>2. CASE i < Len(h)
    <3>1. h[i].blockNumber < h[Len(h)].blockNumber
      BY <1>1, <2>2 DEF IsHistory
    <3>2. Len(h) \in 1..Len(h)
      BY <1>1, <2>2
    <3> QED
      BY <1>3, <1>4, <3>1, <3>2
  <2> QED
    BY <1>1, <2>1, <2>2
<1>6. IsHistory(k, block)
  <2>1. \A i \in 1..Len(k) : i \in 1..Len(h) \/ i = Len(h) + 1
    BY <1>1
  <2>2. \A i \in 1..Len(k) : k[i].blockNumber <= block
    BY <1>1, <1>4, <2>1
  <2>3. \A i, j \in 1..Len(k) : i < j => k[i].blockNumber < k[j].blockNumber
    <3> SUFFICES ASSUME NEW i \in 1..Len(k), NEW j \in 1..Len(k), i < j
                 PROVE  k[i].blockNumber < k[j].blockNumber
      OBVIOUS
    <3>1. i \in 1..Len(h)
      BY <1>1
    <3>2. CASE j \in 1..Len(h)
      BY <1>1, <3>1, <3>2 DEF IsHistory
    <3>3. CASE j = Len(h) + 1
      BY <1>1, <1>5, <3>1, <3>3
    <3> QED
      BY <2>1, <3>2, <3>3
  <2> QED
    BY <1>1, <2>2, <2>3 DEF IsHistory
<1>7. Prolongs(k, h, block)
  <2>1. \A i \in 1..Len(k) : k[i].blockNumber < block => i <= Len(h)
    BY <1>1
  <2> QED
    BY <1>1, <2>1 DEF Prolongs
<1> QED
  BY <1>1, <1>2, <1>6, <1>7 DEF k

(* The last snapshot replaced by one of the same block. *)
LEMMA ReplacedSnapshot ==
  ASSUME NEW h \in Seq(Snapshot), NEW e \in Snapshot, NEW block \in Nat,
         IsHistory(h, block), e.blockNumber = block,
         Len(h) # 0, h[Len(h)].blockNumber = block
  PROVE  LET k == [h EXCEPT ![Len(h)] = e]
         IN  /\ IsHistory(k, block)
             /\ Prolongs(k, h, block)
             /\ k # <<>>
             /\ k[Len(k)] = e
<1> DEFINE k == [h EXCEPT ![Len(h)] = e]
<1>1. Len(h) \in Nat /\ Len(h) \in 1..Len(h)
  OBVIOUS
<1>2. /\ k \in Seq(Snapshot) /\ Len(k) = Len(h) /\ k[Len(h)] = e
      /\ \A i \in 1..Len(h) : i # Len(h) => k[i] = h[i]
  BY <1>1
<1>3. k # <<>>
  BY <1>1, <1>2
<1> HIDE DEF k
<1>4. \A i \in 1..Len(h) : k[i].blockNumber = h[i].blockNumber
  BY <1>2
<1>5. IsHistory(k, block)
  BY <1>2, <1>4 DEF IsHistory
<1>6. Prolongs(k, h, block)
  <2>1. \A i \in 1..Len(h) : h[i].blockNumber < block => i # Len(h)
    BY <1>1
  <2> QED
    BY <1>2, <1>4, <2>1 DEF Prolongs
<1> QED
  BY <1>2, <1>3, <1>5, <1>6 DEF k

(* What _writeSnapshot leaves behind: the owner with the new value, its     *)
(* finished blocks as they were, and the others alone.                      *)
Written(after, snapshots, Owners, o, value, block) ==
  /\ after \in [Owners -> Seq(Snapshot)]
  /\ IsHistory(after[o], block)
  /\ Prolongs(after[o], snapshots[o], block)
  /\ \A b \in Nat : LatestPower(after[o], b) = value
  /\ after[o] # <<>>
  /\ \A u \in Owners \ {o} : after[u] = snapshots[u]

(* _writeSnapshot of a history and a new value leaves just that. *)
LEMMA WriteSnapshotSound ==
  ASSUME NEW Owners, NEW snapshots \in [Owners -> Seq(Snapshot)], NEW o \in Owners,
         NEW value \in Nat, NEW block \in Nat, IsHistory(snapshots[o], block),
         NEW after, after = WriteSnapshot(snapshots, o, value, block)
  PROVE  Written(after, snapshots, Owners, o, value, block)
<1> DEFINE h     == snapshots[o]
           entry == [blockNumber |-> block, value |-> value]
<1>1. /\ h \in Seq(Snapshot) /\ Len(h) \in Nat /\ IsHistory(h, block)
      /\ entry \in Snapshot /\ entry.blockNumber = block /\ entry.value = value
  BY DEF Snapshot
<1>2. PICK k : /\ after = [snapshots EXCEPT ![o] = k]
               /\ IsHistory(k, block) /\ Prolongs(k, h, block)
               /\ k # <<>> /\ k[Len(k)].value = value
  <2>1. CASE Len(h) # 0 /\ h[Len(h)].blockNumber = block
    <3> DEFINE last == [h[Len(h)] EXCEPT !.value = value]
               k    == [h EXCEPT ![Len(h)] = last]
    <3>1. h[Len(h)] \in Snapshot
      BY <1>1, <2>1
    <3>2. last \in Snapshot /\ last.blockNumber = block /\ last.value = value
      BY <2>1, <3>1, ReplacedValue
    <3>3. after = [snapshots EXCEPT ![o] = k]
      BY <2>1 DEF WriteSnapshot
    <3> HIDE DEF h, last
    <3>4. /\ IsHistory(k, block) /\ Prolongs(k, h, block)
          /\ k # <<>> /\ k[Len(k)] = last
      BY <1>1, <2>1, <3>2, ReplacedSnapshot
    <3> QED
      BY <3>2, <3>3, <3>4
  <2>2. CASE ~(Len(h) # 0 /\ h[Len(h)].blockNumber = block)
    <3> DEFINE k == Append(h, entry)
    <3>1. after = [snapshots EXCEPT ![o] = k]
      BY <2>2 DEF WriteSnapshot
    <3> HIDE DEF h, entry
    <3>2. /\ IsHistory(k, block) /\ Prolongs(k, h, block)
          /\ k # <<>> /\ k[Len(k)] = entry
      BY <1>1, <2>2, AppendedSnapshot
    <3> QED
      BY <1>1, <3>1, <3>2
  <2> QED
    BY <2>1, <2>2
<1>3. k \in Seq(Snapshot)
  BY <1>2 DEF IsHistory
<1>4. /\ after \in [Owners -> Seq(Snapshot)] /\ after[o] = k
      /\ \A u \in Owners \ {o} : after[u] = snapshots[u]
  BY <1>2, <1>3
<1>5. \A b \in Nat : LatestPower(after[o], b) = value
  BY <1>2, <1>4 DEF LatestPower
<1> QED
  BY <1>2, <1>4, <1>5 DEF Written

(* The histories of all owners. *)
SoundSnapshots(snapshots, Owners, block) ==
  /\ snapshots \in [Owners -> Seq(Snapshot)]
  /\ \A u \in Owners : IsHistory(snapshots[u], block)

(* _moveDelegatesByType moves the amount from the latest power of one       *)
(* account to that of another, or mints or burns it.                        *)
LEMMA MoveDelegatesSound ==
  ASSUME NEW Owners, ZERO_ADDRESS \notin Owners,
         NEW snapshots, NEW block \in Nat, SoundSnapshots(snapshots, Owners, block),
         NEW b \in [Owners -> Nat],
         NEW from \in Owners \cup {ZERO_ADDRESS}, NEW to \in Owners \cup {ZERO_ADDRESS},
         NEW amount \in Nat, from # to,
         NEW after \in MoveDelegates(snapshots, b, from, to, amount, block)
  PROVE  /\ SoundSnapshots(after, Owners, block)
         /\ \A u \in Owners : Prolongs(after[u], snapshots[u], block)
         /\ \A u \in Owners \ {from, to} : after[u] = snapshots[u]
         /\ from # ZERO_ADDRESS =>
              /\ after[from] # <<>>
              /\ amount <= LatestPower(snapshots[from], b[from])
              /\ \A n \in Nat : LatestPower(after[from], n)
                                  = LatestPower(snapshots[from], b[from]) - amount
         /\ to # ZERO_ADDRESS =>
              /\ after[to] # <<>>
              /\ \A n \in Nat : LatestPower(after[to], n)
                                  = LatestPower(snapshots[to], b[to]) + amount
<1> DEFINE power(u) == LatestPower(snapshots[u], b[u])
           debited  == IF from = ZERO_ADDRESS THEN snapshots
                       ELSE WriteSnapshot(snapshots, from, power(from) - amount, block)
           credited == IF to = ZERO_ADDRESS THEN debited
                       ELSE WriteSnapshot(debited, to, power(to) + amount, block)
<1>1. \A u \in Owners : power(u) \in Nat
  <2> TAKE u \in Owners
  <2>1. snapshots[u] \in Seq(Snapshot) /\ b[u] \in Nat
    BY DEF SoundSnapshots
  <2>2. snapshots[u] # <<>> => snapshots[u][Len(snapshots[u])] \in Snapshot
    BY <2>1
  <2>3. \A s \in Snapshot : s.value \in Nat
    BY DEF Snapshot
  <2> QED
    BY <2>1, <2>2, <2>3 DEF LatestPower
<1>2. after = credited /\ (from # ZERO_ADDRESS => power(from) >= amount)
  BY DEF MoveDelegates
<1> HIDE DEF power
<1>3. /\ SoundSnapshots(debited, Owners, block)
      /\ \A u \in Owners \ {from} : debited[u] = snapshots[u]
      /\ from # ZERO_ADDRESS =>
           /\ debited[from] # <<>>
           /\ Prolongs(debited[from], snapshots[from], block)
           /\ \A n \in Nat : LatestPower(debited[from], n) = power(from) - amount
  <2>1. CASE from = ZERO_ADDRESS
    BY <2>1
  <2>2. CASE from # ZERO_ADDRESS
    <3> DEFINE value == power(from) - amount
    <3>1. value \in Nat
      BY <1>1, <1>2, <2>2
    <3>2. snapshots \in [Owners -> Seq(Snapshot)] /\ IsHistory(snapshots[from], block)
      BY <2>2 DEF SoundSnapshots
    <3>3. from \in Owners /\ debited = WriteSnapshot(snapshots, from, value, block)
      BY <2>2
    <3> HIDE DEF value, debited
    <3>4. Written(debited, snapshots, Owners, from, value, block)
      BY <3>1, <3>2, <3>3, WriteSnapshotSound
    <3> QED
      BY <2>2, <3>4 DEF SoundSnapshots, Written, value
  <2> QED
    BY <2>1, <2>2
<1>4. credited = IF to = ZERO_ADDRESS THEN debited
                 ELSE WriteSnapshot(debited, to, power(to) + amount, block)
  OBVIOUS
<1> HIDE DEF debited, credited
<1>5. /\ SoundSnapshots(credited, Owners, block)
      /\ \A u \in Owners \ {to} : credited[u] = debited[u]
      /\ to # ZERO_ADDRESS =>
           /\ credited[to] # <<>>
           /\ Prolongs(credited[to], debited[to], block)
           /\ \A n \in Nat : LatestPower(credited[to], n) = power(to) + amount
  <2>1. CASE to = ZERO_ADDRESS
    BY <1>3, <1>4, <2>1
  <2>2. CASE to # ZERO_ADDRESS
    <3> DEFINE value == power(to) + amount
    <3>1. value \in Nat
      BY <1>1, <2>2
    <3>2. debited \in [Owners -> Seq(Snapshot)] /\ IsHistory(debited[to], block)
      BY <1>3, <2>2 DEF SoundSnapshots
    <3>3. to \in Owners /\ credited = WriteSnapshot(debited, to, value, block)
      BY <1>4, <2>2
    <3> HIDE DEF value
    <3>4. Written(credited, debited, Owners, to, value, block)
      BY <3>1, <3>2, <3>3, WriteSnapshotSound
    <3> QED
      BY <1>3, <2>2, <3>4 DEF SoundSnapshots, Written, value
  <2> QED
    BY <2>1, <2>2
<1>6. \A u \in Owners : Prolongs(snapshots[u], snapshots[u], block)
  <2> TAKE u \in Owners
  <2>1. snapshots[u] \in Seq(Snapshot)
    BY DEF SoundSnapshots
  <2> QED
    BY <2>1 DEF Prolongs
<1>7. \A u \in Owners : Prolongs(credited[u], snapshots[u], block)
  BY <1>3, <1>5, <1>6
<1> QED
  BY <1>2, <1>3, <1>5, <1>7 DEF power

(* The stake of those whose power an account has. *)
Delegated(delegates, b, Owners, u) ==
  Sum([v \in Owners |-> IF GetDelegatee(delegates, v) = u THEN b[v] ELSE 0])

(* It changes with the stake or with the delegatee of one account. *)
LEMMA DelegatedChange ==
  ASSUME NEW Owners, IsFiniteSet(Owners), NEW b \in [Owners -> Nat], NEW c \in [Owners -> Nat],
         NEW d, NEW e, NEW o \in Owners, NEW u,
         \A v \in Owners \ {o} : c[v] = b[v] /\ GetDelegatee(e, v) = GetDelegatee(d, v)
  PROVE  /\ Delegated(d, b, Owners, u) \in Nat
         /\ Delegated(e, c, Owners, u) \in Nat
         /\ GetDelegatee(d, o) = u => b[o] <= Delegated(d, b, Owners, u)
         /\ Delegated(e, c, Owners, u) + (IF GetDelegatee(d, o) = u THEN b[o] ELSE 0)
              = Delegated(d, b, Owners, u) + (IF GetDelegatee(e, o) = u THEN c[o] ELSE 0)
<1> DEFINE f == [v \in Owners |-> IF GetDelegatee(d, v) = u THEN b[v] ELSE 0]
           g == [v \in Owners |-> IF GetDelegatee(e, v) = u THEN c[v] ELSE 0]
<1>1. f \in [Owners -> Nat] /\ g \in [Owners -> Nat]
  OBVIOUS
<1>2. \A v \in Owners \ {o} : g[v] = f[v]
  OBVIOUS
<1>3. /\ f[o] = IF GetDelegatee(d, o) = u THEN b[o] ELSE 0
      /\ g[o] = IF GetDelegatee(e, o) = u THEN c[o] ELSE 0
  OBVIOUS
<1>4. Delegated(d, b, Owners, u) = Sum(f) /\ Delegated(e, c, Owners, u) = Sum(g)
  BY DEF Delegated
<1> HIDE DEF f, g
<1>5. Sum(g) + f[o] = Sum(f) + g[o]
  BY <1>1, <1>2, SumChange
<1>6. Sum(f) \in Nat /\ Sum(g) \in Nat /\ f[o] <= Sum(f)
  BY <1>1, SumType
<1> QED
  BY <1>3, <1>4, <1>5, <1>6

(* The power record of one type, given the stakes: the latest power of an   *)
(* account is the stake of those who delegate to it, and an account without *)
(* history, whose power is taken to be its own stake, has nobody else's     *)
(* power and has given its own to nobody.                                   *)
SoundPower(data, Owners, b, block) ==
  /\ data \in DelegationData(Owners)
  /\ SoundSnapshots(data.snapshots, Owners, block)
  /\ \A u \in Owners :
       LatestPower(data.snapshots[u], b[u]) = Delegated(data.delegates, b, Owners, u)
  /\ \A u \in Owners :
       data.snapshots[u] = <<>> =>
         \A v \in Owners : GetDelegatee(data.delegates, v) = u <=> v = u

(* What becomes of the histories in a step. *)
PowerKept(after, data, Owners, block) ==
  \A u \in Owners :
    /\ Prolongs(after.snapshots[u], data.snapshots[u], block)
    /\ after.snapshots[u] = <<>> => data.snapshots[u] = <<>>

(* What a step of the record of one type of power may do, while the stakes  *)
(* become c.                                                                *)
PowerMoved(after, data, Owners, c, b, block) ==
  /\ SoundPower(after, Owners, c, block)
  /\ PowerKept(after, data, Owners, block)
  /\ \A u \in Owners : after.snapshots[u] = <<>> => c[u] = b[u]

(* A movement of stake: a mint comes from the zero address, a burn goes to  *)
(* it, and the stakes b become c.                                           *)
StakeMoves(b, c, Owners, from, to, amount) ==
  /\ b \in [Owners -> Nat] /\ c \in [Owners -> Nat] /\ amount \in Nat
  /\ from = to => c = b
  /\ from # to => /\ from # ZERO_ADDRESS => c[from] + amount = b[from]
                  /\ to # ZERO_ADDRESS => c[to] = b[to] + amount
  /\ \A v \in Owners \ {from, to} : c[v] = b[v]

(* _mint, _burn and _transfer move stake. *)
LEMMA MintMoves ==
  ASSUME NEW Owners, ZERO_ADDRESS \notin Owners, NEW b \in [Owners -> Nat],
         NEW to \in Owners, NEW amount \in Nat,
         NEW c, c = [b EXCEPT ![to] = @ + amount]
  PROVE  StakeMoves(b, c, Owners, ZERO_ADDRESS, to, amount)
BY DEF StakeMoves

LEMMA BurnMoves ==
  ASSUME NEW Owners, ZERO_ADDRESS \notin Owners, NEW b \in [Owners -> Nat],
         NEW from \in Owners, NEW amount \in Nat, amount <= b[from],
         NEW c, c = [b EXCEPT ![from] = @ - amount]
  PROVE  StakeMoves(b, c, Owners, from, ZERO_ADDRESS, amount)
<1>1. b[from] \in Nat /\ b[from] - amount \in Nat /\ b[from] - amount + amount = b[from]
  OBVIOUS
<1>2. /\ c \in [Owners -> Nat]
      /\ c[from] = b[from] - amount
      /\ \A v \in Owners \ {from, ZERO_ADDRESS} : c[v] = b[v]
  BY <1>1
<1> QED
  BY <1>1, <1>2 DEF StakeMoves

LEMMA TransferMoves ==
  ASSUME NEW Owners, ZERO_ADDRESS \notin Owners, NEW b \in [Owners -> Nat],
         NEW from \in Owners, NEW to \in Owners, NEW amount \in Nat, amount <= b[from],
         NEW debited, debited = [b EXCEPT ![from] = @ - amount],
         NEW c, c = [debited EXCEPT ![to] = @ + amount]
  PROVE  StakeMoves(b, c, Owners, from, to, amount)
<1>1. b[from] \in Nat /\ b[to] \in Nat /\ b[from] - amount \in Nat
  OBVIOUS
<1>2. /\ debited \in [Owners -> Nat]
      /\ debited[from] = b[from] - amount
      /\ \A v \in Owners \ {from} : debited[v] = b[v]
  BY <1>1
<1>3. /\ c \in [Owners -> Nat]
      /\ c[to] = debited[to] + amount
      /\ \A v \in Owners \ {to} : c[v] = debited[v]
  BY <1>2
<1>4. from = to => c = b
  <2> SUFFICES ASSUME from = to PROVE c = b
    OBVIOUS
  <2>1. c[to] = b[to]
    BY <1>1, <1>2, <1>3
  <2> QED
    BY <1>2, <1>3, <2>1
<1>5. from # to => c[from] + amount = b[from] /\ c[to] = b[to] + amount
  BY <1>1, <1>2, <1>3
<1>6. \A v \in Owners \ {from, to} : c[v] = b[v]
  BY <1>2, <1>3
<1> QED
  BY <1>3, <1>4, <1>5, <1>6 DEF StakeMoves

(* A delegatee is an account, or the zero address for the zero address. *)
LEMMA DelegateeType ==
  ASSUME NEW Owners, ZERO_ADDRESS \notin Owners, NEW data \in DelegationData(Owners)
  PROVE  /\ \A v \in Owners : GetDelegatee(data.delegates, v) \in Owners
         /\ GetDelegatee(data.delegates, ZERO_ADDRESS) = ZERO_ADDRESS
         /\ data.snapshots \in [Owners -> Seq(Snapshot)]
         /\ data.delegates \in [Owners -> Owners \cup {ZERO_ADDRESS}]
BY DEF DelegationData, GetDelegatee

(* A record with other snapshots. *)
LEMMA WithSnapshots ==
  ASSUME NEW Owners, NEW data \in DelegationData(Owners), NEW s \in [Owners -> Seq(Snapshot)],
         NEW after, after = [data EXCEPT !.snapshots = s]
  PROVE  /\ after \in DelegationData(Owners)
         /\ after.snapshots = s
         /\ after.delegates = data.delegates
<1> DEFINE S == [Owners -> Seq(Snapshot)]
           T == [Owners -> Owners \cup {ZERO_ADDRESS}]
<1>1. data \in [snapshots : S, delegates : T] /\ s \in S
  BY DEF DelegationData
<1> HIDE DEF S, T
<1>2. /\ after \in [snapshots : S, delegates : T]
      /\ after.snapshots = s
      /\ after.delegates = data.delegates
  BY <1>1
<1> QED
  BY <1>2 DEF DelegationData, S, T

(* A record of snapshots and delegatees. *)
LEMMA WithDelegates ==
  ASSUME NEW Owners, NEW s \in [Owners -> Seq(Snapshot)],
         NEW e \in [Owners -> Owners \cup {ZERO_ADDRESS}]
  PROVE  [snapshots |-> s, delegates |-> e] \in DelegationData(Owners)
BY DEF DelegationData

(* Nothing is lost by a step that writes no snapshot. *)
LEMMA ProlongsItself ==
  ASSUME NEW h \in Seq(Snapshot), NEW block \in Nat
  PROVE  Prolongs(h, h, block)
BY DEF Prolongs

(* _beforeTokenTransfer, for a mint, a burn or a transfer that then moves   *)
(* the stakes from b to c, keeps the record of power right.                 *)
LEMMA PowerTransferSound ==
  ASSUME NEW Owners, IsFiniteSet(Owners), ZERO_ADDRESS \notin Owners,
         NEW b \in [Owners -> Nat], NEW c \in [Owners -> Nat],
         NEW data, NEW block \in Nat, SoundPower(data, Owners, b, block),
         NEW from \in Owners \cup {ZERO_ADDRESS}, NEW to \in Owners \cup {ZERO_ADDRESS},
         NEW amount \in Nat,
         from = to => c = b,
         from # to => /\ from # ZERO_ADDRESS => c[from] + amount = b[from]
                      /\ to # ZERO_ADDRESS => c[to] = b[to] + amount,
         \A v \in Owners \ {from, to} : c[v] = b[v],
         NEW after \in PowerBeforeTransfer(data, b, from, to, amount, block)
  PROVE  /\ SoundPower(after, Owners, c, block)
         /\ PowerKept(after, data, Owners, block)
         /\ after.delegates = data.delegates
         /\ \A u \in Owners : after.snapshots[u] = <<>> => c[u] = b[u]
<1> DEFINE d  == data.delegates
           G(v) == GetDelegatee(d, v)
           gf == G(from)
           gt == G(to)
           s  == data.snapshots
<1>1. /\ data \in DelegationData(Owners)
      /\ SoundSnapshots(s, Owners, block)
      /\ \A u \in Owners : LatestPower(s[u], b[u]) = Delegated(d, b, Owners, u)
      /\ \A u \in Owners : s[u] = <<>> => \A v \in Owners : G(v) = u <=> v = u
  BY DEF SoundPower
<1>2. /\ \A v \in Owners : G(v) \in Owners
      /\ G(ZERO_ADDRESS) = ZERO_ADDRESS
      /\ s \in [Owners -> Seq(Snapshot)] /\ d \in [Owners -> Owners \cup {ZERO_ADDRESS}]
  BY <1>1, DelegateeType
<1>3. PICK t \in MoveDelegates(s, b, gf, gt, amount, block) : after = [data EXCEPT !.snapshots = t]
  BY DEF PowerBeforeTransfer
<1> HIDE DEF G, gf, gt, d, s
<1>4. gf \in Owners \cup {ZERO_ADDRESS} /\ gt \in Owners \cup {ZERO_ADDRESS}
  BY <1>2 DEF gf, gt
(* The stake behind each account, before and after. *)
<1>5. \A u \in Owners :
        /\ Delegated(d, b, Owners, u) \in Nat
        /\ Delegated(d, c, Owners, u) \in Nat
        /\ from = to => Delegated(d, c, Owners, u) = Delegated(d, b, Owners, u)
        /\ from # to =>
             Delegated(d, c, Owners, u) + (IF gf = u THEN amount ELSE 0)
               = Delegated(d, b, Owners, u) + (IF gt = u THEN amount ELSE 0)
  <2> SUFFICES ASSUME NEW u \in Owners
               PROVE /\ Delegated(d, b, Owners, u) \in Nat
                     /\ Delegated(d, c, Owners, u) \in Nat
                     /\ from = to => Delegated(d, c, Owners, u) = Delegated(d, b, Owners, u)
                     /\ from # to =>
                          Delegated(d, c, Owners, u) + (IF gf = u THEN amount ELSE 0)
                            = Delegated(d, b, Owners, u) + (IF gt = u THEN amount ELSE 0)
    OBVIOUS
  <2>0. from = to => Delegated(d, c, Owners, u) = Delegated(d, b, Owners, u)
    OBVIOUS
  <2> DEFINE m == IF from = ZERO_ADDRESS THEN b ELSE [b EXCEPT ![from] = c[from]]
  <2>1. /\ m \in [Owners -> Nat]
        /\ \A v \in Owners \ {from} : m[v] = b[v]
        /\ from # ZERO_ADDRESS => m[from] = c[from]
    OBVIOUS
  <2> HIDE DEF m
  <2>2. CASE from = to
    <3>1. Delegated(d, b, Owners, u) \in Nat
      BY DelegatedChange
    <3> QED
      BY <2>0, <2>2, <3>1
  <2>3. CASE from # to
    <3>1. /\ Delegated(d, b, Owners, u) \in Nat /\ Delegated(d, m, Owners, u) \in Nat
          /\ Delegated(d, m, Owners, u) + (IF gf = u THEN amount ELSE 0)
               = Delegated(d, b, Owners, u)
      <4>1. CASE from = ZERO_ADDRESS
        <5>1. m = b /\ gf # u
          BY <4>1, <1>2 DEF gf, m
        <5>2. Delegated(d, b, Owners, u) \in Nat
          BY DelegatedChange
        <5> QED
          BY <5>1, <5>2
      <4>2. CASE from # ZERO_ADDRESS
        <5>1. from \in Owners /\ m[from] + amount = b[from]
          BY <2>1, <2>3, <4>2
        <5>2. /\ Delegated(d, b, Owners, u) \in Nat /\ Delegated(d, m, Owners, u) \in Nat
              /\ Delegated(d, m, Owners, u) + (IF gf = u THEN b[from] ELSE 0)
                   = Delegated(d, b, Owners, u) + (IF gf = u THEN m[from] ELSE 0)
          BY <2>1, <5>1, DelegatedChange DEF gf, G
        <5>3. m[from] \in Nat /\ b[from] \in Nat
          BY <2>1, <5>1
        <5> QED
          BY <5>1, <5>2, <5>3
      <4> QED
        BY <4>1, <4>2
    <3>2. /\ Delegated(d, c, Owners, u) \in Nat
          /\ Delegated(d, c, Owners, u)
               = Delegated(d, m, Owners, u) + (IF gt = u THEN amount ELSE 0)
      <4>1. \A v \in Owners \ {to} : c[v] = m[v]
        BY <2>1
      <4>2. CASE to = ZERO_ADDRESS
        <5>1. c = m /\ gt # u
          BY <4>1, <4>2, <2>1, <1>2 DEF gt
        <5> QED
          BY <5>1, <3>1
      <4>3. CASE to # ZERO_ADDRESS
        <5>1. to \in Owners /\ c[to] = m[to] + amount
          BY <2>1, <2>3, <4>3
        <5>2. /\ Delegated(d, c, Owners, u) \in Nat
              /\ Delegated(d, c, Owners, u) + (IF gt = u THEN m[to] ELSE 0)
                   = Delegated(d, m, Owners, u) + (IF gt = u THEN c[to] ELSE 0)
          BY <2>1, <4>1, <5>1, DelegatedChange DEF gt, G
        <5>3. m[to] \in Nat /\ c[to] \in Nat
          BY <2>1, <5>1
        <5> QED
          BY <3>1, <5>1, <5>2, <5>3
      <4> QED
        BY <4>2, <4>3
    <3> QED
      BY <2>3, <3>1, <3>2
  <2> QED
    BY <2>2, <2>3
<1>6. SUFFICES /\ SoundSnapshots(t, Owners, block)
               /\ \A u \in Owners :
                    /\ LatestPower(t[u], c[u]) = Delegated(d, c, Owners, u)
                    /\ t[u] = <<>> => s[u] = <<>> /\ c[u] = b[u]
                    /\ Prolongs(t[u], s[u], block)
  <2>1. t \in [Owners -> Seq(Snapshot)]
    BY <1>6 DEF SoundSnapshots
  <2>2. /\ after \in DelegationData(Owners)
        /\ after.snapshots = t /\ after.delegates = d
    <3>1. /\ after \in DelegationData(Owners)
          /\ after.snapshots = t
          /\ after.delegates = data.delegates
      BY <1>1, <1>3, <2>1, WithSnapshots
    <3> QED
      BY <3>1 DEF d
  <2>3. SoundPower(after, Owners, c, block)
    BY <1>1, <1>6, <2>2 DEF SoundPower, G
  <2>4. PowerKept(after, data, Owners, block)
    BY <1>6, <2>2 DEF PowerKept, s
  <2> QED
    BY <1>6, <2>2, <2>3, <2>4 DEF d
<1>7. CASE gf = gt
  <2>1. t = s
    BY <1>3, <1>7 DEF MoveDelegates
  <2>2. \A u \in Owners : Delegated(d, c, Owners, u) = Delegated(d, b, Owners, u)
    BY <1>5, <1>7
  <2>3. \A u \in Owners : s[u] = <<>> => c[u] = b[u]
    <3> SUFFICES ASSUME NEW u \in Owners, s[u] = <<>>, c[u] # b[u]
                 PROVE  FALSE
      OBVIOUS
    <3>1. u \in {from, to} /\ from # to
      OBVIOUS
    <3>2. G(u) = u
      BY <1>1
    <3>3. gf = u /\ gt = u
      BY <1>7, <3>1, <3>2 DEF gf, gt
    <3>4. from \in Owners /\ to \in Owners
      BY <1>2, <3>3 DEF gf, gt
    <3>5. from = u /\ to = u
      BY <1>1, <3>3, <3>4 DEF gf, gt
    <3> QED
      BY <3>1, <3>5
  <2>4. \A u \in Owners : LatestPower(s[u], c[u]) = LatestPower(s[u], b[u])
    BY <2>3 DEF LatestPower
  <2>5. \A u \in Owners : Prolongs(s[u], s[u], block)
    BY <1>2, ProlongsItself
  <2> QED
    BY <1>1, <2>1, <2>2, <2>3, <2>4, <2>5
<1>8. CASE gf # gt
  <2>1. from # to
    BY <1>8 DEF gf, gt
  <2>2. /\ SoundSnapshots(t, Owners, block)
        /\ \A u \in Owners : Prolongs(t[u], s[u], block)
        /\ \A u \in Owners \ {gf, gt} : t[u] = s[u]
        /\ gf # ZERO_ADDRESS =>
             /\ t[gf] # <<>>
             /\ amount <= LatestPower(s[gf], b[gf])
             /\ \A n \in Nat : LatestPower(t[gf], n) = LatestPower(s[gf], b[gf]) - amount
        /\ gt # ZERO_ADDRESS =>
             /\ t[gt] # <<>>
             /\ \A n \in Nat : LatestPower(t[gt], n) = LatestPower(s[gt], b[gt]) + amount
    <3>1. SoundSnapshots(s, Owners, block) /\ t \in MoveDelegates(s, b, gf, gt, amount, block)
      BY <1>1, <1>3
    <3> QED
      BY <1>4, <1>8, <3>1, MoveDelegatesSound
  <2>3. \A u \in Owners : c[u] \in Nat
    OBVIOUS
  <2>4. ASSUME NEW u \in Owners
        PROVE  /\ LatestPower(t[u], c[u]) = Delegated(d, c, Owners, u)
               /\ t[u] = <<>> => s[u] = <<>> /\ c[u] = b[u]
    <3>1. CASE u = gf
      <4>1. /\ t[u] # <<>>
            /\ LatestPower(t[u], c[u]) = Delegated(d, b, Owners, u) - amount
        BY <1>1, <2>2, <2>3, <3>1
      <4> QED
        BY <1>5, <1>8, <2>1, <3>1, <4>1
    <3>2. CASE u = gt
      <4>1. /\ t[u] # <<>>
            /\ LatestPower(t[u], c[u]) = Delegated(d, b, Owners, u) + amount
        BY <1>1, <2>2, <2>3, <3>2
      <4> QED
        BY <1>5, <1>8, <2>1, <3>2, <4>1
    <3>3. CASE u \notin {gf, gt}
      <4>1. t[u] = s[u]
        BY <2>2, <3>3
      <4>2. Delegated(d, c, Owners, u) = Delegated(d, b, Owners, u)
        BY <1>5, <2>1, <3>3
      <4>3. s[u] = <<>> => c[u] = b[u]
        <5> SUFFICES ASSUME s[u] = <<>>, c[u] # b[u] PROVE FALSE
          OBVIOUS
        <5>1. u \in {from, to} /\ G(u) = u
          BY <1>1
        <5> QED
          BY <3>3, <5>1 DEF gf, gt
      <4>4. LatestPower(s[u], c[u]) = LatestPower(s[u], b[u])
        BY <4>3 DEF LatestPower
      <4> QED
        BY <1>1, <4>1, <4>2, <4>3, <4>4
    <3> QED
      BY <3>1, <3>2, <3>3
  <2> QED
    BY <2>2, <2>4
<1> QED
  BY <1>7, <1>8

(* Every movement of stake keeps the record right, and what it said. *)
LEMMA StakeMovePower ==
  ASSUME NEW Owners, IsFiniteSet(Owners), ZERO_ADDRESS \notin Owners,
         NEW b, NEW c, NEW data, NEW block \in Nat, SoundPower(data, Owners, b, block),
         NEW from \in Owners \cup {ZERO_ADDRESS}, NEW to \in Owners \cup {ZERO_ADDRESS},
         NEW amount, StakeMoves(b, c, Owners, from, to, amount),
         NEW after \in PowerBeforeTransfer(data, b, from, to, amount, block)
  PROVE  /\ PowerMoved(after, data, Owners, c, b, block)
         /\ after.delegates = data.delegates
<1>1. /\ b \in [Owners -> Nat] /\ c \in [Owners -> Nat] /\ amount \in Nat
      /\ from = to => c = b
      /\ from # to => /\ from # ZERO_ADDRESS => c[from] + amount = b[from]
                      /\ to # ZERO_ADDRESS => c[to] = b[to] + amount
      /\ \A v \in Owners \ {from, to} : c[v] = b[v]
  BY DEF StakeMoves
<1>2. /\ SoundPower(after, Owners, c, block)
      /\ PowerKept(after, data, Owners, block)
      /\ after.delegates = data.delegates
      /\ \A u \in Owners : after.snapshots[u] = <<>> => c[u] = b[u]
  BY <1>1, PowerTransferSound
<1> QED
  BY <1>2 DEF PowerMoved

(* A record that stays as it is, with the stakes. *)
LEMMA PowerStays ==
  ASSUME NEW Owners, NEW b, NEW data, NEW block \in Nat, SoundPower(data, Owners, b, block)
  PROVE  PowerMoved(data, data, Owners, b, b, block)
<1>1. \A u \in Owners : data.snapshots[u] \in Seq(Snapshot)
  BY DEF SoundPower, SoundSnapshots
<1>2. PowerKept(data, data, Owners, block)
  BY <1>1, ProlongsItself DEF PowerKept
<1> QED
  BY <1>2 DEF PowerMoved

(* Where nobody delegates, the stake delegated to an account is its own. *)
LEMMA OwnStake ==
  ASSUME NEW Owners, IsFiniteSet(Owners), NEW b \in [Owners -> Nat], NEW delegates,
         \A v \in Owners : delegates[v] = ZERO_ADDRESS, NEW u \in Owners
  PROVE  Delegated(delegates, b, Owners, u) = b[u]
<1> DEFINE zero == [v \in Owners |-> 0]
           f    == [v \in Owners |-> IF GetDelegatee(delegates, v) = u THEN b[v] ELSE 0]
<1>1. f = [v \in Owners |-> IF v = u THEN b[v] ELSE 0]
  BY DEF GetDelegatee
<1>2. /\ zero \in [Owners -> Nat] /\ f \in [Owners -> Nat]
      /\ zero[u] = 0 /\ f[u] = b[u]
      /\ \A v \in Owners \ {u} : f[v] = zero[v]
  BY <1>1
<1>3. Sum(zero) = 0
  BY SumZero
<1>4. Delegated(delegates, b, Owners, u) = Sum(f)
  BY DEF Delegated
<1> HIDE DEF zero, f
<1>5. Sum(f) + zero[u] = Sum(zero) + f[u]
  BY <1>2, SumChange
<1>6. Sum(f) \in Nat /\ b[u] \in Nat
  BY <1>2, SumType
<1> QED
  BY <1>2, <1>3, <1>4, <1>5, <1>6

(* Without delegations and histories, the record is right for any stakes. *)
LEMMA UnusedPower ==
  ASSUME NEW Owners, IsFiniteSet(Owners), NEW b \in [Owners -> Nat], NEW block,
         NEW data \in DelegationData(Owners),
         \A u \in Owners : data.snapshots[u] = <<>>,
         \A u \in Owners : data.delegates[u] = ZERO_ADDRESS
  PROVE  SoundPower(data, Owners, b, block)
<1>1. SoundSnapshots(data.snapshots, Owners, block)
  BY DEF SoundSnapshots, IsHistory, DelegationData
<1>2. \A v \in Owners : GetDelegatee(data.delegates, v) = v
  BY DEF GetDelegatee
<1>3. \A u \in Owners :
        LatestPower(data.snapshots[u], b[u]) = Delegated(data.delegates, b, Owners, u)
  BY OwnStake DEF LatestPower
<1> QED
  BY <1>1, <1>2, <1>3 DEF SoundPower

(* As long as nobody delegates, the hook of the first implementation does   *)
(* to the history of votes what the later one would do.                     *)
LEMMA FirstHookMoves ==
  ASSUME NEW Owners, IsFiniteSet(Owners), ZERO_ADDRESS \notin Owners,
         NEW b \in [Owners -> Nat], NEW data, NEW block, SoundPower(data, Owners, b, block),
         \A u \in Owners : data.delegates[u] = ZERO_ADDRESS,
         NEW from \in Owners \cup {ZERO_ADDRESS}, NEW to \in Owners \cup {ZERO_ADDRESS},
         NEW amount \in Nat, from # ZERO_ADDRESS => amount <= b[from],
         NEW after,
         after = [data EXCEPT !.snapshots =
                    SnapshotsBeforeTransfer(data.snapshots, b, from, to, amount, block)]
  PROVE  after \in PowerBeforeTransfer(data, b, from, to, amount, block)
<1> DEFINE d == data.delegates
           s == data.snapshots
           t == SnapshotsBeforeTransfer(s, b, from, to, amount, block)
<1>1. /\ \A v \in Owners : GetDelegatee(d, v) = v
      /\ GetDelegatee(d, ZERO_ADDRESS) = ZERO_ADDRESS
  BY DEF GetDelegatee
<1>2. \A u \in Owners : LatestPower(s[u], b[u]) = b[u]
  BY OwnStake DEF SoundPower
<1>3. t \in MoveDelegates(s, b, from, to, amount, block)
  BY <1>2 DEF SnapshotsBeforeTransfer, MoveDelegates
<1>4. GetDelegatee(d, from) = from /\ GetDelegatee(d, to) = to
  BY <1>1
<1> HIDE DEF t
<1> QED
  BY <1>3, <1>4 DEF PowerBeforeTransfer, t

(* The record of power never reverts the movement of a stake that is there. *)
LEMMA PowerNeverBlocks ==
  ASSUME NEW Owners, IsFiniteSet(Owners), ZERO_ADDRESS \notin Owners,
         NEW b \in [Owners -> Nat], NEW data, NEW block \in Nat,
         SoundPower(data, Owners, b, block),
         NEW from \in Owners, NEW to, NEW amount \in Nat, amount <= b[from]
  PROVE  PowerBeforeTransfer(data, b, from, to, amount, block) # {}
<1> DEFINE d  == data.delegates
           gf == GetDelegatee(d, from)
           gt == GetDelegatee(d, to)
           s  == data.snapshots
<1>1. gf \in Owners
  BY DelegateeType DEF SoundPower
<1>2. LatestPower(s[gf], b[gf]) = Delegated(d, b, Owners, gf)
  BY <1>1 DEF SoundPower
<1>3. b[from] <= Delegated(d, b, Owners, gf) /\ Delegated(d, b, Owners, gf) \in Nat
  BY <1>1, DelegatedChange
<1> HIDE DEF d, gf, gt, s
<1>4. amount <= LatestPower(s[gf], b[gf])
  <2>1. b[from] \in Nat
    OBVIOUS
  <2> QED
    BY <1>2, <1>3, <2>1
<1>5. MoveDelegates(s, b, gf, gt, amount, block) # {}
  BY <1>4 DEF MoveDelegates
<1> QED
  BY <1>5 DEF PowerBeforeTransfer, d, gf, gt, s

(* _delegateByType keeps the record of power right. *)
LEMMA DelegatePowerSound ==
  ASSUME NEW Owners, IsFiniteSet(Owners), ZERO_ADDRESS \notin Owners,
         NEW b \in [Owners -> Nat], NEW data, NEW block \in Nat,
         SoundPower(data, Owners, b, block),
         NEW delegator \in Owners, NEW delegatee \in Owners,
         NEW after \in DelegatePower(data, b, delegator, delegatee, block)
  PROVE  /\ SoundPower(after, Owners, b, block)
         /\ PowerKept(after, data, Owners, block)
<1> DEFINE d    == data.delegates
           e    == [d EXCEPT ![delegator] = delegatee]
           G(v) == GetDelegatee(d, v)
           H(v) == GetDelegatee(e, v)
           prev == G(delegator)
           s    == data.snapshots
<1>1. /\ data \in DelegationData(Owners)
      /\ SoundSnapshots(s, Owners, block)
      /\ \A u \in Owners : LatestPower(s[u], b[u]) = Delegated(d, b, Owners, u)
      /\ \A u \in Owners : s[u] = <<>> => \A v \in Owners : G(v) = u <=> v = u
  BY DEF SoundPower
<1>2. /\ \A v \in Owners : G(v) \in Owners
      /\ s \in [Owners -> Seq(Snapshot)] /\ d \in [Owners -> Owners \cup {ZERO_ADDRESS}]
  BY <1>1, DelegateeType
<1>3. PICK t \in MoveDelegates(s, b, prev, delegatee, b[delegator], block) :
        after = [snapshots |-> t, delegates |-> e]
  BY DEF DelegatePower
<1>4. /\ e \in [Owners -> Owners \cup {ZERO_ADDRESS}]
      /\ H(delegator) = delegatee
      /\ \A v \in Owners \ {delegator} : H(v) = G(v)
  BY <1>2 DEF GetDelegatee
<1>5. b[delegator] \in Nat /\ prev \in Owners
  BY <1>2
<1> HIDE DEF G, H, d, e, s, prev
(* The stake behind each account, before and after. *)
<1>6. \A u \in Owners :
        /\ Delegated(d, b, Owners, u) \in Nat /\ Delegated(e, b, Owners, u) \in Nat
        /\ Delegated(e, b, Owners, u) + (IF prev = u THEN b[delegator] ELSE 0)
             = Delegated(d, b, Owners, u) + (IF delegatee = u THEN b[delegator] ELSE 0)
  <2> TAKE u \in Owners
  <2>1. \A v \in Owners \ {delegator} :
          b[v] = b[v] /\ GetDelegatee(e, v) = GetDelegatee(d, v)
    BY <1>4 DEF G, H
  <2>2. GetDelegatee(e, delegator) = delegatee /\ GetDelegatee(d, delegator) = prev
    BY <1>4 DEF G, H, prev
  <2> QED
    BY <2>1, <2>2, DelegatedChange
<1>7. SUFFICES /\ SoundSnapshots(t, Owners, block)
               /\ \A u \in Owners :
                    /\ LatestPower(t[u], b[u]) = Delegated(e, b, Owners, u)
                    /\ t[u] = <<>> => s[u] = <<>> /\ (\A v \in Owners : H(v) = u <=> v = u)
                    /\ Prolongs(t[u], s[u], block)
  <2>1. t \in [Owners -> Seq(Snapshot)]
    BY <1>7 DEF SoundSnapshots
  <2>2. /\ after \in DelegationData(Owners)
        /\ after.snapshots = t /\ after.delegates = e
    <3>1. after.snapshots = t /\ after.delegates = e
      BY <1>3
    <3>2. [snapshots |-> t, delegates |-> e] \in DelegationData(Owners)
      BY <1>4, <2>1, WithDelegates
    <3> QED
      BY <1>3, <3>1, <3>2
  <2>3. SoundPower(after, Owners, b, block)
    BY <1>7, <2>2 DEF SoundPower, H
  <2>4. PowerKept(after, data, Owners, block)
    BY <1>7, <2>2 DEF PowerKept, s
  <2> QED
    BY <2>3, <2>4
<1>8. CASE prev = delegatee
  <2>1. t = s
    BY <1>3, <1>8 DEF MoveDelegates
  <2>2. \A v \in Owners : H(v) = G(v)
    BY <1>4, <1>8 DEF prev
  <2>3. \A u \in Owners : Delegated(e, b, Owners, u) = Delegated(d, b, Owners, u)
    BY <1>5, <1>6, <1>8
  <2>4. \A u \in Owners : Prolongs(s[u], s[u], block)
    BY <1>2, ProlongsItself
  <2> QED
    BY <1>1, <2>1, <2>2, <2>3, <2>4
<1>9. CASE prev # delegatee
  <2>1. /\ SoundSnapshots(t, Owners, block)
        /\ \A u \in Owners : Prolongs(t[u], s[u], block)
        /\ \A u \in Owners \ {prev, delegatee} : t[u] = s[u]
        /\ t[prev] # <<>> /\ t[delegatee] # <<>>
        /\ b[delegator] <= LatestPower(s[prev], b[prev])
        /\ \A n \in Nat : LatestPower(t[prev], n) = LatestPower(s[prev], b[prev]) - b[delegator]
        /\ \A n \in Nat :
             LatestPower(t[delegatee], n) = LatestPower(s[delegatee], b[delegatee]) + b[delegator]
    <3>1. SoundSnapshots(s, Owners, block)
      BY <1>1
    <3>2. prev # ZERO_ADDRESS /\ delegatee # ZERO_ADDRESS
      BY <1>5
    <3>3. t \in MoveDelegates(s, b, prev, delegatee, b[delegator], block)
      BY <1>3
    <3> QED
      BY <1>5, <1>9, <3>1, <3>2, <3>3, MoveDelegatesSound
  <2>2. \A u \in Owners : b[u] \in Nat
    OBVIOUS
  <2>3. ASSUME NEW u \in Owners
        PROVE  /\ LatestPower(t[u], b[u]) = Delegated(e, b, Owners, u)
               /\ t[u] = <<>> => s[u] = <<>> /\ (\A v \in Owners : H(v) = u <=> v = u)
    <3>1. CASE u = prev
      <4>1. /\ t[u] # <<>>
            /\ LatestPower(t[u], b[u]) = Delegated(d, b, Owners, u) - b[delegator]
        BY <1>1, <2>1, <2>2, <3>1
      <4> QED
        BY <1>5, <1>6, <1>9, <3>1, <4>1
    <3>2. CASE u = delegatee
      <4>1. /\ t[u] # <<>>
            /\ LatestPower(t[u], b[u]) = Delegated(d, b, Owners, u) + b[delegator]
        BY <1>1, <2>1, <2>2, <3>2
      <4> QED
        BY <1>5, <1>6, <1>9, <3>2, <4>1
    <3>3. CASE u \notin {prev, delegatee}
      <4>1. t[u] = s[u]
        BY <2>1, <3>3
      <4>2. Delegated(e, b, Owners, u) = Delegated(d, b, Owners, u)
        BY <1>6, <3>3
      <4>3. s[u] = <<>> => \A v \in Owners : H(v) = u <=> v = u
        <5> SUFFICES ASSUME s[u] = <<>>, NEW v \in Owners PROVE H(v) = u <=> v = u
          OBVIOUS
        <5>1. G(v) = u <=> v = u
          BY <1>1
        <5>2. CASE v = delegator
          BY <1>4, <3>3, <5>1, <5>2 DEF prev
        <5>3. CASE v # delegator
          BY <1>4, <5>1, <5>3
        <5> QED
          BY <5>2, <5>3
      <4> QED
        BY <1>1, <4>1, <4>2, <4>3
    <3> QED
      BY <3>1, <3>2, <3>3
  <2> QED
    BY <2>1, <2>3
<1> QED
  BY <1>8, <1>9

----------------------------------------------------------------------------
(* What a search of a history answers.  Induction over the distance of its  *)
(* bounds is done on a set of natural numbers, by the least one missing.    *)

(* What the search answers for the bounds l and u, if f is what it answers  *)
(* for closer ones.                                                         *)
SearchStep(h, bn, f, l, u) ==
  LET center   == u - (u - l) \div 2
      snapshot == h[center + 1]
  IN  IF u <= l THEN h[l + 1].value
      ELSE IF snapshot.blockNumber = bn THEN snapshot.value
      ELSE IF snapshot.blockNumber < bn THEN f[<<center, u>>]
      ELSE f[<<l, center - 1>>]

(* The recursion of the search has a solution: its bounds come closer.      *)
LEMMA SearchExists ==
  ASSUME NEW h, NEW bn, NEW c \in Nat
  PROVE  \E f : f = [p \in (0..c) \X (0..c) |-> SearchStep(h, bn, f, p[1], p[2])]
<1> DEFINE D(f, l, u) == SearchStep(h, bn, f, l, u)
           S == {n \in Nat : \E f : \A l, u \in 0..c : u <= l + n => f[<<l, u>>] = D(f, l, u)}
<1>1. \A f, g : \A l, u \in 0..c :
        (\A x, y \in 0..c : y - x < u - l => g[<<x, y>>] = f[<<x, y>>])
          => D(g, l, u) = D(f, l, u)
  <2> SUFFICES ASSUME NEW f, NEW g, NEW l \in 0..c, NEW u \in 0..c,
                      \A x, y \in 0..c : y - x < u - l => g[<<x, y>>] = f[<<x, y>>]
               PROVE  D(g, l, u) = D(f, l, u)
    OBVIOUS
  <2> DEFINE center == u - (u - l) \div 2
  <2>1. u > l => /\ center \in 0..c /\ center - 1 \in 0..c
                 /\ u - center < u - l /\ (center - 1) - l < u - l
    OBVIOUS
  <2> HIDE DEF center
  <2>2. u > l => g[<<center, u>>] = f[<<center, u>>] /\ g[<<l, center - 1>>] = f[<<l, center - 1>>]
    BY <2>1
  <2> QED
    BY <2>2 DEF center, SearchStep
<1>2. 0 \in S
  <2> DEFINE f == [p \in (0..c) \X (0..c) |-> h[p[1] + 1].value]
  <2>1. \A l, u \in 0..c : f[<<l, u>>] = h[l + 1].value
    OBVIOUS
  <2> HIDE DEF f
  <2>2. \A l, u \in 0..c : u <= l + 0 => f[<<l, u>>] = D(f, l, u)
    BY <2>1 DEF SearchStep
  <2> QED
    BY <2>2
<1>3. \A n \in S : n + 1 \in S
  <2> SUFFICES ASSUME NEW n \in S PROVE n + 1 \in S
    OBVIOUS
  <2>1. PICK f : \A l, u \in 0..c : u <= l + n => f[<<l, u>>] = D(f, l, u)
    OBVIOUS
  <2> HIDE DEF D
  <2> DEFINE g == [p \in (0..c) \X (0..c) |-> IF p[2] <= p[1] + n THEN f[p] ELSE D(f, p[1], p[2])]
  <2>2. \A l, u \in 0..c : g[<<l, u>>] = IF u <= l + n THEN f[<<l, u>>] ELSE D(f, l, u)
    OBVIOUS
  <2> HIDE DEF g
  <2>3. n \in Nat
    OBVIOUS
  <2>4. ASSUME NEW l \in 0..c, NEW u \in 0..c, u <= l + n + 1
        PROVE  g[<<l, u>>] = D(g, l, u)
    <3>1. \A x, y \in 0..c : y - x < u - l => g[<<x, y>>] = f[<<x, y>>]
      BY <2>2, <2>3, <2>4
    <3>2. D(g, l, u) = D(f, l, u)
      BY <1>1, <3>1
    <3>3. g[<<l, u>>] = D(f, l, u)
      BY <2>1, <2>2
    <3> QED
      BY <3>2, <3>3
  <2> QED
    BY <2>3, <2>4
<1>4. c \in S
  <2> HIDE DEF S
  <2>1. S \in SUBSET Nat
    BY DEF S
  <2> QED
    BY <1>2, <1>3, <2>1, SetInduction
<1>5. PICK f : \A l, u \in 0..c : u <= l + c => f[<<l, u>>] = D(f, l, u)
  BY <1>4
<1> DEFINE g == [p \in (0..c) \X (0..c) |-> f[p]]
<1>6. \A l, u \in 0..c : g[<<l, u>>] = f[<<l, u>>]
  OBVIOUS
<1>7. \A l, u \in 0..c : D(g, l, u) = f[<<l, u>>]
  <2> SUFFICES ASSUME NEW l \in 0..c, NEW u \in 0..c PROVE D(g, l, u) = f[<<l, u>>]
    OBVIOUS
  <2> HIDE DEF D, g
  <2>1. D(g, l, u) = D(f, l, u)
    BY <1>1, <1>6
  <2>2. u <= l + c
    OBVIOUS
  <2> QED
    BY <1>5, <2>1, <2>2
<1>8. g = [p \in (0..c) \X (0..c) |-> D(g, p[1], p[2])]
  <2> HIDE DEF D
  <2> QED
    BY <1>7
<1> HIDE DEF g
<1> QED
  BY <1>8

(* In a history, earlier snapshots are of earlier blocks. *)
LEMMA HistoryOrder ==
  ASSUME NEW block \in Nat, NEW h, IsHistory(h, block),
         NEW i \in 1..Len(h), NEW j \in 1..Len(h), i <= j
  PROVE  /\ h[i] \in Snapshot
         /\ h[i].blockNumber \in Nat /\ h[i].value \in Nat
         /\ h[i].blockNumber <= h[j].blockNumber
<1>1. h \in Seq(Snapshot) /\ (i < j => h[i].blockNumber < h[j].blockNumber)
  BY DEF IsHistory
<1>2. h[i] \in Snapshot /\ h[j] \in Snapshot /\ Len(h) \in Nat
  BY <1>1
<1>3. \A s \in Snapshot : s.blockNumber \in Nat /\ s.value \in Nat
  BY DEF Snapshot
<1>4. h[i].blockNumber \in Nat /\ h[j].blockNumber \in Nat /\ h[i].value \in Nat
  BY <1>2, <1>3
<1> QED
  BY <1>1, <1>2, <1>4

(* The binary search of _searchByBlockNumber finds the last snapshot that   *)
(* is not of a later block.                                                 *)
LEMMA SearchFinds ==
  ASSUME NEW block \in Nat, NEW h, IsHistory(h, block), NEW bn \in Nat, NEW b,
         NEW k \in 1..Len(h), h[k].blockNumber <= bn,
         k < Len(h) => bn < h[k + 1].blockNumber
  PROVE  SearchByBlockNumber(h, b, bn) = h[k].value
<1> DEFINE c == Len(h)
           D(f, l, u) == SearchStep(h, bn, f, l, u)
           search == CHOOSE f : f = [p \in (0..c) \X (0..c) |-> D(f, p[1], p[2])]
<1>1. c \in Nat /\ c # 0 /\ k \in Nat /\ 1 <= k /\ k <= c
  BY DEF IsHistory
<1>2. SearchByBlockNumber(h, b, bn)
        = IF h[c].blockNumber <= bn THEN h[c].value
          ELSE IF h[1].blockNumber > bn THEN 0
          ELSE search[<<0, c - 1>>]
  BY <1>1 DEF SearchByBlockNumber, SearchStep
<1>3. search = [p \in (0..c) \X (0..c) |-> D(search, p[1], p[2])]
  <2>1. \E f : f = [p \in (0..c) \X (0..c) |-> D(f, p[1], p[2])]
    BY <1>1, SearchExists
  <2> QED
    BY <2>1
<1> HIDE DEF search
<1>4. \A l, u \in 0..c : search[<<l, u>>] = D(search, l, u)
  <2> HIDE DEF D
  <2> QED
    BY <1>3
<1>5. \A i, j \in 1..c : i <= j => /\ h[i].blockNumber \in Nat
                                   /\ h[i].blockNumber <= h[j].blockNumber
  BY HistoryOrder
<1>6. \A i, j \in 1..c : i < j => h[i].blockNumber < h[j].blockNumber
  BY DEF IsHistory
<1>7. \A i \in 1..c : /\ i <= k => h[i].blockNumber <= bn
                      /\ i > k => h[i].blockNumber > bn
                      /\ h[i].blockNumber = bn => i = k
  <2> SUFFICES ASSUME NEW i \in 1..c
               PROVE  /\ i <= k => h[i].blockNumber <= bn
                      /\ i > k => h[i].blockNumber > bn
                      /\ h[i].blockNumber = bn => i = k
    OBVIOUS
  <2>1. i <= k => h[i].blockNumber <= bn
    BY <1>1, <1>5
  <2>2. i > k => h[i].blockNumber > bn
    <3> SUFFICES ASSUME i > k PROVE h[i].blockNumber > bn
      OBVIOUS
    <3>1. k + 1 \in 1..c /\ k + 1 <= i
      BY <1>1
    <3>2. /\ h[k + 1].blockNumber \in Nat /\ h[i].blockNumber \in Nat
          /\ h[k + 1].blockNumber <= h[i].blockNumber
      BY <1>5, <3>1
    <3>3. bn < h[k + 1].blockNumber
      BY <1>1, <3>1
    <3> QED
      BY <3>2, <3>3
  <2>3. h[i].blockNumber = bn => i = k
    <3>1. i < k => h[i].blockNumber < h[k].blockNumber
      BY <1>1, <1>6
    <3>2. h[i].blockNumber \in Nat /\ h[k].blockNumber \in Nat
      BY <1>1, <1>5
    <3> QED
      BY <1>1, <2>2, <3>1, <3>2
  <2> QED
    BY <2>1, <2>2, <2>3
(* The snapshot sought stays between the bounds. *)
<1> DEFINE Finds(n) == \A l, u \in 0..(c - 1) :
              u - l <= n /\ l + 1 <= k /\ k <= u + 1 => search[<<l, u>>] = h[k].value
<1>8. \A n \in Nat : Finds(n)
  <2> DEFINE S == {n \in Nat : Finds(n)}
  <2>1. 0 \in S
    <3> SUFFICES ASSUME NEW l \in 0..(c - 1), NEW u \in 0..(c - 1),
                        u - l <= 0, l + 1 <= k, k <= u + 1
                 PROVE  search[<<l, u>>] = h[k].value
      OBVIOUS
    <3>1. u <= l /\ l + 1 = k /\ l \in 0..c /\ u \in 0..c
      BY <1>1
    <3> QED
      BY <1>4, <3>1 DEF SearchStep
  <2>2. ASSUME NEW n \in S
        PROVE  n + 1 \in S
    <3>0. n \in Nat /\ Finds(n)
      OBVIOUS
    <3> HIDE DEF S
    <3> SUFFICES ASSUME NEW l \in 0..(c - 1), NEW u \in 0..(c - 1),
                        u - l <= n + 1, l + 1 <= k, k <= u + 1
                 PROVE  search[<<l, u>>] = h[k].value
      BY <3>0 DEF S
    <3> DEFINE center   == u - (u - l) \div 2
               snapshot == h[center + 1]
    <3>1. CASE u <= l
      <4>1. l + 1 = k /\ l \in 0..c /\ u \in 0..c
        BY <1>1, <3>1
      <4> QED
        BY <1>4, <3>1, <4>1 DEF SearchStep
    <3>2. CASE u > l
      <4>1. /\ center \in 0..(c - 1) /\ center - 1 \in 0..(c - 1) /\ center + 1 \in 1..c
            /\ u - center <= n /\ (center - 1) - l <= n
            /\ l \in 0..c /\ u \in 0..c
        BY <1>1, <3>0, <3>2
      <4>2. search[<<l, u>>]
              = IF snapshot.blockNumber = bn THEN snapshot.value
                ELSE IF snapshot.blockNumber < bn THEN search[<<center, u>>]
                ELSE search[<<l, center - 1>>]
        BY <1>4, <3>2, <4>1 DEF SearchStep
      <4> HIDE DEF center
      <4>6. snapshot.blockNumber \in Nat
        <5>1. center + 1 \in 1..c /\ center + 1 <= center + 1
          BY <1>1, <4>1
        <5> QED
          BY <1>5, <5>1
      <4> HIDE DEF snapshot
      <4>7. snapshot = h[center + 1]
        BY DEF snapshot
      <4>3. CASE snapshot.blockNumber = bn
        BY <1>7, <4>1, <4>2, <4>3, <4>7
      <4>4. CASE snapshot.blockNumber < bn
        <5>1. center + 1 <= k
          <6>1. center + 1 \in Nat
            BY <1>1, <4>1
          <6>2. center + 1 > k => snapshot.blockNumber > bn
            BY <1>7, <4>1, <4>7
          <6> QED
            BY <1>1, <4>4, <4>6, <6>1, <6>2
        <5>2. search[<<center, u>>] = h[k].value
          BY <3>0, <4>1, <5>1
        <5> QED
          BY <1>1, <4>1, <4>2, <4>4, <5>2, <1>5
      <4>5. CASE ~(snapshot.blockNumber = bn) /\ ~(snapshot.blockNumber < bn)
        <5>1. k <= (center - 1) + 1
          BY <1>1, <1>7, <4>1, <4>5, <4>6, <4>7
        <5>2. search[<<l, center - 1>>] = h[k].value
          BY <3>0, <4>1, <5>1
        <5> QED
          BY <4>2, <4>5, <5>2
      <4> QED
        BY <4>3, <4>4, <4>5
    <3> QED
      BY <3>1, <3>2
  <2>3. S \in SUBSET Nat
    OBVIOUS
  <2>4. S = Nat
    <3> HIDE DEF S
    <3> QED
      BY <2>1, <2>2, <2>3, SetInduction
  <2> QED
    BY <2>4
<1>9. CASE k = c
  BY <1>2, <1>9
<1>10. CASE k # c
  <2>1. ~(h[c].blockNumber <= bn) /\ ~(h[1].blockNumber > bn)
    <3>1. h[c].blockNumber \in Nat /\ h[1].blockNumber \in Nat
      BY <1>1, <1>5
    <3>2. h[c].blockNumber > bn /\ h[1].blockNumber <= bn
      BY <1>1, <1>7, <1>10
    <3> QED
      BY <3>1, <3>2
  <2>2. search[<<0, c - 1>>] = h[k].value
    <3>1. Finds(c)
      BY <1>1, <1>8
    <3>2. 0 \in 0..(c - 1) /\ c - 1 \in 0..(c - 1) /\ (c - 1) - 0 <= c /\ k <= (c - 1) + 1
      BY <1>1
    <3> QED
      BY <1>1, <3>1, <3>2
  <2> QED
    BY <1>2, <2>1, <2>2
<1> QED
  BY <1>9, <1>10

(* Every block since the first snapshot has a last snapshot not after it. *)
LEMMA HistorySplit ==
  ASSUME NEW block \in Nat, NEW h, IsHistory(h, block), h # <<>>,
         NEW bn \in Nat, h[1].blockNumber <= bn
  PROVE  \E k \in 1..Len(h) : /\ h[k].blockNumber <= bn
                              /\ k < Len(h) => bn < h[k + 1].blockNumber
<1>1. Len(h) \in Nat /\ Len(h) # 0
  BY DEF IsHistory
<1>2. \A i \in 1..Len(h) : h[i].blockNumber \in Nat
  BY HistoryOrder
<1> DEFINE T == {i \in 1..Len(h) : bn < h[i].blockNumber}
<1>3. CASE T = {}
  <2>1. Len(h) \in 1..Len(h) /\ Len(h) \notin T
    BY <1>1, <1>3
  <2>2. ~(bn < h[Len(h)].blockNumber)
    BY <2>1
  <2>3. h[Len(h)].blockNumber <= bn
    BY <1>2, <2>1, <2>2
  <2> QED
    BY <1>1, <2>1, <2>3
<1>4. CASE T # {}
  <2>1. PICK n \in T : \A m \in T : n <= m
    <3>1. T \in SUBSET Nat
      BY <1>1
    <3> HIDE DEF T
    <3> QED
      BY <1>4, <3>1, LeastNatural
  <2>2. n \in 1..Len(h) /\ bn < h[n].blockNumber
    OBVIOUS
  <2>3. 1 \in 1..Len(h) /\ n # 1
    BY <1>1, <1>2, <2>2
  <2>4. n - 1 \in 1..Len(h) /\ n - 1 < Len(h) /\ (n - 1) + 1 = n /\ ~(n <= n - 1)
    BY <1>1, <2>2, <2>3
  <2>5. ~(bn < h[n - 1].blockNumber)
    BY <2>1, <2>4
  <2>6. h[n - 1].blockNumber <= bn
    BY <1>2, <2>4, <2>5
  <2> QED
    BY <2>2, <2>4, <2>6
<1> QED
  BY <1>3, <1>4

(* Before the first snapshot, the power was zero. *)
LEMMA SearchBeforeFirst ==
  ASSUME NEW block \in Nat, NEW h, IsHistory(h, block), h # <<>>,
         NEW bn \in Nat, bn < h[1].blockNumber, NEW b
  PROVE  SearchByBlockNumber(h, b, bn) = 0
<1>1. Len(h) \in Nat /\ Len(h) # 0 /\ 1 \in 1..Len(h) /\ Len(h) \in 1..Len(h)
  BY DEF IsHistory
<1>2. /\ h[1].blockNumber \in Nat /\ h[Len(h)].blockNumber \in Nat
      /\ h[1].blockNumber <= h[Len(h)].blockNumber
  BY <1>1, HistoryOrder
<1>3. ~(h[Len(h)].blockNumber <= bn) /\ h[1].blockNumber > bn
  BY <1>2
<1> QED
  BY <1>1, <1>3 DEF SearchByBlockNumber

(* At a block that is not before the last snapshot, it is the latest power. *)
LEMMA SearchLatest ==
  ASSUME NEW block \in Nat, NEW h, IsHistory(h, block), NEW b
  PROVE  SearchByBlockNumber(h, b, block) = LatestPower(h, b)
<1>1. Len(h) \in Nat /\ (h = <<>> <=> Len(h) = 0)
  BY DEF IsHistory
<1>2. Len(h) # 0 => h[Len(h)].blockNumber <= block
  BY <1>1 DEF IsHistory
<1> QED
  BY <1>1, <1>2 DEF SearchByBlockNumber, LatestPower

(* What a prolonged history answers for a finished block: as before, or, if *)
(* there was no history, that there was no power.                           *)
AnswersAlike(later, c, h, b, bn) ==
  /\ h # <<>> => SearchByBlockNumber(later, c, bn) = SearchByBlockNumber(h, b, bn)
  /\ h = <<>> /\ later # <<>> => SearchByBlockNumber(later, c, bn) = 0
  /\ later = <<>> => SearchByBlockNumber(later, c, bn) = c
  /\ h = <<>> => SearchByBlockNumber(h, b, bn) = b

(* Prolonging a history leaves its answers for finished blocks alike. *)
LEMMA SearchKept ==
  ASSUME NEW block \in Nat, NEW h, IsHistory(h, block),
         NEW later, IsHistory(later, block), Prolongs(later, h, block),
         NEW bn \in Nat, bn < block, NEW b, NEW c
  PROVE  AnswersAlike(later, c, h, b, bn)
<1>1. /\ Len(h) \in Nat /\ (h = <<>> <=> Len(h) = 0)
      /\ Len(later) \in Nat /\ (later = <<>> <=> Len(later) = 0)
  BY DEF IsHistory
<1>2. /\ \A i \in 1..Len(h) : h[i].blockNumber \in Nat
      /\ \A i \in 1..Len(later) : later[i].blockNumber \in Nat
  BY HistoryOrder
<1>3. /\ Len(h) <= Len(later)
      /\ \A i \in 1..Len(h) : h[i].blockNumber < block => later[i] = h[i]
      /\ \A i \in 1..Len(later) :
           later[i].blockNumber < block => i <= Len(h) /\ later[i] = h[i]
  BY DEF Prolongs
<1>4. ASSUME h # <<>>
      PROVE  SearchByBlockNumber(later, c, bn) = SearchByBlockNumber(h, b, bn)
  <2>0. 1 \in 1..Len(h) /\ 1 \in 1..Len(later) /\ later # <<>>
    BY <1>1, <1>3, <1>4
  <2>1. CASE bn < h[1].blockNumber
    <3>1. bn < later[1].blockNumber
      BY <1>2, <1>3, <2>0, <2>1
    <3> QED
      BY <1>4, <2>0, <2>1, <3>1, SearchBeforeFirst
  <2>2. CASE ~(bn < h[1].blockNumber)
    <3>1. h[1].blockNumber <= bn
      BY <1>2, <2>0, <2>2
    <3>2. PICK k \in 1..Len(h) : /\ h[k].blockNumber <= bn
                                 /\ k < Len(h) => bn < h[k + 1].blockNumber
      BY <1>4, <3>1, HistorySplit
    <3>a. /\ k \in Nat /\ 1 <= k /\ k <= Len(h) /\ k \in 1..Len(h)
          /\ h[k].blockNumber \in Nat
      BY <1>1, <1>2
    <3>b. h[k].blockNumber <= bn
      BY <3>2
    <3>c. k < Len(h) => bn < h[k + 1].blockNumber
      BY <3>2
    <3>d. h[k].blockNumber < block
      BY <3>a, <3>b
    <3>3. k \in 1..Len(later) /\ later[k] = h[k]
      <4>1. later[k] = h[k]
        BY <1>3, <3>a, <3>d
      <4>2. Len(h) <= Len(later)
        BY <1>3
      <4> QED
        BY <1>1, <3>a, <4>1, <4>2
    <3>4. k < Len(later) => bn < later[k + 1].blockNumber
      <4> SUFFICES ASSUME k < Len(later), ~(bn < later[k + 1].blockNumber)
                   PROVE  FALSE
        OBVIOUS
      <4>1. k + 1 \in 1..Len(later)
        BY <1>1, <3>a
      <4>2. later[k + 1].blockNumber \in Nat
        BY <1>2, <4>1
      <4>3. later[k + 1].blockNumber < block
        BY <4>2
      <4>4. k + 1 <= Len(h) /\ later[k + 1] = h[k + 1]
        BY <1>3, <4>1, <4>3
      <4>5. k < Len(h)
        BY <1>1, <3>a, <4>4
      <4>6. bn < later[k + 1].blockNumber
        BY <3>c, <4>4, <4>5
      <4> QED
        BY <4>6
    <3>e. later[k].blockNumber <= bn
      BY <3>b, <3>3
    <3>5. SearchByBlockNumber(h, b, bn) = h[k].value
      BY <3>a, <3>b, <3>c, SearchFinds
    <3>6. SearchByBlockNumber(later, c, bn) = later[k].value
      BY <3>3, <3>4, <3>e, SearchFinds
    <3> QED
      BY <3>3, <3>5, <3>6
  <2> QED
    BY <2>1, <2>2
<1>5. ASSUME h = <<>>, later # <<>>
      PROVE  SearchByBlockNumber(later, c, bn) = 0
  <2>1. 1 \in 1..Len(later) /\ Len(h) = 0
    BY <1>1, <1>5
  <2>2. bn < later[1].blockNumber
    BY <1>2, <1>3, <2>1
  <2> QED
    BY <1>5, <2>2, SearchBeforeFirst
<1>6. /\ later = <<>> => SearchByBlockNumber(later, c, bn) = c
      /\ h = <<>> => SearchByBlockNumber(h, b, bn) = b
  BY <1>1 DEF SearchByBlockNumber
<1> QED
  BY <1>4, <1>5, <1>6 DEF AnswersAlike

(* An account without history answers its balance for every block; once it  *)
(* has one, zero.  As long as that balance was zero, what getPowerAtBlock   *)
(* answers for a finished block outlasts every movement of power.           *)
LEMMA AnswersKept ==
  ASSUME NEW Owners, NEW block \in Nat, NEW data, NEW b \in [Owners -> Nat],
         SoundPower(data, Owners, b, block),
         NEW after, NEW c \in [Owners -> Nat], SoundPower(after, Owners, c, block),
         PowerKept(after, data, Owners, block),
         NEW u \in Owners,
         data.snapshots[u] = <<>> => b[u] = 0,
         after.snapshots[u] = <<>> => c[u] = b[u],
         NEW bn \in Nat, bn < block
  PROVE  SearchByBlockNumber(after.snapshots[u], c[u], bn)
           = SearchByBlockNumber(data.snapshots[u], b[u], bn)
<1> DEFINE h     == data.snapshots[u]
           later == after.snapshots[u]
           x     == b[u]
           y     == c[u]
<1>1. IsHistory(h, block) /\ IsHistory(later, block)
  BY DEF SoundPower, SoundSnapshots
<1>2. Prolongs(later, h, block) /\ (later = <<>> => h = <<>>)
  BY DEF PowerKept
<1>3. (h = <<>> => x = 0) /\ (later = <<>> => y = x)
  OBVIOUS
<1> HIDE DEF h, later, x, y
<1>4. AnswersAlike(later, y, h, x, bn)
  BY <1>1, <1>2, SearchKept
<1>5. SearchByBlockNumber(later, y, bn) = SearchByBlockNumber(h, x, bn)
  BY <1>2, <1>3, <1>4 DEF AnswersAlike
<1> QED
  BY <1>5 DEF h, later, x, y

(* At the end of a block the answer for it is the stake that is delegated,  *)
(* and the record is good for the next one.                                 *)
LEMMA NextBlockSound ==
  ASSUME NEW Owners, NEW block \in Nat, NEW data, NEW b,
         SoundPower(data, Owners, b, block)
  PROVE  /\ SoundPower(data, Owners, b, block + 1)
         /\ \A u \in Owners : SearchByBlockNumber(data.snapshots[u], b[u], block)
                                = Delegated(data.delegates, b, Owners, u)
<1>1. \A u \in Owners : IsHistory(data.snapshots[u], block)
  BY DEF SoundPower, SoundSnapshots
<1>2. \A u \in Owners : IsHistory(data.snapshots[u], block + 1)
  <2> TAKE u \in Owners
  <2> DEFINE h == data.snapshots[u]
  <2>1. IsHistory(h, block)
    BY <1>1
  <2> HIDE DEF h
  <2>2. \A i \in 1..Len(h) : h[i].blockNumber \in Nat /\ h[i].blockNumber <= block
    <3>1. \A i \in 1..Len(h) : h[i].blockNumber <= block
      BY <2>1 DEF IsHistory
    <3>2. \A i \in 1..Len(h) : h[i].blockNumber \in Nat
      <4> TAKE i \in 1..Len(h)
      <4>1. i <= i
        BY <2>1 DEF IsHistory
      <4> QED
        BY <2>1, <4>1, HistoryOrder
    <3> QED
      BY <3>1, <3>2
  <2>3. \A i \in 1..Len(h) : h[i].blockNumber <= block + 1
    BY <2>2
  <2>4. IsHistory(h, block + 1)
    BY <2>1, <2>3 DEF IsHistory
  <2> QED
    BY <2>4 DEF h
<1>3. \A u \in Owners : SearchByBlockNumber(data.snapshots[u], b[u], block)
                          = LatestPower(data.snapshots[u], b[u])
  BY <1>1, SearchLatest
<1>4. SoundPower(data, Owners, b, block + 1)
  BY <1>2 DEF SoundPower, SoundSnapshots
<1> QED
  BY <1>3, <1>4 DEF SoundPower
============================================================================
