----------------------------- MODULE Arithmetic -----------------------------
(* Facts about naturals that the proofs of several components need.         *)
EXTENDS Integers, FiniteSetsExt, WellFoundedInduction, TLAPS

\* Multiplication is monotone in its second argument.
LEMMA TimesMonotone ==
  ASSUME NEW s \in Nat, NEW a \in Nat, NEW b \in Nat, a <= b
  PROVE  s * a \in Nat /\ s * a <= s * b
<1>1. PICK k \in Nat : b = a + k
  OBVIOUS
<1>2. s * b = s * a + s * k
  BY <1>1
<1>3. s * k \in Nat /\ s * a \in Nat
  OBVIOUS
<1> QED
  BY <1>2, <1>3

\* What rounding down to a multiple of d leaves.
LEMMA DivBounds ==
  ASSUME NEW a \in Nat, NEW d \in Nat \ {0}
  PROVE  a \div d \in Nat /\ d * (a \div d) <= a /\ a < d * (a \div d) + d
  BY SMT

\* A number with a multiple of d above its own is below another.
LEMMA DivLeast ==
  ASSUME NEW a \in Nat, NEW q \in Nat, NEW d \in Nat \ {0}, a < d * q + d
  PROVE  a \div d <= q
<1>1. a \div d \in Nat /\ d * (a \div d) <= a
  BY DivBounds
<1>2. ASSUME NEW p \in Nat, q + 1 <= p, d * p <= a
      PROVE  FALSE
  <2>1. q + 1 \in Nat
    OBVIOUS
  <2>2. d * (q + 1) <= d * p
    BY <1>2, <2>1, TimesMonotone
  <2>3. d * (q + 1) = d * q + d /\ d * q \in Nat /\ d * p \in Nat
    OBVIOUS
  <2> QED
    BY <1>2, <2>2, <2>3
<1> QED
  BY <1>1, <1>2

\* What is below the modulus stays as it is.
LEMMA SmallMod ==
  ASSUME NEW a \in Nat, NEW d \in Nat, a < d
  PROVE  a % d = a
  OBVIOUS

\* Division is monotone.
LEMMA DivMonotone ==
  ASSUME NEW a \in Nat, NEW b \in Nat, NEW d \in Nat \ {0}, a <= b
  PROVE  a \div d <= b \div d
<1>1. b \div d \in Nat /\ b < d * (b \div d) + d
  BY DivBounds
<1> DEFINE q == b \div d
<1>2. d * q \in Nat
  BY <1>1
<1>3. a < d * q + d
  BY <1>1, <1>2
<1> HIDE DEF q
<1>4. a \div d <= q
  BY <1>1, <1>3, DivLeast DEF q
<1> QED
  BY <1>4 DEF q

\* A hundredth of s taken at most a hundred times is at most s.
LEMMA PercentFits ==
  ASSUME NEW s \in Nat, NEW a \in 0 .. 100
  PROVE  (a * s) \div 100 \in 0 .. s
<1>1. s * a \in Nat /\ s * a <= s * 100
  BY TimesMonotone
<1>2. a * s = s * a
  OBVIOUS
<1>3. ASSUME NEW p \in Nat, p <= s * 100
      PROVE  p \div 100 \in 0 .. s
  BY <1>3
<1> QED
  BY <1>1, <1>2, <1>3

\* A set of naturals has a least element.
LEMMA LeastExists ==
  ASSUME NEW S \in SUBSET Nat, S # {}
  PROVE  \E x \in S : \A y \in S : x <= y
<1>1. PICK x \in S : \A y \in S : <<y, x>> \notin OpToRel(<, Nat)
  BY NatLessThanWellFounded, WFMin, Zenon
<1>2. \A y \in S : ~(y < x)
  BY <1>1 DEF OpToRel
<1> QED
  BY <1>2

\* Counting up to n.
LEMMA CountUp ==
  ASSUME NEW n \in Nat, NEW S, 0 \in S, \A i \in 1 .. n : i - 1 \in S => i \in S
  PROVE  \A i \in 0 .. n : i \in S
<1> DEFINE R == {i \in 0 .. n : i \notin S}
<1>1. SUFFICES ASSUME R # {} PROVE FALSE
  OBVIOUS
<1>2. R \in SUBSET Nat
  OBVIOUS
<1>3. PICK m \in R : \A x \in R : m <= x
  BY <1>1, <1>2, LeastExists
<1>4. m \in 1 .. n /\ m - 1 \in 0 .. n /\ m - 1 \notin R
  BY <1>2, <1>3
<1> QED
  BY <1>3, <1>4

\* That is what Min of the community modules gives.
LEMMA MinFacts ==
  ASSUME NEW S \in SUBSET Nat, S # {}
  PROVE  Min(S) \in S /\ \A y \in S : Min(S) <= y
  BY LeastExists DEF Min

LEMMA MinIs ==
  ASSUME NEW S \in SUBSET Nat, NEW x \in S, \A y \in S : x <= y
  PROVE  Min(S) = x
<1> DEFINE m == Min(S)
<1>1. m \in S /\ \A y \in S : m <= y
  BY MinFacts
<1> HIDE DEF m
<1>2. m <= x /\ x <= m /\ m \in Nat /\ x \in Nat
  BY <1>1
<1>3. m = x
  BY <1>2
<1> QED
  BY <1>3 DEF m

\* The greatest of a bounded set of numbers.
LEMMA MaxFacts ==
  ASSUME NEW S \in SUBSET Nat, S # {}, NEW b \in Nat, \A x \in S : x <= b
  PROVE  Max(S) \in S /\ \A y \in S : y <= Max(S)
<1> DEFINE D == {d \in Nat : \E x \in S : b = x + d}
<1>1. D \in SUBSET Nat /\ D # {}
  <2>1. PICK x \in S : TRUE
    OBVIOUS
  <2>2. x \in Nat /\ x <= b
    OBVIOUS
  <2>3. b - x \in Nat /\ b = x + (b - x)
    BY <2>2
  <2> QED
    BY <2>3
<1>2. PICK d \in D : \A e \in D : d <= e
  BY ONLY <1>1, LeastExists
<1>3. PICK x \in S : b = x + d
  BY <1>2
<1>4. ASSUME NEW y \in S PROVE y <= x
  <2>1. y \in Nat /\ y <= b /\ x \in Nat /\ d \in Nat
    BY <1>2
  <2>2. b - y \in D
    BY <2>1
  <2>3. d <= b - y
    BY <1>2, <2>2
  <2> QED
    BY <1>3, <2>1, <2>3
<1>5. \E m \in S : \A y \in S : m >= y
  BY <1>4
<1> QED
  BY <1>5 DEF Max

\* A function defined by recursion on the numbers up to N exists: base, and the
\* step G from each value to the next.
Steps(N, T, base, G) == N \in Nat /\ base \in T /\ G \in [1 .. N -> [T -> T]]
Follows(f, N, T, base, G) ==
  /\ f \in [0 .. N -> T] /\ f[0] = base
  /\ \A k \in 1 .. N : f[k] = G[k][f[k - 1]]

LEMMA Recursion ==
  ASSUME NEW N, NEW T, NEW base, NEW G, Steps(N, T, base, G)
  PROVE  \E f : Follows(f, N, T, base, G)
<1> USE DEF Steps
<1> DEFINE Upto(f, m) == /\ f \in [0 .. m -> T] /\ f[0] = base
                         /\ \A k \in 1 .. m : f[k] = G[k][f[k - 1]]
           S == {m \in 0 .. N : ~ \E f : Upto(f, m)}
<1>1. S = {}
  <2> SUFFICES ASSUME S # {} PROVE FALSE
    OBVIOUS
  <2>1. S \in SUBSET Nat
    OBVIOUS
  <2>2. PICK m \in S : \A x \in S : m <= x
    BY ONLY <2>1, S # {}, LeastExists
  <2>3. m \in 0 .. N /\ ~ \E f : Upto(f, m)
    BY <2>2
  <2>4. CASE m = 0
    <3> DEFINE f == [k \in 0 .. 0 |-> base]
    <3>1. f \in [0 .. m -> T] /\ f[0] = base /\ 1 .. m = {}
      BY <2>4
    <3> QED
      BY <2>3, <3>1
  <2>5. CASE m # 0
    <3>1. m - 1 \in 0 .. N /\ m - 1 \notin S
      <4> HIDE DEF Upto
      <4>1. m - 1 \in 0 .. N /\ ~(m <= m - 1)
        BY <2>3, <2>5
      <4> QED
        BY <2>2, <4>1
    <3>2. PICK f : Upto(f, m - 1)
      BY <3>1
    <3> DEFINE g == [k \in 0 .. m |-> IF k = m THEN G[m][f[m - 1]] ELSE f[k]]
    <3>3. f[m - 1] \in T /\ G[m] \in [T -> T]
      BY <2>3, <2>5, <3>1, <3>2
    <3>4. g \in [0 .. m -> T]
      BY <2>3, <3>2, <3>3
    <3>5. g[0] = base
      BY <2>3, <2>5, <3>2
    <3>6. ASSUME NEW k \in 1 .. m PROVE g[k] = G[k][g[k - 1]]
      <4>1. g[k - 1] = f[k - 1] /\ k \in 0 .. m
        BY <2>3
      <4>2. CASE k = m
        BY <4>1, <4>2
      <4>3. CASE k # m
        <5>1. k \in 1 .. m - 1 /\ g[k] = f[k]
          BY <2>3, <4>1, <4>3
        <5> QED
          BY <3>2, <4>1, <5>1
      <4> QED
        BY <4>2, <4>3
    <3> QED
      BY <2>3, <3>4, <3>5, <3>6
  <2> QED
    BY <2>4, <2>5
<1>2. PICK f : Upto(f, N)
  BY <1>1
<1> QED
  BY <1>2 DEF Follows
=============================================================================
