----------------------------- MODULE FeedsProofs -----------------------------
(***************************************************************************)
(* The consensus of any number of exchanges (median_price of               *)
(* src/brain/brain.py): the median of the usable prices exists, is one     *)
(* price, and lies where more than half of the usable feeds quote.         *)
(***************************************************************************)
EXTENDS Feeds, FiniteSetTheorems, WellFoundedInduction, NaturalsInduction, TLAPS

\* The least element of a set of numbers.
LEMMA LeastNat ==
    ASSUME NEW T \in SUBSET Nat, T # {}
    PROVE  \E x \in T : \A y \in T : x <= y
<1> DEFINE R == OpToRel(<, Nat)
<1>1. IsWellFoundedOn(R, Nat)
  BY NatLessThanWellFounded, Zenon
<1>2. PICK x \in T : \A y \in T : <<y, x>> \notin R
  <2> HIDE DEF R
  <2> QED BY <1>1, WFMin, Zenon
<1>3. \A y \in T : ~(y < x)
  BY <1>2, Zenon DEF OpToRel
<1> QED BY <1>3

\* The smaller of two sets of feeds.
LEMMA Smaller ==
    ASSUME NEW S, IsFiniteSet(S), NEW T \in SUBSET S
    PROVE  /\ IsFiniteSet(T)
           /\ Cardinality(T) \in Nat /\ Cardinality(S) \in Nat
           /\ Cardinality(T) <= Cardinality(S)
           /\ T # S => Cardinality(T) < Cardinality(S)
<1>1. IsFiniteSet(T) /\ Cardinality(T) <= Cardinality(S)
      /\ (Cardinality(S) = Cardinality(T) => S = T)
  BY FS_Subset
<1>2. Cardinality(T) \in Nat /\ Cardinality(S) \in Nat
  BY <1>1, FS_CardinalityType
<1> QED BY <1>1, <1>2

\* Of finitely many feeds one quotes most: the one that the fewest exceed.
LEMMA Highest ==
    ASSUME NEW T, IsFiniteSet(T), T # {}, NEW f, \A e \in T : f[e] \in Nat
    PROVE  \E e \in T : \A d \in T : f[d] <= f[e]
<1> DEFINE Above(e) == {d \in T : f[d] > f[e]}
           Counts   == {Cardinality(Above(e)) : e \in T}
<1>1. \A e \in T : Above(e) \in SUBSET T
  OBVIOUS
<1> HIDE DEF Above
<1>2. \A e \in T : IsFiniteSet(Above(e)) /\ Cardinality(Above(e)) \in Nat
  BY <1>1, Smaller
<1>3. Counts \in SUBSET Nat /\ Counts # {}
  BY <1>2
<1>4. PICK c \in Counts : \A b \in Counts : c <= b
  BY <1>3, LeastNat
<1>5. PICK e \in T : c = Cardinality(Above(e))
  BY <1>4
<1>6. ASSUME NEW d \in T, f[d] > f[e] PROVE FALSE
  <2>1. Above(d) \in SUBSET Above(e) /\ d \in Above(e) /\ d \notin Above(d)
    BY <1>6 DEF Above
  <2>2. Cardinality(Above(d)) < Cardinality(Above(e))
    BY <1>2, <2>1, Smaller
  <2>3. Cardinality(Above(d)) \in Counts
    OBVIOUS
  <2> QED BY <1>2, <1>4, <1>5, <2>2, <2>3
<1> QED BY <1>6

-----------------------------------------------------------------------------
(* The k-th smallest price *)

Below(p)   == {e \in Usable : states[e] < p}
UpTo(p)    == {e \in Usable : states[e] <= p}
Quotes     == {states[e] : e \in Usable}

\* The usable feeds are finitely many, and so are those below a price.
LEMMA FinitelyMany ==
    ASSUME FeedsTypeOK
    PROVE  /\ IsFiniteSet(Usable) /\ Cardinality(Usable) \in Nat
           /\ Quotes \in SUBSET Nat
           /\ \A e \in Usable : states[e] \in Prices /\ states[e] \in Nat
           /\ \A T \in SUBSET Usable : /\ IsFiniteSet(T) /\ Cardinality(T) \in Nat
                                        /\ Cardinality(T) <= Cardinality(Usable)
<1>1. Usable \in SUBSET Exchanges
  BY DEF Usable
<1>2. IsFiniteSet(Usable) /\ Cardinality(Usable) \in Nat
  BY <1>1, Smaller, ExchangesAssumption
<1>3. \A e \in Usable : states[e] \in Prices /\ states[e] \in Nat
  BY PricesAssumption DEF Usable, FeedsTypeOK, Message
<1>4. Quotes \in SUBSET Nat
  BY <1>3 DEF Quotes
<1>5. \A T \in SUBSET Usable : /\ IsFiniteSet(T) /\ Cardinality(T) \in Nat
                               /\ Cardinality(T) <= Cardinality(Usable)
  BY <1>2, Smaller
<1> QED BY <1>2, <1>3, <1>4, <1>5

LEMMA KthMeans ==
    ASSUME NEW k, NEW p
    PROVE  p \in Kth(k) <=> p \in Quotes /\ Cardinality(Below(p)) < k /\ Cardinality(UpTo(p)) >= k
BY DEF Kth, Quotes, Below, UpTo

\* There is at most one k-th smallest price.
LEMMA KthUnique ==
    ASSUME FeedsTypeOK, NEW k \in Nat, NEW p \in Kth(k), NEW q \in Kth(k)
    PROVE  p = q
<1>1. ASSUME NEW a \in Kth(k), NEW b \in Kth(k), a < b PROVE FALSE
  <2>1. a \in Nat /\ b \in Nat
    BY KthMeans, FinitelyMany
  <2>2. UpTo(a) \in SUBSET Below(b) /\ Below(b) \in SUBSET Usable
    BY <1>1, <2>1, FinitelyMany DEF UpTo, Below
  <2>3. IsFiniteSet(Below(b))
    BY <2>2, FinitelyMany
  <2>4. Cardinality(UpTo(a)) <= Cardinality(Below(b))
        /\ Cardinality(UpTo(a)) \in Nat /\ Cardinality(Below(b)) \in Nat
    BY <2>2, <2>3, Smaller
  <2>5. Cardinality(Below(b)) < k /\ Cardinality(UpTo(a)) >= k
    BY KthMeans
  <2> QED BY <2>4, <2>5
<1>2. p \in Nat /\ q \in Nat
  BY KthMeans, FinitelyMany
<1> QED BY <1>1, <1>2

\* There is a k-th smallest price: the least one that k feeds do not exceed.
LEMMA KthExists ==
    ASSUME FeedsTypeOK, NEW k \in 1..Cardinality(Usable)
    PROVE  \E p : p \in Kth(k)
<1> DEFINE A == {p \in Quotes : Cardinality(UpTo(p)) >= k}
<1>1. k \in Nat /\ k >= 1 /\ k <= Cardinality(Usable) /\ Cardinality(Usable) \in Nat
  BY FinitelyMany
<1>2. \A p : UpTo(p) \in SUBSET Usable /\ Below(p) \in SUBSET Usable
  BY DEF UpTo, Below
<1>3. A # {}
  <2>1. Usable # {}
    BY <1>1, FS_EmptySet
  <2>2. PICK e \in Usable : \A d \in Usable : states[d] <= states[e]
    BY <2>1, FinitelyMany, Highest
  <2>3. UpTo(states[e]) = Usable
    BY <2>2 DEF UpTo
  <2> QED BY <1>1, <2>2, <2>3 DEF Quotes
<1>4. A \in SUBSET Nat
  BY FinitelyMany
<1>5. PICK p \in A : \A q \in A : p <= q
  BY <1>3, <1>4, LeastNat
<1>6. ASSUME Cardinality(Below(p)) >= k PROVE FALSE
  <2>1. IsFiniteSet(Below(p)) /\ Below(p) # {} /\ Below(p) \in SUBSET Usable
    BY <1>1, <1>2, <1>6, FinitelyMany, FS_EmptySet
  <2>2. PICK e \in Below(p) : \A d \in Below(p) : states[d] <= states[e]
    BY <2>1, FinitelyMany, Highest
  <2>3. Below(p) \in SUBSET UpTo(states[e]) /\ e \in Usable /\ states[e] < p
    BY <2>1, <2>2 DEF Below, UpTo
  <2>4. IsFiniteSet(UpTo(states[e])) /\ Cardinality(UpTo(states[e])) >= Cardinality(Below(p))
        /\ Cardinality(UpTo(states[e])) \in Nat /\ Cardinality(Below(p)) \in Nat
    BY <1>2, <2>3, FinitelyMany, Smaller
  <2>5. states[e] \in A
    BY <1>1, <1>6, <2>3, <2>4 DEF Quotes
  <2>6. p \in Nat /\ states[e] \in Nat
    BY <1>4, <1>5, <2>3, FinitelyMany
  <2> QED BY <1>5, <2>3, <2>5, <2>6
<1>7. Cardinality(Below(p)) \in Nat
  BY <1>2, FinitelyMany
<1>8. Cardinality(Below(p)) < k
  BY <1>1, <1>6, <1>7
<1> QED BY <1>5, <1>8, KthMeans

-----------------------------------------------------------------------------
\* The set Median stands for one number, as statistics.median returns one: the
\* statements about every m \in Median are about it, and none of them is void.
LEMMA MedianIsOne ==
    ASSUME FeedsTypeOK, Quorum
    PROVE  \E m \in Median : Median = {m}
<1> DEFINE n == Cardinality(Usable)
           i == (n + 1) \div 2
           j == n \div 2 + 1
<1>1. n \in Nat /\ n >= 2
  BY FinitelyMany DEF Quorum
<1> HIDE DEF n
<1>2. i \in 1..n /\ j \in 1..n /\ i \in Nat /\ j \in Nat
  BY <1>1
<1> HIDE DEF i, j
<1>3. PICK p : p \in Kth(i)
  BY <1>2, KthExists DEF n
<1>4. PICK q : q \in Kth(j)
  BY <1>2, KthExists DEF n
<1>5. Kth(i) = {p} /\ Kth(j) = {q}
  BY <1>2, <1>3, <1>4, KthUnique
<1>6. Median = {a + b : a \in Kth(i), b \in Kth(j)}
  BY DEF Median, i, j, n
<1> QED BY <1>5, <1>6

\* The prices of the middle ranks are quoted where more than half of the feeds quote.
LEMMA MiddleWithin ==
    ASSUME FeedsTypeOK, NEW lo \in Prices, NEW hi \in Prices,
           2 * Cardinality(Quoting(lo, hi)) > Cardinality(Usable),
           NEW k \in Nat,
           (Cardinality(Usable) + 1) \div 2 <= k, k <= Cardinality(Usable) \div 2 + 1,
           NEW p \in Kth(k)
    PROVE  lo <= p /\ p <= hi
<1> DEFINE Q == Quoting(lo, hi)
           n == Cardinality(Usable)
<1>1. p \in Nat /\ lo \in Nat /\ hi \in Nat /\ n \in Nat
  BY KthMeans, FinitelyMany, PricesAssumption
<1>2. /\ Q \in SUBSET Usable /\ UpTo(p) \in SUBSET Usable /\ Below(p) \in SUBSET Usable
      /\ IsFiniteSet(Q) /\ IsFiniteSet(UpTo(p)) /\ IsFiniteSet(Below(p))
      /\ Cardinality(Q) \in Nat /\ Cardinality(UpTo(p)) \in Nat /\ Cardinality(Below(p)) \in Nat
  <2>1. Q \in SUBSET Usable /\ UpTo(p) \in SUBSET Usable /\ Below(p) \in SUBSET Usable
    BY DEF Quoting, UpTo, Below
  <2> QED BY <2>1, FinitelyMany
<1>3. Cardinality(Below(p)) < k /\ Cardinality(UpTo(p)) >= k
  BY KthMeans
<1>4. ASSUME p < lo PROVE FALSE
  <2>1. Q \cap UpTo(p) = {}
    BY <1>1, <1>4, FinitelyMany DEF Quoting, UpTo
  <2>2. ~(Cardinality(Q) + Cardinality(UpTo(p)) > n)
    BY <1>2, <2>1, FinitelyMany, FS_MajoritiesIntersect
  <2> HIDE DEF Q, n
  <2>3. \A a, b \in Nat : 2 * a > n /\ b >= (n + 1) \div 2 => a + b > n
    BY <1>1
  <2>4. Cardinality(UpTo(p)) >= (n + 1) \div 2
    BY <1>1, <1>2, <1>3 DEF n
  <2> QED BY <1>2, <2>2, <2>3, <2>4 DEF Q, n
<1>5. ASSUME hi < p PROVE FALSE
  <2>1. Q \in SUBSET Below(p)
    BY <1>1, <1>5, FinitelyMany DEF Quoting, Below
  <2>2. Cardinality(Q) <= Cardinality(Below(p))
    BY <1>2, <2>1, Smaller
  <2> HIDE DEF Q, n
  <2>3. \A a, b \in Nat : 2 * a > n /\ a <= b => ~(b < n \div 2 + 1)
    BY <1>1
  <2>4. Cardinality(Below(p)) < n \div 2 + 1
    BY <1>1, <1>2, <1>3 DEF n
  <2> QED BY <1>2, <2>2, <2>3, <2>4 DEF Q, n
<1> QED BY <1>1, <1>4, <1>5

\* The majority rules.
LEMMA MedianWithin ==
    ASSUME FeedsTypeOK
    PROVE  MajorityRules
<1> SUFFICES ASSUME NEW lo \in Prices, NEW hi \in Prices,
                    2 * Cardinality(Quoting(lo, hi)) > Cardinality(Usable),
                    NEW m \in Median
             PROVE  2 * lo <= m /\ m <= 2 * hi
  BY DEF MajorityRules
<1> DEFINE n == Cardinality(Usable)
           i == (n + 1) \div 2
           j == n \div 2 + 1
<1>1. PICK p \in Kth(i), q \in Kth(j) : m = p + q
  BY DEF Median
<1>2. n \in Nat
  BY FinitelyMany
<1>3. i \in Nat /\ j \in Nat /\ i <= j
  <2> HIDE DEF n
  <2> QED BY <1>2
<1>4. i <= i /\ j <= j
  BY <1>3
<1>5. lo <= p /\ p <= hi
  BY <1>3, <1>4, MiddleWithin
<1>6. lo <= q /\ q <= hi
  BY <1>3, <1>4, MiddleWithin
<1>7. p \in Nat /\ q \in Nat /\ lo \in Nat /\ hi \in Nat
  BY KthMeans, FinitelyMany, PricesAssumption
<1> QED BY <1>1, <1>5, <1>6, <1>7
=============================================================================
