-------------------------- MODULE ArithmeticProofs --------------------------
(***************************************************************************)
(* The arithmetic the other proofs rest on: the calculators of             *)
(* rpt_calculator.py compute on pairs of words what their definitions in   *)
(* ordinary numbers say, for every word size; and facts about the sum of a *)
(* function with natural values over a finite set.                         *)
(***************************************************************************)
EXTENDS RPTCalculator, FiniteSets, Functions, FiniteSetTheorems,
        WellFoundedInduction, TLAPS

(* Division with remainder, in the two forms the proofs use.               *)
LEMMA DivMod ==
  ASSUME NEW a \in Int, NEW b \in Nat \ {0}
  PROVE  /\ a \div b \in Int /\ a % b \in 0 .. b - 1
         /\ a = b * (a \div b) + (a % b)
  OBVIOUS

(* Quotient and remainder are determined by the division equation.         *)
LEMMA DivUnique ==
  ASSUME NEW b \in Nat \ {0}, NEW q \in Int, NEW r \in 0 .. b - 1
  PROVE  (b * q + r) \div b = q /\ (b * q + r) % b = r
  OBVIOUS

(* A quotient of natural numbers, rounded down, between its bounds.        *)
LEMMA DivNat ==
  ASSUME NEW a \in Nat, NEW b \in Nat \ {0}
  PROVE  a \div b \in Nat /\ b * (a \div b) <= a /\ a < b * (a \div b) + b
  OBVIOUS

(* Products of natural numbers keep the order of their first factor, and a *)
(* positive second factor cancels.                                         *)
LEMMA TimesMonotone ==
  ASSUME NEW a \in Nat, NEW b \in Nat, NEW c \in Nat, a <= b
  PROVE  a * c <= b * c
<1>1. PICK d \in Nat : b = a + d
  <2>1. b - a \in Nat /\ b = a + (b - a)
    OBVIOUS
  <2> QED
    BY <2>1
<1>2. b * c = a * c + d * c /\ d * c \in Nat /\ a * c \in Nat
  BY <1>1
<1> QED
  BY <1>2

(* See TimesMonotone.                                                      *)
LEMMA TimesCancel ==
  ASSUME NEW a \in Nat, NEW b \in Nat, NEW c \in Nat \ {0}
  PROVE  /\ a * c <= b * c => a <= b
         /\ a * c <  b * c => a < b
<1>1. a * c \in Nat /\ b * c \in Nat
  OBVIOUS
<1>2. ASSUME b < a PROVE b * c < a * c
  <2>1. b + 1 <= a /\ b + 1 \in Nat
    BY <1>2
  <2>2. (b + 1) * c <= a * c
    BY <2>1, TimesMonotone
  <2>3. (b + 1) * c = b * c + c
    OBVIOUS
  <2> QED
    BY <1>1, <2>2, <2>3
<1>3. ASSUME b <= a PROVE b * c <= a * c
  BY <1>3, TimesMonotone
<1> QED
  BY <1>1, <1>2, <1>3

(* Dividing twice divides by the product.                                  *)
LEMMA DivTwice ==
  ASSUME NEW n \in Nat, NEW p \in Nat \ {0}, NEW b \in Nat \ {0}
  PROVE  n \div (b * p) = (n \div p) \div b
<1> DEFINE q == n \div p
           r == n % p
           t == q \div b
           u == q % b
<1>1. q \in Nat /\ r \in 0 .. p - 1 /\ n = p * q + r
  BY DivMod, DivNat
<1> HIDE DEF q, r
<1>2. t \in Nat /\ u \in 0 .. b - 1 /\ q = b * t + u
  <2>1. q \in Int
    BY <1>1
  <2> QED
    BY <1>1, <2>1, DivMod, DivNat
<1> HIDE DEF t, u
<1>3. b * p \in Nat \ {0} /\ p * u \in Nat /\ u * p = p * u
  BY <1>2
<1>4. (u + 1) * p <= b * p
  BY <1>2, TimesMonotone
<1>5. (u + 1) * p = p * u + p
  BY <1>2
<1>6. p * u + r \in 0 .. b * p - 1
  BY <1>1, <1>3, <1>4, <1>5
<1>7. n = (b * p) * t + (p * u + r)
  <2>1. p * (b * t + u) = (b * p) * t + p * u
    BY <1>2
  <2> QED
    BY <1>1, <1>2, <2>1
<1>8. n \div (b * p) = t
  <2> DEFINE c == b * p
             d == p * u + r
  <2>1. c \in Nat \ {0} /\ d \in 0 .. c - 1 /\ n = c * t + d /\ t \in Int
    BY <1>2, <1>3, <1>6, <1>7
  <2> HIDE DEF c, d
  <2>2. n \div c = t
    BY <2>1, DivUnique
  <2> QED
    BY <2>2 DEF c
<1> QED
  BY <1>8 DEF t, q

(* A part of the period never releases more than is pending, and all of it *)
(* releases everything.                                                    *)
LEMMA DistributedBounds ==
  ASSUME NEW pending \in Nat, NEW duration \in Nat \ {0}, NEW dt \in 0 .. duration
  PROVE  /\ DistributedReward(dt, duration, pending) \in 0 .. pending
         /\ DistributedReward(duration, duration, pending) = pending
  BY DEF DistributedReward, MulDiv64

(* update_global_state_current adds the reward per token rounded down to   *)
(* W-ths, the carry between the two words included.                        *)
THEOREM IncrementIsFloor ==
  ASSUME NEW rpt \in Nat, NEW rptFrac \in Word, NEW reward \in Nat,
         NEW totalStaked \in Nat \ {0}
  PROVE  /\ NewRpt(rpt, rptFrac, reward, totalStaked) \in Nat
         /\ NewRpt(rpt, rptFrac, reward, totalStaked) >= rpt
         /\ NewRptFrac(rptFrac, reward, totalStaked) \in Word
         /\ NewRpt(rpt, rptFrac, reward, totalStaked) * W
              + NewRptFrac(rptFrac, reward, totalStaked)
            = rpt * W + rptFrac + (reward * W) \div totalStaked
<1> DEFINE q == reward \div totalStaked
           r == reward % totalStaked
           f == (r * W) \div totalStaked
           c == (rptFrac + f) \div W
           l == (rptFrac + f) % W
<1> USE WAssumption DEF Word
<1>1. q \in Nat /\ r \in 0 .. totalStaked - 1 /\ reward = totalStaked * q + r
  <2>1. reward \div totalStaked \in Nat
    BY DivNat
  <2>2. reward \in Int
    OBVIOUS
  <2>3. /\ reward % totalStaked \in 0 .. totalStaked - 1
        /\ reward = totalStaked * (reward \div totalStaked) + (reward % totalStaked)
    BY <2>2, DivMod
  <2> QED
    BY <2>1, <2>3
<1>2. r * W \in Nat /\ f \in Nat
  <2>1. r * W \in Nat
    BY <1>1
  <2> QED
    BY <2>1, DivNat
<1>3. c \in Nat /\ l \in 0 .. W - 1 /\ rptFrac + f = W * c + l
  <2>1. rptFrac + f \in Nat
    BY <1>2
  <2> QED
    BY <2>1, DivMod, DivNat
<1>a. /\ NewRpt(rpt, rptFrac, reward, totalStaked) = rpt + q + c
      /\ NewRptFrac(rptFrac, reward, totalStaked) = l
  BY DEF NewRpt, RptDelta, AddwHigh, NewRptFrac, AddwLow, RptDeltaFrac, Divw
<1> HIDE DEF q, r, c, l
<1>4. (reward * W) \div totalStaked = q * W + f
  <2> DEFINE r2 == (r * W) % totalStaked
  <2>1. r * W = totalStaked * f + r2 /\ r2 \in 0 .. totalStaked - 1
    BY <1>1, <1>2, DivMod
  <2> HIDE DEF r2, f
  <2>2. reward * W = (totalStaked * q) * W + r * W
    BY <1>1
  <2>3. (totalStaked * q) * W = totalStaked * (q * W)
    BY <1>1
  <2>4. q * W \in Int /\ q * W + f \in Int
    BY <1>1, <1>2
  <2>5. reward * W = totalStaked * (q * W + f) + r2
    BY <2>1, <2>2, <2>3, <2>4, <1>2
  <2> QED
    BY <2>1, <2>4, <2>5, DivUnique
<1> HIDE DEF f
<1>5. (rpt + q + c) * W + l = rpt * W + rptFrac + (q * W + f)
  <2>1. (rpt + q + c) * W = rpt * W + q * W + W * c
    BY <1>1, <1>3
  <2> QED
    BY <1>1, <1>2, <1>3, <2>1
<1> QED
  BY <1>1, <1>2, <1>3, <1>4, <1>5, <1>a

(* UserRewardCalculator gives a stake its share of the growth of the       *)
(* reward per token, rounded down once, the borrow included; and it does   *)
(* not underflow as long as the reward per token has not shrunk.           *)
THEOREM AccrualIsFloor ==
  ASSUME NEW rpt \in Nat, NEW rptFrac \in Word, NEW userRpt \in Nat,
         NEW userRptFrac \in Word, NEW staked \in Nat,
         userRpt * W + userRptFrac <= rpt * W + rptFrac
  PROVE  /\ UserRptDelta(rpt, rptFrac, userRpt, userRptFrac) \in Nat
         /\ AccruedReward(rpt, rptFrac, userRpt, userRptFrac, staked) \in Nat
         /\ AccruedReward(rpt, rptFrac, userRpt, userRptFrac, staked)
            = (staked * ((rpt * W + rptFrac) - (userRpt * W + userRptFrac))) \div W
<1> DEFINE d == UserRptDelta(rpt, rptFrac, userRpt, userRptFrac)
           f == UserRptDeltaFrac(rptFrac, userRptFrac)
           growth == (rpt * W + rptFrac) - (userRpt * W + userRptFrac)
<1> USE WAssumption DEF Word
<1>1. d \in Int /\ f \in 0 .. W - 1
  BY DEF UserRptDelta, UserRptDeltaFrac
<1>2. growth = d * W + f /\ growth \in Nat
  BY DEF UserRptDelta, UserRptDeltaFrac
<1>3. d >= 0
  <2>1. SUFFICES ASSUME d <= -1 PROVE FALSE
    BY <1>1
  <2>2. d * W <= -W
    BY <1>1, <2>1
  <2> QED
    BY <1>1, <1>2, <2>2
<1> HIDE DEF d, f, growth
<1>4. (staked * f) \div W \in Nat
  <2>1. staked * f \in Nat
    BY <1>1
  <2> QED
    BY <2>1, DivNat
<1>5. (staked * growth) \div W = staked * d + (staked * f) \div W
  <2> DEFINE r == (staked * f) % W
             h == (staked * f) \div W
  <2>1. staked * f \in Int
    BY <1>1
  <2>2. staked * f = W * h + r /\ r \in 0 .. W - 1 /\ h \in Int
    BY <2>1, DivMod
  <2> HIDE DEF r, h
  <2>3. staked * growth = W * (staked * d + h) + r
    BY <1>1, <1>2, <2>1, <2>2
  <2>4. staked * d + h \in Int
    BY <1>1, <2>2
  <2>5. (staked * growth) \div W = staked * d + h
    BY <2>2, <2>3, <2>4, DivUnique
  <2> QED
    BY <2>5 DEF h
<1>6. AccruedReward(rpt, rptFrac, userRpt, userRptFrac, staked)
        = staked * d + (staked * f) \div W
  BY DEF AccruedReward, MulwHigh, d, f
<1>7. staked * d \in Nat
  BY <1>1, <1>3
<1> QED
  BY <1>1, <1>3, <1>4, <1>5, <1>6, <1>7 DEF d, growth

-----------------------------------------------------------------------------
(* Sums                                                                    *)

(* Induction over the subsets of a finite set, for a set Good of subsets.  *)
LEMMA SubsetInduction ==
  ASSUME NEW S, IsFiniteSet(S), NEW Good \in SUBSET SUBSET S,
         {} \in Good,
         \A T \in Good : \A x \in S \ T : T \union {x} \in Good
  PROVE  Good = SUBSET S
<1> DEFINE Bad == (SUBSET S) \ Good
<1>1. IsWellFoundedOn(StrictSubsetOrdering(S), SUBSET S)
  BY FS_StrictSubsetOrderingWellFounded, FS_FiniteSubsetsOfFinite
<1>2. ASSUME Bad # {} PROVE FALSE
  <2>1. Bad \subseteq SUBSET S
    OBVIOUS
  <2>2. PICK B \in Bad : \A C \in Bad : ~ (<<C, B>> \in StrictSubsetOrdering(S))
    <3> HIDE DEF Bad
    <3> QED
      BY <1>1, <1>2, <2>1, WFMin
  <2>3. PICK x \in B : TRUE
    OBVIOUS
  <2> DEFINE C == B \ {x}
  <2>4. C \in SUBSET S /\ <<C, B>> \in StrictSubsetOrdering(S)
    BY <2>3 DEF StrictSubsetOrdering
  <2>5. C \in Good
    BY <2>2, <2>4
  <2>6. C \union {x} = B /\ x \in S \ C
    BY <2>3
  <2>7. B \in Good
    BY <2>5, <2>6
  <2> QED
    BY <2>7
<1> QED
  BY <1>2

-----------------------------------------------------------------------------
(* The sum of f over T counts the pairs of an x in T and a number up to    *)
(* f[x], which makes the order of the fold irrelevant.                     *)
Pairs(f, T) == UNION {{x} \X (1 .. f[x]) : x \in T}

(* Another member of the set adds its own value of pairs.                  *)
LEMMA PairsInsert ==
  ASSUME NEW S, NEW f \in [S -> Nat], NEW T \in SUBSET S, NEW x \in S \ T,
         IsFiniteSet(Pairs(f, T))
  PROVE  /\ IsFiniteSet(Pairs(f, T \union {x}))
         /\ Cardinality(Pairs(f, T \union {x})) = f[x] + Cardinality(Pairs(f, T))
<1> DEFINE X == {x} \X (1 .. f[x])
<1>1. f[x] \in Nat
  OBVIOUS
<1>2. IsFiniteSet(1 .. f[x]) /\ Cardinality(1 .. f[x]) = f[x]
  BY <1>1, FS_Interval
<1>3. IsFiniteSet({x}) /\ Cardinality({x}) = 1
  BY FS_Singleton
<1>4. IsFiniteSet(X) /\ Cardinality(X) = f[x]
  BY <1>1, <1>2, <1>3, FS_Product
<1>5. X \intersect Pairs(f, T) = {}
  BY DEF Pairs
<1>6. Pairs(f, T \union {x}) = X \union Pairs(f, T)
  BY DEF Pairs
<1> HIDE DEF X
<1>7. Cardinality(X \union Pairs(f, T)) = Cardinality(X) + Cardinality(Pairs(f, T)) - Cardinality({})
  BY <1>4, <1>5, FS_Union
<1>8. Cardinality({}) = 0 /\ Cardinality(Pairs(f, T)) \in Nat
  BY FS_EmptySet, FS_CardinalityType
<1>9. IsFiniteSet(X \union Pairs(f, T))
  BY <1>4, FS_Union
<1>10. Cardinality(X \union Pairs(f, T)) = f[x] + Cardinality(Pairs(f, T))
  BY <1>1, <1>4, <1>7, <1>8
<1> QED
  BY <1>6, <1>9, <1>10

(* There are finitely many pairs, and none over the empty set.             *)
LEMMA PairsFinite ==
  ASSUME NEW S, IsFiniteSet(S), NEW f \in [S -> Nat]
  PROVE  /\ \A T \in SUBSET S : IsFiniteSet(Pairs(f, T))
         /\ Cardinality(Pairs(f, {})) = 0
<1> DEFINE Good == {T \in SUBSET S : IsFiniteSet(Pairs(f, T))}
<1>1. Pairs(f, {}) = {}
  BY DEF Pairs
<1>2. {} \in Good
  BY <1>1, FS_EmptySet
<1>3. \A T \in Good : \A x \in S \ T : T \union {x} \in Good
  BY PairsInsert
<1>4. Good = SUBSET S
  <2> HIDE DEF Good
  <2>1. Good \in SUBSET SUBSET S
    BY DEF Good
  <2> QED
    BY <1>2, <1>3, <2>1, SubsetInduction
<1> QED
  BY <1>1, <1>4, FS_EmptySet

(* The fold of the definition: any function that satisfies its recursion   *)
(* counts the pairs, and the function of the counts satisfies it.          *)
Folding(f, S, iter) ==
  iter = [s \in SUBSET S |->
            IF s = {} THEN 0
            ELSE f[CHOOSE x \in s : TRUE] + iter[s \ {CHOOSE x \in s : TRUE}]]

(* The sum, with the definitions of the community modules expanded.        *)
LEMMA SumIsFold ==
  ASSUME NEW f, NEW S
  PROVE  SumFunctionOnSet(f, S) = (CHOOSE iter : Folding(f, S, iter))[S]
BY DEF SumFunctionOnSet, FoldFunctionOnSet, MapThenFoldSet, Folding

(* The numbers of pairs satisfy the recursion of the fold.                 *)
LEMMA CountsFold ==
  ASSUME NEW S, IsFiniteSet(S), NEW f \in [S -> Nat]
  PROVE  Folding(f, S, [s \in SUBSET S |-> Cardinality(Pairs(f, s))])
<1> DEFINE g == [s \in SUBSET S |-> Cardinality(Pairs(f, s))]
<1>1. ASSUME NEW s \in SUBSET S, s # {}
      PROVE  g[s] = f[CHOOSE x \in s : TRUE] + g[s \ {CHOOSE x \in s : TRUE}]
  <2> DEFINE x == CHOOSE y \in s : TRUE
             t == s \ {x}
  <2>1. x \in s
    BY <1>1
  <2> HIDE DEF x
  <2>2. t \in SUBSET S /\ x \in S \ t /\ t \union {x} = s
    BY <2>1
  <2>3. Cardinality(Pairs(f, s)) = f[x] + Cardinality(Pairs(f, t))
    BY <2>2, PairsFinite, PairsInsert
  <2>4. g[s] = f[x] + g[t]
    BY <2>2, <2>3
  <2> QED
    BY <2>4 DEF x
<1>2. g[{}] = 0
  BY PairsFinite
<1> QED
  BY <1>1, <1>2 DEF Folding

(* Whatever satisfies the recursion of the fold counts the pairs.          *)
LEMMA FoldCounts ==
  ASSUME NEW S, IsFiniteSet(S), NEW f \in [S -> Nat], NEW iter, Folding(f, S, iter)
  PROVE  iter[S] = Cardinality(Pairs(f, S))
<1> DEFINE Bad == {s \in SUBSET S : iter[s] # Cardinality(Pairs(f, s))}
<1>1. IsWellFoundedOn(StrictSubsetOrdering(S), SUBSET S)
  BY FS_StrictSubsetOrderingWellFounded, FS_FiniteSubsetsOfFinite
<1>2. ASSUME Bad # {} PROVE FALSE
  <2>1. Bad \subseteq SUBSET S
    OBVIOUS
  <2>2. PICK s \in Bad : \A t \in Bad : ~ (<<t, s>> \in StrictSubsetOrdering(S))
    <3> HIDE DEF Bad
    <3> QED
      BY <1>1, <1>2, <2>1, WFMin
  <2>3. s # {}
    <3>1. iter[{}] = 0
      BY DEF Folding
    <3> QED
      BY <3>1, PairsFinite
  <2> DEFINE x == CHOOSE y \in s : TRUE
             t == s \ {x}
  <2>4. x \in s
    BY <2>3
  <2>5. iter[s] = f[x] + iter[t]
    BY <2>3 DEF Folding
  <2> HIDE DEF x
  <2>6. t \in SUBSET S /\ x \in S \ t /\ t \union {x} = s
        /\ <<t, s>> \in StrictSubsetOrdering(S)
    BY <2>4 DEF StrictSubsetOrdering
  <2>7. iter[t] = Cardinality(Pairs(f, t))
    BY <2>2, <2>6
  <2>8. Cardinality(Pairs(f, s)) = f[x] + Cardinality(Pairs(f, t))
    BY <2>6, PairsFinite, PairsInsert
  <2> QED
    BY <2>5, <2>7, <2>8
<1> QED
  BY <1>2

-----------------------------------------------------------------------------
(* What a sum is, and how it changes with its terms.                       *)
LEMMA SumCounts ==
  ASSUME NEW S, IsFiniteSet(S), NEW f \in [S -> Nat]
  PROVE  SumFunctionOnSet(f, S) = Cardinality(Pairs(f, S))
<1>1. Folding(f, S, CHOOSE iter : Folding(f, S, iter))
  BY CountsFold
<1> QED
  BY <1>1, SumIsFold, FoldCounts

(* Of a function, the sum over a finite part of its domain.                *)
LEMMA SumOfPart ==
  ASSUME NEW S, NEW f \in [S -> Nat], NEW T \in SUBSET S, IsFiniteSet(T)
  PROVE  /\ SumFunctionOnSet(f, T) = Cardinality(Pairs(f, T))
         /\ IsFiniteSet(Pairs(f, T)) /\ SumFunctionOnSet(f, T) \in Nat
<1> DEFINE g == [x \in T |-> f[x]]
<1>1. g \in [T -> Nat] /\ \A x \in T : f[x] = g[x]
  OBVIOUS
<1> HIDE DEF g
<1>2. ASSUME NEW iter PROVE Folding(f, T, iter) <=> Folding(g, T, iter)
  <2>1. ASSUME NEW s \in SUBSET T, s # {}
        PROVE  f[CHOOSE x \in s : TRUE] = g[CHOOSE x \in s : TRUE]
    BY <1>1, <2>1
  <2> QED
    BY <2>1 DEF Folding
<1>3. Folding(f, T, CHOOSE iter : Folding(f, T, iter))
  BY <1>1, <1>2, CountsFold
<1>4. Pairs(f, T) = Pairs(g, T)
  BY <1>1 DEF Pairs
<1>5. SumFunctionOnSet(f, T) = Cardinality(Pairs(g, T))
  BY <1>1, <1>2, <1>3, SumIsFold, FoldCounts
<1>6. IsFiniteSet(Pairs(g, T))
  BY <1>1, PairsFinite
<1> QED
  BY <1>4, <1>5, <1>6, FS_CardinalityType

(* One more member of the part.                                            *)
LEMMA SumInsert ==
  ASSUME NEW S, NEW f \in [S -> Nat], NEW T \in SUBSET S, IsFiniteSet(T),
         NEW x \in S \ T
  PROVE  SumFunctionOnSet(f, T \union {x}) = f[x] + SumFunctionOnSet(f, T)
<1>1. IsFiniteSet(T \union {x}) /\ T \union {x} \in SUBSET S
  BY FS_AddElement
<1>2. IsFiniteSet(Pairs(f, T)) /\ SumFunctionOnSet(f, T) = Cardinality(Pairs(f, T))
  BY SumOfPart
<1>3. SumFunctionOnSet(f, T \union {x}) = Cardinality(Pairs(f, T \union {x}))
  BY <1>1, SumOfPart
<1> QED
  BY <1>2, <1>3, PairsInsert

(* Larger terms over a larger part have a larger sum.                      *)
LEMMA SumLarger ==
  ASSUME NEW S, NEW f \in [S -> Nat], NEW g \in [S -> Nat],
         NEW U \in SUBSET S, IsFiniteSet(U), NEW T \in SUBSET U,
         \A x \in T : f[x] <= g[x]
  PROVE  SumFunctionOnSet(f, T) <= SumFunctionOnSet(g, U)
<1>1. IsFiniteSet(T) /\ T \in SUBSET S
  BY FS_Subset
<1>2. Pairs(f, T) \subseteq Pairs(g, U)
  <2>1. ASSUME NEW x \in T PROVE {x} \X (1 .. f[x]) \subseteq {x} \X (1 .. g[x])
    <3>1. f[x] \in Nat /\ g[x] \in Nat /\ f[x] <= g[x]
      BY <1>1
    <3>2. 1 .. f[x] \subseteq 1 .. g[x]
      BY <3>1
    <3> QED
      BY <3>2
  <2> QED
    BY <2>1 DEF Pairs
<1>3. IsFiniteSet(Pairs(g, U)) /\ SumFunctionOnSet(g, U) = Cardinality(Pairs(g, U))
  BY SumOfPart
<1>4. SumFunctionOnSet(f, T) = Cardinality(Pairs(f, T))
  BY <1>1, SumOfPart
<1> QED
  BY <1>2, <1>3, <1>4, FS_Subset

(* A sum of natural numbers is one.                                        *)
LEMMA SumType ==
  ASSUME NEW S, IsFiniteSet(S), NEW f \in [S -> Nat]
  PROVE  SumFunctionOnSet(f, S) \in Nat
BY SumCounts, PairsFinite, FS_CardinalityType

(* A sum of zeros is zero.                                                 *)
LEMMA SumZero ==
  ASSUME NEW S, IsFiniteSet(S), NEW f \in [S -> Nat], \A x \in S : f[x] = 0
  PROVE  SumFunctionOnSet(f, S) = 0
<1>1. Pairs(f, S) = {}
  BY DEF Pairs
<1> QED
  BY <1>1, SumCounts, FS_EmptySet

(* Larger terms have a larger sum.                                         *)
LEMMA SumMonotone ==
  ASSUME NEW S, IsFiniteSet(S), NEW f \in [S -> Nat], NEW g \in [S -> Nat],
         \A x \in S : f[x] <= g[x]
  PROVE  SumFunctionOnSet(f, S) <= SumFunctionOnSet(g, S)
<1>1. Pairs(f, S) \subseteq Pairs(g, S)
  BY DEF Pairs
<1>2. IsFiniteSet(Pairs(g, S))
  BY PairsFinite
<1>3. Cardinality(Pairs(f, S)) <= Cardinality(Pairs(g, S))
  BY <1>1, <1>2, FS_Subset
<1> QED
  BY <1>3, SumCounts

(* A sum with one of its terms taken out.                                  *)
LEMMA SumSplit ==
  ASSUME NEW S, IsFiniteSet(S), NEW f \in [S -> Nat], NEW u \in S
  PROVE  SumFunctionOnSet(f, S) = f[u] + Cardinality(Pairs(f, S \ {u}))
<1>1. S \ {u} \in SUBSET S /\ u \in S \ (S \ {u}) /\ (S \ {u}) \union {u} = S
  OBVIOUS
<1>2. IsFiniteSet(Pairs(f, S \ {u}))
  BY <1>1, PairsFinite
<1> DEFINE T == S \ {u}
<1>3. Cardinality(Pairs(f, T \union {u})) = f[u] + Cardinality(Pairs(f, T))
  BY <1>1, <1>2, PairsInsert
<1> QED
  BY <1>1, <1>3, SumCounts

(* No term exceeds the sum.                                                *)
LEMMA SumMember ==
  ASSUME NEW S, IsFiniteSet(S), NEW f \in [S -> Nat], NEW u \in S
  PROVE  f[u] <= SumFunctionOnSet(f, S)
<1>1. Cardinality(Pairs(f, S \ {u})) \in Nat
  BY PairsFinite, FS_CardinalityType
<1>2. f[u] \in Nat
  OBVIOUS
<1> QED
  BY <1>1, <1>2, SumSplit

(* When one term changes, the sum changes by the difference.               *)
LEMMA SumChangeOne ==
  ASSUME NEW S, IsFiniteSet(S), NEW f \in [S -> Nat], NEW g \in [S -> Nat],
         NEW u \in S, \A x \in S \ {u} : f[x] = g[x]
  PROVE  SumFunctionOnSet(g, S) = SumFunctionOnSet(f, S) - f[u] + g[u]
<1>1. Pairs(f, S \ {u}) = Pairs(g, S \ {u})
  BY DEF Pairs
<1>2. f[u] \in Nat /\ g[u] \in Nat
  OBVIOUS
<1>3. Cardinality(Pairs(f, S \ {u})) \in Nat
  BY PairsFinite, FS_CardinalityType
<1>4. /\ SumFunctionOnSet(f, S) = f[u] + Cardinality(Pairs(f, S \ {u}))
      /\ SumFunctionOnSet(g, S) = g[u] + Cardinality(Pairs(g, S \ {u}))
  BY SumSplit
<1> QED
  BY <1>1, <1>2, <1>3, <1>4

(* When each term grows by c times another, so does the sum.               *)
LEMMA SumLinear ==
  ASSUME NEW S, IsFiniteSet(S), NEW c \in Nat,
         NEW f \in [S -> Nat], NEW g \in [S -> Nat], NEW h \in [S -> Nat],
         \A x \in S : g[x] = f[x] + c * h[x]
  PROVE  SumFunctionOnSet(g, S) = SumFunctionOnSet(f, S) + c * SumFunctionOnSet(h, S)
<1> DEFINE N(e, T) == Cardinality(Pairs(e, T))
           Good == {T \in SUBSET S : N(g, T) = N(f, T) + c * N(h, T)}
<1>1. \A T \in SUBSET S : N(f, T) \in Nat /\ N(g, T) \in Nat /\ N(h, T) \in Nat
  BY PairsFinite, FS_CardinalityType
<1>2. N(f, {}) = 0 /\ N(g, {}) = 0 /\ N(h, {}) = 0
  BY PairsFinite
<1>3. {} \in Good
  BY <1>2
<1>4. ASSUME NEW T \in Good, NEW x \in S \ T PROVE T \union {x} \in Good
  <2>1. T \in SUBSET S /\ N(g, T) = N(f, T) + c * N(h, T)
    OBVIOUS
  <2>2. /\ N(f, T \union {x}) = f[x] + N(f, T)
        /\ N(g, T \union {x}) = g[x] + N(g, T)
        /\ N(h, T \union {x}) = h[x] + N(h, T)
    <3>1. ASSUME NEW e \in [S -> Nat] PROVE N(e, T \union {x}) = e[x] + N(e, T)
      <4>1. IsFiniteSet(Pairs(e, T))
        BY <2>1, PairsFinite
      <4> QED
        BY <2>1, <4>1, PairsInsert
    <3> HIDE DEF N
    <3> QED
      BY <3>1
  <2>3. f[x] \in Nat /\ h[x] \in Nat /\ g[x] = f[x] + c * h[x]
    OBVIOUS
  <2>4. N(f, T) \in Nat /\ N(h, T) \in Nat
    BY <1>1, <2>1
  <2>5. T \union {x} \in SUBSET S
    BY <2>1
  <2> DEFINE nf == N(f, T)
             nh == N(h, T)
  <2> HIDE DEF N, nf, nh
  <2>6. c * (h[x] + nh) = c * h[x] + c * nh
    BY <2>3, <2>4 DEF nh
  <2>7. N(g, T \union {x}) = N(f, T \union {x}) + c * N(h, T \union {x})
    BY <2>1, <2>2, <2>3, <2>4, <2>6 DEF nf, nh
  <2> QED
    BY <2>5, <2>7
<1>5. Good = SUBSET S
  <2>1. Good \in SUBSET SUBSET S
    OBVIOUS
  <2> HIDE DEF Good
  <2> QED
    BY <1>3, <1>4, <2>1, SubsetInduction
<1>6. N(g, S) = N(f, S) + c * N(h, S)
  BY <1>5
<1> QED
  BY <1>6, SumCounts

-----------------------------------------------------------------------------
(* There are never more members with a value than the values add up to.    *)
LEMMA MembersWithinSum ==
  ASSUME NEW S, IsFiniteSet(S), NEW f \in [S -> Nat]
  PROVE  Cardinality({x \in S : f[x] # 0}) <= SumFunctionOnSet(f, S)
<1> DEFINE K(T) == {x \in T : f[x] # 0}
           N(T) == Cardinality(Pairs(f, T))
           Good == {T \in SUBSET S : IsFiniteSet(K(T)) /\ Cardinality(K(T)) <= N(T)}
<1>1. \A T \in SUBSET S : N(T) \in Nat
  BY PairsFinite, FS_CardinalityType
<1>2. {} \in Good
  <2>1. K({}) = {} /\ N({}) = 0
    BY PairsFinite
  <2> QED
    BY <2>1, FS_EmptySet
<1>3. ASSUME NEW T \in Good, NEW x \in S \ T PROVE T \union {x} \in Good
  <2>1. T \in SUBSET S /\ IsFiniteSet(K(T)) /\ Cardinality(K(T)) <= N(T)
    OBVIOUS
  <2>2. N(T \union {x}) = f[x] + N(T)
    BY <2>1, PairsFinite, PairsInsert
  <2>3. N(T) \in Nat /\ f[x] \in Nat /\ Cardinality(K(T)) \in Nat
    BY <1>1, <2>1, FS_CardinalityType
  <2>4. CASE f[x] = 0
    <3>1. K(T \union {x}) = K(T)
      BY <2>4
    <3> HIDE DEF K, N
    <3>2. Cardinality(K(T \union {x})) <= N(T \union {x}) /\ IsFiniteSet(K(T \union {x}))
      BY <2>1, <2>2, <2>3, <2>4, <3>1
    <3> QED
      BY <2>1, <3>2
  <2>5. CASE f[x] # 0
    <3>1. K(T \union {x}) = K(T) \union {x} /\ x \notin K(T)
      BY <2>1, <2>5
    <3> HIDE DEF K, N
    <3>2. /\ IsFiniteSet(K(T) \union {x})
          /\ Cardinality(K(T) \union {x}) = Cardinality(K(T)) + 1
      BY <2>1, <3>1, FS_AddElement
    <3>3. Cardinality(K(T \union {x})) <= N(T \union {x}) /\ IsFiniteSet(K(T \union {x}))
      BY <2>1, <2>2, <2>3, <2>5, <3>1, <3>2
    <3> QED
      BY <2>1, <3>3
  <2> QED
    BY <2>4, <2>5
<1>4. Good = SUBSET S
  <2>1. Good \in SUBSET SUBSET S
    OBVIOUS
  <2> HIDE DEF Good
  <2> QED
    BY <1>2, <1>3, <2>1, SubsetInduction
<1>5. Cardinality(K(S)) <= N(S)
  BY <1>4
<1> QED
  BY <1>5, SumCounts
=============================================================================
