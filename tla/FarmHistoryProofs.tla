------------------------- MODULE FarmHistoryProofs -------------------------
(***************************************************************************)
(* What every step of the farm does, for every word size, set of users and *)
(* assets, and history: no user ever loses what it has earned, what is     *)
(* released is shared by the stakes there are before a call, letting time  *)
(* add up until somebody calls loses no tick and no reward, and rounding   *)
(* keeps every period within a token per update of its schedule.           *)
(***************************************************************************)
EXTENDS FarmSchedule, FarmSafetyProofs

(* Whole tokens can be taken out of a division by W.                       *)
LEMMA WholePart ==
  ASSUME NEW a \in Nat, NEW b \in Nat
  PROVE  (a * W + b) \div W = a + b \div W
<1>1. W \in Nat \ {0}
  BY WAssumption
<1>2. b \div W \in Int /\ b % W \in 0 .. W - 1 /\ b = W * (b \div W) + (b % W)
  BY <1>1, DivMod
<1> DEFINE q == b \div W
           r == b % W
<1> HIDE DEF q, r
<1>3. a * W + b = W * (a + q) + r
  BY <1>1, <1>2 DEF q, r
<1>4. a + q \in Int
  BY <1>2 DEF q
<1>5. (a * W + b) \div W = a + q
  BY <1>1, <1>2, <1>3, <1>4, DivUnique DEF r
<1> QED
  BY <1>5 DEF q

(* Division by W keeps the order.                                          *)
LEMMA DivMonotone ==
  ASSUME NEW a \in Nat, NEW b \in Nat, a <= b
  PROVE  a \div W <= b \div W
<1>1. W \in Nat \ {0}
  BY WAssumption
<1> DEFINE x == a \div W
           y == b \div W
<1>2. x \in Nat /\ y \in Nat /\ W * x <= a /\ b < W * y + W
  BY <1>1, DivNat
<1> HIDE DEF x, y
<1>3. x <= y
  <2>1. SUFFICES ASSUME x >= y + 1 PROVE FALSE
    BY <1>2
  <2>2. W * x >= W * (y + 1)
    BY <1>1, <1>2, <2>1
  <2>3. W * (y + 1) = W * y + W /\ W * y \in Nat /\ W * x \in Nat
    BY <1>1, <1>2
  <2> QED
    BY <1>1, <1>2, <2>2, <2>3
<1> QED
  BY <1>3 DEF x, y

(* What is earned, with the settled part taken out of the division.        *)
LEMMA EarnedIs ==
  ASSUME NEW l \in Local, NEW p \in LoosePool, NEW i \in Slots, Cum(l, i) <= Cum(p, i)
  PROVE  /\ Earned(l, p, i) = l.claimed[i] + (l.accrued[i]
                                + (l.staked * (Cum(p, i) - Cum(l, i))) \div W)
         /\ l.staked * (Cum(p, i) - Cum(l, i)) \in Nat
<1> DEFINE a == l.accrued[i]
           g == l.staked * (Cum(p, i) - Cum(l, i))
<1>1. a \in Nat /\ l.staked \in Nat /\ Cum(p, i) - Cum(l, i) \in Nat
  BY LocalFacts, PoolFacts
<1>2. g \in Nat
  BY <1>1
<1>3. Owed(l, p, i) = a * W + g
  BY DEF Owed
<1> HIDE DEF a, g
<1>4. Owed(l, p, i) \div W = a + g \div W
  BY <1>1, <1>2, <1>3, WholePart
<1> QED
  BY <1>2, <1>4 DEF Earned, a, g

(* A higher reward per token never means less.                             *)
LEMMA EarningsGrow ==
  ASSUME NEW l \in Local, NEW p \in LoosePool, NEW q \in LoosePool, NEW i \in Slots,
         Cum(l, i) <= Cum(p, i), Cum(p, i) <= Cum(q, i)
  PROVE  Earned(l, q, i) >= Earned(l, p, i)
<1> DEFINE s == l.staked
           x == Cum(p, i) - Cum(l, i)
           y == Cum(q, i) - Cum(l, i)
           c == l.claimed[i]
           a == l.accrued[i]
<1>1. s \in Nat /\ c \in Nat /\ a \in Nat
  BY LocalFacts
<1>2. Cum(l, i) \in Nat /\ Cum(p, i) \in Nat /\ Cum(q, i) \in Nat
  BY LocalFacts, PoolFacts
<1>3. x \in Nat /\ y \in Nat /\ x <= y /\ Cum(l, i) <= Cum(q, i)
  BY <1>2
<1>4. /\ Earned(l, p, i) = c + (a + (s * x) \div W)
      /\ Earned(l, q, i) = c + (a + (s * y) \div W)
  BY <1>3, EarnedIs
<1> HIDE DEF s, x, y, c, a
<1>5. s * x \in Nat /\ s * y \in Nat /\ s * x <= s * y
  <2>1. s * (y - x) \in Nat /\ s * y = s * x + s * (y - x)
    BY <1>1, <1>3
  <2> QED
    BY <1>1, <1>3, <2>1
<1>6. (s * x) \div W <= (s * y) \div W
  BY <1>5, DivMonotone
<1>7. (s * x) \div W \in Nat /\ (s * y) \div W \in Nat
  BY <1>5, WAssumption, DivNat
<1> QED
  BY <1>1, <1>4, <1>6, <1>7

(* update_local_state turns the earnings since the last call into settled  *)
(* rewards, to the token.                                                  *)
LEMMA SettlingKeepsEarnings ==
  ASSUME TypeOK, SnapshotsBehind, NEW p \in LoosePool, NEW u \in Users,
         NEW n \in Word, NEW i \in Slots, Cum(p, i) >= Cum(pool, i),
         i \in Listed \/ Cum(p, i) = 0, UpdateLocal(p, local[u], n) \in Local
  PROVE  Earned(UpdateLocal(p, local[u], n), p, i) = Earned(local[u], p, i)
<1> DEFINE k == local[u]
           l == UpdateLocal(p, k, n)
           s == k.staked
           a == k.accrued[i]
           z == Settled(p, k, i)
           g == Cum(p, i) - Cum(k, i)
<1>1. k \in Local /\ Cum(k, i) <= Cum(p, i)
  BY DebtsType
<1>2. /\ s \in Nat /\ a \in Nat /\ n \in Nat
      /\ Cum(k, i) \in Nat /\ Cum(p, i) \in Nat
  BY <1>1, LocalFacts, PoolFacts, ConstantsType
<1>3. g \in Nat /\ z \in Nat /\ z = (s * g) \div W
  BY <1>1, <1>2, SettledIs
<1>4. /\ l.rpt = p.rpt /\ l.rptFrac = p.rptFrac /\ l.claimed = k.claimed /\ l.staked = n
      /\ l.accrued[i] = IF i \in Listed THEN a + z ELSE a
  BY <1>1 DEF UpdateLocal, Local
<1>5. Cum(l, i) = Cum(p, i)
  BY <1>4 DEF Cum
<1>6. Earned(k, p, i) = k.claimed[i] + (a + (s * g) \div W)
  BY <1>1, EarnedIs
<1>7. Earned(l, p, i) = k.claimed[i] + (l.accrued[i] + (n * (Cum(p, i) - Cum(p, i))) \div W)
  <2>1. l \in Local /\ Cum(l, i) <= Cum(p, i)
    BY <1>2, <1>5
  <2> QED
    BY <1>4, <1>5, <2>1, EarnedIs
<1>8. (n * (Cum(p, i) - Cum(p, i))) \div W = 0
  <2>1. n * (Cum(p, i) - Cum(p, i)) = 0
    BY <1>2
  <2> QED
    BY <2>1, WAssumption
<1>9. l.accrued[i] = a + z
  <2>1. CASE i \in Listed
    BY <1>4, <2>1
  <2>2. CASE i \notin Listed
    <3>1. g = 0
      BY <1>1, <1>2, <2>2
    <3>2. s * g = 0
      BY <1>2, <3>1
    <3>3. z = 0
      BY <1>3, <3>2, WAssumption
    <3> QED
      BY <1>2, <1>4, <2>2, <3>3
  <2> QED
    BY <2>1, <2>2
<1>10. k.claimed[i] \in Nat
  BY <1>1, LocalFacts
<1> HIDE DEF s, a, z, g
<1>11. l.accrued[i] + (n * (Cum(p, i) - Cum(p, i))) \div W = a + z
  BY <1>2, <1>3, <1>8, <1>9
<1> QED
  BY <1>3, <1>6, <1>7, <1>11

(* A claim moves settled rewards to the claimed ones.                      *)
LEMMA ClaimingKeepsEarnings ==
  ASSUME NEW k \in Local, NEW l \in Local, NEW p \in LoosePool, NEW i \in Slots,
         Cum(k, i) <= Cum(p, i), NEW x \in Nat,
         l.staked = k.staked, Cum(l, i) = Cum(k, i),
         l.accrued[i] = k.accrued[i] - x, l.claimed[i] = k.claimed[i] + x
  PROVE  Earned(l, p, i) = Earned(k, p, i)
<1> DEFINE c == k.claimed[i]
           a == k.accrued[i]
           g == (k.staked * (Cum(p, i) - Cum(k, i))) \div W
<1>1. c \in Nat /\ a \in Nat
  BY LocalFacts
<1>2. Earned(k, p, i) = c + (a + g) /\ k.staked * (Cum(p, i) - Cum(k, i)) \in Nat
  BY EarnedIs
<1>3. g \in Nat
  BY <1>2, WAssumption, DivNat
<1>4. Earned(l, p, i) = (c + x) + ((a - x) + g)
  BY EarnedIs
<1> HIDE DEF c, a, g
<1> QED
  BY <1>1, <1>2, <1>3, <1>4

-----------------------------------------------------------------------------
KeepsEarnings(k, l, q) ==
  \A i \in Slots :
    Earned(l, q, i) = Earned(k, q, i) /\ Earned(k, q, i) >= Earned(k, pool, i)

(* As long as the reward per token does not shrink and a user's state is   *)
(* not touched, there is nothing to do.                                    *)
LEMMA UntouchedKeepsEarnings ==
  ASSUME SafetyInv, NEW v \in Users, NEW q \in LoosePool,
         \A i \in Slots : Cum(q, i) >= Cum(pool, i)
  PROVE  KeepsEarnings(local[v], local[v], q)
<1> SUFFICES ASSUME NEW i \in Slots
             PROVE  /\ Earned(local[v], q, i) = Earned(local[v], q, i)
                    /\ Earned(local[v], q, i) >= Earned(local[v], pool, i)
  BY DEF KeepsEarnings
<1>1. local[v] \in Local /\ pool \in LoosePool
  BY ConstantsType DEF SafetyInv, TypeOK
<1>2. Cum(local[v], i) <= Cum(pool, i) /\ Cum(pool, i) <= Cum(q, i)
  <2>1. Cum(pool, i) \in Nat /\ Cum(q, i) \in Nat
    BY <1>1, PoolFacts
  <2> QED
    BY <2>1 DEF SafetyInv, SnapshotsBehind
<1> QED
  BY <1>1, <1>2, EarningsGrow

(* Every action keeps the earnings of the users who stay.                  *)
LEMMA EarningsStep ==
  ASSUME SafetyInv, [Next]_vars, NEW v \in optedIn, v \in optedIn'
  PROVE  KeepsEarnings(local[v], local'[v], pool')
<1> USE DEF SafetyInv
<1>1. v \in Users /\ pool \in LoosePool /\ local[v] \in Local
  BY ConstantsType DEF TypeOK
<1>2. TypeOK' /\ pool' \in LoosePool /\ local'[v] \in Local
  BY <1>1, TypeStep, ConstantsType DEF TypeOK
<1>3. ASSUME local'[v] = local[v], pool'.rpt = pool.rpt, pool'.rptFrac = pool.rptFrac
      PROVE  KeepsEarnings(local[v], local'[v], pool')
  <2>1. \A i \in Slots : Cum(pool', i) = Cum(pool, i) /\ Cum(pool, i) \in Nat
    BY <1>1, <1>3, PoolFacts DEF Cum
  <2> QED
    BY <1>1, <1>2, <1>3, <2>1, UntouchedKeepsEarnings
<1>4. ASSUME UpdateFits, pool' = Updated
      PROVE  \A i \in Slots : /\ Cum(Updated, i) \in Nat
                              /\ Cum(Updated, i) >= Cum(pool, i)
                              /\ i \in Listed \/ Cum(Updated, i) = 0
  <2>1. Advances(pool, Updated)
    BY UpdatedAdvances
  <2> QED
    BY <2>1, PoolFacts, UpdatedUnlisted DEF Advances, EmptySlot
<1>5. CASE UpdateGlobalState
  <2>1. UpdateFits /\ pool' = Updated /\ local' = local
    BY <1>5 DEF UpdateGlobalState
  <2> QED
    BY <1>1, <1>2, <1>4, <2>1, UntouchedKeepsEarnings
<1>6. ASSUME NEW u \in Users, NEW balance \in Balances, NEW rekeyed \in BOOLEAN,
             UpdateState(u, balance, rekeyed)
      PROVE  KeepsEarnings(local[v], local'[v], pool')
  <2> DEFINE n == IF rekeyed THEN 0 ELSE balance
  <2>1. /\ UpdateFits /\ pool' = Updated
        /\ local' = [local EXCEPT ![u] = UpdateLocal(Updated, local[u], n)]
    BY <1>6 DEF UpdateState
  <2>2. n \in Word
    BY FarmAssumption, ConstantsType
  <2> HIDE DEF n
  <2>3. KeepsEarnings(local[v], local[v], pool')
    BY <1>1, <1>2, <1>4, <2>1, UntouchedKeepsEarnings
  <2>4. CASE u = v
    <3>1. local'[v] = UpdateLocal(Updated, local[v], n)
      BY <2>1, <2>4 DEF TypeOK
    <3>2. \A i \in Slots : Earned(local'[v], pool', i) = Earned(local[v], pool', i)
      BY <1>1, <1>2, <1>4, <2>1, <2>2, <3>1, SettlingKeepsEarnings
    <3> QED
      BY <2>3, <3>2 DEF KeepsEarnings
  <2>5. CASE u # v
    <3>1. local'[v] = local[v]
      BY <1>1, <2>1, <2>5 DEF TypeOK
    <3> QED
      BY <2>3, <3>1
  <2> QED
    BY <2>4, <2>5
<1>7. ASSUME NEW u \in Users, NEW ids \in SUBSET Listed, ClaimRewards(u, ids)
      PROVE  KeepsEarnings(local[v], local'[v], pool')
  <2> DEFINE x == [i \in Slots |-> IF i \in ids THEN local[u].accrued[i] ELSE 0]
  <2>1. /\ pool' = pool
        /\ local' = [local EXCEPT
                       ![u].accrued = [i \in Slots |-> local[u].accrued[i] - x[i]],
                       ![u].claimed = [i \in Slots |-> local[u].claimed[i] + x[i]]]
    BY <1>7 DEF ClaimRewards
  <2>2. CASE u = v
    <3>1. /\ local'[v].staked = local[v].staked /\ local'[v].rpt = local[v].rpt
          /\ local'[v].rptFrac = local[v].rptFrac
          /\ \A i \in Slots : /\ local'[v].accrued[i] = local[v].accrued[i] - x[i]
                              /\ local'[v].claimed[i] = local[v].claimed[i] + x[i]
      BY <1>1, <2>1, <2>2 DEF TypeOK, Local
    <3>2. \A i \in Slots : x[i] \in Nat
      BY <1>1, <2>2, LocalFacts
    <3> HIDE DEF x
    <3>3. \A i \in Slots : Cum(local'[v], i) = Cum(local[v], i)
      BY <3>1 DEF Cum
    <3>4. ASSUME NEW i \in Slots
          PROVE  Earned(local'[v], pool, i) = Earned(local[v], pool, i)
      <4>1. Cum(local[v], i) <= Cum(pool, i)
        BY <1>1 DEF SnapshotsBehind
      <4> QED
        BY <1>1, <1>2, <3>1, <3>2, <3>3, <4>1, ClaimingKeepsEarnings
    <3>5. KeepsEarnings(local[v], local[v], pool)
      <4>1. \A i \in Slots : Cum(pool, i) >= Cum(pool, i)
        BY <1>1, PoolFacts
      <4> QED
        BY <1>1, <4>1, UntouchedKeepsEarnings
    <3> QED
      BY <2>1, <3>4, <3>5 DEF KeepsEarnings
  <2>3. CASE u # v
    BY <1>1, <1>3, <2>1, <2>3 DEF TypeOK
  <2> QED
    BY <2>2, <2>3
<1>8. ASSUME NEW u \in Users, OptIn(u) PROVE KeepsEarnings(local[v], local'[v], pool')
  <2>1. u # v /\ local' = [local EXCEPT ![u] = NoLocal] /\ pool' = pool
    BY <1>8 DEF OptIn
  <2> QED
    BY <1>1, <1>3, <2>1 DEF TypeOK
<1>9. ASSUME NEW u \in Users, ClearState(u) \/ CloseOut(u)
      PROVE  KeepsEarnings(local[v], local'[v], pool')
  <2>1. /\ optedIn' = optedIn \ {u} /\ local' = [local EXCEPT ![u] = NoLocal]
        /\ pool' = pool \/ ExitFarm(local[u])
    BY <1>9 DEF ClearState, CloseOut, Leave
  <2>2. local'[v] = local[v]
    BY <1>1, <2>1 DEF TypeOK
  <2>3. pool'.rpt = pool.rpt /\ pool'.rptFrac = pool.rptFrac
    BY <1>1, <2>1 DEF ExitFarm, LoosePool
  <2> QED
    BY <1>3, <2>2, <2>3
<1>10. ASSUME NEW caller \in Accounts, NEW sent \in [Slots -> Amounts],
              NEW counted \in [Slots -> Amounts], NEW d \in Durations,
              DepositRewards(caller, sent, counted, d)
       PROVE  KeepsEarnings(local[v], local'[v], pool')
  <2>1. local' = local /\ pool'.rpt = pool.rpt /\ pool'.rptFrac = pool.rptFrac
    BY <1>1, <1>10 DEF DepositRewards, LoosePool
  <2> QED
    BY <1>3, <2>1
<1>11. CASE \/ Tick \/ UNCHANGED vars
            \/ \E caller \in Accounts :
                 \/ \E a \in Assets : AddRewardAsset(caller, a)
                 \/ \E newAdmin \in Accounts : ChangeAdmin(caller, newAdmin)
            \/ \E a \in Assets, amount \in Amounts : FundFarm(a, amount)
  <2>1. local' = local /\ pool' = pool
    BY <1>11 DEF Tick, vars, AddRewardAsset, ChangeAdmin, FundFarm
  <2> QED
    BY <1>3, <2>1
<1> QED
  BY <1>5, <1>6, <1>7, <1>8, <1>9, <1>10, <1>11 DEF Next, StakerNext, AdminNext

(* No call, whoever makes it, takes from a user who stays in the farm what *)
(* it has earned, to the token, and the rewards a call releases go to the  *)
(* stakes noticed before it.                                               *)
THEOREM FarmEarnings == Spec => EarningsFollowStake
<1>1. SafetyInv /\ [Next]_vars
        => [\A u \in optedIn \intersect optedIn', i \in Slots :
              /\ Earned(local'[u], pool', i) = Earned(local[u], pool', i)
              /\ Earned(local[u], pool', i) >= Earned(local[u], pool, i)]_vars
  BY EarningsStep DEF KeepsEarnings
<1> QED
  BY <1>1, FarmSafety, PTL DEF Spec, EarningsFollowStake

-----------------------------------------------------------------------------
(* The farm implements RewardStream                                        *)

Passed == IF Stakers = {} THEN 0 ELSE elapsed

(* What the stream is about, in any state of the invariant.                *)
StreamFigures ==
  /\ Stakers \subseteq Users /\ Passed \in Nat
  /\ pool.duration \in Nat /\ pool.nextDuration \in Nat
  /\ pool.pending \in [Slots -> Nat] /\ pool.next \in [Slots -> Nat]
  /\ [i \in Slots |-> pool.total[i] - claimedRewards[i]] \in [Slots -> Nat]

(* A pair, as the function a tuple is.                                     *)
LEMMA PairType ==
  ASSUME NEW S, NEW a \in S, NEW b \in S
  PROVE  /\ <<a, b>> \in [1 .. 2 -> S]
         /\ <<a, b>>[1] = a /\ <<a, b>>[2] = b
<1>1. <<a, b>>[1] = a /\ <<a, b>>[2] = b /\ DOMAIN <<a, b>> = 1 .. 2
  OBVIOUS
<1>2. <<a, b>> = [k \in 1 .. 2 |-> <<a, b>>[k]]
  OBVIOUS
<1>3. ASSUME NEW k \in 1 .. 2 PROVE <<a, b>>[k] \in S
  <2>1. k = 1 \/ k = 2
    OBVIOUS
  <2> QED
    BY <1>1, <2>1
<1> QED
  BY <1>1, <1>2, <1>3

(* Nobody has claimed more than was released, or the farm were insolvent.  *)
LEMMA FiguresType == SafetyInv => StreamFigures
<1> SUFFICES ASSUME SafetyInv PROVE StreamFigures
  OBVIOUS
<1>1. pool \in LoosePool /\ elapsed \in Nat /\ totalStaked \in Nat
  BY ConstantsType, FarmAssumption DEF SafetyInv, TypeOK
<1>2. /\ pool.duration \in Nat /\ pool.nextDuration \in Nat
      /\ pool.pending \in [Slots -> Nat] /\ pool.next \in [Slots -> Nat]
  BY <1>1, ConstantsType DEF LoosePool, Rewards
<1>3. Stakers \subseteq Users /\ Passed \in Nat
  BY <1>1 DEF Stakers, Passed
<1>4. ASSUME NEW i \in Slots PROVE pool.total[i] - claimedRewards[i] \in Nat
  <2>1. pool.total[i] \in Nat /\ Cum(pool, i) \in Nat
    BY <1>1, PoolFacts
  <2>2. claimedRewards[i] \in Nat /\ W \in Nat \ {0}
    BY ConstantsType DEF SafetyInv, TypeOK, Rewards
  <2>3. Debt(local, pool, i) \in Nat
    BY <1>1, <2>1, DebtsType DEF SafetyInv
  <2>4. (pool.total[i] - claimedRewards[i]) * W >= Debt(local, pool, i)
    BY SolventIsCovered DEF SafetyInv, Covered
  <2> DEFINE x == pool.total[i] - claimedRewards[i]
  <2>5. x \in Int /\ x * W >= 0
    BY <2>1, <2>2, <2>3, <2>4
  <2> HIDE DEF x
  <2>6. x >= 0
    BY <2>2, <2>5
  <2> QED
    BY <2>5, <2>6 DEF x
<1> QED
  BY <1>2, <1>3, <1>4 DEF StreamFigures

(* The same after a step.                                                  *)
LEMMA FiguresNext == SafetyInv' => Stream!Types
<1>1. SafetyInv' => StreamFigures'
  BY FiguresType, PTL
<1> SUFFICES ASSUME SafetyInv' PROVE Stream!Types
  OBVIOUS
<1>2. /\ <<pool'.duration, pool'.nextDuration>> \in [1 .. 2 -> Nat]
      /\ <<pool'.pending, pool'.next>> \in [1 .. 2 -> [Slots -> Nat]]
  BY <1>1, PairType DEF StreamFigures
<1> QED
  BY <1>1, <1>2 DEF StreamFigures, Passed, Stream!Types, Stream!Deposits

(* The total stake is zero exactly when nobody stakes.                     *)
LEMMA NobodyStakes == SafetyInv => (totalStaked = 0 <=> Stakers = {})
<1> SUFFICES ASSUME SafetyInv PROVE totalStaked = 0 <=> Stakers = {}
  OBVIOUS
<1> DEFINE f == [u \in Users |-> local[u].staked]
<1>1. f \in [Users -> Nat] /\ IsFiniteSet(Users)
  BY LocalFacts, ConstantsType, FarmAssumption DEF SafetyInv, TypeOK, Local
<1>2. totalStaked = SumFunctionOnSet(f, Users)
  BY DEF SafetyInv, StakeAccounting
<1>3. \A u \in Users : f[u] = local[u].staked
  OBVIOUS
<1> HIDE DEF f
<1>4. ASSUME Stakers = {} PROVE totalStaked = 0
  BY <1>1, <1>2, <1>3, <1>4, SumZero DEF Stakers
<1>5. ASSUME totalStaked = 0, NEW u \in Stakers PROVE FALSE
  <2>1. u \in Users /\ f[u] # 0
    BY <1>3 DEF Stakers
  <2>2. f[u] <= SumFunctionOnSet(f, Users)
    BY <1>1, <2>1, SumMember
  <2> QED
    BY <1>1, <1>2, <1>5, <2>1, <2>2
<1> QED
  BY <1>4, <1>5

-----------------------------------------------------------------------------
(* An update releases evenly                                               *)

(* What is left of a tokens when dt of their d ticks are up.               *)
LEMMA EvenRelease ==
  ASSUME NEW a \in Nat, NEW d \in Nat \ {0}, NEW dt \in 0 .. d
  PROVE  LET q == a - (a * dt) \div d
         IN  a * (d - dt) <= q * d /\ q * d < a * (d - dt) + d
<1> DEFINE x == (a * dt) \div d
<1>1. dt \in Nat /\ a * dt \in Nat /\ a * d \in Nat
  OBVIOUS
<1>2. x \in Nat /\ d * x <= a * dt /\ a * dt < d * x + d
  BY <1>1, DivNat
<1> HIDE DEF x
<1>3. d * x \in Nat
  BY <1>2
<1>4. (a - x) * d = a * d - d * x /\ a * (d - dt) = a * d - a * dt
  BY <1>1, <1>2
<1>5. a * (d - dt) <= (a - x) * d /\ (a - x) * d < a * (d - dt) + d
  BY <1>1, <1>2, <1>3, <1>4
<1> QED
  BY <1>5 DEF x

(* Where no ticks are up, nothing is released.                             *)
LEMMA EvenAtStart ==
  ASSUME NEW r \in [Slots -> Nat], NEW t \in Nat, t = 0 => r = ZeroRewards
  PROVE  Stream!Evenly(r, t, 0, r)
<1> SUFFICES ASSUME NEW i \in Slots
             PROVE  /\ r[i] * (t - 0) <= r[i] * t
                    /\ r[i] * t < r[i] * (t - 0) + t \/ r[i] = 0
  BY DEF Stream!Evenly
<1>1. r[i] \in Nat /\ r[i] * t \in Nat /\ t - 0 = t
  OBVIOUS
<1>2. t = 0 => r[i] = 0
  BY DEF ZeroRewards
<1> QED
  BY <1>1, <1>2

(* update_global_state_current releases evenly.                            *)
LEMMA CurrentIsEven ==
  ASSUME totalStaked \in Word \ {0}, NEW p \in LoosePool, p.duration # 0,
         NEW dt \in 0 .. p.duration, \A i \in Slots \ Listed : p.pending[i] = 0
  PROVE  Stream!Evenly(p.pending, p.duration, dt, UpdateCurrent(p, dt).pending)
<1> DEFINE q == UpdateCurrent(p, dt)
<1>1. p.duration \in Nat \ {0}
  BY ConstantsType DEF LoosePool
<1>2. ASSUME NEW i \in Slots
      PROVE  /\ p.pending[i] \in Nat
             /\ q.pending[i] = p.pending[i] - (p.pending[i] * dt) \div p.duration
  <2>1. p.pending[i] \in Nat
    BY PoolFacts
  <2>2. Released(p, dt, i) = (p.pending[i] * dt) \div p.duration
    <3>1. CASE i \in Listed
      BY <3>1 DEF Released, DistributedReward, MulDiv64
    <3>2. CASE i \notin Listed
      <4>1. p.pending[i] = 0 /\ 0 * dt = 0 /\ 0 \div p.duration = 0
        BY <1>1, <3>2
      <4> QED
        BY <3>2, <4>1 DEF Released
    <3> QED
      BY <3>1, <3>2
  <2> QED
    BY <2>1, <2>2, UpdateCurrentType
<1>3. ASSUME NEW i \in Slots
      PROVE  /\ p.pending[i] * (p.duration - dt) <= q.pending[i] * p.duration
             /\ q.pending[i] * p.duration
                  < p.pending[i] * (p.duration - dt) + p.duration
  <2> DEFINE a == p.pending[i]
             d == p.duration
             b == q.pending[i]
  <2>1. a \in Nat /\ d \in Nat \ {0} /\ dt \in 0 .. d /\ b = a - (a * dt) \div d
    BY <1>1, <1>2
  <2> HIDE DEF a, d, b
  <2>2. a * (d - dt) <= b * d /\ b * d < a * (d - dt) + d
    BY <2>1, EvenRelease
  <2> QED
    BY <2>2 DEF a, d, b
<1> QED
  BY <1>3 DEF Stream!Evenly

(* The pool q is what is left of p after n ticks with stakers.             *)
UsesUp(p, n, q) ==
  LET spent == IF n - p.duration <= p.nextDuration THEN n - p.duration
               ELSE p.nextDuration
  IN \/ /\ n < p.duration
        /\ q.duration = p.duration - n /\ q.nextDuration = p.nextDuration
        /\ Stream!Evenly(p.pending, p.duration, n, q.pending)
        /\ q.next = p.next
     \/ /\ n >= p.duration
        /\ q.duration = p.nextDuration - spent /\ q.nextDuration = 0
        /\ Stream!Evenly(p.next, p.nextDuration, spent, q.pending)
        /\ q.next = ZeroRewards

(* update_global_state makes up for all ticks that have passed with        *)
(* stakers, in the current period and then in the queued one.              *)
LEMMA UpdatedUsesUp ==
  ASSUME SafetyInv
  PROVE  UsesUp(pool, Passed, Updated)
<1> USE DEF SafetyInv
<1>1. /\ pool \in LoosePool /\ Updated \in LoosePool /\ elapsed \in Nat
      /\ pool.duration \in Nat /\ pool.nextDuration \in Nat
      /\ pool.pending \in [Slots -> Nat] /\ pool.next \in [Slots -> Nat]
  <2>1. pool \in LoosePool /\ Updated \in LoosePool /\ elapsed \in Nat
    BY ConstantsType, FarmAssumption, UpdatedType DEF TypeOK
  <2> QED
    BY <2>1, ConstantsType DEF LoosePool, Rewards
<1>2. /\ pool.duration = 0 => pool.pending = ZeroRewards
      /\ pool.duration = 0 => pool.nextDuration = 0
      /\ pool.nextDuration = 0 => pool.next = ZeroRewards
  BY DEF ScheduleConsistent
<1>3. /\ Stream!Evenly(pool.pending, pool.duration, 0, pool.pending)
      /\ Stream!Evenly(pool.next, pool.nextDuration, 0, pool.next)
  BY <1>1, <1>2, EvenAtStart
<1>4. /\ totalStaked = 0 => Passed = 0
      /\ totalStaked # 0 => Passed = elapsed
      /\ Passed \in Nat
  BY <1>1, NobodyStakes DEF Passed
<1>5. CASE Idle /\ Updated = pool
  <2>1. CASE pool.duration # 0
    <3>1. totalStaked = 0 /\ Passed = 0
      BY <1>4, <1>5, <2>1 DEF Idle
    <3> QED
      BY <1>1, <1>3, <1>5, <2>1, <3>1 DEF UsesUp
  <2>2. CASE pool.duration = 0
    <3>1. pool.nextDuration = 0 /\ pool.next = ZeroRewards /\ pool.pending = ZeroRewards
      BY <1>2, <2>2
    <3>2. /\ Passed >= pool.duration
          /\ (IF Passed - pool.duration <= pool.nextDuration
              THEN Passed - pool.duration ELSE pool.nextDuration) = 0
      BY <1>4, <2>2, <3>1
    <3>3. Stream!Evenly(pool.next, pool.nextDuration, 0, pool.pending)
      BY <1>3, <3>1
    <3> QED
      BY <1>5, <2>2, <3>1, <3>2, <3>3 DEF UsesUp
  <2> QED
    BY <2>1, <2>2
<1>6. ASSUME totalStaked \in Word \ {0}, pool.duration # 0,
             CurrentDt \in 0 .. pool.duration
      PROVE  /\ Current.duration = pool.duration - CurrentDt
             /\ Current.nextDuration = pool.nextDuration
             /\ Current.next = pool.next /\ Current \in LoosePool
             /\ Stream!Evenly(pool.pending, pool.duration, CurrentDt, Current.pending)
  <2>1. \A i \in Slots \ Listed : pool.pending[i] = 0
    BY DEF UnlistedEmpty
  <2> QED
    BY <1>1, <1>6, <2>1, UpdateCurrentType, CurrentIsEven DEF Current
<1>7. CASE /\ totalStaked \in Word \ {0} /\ pool.duration # 0
           /\ CurrentDt \in 0 .. pool.duration /\ Current.duration # 0
           /\ CurrentDt = elapsed /\ Updated = Current
  <2>1. Passed = CurrentDt /\ Passed < pool.duration
    BY <1>1, <1>4, <1>6, <1>7
  <2> QED
    BY <1>6, <1>7, <2>1 DEF UsesUp
<1>8. CASE /\ totalStaked \in Word \ {0} /\ pool.duration # 0
           /\ CurrentDt \in 0 .. pool.duration /\ elapsed >= pool.duration
           /\ pool.nextDuration = 0 \/ elapsed = pool.duration
           /\ Updated = MoveToNext(Current)
  <2>1. /\ Updated.duration = pool.nextDuration /\ Updated.nextDuration = 0
        /\ Updated.pending = pool.next /\ Updated.next = ZeroRewards
    BY <1>6, <1>8, MoveToNextType
  <2>2. /\ Passed >= pool.duration
        /\ (IF Passed - pool.duration <= pool.nextDuration
            THEN Passed - pool.duration ELSE pool.nextDuration) = 0
    BY <1>1, <1>4, <1>8
  <2> QED
    BY <1>1, <1>3, <2>1, <2>2 DEF UsesUp
<1>9. CASE /\ totalStaked \in Word \ {0} /\ pool.duration # 0
           /\ CurrentDt \in 0 .. pool.duration /\ CurrentDt = pool.duration
           /\ elapsed >= pool.duration
           /\ NextDt \in 0 .. MoveToNext(Current).duration
           /\ MoveToNext(Current).duration # 0
           /\ NextDt = Least(pool.nextDuration, elapsed - pool.duration)
           /\ Updated = UpdateCurrent(MoveToNext(Current), NextDt)
  <2> DEFINE m == MoveToNext(Current)
  <2>1. /\ m \in LoosePool /\ m.duration = pool.nextDuration /\ m.nextDuration = 0
        /\ m.pending = pool.next /\ m.next = ZeroRewards
    BY <1>6, <1>9, MoveToNextType
  <2>2. NextDt \in 0 .. m.duration /\ m.duration # 0 /\ Updated = UpdateCurrent(m, NextDt)
    BY <1>9
  <2>3. \A i \in Slots \ Listed : m.pending[i] = 0
    BY <2>1 DEF UnlistedEmpty
  <2> HIDE DEF m
  <2>4. /\ Updated.duration = m.duration - NextDt /\ Updated.nextDuration = 0
        /\ Updated.next = ZeroRewards
        /\ Stream!Evenly(m.pending, m.duration, NextDt, Updated.pending)
    BY <1>9, <2>1, <2>2, <2>3, UpdateCurrentType, CurrentIsEven
  <2>5. /\ Passed >= pool.duration
        /\ NextDt = IF Passed - pool.duration <= pool.nextDuration
                    THEN Passed - pool.duration ELSE pool.nextDuration
    <3>1. Passed = elapsed
      BY <1>4, <1>9
    <3> QED
      BY <1>1, <1>9, <3>1 DEF Least
  <2> QED
    BY <2>1, <2>4, <2>5 DEF UsesUp
<1>10. (CurrentDt = pool.duration) => elapsed >= pool.duration
  BY <1>1 DEF CurrentDt, Least
<1> QED
  BY <1>5, <1>7, <1>8, <1>9, <1>10, UpdatedCases

-----------------------------------------------------------------------------
(* Every step of the farm is one of the stream, or nothing to it           *)

(* What the stream sees does not change.                                   *)
LEMMA Unnoticed ==
  ASSUME pool' = pool, claimedRewards' = claimedRewards, Stakers' = Stakers,
         elapsed' = elapsed \/ Stakers = {}
  PROVE  [Stream!Next]_Stream!vars
<1>1. Passed' = Passed
  BY DEF Passed
<1> QED
  BY <1>1 DEF Passed, Stream!vars

(* update_global_state and update_state release what is due for the time   *)
(* up to now.                                                              *)
LEMMA UpdateStreams ==
  ASSUME SafetyInv, SafetyInv', pool' = Updated, elapsed' = 0,
         claimedRewards' = claimedRewards
  PROVE  [Stream!Next]_Stream!vars
<1>1. UsesUp(pool, Passed, pool')
  BY UpdatedUsesUp
<1>2. Passed' = 0
  BY DEF Passed
<1>3. ASSUME NEW i \in Slots
      PROVE  pool'.total[i] - claimedRewards'[i] + pool'.pending[i] + pool'.next[i]
               = pool.total[i] - claimedRewards[i] + pool.pending[i] + pool.next[i]
  <2>1. pool \in LoosePool /\ Updated \in LoosePool
    BY ConstantsType, UpdatedType DEF SafetyInv, TypeOK
  <2>2. Updated.total[i] + Updated.pending[i] + Updated.next[i]
          = pool.total[i] + pool.pending[i] + pool.next[i]
    BY UpdatedAdvances DEF SafetyInv, Advances
  <2>3. /\ pool.pending[i] \in Nat /\ pool.next[i] \in Nat /\ pool.total[i] \in Nat
        /\ Updated.pending[i] \in Nat /\ Updated.next[i] \in Nat
        /\ Updated.total[i] \in Nat
    BY <2>1, PoolFacts
  <2>4. claimedRewards[i] \in Nat
    BY ConstantsType DEF SafetyInv, TypeOK, Rewards
  <2> QED
    BY <2>2, <2>3, <2>4
<1>4. CASE Passed < pool.duration
  <2>1. Stream!IsOver = FALSE
    BY <1>4, FiguresType DEF StreamFigures, Passed, Stream!IsOver
  <2> QED
    BY <1>1, <1>2, <1>3, <1>4, <2>1, FiguresType, FiguresNext
       DEF UsesUp, Passed, StreamFigures, Stream!Release, Stream!Next
<1>5. CASE ~ (Passed < pool.duration)
  <2>1. /\ Stream!IsOver
        /\ Stream!SpentOfQueued = IF Passed - pool.duration <= pool.nextDuration
                                  THEN Passed - pool.duration ELSE pool.nextDuration
    BY <1>5, FiguresType
       DEF StreamFigures, Passed, Stream!IsOver, Stream!SpentOfQueued
  <2> QED
    BY <1>1, <1>2, <1>3, <1>5, <2>1, FiguresNext
       DEF UsesUp, Passed, ZeroRewards, Stream!Release, Stream!Next
<1> QED
  BY <1>4, <1>5

(* deposit_rewards: the assertion that the farm is up to date makes the    *)
(* time of the new period start now.                                       *)
LEMMA DepositStreams ==
  ASSUME SafetyInv, SafetyInv', NEW caller \in Accounts,
         NEW sent \in [Slots -> Amounts], NEW counted \in [Slots -> Amounts],
         NEW d \in Durations, DepositRewards(caller, sent, counted, d)
  PROVE  [Stream!Next]_Stream!vars
<1> USE DEF SafetyInv
<1>1. /\ elapsed = 0 /\ elapsed' = 0 /\ pool.nextDuration = 0 /\ d # 0
      /\ pool' = IF pool.duration = 0
                 THEN [pool EXCEPT !.pending = counted, !.duration = d]
                 ELSE [pool EXCEPT !.next = counted, !.nextDuration = d]
      /\ local' = local /\ claimedRewards' = claimedRewards
  BY DEF DepositRewards
<1>2. pool \in LoosePool /\ d \in Nat \ {0}
  BY <1>1, ConstantsType, FarmAssumption DEF TypeOK
<1>3. /\ pool'.total = pool.total
      /\ \/ /\ pool.duration = 0 /\ pool'.duration = d
            /\ pool'.nextDuration = pool.nextDuration
            /\ pool'.pending = counted /\ pool'.next = pool.next
         \/ /\ pool.duration # 0 /\ pool'.duration = pool.duration
            /\ pool'.nextDuration = d
            /\ pool'.pending = pool.pending /\ pool'.next = counted
  BY <1>1, <1>2 DEF LoosePool
<1>4. pool.duration \in Nat
  BY <1>2, ConstantsType DEF LoosePool
<1>5. pool.next = ZeroRewards /\ (pool.duration = 0 => pool.pending = ZeroRewards)
  BY <1>1 DEF ScheduleConsistent
<1>6. \A i \in Slots : counted[i] >= ZeroRewards[i]
  <2>1. \A i \in Slots : counted[i] \in Nat /\ ZeroRewards[i] = 0
    BY FarmAssumption DEF ZeroRewards
  <2> QED
    BY <2>1
<1>7. Stakers' = Stakers /\ Passed = 0 /\ Passed' = 0
  BY <1>1 DEF Stakers, Passed
<1>8. Stream!Deposits = {1, 2}
  BY DEF Stream!Deposits
<1>9. CASE pool.duration = 0
  <2>1. /\ pool'.duration > 0 /\ pool'.nextDuration = pool.nextDuration
        /\ pool'.next = pool.next
        /\ \A i \in Slots : pool'.pending[i] >= pool.pending[i]
    BY <1>2, <1>3, <1>5, <1>6, <1>9
  <2> QED
    BY <1>1, <1>3, <1>7, <1>8, <1>9, <2>1, FiguresNext
       DEF Passed, Stream!Next, Stream!Deposit
<1>10. CASE pool.duration # 0
  <2>1. /\ pool.duration > 0 /\ pool'.duration = pool.duration
        /\ pool'.nextDuration > 0 /\ pool'.pending = pool.pending
        /\ \A i \in Slots : pool'.next[i] >= pool.next[i]
    BY <1>2, <1>3, <1>4, <1>5, <1>6, <1>10
  <2> QED
    BY <1>1, <1>3, <1>7, <1>8, <1>10, <2>1, FiguresNext
       DEF Passed, Stream!Next, Stream!Deposit
<1> QED
  BY <1>9, <1>10

(* exit_farm gives up settled rewards, and the time since the last call    *)
(* only when nobody stakes any more.                                       *)
LEMMA ExitStreams ==
  ASSUME SafetyInv, SafetyInv', NEW u \in Users, ExitFarm(local[u]), Leave(u),
         UNCHANGED <<claimedRewards, elapsed>>
  PROVE  [Stream!Next]_Stream!vars
<1> USE DEF SafetyInv
<1>1. pool \in LoosePool /\ local \in [Users -> Local] /\ local[u] \in Local
  BY ConstantsType, FarmAssumption DEF TypeOK
<1>2. /\ pool'.duration = pool.duration /\ pool'.nextDuration = pool.nextDuration
      /\ pool'.pending = pool.pending /\ pool'.next = pool.next
      /\ \A i \in Slots : pool'.total[i] = pool.total[i] - local[u].accrued[i]
  BY <1>1 DEF ExitFarm, SetStake, LoosePool
<1>3. ASSUME NEW i \in Slots
      PROVE  pool'.total[i] - claimedRewards'[i] <= pool.total[i] - claimedRewards[i]
  <2>1. /\ pool.total[i] \in Nat /\ local[u].accrued[i] \in Nat
        /\ claimedRewards[i] \in Nat
    BY <1>1, PoolFacts, LocalFacts, ConstantsType DEF TypeOK, Rewards
  <2> QED
    BY <1>2, <2>1
<1>4. Stakers' = Stakers \ {u}
  <2>1. \A v \in Users : local'[v] = IF v = u THEN NoLocal ELSE local[v]
    BY <1>1 DEF Leave
  <2>2. NoLocal.staked = 0
    BY DEF NoLocal
  <2> QED
    BY <2>1, <2>2 DEF Stakers
<1>5. Passed' = IF Stakers' = {} THEN 0 ELSE Passed
  BY <1>4 DEF Passed
<1>6. Stream!Leave
  BY <1>2, <1>3, <1>4, <1>5 DEF Passed, Stream!Leave
<1> QED
  BY <1>6, FiguresNext DEF Stream!Next

(* claim_rewards pays rewards that have been released.                     *)
LEMMA ClaimStreams ==
  ASSUME SafetyInv, SafetyInv', NEW u \in Users, NEW ids \in SUBSET Listed,
         ClaimRewards(u, ids)
  PROVE  [Stream!Next]_Stream!vars
<1> USE DEF SafetyInv
<1> DEFINE paid == [i \in Slots |-> IF i \in ids THEN local[u].accrued[i] ELSE 0]
<1>1. /\ claimedRewards' = [i \in Slots |-> claimedRewards[i] + paid[i]]
      /\ UNCHANGED <<pool, elapsed>>
  BY DEF ClaimRewards
<1>2. ASSUME NEW i \in Slots
      PROVE  pool'.total[i] - claimedRewards'[i] <= pool.total[i] - claimedRewards[i]
  <2>1. pool \in LoosePool /\ local[u] \in Local
    BY ConstantsType DEF TypeOK
  <2>2. pool.total[i] \in Nat /\ paid[i] \in Nat /\ claimedRewards[i] \in Nat
    BY <2>1, PoolFacts, LocalFacts, ConstantsType DEF TypeOK, Rewards
  <2> HIDE DEF paid
  <2> QED
    BY <1>1, <2>2
<1>3. Stakers' = Stakers
  <2>1. ASSUME NEW v \in Users PROVE local'[v].staked = local[v].staked
    BY DEF ClaimRewards, TypeOK, Local
  <2> QED
    BY <2>1 DEF Stakers
<1>4. Stream!Take
  BY <1>1, <1>2, <1>3 DEF Stream!Take
<1> QED
  BY <1>4, FiguresNext DEF Stream!Next

(* The clock runs for the stream while somebody stakes.                    *)
LEMMA TickStreams ==
  ASSUME SafetyInv, SafetyInv', Tick
  PROVE  [Stream!Next]_Stream!vars
<1>1. elapsed' = elapsed + 1 /\ UNCHANGED <<pool, local, claimedRewards>>
  BY DEF Tick
<1>2. Stakers' = Stakers
  BY <1>1 DEF Stakers
<1>3. CASE Stakers = {}
  BY <1>1, <1>2, <1>3, Unnoticed
<1>4. CASE Stakers # {}
  <2>1. Stream!Pass
    BY <1>1, <1>2, <1>4 DEF Stream!Pass
  <2> QED
    BY <2>1, FiguresNext DEF Stream!Next
<1> QED
  BY <1>3, <1>4

(* Each action of the farm, as the stream sees it.                         *)
LEMMA StreamStep == SafetyInv /\ SafetyInv' /\ [Next]_vars => [Stream!Next]_Stream!vars
<1> SUFFICES ASSUME SafetyInv, SafetyInv', [Next]_vars
             PROVE  [Stream!Next]_Stream!vars
  OBVIOUS
<1>1. CASE Tick
  BY <1>1, TickStreams
<1>2. CASE UpdateGlobalState
  BY <1>2, UpdateStreams DEF UpdateGlobalState
<1>3. ASSUME NEW u \in Users, NEW balance \in Balances, NEW rekeyed \in BOOLEAN,
             UpdateState(u, balance, rekeyed)
      PROVE  [Stream!Next]_Stream!vars
  <2>1. pool' = Updated /\ elapsed' = 0 /\ claimedRewards' = claimedRewards
    BY <1>3 DEF UpdateState
  <2> QED
    BY <2>1, UpdateStreams
<1>4. ASSUME NEW u \in Users, NEW ids \in SUBSET Listed, ClaimRewards(u, ids)
      PROVE  [Stream!Next]_Stream!vars
  BY <1>4, ClaimStreams
<1>5. ASSUME NEW u \in Users, ClearState(u) PROVE [Stream!Next]_Stream!vars
  <2>1. ExitFits(local[u])
    BY LeavingIsOpen DEF SafetyInv
  <2> QED
    BY <1>5, <2>1, ExitStreams DEF ClearState
<1>6. ASSUME NEW u \in Users, CloseOut(u) PROVE [Stream!Next]_Stream!vars
  BY <1>6, ExitStreams DEF CloseOut
<1>7. ASSUME NEW caller \in Accounts, NEW sent \in [Slots -> Amounts],
             NEW counted \in [Slots -> Amounts], NEW d \in Durations,
             DepositRewards(caller, sent, counted, d)
      PROVE  [Stream!Next]_Stream!vars
  BY <1>7, DepositStreams
<1>8. ASSUME NEW u \in Users, OptIn(u) PROVE [Stream!Next]_Stream!vars
  <2>1. local' = local
    BY <1>8 DEF SafetyInv, NoStrays, TypeOK, OptIn
  <2>2. Stakers' = Stakers
    BY <2>1 DEF Stakers
  <2> QED
    BY <1>8, <2>2, Unnoticed DEF OptIn
<1>9. CASE \/ UNCHANGED vars
           \/ \E caller \in Accounts :
                \/ \E a \in Assets : AddRewardAsset(caller, a)
                \/ \E newAdmin \in Accounts : ChangeAdmin(caller, newAdmin)
           \/ \E a \in Assets, amount \in Amounts : FundFarm(a, amount)
  <2>1. UNCHANGED <<pool, local, elapsed, claimedRewards>>
    BY <1>9 DEF vars, AddRewardAsset, ChangeAdmin, FundFarm
  <2>2. Stakers' = Stakers
    BY <2>1 DEF Stakers
  <2> QED
    BY <2>1, <2>2, Unnoticed
<1> QED
  BY <1>1, <1>2, <1>3, <1>4, <1>5, <1>6, <1>7, <1>8, <1>9
     DEF Next, StakerNext, AdminNext

(* A farm with nothing in it is a stream with nothing in it.               *)
LEMMA StreamInit == Init => Stream!Init
<1> SUFFICES ASSUME Init PROVE Stream!Init
  OBVIOUS
<1>1. Stakers = {}
  BY DEF Init, NoLocal, Stakers
<1>2. /\ pool.duration = 0 /\ pool.nextDuration = 0
      /\ pool.pending = ZeroRewards /\ pool.next = ZeroRewards
      /\ [i \in Slots |-> pool.total[i] - claimedRewards[i]] = [i \in Slots |-> 0]
  BY DEF Init, ZeroRewards
<1>3. /\ <<0, 0>> = [k \in 1 .. 2 |-> 0]
      /\ <<ZeroRewards, ZeroRewards>> = [k \in 1 .. 2 |-> ZeroRewards]
  OBVIOUS
<1> QED
  BY <1>1, <1>2, <1>3 DEF Stream!Init, Stream!Deposits, ZeroRewards

(* The contract, which learns of the time only when it is called, keeps    *)
(* the promise of a stream in which time runs tick by tick: every tick     *)
(* with stakers is made up for once, in the current deposit and then in the*)
(* queued one; neither releases more than its share of the ticks, nor less *)
(* by a token; and nothing is lost or paid before its release.             *)
THEOREM FarmStreamsRewards == Spec => StreamsRewards
<1>1. SafetyInv /\ SafetyInv' /\ [Next]_vars => [Stream!Next]_Stream!vars
  BY StreamStep
<1> QED
  BY <1>1, StreamInit, FarmSafety, PTL DEF Spec, StreamsRewards, Stream!Spec

-----------------------------------------------------------------------------
(* Rounding keeps every period on its schedule                             *)

HistoryTypes ==
  /\ periodRewards \in [Slots -> Nat] /\ periodDuration \in Nat /\ updates \in Nat

(* The pool p is n roundings away from the linear release of the rewards   *)
(* over the duration.                                                      *)
OnSchedule(p, rewards, duration, n) ==
  \A i \in Slots :
    /\ rewards[i] * p.duration <= p.pending[i] * duration
    /\ p.pending[i] * duration <= rewards[i] * p.duration + n * duration

(* The figures of the current period are n roundings from its schedule.    *)
LEMMA ReleaseIsOnSchedule ==
  ReleaseOnSchedule <=> OnSchedule(pool, periodRewards, periodDuration, updates)
BY DEF ReleaseOnSchedule, OnSchedule

(* One release of dt out of d time units of p pending tokens keeps between *)
(* the schedule of r tokens over l time units and one token more above it. *)
LEMMA RoundedRelease ==
  ASSUME NEW p \in Nat, NEW r \in Nat, NEW l \in Nat, NEW n \in Nat,
         NEW d \in Nat \ {0}, NEW dt \in 0 .. d,
         r * d <= p * l, p * l <= r * d + n * l
  PROVE  LET q == p - (p * dt) \div d
         IN  r * (d - dt) <= q * l /\ q * l <= r * (d - dt) + (n + 1) * l
<1> DEFINE x == (p * dt) \div d
           q == p - x
           e == d - dt
<1>1. dt \in Nat /\ e \in Nat /\ e <= d /\ p * dt \in Nat
  OBVIOUS
<1>2. x \in Nat /\ d * x <= p * dt /\ p * dt < d * x + d
  BY <1>1, DivNat
<1>3. x <= p
  <2>1. DistributedReward(dt, d, p) \in 0 .. p
    BY DistributedBounds
  <2> QED
    BY <2>1 DEF DistributedReward, MulDiv64
<1>4. q \in Nat
  BY <1>2, <1>3
<1>5. q * d = p * d - d * x /\ p * e = p * d - p * dt
  <2> HIDE DEF x
  <2> QED
    BY <1>1, <1>2
<1>6. p * e <= q * d /\ q * d <= p * e + d
  <2>1. p * d \in Nat /\ d * x \in Nat
    BY <1>2
  <2> HIDE DEF x, q, e
  <2> QED
    BY <1>1, <1>2, <1>5, <2>1
<1> HIDE DEF x, q, e
<1>7. p * e \in Nat /\ q * d \in Nat /\ r * d \in Nat /\ p * l \in Nat /\ n * l \in Nat
  BY <1>1, <1>4
<1>8. r * e <= q * l
  <2>1. (r * d) * e <= (p * l) * e
    BY <1>1, <1>7, TimesMonotone
  <2>2. (p * e) * l <= (q * d) * l
    BY <1>6, <1>7, TimesMonotone
  <2>3. /\ (r * d) * e = (r * e) * d /\ (p * l) * e = (p * e) * l
        /\ (q * d) * l = (q * l) * d
    BY <1>1, <1>4
  <2>4. r * e \in Nat /\ q * l \in Nat
    BY <1>1, <1>4
  <2>5. (r * e) * d \in Nat /\ (p * e) * l \in Nat /\ (q * l) * d \in Nat
    BY <1>1, <1>4, <2>4, <1>7
  <2>6. (r * e) * d <= (q * l) * d
    BY <2>1, <2>2, <2>3, <2>5
  <2> QED
    BY <2>4, <2>6, TimesCancel
<1>9. q * l <= r * e + (n + 1) * l
  <2> DEFINE a == (r * e) * d
             b == (n * l) * e
             c == (n * l) * d
             k == l * d
             z == (q * l) * d
  <2>1. (q * d) * l <= (p * e + d) * l
    BY <1>6, <1>7, TimesMonotone
  <2>2. (p * l) * e <= (r * d + n * l) * e
    BY <1>1, <1>7, TimesMonotone
  <2>3. b <= c
    <3>1. e * (n * l) <= d * (n * l)
      BY <1>1, <1>7, TimesMonotone
    <3>2. e * (n * l) = b /\ d * (n * l) = c
      BY <1>1, <1>7
    <3> QED
      BY <3>1, <3>2
  <2>4. /\ (q * d) * l = z /\ (p * e + d) * l = (p * l) * e + k
        /\ (r * d + n * l) * e = a + b
        /\ (r * e + (n + 1) * l) * d = a + c + k
    BY <1>1, <1>4, <1>7
  <2>5. a \in Nat /\ b \in Nat /\ c \in Nat /\ k \in Nat /\ z \in Nat /\ (p * l) * e \in Nat
    BY <1>1, <1>4, <1>7
  <2>6. q * l \in Nat /\ r * e + (n + 1) * l \in Nat
    BY <1>1, <1>4, <1>7
  <2> HIDE DEF a, b, c, k, z
  <2>7. z <= a + c + k
    BY <2>1, <2>2, <2>3, <2>4, <2>5
  <2>8. (q * l) * d <= (r * e + (n + 1) * l) * d
    BY <2>4, <2>7 DEF z
  <2> QED
    BY <2>6, <2>8, TimesCancel
<1> QED
  BY <1>8, <1>9 DEF x, q, e

(* update_global_state_current keeps to the schedule, with one rounding    *)
(* more if it released anything.                                           *)
LEMMA UpdateOnSchedule ==
  ASSUME totalStaked \in Word \ {0}, NEW p \in LoosePool, p.duration # 0,
         NEW dt \in 0 .. p.duration, \A i \in Slots \ Listed : p.pending[i] = 0,
         NEW rewards \in [Slots -> Nat], NEW duration \in Nat, NEW n \in Nat,
         OnSchedule(p, rewards, duration, n)
  PROVE  /\ OnSchedule(UpdateCurrent(p, dt), rewards, duration, n + 1)
         /\ dt = 0 => OnSchedule(UpdateCurrent(p, dt), rewards, duration, n)
<1> DEFINE q == UpdateCurrent(p, dt)
<1>1. p.duration \in Nat \ {0} /\ q.duration = p.duration - dt
  BY UpdateCurrentType, ConstantsType DEF LoosePool
<1>2. ASSUME NEW i \in Slots
      PROVE  /\ p.pending[i] \in Nat /\ rewards[i] \in Nat
             /\ q.pending[i] = p.pending[i] - (p.pending[i] * dt) \div p.duration
  <2>1. p.pending[i] \in Nat
    BY PoolFacts
  <2>2. Released(p, dt, i) = (p.pending[i] * dt) \div p.duration
    <3>1. CASE i \in Listed
      BY <3>1 DEF Released, DistributedReward, MulDiv64
    <3>2. CASE i \notin Listed
      <4>1. p.pending[i] = 0 /\ 0 * dt = 0 /\ 0 \div p.duration = 0
        BY <1>1, <3>2
      <4> QED
        BY <3>2, <4>1 DEF Released
    <3> QED
      BY <3>1, <3>2
  <2> QED
    BY <2>1, <2>2, UpdateCurrentType
<1>3. OnSchedule(q, rewards, duration, n + 1)
  <2> SUFFICES ASSUME NEW i \in Slots
               PROVE  /\ rewards[i] * q.duration <= q.pending[i] * duration
                      /\ q.pending[i] * duration
                           <= rewards[i] * q.duration + (n + 1) * duration
    BY DEF OnSchedule
  <2> DEFINE a == p.pending[i]
             r == rewards[i]
             d == p.duration
  <2>1. /\ a \in Nat /\ r \in Nat /\ d \in Nat \ {0} /\ dt \in 0 .. d
        /\ r * d <= a * duration /\ a * duration <= r * d + n * duration
    BY <1>1, <1>2 DEF OnSchedule
  <2>2. q.duration = d - dt /\ q.pending[i] = a - (a * dt) \div d
    BY <1>1, <1>2
  <2> HIDE DEF a, r, d, q
  <2>3. LET b == a - (a * dt) \div d
        IN  r * (d - dt) <= b * duration
              /\ b * duration <= r * (d - dt) + (n + 1) * duration
    BY <2>1, RoundedRelease
  <2> QED
    BY <2>2, <2>3 DEF r
<1>4. ASSUME dt = 0 PROVE OnSchedule(q, rewards, duration, n)
  <2>1. q.duration = p.duration
    BY <1>1, <1>4
  <2>2. ASSUME NEW i \in Slots PROVE q.pending[i] = p.pending[i]
    <3>1. p.pending[i] * 0 = 0 /\ 0 \div p.duration = 0
      BY <1>1, <1>2
    <3> QED
      BY <1>2, <1>4, <3>1
  <2> QED
    BY <2>1, <2>2 DEF OnSchedule
<1> QED
  BY <1>3, <1>4

(* A period that just began is on its own schedule.                        *)
LEMMA FreshOnSchedule ==
  ASSUME NEW p \in LoosePool, NEW n \in Nat
  PROVE  /\ p.pending \in [Slots -> Nat] /\ p.duration \in Nat
         /\ OnSchedule(p, p.pending, p.duration, n)
<1>1. p.pending \in [Slots -> Nat] /\ p.duration \in Nat
  BY ConstantsType DEF LoosePool, Rewards
<1>2. n * p.duration \in Nat /\ \A i \in Slots : p.pending[i] * p.duration \in Nat
  BY <1>1
<1>3. ASSUME NEW i \in Slots
      PROVE  p.pending[i] * p.duration <= p.pending[i] * p.duration + n * p.duration
  <2> DEFINE x == p.pending[i] * p.duration
             y == n * p.duration
  <2>1. x \in Nat /\ y \in Nat
    BY <1>2
  <2> HIDE DEF x, y
  <2>2. x <= x + y
    BY <2>1
  <2> QED
    BY <2>2 DEF x, y
<1>4. \A i \in Slots : p.pending[i] * p.duration <= p.pending[i] * p.duration
  BY <1>2
<1> QED
  BY <1>1, <1>3, <1>4 DEF OnSchedule

(* An update that stays in the period, ends it, or goes on into the next.  *)
LEMMA UpdatedOnSchedule ==
  ASSUME SafetyInv, HistoryTypes, ReleaseOnSchedule, pool.duration # 0,
         pool' = Updated, Remember
  PROVE  HistoryTypes' /\ ReleaseOnSchedule'
<1> USE DEF SafetyInv
<1> DEFINE R == periodRewards
           D == periodDuration
           n == updates
<1>1. /\ OnSchedule(pool, R, D, n) /\ R \in [Slots -> Nat] /\ D \in Nat /\ n \in Nat
      /\ pool \in LoosePool /\ pool.duration \in Nat /\ pool.nextDuration \in Nat
  <2>1. pool \in LoosePool
    BY ConstantsType DEF TypeOK
  <2> QED
    BY <2>1, ReleaseIsOnSchedule, ConstantsType DEF HistoryTypes, LoosePool
<1>2. \A i \in Slots \ Listed : pool.pending[i] = 0 /\ pool.next[i] = 0
  BY DEF UnlistedEmpty
<1>3. CASE ~ (pool.nextDuration # 0 /\ pool'.nextDuration = 0)
  <2>1. /\ periodRewards' = R /\ periodDuration' = D
        /\ updates' = IF pool'.duration < pool.duration THEN n + 1 ELSE n
    BY <1>3 DEF Remember, Period
  <2>2. HistoryTypes'
    BY <1>1, <2>1 DEF HistoryTypes
  <2>3. OnSchedule(Updated, R, D, updates')
    <3>1. CASE Idle /\ Updated = pool
      <4>1. updates' = n
        BY <1>1, <2>1, <3>1
      <4> QED
        BY <1>1, <3>1, <4>1
    <3>2. ASSUME totalStaked \in Word \ {0}, CurrentDt \in 0 .. pool.duration
          PROVE  /\ Current.duration = pool.duration - CurrentDt
                 /\ Current.nextDuration = pool.nextDuration
                 /\ Current.next = pool.next /\ Current \in LoosePool
      BY <1>1, <3>2, UpdateCurrentType DEF Current
    <3>3. CASE /\ totalStaked \in Word \ {0} /\ CurrentDt \in 0 .. pool.duration
               /\ Updated = Current
      <4>1. /\ OnSchedule(Current, R, D, n + 1)
            /\ CurrentDt = 0 => OnSchedule(Current, R, D, n)
        BY <1>1, <1>2, <3>3, UpdateOnSchedule DEF Current
      <4>2. updates' = IF CurrentDt = 0 THEN n ELSE n + 1
        BY <1>1, <2>1, <3>2, <3>3
      <4> QED
        BY <3>3, <4>1, <4>2
    <3>4. ASSUME totalStaked \in Word \ {0}, CurrentDt \in 0 .. pool.duration,
                 Updated.duration = pool.nextDuration, Updated.nextDuration = 0,
                 Updated.pending = pool.next
          PROVE  OnSchedule(Updated, R, D, updates')
      <4>1. pool.nextDuration = 0 /\ updates' \in Nat
        BY <1>3, <2>2, <3>4 DEF HistoryTypes
      <4>2. Updated.pending = ZeroRewards
        BY <3>4, <4>1 DEF ScheduleConsistent
      <4>3. \A i \in Slots : Updated.pending[i] = 0 /\ R[i] * 0 = 0
        BY <1>1, <4>2 DEF ZeroRewards
      <4>4. 0 * D = 0 /\ updates' * D \in Nat
        <5>1. \A a, b \in Nat : 0 * a = 0 /\ b * a \in Nat
          OBVIOUS
        <5>2. D \in Nat /\ updates' \in Nat
          BY <1>1, <4>1
        <5> QED
          BY <5>1, <5>2, Zenon
      <4> QED
        BY <3>4, <4>1, <4>3, <4>4 DEF OnSchedule
    <3>5. CASE /\ totalStaked \in Word \ {0} /\ CurrentDt \in 0 .. pool.duration
               /\ Updated = MoveToNext(Current)
      BY <3>2, <3>4, <3>5, MoveToNextType
    <3>6. CASE /\ totalStaked \in Word \ {0} /\ CurrentDt \in 0 .. pool.duration
               /\ NextDt \in 0 .. MoveToNext(Current).duration
               /\ MoveToNext(Current).duration # 0
               /\ Updated = UpdateCurrent(MoveToNext(Current), NextDt)
      <4> DEFINE m == MoveToNext(Current)
      <4>1. m \in LoosePool /\ m.duration = pool.nextDuration /\ m.nextDuration = 0
        BY <3>2, <3>6, MoveToNextType
      <4>2. NextDt \in 0 .. m.duration /\ m.duration # 0 /\ Updated = UpdateCurrent(m, NextDt)
        BY <3>6
      <4> HIDE DEF m
      <4>3. Updated.nextDuration = 0
        BY <3>6, <4>1, <4>2, UpdateCurrentType
      <4> QED
        BY <1>3, <4>1, <4>2, <4>3
    <3> QED
      BY <3>1, <3>3, <3>5, <3>6, UpdatedCases
  <2>4. OnSchedule(pool', periodRewards', periodDuration', updates')
    BY <2>1, <2>3
  <2> QED
    BY <2>2, <2>4 DEF ReleaseOnSchedule, OnSchedule
<1>4. CASE pool.nextDuration # 0 /\ pool'.nextDuration = 0
  <2>1. /\ periodRewards' = pool.next /\ periodDuration' = pool.nextDuration
        /\ updates' = 1
    BY <1>4 DEF Remember, Period
  <2>2. pool.next \in [Slots -> Nat]
    BY <1>1, ConstantsType DEF LoosePool, Rewards
  <2>3. HistoryTypes'
    BY <1>1, <2>1, <2>2 DEF HistoryTypes
  <2>4. OnSchedule(Updated, pool.next, pool.nextDuration, 1)
    <3>1. CASE Idle /\ Updated = pool
      BY <1>4, <3>1
    <3>2. ASSUME totalStaked \in Word \ {0}, CurrentDt \in 0 .. pool.duration
          PROVE  /\ Current.nextDuration = pool.nextDuration
                 /\ Current.next = pool.next /\ Current \in LoosePool
      BY <1>1, <3>2, UpdateCurrentType DEF Current
    <3>3. CASE /\ totalStaked \in Word \ {0} /\ CurrentDt \in 0 .. pool.duration
               /\ Updated = Current
      BY <1>4, <3>2, <3>3
    <3> DEFINE m == MoveToNext(Current)
    <3>4. ASSUME totalStaked \in Word \ {0}, CurrentDt \in 0 .. pool.duration
          PROVE  /\ m \in LoosePool /\ m.duration = pool.nextDuration
                 /\ m.pending = pool.next
      BY <3>2, <3>4, MoveToNextType
    <3>5. CASE /\ totalStaked \in Word \ {0} /\ CurrentDt \in 0 .. pool.duration
               /\ Updated = m
      <4> HIDE DEF m
      <4>1. OnSchedule(m, m.pending, m.duration, 1)
        BY <3>4, <3>5, FreshOnSchedule
      <4> QED
        BY <3>4, <3>5, <4>1
    <3>6. CASE /\ totalStaked \in Word \ {0} /\ CurrentDt \in 0 .. pool.duration
               /\ NextDt \in 0 .. m.duration /\ m.duration # 0
               /\ Updated = UpdateCurrent(m, NextDt)
      <4> HIDE DEF m
      <4>1. /\ m.pending \in [Slots -> Nat] /\ m.duration \in Nat
            /\ OnSchedule(m, m.pending, m.duration, 0)
        BY <3>4, <3>6, FreshOnSchedule
      <4>2. \A i \in Slots \ Listed : m.pending[i] = 0
        BY <1>2, <3>4, <3>6
      <4>3. OnSchedule(UpdateCurrent(m, NextDt), m.pending, m.duration, 0 + 1)
        BY <3>4, <3>6, <4>1, <4>2, UpdateOnSchedule
      <4> QED
        BY <3>4, <3>6, <4>3
    <3> QED
      BY <3>1, <3>3, <3>5, <3>6, UpdatedCases
  <2>5. OnSchedule(pool', periodRewards', periodDuration', updates')
    BY <2>1, <2>4
  <2> QED
    BY <2>3, <2>5 DEF ReleaseOnSchedule, OnSchedule
<1> QED
  BY <1>3, <1>4

(* A step either begins a period, or updates the one there is, or leaves   *)
(* its rewards and its time alone.                                         *)
LEMMA StepsOfPeriod ==
  ASSUME TypeOK, Next, pool.duration # 0
  PROVE  \/ pool' = Updated
         \/ /\ pool'.pending = pool.pending /\ pool'.duration = pool.duration
            /\ pool.nextDuration # 0 => pool'.nextDuration # 0
<1> DEFINE Kept == /\ pool'.pending = pool.pending /\ pool'.duration = pool.duration
                   /\ pool.nextDuration # 0 => pool'.nextDuration # 0
<1>1. CASE Tick
  BY <1>1 DEF Tick
<1>2. CASE UpdateGlobalState
  BY <1>2 DEF UpdateGlobalState
<1>3. ASSUME NEW l, ExitFarm(l) PROVE Kept
  BY <1>3 DEF ExitFarm
<1>4. ASSUME NEW u \in Users, StakerNext
      PROVE  pool' = Updated \/ Kept
  BY <1>3, <1>4 DEF StakerNext, OptIn, ClearState, CloseOut, UpdateState, ClaimRewards
<1>5. ASSUME NEW caller \in Accounts, NEW sent \in [Slots -> Amounts],
             NEW counted \in [Slots -> Amounts], NEW d \in Durations,
             DepositRewards(caller, sent, counted, d)
      PROVE  Kept
  <2>1. /\ pool.nextDuration = 0
        /\ pool' = [pool EXCEPT !.next = counted, !.nextDuration = d]
    BY <1>5 DEF DepositRewards
  <2>2. pool \in LoosePool
    BY ConstantsType DEF TypeOK
  <2> QED
    BY <2>1, <2>2 DEF LoosePool
<1>6. CASE \/ \E caller \in Accounts :
                \/ \E a \in Assets : AddRewardAsset(caller, a)
                \/ \E newAdmin \in Accounts : ChangeAdmin(caller, newAdmin)
           \/ \E a \in Assets, amount \in Amounts : FundFarm(a, amount)
  <2>1. pool' = pool
    BY <1>6 DEF AddRewardAsset, ChangeAdmin, FundFarm
  <2> QED
    BY <2>1
<1>7. StakerNext => Users # {}
  BY DEF StakerNext
<1> QED
  BY <1>1, <1>2, <1>4, <1>5, <1>6, <1>7 DEF Next, AdminNext

(* Every step keeps to the schedule.                                       *)
LEMMA ScheduleStep ==
  ASSUME SafetyInv, SafetyInv', HistoryTypes, ReleaseOnSchedule,
         [ScheduleNext]_scheduleVars
  PROVE  HistoryTypes' /\ ReleaseOnSchedule'
<1>1. CASE UNCHANGED scheduleVars
  BY <1>1 DEF scheduleVars, vars, HistoryTypes, ReleaseOnSchedule
<1>2. CASE ScheduleNext /\ pool.duration = 0
  <2>1. /\ periodRewards' = pool'.pending /\ periodDuration' = pool'.duration
        /\ updates' = 0
    BY <1>2 DEF ScheduleNext, Remember, Period
  <2>2. pool' \in LoosePool
    BY ConstantsType DEF SafetyInv, TypeOK
  <2> DEFINE q == pool'
  <2> HIDE DEF q
  <2>3. q.pending \in [Slots -> Nat] /\ q.duration \in Nat /\ OnSchedule(q, q.pending, q.duration, 0)
    BY <2>2, FreshOnSchedule DEF q
  <2> QED
    BY <2>1, <2>3 DEF HistoryTypes, ReleaseOnSchedule, OnSchedule, q
<1>3. CASE ScheduleNext /\ pool.duration # 0 /\ pool' = Updated
  BY <1>3, UpdatedOnSchedule DEF ScheduleNext
<1>4. CASE /\ ScheduleNext /\ pool.duration # 0
           /\ pool'.pending = pool.pending /\ pool'.duration = pool.duration
           /\ pool.nextDuration # 0 => pool'.nextDuration # 0
  <2>1. pool.duration \in Nat
    <3>1. pool \in LoosePool
      BY ConstantsType DEF SafetyInv, TypeOK
    <3> QED
      BY <3>1, ConstantsType DEF LoosePool
  <2>2. UNCHANGED <<periodRewards, periodDuration, updates>>
    BY <1>4, <2>1 DEF ScheduleNext, Remember, Period
  <2> QED
    BY <1>4, <2>2 DEF HistoryTypes, ReleaseOnSchedule
<1> QED
  BY <1>1, <1>2, <1>3, <1>4, StepsOfPeriod DEF ScheduleNext, SafetyInv

(* Rounding neither speeds the release up nor starves it, however often    *)
(* the farm is called, and however long or large the period.               *)
THEOREM FarmReleasesOnSchedule == ScheduleSpec => []ReleaseOnSchedule
<1>1. ScheduleInit => HistoryTypes /\ ReleaseOnSchedule
  <2> SUFFICES ASSUME ScheduleInit PROVE HistoryTypes /\ ReleaseOnSchedule
    OBVIOUS
  <2>1. HistoryTypes
    BY DEF ScheduleInit, HistoryTypes, ZeroRewards
  <2>2. pool.duration = 0 /\ \A i \in Slots : pool.pending[i] = 0 /\ periodRewards[i] = 0
    BY DEF ScheduleInit, Init, ZeroRewards
  <2> QED
    BY <2>1, <2>2 DEF ScheduleInit, ReleaseOnSchedule
<1>2. SafetyInv /\ SafetyInv' /\ HistoryTypes /\ ReleaseOnSchedule /\ [ScheduleNext]_scheduleVars
        => HistoryTypes' /\ ReleaseOnSchedule'
  BY ScheduleStep
<1>3. [ScheduleNext]_scheduleVars => [Next]_vars
  BY DEF ScheduleNext, scheduleVars
<1>4. ScheduleSpec => Spec
  BY <1>3, PTL DEF ScheduleSpec, ScheduleInit, Spec
<1> QED
  BY <1>1, <1>2, <1>4, FarmSafety, PTL DEF ScheduleSpec
=============================================================================
