-------------------------- MODULE FarmSafetyProofs --------------------------
(***************************************************************************)
(* The safety properties of the farm, for every word size, set of users    *)
(* and assets, and history: what is owed is covered, what is counted is    *)
(* what the users have, and everybody can leave.                           *)
(***************************************************************************)
EXTENDS FarmProofs, SequenceTheorems

(* The inductive invariant.                                                *)
SafetyInv ==
  /\ TypeOK /\ NoStrays /\ ClaimsCounted /\ DistinctAssets /\ UnlistedEmpty
  /\ SnapshotsBehind /\ ScheduleConsistent /\ StakeAccounting /\ Solvent
  /\ HoldingsCoverLiabilities

-----------------------------------------------------------------------------
(* What each action does to the parts of the invariant                     *)

(* An index of a listed asset.                                             *)
LEMMA ListedType ==
  ASSUME TypeOK
  PROVE  \A i \in Listed : i \in Slots /\ rewardAssets[i] \in Assets
<1>1. /\ rewardAssets \in Seq(Assets) /\ Len(rewardAssets) <= MaxFarmedAssets
      /\ MaxFarmedAssets \in Nat
  BY FarmAssumption DEF TypeOK
<1>2. Len(rewardAssets) \in Nat
  BY <1>1, LenProperties
<1> QED
  BY <1>1, <1>2, ElementOfSeq DEF Listed, Slots

(* An update is covered: what it adds to the debts it has released.        *)
LEMMA UpdatedCovered ==
  ASSUME SafetyInv
  PROVE  Covered(Updated, claimedRewards, local)
<1> USE DEF SafetyInv
<1>1. Advances(pool, Updated)
  BY UpdatedAdvances
<1>2. Updated \in LoosePool /\ pool \in LoosePool
  BY <1>1, ConstantsType DEF TypeOK, Advances
<1> SUFFICES ASSUME NEW i \in Slots
             PROVE  (Updated.total[i] - claimedRewards[i]) * W >= Debt(local, Updated, i)
  BY DEF Covered
<1> DEFINE c == claimedRewards[i]
           t == pool.total[i]
           r == Updated.total[i]
           x == (Cum(Updated, i) - Cum(pool, i)) * totalStaked
           d == Debt(local, pool, i)
<1>3. /\ Cum(Updated, i) \in Nat /\ Cum(pool, i) \in Nat /\ t \in Nat /\ r \in Nat
      /\ c \in Nat /\ W \in Nat /\ totalStaked \in Nat
  BY <1>2, PoolFacts, ConstantsType DEF TypeOK, Rewards
<1>4. Cum(Updated, i) >= Cum(pool, i) /\ x <= (r - t) * W
  BY <1>1 DEF Advances
<1>5. Debt(local, Updated, i) = d + x
  BY <1>2, <1>4, DebtGrows
<1>6. d <= (t - c) * W
  BY SolventIsCovered DEF Covered
<1>7. d \in Nat
  BY <1>2, <1>3, DebtsType
<1>8. x \in Int
  BY <1>3
<1> HIDE DEF c, t, r, x, d
<1>9. (r - c) * W = (t - c) * W + (r - t) * W
  BY <1>3
<1>10. (t - c) * W \in Int /\ (r - t) * W \in Int
  BY <1>3
<1>11. (r - c) * W >= d + x
  BY <1>4, <1>6, <1>7, <1>8, <1>9, <1>10
<1> QED
  BY <1>5, <1>11 DEF r, c

(* Between the pools p and q the user u takes x of what is owed to it, and *)
(* becomes l, to whom that much less is owed.                              *)
Takes(u, l, x, p, q, c) ==
  \A i \in Slots :
    /\ Cum(p, i) >= Cum(pool, i) /\ Cum(q, i) = Cum(p, i)
    /\ q.total[i] - c[i] = (p.total[i] - claimedRewards[i]) - x[i]
    /\ Owed(l, p, i) \in Nat
    /\ Owed(l, p, i) + x[i] * W <= Owed(local[u], p, i)

(* Replacing a user's state by one to whom x less is owed is covered by x  *)
(* less of released rewards.                                               *)
LEMMA CoverReplace ==
  ASSUME TypeOK, SnapshotsBehind, NEW p \in LoosePool, NEW u \in Users, NEW l \in Local,
         NEW m, m = [local EXCEPT ![u] = l], NEW q, NEW c, NEW x \in [Slots -> Nat],
         Covered(p, claimedRewards, local), Takes(u, l, x, p, q, c)
  PROVE  Covered(q, c, m)
<1> USE DEF Takes
<1> SUFFICES ASSUME NEW i \in Slots
             PROVE  (q.total[i] - c[i]) * W >= Debt(m, q, i)
  BY DEF Covered
<1> DEFINE o == Owed(local[u], p, i)
           n == Owed(l, p, i)
           d == Debt(local, p, i)
           e == Debt(m, p, i)
           t == p.total[i] - claimedRewards[i]
           y == x[i]
<1>1. /\ Debts(local, p, i)[u] = o /\ Debts(local, p, i) \in [Users -> Nat] /\ d \in Nat
  BY DebtsType
<1>2. o \in Nat /\ n \in Nat /\ d \in Nat /\ y \in Nat /\ W \in Nat /\ n + y * W <= o
  BY <1>1, ConstantsType
<1>3. t \in Int
  <2>1. p.total[i] \in Nat
    BY PoolFacts
  <2>2. claimedRewards[i] \in Nat
    BY ConstantsType DEF TypeOK, Rewards
  <2> QED
    BY <2>1, <2>2
<1>4. e = d - o + n
  BY DebtReplace
<1>5. d <= t * W
  BY DEF Covered
<1>6. Debt(m, q, i) = e
  BY DEF Debt, Debts, Owed
<1>7. q.total[i] - c[i] = t - y
  OBVIOUS
<1> HIDE DEF o, n, d, e, t, y
<1>8. (t - y) * W = t * W - y * W
  BY <1>2, <1>3
<1>9. t * W \in Int /\ y * W \in Int
  BY <1>2, <1>3
<1>10. (t - y) * W >= e
  BY <1>2, <1>4, <1>5, <1>8, <1>9
<1> QED
  BY <1>6, <1>7, <1>10

(* Solvent after a step, with the state made explicit.                     *)
LEMMA CoveredNext == Covered(pool', claimedRewards', local') => Solvent'
BY DEF Solvent, Covered, Liability, Debt, Debts

(* StakeAccounting after a step, with the state made explicit.             *)
LEMMA StakesNext ==
  StakeSum(local') = totalStaked' /\ Cardinality(StakersIn(local')) = numStakers'
    => StakeAccounting'
BY DEF StakeAccounting, StakeSum, StakersIn, Stakers

-----------------------------------------------------------------------------
(* Each action keeps the invariant                                         *)

(* The ones that at most receive tokens.                                   *)
LEMMA UnmovedSafe ==
  ASSUME SafetyInv, TypeOK', NoStrays',
         UNCHANGED <<pool, totalStaked, numStakers, claimedRewards, rewardAssets, local>>,
         \A a \in Assets : holding'[a] >= holding[a]
  PROVE  SafetyInv'
<1>1. ClaimsCounted' /\ DistinctAssets' /\ UnlistedEmpty' /\ SnapshotsBehind'
  BY DEF SafetyInv, ClaimsCounted, DistinctAssets, UnlistedEmpty, SnapshotsBehind,
         Listed, Cum
<1>2. ScheduleConsistent' /\ StakeAccounting' /\ Solvent'
  BY DEF SafetyInv, ScheduleConsistent, StakeAccounting, Stakers, Solvent, Liability,
         Owed, Cum
<1>3. HoldingsCoverLiabilities'
  <2> SUFFICES ASSUME NEW i \in Listed
               PROVE  holding'[rewardAssets[i]] + claimedRewards[i]
                        >= pool.total[i] + pool.pending[i] + pool.next[i]
    BY DEF HoldingsCoverLiabilities, Listed
  <2>1. i \in Slots /\ rewardAssets[i] \in Assets
    BY FarmAssumption DEF SafetyInv, TypeOK, Listed, Slots
  <2>2. /\ pool.total[i] \in Nat /\ pool.pending[i] \in Nat /\ pool.next[i] \in Nat
        /\ claimedRewards[i] \in Nat
    BY <2>1, PoolFacts, ConstantsType DEF SafetyInv, TypeOK, Rewards
  <2>3. holding[rewardAssets[i]] \in Nat /\ holding'[rewardAssets[i]] \in Nat
    BY <2>1 DEF SafetyInv, TypeOK
  <2>4. /\ holding'[rewardAssets[i]] >= holding[rewardAssets[i]]
        /\ holding[rewardAssets[i]] + claimedRewards[i]
             >= pool.total[i] + pool.pending[i] + pool.next[i]
    BY <2>1 DEF SafetyInv, HoldingsCoverLiabilities
  <2> QED
    BY <2>2, <2>3, <2>4
<1> QED
  BY <1>1, <1>2, <1>3 DEF SafetyInv

(* What update_global_state and update_state have in common.               *)
LEMMA UpdatedSafe ==
  ASSUME SafetyInv, UpdateFits, pool' = Updated, claimedRewards' = claimedRewards,
         rewardAssets' = rewardAssets, holding' = holding
  PROVE  /\ DistinctAssets' /\ UnlistedEmpty' /\ ScheduleConsistent'
         /\ HoldingsCoverLiabilities'
         /\ \A i \in Slots : Cum(pool', i) \in Nat /\ Cum(pool', i) >= Cum(pool, i)
<1> USE DEF SafetyInv
<1>1. Advances(pool, pool') /\ Scheduled(pool')
  BY UpdatedAdvances
<1>2. DistinctAssets' /\ ScheduleConsistent'
  BY <1>1 DEF DistinctAssets, Listed, ScheduleConsistent, Scheduled
<1>3. UnlistedEmpty'
  <2>1. \A i \in Slots \ Listed : EmptySlot(pool', i)
    BY UpdatedUnlisted
  <2> QED
    BY <2>1 DEF UnlistedEmpty, EmptySlot, Listed, Cum
<1>4. HoldingsCoverLiabilities'
  <2> SUFFICES ASSUME NEW i \in Listed
               PROVE  holding[rewardAssets[i]] + claimedRewards[i]
                        >= pool'.total[i] + pool'.pending[i] + pool'.next[i]
    BY DEF HoldingsCoverLiabilities, Listed
  <2>1. i \in Slots
    BY FarmAssumption DEF TypeOK, Listed, Slots
  <2>2. pool'.total[i] + pool'.pending[i] + pool'.next[i]
          = pool.total[i] + pool.pending[i] + pool.next[i]
    BY <1>1, <2>1 DEF Advances
  <2> QED
    BY <2>2 DEF HoldingsCoverLiabilities
<1>5. \A i \in Slots : Cum(pool', i) \in Nat /\ Cum(pool', i) >= Cum(pool, i)
  BY <1>1, PoolFacts DEF Advances
<1> QED
  BY <1>2, <1>3, <1>4, <1>5

(* update_global_state keeps the invariant.                                *)
LEMMA UpdateGlobalStateSafe ==
  ASSUME SafetyInv, TypeOK', UpdateGlobalState
  PROVE  SafetyInv'
<1>1. /\ UpdateFits /\ pool' = Updated
      /\ UNCHANGED <<totalStaked, numStakers, claimedRewards, rewardAssets, admin,
                     optedIn, local, holding, supply>>
  BY DEF UpdateGlobalState
<1>2. /\ DistinctAssets' /\ UnlistedEmpty' /\ ScheduleConsistent'
      /\ HoldingsCoverLiabilities'
      /\ \A i \in Slots : Cum(pool', i) \in Nat /\ Cum(pool', i) >= Cum(pool, i)
  BY <1>1, UpdatedSafe
<1>3. NoStrays' /\ ClaimsCounted' /\ StakeAccounting'
  BY <1>1 DEF SafetyInv, NoStrays, ClaimsCounted, StakeAccounting, Stakers
<1>4. SnapshotsBehind'
  <2> SUFFICES ASSUME NEW u \in Users, NEW i \in Slots
               PROVE  Cum(local[u], i) <= Cum(pool', i)
    BY <1>1 DEF SnapshotsBehind, Cum
  <2>1. /\ Cum(local[u], i) \in Nat /\ Cum(pool, i) \in Nat
        /\ Cum(local[u], i) <= Cum(pool, i)
    BY LocalFacts, PoolFacts, ConstantsType DEF SafetyInv, SnapshotsBehind, TypeOK
  <2> QED
    BY <1>2, <2>1
<1>5. Solvent'
  BY <1>1, UpdatedCovered, CoveredNext
<1> QED
  BY <1>2, <1>3, <1>4, <1>5 DEF SafetyInv

(* UserRewardCalculator on the state of a user whose snapshot is not ahead *)
(* of the pool: no underflow, and a single rounding down.                  *)
LEMMA SettledIs ==
  ASSUME NEW l \in Local, NEW p \in LoosePool, NEW i \in Slots, Cum(l, i) <= Cum(p, i)
  PROVE  /\ Settled(p, l, i) \in Nat
         /\ Settled(p, l, i) = (l.staked * (Cum(p, i) - Cum(l, i))) \div W
<1> DEFINE r == p.rpt[i]
           f == p.rptFrac[i]
           ur == l.rpt[i]
           uf == l.rptFrac[i]
           s == l.staked
<1>1. /\ r \in Nat /\ f \in Word /\ ur \in Nat /\ uf \in Word /\ s \in Nat
  BY LocalFacts, PoolFacts
<1>2. Cum(p, i) = r * W + f /\ Cum(l, i) = ur * W + uf
  BY DEF Cum
<1>3. Settled(p, l, i) = AccruedReward(r, f, ur, uf, s)
  BY DEF Settled
<1> HIDE DEF r, f, ur, uf
<1>4. ur * W + uf <= r * W + f
  BY <1>2
<1>5. /\ AccruedReward(r, f, ur, uf, s) \in Nat
      /\ AccruedReward(r, f, ur, uf, s) = (s * ((r * W + f) - (ur * W + uf))) \div W
  BY <1>1, <1>4, AccrualIsFloor
<1> QED
  BY <1>2, <1>3, <1>5

(* Settling pays a user no more than it is owed.                           *)
LEMMA SettlingOwes ==
  ASSUME TypeOK, SnapshotsBehind, NEW p \in LoosePool, NEW u \in Users,
         NEW n \in Word, NEW i \in Slots, Cum(p, i) >= Cum(pool, i)
  PROVE  LET l == UpdateLocal(p, local[u], n)
         IN  /\ Cum(l, i) = Cum(p, i) /\ l.claimed = local[u].claimed /\ l.staked = n
             /\ Owed(l, p, i) \in Nat /\ Owed(l, p, i) <= Owed(local[u], p, i)
<1> DEFINE k == local[u]
           l == UpdateLocal(p, k, n)
           s == k.staked
           a == k.accrued[i]
           z == Settled(p, k, i)
           g == Cum(p, i) - Cum(k, i)
<1>1. k \in Local /\ Cum(k, i) <= Cum(p, i)
  BY DebtsType
<1>2. /\ s \in Nat /\ a \in Nat /\ W \in Nat \ {0} /\ n \in Nat
      /\ Cum(k, i) \in Nat /\ Cum(p, i) \in Nat
  BY <1>1, LocalFacts, PoolFacts, ConstantsType
<1>3. g \in Nat /\ z \in Nat /\ z = (s * g) \div W
  BY <1>1, <1>2, SettledIs
<1>4. /\ l.rpt = p.rpt /\ l.rptFrac = p.rptFrac /\ l.claimed = k.claimed /\ l.staked = n
      /\ l.accrued[i] = IF i \in Listed THEN a + z ELSE a
  BY <1>1 DEF UpdateLocal, Local
<1>5. Cum(l, i) = Cum(p, i)
  BY <1>4 DEF Cum
<1>6. Owed(k, p, i) = a * W + s * g /\ Owed(l, p, i) = l.accrued[i] * W + n * (Cum(p, i) - Cum(p, i))
  BY <1>4, <1>5 DEF Owed
<1> DEFINE b == l.accrued[i]
<1>7. b = a + z \/ b = a
  BY <1>4
<1>8. s * g \in Nat /\ W * z <= s * g
  <2>1. s * g \in Nat
    BY <1>2, <1>3
  <2> QED
    BY <1>2, <1>3, <2>1, DivNat
<1> HIDE DEF s, a, z, g, b
<1>9. n * (Cum(p, i) - Cum(p, i)) = 0
  <2>1. Cum(p, i) - Cum(p, i) = 0
    BY <1>2
  <2> QED
    BY <1>2, <2>1
<1>10. b \in Nat /\ b * W \in Nat /\ b * W <= a * W + s * g
  <2>1. (a + z) * W = a * W + W * z
    BY <1>2, <1>3
  <2>2. a * W \in Nat /\ W * z \in Nat /\ b \in Nat
    BY <1>2, <1>3, <1>7
  <2> QED
    BY <1>7, <1>8, <2>1, <2>2
<1>11. Owed(l, p, i) = b * W
  BY <1>6, <1>9, <1>10 DEF b
<1>12. Owed(l, p, i) \in Nat /\ Owed(l, p, i) <= Owed(k, p, i)
  BY <1>6, <1>10, <1>11
<1> QED
  BY <1>4, <1>5, <1>12

(* update_state keeps the invariant, whatever stake it finds.              *)
LEMMA UpdateStateSafe ==
  ASSUME SafetyInv, TypeOK', NEW u \in Users, NEW balance \in Balances,
         NEW rekeyed \in BOOLEAN, UpdateState(u, balance, rekeyed)
  PROVE  SafetyInv'
<1> DEFINE n == IF rekeyed THEN 0 ELSE balance
           l == UpdateLocal(Updated, local[u], n)
<1> USE DEF SafetyInv
<1>1. /\ u \in optedIn /\ UpdateFits /\ SettleFits(Updated, local[u])
      /\ pool' = Updated /\ SetStake(local[u].staked, n)
      /\ local' = [local EXCEPT ![u] = l]
      /\ UNCHANGED <<claimedRewards, rewardAssets, admin, optedIn, holding, supply>>
  BY DEF UpdateState
<1>2. n \in Word
  BY FarmAssumption, ConstantsType
<1>3. l \in Local /\ Updated \in LoosePool
  BY <1>1, <1>2, UpdateLocalType, UpdatedType
<1>4. /\ DistinctAssets' /\ UnlistedEmpty' /\ ScheduleConsistent'
      /\ HoldingsCoverLiabilities'
      /\ \A i \in Slots : Cum(Updated, i) \in Nat /\ Cum(Updated, i) >= Cum(pool, i)
  BY <1>1, UpdatedSafe
<1>5. l.claimed = local[u].claimed /\ l.staked = n
  BY <1>2, <1>3 DEF UpdateLocal, TypeOK, Local
<1>6. ASSUME NEW i \in Slots
      PROVE  /\ Cum(l, i) = Cum(Updated, i)
             /\ Owed(l, Updated, i) \in Nat
             /\ Owed(l, Updated, i) <= Owed(local[u], Updated, i)
  BY <1>2, <1>3, <1>4, SettlingOwes
<1>7. local'[u] = l /\ \A v \in Users \ {u} : local'[v] = local[v]
  BY <1>1 DEF TypeOK
<1> HIDE DEF l, n
<1>8. NoStrays' /\ ClaimsCounted'
  BY <1>1, <1>5, <1>7 DEF NoStrays, ClaimsCounted
<1>9. SnapshotsBehind'
  <2> SUFFICES ASSUME NEW v \in Users, NEW i \in Slots
               PROVE  Cum(local'[v], i) <= Cum(Updated, i)
    BY <1>1 DEF SnapshotsBehind, Cum
  <2>1. CASE v = u
    BY <1>4, <1>6, <1>7, <2>1
  <2>2. CASE v # u
    <3>1. Cum(local[v], i) \in Nat /\ Cum(pool, i) \in Nat
      BY LocalFacts, PoolFacts, ConstantsType DEF TypeOK
    <3>2. Cum(local[v], i) <= Cum(Updated, i)
      BY <1>4, <3>1 DEF SnapshotsBehind
    <3> QED
      BY <1>7, <2>2, <3>2
  <2> QED
    BY <2>1, <2>2
<1>10. StakeAccounting'
  <2>1. /\ StakeSum(local') = totalStaked - local[u].staked + l.staked
        /\ Cardinality(StakersIn(local')) = StakersAfter(local[u].staked, l.staked)
    BY <1>1, <1>3, StakeReplace
  <2> QED
    BY <1>1, <1>5, <2>1, StakesNext DEF SetStake
<1>11. Solvent'
  <2>1. Covered(Updated, claimedRewards, local)
    BY UpdatedCovered
  <2> DEFINE x == [i \in Slots |-> 0]
  <2>2. x \in [Slots -> Nat]
    OBVIOUS
  <2>3. ASSUME NEW i \in Slots
        PROVE  /\ Cum(Updated, i) >= Cum(pool, i) /\ Cum(Updated, i) = Cum(Updated, i)
               /\ Updated.total[i] - claimedRewards[i]
                    = (Updated.total[i] - claimedRewards[i]) - x[i]
               /\ Owed(l, Updated, i) \in Nat
               /\ Owed(l, Updated, i) + x[i] * W <= Owed(local[u], Updated, i)
    <3>1. Updated.total[i] \in Nat
      BY <1>3, PoolFacts
    <3>2. claimedRewards[i] \in Nat
      BY ConstantsType DEF TypeOK, Rewards
    <3>3. x[i] = 0 /\ x[i] * W = 0
      BY ConstantsType
    <3> HIDE DEF x
    <3> QED
      BY <1>4, <1>6, <3>1, <3>2, <3>3
  <2> HIDE DEF x
  <2>4. Takes(u, l, x, Updated, Updated, claimedRewards)
    BY <2>3 DEF Takes
  <2>5. Covered(Updated, claimedRewards, local')
    BY <1>1, <1>3, <2>1, <2>2, <2>4, CoverReplace
  <2> QED
    BY <1>1, <2>5, CoveredNext
<1> QED
  BY <1>4, <1>8, <1>9, <1>10, <1>11

(* clear_state and close_out, in which exit_farm never panics.             *)
LEMMA ExitSafe ==
  ASSUME SafetyInv, TypeOK', NEW u \in Users, ExitFarm(local[u]), Leave(u),
         UNCHANGED <<claimedRewards, rewardAssets, holding>>
  PROVE  SafetyInv'
<1> DEFINE l == local[u]
           x == l.accrued
<1> USE DEF SafetyInv
<1>1. /\ local' = [local EXCEPT ![u] = NoLocal] /\ optedIn' = optedIn \ {u}
      /\ pool' = [pool EXCEPT !.total = [i \in Slots |-> pool.total[i] - x[i]]]
      /\ SetStake(l.staked, 0)
  BY DEF ExitFarm, Leave
<1>2. l \in Local /\ NoLocal \in Local /\ pool \in LoosePool /\ x \in [Slots -> Nat]
  <2>1. l \in Local /\ NoLocal \in Local /\ pool \in LoosePool
    BY ConstantsType DEF TypeOK
  <2>2. x \in [Slots -> Word]
    BY <2>1 DEF Local, Rewards
  <2> HIDE DEF l, x
  <2>3. x \in [Slots -> Nat]
    BY <2>2, ConstantsType
  <2> QED
    BY <2>1, <2>3
<1>3. local'[u] = NoLocal /\ \A v \in Users \ {u} : local'[v] = local[v]
  BY <1>1 DEF TypeOK
<1>4. /\ pool'.duration = pool.duration /\ pool'.nextDuration = pool.nextDuration
      /\ pool'.rpt = pool.rpt /\ pool'.rptFrac = pool.rptFrac
      /\ pool'.pending = pool.pending /\ pool'.next = pool.next
      /\ \A i \in Slots : pool'.total[i] = pool.total[i] - x[i]
  BY <1>1, <1>2 DEF LoosePool
<1>5. \A i \in Slots : /\ NoLocal.claimed[i] = 0 /\ NoLocal.accrued[i] = 0
                       /\ NoLocal.staked = 0 /\ Cum(NoLocal, i) = 0
  BY ConstantsType DEF NoLocal, ZeroRewards, Cum
<1>6. \A i \in Slots : Cum(pool', i) = Cum(pool, i)
  BY <1>4 DEF Cum
<1>7. ASSUME NEW i \in Slots
      PROVE  /\ claimedRewards[i] \in Nat /\ x[i] \in Nat /\ pool.total[i] \in Nat
             /\ Cum(pool, i) \in Nat /\ x[i] + claimedRewards[i] <= pool.total[i]
             /\ pool.pending[i] \in Nat /\ pool.next[i] \in Nat
  <2>1. claimedRewards[i] \in Nat
    BY ConstantsType DEF TypeOK, Rewards
  <2> QED
    BY <1>2, <2>1, PoolFacts, AccruedIsCovered
<1> HIDE DEF l, x
<1>8. NoStrays' /\ DistinctAssets' /\ ScheduleConsistent'
  BY <1>1, <1>3, <1>4 DEF NoStrays, DistinctAssets, Listed, ScheduleConsistent
<1>9. ClaimsCounted'
  <2>1. \A v \in Users, i \in Slots : local'[v].claimed[i] <= claimedRewards[i]
    BY <1>3, <1>5, <1>7 DEF ClaimsCounted
  <2> QED
    BY <2>1 DEF ClaimsCounted
<1>10. SnapshotsBehind'
  <2>1. \A v \in Users, i \in Slots : Cum(local'[v], i) <= Cum(pool, i)
    BY <1>3, <1>5, <1>7 DEF SnapshotsBehind
  <2> QED
    BY <1>6, <2>1 DEF SnapshotsBehind, Cum
<1>11. UnlistedEmpty'
  <2>1. \A i \in Slots \ Listed :
          /\ pool'.total[i] = 0 /\ pool'.pending[i] = 0 /\ pool'.next[i] = 0
          /\ Cum(pool', i) = 0
    BY <1>4, <1>6, <1>7 DEF UnlistedEmpty
  <2> QED
    BY <2>1 DEF UnlistedEmpty, Listed, Cum
<1>12. HoldingsCoverLiabilities'
  <2> SUFFICES ASSUME NEW i \in Listed
               PROVE  holding[rewardAssets[i]] + claimedRewards[i]
                        >= pool'.total[i] + pool'.pending[i] + pool'.next[i]
    BY DEF HoldingsCoverLiabilities, Listed
  <2>1. i \in Slots /\ rewardAssets[i] \in Assets
    BY ListedType
  <2>2. holding[rewardAssets[i]] \in Nat
    BY <2>1 DEF TypeOK
  <2>3. holding[rewardAssets[i]] + claimedRewards[i]
          >= pool.total[i] + pool.pending[i] + pool.next[i]
    BY DEF HoldingsCoverLiabilities
  <2> QED
    BY <1>4, <1>7, <2>1, <2>2, <2>3
<1>13. StakeAccounting'
  <2>1. NoLocal.staked = 0
    BY DEF NoLocal
  <2>2. /\ StakeSum(local') = totalStaked - l.staked + 0
        /\ Cardinality(StakersIn(local')) = StakersAfter(l.staked, 0)
    BY <1>1, <1>2, <2>1, StakeReplace DEF l
  <2> QED
    BY <1>1, <2>2, StakesNext DEF SetStake
<1>14. Solvent'
  <2>1. ASSUME NEW i \in Slots
        PROVE  /\ Cum(pool, i) >= Cum(pool, i) /\ Cum(pool', i) = Cum(pool, i)
               /\ pool'.total[i] - claimedRewards'[i]
                    = (pool.total[i] - claimedRewards[i]) - x[i]
               /\ Owed(NoLocal, pool, i) \in Nat
               /\ Owed(NoLocal, pool, i) + x[i] * W <= Owed(local[u], pool, i)
    <3>1. Owed(NoLocal, pool, i) = 0
      BY <1>5, <1>7, ConstantsType DEF Owed
    <3>2. Owed(l, pool, i) \in Nat /\ x[i] * W <= Owed(l, pool, i)
      BY <1>2, OwedType DEF SnapshotsBehind, l, x
    <3>3. x[i] * W \in Nat
      BY <1>7, ConstantsType
    <3>4. pool'.total[i] - claimedRewards[i] = (pool.total[i] - claimedRewards[i]) - x[i]
      BY <1>4, <1>7
    <3> QED
      BY <1>6, <1>7, <3>1, <3>2, <3>3, <3>4 DEF l
  <2>2. Takes(u, NoLocal, x, pool, pool', claimedRewards')
    BY <2>1 DEF Takes
  <2>3. Covered(pool', claimedRewards', local')
    BY <1>1, <1>2, <2>2, SolventIsCovered, CoverReplace
  <2> QED
    BY <2>3, CoveredNext
<1> QED
  BY <1>8, <1>9, <1>10, <1>11, <1>12, <1>13, <1>14

(* What a vector holds in the asset of a slot is its entry for that slot,  *)
(* as no asset has two slots.                                              *)
LEMMA InAssetAt ==
  ASSUME DistinctAssets, NEW f, NEW i \in Listed
  PROVE  InAsset(f, rewardAssets[i]) = f[i]
<1>1. PICK j \in Listed : /\ rewardAssets[j] = rewardAssets[i]
                          /\ InAsset(f, rewardAssets[i]) = f[j]
  BY DEF InAsset
<1> QED
  BY <1>1 DEF DistinctAssets

(* claim_rewards keeps the invariant: what it pays is taken from the       *)
(* debts, the claimable rewards and the account alike.                     *)
LEMMA ClaimRewardsSafe ==
  ASSUME SafetyInv, TypeOK', NEW u \in Users, NEW ids \in SUBSET Listed,
         ClaimRewards(u, ids)
  PROVE  SafetyInv'
<1> DEFINE k == local[u]
           x == [i \in Slots |-> IF i \in ids THEN k.accrued[i] ELSE 0]
           l == [k EXCEPT !.accrued = [i \in Slots |-> k.accrued[i] - x[i]],
                          !.claimed = [i \in Slots |-> k.claimed[i] + x[i]]]
<1> USE DEF SafetyInv
<1>1. /\ u \in optedIn
      /\ holding' = [a \in Assets |-> holding[a] - InAsset(x, a)]
      /\ claimedRewards' = [i \in Slots |-> claimedRewards[i] + x[i]]
      /\ local' = [local EXCEPT
                     ![u].accrued = [i \in Slots |-> k.accrued[i] - x[i]],
                     ![u].claimed = [i \in Slots |-> k.claimed[i] + x[i]]]
      /\ UNCHANGED <<pool, totalStaked, numStakers, rewardAssets, optedIn>>
  BY DEF ClaimRewards
<1>2. k \in Local /\ pool \in LoosePool
  BY ConstantsType DEF TypeOK
<1>3. local' = [local EXCEPT ![u] = l]
  BY <1>1, <1>2 DEF TypeOK, Local
<1>4. local'[u] = l /\ \A v \in Users \ {u} : local'[v] = local[v]
  BY <1>3 DEF TypeOK
<1>5. /\ l.staked = k.staked /\ l.rpt = k.rpt /\ l.rptFrac = k.rptFrac
      /\ \A i \in Slots : /\ l.accrued[i] = k.accrued[i] - x[i]
                          /\ l.claimed[i] = k.claimed[i] + x[i]
  BY <1>2 DEF Local
<1>6. l \in Local
  <2>1. local'[u] \in Local
    BY DEF TypeOK
  <2> QED
    BY <1>4, <2>1
<1>7. ASSUME NEW i \in Slots
      PROVE  /\ k.accrued[i] \in Nat /\ k.claimed[i] \in Nat /\ claimedRewards[i] \in Nat
             /\ x[i] \in Nat /\ x[i] <= k.accrued[i]
             /\ pool.total[i] \in Nat /\ pool.pending[i] \in Nat /\ pool.next[i] \in Nat
             /\ Cum(pool, i) \in Nat /\ claimedRewards'[i] = claimedRewards[i] + x[i]
  <2>1. k.accrued[i] \in Nat /\ k.claimed[i] \in Nat
    BY <1>2, LocalFacts
  <2>2. x[i] = k.accrued[i] \/ x[i] = 0
    OBVIOUS
  <2>3. claimedRewards[i] \in Nat
    BY ConstantsType DEF TypeOK, Rewards
  <2>4. claimedRewards'[i] = claimedRewards[i] + x[i]
    BY <1>1
  <2> HIDE DEF x, k
  <2> QED
    BY <1>2, <2>1, <2>2, <2>3, <2>4, PoolFacts
<1>8. x \in [Slots -> Nat]
  BY <1>7
<1> HIDE DEF k, x, l
<1>9. NoStrays' /\ DistinctAssets' /\ ScheduleConsistent'
  BY <1>1, <1>4 DEF NoStrays, DistinctAssets, Listed, ScheduleConsistent
<1>10. UnlistedEmpty'
  BY <1>1 DEF UnlistedEmpty, Listed, Cum
<1>11. ClaimsCounted'
  <2> SUFFICES ASSUME NEW v \in Users, NEW i \in Slots
               PROVE  local'[v].claimed[i] <= claimedRewards'[i]
    BY DEF ClaimsCounted
  <2>1. local[v].claimed[i] <= claimedRewards[i] /\ k.claimed[i] <= claimedRewards[i]
    BY DEF ClaimsCounted, k
  <2>2. local[v].claimed[i] \in Nat
    BY LocalFacts DEF TypeOK
  <2>3. CASE v = u
    BY <1>4, <1>5, <1>7, <2>1, <2>3
  <2>4. CASE v # u
    BY <1>4, <1>7, <2>1, <2>2, <2>4
  <2> QED
    BY <2>3, <2>4
<1>12. \A i \in Slots : Cum(l, i) = Cum(k, i)
  BY <1>5 DEF Cum
<1>13. SnapshotsBehind'
  <2>1. \A v \in Users, i \in Slots : Cum(local'[v], i) <= Cum(pool, i)
    BY <1>4, <1>12 DEF SnapshotsBehind, k
  <2> QED
    BY <1>1, <2>1 DEF SnapshotsBehind, Cum
<1>14. StakeAccounting'
  <2>1. \A v \in Users : local'[v].staked = local[v].staked
    BY <1>4, <1>5 DEF k
  <2>2. StakeSum(local') = StakeSum(local) /\ StakersIn(local') = StakersIn(local)
    BY <2>1 DEF StakeSum, StakersIn
  <2>3. totalStaked = StakeSum(local) /\ numStakers = Cardinality(StakersIn(local))
    BY DEF StakeAccounting, StakeSum, StakersIn, Stakers
  <2> QED
    BY <1>1, <2>2, <2>3, StakesNext
<1>15. HoldingsCoverLiabilities'
  <2> SUFFICES ASSUME NEW i \in Listed
               PROVE  holding'[rewardAssets[i]] + claimedRewards'[i]
                        >= pool.total[i] + pool.pending[i] + pool.next[i]
    BY <1>1 DEF HoldingsCoverLiabilities, Listed
  <2>1. i \in Slots /\ rewardAssets[i] \in Assets
    BY ListedType
  <2>2. holding[rewardAssets[i]] \in Nat
    BY <2>1 DEF TypeOK
  <2>3. holding[rewardAssets[i]] + claimedRewards[i]
          >= pool.total[i] + pool.pending[i] + pool.next[i]
    BY DEF HoldingsCoverLiabilities
  <2>4. holding'[rewardAssets[i]] = holding[rewardAssets[i]] - x[i]
    BY <1>1, <2>1, InAssetAt
  <2> QED
    BY <1>7, <2>1, <2>2, <2>3, <2>4
<1>16. Solvent'
  <2>1. ASSUME NEW i \in Slots
        PROVE  /\ Cum(pool, i) >= Cum(pool, i) /\ Cum(pool', i) = Cum(pool, i)
               /\ pool'.total[i] - claimedRewards'[i]
                    = (pool.total[i] - claimedRewards[i]) - x[i]
               /\ Owed(l, pool, i) \in Nat
               /\ Owed(l, pool, i) + x[i] * W <= Owed(local[u], pool, i)
    <3>1. Cum(l, i) <= Cum(pool, i)
      BY <1>12 DEF SnapshotsBehind, k
    <3>2. Owed(l, pool, i) \in Nat
      BY <1>2, <1>6, <3>1, OwedType
    <3> DEFINE a == k.accrued[i]
               z == x[i]
               s == k.staked * (Cum(pool, i) - Cum(k, i))
    <3>3. Owed(l, pool, i) = (a - z) * W + s /\ Owed(k, pool, i) = a * W + s
      BY <1>5, <1>12 DEF Owed
    <3>4. a \in Nat /\ z \in Nat /\ W \in Nat /\ s \in Int
      BY <1>2, <1>7, LocalFacts, ConstantsType
    <3> HIDE DEF a, z, s
    <3>5. (a - z) * W = a * W - z * W /\ a * W \in Int /\ z * W \in Int
      BY <3>4
    <3>6. Owed(l, pool, i) + z * W = Owed(k, pool, i)
      BY <3>3, <3>4, <3>5
    <3>7. Owed(k, pool, i) \in Nat
      BY <3>3, <3>5, <3>4, <3>2, <3>6
    <3>8. pool'.total[i] - claimedRewards'[i] = (pool.total[i] - claimedRewards[i]) - x[i]
      BY <1>1, <1>7
    <3> QED
      BY <1>1, <1>7, <3>2, <3>6, <3>7, <3>8 DEF z, k
  <2>2. Takes(u, l, x, pool, pool', claimedRewards')
    BY <2>1 DEF Takes
  <2>3. Covered(pool', claimedRewards', local')
    BY <1>2, <1>3, <1>6, <1>8, <2>2, SolventIsCovered, CoverReplace
  <2> QED
    BY <2>3, CoveredNext
<1> QED
  BY <1>9, <1>10, <1>11, <1>13, <1>14, <1>15, <1>16

(* deposit_rewards keeps the invariant: the array it overwrites is empty,  *)
(* and the account has received what it stores.                            *)
LEMMA DepositRewardsSafe ==
  ASSUME SafetyInv, TypeOK', NEW caller \in Accounts, NEW sent \in [Slots -> Amounts],
         NEW counted \in [Slots -> Amounts], NEW d \in Durations,
         DepositRewards(caller, sent, counted, d)
  PROVE  SafetyInv'
<1> USE DEF SafetyInv
<1>1. /\ pool.nextDuration = 0 /\ d # 0
      /\ \A i \in Slots : counted[i] <= sent[i] /\ (i \notin Listed => sent[i] = 0)
      /\ pool' = IF pool.duration = 0
                 THEN [pool EXCEPT !.pending = counted, !.duration = d]
                 ELSE [pool EXCEPT !.next = counted, !.nextDuration = d]
      /\ holding' = [a \in Assets |-> holding[a] + InAsset(sent, a)]
      /\ UNCHANGED <<totalStaked, numStakers, claimedRewards, rewardAssets, optedIn, local>>
  BY DEF DepositRewards
<1>2. pool \in LoosePool
  BY ConstantsType DEF TypeOK
<1>3. /\ pool'.rpt = pool.rpt /\ pool'.rptFrac = pool.rptFrac /\ pool'.total = pool.total
      /\ \/ /\ pool.duration = 0 /\ pool'.duration = d /\ pool'.pending = counted
            /\ pool'.nextDuration = pool.nextDuration /\ pool'.next = pool.next
         \/ /\ pool.duration # 0 /\ pool'.duration = pool.duration
            /\ pool'.pending = pool.pending
            /\ pool'.nextDuration = d /\ pool'.next = counted
  BY <1>1, <1>2 DEF LoosePool
<1>4. NoStrays' /\ ClaimsCounted' /\ DistinctAssets' /\ SnapshotsBehind'
  BY <1>1, <1>3 DEF NoStrays, ClaimsCounted, DistinctAssets, Listed, SnapshotsBehind, Cum
<1>5. StakeAccounting' /\ Solvent'
  BY <1>1, <1>3 DEF StakeAccounting, Stakers, Solvent, Liability, Owed, Cum
<1>6. ScheduleConsistent'
  BY <1>1, <1>3 DEF ScheduleConsistent
<1>7. pool.next = ZeroRewards /\ (pool.duration = 0 => pool.pending = ZeroRewards)
  BY <1>1 DEF ScheduleConsistent
<1>8. ASSUME NEW i \in Slots
      PROVE  /\ counted[i] \in Nat /\ sent[i] \in Nat /\ counted[i] <= sent[i]
             /\ pool.total[i] \in Nat /\ pool.pending[i] \in Nat /\ pool.next[i] = 0
             /\ pool'.pending[i] + pool'.next[i] = pool.pending[i] + counted[i]
             /\ pool'.pending[i] \in Nat /\ pool'.next[i] \in Nat
  <2>1. counted[i] \in Nat /\ sent[i] \in Nat
    BY FarmAssumption
  <2>2. pool.total[i] \in Nat /\ pool.pending[i] \in Nat
    BY <1>2, PoolFacts
  <2>3. ZeroRewards[i] = 0
    BY DEF ZeroRewards
  <2> QED
    BY <1>1, <1>3, <1>7, <2>1, <2>2, <2>3
<1>9. UnlistedEmpty'
  <2>1. ASSUME NEW i \in Slots \ Listed
        PROVE  /\ pool'.total[i] = 0 /\ pool'.pending[i] = 0 /\ pool'.next[i] = 0
               /\ Cum(pool', i) = 0
    <3>1. pool.total[i] = 0 /\ pool.pending[i] = 0 /\ Cum(pool, i) = 0
      BY DEF UnlistedEmpty
    <3>2. counted[i] = 0
      BY <1>1, <1>8
    <3>3. pool'.pending[i] = 0 /\ pool'.next[i] = 0
      BY <1>8, <3>1, <3>2
    <3> QED
      BY <1>3, <3>1, <3>3 DEF Cum
  <2> QED
    BY <1>1, <2>1 DEF UnlistedEmpty, Listed, Cum
<1>10. HoldingsCoverLiabilities'
  <2> SUFFICES ASSUME NEW i \in Listed
               PROVE  holding'[rewardAssets[i]] + claimedRewards[i]
                        >= pool'.total[i] + pool'.pending[i] + pool'.next[i]
    BY <1>1 DEF HoldingsCoverLiabilities, Listed
  <2>1. i \in Slots /\ rewardAssets[i] \in Assets
    BY ListedType
  <2>2. holding[rewardAssets[i]] \in Nat /\ claimedRewards[i] \in Nat
    BY <2>1, ConstantsType DEF TypeOK, Rewards
  <2>3. holding[rewardAssets[i]] + claimedRewards[i]
          >= pool.total[i] + pool.pending[i] + pool.next[i]
    BY DEF HoldingsCoverLiabilities
  <2>4. holding'[rewardAssets[i]] = holding[rewardAssets[i]] + sent[i]
    BY <1>1, <2>1, InAssetAt
  <2>5. pool'.total[i] = pool.total[i]
    BY <1>3
  <2> QED
    BY <1>8, <2>1, <2>2, <2>3, <2>4, <2>5
<1> QED
  BY <1>4, <1>5, <1>6, <1>9, <1>10

(* An asset's slot has never had a reward before the asset is added, and   *)
(* the cost of the opt-in is not taken from the rewards in Algo.           *)
LEMMA AddRewardAssetSafe ==
  ASSUME SafetyInv, TypeOK', NEW caller \in Accounts, NEW a \in Assets,
         AddRewardAsset(caller, a)
  PROVE  SafetyInv'
<1> DEFINE cost == IF a = Algo THEN 0 ELSE OptInCost
           L == Len(rewardAssets)
<1> USE DEF SafetyInv
<1>1. /\ L < MaxFarmedAssets /\ \A i \in Listed : rewardAssets[i] # a
      /\ AlgoSuffices(Append(rewardAssets, a), holding[Algo] - cost)
      /\ rewardAssets' = Append(rewardAssets, a)
      /\ holding' = [holding EXCEPT ![Algo] = holding[Algo] - cost]
      /\ UNCHANGED <<pool, totalStaked, numStakers, claimedRewards, optedIn, local>>
  BY DEF AddRewardAsset
<1>2. /\ rewardAssets \in Seq(Assets) /\ L \in Nat /\ L < MaxFarmedAssets
      /\ Listed = 1 .. L /\ Listed' = 1 .. L + 1 /\ Listed \subseteq Listed'
      /\ L + 1 \in Slots /\ L + 1 \notin Listed /\ Listed' = Listed \union {L + 1}
      /\ Listed' \subseteq Slots
      /\ rewardAssets'[L + 1] = a /\ \A i \in Listed : rewardAssets'[i] = rewardAssets[i]
  BY <1>1, FarmAssumption DEF TypeOK, Listed, Slots
<1>3. NoStrays' /\ ClaimsCounted' /\ SnapshotsBehind' /\ ScheduleConsistent'
  BY <1>1 DEF NoStrays, ClaimsCounted, SnapshotsBehind, ScheduleConsistent, Cum
<1>4. StakeAccounting' /\ Solvent'
  BY <1>1 DEF StakeAccounting, Stakers, Solvent, Liability, Owed, Cum
<1>5. DistinctAssets'
  BY <1>1, <1>2 DEF DistinctAssets
<1>6. UnlistedEmpty'
  <2>1. \A i \in Slots \ Listed' : /\ pool.total[i] = 0 /\ pool.pending[i] = 0
                                   /\ pool.next[i] = 0 /\ Cum(pool, i) = 0
    BY <1>2 DEF UnlistedEmpty
  <2> QED
    BY <1>1, <2>1 DEF UnlistedEmpty, Cum
<1>7. HoldingsCoverLiabilities'
  <2> SUFFICES ASSUME NEW i \in Listed'
               PROVE  holding'[rewardAssets'[i]] + claimedRewards[i]
                        >= pool.total[i] + pool.pending[i] + pool.next[i]
    BY <1>1 DEF HoldingsCoverLiabilities
  <2> DEFINE b == rewardAssets'[i]
  <2>1. i \in Slots /\ b \in Assets
    <3>1. rewardAssets' \in Seq(Assets)
      BY DEF TypeOK
    <3> QED
      BY <1>2, <3>1 DEF Listed
  <2>2. /\ holding'[b] \in Nat /\ claimedRewards[i] \in Nat /\ pool.total[i] \in Nat
        /\ pool.pending[i] \in Nat /\ pool.next[i] \in Nat
    <3>1. holding'[b] \in Nat
      BY <2>1 DEF TypeOK
    <3> QED
      BY <2>1, <3>1, PoolFacts, ConstantsType DEF TypeOK, Rewards
  <2>3. CASE b = Algo
    <3>1. i \in DOMAIN Append(rewardAssets, a) /\ Append(rewardAssets, a)[i] = Algo
      BY <1>1, <1>2, <2>3
    <3>2. holding[Algo] - cost
            >= (pool.total[i] + pool.pending[i] + pool.next[i]) - claimedRewards[i]
      BY <1>1, <3>1 DEF AlgoSuffices
    <3>3. holding'[b] = holding[Algo] - cost
      BY <1>1, <2>3, FarmAssumption DEF TypeOK
    <3>4. holding[Algo] - cost \in Nat
      BY <2>2, <3>3
    <3> DEFINE h == holding[Algo] - cost
    <3> HIDE DEF b, h
    <3>5. holding'[b] + claimedRewards[i] >= pool.total[i] + pool.pending[i] + pool.next[i]
      BY <2>2, <3>2, <3>3, <3>4 DEF h
    <3> QED
      BY <3>5 DEF b
  <2>4. CASE b # Algo /\ i \in Listed
    <3>1. holding'[b] = holding[b] /\ b = rewardAssets[i]
      BY <1>1, <1>2, <2>1, <2>4 DEF TypeOK
    <3> QED
      BY <2>4, <3>1 DEF HoldingsCoverLiabilities
  <2>5. CASE b # Algo /\ i \notin Listed
    <3>1. pool.total[i] = 0 /\ pool.pending[i] = 0 /\ pool.next[i] = 0
      BY <2>1, <2>5 DEF UnlistedEmpty
    <3> HIDE DEF b
    <3>2. holding'[b] + claimedRewards[i] >= pool.total[i] + pool.pending[i] + pool.next[i]
      BY <2>2, <3>1
    <3> QED
      BY <3>2 DEF b
  <2> QED
    BY <2>3, <2>4, <2>5
<1> QED
  BY <1>3, <1>4, <1>5, <1>6, <1>7

-----------------------------------------------------------------------------
(* create establishes the invariant.                                       *)
LEMMA SafetyInit == Init => SafetyInv
<1> SUFFICES ASSUME Init PROVE SafetyInv
  OBVIOUS
<1>1. TypeOK
  BY TypeInit
<1>2. \A i \in Slots : /\ pool.total[i] = 0 /\ pool.pending[i] = 0 /\ pool.next[i] = 0
                       /\ Cum(pool, i) = 0 /\ claimedRewards[i] = 0
  BY ConstantsType DEF Init, ZeroRewards, Cum
<1>3. \A u \in Users : local[u] = NoLocal
  BY DEF Init
<1>4. /\ NoLocal.staked = 0
      /\ \A i \in Slots : /\ NoLocal.claimed[i] = 0 /\ NoLocal.accrued[i] = 0
                          /\ Cum(NoLocal, i) = 0
  BY ConstantsType DEF NoLocal, ZeroRewards, Cum
<1>5. Listed = {}
  BY DEF Init, Listed
<1>6. NoStrays /\ ClaimsCounted /\ DistinctAssets /\ UnlistedEmpty /\ SnapshotsBehind
  BY <1>2, <1>3, <1>4, <1>5
     DEF NoStrays, ClaimsCounted, DistinctAssets, UnlistedEmpty, SnapshotsBehind
<1>7. ScheduleConsistent /\ HoldingsCoverLiabilities
  BY <1>5 DEF Init, ScheduleConsistent, HoldingsCoverLiabilities
<1>8. StakeAccounting
  <2> DEFINE f == [u \in Users |-> local[u].staked]
  <2>1. f \in [Users -> Nat] /\ \A u \in Users : f[u] = 0
    BY <1>3, <1>4
  <2>2. SumFunctionOnSet(f, Users) = 0
    <3> HIDE DEF f
    <3> QED
      BY <2>1, SumZero, FarmAssumption
  <2>3. Stakers = {}
    BY <1>3, <1>4 DEF Stakers
  <2> QED
    BY <2>2, <2>3, FS_EmptySet DEF StakeAccounting, Init
<1>9. Solvent
  <2> SUFFICES ASSUME NEW i \in Slots
               PROVE  (pool.total[i] - claimedRewards[i]) * W >= Liability(i)
    BY DEF Solvent
  <2> DEFINE f == [u \in Users |-> Owed(local[u], pool, i)]
  <2>1. \A u \in Users : Owed(local[u], pool, i) = 0
    BY <1>2, <1>3, <1>4, ConstantsType DEF Owed
  <2>2. f \in [Users -> Nat] /\ \A u \in Users : f[u] = 0
    BY <2>1
  <2>3. SumFunctionOnSet(f, Users) = 0
    <3> HIDE DEF f
    <3> QED
      BY <2>2, SumZero, FarmAssumption
  <2> QED
    BY <1>2, <2>3, ConstantsType DEF Liability
<1> QED
  BY <1>1, <1>6, <1>7, <1>8, <1>9 DEF SafetyInv

(* Every action keeps the invariant.                                       *)
LEMMA SafetyStep == SafetyInv /\ [Next]_vars => SafetyInv'
<1> SUFFICES ASSUME SafetyInv, [Next]_vars PROVE SafetyInv'
  OBVIOUS
<1>1. TypeOK'
  BY TypeStep DEF SafetyInv
<1>2. \A a \in Assets : holding[a] \in Nat
  BY DEF SafetyInv, TypeOK
<1>3. CASE Tick \/ UNCHANGED vars
  <2>1. UNCHANGED <<pool, totalStaked, numStakers, claimedRewards, rewardAssets,
                    optedIn, local, holding>>
    BY <1>3 DEF Tick, vars
  <2>2. NoStrays' /\ \A a \in Assets : holding'[a] >= holding[a]
    BY <1>2, <2>1 DEF SafetyInv, NoStrays
  <2> QED
    BY <1>1, <2>1, <2>2, UnmovedSafe
<1>4. CASE UpdateGlobalState
  BY <1>1, <1>4, UpdateGlobalStateSafe
<1>5. ASSUME NEW u \in Users, OptIn(u) PROVE SafetyInv'
  <2>1. local[u] = NoLocal
    BY <1>5 DEF OptIn, SafetyInv, NoStrays
  <2>2. local' = local
    BY <1>5, <2>1 DEF OptIn, SafetyInv, TypeOK
  <2>3. /\ UNCHANGED <<pool, totalStaked, numStakers, claimedRewards, rewardAssets, holding>>
        /\ optedIn' = optedIn \union {u}
    BY <1>5 DEF OptIn
  <2>4. NoStrays' /\ \A a \in Assets : holding'[a] >= holding[a]
    BY <1>2, <2>2, <2>3 DEF SafetyInv, NoStrays
  <2> QED
    BY <1>1, <2>2, <2>3, <2>4, UnmovedSafe
<1>6. ASSUME NEW u \in Users, ClearState(u) PROVE SafetyInv'
  <2>1. ExitFits(local[u])
    BY LeavingIsOpen DEF SafetyInv
  <2> QED
    BY <1>1, <1>6, <2>1, ExitSafe DEF ClearState
<1>7. ASSUME NEW u \in Users, CloseOut(u) PROVE SafetyInv'
  BY <1>1, <1>7, ExitSafe DEF CloseOut
<1>8. ASSUME NEW u \in Users, NEW balance \in Balances, NEW rekeyed \in BOOLEAN,
             UpdateState(u, balance, rekeyed)
      PROVE  SafetyInv'
  BY <1>1, <1>8, UpdateStateSafe
<1>9. ASSUME NEW u \in Users, NEW ids \in SUBSET Listed, ClaimRewards(u, ids)
      PROVE  SafetyInv'
  BY <1>1, <1>9, ClaimRewardsSafe
<1>10. ASSUME NEW caller \in Accounts, NEW sent \in [Slots -> Amounts],
              NEW counted \in [Slots -> Amounts], NEW d \in Durations,
              DepositRewards(caller, sent, counted, d)
       PROVE  SafetyInv'
  BY <1>1, <1>10, DepositRewardsSafe
<1>11. ASSUME NEW caller \in Accounts, NEW a \in Assets, AddRewardAsset(caller, a)
       PROVE  SafetyInv'
  BY <1>1, <1>11, AddRewardAssetSafe
<1>12. ASSUME NEW caller \in Accounts, NEW newAdmin \in Accounts,
              ChangeAdmin(caller, newAdmin)
       PROVE  SafetyInv'
  <2>1. UNCHANGED <<pool, totalStaked, numStakers, claimedRewards, rewardAssets,
                    optedIn, local, holding>>
    BY <1>12 DEF ChangeAdmin
  <2>2. NoStrays' /\ \A a \in Assets : holding'[a] >= holding[a]
    BY <1>2, <2>1 DEF SafetyInv, NoStrays
  <2> QED
    BY <1>1, <2>1, <2>2, UnmovedSafe
<1>13. ASSUME NEW a \in Assets, NEW amount \in Amounts, FundFarm(a, amount)
       PROVE  SafetyInv'
  <2>1. /\ UNCHANGED <<pool, totalStaked, numStakers, claimedRewards, rewardAssets,
                       optedIn, local>>
        /\ holding' = [holding EXCEPT ![a] = holding[a] + amount]
    BY <1>13 DEF FundFarm
  <2>2. amount \in Nat /\ holding \in [Assets -> Nat]
    BY FarmAssumption DEF SafetyInv, TypeOK
  <2>3. \A b \in Assets : holding'[b] >= holding[b]
    BY <2>1, <2>2
  <2>4. NoStrays'
    BY <2>1 DEF SafetyInv, NoStrays
  <2> QED
    BY <1>1, <2>1, <2>3, <2>4, UnmovedSafe
<1> QED
  BY <1>3, <1>4, <1>5, <1>6, <1>7, <1>8, <1>9, <1>10, <1>11, <1>12, <1>13
     DEF Next, StakerNext, AdminNext

(* All the invariants at once: update_global_state, update_state and the   *)
(* other methods keep what the contract counts, owes and holds in step.    *)
THEOREM FarmSafety == Spec => []SafetyInv
BY SafetyInit, SafetyStep, PTL DEF Spec

(* The rewards released and not claimed cover all that is owed to all      *)
(* users, for any roundings of the reward per token in any history.        *)
THEOREM FarmSolvent == Spec => []Solvent
<1>1. SafetyInv => Solvent
  BY DEF SafetyInv
<1> QED
  BY <1>1, FarmSafety, PTL

(* TotalStaked and NumStakers are the sum and the number of the stakes,    *)
(* whatever update_state finds in the escrows and however users leave.     *)
THEOREM FarmStakeAccounting == Spec => []StakeAccounting
<1>1. SafetyInv => StakeAccounting
  BY DEF SafetyInv
<1> QED
  BY <1>1, FarmSafety, PTL

(* The farm's account can pay all rewards released, pending and queued, in *)
(* particular those in Algo after add_reward_asset has paid for opt-ins.   *)
THEOREM FarmHoldingsCover == Spec => []HoldingsCoverLiabilities
<1>1. SafetyInv => HoldingsCoverLiabilities
  BY DEF SafetyInv
<1> QED
  BY <1>1, FarmSafety, PTL

(* Every reward has a period to be released in, so deposit_rewards never   *)
(* overwrites one.                                                         *)
THEOREM FarmScheduleConsistent == Spec => []ScheduleConsistent
<1>1. SafetyInv => ScheduleConsistent
  BY DEF SafetyInv
<1> QED
  BY <1>1, FarmSafety, PTL

(* exit_farm never panics, so clear_state always does its accounting, and  *)
(* claim_rewards always can pay everything settled.                        *)
THEOREM FarmExitAlwaysOpen == Spec => []ExitAlwaysOpen
<1>1. SafetyInv => ExitAlwaysOpen
  <2> SUFFICES ASSUME SafetyInv, NEW u \in optedIn PROVE
         /\ ExitFits(local[u])
         /\ \A i \in Listed : /\ holding[rewardAssets[i]] >= local[u].accrued[i]
                              /\ Fits(claimedRewards[i] + local[u].accrued[i])
                              /\ Fits(local[u].claimed[i] + local[u].accrued[i])
    BY DEF ExitAlwaysOpen
  <2>1. u \in Users
    BY DEF SafetyInv, TypeOK
  <2>2. ExitFits(local[u])
    BY <2>1, LeavingIsOpen DEF SafetyInv
  <2>3. ASSUME NEW i \in Listed
        PROVE  /\ holding[rewardAssets[i]] >= local[u].accrued[i]
               /\ Fits(claimedRewards[i] + local[u].accrued[i])
               /\ Fits(local[u].claimed[i] + local[u].accrued[i])
    <3>1. i \in Slots /\ rewardAssets[i] \in Assets
      BY FarmAssumption DEF SafetyInv, TypeOK, Listed, Slots
    <3>2. /\ local[u].accrued[i] \in Nat /\ local[u].claimed[i] \in Nat
          /\ local[u].claimed[i] <= claimedRewards[i]
      BY <2>1, <3>1, LocalFacts DEF SafetyInv, ClaimsCounted, TypeOK
    <3>3. /\ claimedRewards[i] \in Nat /\ pool.total[i] \in Word
          /\ pool.pending[i] \in Nat /\ pool.next[i] \in Nat
      BY <3>1, ConstantsType DEF SafetyInv, TypeOK, Pool, Rewards
    <3>4. holding[rewardAssets[i]] \in Nat
      BY <3>1 DEF SafetyInv, TypeOK
    <3>5. local[u].accrued[i] + claimedRewards[i] <= pool.total[i]
      BY <2>1, <3>1, AccruedIsCovered DEF SafetyInv
    <3>6. holding[rewardAssets[i]] + claimedRewards[i]
            >= pool.total[i] + pool.pending[i] + pool.next[i]
      BY DEF SafetyInv, HoldingsCoverLiabilities
    <3>7. W \in Nat
      BY ConstantsType
    <3> QED
      BY <3>2, <3>3, <3>4, <3>5, <3>6, <3>7 DEF Fits, Word
  <2> QED
    BY <2>2, <2>3
<1> QED
  BY <1>1, FarmSafety, PTL

-----------------------------------------------------------------------------
(* Updates never panic                                                     *)

(* What the farm has received of an asset bounds the rewards of its slot   *)
(* and, at one token staked or more, the reward per token it has reached.  *)
DepositsBounded ==
  /\ \A a \in Assets : supply[a] <= Supply
  /\ \A i \in Listed :
       LET received == Supply - supply[rewardAssets[i]]
       IN /\ pool.total[i] + pool.pending[i] + pool.next[i] <= received
          /\ Cum(pool, i) + (pool.pending[i] + pool.next[i]) * W <= received * W

(* The same of any pool and any supply.                                    *)
Within(p, received, i) ==
  /\ p.total[i] + p.pending[i] + p.next[i] <= received
  /\ Cum(p, i) + (p.pending[i] + p.next[i]) * W <= received * W

(* The invariant bounds the pool by what was received of each asset.       *)
LEMMA BoundedParts ==
  DepositsBounded <=> /\ \A a \in Assets : supply[a] <= Supply
                      /\ \A i \in Listed : Within(pool, Supply - supply[rewardAssets[i]], i)
BY DEF DepositsBounded, Within

(* The reward per token grows by no more than the rewards released.        *)
LEMMA UpdatedWithin ==
  ASSUME SafetyInv, NEW i \in Slots, NEW n \in Nat, Within(pool, n, i)
  PROVE  Within(Updated, n, i)
<1> USE DEF SafetyInv
<1>1. Advances(pool, Updated) /\ pool \in LoosePool /\ totalStaked \in Nat
  BY UpdatedAdvances, ConstantsType DEF TypeOK
<1>2. CASE totalStaked = 0
  BY <1>2 DEF Updated
<1>3. CASE totalStaked # 0
  <2> DEFINE t == pool.total[i]
             r == Updated.total[i]
             k == pool.pending[i] + pool.next[i]
             m == Updated.pending[i] + Updated.next[i]
             x == Cum(pool, i)
             y == Cum(Updated, i)
  <2>1. /\ t \in Nat /\ r \in Nat /\ k \in Nat /\ m \in Nat /\ x \in Nat /\ y \in Nat
        /\ W \in Nat
    BY <1>1, PoolFacts, ConstantsType DEF Advances
  <2>2. /\ r >= t /\ r + m = t + k /\ y >= x /\ (y - x) * totalStaked <= (r - t) * W
        /\ t + k <= n /\ x + k * W <= n * W
    <3>1. /\ r >= t /\ y >= x /\ (y - x) * totalStaked <= (r - t) * W
          /\ x + k * W <= n * W
      BY <1>1 DEF Advances, Within
    <3>2. /\ r + Updated.pending[i] + Updated.next[i] = t + pool.pending[i] + pool.next[i]
          /\ t + pool.pending[i] + pool.next[i] <= n
      BY <1>1 DEF Advances, Within
    <3>3. /\ pool.pending[i] \in Nat /\ pool.next[i] \in Nat
          /\ Updated.pending[i] \in Nat /\ Updated.next[i] \in Nat
      BY <1>1, PoolFacts DEF Advances
    <3> QED
      BY <2>1, <3>1, <3>2, <3>3
  <2>3. Within(Updated, n, i) <=> r + m <= n /\ y + m * W <= n * W
    <3>1. Updated.pending[i] \in Nat /\ Updated.next[i] \in Nat
      BY <1>1, PoolFacts DEF Advances
    <3> QED
      BY <2>1, <3>1 DEF Within
  <2> HIDE DEF t, r, k, m, x, y
  <2>4. y - x <= (r - t) * W
    <3> DEFINE g == y - x
               s == totalStaked - 1
    <3>1. g \in Nat /\ s \in Nat /\ totalStaked = s + 1
      BY <1>1, <1>3, <2>1, <2>2
    <3> HIDE DEF g, s
    <3>2. g * (s + 1) = g * s + g /\ g * s \in Nat
      BY <3>1
    <3>3. g * (s + 1) <= (r - t) * W
      BY <2>2, <3>1 DEF g
    <3>4. (r - t) * W \in Int
      BY <2>1
    <3>5. g <= (r - t) * W
      BY <3>1, <3>2, <3>3, <3>4
    <3> QED
      BY <3>5 DEF g
  <2>5. k * W = m * W + (r - t) * W
    <3>1. k = m + (r - t)
      BY <2>1, <2>2
    <3> QED
      BY <2>1, <3>1
  <2>6. k * W \in Nat /\ m * W \in Nat /\ (r - t) * W \in Int /\ n * W \in Nat
    BY <2>1
  <2>7. y + m * W <= n * W
    BY <2>1, <2>2, <2>4, <2>5, <2>6
  <2> QED
    BY <2>1, <2>2, <2>3, <2>7
<1> QED
  BY <1>2, <1>3

(* A slot whose figures only shrink, and whose receipts only grow.         *)
LEMMA WithinShrinks ==
  ASSUME NEW p \in LoosePool, NEW q \in LoosePool, NEW i \in Slots, NEW m \in Nat,
         NEW n \in Nat, NEW x \in Nat, Within(p, m, i), m + x <= n,
         q.total[i] <= p.total[i], Cum(q, i) = Cum(p, i),
         q.pending[i] + q.next[i] <= p.pending[i] + p.next[i] + x
  PROVE  Within(q, n, i)
<1> DEFINE t == p.total[i]
           r == q.total[i]
           k == p.pending[i] + p.next[i]
           l == q.pending[i] + q.next[i]
           c == Cum(p, i)
<1>1. /\ p.pending[i] \in Nat /\ p.next[i] \in Nat /\ q.pending[i] \in Nat
      /\ q.next[i] \in Nat /\ t \in Nat /\ r \in Nat /\ c \in Nat /\ W \in Nat
  BY PoolFacts, ConstantsType
<1>2. k \in Nat /\ l \in Nat /\ l <= k + x /\ r <= t
  BY <1>1
<1>3. t + k <= m /\ c + k * W <= m * W
  <2>1. t + p.pending[i] + p.next[i] <= m /\ c + k * W <= m * W
    BY DEF Within
  <2> QED
    BY <1>1, <2>1
<1>4. Within(q, n, i) <=> r + l <= n /\ c + l * W <= n * W
  BY <1>1 DEF Within
<1> HIDE DEF t, r, k, l, c
<1>5. l * W <= (k + x) * W /\ (k + x) * W = k * W + x * W
  BY <1>1, <1>2
<1>6. (m + x) * W <= n * W /\ (m + x) * W = m * W + x * W
  BY <1>1
<1>7. /\ l * W \in Nat /\ k * W \in Nat /\ x * W \in Nat /\ m * W \in Nat
      /\ n * W \in Nat /\ (k + x) * W \in Nat /\ (m + x) * W \in Nat
  BY <1>1, <1>2
<1>8. c + l * W <= n * W
  BY <1>1, <1>3, <1>5, <1>6, <1>7
<1>9. r + l <= n
  BY <1>1, <1>2, <1>3
<1> QED
  BY <1>4, <1>8, <1>9

(* The receipts of a slot's asset.                                         *)
LEMMA ReceivedType ==
  ASSUME TypeOK, DepositsBounded, NEW a \in Assets
  PROVE  supply[a] \in Nat /\ Supply - supply[a] \in Nat /\ Supply \in Nat
<1>1. supply[a] \in Nat /\ Supply \in Nat /\ supply[a] <= Supply
  BY FarmAssumption DEF TypeOK, DepositsBounded
<1> QED
  BY <1>1

(* A step that adds to the rewards of a slot no more than the farm gets.   *)
LEMMA PaidForBounded ==
  ASSUME SafetyInv, TypeOK', DepositsBounded, rewardAssets' = rewardAssets,
         \A a \in Assets : supply'[a] <= supply[a],
         \A i \in Listed :
           /\ pool'.total[i] <= pool.total[i] /\ Cum(pool', i) = Cum(pool, i)
           /\ pool'.pending[i] + pool'.next[i]
                <= pool.pending[i] + pool.next[i]
                     + (supply[rewardAssets[i]] - supply'[rewardAssets[i]])
  PROVE  DepositsBounded'
<1> USE DEF SafetyInv
<1>1. pool \in LoosePool /\ pool' \in LoosePool
  BY ConstantsType DEF TypeOK
<1>2. \A a \in Assets : supply'[a] \in Nat /\ supply[a] \in Nat /\ supply[a] <= Supply
  BY DEF TypeOK, DepositsBounded
<1>3. Supply \in Nat
  BY FarmAssumption
<1>4. ASSUME NEW i \in Listed
      PROVE  Within(pool', Supply - supply'[rewardAssets[i]], i)
  <2> DEFINE b == supply[rewardAssets[i]]
             c == supply'[rewardAssets[i]]
  <2>1. i \in Slots /\ rewardAssets[i] \in Assets
    BY ListedType
  <2>2. Within(pool, Supply - b, i)
    BY BoundedParts
  <2>3. b \in Nat /\ c \in Nat /\ c <= b /\ b <= Supply
    BY <1>2, <2>1
  <2>4. /\ pool'.total[i] <= pool.total[i] /\ Cum(pool', i) = Cum(pool, i)
        /\ pool'.pending[i] + pool'.next[i] <= pool.pending[i] + pool.next[i] + (b - c)
    OBVIOUS
  <2> HIDE DEF b, c
  <2>5. /\ Supply - b \in Nat /\ Supply - c \in Nat /\ b - c \in Nat
        /\ (Supply - b) + (b - c) <= Supply - c
    BY <1>3, <2>3
  <2>6. Within(pool', Supply - c, i)
    BY <1>1, <2>1, <2>2, <2>4, <2>5, WithinShrinks
  <2> QED
    BY <2>6 DEF c
<1>5. \A a \in Assets : supply'[a] <= Supply
  BY <1>2, <1>3
<1> QED
  BY <1>4, <1>5 DEF DepositsBounded, Within, Listed, Cum

(* update_global_state, and update_state which does it first.              *)
LEMMA UpdateBounded ==
  ASSUME SafetyInv, DepositsBounded, pool' = Updated, rewardAssets' = rewardAssets,
         supply' = supply
  PROVE  DepositsBounded'
<1>1. ASSUME NEW i \in Listed
      PROVE  Within(Updated, Supply - supply[rewardAssets[i]], i)
  <2>1. i \in Slots /\ rewardAssets[i] \in Assets
    BY ListedType DEF SafetyInv
  <2>2. Supply - supply[rewardAssets[i]] \in Nat
    BY <2>1, ReceivedType DEF SafetyInv
  <2> QED
    BY <2>1, <2>2, BoundedParts, UpdatedWithin
<1> QED
  BY <1>1 DEF DepositsBounded, Within, Listed, Cum

(* The rewards deposit_rewards counts have come with it.                   *)
LEMMA DepositBounded ==
  ASSUME SafetyInv, TypeOK', DepositsBounded, NEW caller \in Accounts,
         NEW sent \in [Slots -> Amounts], NEW counted \in [Slots -> Amounts],
         NEW d \in Durations, DepositRewards(caller, sent, counted, d)
  PROVE  DepositsBounded'
<1> USE DEF SafetyInv
<1>1. /\ pool.nextDuration = 0 /\ \A i \in Slots : counted[i] <= sent[i]
      /\ pool' = IF pool.duration = 0
                 THEN [pool EXCEPT !.pending = counted, !.duration = d]
                 ELSE [pool EXCEPT !.next = counted, !.nextDuration = d]
      /\ supply' = [a \in Assets |-> supply[a] - InAsset(sent, a)]
      /\ rewardAssets' = rewardAssets
  BY DEF DepositRewards
<1>2. pool \in LoosePool
  BY ConstantsType DEF TypeOK
<1>3. /\ pool'.rpt = pool.rpt /\ pool'.rptFrac = pool.rptFrac /\ pool'.total = pool.total
      /\ \/ /\ pool.duration = 0 /\ pool'.pending = counted /\ pool'.next = pool.next
         \/ pool'.pending = pool.pending /\ pool'.next = counted
  BY <1>1, <1>2 DEF LoosePool
<1>4. pool.next = ZeroRewards /\ (pool.duration = 0 => pool.pending = ZeroRewards)
  BY <1>1 DEF ScheduleConsistent
<1>5. sent \in [Slots -> Nat]
  BY FarmAssumption
<1>6. ASSUME NEW a \in Assets PROVE supply'[a] <= supply[a]
  <2>1. InAsset(sent, a) \in Nat /\ supply[a] \in Nat
    BY <1>5, InAssetType DEF TypeOK
  <2>2. supply'[a] = supply[a] - InAsset(sent, a)
    BY <1>1
  <2> QED
    BY <2>1, <2>2
<1>7. ASSUME NEW i \in Listed
      PROVE  /\ pool'.total[i] <= pool.total[i] /\ Cum(pool', i) = Cum(pool, i)
             /\ pool'.pending[i] + pool'.next[i]
                  <= pool.pending[i] + pool.next[i]
                       + (supply[rewardAssets[i]] - supply'[rewardAssets[i]])
  <2>1. i \in Slots /\ rewardAssets[i] \in Assets
    BY ListedType
  <2>2. supply'[rewardAssets[i]] = supply[rewardAssets[i]] - sent[i]
    BY <1>1, <2>1, InAssetAt
  <2>3. supply[rewardAssets[i]] \in Nat /\ pool.total[i] \in Nat /\ pool.pending[i] \in Nat
    BY <1>2, <2>1, PoolFacts DEF TypeOK
  <2>4. counted[i] \in Nat /\ sent[i] \in Nat /\ counted[i] <= sent[i] /\ ZeroRewards[i] = 0
    BY <1>1, <2>1, FarmAssumption DEF ZeroRewards
  <2>5. Cum(pool', i) = Cum(pool, i)
    BY <1>3 DEF Cum
  <2> QED
    BY <1>3, <1>4, <2>2, <2>3, <2>4, <2>5
<1> QED
  BY <1>1, <1>6, <1>7, PaidForBounded

(* A newly listed asset's slot is empty.                                   *)
LEMMA AddBounded ==
  ASSUME SafetyInv, TypeOK', DepositsBounded, NEW caller \in Accounts, NEW a \in Assets,
         AddRewardAsset(caller, a)
  PROVE  DepositsBounded'
<1> USE DEF SafetyInv
<1> DEFINE L == Len(rewardAssets)
<1>1. /\ rewardAssets' = Append(rewardAssets, a) /\ L < MaxFarmedAssets
      /\ pool' = pool /\ supply' = supply
  BY DEF AddRewardAsset
<1>2. /\ Listed' = Listed \union {L + 1} /\ L + 1 \in Slots /\ L + 1 \notin Listed
      /\ rewardAssets'[L + 1] = a /\ \A i \in Listed : rewardAssets'[i] = rewardAssets[i]
  BY <1>1, FarmAssumption DEF TypeOK, Listed, Slots
<1>3. ASSUME NEW i \in Listed'
      PROVE  Within(pool, Supply - supply[rewardAssets'[i]], i)
  <2>1. CASE i \in Listed
    BY <1>2, <2>1, BoundedParts
  <2>2. CASE i = L + 1
    <3>1. Supply - supply[a] \in Nat /\ W \in Nat
      BY ReceivedType, ConstantsType
    <3>2. /\ pool.total[i] = 0 /\ pool.pending[i] = 0 /\ pool.next[i] = 0
          /\ Cum(pool, i) = 0
      BY <1>2, <2>2 DEF UnlistedEmpty
    <3>3. (Supply - supply[a]) * W >= 0
      BY <3>1
    <3>4. Within(pool, Supply - supply[a], i)
      BY <3>1, <3>2, <3>3 DEF Within
    <3> QED
      BY <1>2, <2>2, <3>4
  <2> QED
    BY <1>2, <2>1, <2>2
<1> QED
  BY <1>1, <1>3 DEF DepositsBounded, Within, Cum

(* Nothing has been received and nothing is promised.                      *)
LEMMA BoundedInit == Init => DepositsBounded
BY FarmAssumption DEF Init, DepositsBounded, Listed

(* Every action keeps the rewards within the receipts.                     *)
LEMMA BoundedStep ==
  SafetyInv /\ SafetyInv' /\ DepositsBounded /\ [Next]_vars => DepositsBounded'
<1> SUFFICES ASSUME SafetyInv, SafetyInv', DepositsBounded, [Next]_vars
             PROVE  DepositsBounded'
  OBVIOUS
<1> USE DEF SafetyInv
<1>1. pool \in LoosePool
  BY ConstantsType DEF TypeOK
<1>2. \A i \in Listed : i \in Slots /\ rewardAssets[i] \in Assets
  BY ListedType
<1>3. ASSUME rewardAssets' = rewardAssets, pool' = pool,
             \A a \in Assets : supply'[a] <= supply[a]
      PROVE  DepositsBounded'
  <2>1. ASSUME NEW i \in Listed
        PROVE  /\ pool'.total[i] <= pool.total[i] /\ Cum(pool', i) = Cum(pool, i)
               /\ pool'.pending[i] + pool'.next[i]
                    <= pool.pending[i] + pool.next[i]
                         + (supply[rewardAssets[i]] - supply'[rewardAssets[i]])
    <3>1. supply[rewardAssets[i]] \in Nat /\ supply'[rewardAssets[i]] \in Nat
      BY <1>2 DEF TypeOK
    <3>2. /\ pool.total[i] \in Nat /\ pool.pending[i] \in Nat /\ pool.next[i] \in Nat
          /\ supply'[rewardAssets[i]] <= supply[rewardAssets[i]]
      BY <1>1, <1>2, <1>3, PoolFacts
    <3> QED
      BY <1>3, <3>1, <3>2
  <2> QED
    BY <1>3, <2>1, PaidForBounded
<1>4. CASE UpdateGlobalState
  BY <1>4, UpdateBounded DEF UpdateGlobalState
<1>5. ASSUME NEW u \in Users, NEW balance \in Balances, NEW rekeyed \in BOOLEAN,
             UpdateState(u, balance, rekeyed)
      PROVE  DepositsBounded'
  <2>1. pool' = Updated /\ rewardAssets' = rewardAssets /\ supply' = supply
    BY <1>5 DEF UpdateState
  <2> QED
    BY <2>1, UpdateBounded
<1>6. ASSUME NEW u \in Users, ClearState(u) \/ CloseOut(u) PROVE DepositsBounded'
  <2>1. ExitFits(local[u])
    BY LeavingIsOpen
  <2>2. ExitFarm(local[u]) /\ rewardAssets' = rewardAssets /\ supply' = supply
    BY <1>6, <2>1 DEF ClearState, CloseOut
  <2>3. /\ pool'.pending = pool.pending /\ pool'.next = pool.next
        /\ pool'.rpt = pool.rpt /\ pool'.rptFrac = pool.rptFrac
        /\ \A i \in Slots : pool'.total[i] = pool.total[i] - local[u].accrued[i]
    BY <1>1, <2>2 DEF ExitFarm, LoosePool
  <2>4. ASSUME NEW i \in Listed
        PROVE  /\ pool'.total[i] <= pool.total[i] /\ Cum(pool', i) = Cum(pool, i)
               /\ pool'.pending[i] + pool'.next[i]
                    <= pool.pending[i] + pool.next[i]
                         + (supply[rewardAssets[i]] - supply'[rewardAssets[i]])
    <3>1. local[u] \in Local /\ supply[rewardAssets[i]] \in Nat
      BY <1>2 DEF TypeOK
    <3>2. /\ pool.total[i] \in Nat /\ pool.pending[i] \in Nat /\ pool.next[i] \in Nat
          /\ local[u].accrued[i] \in Nat
      BY <1>1, <1>2, <3>1, PoolFacts, LocalFacts
    <3>3. Cum(pool', i) = Cum(pool, i)
      BY <2>3 DEF Cum
    <3> QED
      BY <1>2, <2>2, <2>3, <3>1, <3>2, <3>3
  <2>5. \A a \in Assets : supply'[a] <= supply[a]
    BY <2>2 DEF TypeOK
  <2> QED
    BY <2>2, <2>4, <2>5, PaidForBounded
<1>7. ASSUME NEW caller \in Accounts, NEW sent \in [Slots -> Amounts],
             NEW counted \in [Slots -> Amounts], NEW d \in Durations,
             DepositRewards(caller, sent, counted, d)
      PROVE  DepositsBounded'
  BY <1>7, DepositBounded
<1>8. ASSUME NEW caller \in Accounts, NEW a \in Assets, AddRewardAsset(caller, a)
      PROVE  DepositsBounded'
  BY <1>8, AddBounded
<1>9. ASSUME NEW a \in Assets, NEW amount \in Amounts, FundFarm(a, amount)
      PROVE  DepositsBounded'
  <2>1. /\ pool' = pool /\ rewardAssets' = rewardAssets
        /\ supply' = [supply EXCEPT ![a] = supply[a] - amount]
    BY <1>9 DEF FundFarm
  <2>2. amount \in Nat /\ supply \in [Assets -> Nat]
    BY FarmAssumption DEF TypeOK
  <2>3. \A b \in Assets : supply'[b] <= supply[b]
    BY <2>1, <2>2
  <2> QED
    BY <1>3, <2>1, <2>3
<1>10. CASE \/ Tick \/ UNCHANGED vars
            \/ \E u \in Users : OptIn(u) \/ \E ids \in SUBSET Listed : ClaimRewards(u, ids)
            \/ \E caller, newAdmin \in Accounts : ChangeAdmin(caller, newAdmin)
  <2>1. pool' = pool /\ rewardAssets' = rewardAssets /\ supply' = supply
    BY <1>10 DEF Tick, vars, OptIn, ClaimRewards, ChangeAdmin
  <2>2. \A a \in Assets : supply'[a] <= supply[a]
    BY <2>1 DEF TypeOK
  <2> QED
    BY <1>3, <2>1, <2>2
<1> QED
  BY <1>4, <1>5, <1>6, <1>7, <1>8, <1>9, <1>10 DEF Next, StakerNext, AdminNext

(* Neither the rewards of a slot nor the reward per token it has reached   *)
(* exceed what the farm has received of its asset.                         *)
THEOREM FarmDepositsBounded == Spec => []DepositsBounded
<1>1. SafetyInv /\ SafetyInv' /\ DepositsBounded /\ [Next]_vars => DepositsBounded'
  BY BoundedStep
<1> QED
  BY <1>1, BoundedInit, FarmSafety, PTL DEF Spec

-----------------------------------------------------------------------------
(* Lexicographic order of a reward per token and its fraction.             *)
LEMMA BorrowFits ==
  ASSUME NEW r \in Nat, NEW f \in Word, NEW x \in Nat, NEW y \in Word,
         x * W + y <= r * W + f
  PROVE  UserRptDelta(r, f, x, y) >= 0
<1>1. W \in Nat \ {0} /\ f \in Nat /\ y \in Nat /\ f < W /\ y < W
  BY WAssumption DEF Word
<1>2. SUFFICES ASSUME IF y <= f THEN r < x ELSE r < x + 1 PROVE FALSE
  BY <1>1 DEF UserRptDelta
<1>3. CASE y <= f
  <2>1. r + 1 <= x
    BY <1>1, <1>2, <1>3
  <2>2. (r + 1) * W <= x * W /\ (r + 1) * W = r * W + W
    BY <1>1, <2>1
  <2>3. r * W \in Nat /\ x * W \in Nat
    BY <1>1
  <2> QED
    BY <1>1, <2>2, <2>3
<1>4. CASE y > f
  <2>1. r <= x
    BY <1>1, <1>2, <1>4
  <2>2. r * W <= x * W
    BY <1>1, <2>1
  <2>3. r * W \in Nat /\ x * W \in Nat
    BY <1>1
  <2> QED
    BY <1>1, <1>4, <2>2, <2>3
<1> QED
  BY <1>1, <1>3, <1>4

(* update_global_state: neither the total of the released rewards nor the  *)
(* reward per token overflows.                                             *)
LEMMA UpdateAlwaysFits ==
  ASSUME SafetyInv, DepositsBounded, Supply < W
  PROVE  UpdateFits
<1> USE DEF SafetyInv
<1>1. Updated \in LoosePool /\ W \in Nat \ {0} /\ 0 \in Word
  BY UpdatedType, ConstantsType
<1> SUFFICES ASSUME NEW i \in Slots
             PROVE  Updated.rpt[i] \in Word /\ Updated.total[i] \in Word
  BY DEF UpdateFits, Fits
<1> DEFINE t == Updated.total[i]
           r == Updated.rpt[i]
           f == Updated.rptFrac[i]
           x == Cum(Updated, i)
           k == Updated.pending[i] + Updated.next[i]
<1>2. /\ t \in Nat /\ r \in Nat /\ f \in Nat /\ k \in Nat /\ x = r * W + f
      /\ Updated.pending[i] \in Nat /\ Updated.next[i] \in Nat
  BY <1>1, PoolFacts DEF Cum
<1>3. PICK n \in Nat : n < W /\ t <= n /\ x <= n * W
  <2>1. CASE i \in Listed
    <3>1. rewardAssets[i] \in Assets
      BY <2>1, ListedType
    <3> DEFINE n == Supply - supply[rewardAssets[i]]
    <3>2. n \in Nat /\ n <= Supply
      BY <3>1, ReceivedType
    <3>3. Within(Updated, n, i)
      BY <2>1, <3>2, BoundedParts, UpdatedWithin
    <3>4. Supply \in Nat
      BY FarmAssumption
    <3> HIDE DEF n
    <3>5. t + Updated.pending[i] + Updated.next[i] <= n /\ x + k * W <= n * W
      BY <3>3 DEF Within
    <3> HIDE DEF t, r, f, x
    <3>6. t <= n
      BY <1>2, <3>2, <3>5
    <3>7. k * W \in Nat /\ n * W \in Nat /\ r * W \in Nat
      BY <1>1, <1>2, <3>2
    <3> HIDE DEF k
    <3>8. x <= n * W
      BY <1>2, <3>5, <3>7
    <3> QED
      BY <1>1, <3>2, <3>4, <3>6, <3>8
  <2>2. CASE i \notin Listed
    <3>1. t = 0 /\ x = 0
      BY <2>2, UpdatedUnlisted DEF EmptySlot
    <3> QED
      BY <1>1, <3>1
  <2> QED
    BY <2>1, <2>2
<1> HIDE DEF t, r, f, x
<1>4. r <= n
  <2>1. SUFFICES ASSUME r >= n + 1 PROVE FALSE
    BY <1>2
  <2>2. r * W >= (n + 1) * W /\ (n + 1) * W = n * W + W
    BY <1>1, <1>2, <2>1
  <2>3. r * W \in Nat /\ n * W \in Nat
    BY <1>1, <1>2
  <2> QED
    BY <1>1, <1>2, <1>3, <2>2, <2>3
<1>5. r \in Word /\ t \in Word
  BY <1>1, <1>2, <1>3, <1>4 DEF Word
<1> QED
  BY <1>5 DEF r, t

(* update_local_state: no subtraction underflows, and what is settled for  *)
(* a user is covered by rewards released, which are a word.                *)
LEMMA SettleAlwaysFits ==
  ASSUME SafetyInv, UpdateFits, NEW u \in Users
  PROVE  SettleFits(Updated, local[u])
<1> USE DEF SafetyInv
<1>1. /\ Updated \in LoosePool /\ W \in Nat \ {0} /\ local[u] \in Local
      /\ Listed \subseteq Slots
  BY UpdatedType, ConstantsType, FarmAssumption DEF TypeOK, Listed, Slots
<1> SUFFICES ASSUME NEW i \in Listed
             PROVE  /\ UserRptDelta(Updated.rpt[i], Updated.rptFrac[i],
                                    local[u].rpt[i], local[u].rptFrac[i]) >= 0
                    /\ Settled(Updated, local[u], i) \in Word
                    /\ local[u].accrued[i] + Settled(Updated, local[u], i) \in Word
  BY DEF SettleFits, Fits
<1>2. i \in Slots
  BY <1>1
<1>3. Cum(Updated, i) >= Cum(pool, i) /\ Cum(pool, i) \in Nat /\ Cum(Updated, i) \in Nat
  <2>1. pool \in LoosePool
    BY ConstantsType DEF TypeOK
  <2> QED
    BY <1>1, <1>2, <2>1, PoolFacts, UpdatedAdvances DEF Advances
<1>4. Cum(local[u], i) <= Cum(Updated, i)
  BY <1>1, <1>2, <1>3, DebtsType
<1>5. UserRptDelta(Updated.rpt[i], Updated.rptFrac[i],
                   local[u].rpt[i], local[u].rptFrac[i]) >= 0
  <2> DEFINE r == Updated.rpt[i]
             f == Updated.rptFrac[i]
             x == local[u].rpt[i]
             y == local[u].rptFrac[i]
  <2>1. r \in Nat /\ f \in Word /\ x \in Nat /\ y \in Word
    BY <1>1, <1>2, PoolFacts, LocalFacts
  <2>2. x * W + y <= r * W + f
    BY <1>4 DEF Cum
  <2> HIDE DEF r, f, x, y
  <2>3. UserRptDelta(r, f, x, y) >= 0
    BY <2>1, <2>2, BorrowFits
  <2> QED
    BY <2>3 DEF r, f, x, y
<1> DEFINE a == local[u].accrued[i]
           s == local[u].staked
           g == Cum(Updated, i) - Cum(local[u], i)
           z == Settled(Updated, local[u], i)
           t == Updated.total[i]
           c == claimedRewards[i]
           o == Owed(local[u], Updated, i)
           d == Debt(local, Updated, i)
<1>6. z \in Nat /\ z = (s * g) \div W
  BY <1>1, <1>2, <1>4, SettledIs
<1>7. /\ a \in Nat /\ s \in Nat /\ Cum(local[u], i) \in Nat /\ t \in Nat /\ c \in Nat
  BY <1>1, <1>2, LocalFacts, PoolFacts, ConstantsType DEF TypeOK, Rewards
<1>8. g \in Nat
  BY <1>3, <1>4, <1>7
<1>9. o = a * W + s * g
  BY DEF Owed
<1>10. o \in Nat /\ d \in Nat /\ o <= d
  <2>1. /\ Debts(local, Updated, i) \in [Users -> Nat] /\ d \in Nat
        /\ Debts(local, Updated, i)[u] = o
    BY <1>1, <1>2, <1>3, DebtsType
  <2>2. IsFiniteSet(Users)
    BY FarmAssumption
  <2>3. o <= d
    BY <2>1, <2>2, SumMember DEF Debt
  <2> QED
    BY <2>1, <2>3
<1>11. d <= (t - c) * W
  BY <1>2, UpdatedCovered DEF Covered
<1>12. t \in Word
  BY <1>2 DEF UpdateFits, Fits
<1> HIDE DEF a, s, g, z, t, c, o, d
<1>13. s * g \in Nat /\ W * z <= s * g
  <2>1. s * g \in Nat
    BY <1>7, <1>8
  <2> QED
    BY <1>1, <1>6, <2>1, DivNat
<1>14. (a + z) * W <= (t - c) * W
  <2>1. (a + z) * W = a * W + W * z
    BY <1>1, <1>6, <1>7
  <2>2. a * W \in Nat /\ W * z \in Nat /\ (t - c) * W \in Int
    BY <1>1, <1>6, <1>7
  <2> QED
    BY <1>9, <1>10, <1>11, <1>13, <2>1, <2>2
<1>15. a + z <= t - c
  <2>1. SUFFICES ASSUME t - c + 1 <= a + z PROVE FALSE
    BY <1>6, <1>7
  <2>2. (t - c + 1) * W <= (a + z) * W /\ (t - c + 1) * W = (t - c) * W + W
    BY <1>1, <1>6, <1>7, <2>1
  <2>3. (a + z) * W \in Nat /\ (t - c) * W \in Int
    BY <1>1, <1>6, <1>7
  <2> QED
    BY <1>1, <1>14, <2>2, <2>3
<1>16. z \in Word /\ a + z \in Word
  BY <1>1, <1>6, <1>7, <1>12, <1>15 DEF Word
<1> QED
  BY <1>5, <1>16 DEF a, z

(* The counts of stakes take a new stake when all stakes together still    *)
(* are a word: there are no more stakers than tokens staked.               *)
LEMMA StakeAlwaysFits ==
  ASSUME TypeOK, StakeAccounting, NEW u \in Users, NEW n \in Word,
         totalStaked - local[u].staked + n < W
  PROVE  StakeFits(local[u].staked, n)
<1> DEFINE s == local[u].staked
           l == [local[u] EXCEPT !.staked = n]
           m == [local EXCEPT ![u] = l]
           k == StakersAfter(s, n)
<1>1. l \in Local /\ l.staked = n /\ m \in [Users -> Local]
  BY DEF TypeOK, Local
<1>2. StakeSum(m) = totalStaked - s + n /\ s <= totalStaked /\ Cardinality(StakersIn(m)) = k
  <2> HIDE DEF l, m
  <2>1. /\ StakeSum(m) = totalStaked - s + l.staked /\ s <= totalStaked
        /\ Cardinality(StakersIn(m)) = StakersAfter(s, l.staked)
    BY <1>1, StakeReplace DEF m
  <2> QED
    BY <1>1, <2>1
<1>3. Cardinality(StakersIn(m)) <= StakeSum(m) /\ Cardinality(StakersIn(m)) \in Nat
  <2> DEFINE f == [v \in Users |-> m[v].staked]
  <2> HIDE DEF m
  <2>1. f \in [Users -> Nat] /\ IsFiniteSet(Users)
    <3>1. \A v \in Users : m[v] \in Local
      BY <1>1
    <3> QED
      BY <3>1, FarmAssumption, ConstantsType DEF Local
  <2>2. StakersIn(m) = {v \in Users : f[v] # 0} /\ StakeSum(m) = SumFunctionOnSet(f, Users)
    BY DEF StakersIn, StakeSum
  <2> HIDE DEF f
  <2>3. IsFiniteSet({v \in Users : f[v] # 0})
    BY <2>1, FS_Subset
  <2> QED
    BY <2>1, <2>2, <2>3, MembersWithinSum, FS_CardinalityType
<1>4. /\ s \in Nat /\ totalStaked \in Nat /\ totalStaked < W /\ n \in Nat /\ n < W
      /\ W \in Nat
  BY ConstantsType, WAssumption DEF TypeOK, Local, Word
<1> HIDE DEF s, l, m, k
<1>5. totalStaked - s \in Word /\ totalStaked - s + n \in Word /\ k \in Word
  BY <1>2, <1>3, <1>4 DEF s, Word
<1> QED
  BY <1>5 DEF StakeFits, Fits, s, k

-----------------------------------------------------------------------------
(* Stakes are balances that update_state has found.                        *)
StakesFromBalances == \A u \in Users : local[u].staked \in Balances \union {0}

(* Only update_state sets a stake that is not 0.                           *)
LEMMA BalancesStep ==
  TypeOK /\ StakesFromBalances /\ [Next]_vars => StakesFromBalances'
<1> SUFFICES ASSUME TypeOK, StakesFromBalances, [Next]_vars
             PROVE  StakesFromBalances'
  OBVIOUS
<1>1. ASSUME \A v \in Users : local'[v].staked \in {local[v].staked, 0} \union Balances
      PROVE  StakesFromBalances'
  BY <1>1 DEF StakesFromBalances
<1>2. NoLocal.staked = 0
  BY DEF NoLocal
<1>3. ASSUME NEW u \in Users, NEW balance \in Balances, NEW rekeyed \in BOOLEAN,
             UpdateState(u, balance, rekeyed)
      PROVE  StakesFromBalances'
  <2> DEFINE n == IF rekeyed THEN 0 ELSE balance
  <2>1. local' = [local EXCEPT ![u] = UpdateLocal(Updated, local[u], n)]
    BY <1>3 DEF UpdateState
  <2>2. UpdateLocal(Updated, local[u], n).staked = n
    BY DEF UpdateLocal, TypeOK, Local
  <2> QED
    BY <1>1, <2>1, <2>2 DEF TypeOK
<1>4. ASSUME NEW u \in Users, local' = [local EXCEPT ![u] = NoLocal]
      PROVE  StakesFromBalances'
  BY <1>1, <1>2, <1>4 DEF TypeOK
<1>5. ASSUME NEW u \in Users, NEW ids \in SUBSET Listed, ClaimRewards(u, ids)
      PROVE  StakesFromBalances'
  BY <1>1, <1>5 DEF ClaimRewards, TypeOK, Local
<1>6. ASSUME local' = local PROVE StakesFromBalances'
  BY <1>1, <1>6
<1> QED
  BY <1>3, <1>4, <1>5, <1>6
     DEF Next, vars, StakerNext, AdminNext, OptIn, ClearState, CloseOut, Leave, Tick,
         UpdateGlobalState, DepositRewards, AddRewardAsset, ChangeAdmin, FundFarm

(* As long as the lifetime deposits of an asset and the stakes the users   *)
(* may have together are words, the arithmetic of update_global_state and  *)
(* update_state never panics.                                              *)
THEOREM FarmUpdatesNeverPanic ==
  ASSUME Supply < W,
         \A f \in [Users -> Balances \union {0}] : SumFunctionOnSet(f, Users) < W
  PROVE  Spec => []UpdatesNeverPanic
<1>1. Init => StakesFromBalances
  BY DEF Init, StakesFromBalances, NoLocal
<1>2. Spec => []StakesFromBalances
  <2>1. SafetyInv /\ StakesFromBalances /\ [Next]_vars => StakesFromBalances'
    BY BalancesStep DEF SafetyInv
  <2> QED
    BY <1>1, <2>1, FarmSafety, PTL DEF Spec
<1>3. SafetyInv /\ DepositsBounded /\ StakesFromBalances => UpdatesNeverPanic
  <2> SUFFICES ASSUME SafetyInv, DepositsBounded, StakesFromBalances
               PROVE  UpdatesNeverPanic
    OBVIOUS
  <2> USE DEF SafetyInv
  <2>1. UpdateFits
    BY UpdateAlwaysFits
  <2>2. ASSUME NEW u \in Users, NEW n \in Balances
        PROVE  totalStaked - local[u].staked + n < W
    <3> DEFINE l == [local[u] EXCEPT !.staked = n]
               m == [local EXCEPT ![u] = l]
               f == [v \in Users |-> m[v].staked]
    <3>1. n \in Word
      BY FarmAssumption
    <3>2. l \in Local /\ l.staked = n
      BY <3>1 DEF TypeOK, Local
    <3>3. f \in [Users -> Balances \union {0}]
      BY <3>2 DEF TypeOK, StakesFromBalances
    <3>4. StakeSum(m) = totalStaked - local[u].staked + l.staked
      <4> HIDE DEF l
      <4> QED
        BY <3>2, StakeReplace
    <3>5. StakeSum(m) = SumFunctionOnSet(f, Users)
      BY DEF StakeSum
    <3> QED
      BY <3>2, <3>3, <3>4, <3>5
  <2>3. ASSUME NEW u \in optedIn
        PROVE  /\ SettleFits(Updated, local[u])
               /\ \A n \in Balances : StakeFits(local[u].staked, n)
    <3>1. u \in Users /\ Balances \subseteq Word
      BY FarmAssumption DEF TypeOK
    <3> QED
      BY <2>1, <2>2, <3>1, SettleAlwaysFits, StakeAlwaysFits
  <2> QED
    BY <2>1, <2>3 DEF UpdatesNeverPanic
<1> QED
  BY <1>2, <1>3, FarmSafety, FarmDepositsBounded, PTL
=============================================================================
