----------------------------- MODULE FarmProofs -----------------------------
(***************************************************************************)
(* What Farm guarantees for every word size, set of users and assets, and  *)
(* length of history.                                                      *)
(***************************************************************************)
EXTENDS FarmProperties, ArithmeticProofs

(* A pool in the middle of an update: the figures that may overflow are    *)
(* only known to be natural numbers.                                       *)
LoosePool == [duration : Word, nextDuration : Word, rpt : [Slots -> Nat],
              rptFrac : Rewards, pending : Rewards, next : Rewards,
              total : [Slots -> Nat]]

(* The constants of Farm, and the types of its defaults.                   *)
LEMMA ConstantsType ==
  /\ W \in Nat \ {0, 1} /\ 0 \in Word /\ Word \subseteq Nat
  /\ Slots \subseteq Nat /\ ZeroRewards \in Rewards /\ NoLocal \in Local
  /\ Pool \subseteq LoosePool
BY WAssumption, FarmAssumption
   DEF Word, Slots, Rewards, ZeroRewards, NoLocal, Local, Pool, LoosePool

(* update_global_state_current, field by field: nothing negative is        *)
(* released, and no more than is pending.                                  *)
LEMMA UpdateCurrentType ==
  ASSUME totalStaked \in Word \ {0}, NEW p \in LoosePool, p.duration # 0,
         NEW dt \in 0 .. p.duration
  PROVE  /\ UpdateCurrent(p, dt) \in LoosePool
         /\ UpdateCurrent(p, dt).duration = p.duration - dt
         /\ UpdateCurrent(p, dt).nextDuration = p.nextDuration
         /\ UpdateCurrent(p, dt).next = p.next
         /\ \A i \in Slots :
              /\ Released(p, dt, i) \in 0 .. p.pending[i]
              /\ UpdateCurrent(p, dt).pending[i] = p.pending[i] - Released(p, dt, i)
              /\ UpdateCurrent(p, dt).total[i] = p.total[i] + Released(p, dt, i)
              /\ UpdateCurrent(p, dt).rpt[i]
                   = NewRpt(p.rpt[i], p.rptFrac[i], Released(p, dt, i), totalStaked)
              /\ UpdateCurrent(p, dt).rptFrac[i]
                   = NewRptFrac(p.rptFrac[i], Released(p, dt, i), totalStaked)
<1> DEFINE q == UpdateCurrent(p, dt)
           D(i) == Released(p, dt, i)
<1>1. /\ p.duration \in Nat \ {0} /\ totalStaked \in Nat \ {0} /\ dt \in Nat
      /\ p.duration - dt \in Word
  BY ConstantsType DEF LoosePool, Word
<1>2. ASSUME NEW i \in Slots
      PROVE  /\ p.pending[i] \in Word /\ p.total[i] \in Nat
             /\ p.rpt[i] \in Nat /\ p.rptFrac[i] \in Word
             /\ p.pending[i] \in Nat
  BY ConstantsType DEF LoosePool, Rewards
<1>3. ASSUME NEW i \in Slots
      PROVE  D(i) \in 0 .. p.pending[i] /\ D(i) \in Nat
  <2>1. DistributedReward(dt, p.duration, p.pending[i]) \in 0 .. p.pending[i]
    BY <1>1, <1>2, DistributedBounds
  <2> QED
    BY <2>1, <1>2 DEF Released
<1>4. ASSUME NEW i \in Slots
      PROVE  /\ NewRpt(p.rpt[i], p.rptFrac[i], D(i), totalStaked) \in Nat
             /\ NewRptFrac(p.rptFrac[i], D(i), totalStaked) \in Word
             /\ p.pending[i] - D(i) \in Word /\ p.total[i] + D(i) \in Nat
  <2>1. p.pending[i] - D(i) \in Word /\ p.total[i] + D(i) \in Nat
    BY <1>2, <1>3, ConstantsType DEF Word
  <2> QED
    BY <1>1, <1>2, <1>3, <2>1, IncrementIsFloor
<1>5. /\ q.duration = p.duration - dt /\ q.nextDuration = p.nextDuration
      /\ q.next = p.next
      /\ \A i \in Slots :
           /\ q.pending[i] = p.pending[i] - D(i)
           /\ q.total[i] = p.total[i] + D(i)
           /\ q.rpt[i] = NewRpt(p.rpt[i], p.rptFrac[i], D(i), totalStaked)
           /\ q.rptFrac[i] = NewRptFrac(p.rptFrac[i], D(i), totalStaked)
  BY DEF UpdateCurrent, LoosePool
<1>6. UpdateCurrent(p, dt) \in LoosePool
  BY <1>1, <1>4 DEF UpdateCurrent, LoosePool, Rewards
<1> QED
  BY <1>3, <1>5, <1>6

(* The start of the next period, field by field.                           *)
LEMMA MoveToNextType ==
  ASSUME NEW p \in LoosePool
  PROVE  /\ MoveToNext(p) \in LoosePool
         /\ MoveToNext(p).duration = p.nextDuration
         /\ MoveToNext(p).nextDuration = 0
         /\ MoveToNext(p).pending = p.next /\ MoveToNext(p).next = ZeroRewards
         /\ MoveToNext(p).rpt = p.rpt /\ MoveToNext(p).rptFrac = p.rptFrac
         /\ MoveToNext(p).total = p.total
<1>1. /\ MoveToNext(p).duration = p.nextDuration
      /\ MoveToNext(p).nextDuration = 0
      /\ MoveToNext(p).pending = p.next /\ MoveToNext(p).next = ZeroRewards
      /\ MoveToNext(p).rpt = p.rpt /\ MoveToNext(p).rptFrac = p.rptFrac
      /\ MoveToNext(p).total = p.total
  BY DEF MoveToNext, LoosePool
<1>2. MoveToNext(p) \in LoosePool
  BY ConstantsType DEF MoveToNext, LoosePool
<1> QED
  BY <1>1, <1>2

(* The four courses update_global_state can take.                          *)
Idle == totalStaked = 0 \/ pool.duration = 0
Current == UpdateCurrent(pool, CurrentDt)

(* update_global_state does nothing, stays in the period, ends it at its   *)
(* last moment, or goes on into the next one.                              *)
LEMMA UpdatedCases ==
  ASSUME TypeOK
  PROVE  \/ (Idle /\ Updated = pool)
         \/ /\ totalStaked \in Word \ {0} /\ pool \in LoosePool /\ pool.duration # 0
            /\ CurrentDt \in 0 .. pool.duration /\ Current \in LoosePool
            /\ \/ /\ Current.duration # 0 /\ CurrentDt = elapsed
                  /\ Updated = Current
               \/ /\ Current.duration = 0 /\ CurrentDt = pool.duration
                  /\ NextDt = 0 /\ elapsed >= pool.duration
                  /\ pool.nextDuration = 0 \/ elapsed = pool.duration
                  /\ Updated = MoveToNext(Current)
               \/ /\ Current.duration = 0 /\ CurrentDt = pool.duration
                  /\ MoveToNext(Current) \in LoosePool
                  /\ NextDt \in 0 .. MoveToNext(Current).duration
                  /\ MoveToNext(Current).duration # 0
                  /\ MoveToNext(Current).duration = pool.nextDuration
                  /\ NextDt = Least(pool.nextDuration, elapsed - pool.duration)
                  /\ Updated = UpdateCurrent(MoveToNext(Current), NextDt)
<1>1. CASE Idle
  BY <1>1 DEF Idle, Updated
<1>2. CASE ~ Idle
  <2>1. /\ totalStaked \in Word \ {0} /\ pool \in LoosePool /\ pool.duration # 0
        /\ pool.duration \in Nat /\ pool.nextDuration \in Nat /\ elapsed \in Nat
    <3>1. pool \in LoosePool /\ totalStaked \in Word /\ elapsed \in Nat
      BY ConstantsType, FarmAssumption DEF TypeOK
    <3>2. pool.duration \in Word /\ pool.nextDuration \in Word
      BY DEF TypeOK, Pool
    <3> QED
      BY <1>2, <3>1, <3>2, ConstantsType DEF Idle
  <2>2. /\ CurrentDt \in 0 .. pool.duration
        /\ CurrentDt = elapsed \/ (CurrentDt = pool.duration /\ elapsed >= pool.duration)
    BY <2>1 DEF CurrentDt, Least
  <2>3. /\ Current \in LoosePool /\ Current.duration = pool.duration - CurrentDt
        /\ Current.nextDuration = pool.nextDuration
    BY <2>1, <2>2, UpdateCurrentType DEF Current
  <2>4. /\ MoveToNext(Current) \in LoosePool
        /\ MoveToNext(Current).duration = pool.nextDuration
    BY <2>3, MoveToNextType
  <2>5. /\ NextDt = Least(pool.nextDuration, elapsed - CurrentDt)
        /\ NextDt \in 0 .. pool.nextDuration
        /\ NextDt = 0 => pool.nextDuration = 0 \/ elapsed = CurrentDt
    BY <2>1, <2>2 DEF NextDt, Least
  <2>6. Updated = IF Current.duration = 0 /\ NextDt # 0
                  THEN UpdateCurrent(MoveToNext(Current), NextDt)
                  ELSE IF Current.duration = 0 THEN MoveToNext(Current) ELSE Current
    BY <1>2 DEF Idle, Updated, Current
  <2>7. Current.duration = 0 => CurrentDt = pool.duration /\ elapsed >= pool.duration
    BY <2>1, <2>2, <2>3
  <2>8. Current.duration # 0 => CurrentDt = elapsed
    BY <2>1, <2>2, <2>3
  <2> HIDE DEF Current
  <2>9. CASE Current.duration # 0
    BY <2>1, <2>2, <2>3, <2>6, <2>8, <2>9
  <2>10. CASE Current.duration = 0 /\ NextDt = 0
    <3>1. Updated = MoveToNext(Current)
      BY <2>6, <2>10
    <3> QED
      BY <2>1, <2>2, <2>3, <2>5, <2>7, <2>10, <3>1
  <2>11. CASE Current.duration = 0 /\ NextDt # 0
    <3>1. Updated = UpdateCurrent(MoveToNext(Current), NextDt)
      BY <2>6, <2>11
    <3>2. pool.nextDuration # 0
      BY <2>1, <2>5, <2>11
    <3> QED
      BY <2>1, <2>2, <2>3, <2>4, <2>5, <2>7, <2>11, <3>1, <3>2
  <2> QED
    BY <2>9, <2>10, <2>11
<1> QED
  BY <1>1, <1>2

(* An update whose additions do not overflow stores words.                 *)
LEMMA UpdatedType ==
  ASSUME TypeOK
  PROVE  Updated \in LoosePool /\ (UpdateFits => Updated \in Pool)
<1>1. Updated \in LoosePool
  <2>1. pool \in LoosePool
    BY ConstantsType DEF TypeOK
  <2> QED
    BY <2>1, UpdatedCases, MoveToNextType, UpdateCurrentType
<1>2. Updated \in LoosePool /\ UpdateFits => Updated \in Pool
  BY DEF UpdateFits, Fits, LoosePool, Pool, Rewards
<1> QED
  BY <1>1, <1>2

-----------------------------------------------------------------------------
(* Type correctness                                                        *)

(* update_local_state stores words.                                        *)
LEMMA UpdateLocalType ==
  ASSUME TypeOK, UpdateFits, NEW u \in Users, SettleFits(Updated, local[u]),
         NEW newStake \in Word
  PROVE  UpdateLocal(Updated, local[u], newStake) \in Local
<1> DEFINE p == Updated
           l == local[u]
<1>1. p \in Pool /\ l \in Local
  BY UpdatedType DEF TypeOK
<1>2. p.rpt \in Rewards /\ p.rptFrac \in Rewards /\ l.accrued \in Rewards
  BY <1>1 DEF Pool, Local
<1>3. \A i \in Listed : l.accrued[i] + Settled(p, l, i) \in Word
  BY DEF SettleFits, Fits
<1> HIDE DEF p, l
<1>4. [i \in Slots |-> IF i \in Listed THEN l.accrued[i] + Settled(p, l, i)
                       ELSE l.accrued[i]] \in Rewards
  BY <1>2, <1>3 DEF Rewards
<1> QED
  BY <1>1, <1>2, <1>4 DEF UpdateLocal, Local, p, l

(* exit_farm stores words when none of its subtractions underflows.        *)
LEMMA ExitFarmType ==
  ASSUME TypeOK, NEW u \in Users, ExitFits(local[u]), ExitFarm(local[u])
  PROVE  pool' \in Pool /\ totalStaked' \in Word /\ numStakers' \in Word
<1> DEFINE l == local[u]
<1>1. totalStaked' \in Word /\ numStakers' \in Word
  BY DEF ExitFits, ExitFarm, SetStake, StakeFits, Fits
<1>2. \A i \in Slots : pool.total[i] - l.accrued[i] \in Word
  <2>1. \A i \in Slots : pool.total[i] \in Word /\ l.accrued[i] \in Word
    BY DEF TypeOK, Pool, Local, Rewards
  <2> QED
    BY <2>1, WAssumption DEF ExitFits, Word
<1>3. pool' = [pool EXCEPT !.total = [i \in Slots |-> pool.total[i] - l.accrued[i]]]
  BY DEF ExitFarm
<1>4. pool \in Pool
  BY DEF TypeOK
<1> HIDE DEF l
<1> QED
  BY <1>1, <1>2, <1>3, <1>4 DEF Pool, Rewards

(* The amount a vector holds in an asset is one of its entries, or nothing.*)
LEMMA InAssetCases ==
  ASSUME NEW f, NEW a
  PROVE  InAsset(f, a) = 0 \/ \E i \in Listed : rewardAssets[i] = a /\ InAsset(f, a) = f[i]
BY DEF InAsset

(* An amount in an asset is a natural number.                              *)
LEMMA InAssetType ==
  ASSUME NEW f \in [Slots -> Nat], NEW a, Len(rewardAssets) <= MaxFarmedAssets,
         rewardAssets \in Seq(Assets)
  PROVE  InAsset(f, a) \in Nat
<1>1. Listed \subseteq Slots
  BY FarmAssumption DEF Listed, Slots
<1> QED
  BY <1>1, InAssetCases

(* create leaves the farm well typed.                                      *)
LEMMA TypeInit == Init => TypeOK
<1> SUFFICES ASSUME Init PROVE TypeOK
  OBVIOUS
<1>1. pool \in Pool
  BY ConstantsType DEF Init, Pool
<1>2. <<>> \in Seq(Assets) /\ Len(<<>>) <= MaxFarmedAssets
  BY FarmAssumption
<1> QED
  BY <1>1, <1>2, ConstantsType, FarmAssumption DEF Init, TypeOK

(* Each method keeps the farm well typed.                                  *)
LEMMA TypeStep == TypeOK /\ [Next]_vars => TypeOK'
<1> SUFFICES ASSUME TypeOK, [Next]_vars PROVE TypeOK'
  OBVIOUS
<1> USE ConstantsType
<1>1. CASE Tick
  BY <1>1, FarmAssumption DEF Tick, TypeOK
<1>2. CASE UpdateGlobalState
  <2>1. pool' \in Pool
    BY <1>2, UpdatedType DEF UpdateGlobalState
  <2> QED
    BY <1>2, <2>1, FarmAssumption DEF UpdateGlobalState, TypeOK
<1>3. ASSUME NEW u \in Users, NEW balance \in Balances, NEW rekeyed \in BOOLEAN,
             UpdateState(u, balance, rekeyed)
      PROVE  TypeOK'
  <2> DEFINE n == IF rekeyed THEN 0 ELSE balance
  <2>1. n \in Word
    BY FarmAssumption
  <2>2. pool' \in Pool
    BY <1>3, UpdatedType DEF UpdateState
  <2>3. local' = [local EXCEPT ![u] = UpdateLocal(Updated, local[u], n)]
    BY <1>3 DEF UpdateState
  <2>4. UpdateLocal(Updated, local[u], n) \in Local
    BY <1>3, <2>1, UpdateLocalType DEF UpdateState
  <2>5. local' \in [Users -> Local]
    BY <2>3, <2>4 DEF TypeOK
  <2>6. totalStaked' \in Word /\ numStakers' \in Word
    BY <1>3 DEF UpdateState, StakeFits, SetStake, Fits
  <2>7. /\ elapsed' = 0
        /\ UNCHANGED <<claimedRewards, rewardAssets, admin, optedIn, holding, supply>>
    BY <1>3 DEF UpdateState
  <2> QED
    BY <2>2, <2>5, <2>6, <2>7, FarmAssumption DEF TypeOK
<1>4. ASSUME NEW u \in Users, OptIn(u) PROVE TypeOK'
  BY <1>4 DEF OptIn, TypeOK
<1>5. ASSUME NEW u \in Users, ClearState(u) PROVE TypeOK'
  <2>1. pool' \in Pool /\ totalStaked' \in Word /\ numStakers' \in Word
    <3>1. CASE ExitFits(local[u])
      BY <1>5, <3>1, ExitFarmType DEF ClearState
    <3>2. CASE ~ ExitFits(local[u])
      BY <1>5, <3>2 DEF ClearState, TypeOK
    <3> QED
      BY <3>1, <3>2
  <2> QED
    BY <1>5, <2>1 DEF ClearState, Leave, TypeOK
<1>6. ASSUME NEW u \in Users, CloseOut(u) PROVE TypeOK'
  <2>1. pool' \in Pool /\ totalStaked' \in Word /\ numStakers' \in Word
    BY <1>6, ExitFarmType DEF CloseOut
  <2> QED
    BY <1>6, <2>1 DEF CloseOut, Leave, TypeOK
<1>7. ASSUME NEW u \in Users, NEW ids \in SUBSET Listed, ClaimRewards(u, ids)
      PROVE  TypeOK'
  <2> DEFINE paid == [i \in Slots |-> IF i \in ids THEN local[u].accrued[i] ELSE 0]
  <2>1. /\ holding' = [a \in Assets |-> holding[a] - InAsset(paid, a)]
        /\ claimedRewards' = [i \in Slots |-> claimedRewards[i] + paid[i]]
        /\ local' = [local EXCEPT
                       ![u].accrued = [i \in Slots |-> local[u].accrued[i] - paid[i]],
                       ![u].claimed = [i \in Slots |-> local[u].claimed[i] + paid[i]]]
        /\ \A i \in ids : /\ holding[rewardAssets[i]] >= paid[i]
                          /\ claimedRewards[i] + paid[i] \in Word
                          /\ local[u].claimed[i] + paid[i] \in Word
        /\ UNCHANGED <<pool, totalStaked, numStakers, rewardAssets, admin,
                       elapsed, optedIn, supply>>
    BY <1>7 DEF ClaimRewards, Fits
  <2>2. /\ local[u] \in Local
        /\ local[u].accrued \in Rewards /\ local[u].claimed \in Rewards
        /\ claimedRewards \in Rewards
    BY DEF TypeOK, Local
  <2>3. \A i \in Slots : /\ local[u].accrued[i] \in Word /\ local[u].claimed[i] \in Word
                         /\ claimedRewards[i] \in Word
    BY <2>2 DEF Rewards
  <2>4. \A i \in Slots : /\ paid[i] = IF i \in ids THEN local[u].accrued[i] ELSE 0
                         /\ paid[i] \in Nat
                         /\ local[u].accrued[i] - paid[i] \in Word
                         /\ local[u].claimed[i] + paid[i] \in Word
                         /\ claimedRewards[i] + paid[i] \in Word
    <3> TAKE i \in Slots
    <3>1. /\ local[u].accrued[i] \in Nat /\ local[u].claimed[i] \in Nat
          /\ claimedRewards[i] \in Nat
      BY <2>3
    <3>2. CASE i \in ids
      <4>1. paid[i] = local[u].accrued[i]
        BY <3>2
      <4>2. local[u].accrued[i] - paid[i] = 0
        BY <3>1, <4>1
      <4> HIDE DEF paid
      <4> QED
        BY <2>1, <3>1, <3>2, <4>1, <4>2
    <3>3. CASE i \notin ids
      <4>1. paid[i] = 0
        BY <3>3
      <4> HIDE DEF paid
      <4> QED
        BY <2>3, <3>1, <3>3, <4>1
    <3> QED
      BY <3>2, <3>3
  <2>5. paid \in [Slots -> Nat]
    BY <2>4
  <2> HIDE DEF paid
  <2>6. \A a \in Assets : holding[a] - InAsset(paid, a) \in Nat
    <3> TAKE a \in Assets
    <3>1. holding[a] \in Nat /\ InAsset(paid, a) \in Nat
      BY <2>5, InAssetType DEF TypeOK
    <3>2. CASE InAsset(paid, a) = 0
      BY <3>1, <3>2
    <3>3. CASE \E i \in Listed : rewardAssets[i] = a /\ InAsset(paid, a) = paid[i]
      <4>1. PICK i \in Listed : rewardAssets[i] = a /\ InAsset(paid, a) = paid[i]
        BY <3>3
      <4>2. i \in Slots
        BY FarmAssumption DEF Listed, Slots, TypeOK
      <4>3. CASE i \in ids
        BY <2>1, <3>1, <4>1, <4>3
      <4>4. CASE i \notin ids
        BY <2>4, <3>1, <4>1, <4>2, <4>4
      <4> QED
        BY <4>3, <4>4
    <3> QED
      BY <3>2, <3>3, InAssetCases
  <2>7. local' \in [Users -> Local]
    <3>1. /\ [i \in Slots |-> local[u].accrued[i] - paid[i]] \in Rewards
          /\ [i \in Slots |-> local[u].claimed[i] + paid[i]] \in Rewards
      BY <2>4 DEF Rewards
    <3>2. [local[u] EXCEPT
             !.accrued = [i \in Slots |-> local[u].accrued[i] - paid[i]],
             !.claimed = [i \in Slots |-> local[u].claimed[i] + paid[i]]] \in Local
      BY <2>2, <3>1 DEF Local
    <3> QED
      BY <2>1, <3>2 DEF TypeOK
  <2>8. holding' \in [Assets -> Nat] /\ claimedRewards' \in Rewards
    BY <2>1, <2>4, <2>6 DEF Rewards
  <2> QED
    BY <2>1, <2>7, <2>8 DEF TypeOK
<1>8. ASSUME NEW caller \in Accounts, NEW sent \in [Slots -> Amounts],
             NEW counted \in [Slots -> Amounts], NEW d \in Durations,
             DepositRewards(caller, sent, counted, d)
      PROVE  TypeOK'
  <2>1. counted \in Rewards /\ sent \in [Slots -> Nat] /\ d \in Word
    BY <1>8, FarmAssumption DEF DepositRewards, Rewards, Fits
  <2>2. pool' \in Pool
    <3>1. pool' = IF pool.duration = 0
                  THEN [pool EXCEPT !.pending = counted, !.duration = d]
                  ELSE [pool EXCEPT !.next = counted, !.nextDuration = d]
      BY <1>8 DEF DepositRewards
    <3> QED
      BY <2>1, <3>1 DEF TypeOK, Pool
  <2>3. \A a \in Assets : /\ InAsset(sent, a) \in Nat /\ InAsset(sent, a) <= supply[a]
                          /\ holding[a] \in Nat /\ supply[a] \in Nat
    BY <1>8, <2>1, InAssetType DEF DepositRewards, TypeOK
  <2>4. holding' \in [Assets -> Nat] /\ supply' \in [Assets -> Nat]
    <3>1. /\ holding' = [a \in Assets |-> holding[a] + InAsset(sent, a)]
          /\ supply' = [a \in Assets |-> supply[a] - InAsset(sent, a)]
      BY <1>8 DEF DepositRewards
    <3> QED
      BY <2>3, <3>1
  <2>5. UNCHANGED <<totalStaked, numStakers, claimedRewards, rewardAssets, admin,
                    elapsed, optedIn, local>>
    BY <1>8 DEF DepositRewards
  <2> QED
    BY <2>2, <2>4, <2>5 DEF TypeOK
<1>9. ASSUME NEW caller \in Accounts, NEW a \in Assets, AddRewardAsset(caller, a)
      PROVE  TypeOK'
  <2>1. /\ rewardAssets' = Append(rewardAssets, a)
        /\ Len(rewardAssets) < MaxFarmedAssets
    BY <1>9 DEF AddRewardAsset
  <2>2. rewardAssets' \in Seq(Assets) /\ Len(rewardAssets') <= MaxFarmedAssets
    BY <2>1, FarmAssumption DEF TypeOK
  <2>3. holding' \in [Assets -> Nat]
    BY <1>9, FarmAssumption DEF AddRewardAsset, TypeOK
  <2> QED
    BY <1>9, <2>2, <2>3 DEF AddRewardAsset, TypeOK
<1>10. ASSUME NEW caller \in Accounts, NEW newAdmin \in Accounts,
              ChangeAdmin(caller, newAdmin)
       PROVE  TypeOK'
  BY <1>10 DEF ChangeAdmin, TypeOK
<1>11. ASSUME NEW a \in Assets, NEW amount \in Amounts, FundFarm(a, amount)
       PROVE  TypeOK'
  <2>1. amount \in Nat
    BY FarmAssumption
  <2>2. holding' \in [Assets -> Nat] /\ supply' \in [Assets -> Nat]
    BY <1>11, <2>1 DEF FundFarm, TypeOK
  <2> QED
    BY <1>11, <2>2 DEF FundFarm, TypeOK
<1>12. CASE UNCHANGED vars
  BY <1>12 DEF vars, TypeOK
<1> QED
  BY <1>1, <1>2, <1>3, <1>4, <1>5, <1>6, <1>7, <1>8, <1>9, <1>10, <1>11, <1>12
     DEF Next, StakerNext, AdminNext

(* The type invariant of Farm: no figure the contract stores leaves its    *)
(* word, and no account balance becomes negative.                          *)
THEOREM FarmTypeOK == Spec => []TypeOK
BY TypeInit, TypeStep, PTL DEF Spec

-----------------------------------------------------------------------------
(* What the safety properties need of the state                            *)

(* Slots with no asset have never had a reward.                            *)
UnlistedEmpty ==
  \A i \in Slots \ Listed :
    /\ pool.total[i] = 0 /\ pool.pending[i] = 0 /\ pool.next[i] = 0
    /\ Cum(pool, i) = 0

DistinctAssets ==
  \A i, j \in Listed : rewardAssets[i] = rewardAssets[j] => i = j

(* No user has seen more reward per token than there has been.             *)
SnapshotsBehind ==
  \A u \in Users, i \in Slots : Cum(local[u], i) <= Cum(pool, i)

NoStrays == \A u \in Users \ optedIn : local[u] = NoLocal

ClaimsCounted ==
  \A u \in Users, i \in Slots : local[u].claimed[i] <= claimedRewards[i]

-----------------------------------------------------------------------------
(* What an update does to the pool                                         *)

(* From p to q rewards are released, at a reward per token that does not   *)
(* exceed them, and none appear or disappear.                              *)
Advances(p, q) ==
  /\ q \in LoosePool
  /\ \A i \in Slots :
       /\ q.total[i] >= p.total[i]
       /\ q.total[i] + q.pending[i] + q.next[i] = p.total[i] + p.pending[i] + p.next[i]
       /\ Cum(q, i) >= Cum(p, i)
       /\ (Cum(q, i) - Cum(p, i)) * totalStaked <= (q.total[i] - p.total[i]) * W

(* The figures of one slot of a pool are natural numbers.                  *)
LEMMA PoolFacts ==
  ASSUME NEW p \in LoosePool, NEW i \in Slots
  PROVE  /\ p.total[i] \in Nat /\ p.pending[i] \in Nat /\ p.next[i] \in Nat
         /\ p.rpt[i] \in Nat /\ p.rptFrac[i] \in Word /\ p.rptFrac[i] \in Nat
         /\ Cum(p, i) \in Nat
<1>1. /\ p.total[i] \in Nat /\ p.pending[i] \in Nat /\ p.next[i] \in Nat
      /\ p.rpt[i] \in Nat /\ p.rptFrac[i] \in Word /\ p.rptFrac[i] \in Nat
  BY ConstantsType DEF LoosePool, Rewards
<1> QED
  BY <1>1, ConstantsType DEF Cum

(* update_global_state_current advances the pool: the increment of the     *)
(* reward per token, times the stakes, is no more than what it releases.   *)
LEMMA UpdateCurrentAdvances ==
  ASSUME totalStaked \in Word \ {0}, NEW p \in LoosePool, p.duration # 0,
         NEW dt \in 0 .. p.duration
  PROVE  Advances(p, UpdateCurrent(p, dt))
<1> DEFINE q == UpdateCurrent(p, dt)
<1>1. q \in LoosePool
  BY UpdateCurrentType
<1>2. totalStaked \in Nat \ {0} /\ W \in Nat \ {0}
  BY ConstantsType
<1>3. ASSUME NEW i \in Slots
      PROVE  /\ q.total[i] >= p.total[i]
             /\ q.total[i] + q.pending[i] + q.next[i] = p.total[i] + p.pending[i] + p.next[i]
             /\ Cum(q, i) >= Cum(p, i)
             /\ (Cum(q, i) - Cum(p, i)) * totalStaked <= (q.total[i] - p.total[i]) * W
  <2> DEFINE d == Released(p, dt, i)
             inc == (d * W) \div totalStaked
  <2>1. /\ d \in 0 .. p.pending[i] /\ q.next[i] = p.next[i]
        /\ q.pending[i] = p.pending[i] - d /\ q.total[i] = p.total[i] + d
        /\ q.rpt[i] = NewRpt(p.rpt[i], p.rptFrac[i], d, totalStaked)
        /\ q.rptFrac[i] = NewRptFrac(p.rptFrac[i], d, totalStaked)
    BY UpdateCurrentType
  <2> HIDE DEF q, d
  <2>2. /\ p.total[i] \in Nat /\ p.pending[i] \in Nat /\ p.next[i] \in Nat
        /\ p.rpt[i] \in Nat /\ p.rptFrac[i] \in Word /\ Cum(p, i) \in Nat
    BY PoolFacts
  <2>3. d \in Nat
    BY <2>1, <2>2
  <2>4. Cum(q, i) = Cum(p, i) + inc
    <3>1. NewRpt(p.rpt[i], p.rptFrac[i], d, totalStaked) * W
            + NewRptFrac(p.rptFrac[i], d, totalStaked)
          = p.rpt[i] * W + p.rptFrac[i] + inc
      <4> DEFINE r == p.rpt[i]
                 f == p.rptFrac[i]
      <4>1. r \in Nat /\ f \in Word /\ totalStaked \in Nat \ {0}
        BY <1>2, <2>2
      <4> HIDE DEF r, f
      <4>2. NewRpt(r, f, d, totalStaked) * W + NewRptFrac(f, d, totalStaked)
              = r * W + f + (d * W) \div totalStaked
        BY <2>3, <4>1, IncrementIsFloor
      <4> QED
        BY <4>2 DEF r, f
    <3>2. q.rpt[i] * W + q.rptFrac[i] = p.rpt[i] * W + p.rptFrac[i] + inc
      BY <2>1, <3>1
    <3> HIDE DEF inc
    <3> QED
      BY <3>2 DEF Cum
  <2>5. d * W \in Nat
    BY <1>2, <2>3
  <2>6. inc \in Nat /\ totalStaked * inc <= d * W
    BY <1>2, <2>5, DivNat
  <2>7. totalStaked * inc = inc * totalStaked
    BY <1>2, <2>6
  <2> HIDE DEF inc
  <2>8. Cum(q, i) - Cum(p, i) = inc /\ q.total[i] - p.total[i] = d
    BY <2>1, <2>2, <2>3, <2>4, <2>6
  <2>9. (Cum(q, i) - Cum(p, i)) * totalStaked <= (q.total[i] - p.total[i]) * W
    BY <2>6, <2>7, <2>8
  <2> QED
    BY <2>1, <2>2, <2>3, <2>4, <2>6, <2>9
<1> QED
  BY <1>1, <1>3 DEF Advances

(* A pool that stays as it is advances.                                    *)
LEMMA AdvancesReflexive ==
  ASSUME totalStaked \in Nat, NEW p \in LoosePool
  PROVE  Advances(p, p)
<1>1. ASSUME NEW i \in Slots
      PROVE  /\ p.total[i] >= p.total[i] /\ Cum(p, i) >= Cum(p, i)
             /\ (Cum(p, i) - Cum(p, i)) * totalStaked <= (p.total[i] - p.total[i]) * W
  <2>1. p.total[i] \in Nat /\ Cum(p, i) \in Nat /\ W \in Nat
    BY PoolFacts, ConstantsType
  <2>2. Cum(p, i) - Cum(p, i) = 0 /\ p.total[i] - p.total[i] = 0
    BY <2>1
  <2> QED
    BY <2>1, <2>2
<1> QED
  BY <1>1 DEF Advances

(* Starting the next period loses no reward once the current one has       *)
(* released all of its own.                                                *)
LEMMA MoveToNextAdvances ==
  ASSUME totalStaked \in Nat, NEW p \in LoosePool, p.pending = ZeroRewards
  PROVE  Advances(p, MoveToNext(p))
<1> DEFINE q == MoveToNext(p)
<1>1. /\ q \in LoosePool /\ q.pending = p.next /\ q.next = ZeroRewards
      /\ q.rpt = p.rpt /\ q.rptFrac = p.rptFrac /\ q.total = p.total
  BY MoveToNextType
<1> HIDE DEF q
<1>2. ASSUME NEW i \in Slots
      PROVE  /\ q.total[i] >= p.total[i]
             /\ q.total[i] + q.pending[i] + q.next[i] = p.total[i] + p.pending[i] + p.next[i]
             /\ Cum(q, i) >= Cum(p, i)
             /\ (Cum(q, i) - Cum(p, i)) * totalStaked <= (q.total[i] - p.total[i]) * W
  <2>1. p.total[i] \in Nat /\ Cum(p, i) \in Nat /\ p.next[i] \in Nat /\ W \in Nat
    BY PoolFacts, ConstantsType
  <2>2. Cum(q, i) = Cum(p, i) /\ q.total[i] = p.total[i]
    BY <1>1 DEF Cum
  <2>3. p.pending[i] = 0 /\ q.next[i] = 0 /\ q.pending[i] = p.next[i]
    BY <1>1 DEF ZeroRewards
  <2>4. Cum(q, i) - Cum(p, i) = 0 /\ q.total[i] - p.total[i] = 0
    BY <2>1, <2>2
  <2> QED
    BY <2>1, <2>2, <2>3, <2>4
<1> QED
  BY <1>1, <1>2 DEF Advances, q

(* Two advances in a row, as when an update crosses into the next period.  *)
LEMMA AdvancesTransitive ==
  ASSUME totalStaked \in Nat, NEW p \in LoosePool, NEW q, NEW r,
         Advances(p, q), Advances(q, r)
  PROVE  Advances(p, r)
<1>1. q \in LoosePool /\ r \in LoosePool
  BY DEF Advances
<1>2. ASSUME NEW i \in Slots
      PROVE  /\ r.total[i] >= p.total[i]
             /\ r.total[i] + r.pending[i] + r.next[i] = p.total[i] + p.pending[i] + p.next[i]
             /\ Cum(r, i) >= Cum(p, i)
             /\ (Cum(r, i) - Cum(p, i)) * totalStaked <= (r.total[i] - p.total[i]) * W
  <2>1. /\ p.total[i] \in Nat /\ q.total[i] \in Nat /\ r.total[i] \in Nat
        /\ Cum(p, i) \in Nat /\ Cum(q, i) \in Nat /\ Cum(r, i) \in Nat /\ W \in Nat
    BY <1>1, PoolFacts, ConstantsType
  <2>2. /\ r.total[i] >= q.total[i] /\ q.total[i] >= p.total[i]
        /\ Cum(r, i) >= Cum(q, i) /\ Cum(q, i) >= Cum(p, i)
        /\ (Cum(q, i) - Cum(p, i)) * totalStaked <= (q.total[i] - p.total[i]) * W
        /\ (Cum(r, i) - Cum(q, i)) * totalStaked <= (r.total[i] - q.total[i]) * W
        /\ r.total[i] + r.pending[i] + r.next[i] = p.total[i] + p.pending[i] + p.next[i]
    BY DEF Advances
  <2> DEFINE x == Cum(q, i) - Cum(p, i)
             y == Cum(r, i) - Cum(q, i)
             a == q.total[i] - p.total[i]
             b == r.total[i] - q.total[i]
  <2>3. /\ x \in Int /\ y \in Int /\ a \in Int /\ b \in Int
        /\ Cum(r, i) - Cum(p, i) = x + y /\ r.total[i] - p.total[i] = a + b
    BY <2>1
  <2>4. x * totalStaked <= a * W /\ y * totalStaked <= b * W
    BY <2>2
  <2> HIDE DEF x, y, a, b
  <2>5. (x + y) * totalStaked = x * totalStaked + y * totalStaked
    BY <2>3
  <2>6. (a + b) * W = a * W + b * W
    BY <2>1, <2>3
  <2>7. (x + y) * totalStaked <= (a + b) * W
    BY <2>1, <2>3, <2>4, <2>5, <2>6
  <2> QED
    BY <2>1, <2>2, <2>3, <2>7
<1> QED
  BY <1>1, <1>2 DEF Advances

(* The last of a period releases everything that is pending.               *)
LEMMA EndOfPeriod ==
  ASSUME totalStaked \in Word \ {0}, NEW p \in LoosePool, p.duration # 0,
         \A i \in Slots \ Listed : p.pending[i] = 0
  PROVE  UpdateCurrent(p, p.duration).pending = ZeroRewards
<1> DEFINE q == UpdateCurrent(p, p.duration)
<1>1. p.duration \in Nat \ {0} /\ p.duration \in 0 .. p.duration
  <2>1. p.duration \in Nat
    BY ConstantsType DEF LoosePool
  <2> QED
    BY <2>1
<1>2. q \in LoosePool
  BY <1>1, UpdateCurrentType
<1>3. ASSUME NEW i \in Slots PROVE q.pending[i] = 0
  <2>1. q.pending[i] = p.pending[i] - Released(p, p.duration, i)
    BY <1>1, UpdateCurrentType
  <2>2. p.pending[i] \in Nat
    BY PoolFacts
  <2>3. Released(p, p.duration, i) = p.pending[i]
    BY <1>1, <2>2, DistributedBounds DEF Released
  <2> HIDE DEF q
  <2> QED
    BY <2>1, <2>2, <2>3
<1> HIDE DEF q
<1>4. q.pending \in [Slots -> Word]
  BY <1>2 DEF LoosePool, Rewards
<1>5. q.pending = ZeroRewards
  BY <1>3, <1>4 DEF ZeroRewards
<1> QED
  BY <1>5 DEF q

Scheduled(p) ==
  /\ p.duration = 0 => p.pending = ZeroRewards /\ p.nextDuration = 0
  /\ p.nextDuration = 0 => p.next = ZeroRewards

EmptySlot(p, i) ==
  p.total[i] = 0 /\ p.pending[i] = 0 /\ p.next[i] = 0 /\ Cum(p, i) = 0

(* update_global_state moves rewards forward and keeps the schedule whole, *)
(* whichever of its four courses it takes.                                 *)
LEMMA UpdatedAdvances ==
  ASSUME TypeOK, UnlistedEmpty, ScheduleConsistent
  PROVE  Advances(pool, Updated) /\ Scheduled(Updated)
<1>1. pool \in LoosePool /\ totalStaked \in Nat
  BY ConstantsType DEF TypeOK
<1>2. \A i \in Slots \ Listed : pool.pending[i] = 0 /\ pool.next[i] = 0
  BY DEF UnlistedEmpty
<1>3. Scheduled(pool)
  BY DEF ScheduleConsistent, Scheduled
<1>4. CASE Idle /\ Updated = pool
  BY <1>1, <1>3, <1>4, AdvancesReflexive
<1>5. ASSUME totalStaked \in Word \ {0}, pool.duration # 0,
             CurrentDt \in 0 .. pool.duration, Current \in LoosePool
      PROVE  /\ Advances(pool, Current) /\ Current.duration = pool.duration - CurrentDt
             /\ Current.nextDuration = pool.nextDuration /\ Current.next = pool.next
  BY <1>1, <1>5, UpdateCurrentAdvances, UpdateCurrentType DEF Current
<1>6. ASSUME totalStaked \in Word \ {0}, pool.duration # 0,
             CurrentDt = pool.duration, Current \in LoosePool
      PROVE  /\ Advances(pool, MoveToNext(Current))
             /\ MoveToNext(Current) \in LoosePool
             /\ MoveToNext(Current).duration = pool.nextDuration
             /\ MoveToNext(Current).nextDuration = 0
             /\ MoveToNext(Current).pending = pool.next
             /\ MoveToNext(Current).next = ZeroRewards
  <2>1. pool.duration \in Nat /\ CurrentDt \in 0 .. pool.duration
    BY <1>1, <1>6, ConstantsType DEF LoosePool
  <2>2. Current.pending = ZeroRewards
    BY <1>1, <1>2, <1>6, EndOfPeriod DEF Current
  <2>3. Advances(Current, MoveToNext(Current))
    BY <1>1, <1>6, <2>2, MoveToNextAdvances
  <2>4. Advances(pool, MoveToNext(Current))
    BY <1>1, <1>5, <1>6, <2>1, <2>3, AdvancesTransitive
  <2>5. Current.nextDuration = pool.nextDuration /\ Current.next = pool.next
    BY <1>5, <1>6, <2>1
  <2> QED
    BY <1>6, <2>4, <2>5, MoveToNextType
<1>7. CASE /\ totalStaked \in Word \ {0} /\ pool.duration # 0
           /\ CurrentDt \in 0 .. pool.duration /\ Current \in LoosePool
           /\ Current.duration # 0 /\ Updated = Current
  BY <1>3, <1>5, <1>7 DEF Scheduled
<1>8. CASE /\ totalStaked \in Word \ {0} /\ pool.duration # 0
           /\ CurrentDt = pool.duration /\ Current \in LoosePool
           /\ Updated = MoveToNext(Current)
  BY <1>3, <1>6, <1>8 DEF Scheduled
<1>9. CASE /\ totalStaked \in Word \ {0} /\ pool.duration # 0
           /\ CurrentDt = pool.duration /\ Current \in LoosePool
           /\ NextDt \in 0 .. MoveToNext(Current).duration
           /\ MoveToNext(Current).duration # 0
           /\ Updated = UpdateCurrent(MoveToNext(Current), NextDt)
  <2> DEFINE m == MoveToNext(Current)
  <2>1. /\ Advances(pool, m) /\ m \in LoosePool /\ m.nextDuration = 0
        /\ m.pending = pool.next /\ m.next = ZeroRewards
    BY <1>6, <1>9
  <2>2. NextDt \in 0 .. m.duration /\ m.duration # 0 /\ Updated = UpdateCurrent(m, NextDt)
    BY <1>9
  <2> HIDE DEF m
  <2>3. Advances(pool, Updated)
    BY <1>1, <1>9, <2>1, <2>2, UpdateCurrentAdvances, AdvancesTransitive
  <2>4. /\ Updated.duration = m.duration - NextDt
        /\ Updated.nextDuration = 0 /\ Updated.next = ZeroRewards
    BY <1>9, <2>1, <2>2, UpdateCurrentType
  <2>5. m.duration \in Nat
    BY <2>1, ConstantsType DEF LoosePool
  <2>6. Updated.duration = 0 => NextDt = m.duration
    BY <2>2, <2>4, <2>5
  <2>7. Updated.duration = 0 => Updated.pending = ZeroRewards
    BY <1>2, <1>9, <2>1, <2>2, <2>6, EndOfPeriod
  <2> QED
    BY <2>3, <2>4, <2>7 DEF Scheduled
<1> QED
  BY <1>4, <1>7, <1>8, <1>9, UpdatedCases

(* An update leaves the slots with no asset empty.                         *)
LEMMA UpdatedUnlisted ==
  ASSUME TypeOK, UnlistedEmpty, ScheduleConsistent, NEW i \in Slots \ Listed
  PROVE  EmptySlot(Updated, i)
<1>1. Advances(pool, Updated)
  BY UpdatedAdvances
<1>2. pool \in LoosePool /\ Updated \in LoosePool /\ totalStaked \in Nat
  BY <1>1, ConstantsType DEF TypeOK, Advances
<1>3. EmptySlot(pool, i)
  BY DEF UnlistedEmpty, EmptySlot
<1>4. /\ Updated.total[i] \in Nat /\ Updated.pending[i] \in Nat /\ Updated.next[i] \in Nat
      /\ Cum(Updated, i) \in Nat
  BY <1>2, PoolFacts
<1>5. /\ Updated.total[i] + Updated.pending[i] + Updated.next[i] = 0 + 0 + 0
      /\ (Cum(Updated, i) - 0) * totalStaked <= (Updated.total[i] - 0) * W
  BY <1>1, <1>3 DEF Advances, EmptySlot
<1>6. Updated.total[i] = 0 /\ Updated.pending[i] = 0 /\ Updated.next[i] = 0
  <2>1. \A a, b, c \in Nat : a + b + c = 0 + 0 + 0 => a = 0 /\ b = 0 /\ c = 0
    OBVIOUS
  <2> QED
    BY <1>4, <1>5, <2>1
<1>7. CASE totalStaked = 0
  BY <1>3, <1>7 DEF Updated
<1>8. CASE totalStaked # 0
  <2>1. W \in Nat
    BY ConstantsType
  <2> DEFINE x == Cum(Updated, i)
  <2>2. x \in Nat /\ x * totalStaked <= 0
    BY <1>4, <1>5, <1>6, <2>1
  <2> HIDE DEF x
  <2>3. x = 0
    <3>1. SUFFICES ASSUME x >= 1 PROVE FALSE
      BY <2>2
    <3>2. x * totalStaked >= 1
      BY <1>2, <1>8, <2>2, <3>1
    <3> QED
      BY <1>2, <2>2, <3>2
  <2> QED
    BY <1>6, <2>3 DEF EmptySlot, x
<1> QED
  BY <1>7, <1>8

-----------------------------------------------------------------------------
(* Stakes                                                                  *)

(* The figures of one slot of a user's state are natural numbers.          *)
LEMMA LocalFacts ==
  ASSUME NEW l \in Local, NEW i \in Slots
  PROVE  /\ l.staked \in Word /\ l.staked \in Nat /\ l.rpt[i] \in Nat
         /\ l.rptFrac[i] \in Word /\ l.rptFrac[i] \in Nat
         /\ l.accrued[i] \in Nat /\ l.claimed[i] \in Nat /\ Cum(l, i) \in Nat
<1>1. /\ l.staked \in Word /\ l.staked \in Nat /\ l.rpt[i] \in Nat
      /\ l.rptFrac[i] \in Word /\ l.rptFrac[i] \in Nat
      /\ l.accrued[i] \in Nat /\ l.claimed[i] \in Nat
  BY ConstantsType DEF Local, Rewards
<1> QED
  BY <1>1, ConstantsType DEF Cum

StakeSum(m) == SumFunctionOnSet([v \in Users |-> m[v].staked], Users)
StakersIn(m) == {v \in Users : m[v].staked # 0}

(* Replacing one user's state changes the sum and the number of the stakes *)
(* as SetStake does, which never over- or underflows on the way down.      *)
LEMMA StakeReplace ==
  ASSUME TypeOK, StakeAccounting, NEW u \in Users, NEW l \in Local, NEW m,
         m = [local EXCEPT ![u] = l]
  PROVE  /\ StakeSum(m) = totalStaked - local[u].staked + l.staked
         /\ local[u].staked <= totalStaked
         /\ Cardinality(StakersIn(m)) = StakersAfter(local[u].staked, l.staked)
         /\ local[u].staked # 0 => numStakers >= 1
<1> DEFINE f == [v \in Users |-> local[v].staked]
           g == [v \in Users |-> m[v].staked]
<1>1. f \in [Users -> Nat] /\ g \in [Users -> Nat] /\ IsFiniteSet(Users)
  <2>1. \A v \in Users : m[v] \in Local /\ local[v] \in Local
    BY DEF TypeOK
  <2>2. \A k \in Local : k.staked \in Nat
    BY ConstantsType DEF Local
  <2> QED
    BY <2>1, <2>2, FarmAssumption
<1>2. /\ f[u] = local[u].staked /\ g[u] = l.staked
      /\ \A v \in Users \ {u} : f[v] = g[v] /\ m[v] = local[v]
      /\ m[u] = l
  BY DEF TypeOK
<1>3. totalStaked = SumFunctionOnSet(f, Users) /\ StakeSum(m) = SumFunctionOnSet(g, Users)
  BY DEF StakeAccounting, StakeSum
<1> HIDE DEF f, g
<1>4. SumFunctionOnSet(g, Users) = SumFunctionOnSet(f, Users) - f[u] + g[u]
  BY <1>1, <1>2, SumChangeOne
<1>5. f[u] <= SumFunctionOnSet(f, Users)
  BY <1>1, SumMember
<1> DEFINE B == StakersIn(local)
           A == StakersIn(m)
<1>6. IsFiniteSet(B) /\ Cardinality(B) = numStakers /\ numStakers \in Nat
  <2>1. B \subseteq Users /\ B = Stakers
    BY DEF StakersIn, Stakers
  <2> QED
    BY <1>1, <2>1, FS_Subset, ConstantsType DEF StakeAccounting, TypeOK
<1>7. /\ u \in B <=> local[u].staked # 0
      /\ local[u].staked # 0 /\ l.staked = 0 => A = B \ {u}
      /\ local[u].staked = 0 /\ l.staked # 0 => A = B \union {u}
      /\ (local[u].staked = 0 <=> l.staked = 0) => A = B
  BY <1>2 DEF StakersIn
<1> HIDE DEF A, B
<1>8. Cardinality(A) = StakersAfter(local[u].staked, l.staked)
  <2>1. CASE local[u].staked # 0 /\ l.staked = 0
    <3>1. Cardinality(A) = Cardinality(B) - 1
      BY <1>6, <1>7, <2>1, FS_RemoveElement
    <3> QED
      BY <1>6, <2>1, <3>1 DEF StakersAfter
  <2>2. CASE local[u].staked = 0 /\ l.staked # 0
    <3>1. Cardinality(A) = Cardinality(B) + 1
      BY <1>6, <1>7, <2>2, FS_AddElement
    <3> QED
      BY <1>6, <2>2, <3>1 DEF StakersAfter
  <2>3. CASE local[u].staked = 0 <=> l.staked = 0
    BY <1>6, <1>7, <2>3 DEF StakersAfter
  <2> QED
    BY <2>1, <2>2, <2>3
<1>9. local[u].staked # 0 => numStakers >= 1
  <2>1. B # {} => Cardinality(B) # 0
    BY <1>6, FS_EmptySet
  <2> QED
    BY <1>6, <1>7, <2>1
<1> QED
  BY <1>2, <1>3, <1>4, <1>5, <1>8, <1>9 DEF A

(* A user can always go, as far as the counts of stakes are concerned.     *)
LEMMA LeavingFits ==
  ASSUME TypeOK, StakeAccounting, NEW u \in Users
  PROVE  StakeFits(local[u].staked, 0)
<1> DEFINE s == local[u].staked
<1>1. s \in Nat /\ totalStaked \in Word /\ numStakers \in Word
  BY ConstantsType DEF TypeOK, Local
<1>2. s <= totalStaked /\ (s # 0 => numStakers >= 1)
  <2>1. NoLocal \in Local
    BY ConstantsType
  <2> QED
    BY <2>1, StakeReplace
<1> HIDE DEF s
<1>3. /\ totalStaked - s \in Word /\ totalStaked - s + 0 \in Word
      /\ (s # 0 => numStakers - 1 \in Word)
  BY <1>1, <1>2, WAssumption DEF Word
<1>4. StakeFits(s, 0)
  BY <1>1, <1>3 DEF StakeFits, StakersAfter, Fits
<1> QED
  BY <1>4 DEF s

-----------------------------------------------------------------------------
(* Debts                                                                   *)

Debts(m, p, i) == [v \in Users |-> Owed(m[v], p, i)]
Debt(m, p, i) == SumFunctionOnSet(Debts(m, p, i), Users)

(* A debt is never negative, since a user's snapshot is never ahead, and   *)
(* is at least what has been settled.                                      *)
LEMMA OwedType ==
  ASSUME NEW l \in Local, NEW p \in LoosePool, NEW i \in Slots, Cum(l, i) <= Cum(p, i)
  PROVE  Owed(l, p, i) \in Nat /\ l.accrued[i] * W <= Owed(l, p, i)
<1> DEFINE a == l.accrued[i]
           s == l.staked
           d == Cum(p, i) - Cum(l, i)
<1>1. a \in Nat /\ s \in Nat /\ d \in Nat /\ W \in Nat
  BY LocalFacts, PoolFacts, ConstantsType
<1>2. Owed(l, p, i) = a * W + s * d
  BY DEF Owed
<1> HIDE DEF a, s, d
<1>3. a * W \in Nat /\ s * d \in Nat
  BY <1>1
<1>4. Owed(l, p, i) \in Nat /\ a * W <= Owed(l, p, i)
  BY <1>2, <1>3
<1> QED
  BY <1>4 DEF a

(* The debts to all users are natural numbers on any later pool.           *)
LEMMA DebtsType ==
  ASSUME TypeOK, SnapshotsBehind, NEW p \in LoosePool, NEW i \in Slots,
         Cum(p, i) >= Cum(pool, i)
  PROVE  /\ Debts(local, p, i) \in [Users -> Nat] /\ Debt(local, p, i) \in Nat
         /\ \A v \in Users : /\ local[v] \in Local
                             /\ Cum(local[v], i) <= Cum(p, i)
                             /\ Debts(local, p, i)[v] = Owed(local[v], p, i)
<1>1. ASSUME NEW v \in Users
      PROVE  local[v] \in Local /\ Cum(local[v], i) <= Cum(p, i)
  <2>1. local[v] \in Local /\ pool \in LoosePool
    BY ConstantsType DEF TypeOK
  <2>2. /\ Cum(local[v], i) \in Nat /\ Cum(pool, i) \in Nat /\ Cum(p, i) \in Nat
        /\ Cum(local[v], i) <= Cum(pool, i)
    BY <2>1, LocalFacts, PoolFacts DEF SnapshotsBehind
  <2> QED
    BY <2>1, <2>2
<1>2. \A v \in Users : Owed(local[v], p, i) \in Nat
  BY <1>1, OwedType
<1>3. Debts(local, p, i) \in [Users -> Nat]
  BY <1>2 DEF Debts
<1>4. Debt(local, p, i) \in Nat
  BY <1>3, SumType, FarmAssumption DEF Debt
<1> QED
  BY <1>1, <1>3, <1>4 DEF Debts

(* A growth of the reward per token costs its product with the stakes,     *)
(* which is what TotalStaked says they are.                                *)
LEMMA DebtGrows ==
  ASSUME TypeOK, SnapshotsBehind, StakeAccounting, NEW q \in LoosePool, NEW i \in Slots,
         Cum(q, i) >= Cum(pool, i)
  PROVE  Debt(local, q, i) = Debt(local, pool, i)
                               + (Cum(q, i) - Cum(pool, i)) * totalStaked
<1> DEFINE f == Debts(local, pool, i)
           g == Debts(local, q, i)
           h == [v \in Users |-> local[v].staked]
           c == Cum(q, i) - Cum(pool, i)
<1>1. /\ pool \in LoosePool /\ Cum(pool, i) \in Nat /\ Cum(q, i) \in Nat
      /\ Cum(pool, i) >= Cum(pool, i) /\ c \in Nat
  BY ConstantsType, PoolFacts DEF TypeOK
<1>2. f \in [Users -> Nat] /\ g \in [Users -> Nat]
  BY <1>1, DebtsType
<1>3. h \in [Users -> Nat]
  BY LocalFacts, ConstantsType DEF TypeOK, Local
<1>4. ASSUME NEW v \in Users PROVE g[v] = f[v] + c * h[v]
  <2> DEFINE a == local[v].accrued[i] * W
             s == local[v].staked
             x == Cum(local[v], i)
             y == Cum(pool, i)
             z == Cum(q, i)
  <2>1. f[v] = a + s * (y - x) /\ g[v] = a + s * (z - x) /\ h[v] = s
    BY DEF Debts, Owed
  <2>2. local[v].accrued[i] \in Nat /\ s \in Nat /\ x \in Nat /\ W \in Nat
    BY LocalFacts, ConstantsType DEF TypeOK
  <2>3. a \in Nat
    BY <2>2
  <2>4. c = z - y /\ y \in Nat /\ z \in Nat
    BY <1>1
  <2> HIDE DEF a, s, x, y, z, c, f, g, h
  <2>5. s * (z - x) = s * (y - x) + (z - y) * s
    BY <2>2, <2>4
  <2>6. s * (z - x) \in Int /\ s * (y - x) \in Int /\ (z - y) * s \in Int
    BY <2>2, <2>4
  <2> QED
    BY <2>1, <2>3, <2>4, <2>5, <2>6
<1> HIDE DEF f, g, h, c
<1>5. SumFunctionOnSet(g, Users) = SumFunctionOnSet(f, Users) + c * SumFunctionOnSet(h, Users)
  BY <1>1, <1>2, <1>3, <1>4, FarmAssumption, SumLinear
<1>6. SumFunctionOnSet(h, Users) = totalStaked
  BY DEF StakeAccounting, h
<1> QED
  BY <1>5, <1>6 DEF Debt, f, g, c

(* Replacing one user's state changes the debt by the difference.          *)
LEMMA DebtReplace ==
  ASSUME TypeOK, SnapshotsBehind, NEW p \in LoosePool, NEW i \in Slots,
         Cum(p, i) >= Cum(pool, i), NEW u \in Users, NEW l \in Local,
         Owed(l, p, i) \in Nat, NEW m, m = [local EXCEPT ![u] = l]
  PROVE  Debt(m, p, i) = Debt(local, p, i) - Owed(local[u], p, i) + Owed(l, p, i)
<1> DEFINE f == Debts(local, p, i)
           g == Debts(m, p, i)
<1>1. f \in [Users -> Nat] /\ f[u] = Owed(local[u], p, i)
  BY DebtsType
<1>2. m[u] = l /\ \A v \in Users \ {u} : m[v] = local[v]
  BY DEF TypeOK
<1>3. g[u] = Owed(l, p, i) /\ \A v \in Users \ {u} : f[v] = g[v]
  BY <1>2 DEF Debts
<1>4. g \in [Users -> Nat]
  <2>1. \A v \in Users : g[v] \in Nat
    <3> HIDE DEF f, g
    <3> QED
      BY <1>1, <1>3
  <2> QED
    BY <2>1 DEF Debts
<1> HIDE DEF f, g
<1>5. SumFunctionOnSet(g, Users) = SumFunctionOnSet(f, Users) - f[u] + g[u]
  BY <1>1, <1>3, <1>4, FarmAssumption, SumChangeOne
<1> QED
  BY <1>1, <1>3, <1>5 DEF Debt, f, g

(* A figure is covered in slot i when the released and unclaimed rewards   *)
(* are worth it.                                                           *)
Covered(p, claims, m) ==
  \A i \in Slots : (p.total[i] - claims[i]) * W >= Debt(m, p, i)

(* Solvent, with the state made explicit.                                  *)
LEMMA SolventIsCovered == Solvent <=> Covered(pool, claimedRewards, local)
BY DEF Solvent, Covered, Liability, Debt, Debts

(* What has been settled for a user has been released and not claimed.     *)
LEMMA AccruedIsCovered ==
  ASSUME TypeOK, SnapshotsBehind, Solvent, NEW u \in Users, NEW i \in Slots
  PROVE  local[u].accrued[i] + claimedRewards[i] <= pool.total[i]
<1> DEFINE a == local[u].accrued[i]
           t == pool.total[i]
           c == claimedRewards[i]
           o == Owed(local[u], pool, i)
           d == Debt(local, pool, i)
<1>1. local[u] \in Local /\ pool \in LoosePool /\ Cum(pool, i) \in Nat
  BY ConstantsType, PoolFacts DEF TypeOK
<1>2. a \in Nat /\ t \in Nat /\ c \in Nat /\ W \in Nat \ {0}
  BY <1>1, LocalFacts, PoolFacts, ConstantsType DEF TypeOK, Rewards
<1>3. Cum(pool, i) >= Cum(pool, i)
  BY <1>1
<1>4. Debts(local, pool, i) \in [Users -> Nat] /\ Debts(local, pool, i)[u] = o /\ d \in Nat
  BY <1>1, <1>3, DebtsType
<1>5. a * W <= o /\ o \in Nat
  BY <1>1, OwedType DEF SnapshotsBehind
<1>6. o <= d
  BY <1>4, FarmAssumption, SumMember DEF Debt
<1>7. d <= (t - c) * W
  BY SolventIsCovered DEF Covered
<1> HIDE DEF a, t, c, o, d
<1>8. a * W <= (t - c) * W
  BY <1>2, <1>4, <1>5, <1>6, <1>7
<1>9. a <= t - c
  <2>1. SUFFICES ASSUME t - c <= a - 1 PROVE FALSE
    BY <1>2
  <2>2. (t - c) * W <= (a - 1) * W
    BY <1>2, <2>1
  <2>3. (a - 1) * W = a * W - W
    BY <1>2
  <2>4. a * W \in Nat /\ (t - c) * W \in Int
    BY <1>2
  <2> QED
    BY <1>2, <1>8, <2>2, <2>3, <2>4
<1>10. a + c <= t
  BY <1>2, <1>9
<1> QED
  BY <1>10 DEF a, c, t

(* exit_farm never panics: its subtractions are covered.                   *)
LEMMA LeavingIsOpen ==
  ASSUME TypeOK, SnapshotsBehind, StakeAccounting, Solvent, NEW u \in Users
  PROVE  ExitFits(local[u])
<1>1. \A i \in Slots : pool.total[i] >= local[u].accrued[i]
  <2> TAKE i \in Slots
  <2>1. /\ local[u].accrued[i] \in Nat /\ claimedRewards[i] \in Nat
        /\ pool.total[i] \in Nat
    BY LocalFacts, PoolFacts, ConstantsType DEF TypeOK, Rewards
  <2> QED
    BY <2>1, AccruedIsCovered
<1> QED
  BY <1>1, LeavingFits DEF ExitFits
=============================================================================
