-------------------------------- MODULE Farm --------------------------------
(***************************************************************************)
(* The farm contract of src/farm/farm.py: one action per method call that  *)
(* the ledger accepts.  A call that fails an assertion, or in which an AVM *)
(* operation over- or underflows, is rejected with its whole group and     *)
(* changes nothing, so each is a conjunct of the action's guard.           *)
(*                                                                         *)
(* The users' escrows are the environment here: update_state may find any  *)
(* balance in one.  Module PactFarm puts the real escrows in their place.  *)
(***************************************************************************)
EXTENDS RPTCalculator, Sequences, FiniteSets, Functions, SequencesExt

CONSTANTS Users,            \* accounts that may opt in
          Accounts,         \* accounts that may call the admin's methods
          Assets,           \* reward assets; Algo is one of them
          Algo,             \* asset id 0: the ledger's own currency
          MaxFarmedAssets,  \* MAX_FARMED_ASSETS, 7 in the code
          OptInCost,        \* min balance an asset opt-in adds to the farm
          Balances,         \* what update_state may find in an escrow
          MaxElapsed,       \* bound on the time between two updates
          Durations,        \* durations deposit_rewards may be called with
          Amounts,          \* amounts of one transfer of a reward asset
          Supply            \* tokens of each reward asset there are

ASSUME FarmAssumption ==
  /\ IsFiniteSet(Users) /\ Algo \in Assets
  /\ MaxFarmedAssets \in Nat \ {0}
  /\ OptInCost \in Nat /\ MaxElapsed \in Nat
  /\ Balances \subseteq Word
  /\ Durations \subseteq Word \ {0}
  /\ Amounts \subseteq Nat /\ Supply \in Nat

Slots == 1 .. MaxFarmedAssets   \* an index of the reward arrays, plus one
Rewards == [Slots -> Word]
ZeroRewards == [i \in Slots |-> 0]   \* DEFAULT_ZERO_ARRAY

VARIABLES
  pool,          \* the global reward state, see Pool
  totalStaked, numStakers, claimedRewards,
  rewardAssets,  \* RewardAssetIDs
  admin,
  elapsed,       \* latest_timestamp - UpdatedAt
  optedIn,       \* users with local state
  local,         \* the local state, see Local
  holding,       \* reward assets in the farm's account, Algo above MinBalance
  supply         \* reward assets outside

vars == <<pool, totalStaked, numStakers, claimedRewards, rewardAssets, admin,
          elapsed, optedIn, local, holding, supply>>

Pool == [duration : Word, nextDuration : Word, rpt : Rewards,
         rptFrac : Rewards, pending : Rewards, next : Rewards, total : Rewards]

Local == [staked : Word, rpt : Rewards, rptFrac : Rewards, accrued : Rewards,
          claimed : Rewards]

NoLocal == [staked |-> 0, rpt |-> ZeroRewards, rptFrac |-> ZeroRewards,
            accrued |-> ZeroRewards, claimed |-> ZeroRewards]

Listed == 1 .. Len(rewardAssets)

TypeOK ==
  /\ pool \in Pool
  /\ totalStaked \in Word /\ numStakers \in Word
  /\ claimedRewards \in Rewards
  /\ rewardAssets \in Seq(Assets) /\ Len(rewardAssets) <= MaxFarmedAssets
  /\ admin \in Accounts
  /\ elapsed \in 0 .. MaxElapsed
  /\ optedIn \subseteq Users
  /\ local \in [Users -> Local]
  /\ holding \in [Assets -> Nat] /\ supply \in [Assets -> Nat]

(* create: initialize_application_state stores the defaults.               *)
Init ==
  /\ pool = [duration |-> 0, nextDuration |-> 0, rpt |-> ZeroRewards,
             rptFrac |-> ZeroRewards, pending |-> ZeroRewards,
             next |-> ZeroRewards, total |-> ZeroRewards]
  /\ totalStaked = 0 /\ numStakers = 0 /\ claimedRewards = ZeroRewards
  /\ rewardAssets = <<>>
  /\ admin \in Accounts
  /\ elapsed = 0
  /\ optedIn = {} /\ local = [u \in Users |-> NoLocal]
  /\ holding = [a \in Assets |-> 0] /\ supply = [a \in Assets |-> Supply]

(* The ledger's clock.                                                     *)
Tick ==
  /\ elapsed < MaxElapsed
  /\ elapsed' = elapsed + 1
  /\ UNCHANGED <<pool, totalStaked, numStakers, claimedRewards, rewardAssets,
                 admin, optedIn, local, holding, supply>>

-----------------------------------------------------------------------------
(* update_global_state                                                     *)

(* update_global_state_current: what dt time units of the current period   *)
(* release in slot i, and the pool after that.                             *)
Released(p, dt, i) ==
  IF i \in Listed THEN DistributedReward(dt, p.duration, p.pending[i]) ELSE 0

UpdateCurrentKeepingDuration(p, dt) ==                        \* mutant
  [p EXCEPT !.pending = [i \in Slots |-> @[i] - Released(p, dt, i)],
            !.total   = [i \in Slots |-> @[i] + Released(p, dt, i)]]

UpdateCurrent(p, dt) ==
  [p EXCEPT
     !.duration = @ - dt,
     !.rpt      = [i \in Slots |->
                     NewRpt(@[i], p.rptFrac[i], Released(p, dt, i), totalStaked)],
     !.rptFrac  = [i \in Slots |-> NewRptFrac(@[i], Released(p, dt, i), totalStaked)],
     !.pending  = [i \in Slots |-> @[i] - Released(p, dt, i)],
     !.total    = [i \in Slots |-> @[i] + Released(p, dt, i)]]

MoveToNextKeepingNext(p) ==                                   \* mutant
  [p EXCEPT !.pending = p.next, !.duration = p.nextDuration,
            !.nextDuration = 0]

MoveToNext(p) ==
  [p EXCEPT !.pending = p.next, !.duration = p.nextDuration,
            !.next = ZeroRewards, !.nextDuration = 0]

Least(m, n) == IF m <= n THEN m ELSE n
CurrentDt == Least(pool.duration, elapsed)
NextDtFromStart == Least(pool.nextDuration, elapsed)          \* mutant
NextDt    == Least(pool.nextDuration, elapsed - CurrentDt)

UpdatedWithoutRest ==                                         \* mutant
  LET current == UpdateCurrent(pool, CurrentDt)
  IN IF totalStaked = 0 \/ pool.duration = 0 THEN pool
     ELSE IF current.duration = 0 THEN MoveToNext(current) ELSE current

(* The pool after update_global_state.                                     *)
Updated ==
  LET current == UpdateCurrent(pool, CurrentDt)
      moved   == IF current.duration = 0 THEN MoveToNext(current) ELSE current
  IN IF totalStaked = 0 \/ pool.duration = 0 THEN pool
     ELSE IF current.duration = 0 /\ NextDt # 0
          THEN UpdateCurrent(moved, NextDt) ELSE moved

(* No addition of the update overflows.  The figures only grow during it,  *)
(* so the last ones tell.                                                  *)
UpdateFits ==
  \A i \in Slots : Fits(Updated.rpt[i]) /\ Fits(Updated.total[i])

UpdateGlobalState ==
  /\ UpdateFits
  /\ pool' = Updated
  /\ elapsed' = 0
  /\ UNCHANGED <<totalStaked, numStakers, claimedRewards, rewardAssets, admin,
                 optedIn, local, holding, supply>>

-----------------------------------------------------------------------------
(* update_local_state, and exit_farm which undoes it                       *)

(* The arithmetic of UserRewardCalculator.run in slot i, on the pool p.    *)
Settled(p, l, i) ==
  AccruedReward(p.rpt[i], p.rptFrac[i], l.rpt[i], l.rptFrac[i], l.staked)

SettleFits(p, l) ==
  \A i \in Listed :
    /\ UserRptDelta(p.rpt[i], p.rptFrac[i], l.rpt[i], l.rptFrac[i]) >= 0
    /\ Fits(Settled(p, l, i)) /\ Fits(l.accrued[i] + Settled(p, l, i))

(* The rewards of the time since the last call are for the old stake.      *)
UpdateLocalAtNewStake(p, l, newStake) ==                      \* mutant
  [l EXCEPT !.staked = newStake, !.rpt = p.rpt, !.rptFrac = p.rptFrac,
            !.accrued = [i \in Slots |->
                           @[i] + Settled(p, [l EXCEPT !.staked = newStake], i)]]

UpdateLocalKeepingRpt(p, l, newStake) ==                      \* mutant
  [l EXCEPT !.staked = newStake,
            !.accrued = [i \in Slots |-> @[i] + Settled(p, l, i)]]

UpdateLocal(p, l, newStake) ==
  [l EXCEPT !.staked = newStake, !.rpt = p.rpt, !.rptFrac = p.rptFrac,
            !.accrued = [i \in Slots |-> IF i \in Listed
                                         THEN @[i] + Settled(p, l, i) ELSE @[i]]]

(* update_number_of_stakers counts the users whose stake is not zero.      *)
StakersAfterAnyExit(old, new) ==                              \* mutant
  IF new = 0 THEN numStakers - 1
  ELSE IF old = 0 THEN numStakers + 1 ELSE numStakers

StakersAfter(old, new) ==
  IF old # 0 /\ new = 0 THEN numStakers - 1
  ELSE IF old = 0 /\ new # 0 THEN numStakers + 1
  ELSE numStakers

StakeFits(old, new) ==
  /\ Fits(totalStaked - old) /\ Fits(totalStaked - old + new)
  /\ Fits(StakersAfter(old, new))

SetStakeKeepingOld(old, new) ==                               \* mutant
  /\ totalStaked' = totalStaked + new
  /\ numStakers' = StakersAfter(old, new)

SetStake(old, new) ==
  /\ totalStaked' = totalStaked - old + new
  /\ numStakers' = StakersAfter(old, new)

(* update_state, by anyone, for the escrow of u: what counts is the balance*)
(* the escrow holds, and nothing once it has been rekeyed.                 *)
UpdateState(u, balance, rekeyed) ==
  LET newStake == IF rekeyed THEN 0 ELSE balance
  IN /\ u \in optedIn
     /\ UpdateFits /\ SettleFits(Updated, local[u])
     /\ StakeFits(local[u].staked, newStake)
     /\ pool' = Updated /\ elapsed' = 0
     /\ SetStake(local[u].staked, newStake)
     /\ local' = [local EXCEPT ![u] = UpdateLocal(Updated, @, newStake)]
     /\ UNCHANGED <<claimedRewards, rewardAssets, admin, optedIn, holding, supply>>

(* opt_in: initialize_account_state; what the escrow must be is checked in *)
(* PactFarm.                                                               *)
OptIn(u) ==
  /\ u \notin optedIn
  /\ optedIn' = optedIn \union {u}
  /\ local' = [local EXCEPT ![u] = NoLocal]
  /\ UNCHANGED <<pool, totalStaked, numStakers, claimedRewards, rewardAssets,
                 admin, elapsed, holding, supply>>

ExitFits(l) ==
  /\ StakeFits(l.staked, 0)
  /\ \A i \in Slots : pool.total[i] >= l.accrued[i]

(* exit_farm: neither the pool nor the user is brought up to date, and all *)
(* slots are released, not only the listed ones.                           *)
ExitFarmTakingClaims(l) ==                                    \* mutant
  /\ SetStake(l.staked, 0)
  /\ pool' = [pool EXCEPT !.total =
                 [i \in Slots |-> @[i] - l.accrued[i] - l.claimed[i]]]

ExitFarm(l) ==
  /\ SetStake(l.staked, 0)
  /\ pool' = [pool EXCEPT !.total = [i \in Slots |-> @[i] - l.accrued[i]]]

Leave(u) ==
  /\ optedIn' = optedIn \ {u}
  /\ local' = [local EXCEPT ![u] = NoLocal]

(* clear_state: the ledger deletes the local state even when the program   *)
(* panics, and then keeps nothing of what the program did.                 *)
ClearState(u) ==
  /\ u \in optedIn
  /\ IF ExitFits(local[u]) THEN ExitFarm(local[u])
                           ELSE UNCHANGED <<pool, totalStaked, numStakers>>
  /\ Leave(u)
  /\ UNCHANGED <<claimedRewards, rewardAssets, admin, elapsed, holding, supply>>

CloseOut(u) ==
  /\ u \in optedIn
  /\ local[u].staked = 0 /\ local[u].accrued = ZeroRewards
  /\ ExitFits(local[u]) /\ ExitFarm(local[u])
  /\ Leave(u)
  /\ UNCHANGED <<claimedRewards, rewardAssets, admin, elapsed, holding, supply>>

-----------------------------------------------------------------------------
(* Rewards enter and leave the farm's account                              *)

(* What the vector of amounts f, one per slot, is in asset a.              *)
InAssetSkippingLast(f, a) ==                                  \* mutant
  IF \E i \in Listed : rewardAssets[i] = a /\ i < Len(rewardAssets)
  THEN f[CHOOSE i \in Listed : rewardAssets[i] = a] ELSE 0

InAsset(f, a) ==
  IF \E i \in Listed : rewardAssets[i] = a
  THEN f[CHOOSE i \in Listed : rewardAssets[i] = a] ELSE 0

(* claim_rewards, by anyone, for u: ids is the set of the indices listed in*)
(* the call.  An index given twice pays nothing the second time.           *)
ClaimRewards(u, ids) ==
  LET paid == [i \in Slots |-> IF i \in ids THEN local[u].accrued[i] ELSE 0]
  IN /\ u \in optedIn /\ ids \subseteq Listed
     /\ \A i \in ids : holding[rewardAssets[i]] >= paid[i]
     /\ \A i \in ids : /\ Fits(claimedRewards[i] + paid[i])
                       /\ Fits(local[u].claimed[i] + paid[i])
     /\ holding' = [a \in Assets |-> holding[a] - InAsset(paid, a)]
     /\ claimedRewards' = [i \in Slots |-> claimedRewards[i] + paid[i]]
     /\ local' = [local EXCEPT
                    ![u].accrued = [i \in Slots |-> @[i] - paid[i]],
                    ![u].claimed = [i \in Slots |-> @[i] + paid[i]]]
     /\ UNCHANGED <<pool, totalStaked, numStakers, rewardAssets, admin, elapsed,
                    optedIn, supply>>

(* deposit_rewards, with the transfers validated before it in its group.   *)
(* A slot listed twice counts its last transfer only, although the farm    *)
(* has received both: counted[i] of sent[i] tokens become rewards.         *)
DepositRewards(caller, sent, counted, duration) ==
  /\ caller = admin
  /\ elapsed = 0              \* assert_farm_updated_in_group
  /\ pool.nextDuration = 0
  /\ rewardAssets # <<>>      \* no index exists, and reward_ids is not empty
  /\ duration # 0
  /\ \A i \in Slots : /\ counted[i] <= sent[i] /\ Fits(counted[i])
                      /\ i \notin Listed => sent[i] = 0
  /\ \A a \in Assets : InAsset(sent, a) <= supply[a]
  /\ pool' = IF pool.duration = 0
             THEN [pool EXCEPT !.pending = counted, !.duration = duration]
             ELSE [pool EXCEPT !.next = counted, !.nextDuration = duration]
  /\ holding' = [a \in Assets |-> holding[a] + InAsset(sent, a)]
  /\ supply'  = [a \in Assets |-> supply[a] - InAsset(sent, a)]
  /\ UNCHANGED <<totalStaked, numStakers, claimedRewards, rewardAssets, admin,
                 elapsed, optedIn, local>>

(* Any other transfer to the farm's account, of Algos or of an asset the   *)
(* farm has opted in to.                                                   *)
FundFarm(a, amount) ==
  /\ a = Algo \/ \E i \in Listed : rewardAssets[i] = a
  /\ amount <= supply[a]
  /\ holding' = [holding EXCEPT ![a] = @ + amount]
  /\ supply'  = [supply EXCEPT ![a] = @ - amount]
  /\ UNCHANGED <<pool, totalStaked, numStakers, claimedRewards, rewardAssets,
                 admin, elapsed, optedIn, local>>

-----------------------------------------------------------------------------
(* The admin's methods                                                     *)

(* assert_algo_balance_is_sufficient, for the asset list assets.           *)
AlgoSufficesForReleased(assets, algos) ==                     \* mutant
  \A i \in DOMAIN assets : assets[i] = Algo =>
    algos >= pool.total[i] + pool.pending[i] - claimedRewards[i]

AlgoSuffices(assets, algos) ==
  \A i \in DOMAIN assets : assets[i] = Algo =>
    LET required == pool.total[i] + pool.pending[i] + pool.next[i]
    IN Fits(required) /\ required >= claimedRewards[i]
         /\ algos >= required - claimedRewards[i]

AddRewardAsset(caller, a) ==
  LET cost == IF a = Algo THEN 0 ELSE OptInCost
  IN /\ caller = admin
     /\ Len(rewardAssets) < MaxFarmedAssets
     /\ \A i \in Listed : rewardAssets[i] # a
     /\ holding[Algo] >= cost
     /\ AlgoSuffices(Append(rewardAssets, a), holding[Algo] - cost)
     /\ rewardAssets' = Append(rewardAssets, a)
     /\ holding' = [holding EXCEPT ![Algo] = @ - cost]
     /\ UNCHANGED <<pool, totalStaked, numStakers, claimedRewards, admin,
                    elapsed, optedIn, local, supply>>

ChangeAdmin(caller, newAdmin) ==
  /\ caller = admin
  /\ admin' = newAdmin
  /\ UNCHANGED <<pool, totalStaked, numStakers, claimedRewards, rewardAssets,
                 elapsed, optedIn, local, holding, supply>>

-----------------------------------------------------------------------------
StakerNext ==
  \E u \in Users :
    \/ OptIn(u) \/ ClearState(u) \/ CloseOut(u)
    \/ \E balance \in Balances, rekeyed \in BOOLEAN :
         UpdateState(u, balance, rekeyed)
    \/ \E ids \in SUBSET Listed : ClaimRewards(u, ids)

AdminNext ==
  \E caller \in Accounts :
    \/ \E sent, counted \in [Slots -> Amounts], d \in Durations :
         DepositRewards(caller, sent, counted, d)
    \/ \E a \in Assets : AddRewardAsset(caller, a)
    \/ \E newAdmin \in Accounts : ChangeAdmin(caller, newAdmin)

Next ==
  \/ Tick \/ UpdateGlobalState \/ StakerNext \/ AdminNext
  \/ \E a \in Assets, amount \in Amounts : FundFarm(a, amount)

Spec == Init /\ [][Next]_vars

(* Time goes on, and somebody brings the farm up to date now and then:     *)
(* anyone may, and every update_state does it too.                         *)
Fairness == WF_vars(Tick) /\ WF_vars(UpdateGlobalState)
=============================================================================
