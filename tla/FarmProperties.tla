--------------------------- MODULE FarmProperties ---------------------------
(***************************************************************************)
(* What the farm contract promises its stakers and its admin.              *)
(***************************************************************************)
EXTENDS Farm

(* A reward per token as one number, in W-ths of a reward token.           *)
Cum(x, i) == x.rpt[i] * W + x.rptFrac[i]

(* What the contract owes a user in slot i were the pool p, in W-ths of a  *)
(* token: what it has settled and what its stake has earned since.         *)
Owed(l, p, i) == l.accrued[i] * W + l.staked * (Cum(p, i) - Cum(l, i))

Liability(i) == SumFunctionOnSet([u \in Users |-> Owed(local[u], pool, i)], Users)

Stakers == {u \in Users : local[u].staked # 0}

(* TotalStaked is the sum of the stakes the users were last seen with, and *)
(* NumStakers their number, although five methods update the two sides.    *)
StakeAccounting ==
  /\ totalStaked = SumFunctionOnSet([u \in Users |-> local[u].staked], Users)
  /\ numStakers = Cardinality(Stakers)

(* The rewards released and not claimed cover everything owed to all users *)
(* together, so that claims in any order are paid in full.                 *)
Solvent ==
  \A i \in Slots : (pool.total[i] - claimedRewards[i]) * W >= Liability(i)

(* The farm's account holds all rewards released and not claimed, pending, *)
(* and queued.  For Algo this is what assert_algo_balance_is_sufficient is *)
(* about: opt-ins to further assets never use up Algo rewards.             *)
HoldingsCoverLiabilities ==
  \A i \in Listed : holding[rewardAssets[i]] + claimedRewards[i]
                      >= pool.total[i] + pool.pending[i] + pool.next[i]

(* No reward is without a period to release it in: deposit_rewards, which  *)
(* overwrites the arrays, never overwrites a reward.                       *)
ScheduleConsistent ==
  /\ pool.duration = 0 => pool.pending = ZeroRewards /\ pool.nextDuration = 0
  /\ pool.nextDuration = 0 => pool.next = ZeroRewards

(* The arithmetic of update_global_state and update_state never panics:    *)
(* rewards keep flowing, and unstaking, which calls update_state, works.   *)
UpdatesNeverPanic ==
  /\ UpdateFits
  /\ \A u \in optedIn :
       /\ SettleFits(Updated, local[u])
       /\ \A balance \in Balances : StakeFits(local[u].staked, balance)

(* Whatever has happened before, a user can claim everything settled, and  *)
(* leave: exit_farm and claim_rewards never panic for lack of cover.       *)
ExitAlwaysOpen ==
  \A u \in optedIn :
    /\ ExitFits(local[u])
    /\ \A i \in Listed : /\ holding[rewardAssets[i]] >= local[u].accrued[i]
                         /\ Fits(claimedRewards[i] + local[u].accrued[i])
                         /\ Fits(local[u].claimed[i] + local[u].accrued[i])

-----------------------------------------------------------------------------
(* What u has earned in slot i since it opted in, in whole tokens, were    *)
(* the pool p.                                                             *)
Earned(l, p, i) == l.claimed[i] + Owed(l, p, i) \div W

(* Whatever anyone does, a user who stays in the farm never loses earned   *)
(* rewards, and what a step releases is shared by the stakes before it:    *)
(* a stake noticed by update_state earns nothing for the time before.      *)
EarningsFollowStake ==
  [][\A u \in optedIn \intersect optedIn', i \in Slots :
       /\ Earned(local'[u], pool', i) = Earned(local[u], pool', i)
       /\ Earned(local[u], pool', i) >= Earned(local[u], pool, i)]_vars

(* The contract keeps RewardStream's promise, although it lets time add up *)
(* in `elapsed' until it is called: deposits are released evenly, one after*)
(* the other, no tick is lost, counted twice or in advance, and nothing is *)
(* paid but what was released.                                             *)
Stream == INSTANCE RewardStream WITH
  stakers <- Stakers,
  passed  <- IF Stakers = {} THEN 0 ELSE elapsed,
  time    <- <<pool.duration, pool.nextDuration>>,
  rewards <- <<pool.pending, pool.next>>,
  payable <- [i \in Slots |-> pool.total[i] - claimedRewards[i]]

StreamsRewards == Stream!Spec

(* While somebody stakes, queued rewards get their period, and the pending *)
(* ones are released: the schedule cannot get stuck.                       *)
QueuedRewardsStart ==
  pool.nextDuration # 0 ~> pool.nextDuration = 0 \/ totalStaked = 0

PendingRewardsAreReleased ==
  \A i \in Slots : pool.pending[i] # 0 ~> pool.pending[i] = 0 \/ totalStaked = 0

=============================================================================
