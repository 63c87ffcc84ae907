----------------------------- MODULE RPTStream -----------------------------
(***************************************************************************)
(* The two calculators of rpt_calculator.py used over a sequence of        *)
(* distributions, as update_global_state_current and update_local_state    *)
(* use them.  Two users hold the same stake in a farm whose total stake    *)
(* does not change: the eager one settles whenever it likes, the patient   *)
(* one keeps its first snapshot.                                           *)
(***************************************************************************)
EXTENDS RPTCalculator

CONSTANTS MaxStake,          \* bound on the tokens staked
          MaxReward,         \* bound on the reward of one distribution
          MaxDistributions   \* bound on the number of distributions

ASSUME RPTStreamAssumption ==
  MaxStake \in Nat /\ MaxReward \in Nat /\ MaxDistributions \in Nat

VARIABLES staked, totalStaked,   \* one user's stake, and the farm's
          rpt, rptFrac,          \* the pool's reward per token
          startFrac,             \* the patient user's snapshot is (0, startFrac)
          snapRpt, snapRptFrac,  \* the eager user's snapshot
          settled,               \* what the eager user has settled
          distributed, rounds    \* rewards distributed, and in how many calls

vars == <<staked, totalStaked, rpt, rptFrac, startFrac, snapRpt, snapRptFrac,
          settled, distributed, rounds>>

(* Both users join when the fraction is at one end of its range or the     *)
(* other, so that carries and borrows occur early.                         *)
Init ==
  /\ totalStaked \in 1 .. MaxStake /\ staked \in 0 .. totalStaked
  /\ startFrac \in {0, W - 1}
  /\ rpt = 0 /\ rptFrac = startFrac
  /\ snapRpt = 0 /\ snapRptFrac = startFrac /\ settled = 0
  /\ distributed = 0 /\ rounds = 0

Distribute(reward) ==
  /\ rounds < MaxDistributions
  /\ Fits(NewRpt(rpt, rptFrac, reward, totalStaked))
  /\ rpt' = NewRpt(rpt, rptFrac, reward, totalStaked)
  /\ rptFrac' = NewRptFrac(rptFrac, reward, totalStaked)
  /\ distributed' = distributed + reward
  /\ rounds' = rounds + 1
  /\ UNCHANGED <<staked, totalStaked, startFrac, snapRpt, snapRptFrac, settled>>

Accruing == AccruedReward(rpt, rptFrac, snapRpt, snapRptFrac, staked)

Settle ==
  /\ Fits(settled + Accruing)
  /\ settled' = settled + Accruing
  /\ snapRpt' = rpt /\ snapRptFrac' = rptFrac
  /\ UNCHANGED <<staked, totalStaked, rpt, rptFrac, startFrac, distributed,
                 rounds>>

Next == Settle \/ \E reward \in 0 .. MaxReward : Distribute(reward)

Spec == Init /\ [][Next]_vars

-----------------------------------------------------------------------------
Patient == AccruedReward(rpt, rptFrac, 0, startFrac, staked)
Eager   == settled + Accruing

(* No carry or borrow ever mints a reward: a user never gets more than the *)
(* exact share staked / totalStaked of what was distributed, however often *)
(* it settles.                                                             *)
NeverOverpays == /\ Patient * totalStaked <= staked * distributed
                 /\ Eager <= Patient

(* Nor is one lost: the rounding of the 64-bit fraction costs less than    *)
(* staked / W tokens for every distribution plus one token at the end, and *)
(* settling costs less than one token more each time.                      *)
RoundingLossBounded ==
  /\ (Patient + 1) * totalStaked * W + staked * rounds * totalStaked
        > staked * distributed * W
  /\ Eager + rounds >= Patient
=============================================================================
