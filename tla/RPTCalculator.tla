--------------------------- MODULE RPTCalculator ---------------------------
(***************************************************************************)
(* The fixed-point arithmetic of src/farm/rpt_calculator.py and the wide   *)
(* AVM operations of src/helpers/common.py it is built on.                 *)
(*                                                                         *)
(* Definitions marked `mutant' are wrong on purpose: the properties are    *)
(* known to notice when one takes the place of the definition after it.    *)
(*                                                                         *)
(* W is the number of values of an AVM word, 2^64 on chain; every word is  *)
(* a member of Word.  A reward-per-token figure is a pair (rpt, rptFrac)   *)
(* of words standing for rpt + rptFrac / W.                                *)
(***************************************************************************)
EXTENDS Integers

CONSTANT W

ASSUME WAssumption == W \in Nat \ {0, 1}

Word == 0 .. W - 1

(***************************************************************************)
(* An AVM +, - or * whose result is not a word panics, and the whole       *)
(* transaction group is rejected.                                          *)
(***************************************************************************)
Fits(n) == n \in Word

(* addw and mulw return a high and a low word, divw divides a double word. *)
AddwHigh(a, b) == (a + b) \div W
AddwLowUnreduced(a, b) == a + b                                   \* mutant
AddwLow(a, b)  == (a + b) % W
MulwHigh(a, b) == (a * b) \div W
Divw(high, low, d) == (high * W + low) \div d

(* pytealext's MulDiv64: a * b / d over a double-word product.             *)
MulDiv64(a, b, d) == (a * b) \div d

-----------------------------------------------------------------------------
(* RPTCalculator.run: dt out of duration time units of `pending' are       *)
(* released over totalStaked tokens.                                       *)

DividesFirst(dt, duration, pending) == dt * (pending \div duration)   \* mutant
DistributedReward(dt, duration, pending) == MulDiv64(pending, dt, duration)

RptDelta(reward, totalStaked)     == reward \div totalStaked
RptDeltaFrac(reward, totalStaked) == Divw(reward % totalStaked, 0, totalStaked)

NewRptFrac(rptFrac, reward, totalStaked) ==
  AddwLow(rptFrac, RptDeltaFrac(reward, totalStaked))

NewRptNoCarry(rpt, rptFrac, reward, totalStaked) ==                  \* mutant
  rpt + RptDelta(reward, totalStaked)

NewRpt(rpt, rptFrac, reward, totalStaked) ==
  rpt + RptDelta(reward, totalStaked)
      + AddwHigh(rptFrac, RptDeltaFrac(reward, totalStaked))

-----------------------------------------------------------------------------
(* UserRewardCalculator.run: the difference of two reward-per-token pairs, *)
(* with a borrow when the fraction of the subtrahend is the larger, and    *)
(* the whole tokens it is worth to `staked' tokens.                        *)

UserRptDeltaNoBorrow(rpt, rptFrac, userRpt, userRptFrac) ==          \* mutant
  rpt - userRpt

UserRptDelta(rpt, rptFrac, userRpt, userRptFrac) ==
  IF userRptFrac <= rptFrac THEN rpt - userRpt ELSE rpt - userRpt - 1

UserRptDeltaFrac(rptFrac, userRptFrac) ==
  IF userRptFrac <= rptFrac THEN rptFrac - userRptFrac
                            ELSE (W - 1) - userRptFrac + rptFrac + 1

AccruedWholeOnly(rpt, rptFrac, userRpt, userRptFrac, staked) ==      \* mutant
  staked * UserRptDelta(rpt, rptFrac, userRpt, userRptFrac)

AccruedReward(rpt, rptFrac, userRpt, userRptFrac, staked) ==
  staked * UserRptDelta(rpt, rptFrac, userRpt, userRptFrac)
    + MulwHigh(staked, UserRptDeltaFrac(rptFrac, userRptFrac))
=============================================================================
