---------------------------- MODULE HelperProofs ----------------------------
(***************************************************************************)
(* Proofs about the calculating modules.  Rounding of rewards over any     *)
(* number of distributions and settlements, for every word size: no user   *)
(* is ever overpaid, and what it loses is bounded.  Fixed point numbers    *)
(* computed by any chain of operations, for bytes and words of any size.   *)
(* Packed state of any schema, after any sequence of operations.           *)
(***************************************************************************)
EXTENDS RPTStream, FixedPoint64, PackedState, ArithmeticProofs, SequenceTheorems

(* The reward per token the pool has reached, and the eager user has seen. *)
Reached == rpt * W + rptFrac
Seen    == snapRpt * W + snapRptFrac

StreamTypes ==
  /\ staked \in Nat /\ totalStaked \in Nat \ {0}
  /\ rpt \in Nat /\ rptFrac \in Word /\ snapRpt \in Nat /\ snapRptFrac \in Word
  /\ startFrac \in Word /\ settled \in Nat /\ distributed \in Nat /\ rounds \in Nat

(* The growth of the reward per token is what was distributed, short of    *)
(* less than 1 / W for every distribution.                                 *)
GrowthIsDistributed ==
  /\ (Reached - startFrac) * totalStaked <= distributed * W
  /\ (Reached - startFrac) * totalStaked + rounds * totalStaked >= distributed * W

(* W-ths of a token the eager user has lost by rounding: less than W of    *)
(* them between two distributions, since settling twice loses nothing.     *)
Lost == staked * (Seen - startFrac) - settled * W

LossIsBounded ==
  /\ 0 <= Lost
  /\ Seen = Reached => Lost <= rounds * (W - 1)
  /\ Seen # Reached => Lost <= (rounds - 1) * (W - 1)

(* The inductive invariant.                                                *)
RoundingInv ==
  /\ StreamTypes /\ startFrac <= Seen /\ Seen <= Reached
  /\ GrowthIsDistributed /\ LossIsBounded

(* The figures of the invariant are integers.                              *)
LEMMA Figures ==
  ASSUME StreamTypes
  PROVE  /\ W \in Nat \ {0} /\ Reached \in Nat /\ Seen \in Nat /\ startFrac \in Nat
         /\ settled * W \in Nat /\ rounds * (W - 1) \in Nat /\ distributed * W \in Nat
         /\ rounds * totalStaked \in Nat
<1>1. W \in Nat \ {0} /\ rptFrac \in Nat /\ snapRptFrac \in Nat /\ startFrac \in Nat
  BY WAssumption DEF StreamTypes, Word
<1>2. /\ rpt * W \in Nat /\ snapRpt * W \in Nat /\ settled * W \in Nat
      /\ rounds * (W - 1) \in Nat /\ distributed * W \in Nat /\ rounds * totalStaked \in Nat
  BY <1>1 DEF StreamTypes
<1> QED
  BY <1>1, <1>2 DEF Reached, Seen

(* What the two users have accrued since their snapshots.                  *)
LEMMA Accruals ==
  ASSUME RoundingInv
  PROVE  /\ Patient \in Nat /\ Accruing \in Nat
         /\ Patient * W <= staked * (Reached - startFrac)
         /\ staked * (Reached - startFrac) < Patient * W + W
         /\ Accruing * W <= staked * (Reached - Seen)
         /\ staked * (Reached - Seen) <= Accruing * W + (W - 1)
         /\ Seen = Reached => Accruing = 0
<1> USE DEF RoundingInv
<1>1. /\ W \in Nat \ {0} /\ staked \in Nat /\ Reached - startFrac \in Nat
      /\ Reached - Seen \in Nat
  BY Figures DEF StreamTypes
<1>2. Patient = (staked * (Reached - startFrac)) \div W
  <2>1. /\ 0 * W + startFrac = startFrac /\ 0 * W + startFrac <= rpt * W + rptFrac
        /\ startFrac \in Word /\ 0 \in Nat
    BY <1>1, Figures DEF Reached, StreamTypes
  <2>2. AccruedReward(rpt, rptFrac, 0, startFrac, staked)
          = (staked * ((rpt * W + rptFrac) - (0 * W + startFrac))) \div W
    BY <2>1, AccrualIsFloor DEF StreamTypes, Reached
  <2> QED
    BY <2>1, <2>2 DEF Patient, Reached
<1>3. Accruing = (staked * (Reached - Seen)) \div W
  BY AccrualIsFloor DEF StreamTypes, Reached, Seen, Accruing
<1>4. staked * (Reached - startFrac) \in Nat /\ staked * (Reached - Seen) \in Nat
  BY <1>1
<1>5. /\ Patient \in Nat /\ W * Patient <= staked * (Reached - startFrac)
      /\ staked * (Reached - startFrac) < W * Patient + W
  BY <1>1, <1>2, <1>4, DivNat
<1>6. /\ Accruing \in Nat /\ W * Accruing <= staked * (Reached - Seen)
      /\ staked * (Reached - Seen) < W * Accruing + W
  BY <1>1, <1>3, <1>4, DivNat
<1>7. W * Patient = Patient * W /\ W * Accruing = Accruing * W
  BY <1>1, <1>5, <1>6
<1>8. staked * (Reached - Seen) <= Accruing * W + (W - 1)
  <2>1. Accruing * W \in Nat
    BY <1>1, <1>6
  <2> QED
    BY <1>1, <1>4, <1>6, <1>7, <2>1
<1>9. ASSUME Seen = Reached PROVE Accruing = 0
  <2>1. Reached - Seen = 0 /\ staked * 0 = 0
    BY <1>1, <1>9, Figures
  <2> QED
    BY <1>1, <1>3, <2>1, DivUnique
<1> QED
  BY <1>5, <1>6, <1>7, <1>8, <1>9

-----------------------------------------------------------------------------
(* Nothing has been distributed, settled or lost at first.                 *)
LEMMA RoundingInit == Init => RoundingInv
<1> SUFFICES ASSUME Init PROVE RoundingInv
  OBVIOUS
<1> USE DEF Init
<1>1. W \in Nat \ {0, 1} /\ 0 \in Word /\ W - 1 \in Word
  BY WAssumption DEF Word
<1>2. StreamTypes
  BY <1>1, RPTStreamAssumption DEF StreamTypes
<1>3. Reached = startFrac /\ Seen = startFrac /\ startFrac \in Nat
  BY <1>1, <1>2, Figures DEF Reached, Seen
<1>4. Reached - startFrac = 0 /\ Seen - startFrac = 0
  BY <1>3
<1>5. GrowthIsDistributed
  <2>1. 0 * totalStaked = 0 /\ 0 * W = 0
    BY <1>1, <1>2 DEF StreamTypes
  <2> QED
    BY <1>4, <2>1 DEF GrowthIsDistributed
<1>6. Lost = 0
  <2>1. staked * 0 = 0 /\ 0 * W = 0
    BY <1>1, <1>2 DEF StreamTypes
  <2> QED
    BY <1>4, <2>1 DEF Lost
<1>7. LossIsBounded
  BY <1>1, <1>3, <1>6 DEF LossIsBounded
<1> QED
  BY <1>2, <1>3, <1>5, <1>7 DEF RoundingInv

(* A distribution adds a round, and to the growth its reward per token     *)
(* rounded down; what the eager user has lost so far stays.                *)
LEMMA DistributeRounds ==
  ASSUME RoundingInv, NEW reward \in 0 .. MaxReward, Distribute(reward)
  PROVE  RoundingInv'
<1> USE DEF RoundingInv, Distribute
<1> DEFINE inc == (reward * W) \div totalStaked
<1>1. /\ W \in Nat \ {0} /\ totalStaked \in Nat \ {0} /\ reward \in Nat
      /\ distributed \in Nat /\ rounds \in Nat /\ Reached \in Nat /\ startFrac \in Nat
      /\ staked \in Nat /\ settled \in Nat
  BY Figures, RPTStreamAssumption DEF StreamTypes
<1>2. StreamTypes' /\ Reached' = Reached + inc
  BY <1>1, IncrementIsFloor DEF StreamTypes, Reached
<1>3. /\ inc \in Nat /\ totalStaked * inc <= reward * W
      /\ reward * W < totalStaked * inc + totalStaked /\ reward * W \in Nat
  <2>1. reward * W \in Nat
    BY <1>1
  <2> QED
    BY <1>1, <2>1, DivNat
<1> HIDE DEF inc
<1>4. Seen' = Seen /\ startFrac' = startFrac /\ Lost' = Lost
  BY DEF Seen, Lost
<1>5. startFrac <= Seen /\ Seen <= Reached' /\ Seen \in Nat
  BY <1>1, <1>2, <1>3, Figures
<1>6. GrowthIsDistributed'
  <2> DEFINE g == (Reached - startFrac) * totalStaked
             k == rounds * totalStaked
             d == distributed * W
             x == totalStaked * inc
             y == reward * W
  <2>1. /\ (Reached' - startFrac') * totalStaked' = g + x
        /\ rounds' * totalStaked' = k + totalStaked /\ distributed' * W = d + y
    BY <1>1, <1>2, <1>3, <1>4
  <2>2. g \in Int /\ k \in Int /\ d \in Int /\ x \in Int /\ y \in Int
    BY <1>1, <1>3
  <2>3. g <= d /\ g + k >= d /\ x <= y /\ y < x + totalStaked
    BY <1>3 DEF GrowthIsDistributed
  <2> HIDE DEF g, k, d, x, y
  <2>4. g + x <= d + y /\ g + x + (k + totalStaked) >= d + y
    BY <1>1, <2>2, <2>3
  <2> QED
    BY <2>1, <2>4 DEF GrowthIsDistributed
<1>7. LossIsBounded'
  <2> DEFINE w == W - 1
             l == Lost
  <2>1. w \in Nat /\ l \in Int /\ rounds' - 1 = rounds
    <3>1. Seen - startFrac \in Int /\ settled * W \in Int
      BY <1>1, <1>5
    <3>2. staked * (Seen - startFrac) \in Int
      BY <1>1, <3>1
    <3> QED
      BY <1>1, <3>1, <3>2 DEF Lost
  <2>2. (rounds - 1) * w <= rounds * w /\ rounds * w <= rounds' * w
    <3>1. (rounds - 1) * w = rounds * w - w /\ rounds' * w = rounds * w + w
      BY <1>1, <2>1
    <3>2. rounds * w \in Int
      BY <1>1, <2>1
    <3> QED
      BY <2>1, <3>1, <3>2
  <2>3. (rounds - 1) * w \in Int /\ rounds * w \in Int /\ rounds' * w \in Int
    BY <1>1, <2>1
  <2>4. 0 <= l /\ (l <= rounds * w \/ l <= (rounds - 1) * w)
    BY DEF LossIsBounded
  <2>5. l <= (rounds' - 1) * w /\ l <= rounds' * w
    <3> HIDE DEF w, l
    <3>1. l <= rounds * w
      BY <2>1, <2>2, <2>3, <2>4
    <3> QED
      BY <2>1, <2>2, <2>3, <3>1
  <2> QED
    BY <1>4, <2>4, <2>5 DEF LossIsBounded
<1> QED
  BY <1>2, <1>4, <1>5, <1>6, <1>7

(* Settling loses less than one token more, and nothing when there was no  *)
(* distribution since the last time.                                       *)
LEMMA SettleRounds ==
  ASSUME RoundingInv, Settle
  PROVE  RoundingInv'
<1> USE DEF RoundingInv, Settle
<1>1. /\ W \in Nat \ {0} /\ Reached \in Nat /\ Seen \in Nat /\ startFrac \in Nat
      /\ staked \in Nat /\ settled \in Nat /\ rounds \in Nat /\ Accruing \in Nat
  BY Figures, Accruals DEF StreamTypes
<1>2. StreamTypes' /\ GrowthIsDistributed'
  <2>1. settled + Accruing \in Nat
    BY <1>1
  <2>2. StreamTypes'
    BY <2>1 DEF StreamTypes
  <2> QED
    BY <2>2 DEF GrowthIsDistributed, Reached
<1>3. Seen' = Reached /\ Reached' = Reached /\ startFrac' = startFrac
  BY DEF Seen, Reached
<1>4. startFrac' <= Seen' /\ Seen' <= Reached'
  BY <1>1, <1>3
<1>5. LossIsBounded'
  <2> DEFINE r == staked * (Reached - Seen) - Accruing * W
             x == staked * (Seen - startFrac)
             y == settled * W
             z == staked * (Reached - Seen)
             a == Accruing * W
             k == rounds * (W - 1)
  <2>1. x \in Int /\ y \in Int /\ z \in Int /\ a \in Int /\ k \in Int
    BY <1>1
  <2>2. Lost' = (x + z) - (y + a) /\ Lost = x - y
    <3>1. staked' * (Seen' - startFrac') = x + z /\ settled' * W = y + a
      BY <1>1, <1>3
    <3> QED
      BY <3>1 DEF Lost
  <2>3. a <= z /\ z <= a + (W - 1) /\ (Seen = Reached => z = 0 /\ a = 0)
    BY <1>1, Accruals
  <2>4. (rounds - 1) * (W - 1) = k - (W - 1)
    BY <1>1
  <2>5. /\ 0 <= x - y /\ (Seen = Reached => x - y <= k)
        /\ (Seen # Reached => x - y <= k - (W - 1))
    BY <2>2, <2>4 DEF LossIsBounded
  <2> HIDE DEF x, y, z, a, k
  <2>6. 0 <= (x + z) - (y + a) /\ (x + z) - (y + a) <= k
    BY <1>1, <2>1, <2>3, <2>5
  <2>7. 0 <= Lost' /\ Lost' <= rounds' * (W - 1)
    BY <2>2, <2>6 DEF k
  <2> QED
    BY <1>3, <2>7 DEF LossIsBounded
<1> QED
  BY <1>2, <1>4, <1>5

(* RoundingInv holds in every behaviour of the calculators.                *)
THEOREM RoundingInvariant == Spec => []RoundingInv
<1>1. RoundingInv /\ [Next]_vars => RoundingInv'
  <2> SUFFICES ASSUME RoundingInv, [Next]_vars PROVE RoundingInv'
    OBVIOUS
  <2>1. CASE Settle
    BY <2>1, SettleRounds
  <2>2. ASSUME NEW reward \in 0 .. MaxReward, Distribute(reward) PROVE RoundingInv'
    BY <2>2, DistributeRounds
  <2>3. CASE UNCHANGED vars
    BY <2>3 DEF vars, RoundingInv, StreamTypes, GrowthIsDistributed, LossIsBounded,
                Lost, Seen, Reached
  <2> QED
    BY <2>1, <2>2, <2>3 DEF Next
<1> QED
  BY <1>1, RoundingInit, PTL DEF Spec

-----------------------------------------------------------------------------
(* A user never gets more than the share of its stake in what was          *)
(* distributed, and settling early never gets it more than waiting.        *)
THEOREM CalculatorsNeverOverpay == Spec => []NeverOverpays
<1>1. RoundingInv => NeverOverpays
  <2> SUFFICES ASSUME RoundingInv PROVE NeverOverpays
    OBVIOUS
  <2> USE DEF RoundingInv
  <2>1. /\ W \in Nat \ {0} /\ Reached \in Nat /\ Seen \in Nat /\ startFrac \in Nat
        /\ staked \in Nat /\ totalStaked \in Nat \ {0} /\ settled \in Nat
        /\ distributed \in Nat /\ Patient \in Nat /\ Accruing \in Nat
    BY Figures, Accruals DEF StreamTypes
  <2>2. Patient * totalStaked <= staked * distributed
    <3> DEFINE g == Reached - startFrac
               p == Patient * totalStaked
               s == staked * distributed
    <3>1. g \in Nat
      BY <2>1
    <3>2. Patient * W <= staked * g /\ g * totalStaked <= distributed * W
      BY Accruals DEF GrowthIsDistributed
    <3> HIDE DEF g
    <3>3. (Patient * W) * totalStaked <= (staked * g) * totalStaked
      BY <2>1, <3>1, <3>2, TimesMonotone
    <3>4. (g * totalStaked) * staked <= (distributed * W) * staked
      BY <2>1, <3>1, <3>2, TimesMonotone
    <3>5. /\ (Patient * W) * totalStaked = p * W
          /\ (staked * g) * totalStaked = (g * totalStaked) * staked
          /\ (distributed * W) * staked = s * W
      BY <2>1, <3>1
    <3>6. p \in Nat /\ s \in Nat
      BY <2>1
    <3>7. (g * totalStaked) * staked \in Nat
      BY <2>1, <3>1
    <3> HIDE DEF p, s
    <3>8. p * W \in Nat /\ s * W \in Nat
      BY <2>1, <3>6
    <3>9. p * W <= s * W
      BY <3>3, <3>4, <3>5, <3>7, <3>8
    <3>10. p <= s
      BY <2>1, <3>6, <3>9, TimesCancel
    <3> QED
      BY <3>10 DEF p, s
  <2>3. Eager <= Patient
    <3> DEFINE x == staked * (Seen - startFrac)
               z == staked * (Reached - Seen)
               e == settled * W
               a == Accruing * W
               p == Patient * W
    <3>1. x \in Int /\ z \in Int /\ e \in Int /\ a \in Int /\ p \in Int
      BY <2>1
    <3>2. staked * (Reached - startFrac) = x + z /\ (settled + Accruing) * W = e + a
          /\ (Patient + 1) * W = p + W
      BY <2>1
    <3>3. e <= x /\ a <= z /\ x + z < p + W
      <4>1. 0 <= x - e
        BY DEF LossIsBounded, Lost
      <4>2. a <= z /\ staked * (Reached - startFrac) < p + W
        BY Accruals
      <4> HIDE DEF x, z, e, a, p
      <4> QED
        BY <3>1, <3>2, <4>1, <4>2
    <3> HIDE DEF x, z, e, a, p
    <3>4. e + a < p + W
      BY <2>1, <3>1, <3>3
    <3>5. (settled + Accruing) * W < (Patient + 1) * W
      BY <3>2, <3>4
    <3>6. settled + Accruing < Patient + 1
      <4>1. settled + Accruing \in Nat /\ Patient + 1 \in Nat
        BY <2>1
      <4> QED
        BY <2>1, <3>5, <4>1, TimesCancel
    <3> QED
      BY <2>1, <3>6 DEF Eager
  <2> QED
    BY <2>2, <2>3 DEF NeverOverpays
<1> QED
  BY <1>1, RoundingInvariant, PTL

(* Nor does a user lose more than less than staked / W tokens for every    *)
(* distribution and a token at the end, and a token for every distribution *)
(* it settles early.                                                       *)
THEOREM CalculatorsLoseLittle == Spec => []RoundingLossBounded
<1>1. RoundingInv => RoundingLossBounded
  <2> SUFFICES ASSUME RoundingInv PROVE RoundingLossBounded
    OBVIOUS
  <2> USE DEF RoundingInv
  <2>1. /\ W \in Nat \ {0} /\ Reached \in Nat /\ Seen \in Nat /\ startFrac \in Nat
        /\ staked \in Nat /\ totalStaked \in Nat \ {0} /\ settled \in Nat
        /\ distributed \in Nat /\ rounds \in Nat /\ Patient \in Nat /\ Accruing \in Nat
        /\ Reached - startFrac \in Nat
    BY Figures, Accruals DEF StreamTypes
  <2>2. (Patient + 1) * totalStaked * W + staked * rounds * totalStaked
          > staked * distributed * W
    <3> DEFINE g == Reached - startFrac
               t == totalStaked
               p == (Patient + 1) * W
               s == staked * g
               n == g * t + rounds * t
    <3>1. s \in Nat /\ p \in Nat /\ n \in Nat /\ distributed * W \in Nat /\ t \in Nat \ {0}
      BY <2>1
    <3>2. s < p /\ distributed * W <= n
      <4>1. p = Patient * W + W
        BY <2>1
      <4>2. s < Patient * W + W
        BY Accruals
      <4> QED
        BY <4>1, <4>2 DEF GrowthIsDistributed
    <3>3. (distributed * W) * staked <= n * staked
      <4> HIDE DEF n
      <4> QED
        BY <2>1, <3>1, <3>2, TimesMonotone
    <3>4. s * t < p * t
      <4> HIDE DEF s, p, t
      <4>1. s * t \in Nat /\ p * t \in Nat
        BY <3>1
      <4>2. ~ (p * t <= s * t)
        BY <3>1, <3>2, TimesCancel
      <4> QED
        BY <4>1, <4>2
    <3> DEFINE d == staked * distributed * W
               k == staked * rounds * t
    <3>5. /\ (distributed * W) * staked = d
          /\ n * staked = s * t + k
          /\ (Patient + 1) * t * W = p * t
      <4> HIDE DEF g, t
      <4> QED
        BY <2>1, <3>1 DEF g
    <3>6. s * t \in Nat /\ p * t \in Nat /\ d \in Nat /\ k \in Nat
      BY <2>1, <3>1
    <3> HIDE DEF s, p, t, n, d, k
    <3>7. p * t + k > d
      BY <3>3, <3>4, <3>5, <3>6
    <3> QED
      BY <3>5, <3>7 DEF d, k, t
  <2>3. Eager + rounds >= Patient
    <3> DEFINE x == staked * (Seen - startFrac)
               z == staked * (Reached - Seen)
               e == settled * W
               a == Accruing * W
               p == Patient * W
               k == rounds * (W - 1)
    <3>1. /\ x \in Int /\ z \in Int /\ e \in Int /\ a \in Int /\ p \in Int /\ k \in Int
          /\ W - 1 \in Nat
      BY <2>1
    <3>2. /\ staked * (Reached - startFrac) = x + z
          /\ (settled + Accruing + rounds) * W = e + a + (k + rounds)
          /\ (rounds - 1) * (W - 1) = k - (W - 1)
      BY <2>1
    <3>3. /\ p <= x + z /\ z <= a + (W - 1)
          /\ Seen = Reached => z = 0 /\ a = 0
      BY <2>1, <3>2, Accruals
    <3>4. /\ Seen = Reached => x - e <= k
          /\ Seen # Reached => x - e <= k - (W - 1)
      BY <3>2 DEF LossIsBounded, Lost
    <3> HIDE DEF x, z, e, a, p, k
    <3>5. p <= e + a + (k + rounds)
      BY <2>1, <3>1, <3>3, <3>4
    <3>6. Patient <= settled + Accruing + rounds
      <4>1. settled + Accruing + rounds \in Nat
        BY <2>1
      <4>2. Patient * W <= (settled + Accruing + rounds) * W
        BY <3>2, <3>5 DEF p
      <4> QED
        BY <2>1, <4>1, <4>2, TimesCancel
    <3> QED
      BY <2>1, <3>6 DEF Eager
  <2> QED
    BY <2>2, <2>3 DEF RoundingLossBounded
<1> QED
  BY <1>1, RoundingInvariant, PTL

-----------------------------------------------------------------------------
(* Powers                                                                  *)

(* Induction over the natural numbers, for a set Good of them.             *)
LEMMA SetInduction ==
  ASSUME NEW Good \in SUBSET Nat, 0 \in Good, \A n \in Good : n + 1 \in Good
  PROVE  Good = Nat
<1> DEFINE Bad == Nat \ Good
<1>1. CASE Bad # {}
  <2>1. PICK n \in Bad : \A m \in Bad : ~ (<<m, n>> \in OpToRel(<, Nat))
    BY <1>1, NatLessThanWellFounded, WFMin
  <2>2. n \in Nat \ {0} /\ n - 1 \in Nat /\ n - 1 < n /\ (n - 1) + 1 = n
    OBVIOUS
  <2>3. n - 1 \in Good
    BY <2>1, <2>2 DEF OpToRel
  <2> QED
    BY <2>2, <2>3
<1> QED
  BY <1>1

(* What defines Power, up to n and for all natural numbers.                *)
PowersUpTo(g, n) ==
  /\ \A k \in 0 .. n : g[k] \in Nat
  /\ g[0] = 1 /\ \A k \in 0 .. n - 1 : g[k + 1] = ByteValues * g[k]

Powers(f) == f = [n \in Nat |-> IF n = 0 THEN 1 ELSE ByteValues * f[n - 1]]

(* Functions that are defined like Power agree as far as they go.          *)
LEMMA PowersAgree ==
  ASSUME NEW m \in Nat, NEW n \in Nat, NEW g, PowersUpTo(g, m), NEW h, PowersUpTo(h, n),
         m <= n
  PROVE  g[m] = h[m]
<1> DEFINE Good == {k \in Nat : k <= m => g[k] = h[k]}
<1>1. 0 \in Good
  BY DEF PowersUpTo
<1>2. ASSUME NEW k \in Good PROVE k + 1 \in Good
  <2> SUFFICES ASSUME k + 1 <= m PROVE g[k + 1] = h[k + 1]
    OBVIOUS
  <2>1. k \in 0 .. m - 1 /\ k \in 0 .. n - 1 /\ g[k] = h[k]
    OBVIOUS
  <2> QED
    BY <2>1 DEF PowersUpTo
<1>3. Good = Nat
  <2> HIDE DEF Good
  <2>1. Good \in SUBSET Nat
    BY DEF Good
  <2> QED
    BY <1>1, <1>2, <2>1, SetInduction
<1> QED
  BY <1>3

(* Such functions exist for any n.                                         *)
LEMMA PowersExist == \A n \in Nat : \E g : PowersUpTo(g, n)
<1> DEFINE Good == {n \in Nat : \E g : PowersUpTo(g, n)}
<1>1. 0 \in Good
  <2>1. PowersUpTo([k \in 0 .. 0 |-> 1], 0)
    BY DEF PowersUpTo
  <2> QED
    BY <2>1
<1>2. ASSUME NEW n \in Good PROVE n + 1 \in Good
  <2>1. PICK g : PowersUpTo(g, n)
    OBVIOUS
  <2> DEFINE h == [k \in 0 .. n + 1 |-> IF k = n + 1 THEN ByteValues * g[n] ELSE g[k]]
  <2>2. n \in Nat /\ ByteValues \in Nat /\ g[n] \in Nat /\ ByteValues * g[n] \in Nat
    <3>1. n \in Nat /\ n \in 0 .. n /\ ByteValues \in Nat
      BY ByteWordsAssumption
    <3>2. g[n] \in Nat
      BY <2>1, <3>1 DEF PowersUpTo
    <3> QED
      BY <3>1, <3>2
  <2>3. \A k \in 0 .. n + 1 : h[k] \in Nat
    BY <2>1, <2>2 DEF PowersUpTo
  <2>4. h[0] = 1
    BY <2>1, <2>2 DEF PowersUpTo
  <2>5. ASSUME NEW k \in 0 .. (n + 1) - 1 PROVE h[k + 1] = ByteValues * h[k]
    <3>1. h[k] = g[k]
      BY <2>2
    <3>2. CASE k = n
      BY <2>2, <3>1, <3>2
    <3>3. CASE k # n
      <4>1. k \in 0 .. n - 1 /\ k + 1 # n + 1 /\ k + 1 \in 0 .. n + 1
        BY <2>2, <3>3
      <4> QED
        BY <2>1, <3>1, <4>1 DEF PowersUpTo
    <3> QED
      BY <3>2, <3>3
  <2>6. PowersUpTo(h, n + 1)
    BY <2>3, <2>4, <2>5 DEF PowersUpTo
  <2> QED
    BY <2>2, <2>6
<1>3. Good = Nat
  <2> HIDE DEF Good
  <2>1. Good \in SUBSET Nat
    BY DEF Good
  <2> QED
    BY <1>1, <1>2, <2>1, SetInduction
<1> QED
  BY <1>3

(* Power satisfies the equations it is defined by.                         *)
LEMMA PowerFacts ==
  /\ Power[0] = 1
  /\ \A n \in Nat : Power[n] \in Nat \ {0} /\ Power[n + 1] = ByteValues * Power[n]
<1> DEFINE G(n) == CHOOSE g : PowersUpTo(g, n)
           f == [n \in Nat |-> G(n)[n]]
<1>1. \A n \in Nat : PowersUpTo(G(n), n)
  BY PowersExist
<1> HIDE DEF G
<1>2. f[0] = 1
  BY <1>1 DEF PowersUpTo
<1>3. ASSUME NEW n \in Nat PROVE f[n + 1] = ByteValues * f[n]
  <2>1. n + 1 \in Nat /\ n \in 0 .. (n + 1) - 1 /\ n <= n + 1
    OBVIOUS
  <2>2. G(n + 1)[n + 1] = ByteValues * G(n + 1)[n]
    BY <1>1, <2>1 DEF PowersUpTo
  <2>3. PowersUpTo(G(n + 1), n)
    <3>1. PowersUpTo(G(n + 1), n + 1)
      BY <1>1, <2>1
    <3> QED
      BY <3>1 DEF PowersUpTo
  <2>4. G(n)[n] = G(n + 1)[n]
    BY <1>1, <2>1, PowersAgree
  <2> QED
    BY <2>1, <2>2, <2>4
<1> HIDE DEF f
<1>4. Powers(f)
  <2>1. \A n \in Nat : n # 0 => n - 1 \in Nat /\ (n - 1) + 1 = n
    OBVIOUS
  <2>2. \A n \in Nat : f[n] = IF n = 0 THEN 1 ELSE ByteValues * f[n - 1]
    BY <1>2, <1>3, <2>1
  <2>3. f = [n \in Nat |-> f[n]]
    BY DEF f
  <2> QED
    BY <2>2, <2>3 DEF Powers
<1>5. Powers(Power)
  <2>1. Power = CHOOSE g : Powers(g)
    BY DEF Power, Powers
  <2> QED
    BY <1>4, <2>1
<1>6. Power[0] = 1 /\ \A n \in Nat : Power[n + 1] = ByteValues * Power[n]
  <2>1. \A n \in Nat : n + 1 \in Nat /\ n + 1 # 0 /\ (n + 1) - 1 = n
    OBVIOUS
  <2>2. \A n \in Nat : Power[n] = IF n = 0 THEN 1 ELSE ByteValues * Power[n - 1]
    BY <1>5 DEF Powers
  <2> QED
    BY <2>1, <2>2
<1>7. {n \in Nat : Power[n] \in Nat \ {0}} = Nat
  <2> DEFINE Good == {n \in Nat : Power[n] \in Nat \ {0}}
  <2>1. 0 \in Good
    BY <1>6
  <2>2. ASSUME NEW n \in Good PROVE n + 1 \in Good
    <3> DEFINE p == Power[n]
    <3>1. n \in Nat /\ p \in Nat \ {0} /\ Power[n + 1] = ByteValues * p
      BY <1>6
    <3> HIDE DEF p
    <3>2. ByteValues * p \in Nat \ {0}
      BY <3>1, ByteWordsAssumption
    <3> QED
      BY <3>1, <3>2
  <2> HIDE DEF Good
  <2>3. Good \in SUBSET Nat
    BY DEF Good
  <2>4. Good = Nat
    BY <2>1, <2>2, <2>3, SetInduction
  <2> QED
    BY <2>4 DEF Good
<1> QED
  BY <1>6, <1>7

(* Powers add up in their exponents.                                       *)
LEMMA PowerSum ==
  ASSUME NEW m \in Nat, NEW n \in Nat
  PROVE  Power[m + n] = Power[m] * Power[n]
<1> DEFINE Good == {k \in Nat : Power[m + k] = Power[m] * Power[k]}
<1>1. 0 \in Good
  BY PowerFacts
<1>2. ASSUME NEW k \in Good PROVE k + 1 \in Good
  <2> DEFINE p == Power[m]
             q == Power[k]
             B == ByteValues
  <2>1. p \in Nat /\ q \in Nat /\ B \in Nat /\ Power[m + k] = p * q
    BY PowerFacts, ByteWordsAssumption
  <2>2. /\ k \in Nat /\ m + k \in Nat /\ m + (k + 1) = (m + k) + 1
    OBVIOUS
  <2>3. /\ Power[m + (k + 1)] = B * Power[m + k]
        /\ Power[k + 1] = B * q
    BY <2>2, PowerFacts
  <2> HIDE DEF p, q, B
  <2>4. B * (p * q) = p * (B * q)
    BY <2>1
  <2>5. Power[m + (k + 1)] = p * Power[k + 1]
    BY <2>1, <2>3, <2>4
  <2> QED
    BY <2>2, <2>5 DEF p
<1>3. Good = Nat
  <2> HIDE DEF Good
  <2>1. Good \in SUBSET Nat
    BY DEF Good
  <2> QED
    BY <1>1, <1>2, <2>1, SetInduction
<1> QED
  BY <1>3

(* Higher exponents make larger powers, at least twice as large.           *)
LEMMA PowerGrows ==
  ASSUME NEW m \in Nat, NEW n \in Nat
  PROVE  /\ m <= n => Power[m] <= Power[n]
         /\ m < n => 2 * Power[m] <= Power[n]
<1>1. ASSUME NEW i \in Nat, NEW j \in Nat, i <= j PROVE Power[i] <= Power[j]
  <2> DEFINE d == j - i
             p == Power[i]
             q == Power[d]
  <2>1. d \in Nat /\ j = i + d
    BY <1>1
  <2> HIDE DEF d
  <2>2. Power[j] = p * q /\ p \in Nat /\ q \in Nat \ {0}
    BY <2>1, PowerSum, PowerFacts
  <2> HIDE DEF p, q
  <2>3. 1 * p <= q * p
    <3>1. 1 \in Nat /\ q \in Nat /\ 1 <= q
      BY <2>2
    <3> QED
      BY <2>2, <3>1, TimesMonotone
  <2>4. 1 * p = p /\ q * p = p * q
    BY <2>2
  <2> QED
    BY <2>2, <2>3, <2>4 DEF p
<1>2. ASSUME m < n PROVE 2 * Power[m] <= Power[n]
  <2> DEFINE p == Power[m]
  <2>1. m + 1 \in Nat /\ m + 1 <= n
    BY <1>2
  <2>2. Power[m + 1] = ByteValues * p /\ p \in Nat /\ Power[m + 1] <= Power[n]
    BY <1>1, <2>1, PowerFacts
  <2>3. ByteValues \in Nat /\ 2 \in Nat /\ 2 <= ByteValues
    BY ByteWordsAssumption
  <2>4. Power[m + 1] \in Nat /\ Power[n] \in Nat
    BY <2>1, PowerFacts
  <2> HIDE DEF p
  <2>5. 2 * p <= ByteValues * p
    BY <2>2, <2>3, TimesMonotone
  <2>6. 2 * p \in Nat /\ ByteValues * p \in Nat
    BY <2>2, <2>3
  <2>7. 2 * p <= Power[n]
    BY <2>2, <2>4, <2>5, <2>6
  <2> QED
    BY <2>7 DEF p
<1> QED
  BY <1>1, <1>2

-----------------------------------------------------------------------------
(* Fixed point numbers                                                     *)

(* The parameters, and the powers of words.                                *)
LEMMA WordFacts ==
  /\ WordBytes \in Nat \ {0} /\ MaxBytes \in Nat /\ 2 * WordBytes <= MaxBytes
  /\ PRECISION \in Nat \ {0, 1} /\ PRECISION = Power[WordBytes]
  /\ Power[2 * WordBytes] = PRECISION * PRECISION
  /\ Power[3 * WordBytes] = PRECISION * PRECISION * PRECISION
<1> DEFINE w == WordBytes
           P == PRECISION
<1>1. w \in Nat \ {0} /\ MaxBytes \in Nat /\ 2 * w <= MaxBytes
  BY ByteWordsAssumption, FixedPointAssumption
<1>2. P = Power[w] /\ P \in Nat \ {0}
  BY <1>1, PowerFacts DEF PRECISION, WordValues
<1>3. 2 <= P
  <2>1. 0 \in Nat /\ w \in Nat /\ 0 < w
    BY <1>1
  <2>2. 2 * Power[0] <= Power[w]
    BY <2>1, PowerGrows
  <2> QED
    BY <1>2, <2>2, PowerFacts
<1>4. 2 * w = w + w /\ 3 * w = (2 * w) + w /\ 2 * w \in Nat
  BY <1>1
<1>5. Power[w + w] = P * P
  BY <1>1, <1>2, PowerSum
<1>6. Power[(2 * w) + w] = Power[2 * w] * P
  BY <1>1, <1>2, <1>4, PowerSum
<1> QED
  BY <1>1, <1>2, <1>3, <1>4, <1>5, <1>6

(* The shortest string for v has as many bytes as v needs.                 *)
LEMMA ShortestFacts ==
  ASSUME NEW v \in Nat, v < Power[2 * MaxBytes]
  PROVE  /\ Shortest(v).val = v /\ Shortest(v).len \in 0 .. 2 * MaxBytes
         /\ \A k \in Nat : Shortest(v).len <= k <=> v < Power[k]
<1> DEFINE Needed(n) == v < Power[n] /\ \A m \in 0 .. n - 1 : v >= Power[m]
           len == CHOOSE n \in 0 .. 2 * MaxBytes : Needed(n)
           Good == {n \in Nat : n <= 2 * MaxBytes => \A m \in 0 .. n : v >= Power[m]}
<1>0. 2 * MaxBytes \in Nat
  BY WordFacts
<1>1. \E n \in 0 .. 2 * MaxBytes : Needed(n)
  <2> SUFFICES ASSUME \A n \in 0 .. 2 * MaxBytes : ~ Needed(n) PROVE FALSE
    OBVIOUS
  <2>1. 0 \in Good
    <3>1. 0 \in 0 .. 2 * MaxBytes /\ ~ Needed(0)
      BY <1>0
    <3>2. v >= Power[0]
      BY <3>1, PowerFacts
    <3> QED
      BY <3>2
  <2>2. ASSUME NEW n \in Good PROVE n + 1 \in Good
    <3> SUFFICES ASSUME n + 1 <= 2 * MaxBytes
                 PROVE  \A m \in 0 .. n + 1 : v >= Power[m]
      OBVIOUS
    <3>1. n \in Nat /\ n + 1 \in 0 .. 2 * MaxBytes /\ (n + 1) - 1 = n
      BY <1>0
    <3>2. \A m \in 0 .. n : v >= Power[m]
      BY <1>0, <3>1
    <3>3. ~ (v < Power[n + 1]) /\ Power[n + 1] \in Nat
      BY <3>1, <3>2, PowerFacts
    <3>4. v >= Power[n + 1]
      BY <3>3
    <3>5. \A m \in 0 .. n + 1 : m \in 0 .. n \/ m = n + 1
      BY <3>1
    <3> QED
      BY <3>2, <3>4, <3>5
  <2>3. Good = Nat
    <3> HIDE DEF Good
    <3>1. Good \in SUBSET Nat
      BY DEF Good
    <3> QED
      BY <2>1, <2>2, <3>1, SetInduction
  <2>4. v >= Power[2 * MaxBytes]
    BY <1>0, <2>3
  <2> QED
    BY <1>0, <2>4, PowerFacts
<1>2. len \in 0 .. 2 * MaxBytes /\ Needed(len)
  BY <1>1
<1>3. Shortest(v) = [len |-> len, val |-> v]
  BY DEF Shortest
<1> HIDE DEF len
<1>4. ASSUME NEW k \in Nat PROVE len <= k <=> v < Power[k]
  <2>1. len \in Nat /\ Power[len] \in Nat /\ Power[k] \in Nat
    BY <1>0, <1>2, PowerFacts
  <2>2. ASSUME len <= k PROVE v < Power[k]
    <3>1. Power[len] <= Power[k]
      BY <2>1, <2>2, PowerGrows
    <3> QED
      BY <1>2, <2>1, <3>1
  <2>3. ASSUME ~ (len <= k) PROVE ~ (v < Power[k])
    <3>1. k \in 0 .. len - 1
      BY <2>1, <2>3
    <3> QED
      BY <1>2, <2>1, <3>1
  <2> QED
    BY <2>2, <2>3
<1> QED
  BY <1>2, <1>3, <1>4

(* The inductive invariant of numbers: the value fits the string, and no   *)
(* idle byte in front makes it longer than two words without need; there   *)
(* is room for one more byte in the longest result.                        *)
Number(x) ==
  /\ x.len \in Nat /\ x.val \in Nat /\ x.val < Power[x.len]
  /\ x.len + 1 <= 2 * MaxBytes
  /\ x.len > 2 * WordBytes <=> x.val >= PRECISION * PRECISION

(* An integral part, rounded down.                                         *)
LEMMA IntegralPart ==
  ASSUME NEW x, x.len \in Nat, x.val \in Nat, x.val < Power[x.len]
  PROVE  /\ Truncate(x).val = x.val \div PRECISION /\ Truncate(x).val \in Nat
         /\ Truncate(x).len = IF x.len <= WordBytes THEN 0 ELSE x.len - WordBytes
         /\ Truncate(x).len \in Nat
         /\ x.len <= WordBytes => Truncate(x).val = 0
<1>1. x.val \div PRECISION \in Nat
  BY WordFacts, DivNat
<1>2. CASE x.len <= WordBytes
  <2>1. Truncate(x).val = 0 /\ Truncate(x).len = 0
    BY <1>2 DEF Truncate, ZERO
  <2>2. x.val < PRECISION
    <3>1. Power[x.len] <= Power[WordBytes] /\ Power[x.len] \in Nat
      BY <1>2, WordFacts, PowerGrows, PowerFacts
    <3> QED
      BY <3>1, WordFacts
  <2>3. x.val \div PRECISION = 0
    BY <2>2, WordFacts
  <2> QED
    BY <1>2, <2>1, <2>3
<1>3. CASE ~ (x.len <= WordBytes)
  <2>1. x.len - WordBytes \in Nat
    BY <1>3, WordFacts
  <2> QED
    BY <1>1, <1>3, <2>1 DEF Truncate
<1> QED
  BY <1>2, <1>3

(* Results that are short enough are numbers.                              *)
LEMMA ShortestIsNumber ==
  ASSUME NEW v \in Nat, NEW k \in Nat, k + 1 <= 2 * MaxBytes, v < Power[k]
  PROVE  Number(Shortest(v)) /\ Shortest(v).val = v /\ Shortest(v).len <= k
<1> DEFINE x == Shortest(v)
<1>1. v < Power[2 * MaxBytes]
  <2>1. k <= 2 * MaxBytes /\ 2 * MaxBytes \in Nat
    BY WordFacts
  <2>2. Power[k] <= Power[2 * MaxBytes] /\ Power[k] \in Nat /\ Power[2 * MaxBytes] \in Nat
    BY <2>1, PowerGrows, PowerFacts
  <2> QED
    BY <2>2
<1>2. /\ x.val = v /\ x.len \in 0 .. 2 * MaxBytes
      /\ \A n \in Nat : x.len <= n <=> v < Power[n]
  BY <1>1, ShortestFacts
<1> HIDE DEF x
<1>3. x.len \in Nat /\ x.len <= k /\ v < Power[x.len] /\ x.len + 1 <= 2 * MaxBytes
  <2>1. x.len \in Nat /\ x.len <= k
    BY <1>2
  <2>2. v < Power[x.len]
    BY <1>2, <2>1
  <2> QED
    BY <2>1, <2>2, WordFacts
<1>4. x.len > 2 * WordBytes <=> v >= PRECISION * PRECISION
  <2> DEFINE PP == PRECISION * PRECISION
  <2>1. 2 * WordBytes \in Nat /\ PP \in Nat /\ Power[2 * WordBytes] = PP
    BY WordFacts
  <2> HIDE DEF PP
  <2>2. x.len <= 2 * WordBytes <=> v < PP
    BY <1>2, <2>1
  <2> QED
    BY <1>3, <2>1, <2>2 DEF PP
<1> QED
  BY <1>2, <1>3, <1>4 DEF Number, x

(* Quotients rounded down, compared.                                       *)
LEMMA QuotientLess ==
  ASSUME NEW a \in Nat, NEW b \in Nat, NEW c \in Nat \ {0}
  PROVE  a \div c < b <=> a < b * c
<1> DEFINE q == a \div c
<1>1. q \in Nat /\ c * q <= a /\ a < c * q + c
  BY DivNat
<1> HIDE DEF q
<1>2. c \in Nat /\ c * q = q * c /\ q * c \in Nat /\ b * c \in Nat
      /\ (q + 1) * c = q * c + c /\ q + 1 \in Nat
  BY <1>1
<1>3. ASSUME q < b PROVE a < b * c
  <2>1. (q + 1) * c <= b * c
    BY <1>1, <1>2, <1>3, TimesMonotone
  <2> QED
    BY <1>1, <1>2, <2>1
<1>4. ASSUME ~ (q < b) PROVE ~ (a < b * c)
  <2>1. b * c <= q * c
    BY <1>1, <1>2, <1>4, TimesMonotone
  <2> QED
    BY <1>1, <1>2, <2>1
<1> QED
  BY <1>3, <1>4 DEF q

(* What is left of a product after its last word has been dropped.         *)
LEMMA TruncatedIsNumber ==
  ASSUME NEW v \in Nat, v < Power[2 * MaxBytes]
  PROVE  /\ Number(Truncate(Shortest(v)))
         /\ Truncate(Shortest(v)).val = v \div PRECISION
<1> DEFINE x == Shortest(v)
           t == Truncate(x)
           w == WordBytes
           P == PRECISION
           PP == P * P
<1>1. /\ x.val = v /\ x.len \in Nat /\ x.len <= 2 * MaxBytes
      /\ \A n \in Nat : x.len <= n <=> v < Power[n]
  BY ShortestFacts, WordFacts
<1>2. v < Power[x.len]
  BY <1>1
<1>3. /\ t.val = v \div P /\ t.val \in Nat /\ t.len \in Nat
      /\ t.len = IF x.len <= w THEN 0 ELSE x.len - w
      /\ x.len <= w => t.val = 0
  BY <1>1, <1>2, IntegralPart
<1> HIDE DEF t, x
<1>4. w \in Nat \ {0} /\ MaxBytes \in Nat /\ 2 * w <= MaxBytes /\ P \in Nat \ {0, 1}
  BY WordFacts
<1>5. CASE x.len <= w
  <2>1. t.len = 0 /\ t.val = 0 /\ Power[0] = 1
    BY <1>3, <1>5, PowerFacts
  <2>2. ~ (0 >= PP) /\ ~ (0 > 2 * w) /\ 0 + 1 <= 2 * MaxBytes /\ 0 < 1
    BY <1>4
  <2>3. t.val < Power[t.len] /\ t.len + 1 <= 2 * MaxBytes
    BY <2>1, <2>2
  <2>4. t.len > 2 * WordBytes <=> t.val >= PRECISION * PRECISION
    BY <2>1, <2>2
  <2> QED
    BY <1>3, <2>3, <2>4 DEF Number, t, x
<1>6. CASE ~ (x.len <= w)
  <2> DEFINE k == t.len
  <2>1. k \in Nat /\ x.len = k + w /\ k + 1 <= 2 * MaxBytes
    BY <1>1, <1>3, <1>4, <1>6
  <2>2. t.val < Power[k]
    <3>1. Power[k + w] = Power[k] * P /\ Power[k] \in Nat
      BY <1>4, <2>1, PowerSum, PowerFacts, WordFacts
    <3>2. v < Power[k] * P
      BY <1>2, <2>1, <3>1
    <3> QED
      BY <1>3, <1>4, <3>1, <3>2, QuotientLess
  <2>3. k > 2 * w <=> t.val >= PP
    <3>1. PP \in Nat /\ Power[3 * w] = PP * P /\ 3 * w \in Nat
      BY <1>4, WordFacts
    <3>2. x.len <= 3 * w <=> v < PP * P
      BY <1>1, <3>1
    <3>3. t.val < PP <=> v < PP * P
      BY <1>3, <1>4, <3>1, QuotientLess
    <3>4. x.len <= 3 * w <=> k <= 2 * w
      BY <1>4, <2>1
    <3> HIDE DEF PP
    <3> QED
      BY <1>3, <1>4, <2>1, <3>1, <3>2, <3>3, <3>4
  <2>4. t.val < Power[t.len] /\ t.len + 1 <= 2 * MaxBytes
    BY <2>1, <2>2
  <2>5. t.len > 2 * WordBytes <=> t.val >= PRECISION * PRECISION
    BY <2>3
  <2> QED
    BY <1>3, <2>4, <2>5 DEF Number, t, x
<1> QED
  BY <1>3, <1>5, <1>6 DEF t, x

(* Integers come with a fraction of zeros, words as well as longer ones.   *)
LEMMA PaddedIsNumber ==
  ASSUME NEW x, x.len \in Nat, x.val \in Nat, x.val < Power[x.len],
         \/ x.len = WordBytes
         \/ x.len \in WordBytes + 1 .. 2 * WordBytes /\ x.val >= PRECISION
  PROVE  Number(RightPad(x))
<1> DEFINE w == WordBytes
           P == PRECISION
           a == x.val
           n == x.len
           p == Power[n]
<1>1. /\ w \in Nat \ {0} /\ MaxBytes \in Nat /\ 2 * w <= MaxBytes /\ P \in Nat \ {0, 1}
      /\ P = Power[w] /\ a \in Nat /\ n \in Nat /\ p \in Nat \ {0} /\ a < p
  BY WordFacts, PowerFacts
<1>2. RightPad(x).len = n + w /\ RightPad(x).val = a * P
  BY DEF RightPad
<1>3. Power[n + w] = p * P
  BY <1>1, PowerSum
<1>4. n = w => p = P
  BY <1>1
<1>5. n = w \/ (n \in w + 1 .. 2 * w /\ a >= P)
  OBVIOUS
<1> HIDE DEF w, P, a, n, p
<1>6. a * P \in Nat /\ a * P < p * P
  <2>1. a * P \in Nat /\ p * P \in Nat /\ (a + 1) * P = a * P + P /\ a + 1 \in Nat
    BY <1>1
  <2>2. (a + 1) * P <= p * P
    BY <1>1, <2>1, TimesMonotone
  <2> QED
    BY <1>1, <2>1, <2>2
<1>7. n + w \in Nat /\ n + w + 1 <= 2 * MaxBytes
  BY <1>1, <1>5
<1>8. n + w > 2 * w <=> a * P >= P * P
  <2>1. CASE n = w
    <3>1. a * P < P * P /\ P * P \in Nat
      BY <1>1, <1>4, <1>6, <2>1
    <3> QED
      BY <1>1, <1>6, <2>1, <3>1
  <2>2. CASE n \in w + 1 .. 2 * w /\ a >= P
    <3>1. P * P <= a * P /\ P * P \in Nat
      BY <1>1, <2>2, TimesMonotone
    <3> QED
      BY <1>1, <1>6, <2>2, <3>1
  <2> QED
    BY <1>5, <2>1, <2>2
<1> QED
  BY <1>2, <1>3, <1>6, <1>7, <1>8 DEF Number, w, P

-----------------------------------------------------------------------------
(* Numbers of at most MaxBytes bytes are below this power.                 *)
LEMMA ArgumentBelow ==
  ASSUME NEW x, Number(x), Argument(x)
  PROVE  x.val < Power[MaxBytes] /\ Power[MaxBytes] \in Nat
<1>1. Power[x.len] <= Power[MaxBytes]
  BY WordFacts, PowerGrows DEF Number, Argument
<1> QED
  BY <1>1, WordFacts, PowerFacts DEF Number

(* The results of the operations, as fractions of whole numbers.           *)
LEMMA Results ==
  ASSUME NEW x, Number(x), NEW y, Number(y)
  PROVE  /\ ~ MulPanics(x, y) => /\ Number(Mul(x, y)) /\ Number(Add(x, y))
                                 /\ Mul(x, y).val = (x.val * y.val) \div PRECISION
         /\ ~ DivPanics(x, y) => /\ Number(Div(x, y))
                                 /\ Div(x, y).val = (x.val * PRECISION) \div y.val
         /\ ~ SubPanics(x, y) => Number(Sub(x, y))
<1> DEFINE M == MaxBytes
           p == Power[M]
           a == x.val
           b == y.val
<1>1. /\ M \in Nat /\ 2 <= M /\ M + 1 <= 2 * M /\ 2 * M = M + M /\ p \in Nat
      /\ a \in Nat /\ b \in Nat /\ PRECISION \in Nat \ {0}
  BY WordFacts, PowerFacts DEF Number
<1>2. ASSUME ~ MulPanics(x, y) PROVE a < p /\ b < p
  BY <1>2, ArgumentBelow DEF MulPanics
<1>3. ASSUME ~ MulPanics(x, y)
      PROVE  Number(Mul(x, y)) /\ Mul(x, y).val = (a * b) \div PRECISION
  <2>1. a * b \in Nat /\ a * b < p * p
    <3> HIDE DEF p, a, b
    <3>1. a * b <= p * b /\ p \in Nat /\ b \in Nat
      BY <1>1, <1>2, <1>3, TimesMonotone
    <3>2. b * p < p * p
      <4>1. (b + 1) * p <= p * p /\ (b + 1) * p = b * p + p /\ b * p \in Nat /\ p * p \in Nat
        BY <1>1, <1>2, <1>3, TimesMonotone
      <4> QED
        BY <1>1, <1>2, <1>3, <4>1
    <3>3. a * b \in Nat /\ p * b = b * p /\ b * p \in Nat /\ p * p \in Nat
      BY <1>1
    <3> QED
      BY <3>1, <3>2, <3>3
  <2>2. Power[2 * M] = p * p
    BY <1>1, PowerSum
  <2>3. a * b < Power[2 * M]
    BY <2>1, <2>2
  <2> QED
    BY <2>1, <2>3, TruncatedIsNumber DEF Mul
<1>4. ASSUME ~ MulPanics(x, y) PROVE Number(Add(x, y))
  <2>1. 2 * p <= Power[M + 1] /\ Power[M + 1] \in Nat /\ M + 1 \in Nat
    BY <1>1, PowerGrows, PowerFacts
  <2>2. a + b \in Nat /\ a + b < 2 * p
    <3> HIDE DEF p, a, b
    <3> QED
      BY <1>1, <1>2, <1>4
  <2>3. a + b < Power[M + 1] /\ (M + 1) + 1 <= 2 * M
    BY <1>1, <2>1, <2>2
  <2> QED
    BY <2>1, <2>2, <2>3, ShortestIsNumber DEF Add
<1>5. ASSUME ~ DivPanics(x, y)
      PROVE  Number(Div(x, y)) /\ Div(x, y).val = (a * PRECISION) \div b
  <2>1. /\ RightPad(x).val = a * PRECISION /\ RightPad(x).len = x.len + WordBytes
        /\ x.len + WordBytes <= M /\ b \in Nat \ {0}
    BY <1>1, <1>5 DEF DivPanics, RightPad, Argument
  <2>2. a * PRECISION \in Nat /\ a * PRECISION < p
    <3> DEFINE q == Power[x.len]
    <3>1. x.len \in Nat /\ WordBytes \in Nat /\ a < q /\ q \in Nat
      BY WordFacts, PowerFacts DEF Number
    <3>2. Power[x.len + WordBytes] = q * PRECISION
      BY <3>1, PowerSum, WordFacts
    <3>3. Power[x.len + WordBytes] <= p
      BY <1>1, <2>1, <3>1, PowerGrows
    <3> HIDE DEF a, p, q
    <3>4. a * PRECISION \in Nat /\ a * PRECISION < q * PRECISION
      <4>1. /\ (a + 1) * PRECISION <= q * PRECISION /\ a * PRECISION \in Nat
            /\ (a + 1) * PRECISION = a * PRECISION + PRECISION /\ q * PRECISION \in Nat
        BY <1>1, <3>1, TimesMonotone
      <4> QED
        BY <1>1, <4>1
    <3>5. q * PRECISION \in Nat
      BY <1>1, <3>1
    <3> QED
      BY <1>1, <3>2, <3>3, <3>4, <3>5
  <2> DEFINE c == a * PRECISION
  <2> HIDE DEF c
  <2>3. c \div b \in Nat /\ c \div b < p
    <3>1. c \in Nat /\ c < p
      BY <2>2 DEF c
    <3>2. c \div b \in Nat /\ c \div b <= c
      <4>1. /\ c \div b \in Nat /\ b * (c \div b) <= c
        BY <2>1, <3>1, DivNat
      <4>2. 1 * (c \div b) <= b * (c \div b)
        BY <2>1, <4>1, TimesMonotone
      <4>3. 1 * (c \div b) = c \div b /\ b * (c \div b) \in Nat
        BY <2>1, <4>1
      <4> QED
        BY <3>1, <4>1, <4>2, <4>3
    <3> QED
      BY <1>1, <3>1, <3>2
  <2>4. Div(x, y) = Shortest(c \div b)
    BY <2>1 DEF Div, c
  <2>5. Number(Shortest(c \div b)) /\ Shortest(c \div b).val = c \div b
    BY <1>1, <2>3, ShortestIsNumber
  <2> QED
    BY <2>4, <2>5 DEF c
<1>6. ASSUME ~ SubPanics(x, y) PROVE Number(Sub(x, y))
  <2>1. a < p /\ ~ (a < b)
    BY <1>2, <1>6 DEF SubPanics
  <2>2. a - b \in Nat /\ a - b < p
    <3> HIDE DEF a, b, p
    <3> QED
      BY <1>1, <2>1
  <2> QED
    BY <1>1, <2>2, ShortestIsNumber DEF Sub
<1> QED
  BY <1>3, <1>4, <1>5, <1>6

(* Whatever is pushed and computed, the stack holds numbers.               *)
NumbersInv == Number(top) /\ Number(below)

(* What can be pushed is a number: ONE, a word as from_int makes it, and   *)
(* an integer of two words padded on the right (fixed_point_64.py).        *)
LEMMA IntegersAreNumbers ==
  /\ Number(ONE) /\ Number(FromInt(0))
  /\ \A n \in 0 .. PRECISION - 1 : Number(FromInt(n))
  /\ \A n \in PRECISION .. PRECISION * PRECISION - 1 : Number(RightPad(Shortest(n)))
<1> DEFINE w == WordBytes
           P == PRECISION
           PP == P * P
<1>1. /\ w \in Nat \ {0} /\ MaxBytes \in Nat /\ 2 * w <= MaxBytes
      /\ P \in Nat \ {0, 1} /\ P = Power[w] /\ Power[2 * w] = PP /\ PP \in Nat
  BY WordFacts
<1> HIDE DEF PP
<1>2. Number(ONE)
  <2>1. 2 * Power[w] <= Power[w + 1] /\ w + 1 \in Nat /\ Power[w + 1] \in Nat
    BY <1>1, PowerGrows, PowerFacts
  <2>2. P < Power[w + 1] /\ (w + 1) + 1 <= 2 * MaxBytes
    BY <1>1, <2>1
  <2> QED
    BY <1>1, <2>1, <2>2, ShortestIsNumber DEF ONE
<1>3. ASSUME NEW n \in 0 .. P - 1 PROVE Number(FromInt(n))
  <2> DEFINE x == [len |-> w, val |-> n]
  <2>1. x.len \in Nat /\ x.val \in Nat /\ x.val < Power[x.len] /\ x.len = w
    BY <1>1
  <2>2. FromInt(n) = RightPad(x)
    BY DEF FromInt
  <2> HIDE DEF x
  <2> QED
    BY <2>1, <2>2, PaddedIsNumber
<1>4. ASSUME NEW n \in P .. PP - 1 PROVE Number(RightPad(Shortest(n)))
  <2> DEFINE x == Shortest(n)
  <2>1. n \in Nat /\ P <= n /\ n < PP
    BY <1>1
  <2>2. Number(x) /\ x.val = n /\ x.len <= 2 * w
    <3>1. 2 * w \in Nat /\ 2 * w + 1 <= 2 * MaxBytes
      BY <1>1
    <3> QED
      BY <1>1, <2>1, <3>1, ShortestIsNumber
  <2>3. ~ (x.len <= w)
    <3>1. n < Power[2 * MaxBytes]
      <4>1. Power[2 * w] <= Power[2 * MaxBytes] /\ Power[2 * MaxBytes] \in Nat
        BY <1>1, PowerGrows, PowerFacts
      <4> QED
        BY <1>1, <2>1, <4>1
    <3>2. x.len <= w <=> n < Power[w]
      BY <1>1, <2>1, <3>1, ShortestFacts
    <3> QED
      BY <1>1, <2>1, <3>2
  <2> HIDE DEF x
  <2>4. /\ x.len \in Nat /\ x.val \in Nat /\ x.val < Power[x.len]
        /\ x.len \in w + 1 .. 2 * w /\ x.val >= P
    BY <1>1, <2>1, <2>2, <2>3 DEF Number
  <2> QED
    BY <2>4, PaddedIsNumber DEF x
<1>5. 0 \in 0 .. P - 1
  BY <1>1
<1> QED
  BY <1>2, <1>3, <1>4, <1>5 DEF PP

(* Every operation of helpers/fixed_point_64.py returns a number.          *)
LEMMA NumbersInvariance == NumbersSpec => []NumbersInv
<1>1. NumbersInit => NumbersInv
  BY IntegersAreNumbers DEF NumbersInit, NumbersInv
<1>2. NumbersInv /\ [NumbersNext]_numbers => NumbersInv'
  <2> SUFFICES ASSUME NumbersInv, [NumbersNext]_numbers PROVE NumbersInv'
    OBVIOUS
  <2>1. CASE PushOne \/ PushInt \/ PushBigInt
    <3>1. Number(top)'
      BY <2>1, IntegersAreNumbers DEF PushOne, PushInt, PushBigInt
    <3> QED
      BY <2>1, <3>1 DEF NumbersInv, PushOne, PushInt, PushBigInt
  <2>2. CASE Compute
    <3>1. \/ ~ MulPanics(below, top) /\ (top' = Mul(below, top) \/ top' = Add(below, top))
          \/ ~ DivPanics(below, top) /\ top' = Div(below, top)
          \/ ~ SubPanics(below, top) /\ top' = Sub(below, top)
      BY <2>2 DEF Compute
    <3>2. Number(top)'
      BY <3>1, Results DEF NumbersInv
    <3> QED
      BY <2>2, <3>2 DEF NumbersInv, Compute
  <2>3. CASE UNCHANGED numbers
    BY <2>3 DEF numbers, NumbersInv
  <2> QED
    BY <2>1, <2>2, <2>3 DEF NumbersNext
<1> QED
  BY <1>1, <1>2, PTL DEF NumbersSpec

-----------------------------------------------------------------------------
(* to_int refuses what does not fit a word, and nothing else, after any    *)
(* chain of operations (fixed_point_64.py).                                *)
THEOREM IntegersAreDefined == NumbersSpec => []ToIntDefined
<1>1. NumbersInv => ToIntDefined
  <2> SUFFICES ASSUME Number(top)
               PROVE  ToIntPanics(top) <=> top.val >= PRECISION * PRECISION
    BY DEF NumbersInv, ToIntDefined
  <2>1. Truncate(top).len = IF top.len <= WordBytes THEN 0 ELSE top.len - WordBytes
    BY IntegralPart DEF Number
  <2>2. Truncate(top).len > WordBytes <=> top.len > 2 * WordBytes
    BY <2>1, WordFacts DEF Number
  <2> QED
    BY <2>2 DEF Number, ToIntPanics
<1> QED
  BY <1>1, NumbersInvariance, PTL

(* Rounding down twice loses at most one unit more than the divisor's      *)
(* integral part, and gains nothing.                                       *)
LEMMA RoundedBack ==
  ASSUME NEW x \in Nat, NEW y \in Nat \ {0}, NEW P \in Nat \ {0},
         NEW q, q = (x * P) \div y
  PROVE  /\ (q * y) \div P <= x
         /\ x - (q * y) \div P <= y \div P + 1
<1> DEFINE back == (q * y) \div P
           z == y \div P
           xP == x * P
           qy == q * y
<1>1. xP \in Nat
  OBVIOUS
<1>2. q \in Nat /\ qy <= xP /\ xP < qy + y /\ qy \in Nat
  <2> HIDE DEF xP
  <2>1. xP \div y \in Nat /\ y * (xP \div y) <= xP /\ xP < y * (xP \div y) + y
    BY <1>1, DivNat
  <2>2. q = xP \div y
    BY DEF xP
  <2>3. q * y = y * q /\ q * y \in Nat
    BY <2>1, <2>2
  <2> QED
    BY <2>1, <2>2, <2>3
<1> HIDE DEF qy
<1>3. back \in Nat /\ P * back <= qy /\ qy < P * back + P
  BY <1>2, DivNat DEF qy
<1>4. z \in Nat /\ y < P * z + P
  BY DivNat
<1> HIDE DEF back, z, xP
<1>5. back <= x
  <2>1. back * P <= x * P
    <3>1. back * P = P * back /\ P * back \in Nat
      BY <1>3
    <3> QED
      BY <1>1, <1>2, <1>3, <3>1 DEF xP
  <2> QED
    BY <1>3, <2>1, TimesCancel
<1>6. x - back <= z + 1
  <2>1. x * P < (back + z + 2) * P
    <3>1. /\ (back + z + 2) * P = P * back + P * z + (P + P)
          /\ P * back \in Nat /\ P * z \in Nat
      BY <1>3, <1>4
    <3>2. xP < (P * back + P) + (P * z + P)
      BY <1>1, <1>2, <1>3, <1>4, <3>1
    <3>3. (P * back + P) + (P * z + P) = P * back + P * z + (P + P)
      BY <3>1
    <3> QED
      BY <3>1, <3>2, <3>3 DEF xP
  <2>2. x < back + z + 2
    <3>1. back + z + 2 \in Nat
      BY <1>3, <1>4
    <3> QED
      BY <2>1, <3>1, TimesCancel
  <2> QED
    BY <1>3, <1>4, <2>2
<1> QED
  BY <1>5, <1>6 DEF back, z, qy

(* A quotient multiplied by its divisor is the dividend again, rounded     *)
(* down within the bound (fixed_point_64.py, div and mul).                 *)
THEOREM QuotientsMultiplyBack == NumbersSpec => []QuotientBounded
<1>1. NumbersInv => QuotientBounded
  <2> SUFFICES ASSUME Number(top), Number(below), ~ DivPanics(below, top),
                      Argument(Div(below, top))
               PROVE  LET back == Mul(Div(below, top), top)
                      IN  /\ back.val <= below.val
                          /\ below.val - back.val <= top.val \div PRECISION + 1
    BY DEF NumbersInv, QuotientBounded
  <2> DEFINE d == Div(below, top)
  <2>1. Number(d) /\ d.val = (below.val * PRECISION) \div top.val
    BY Results
  <2>2. ~ MulPanics(d, top)
    BY DEF MulPanics, DivPanics
  <2>3. Mul(d, top).val = (d.val * top.val) \div PRECISION
    BY <2>1, <2>2, Results
  <2>4. below.val \in Nat /\ top.val \in Nat \ {0} /\ PRECISION \in Nat \ {0}
    BY WordFacts DEF Number, DivPanics
  <2> HIDE DEF d
  <2>5. /\ (d.val * top.val) \div PRECISION <= below.val
        /\ below.val - (d.val * top.val) \div PRECISION <= top.val \div PRECISION + 1
    BY <2>1, <2>4, RoundedBack
  <2> QED
    BY <2>3, <2>5 DEF d
<1> QED
  BY <1>1, NumbersInvariance, PTL

(* Parts rounded down to integers never exceed the whole rounded down, and *)
(* fall short of it by less than one each (fixed_point_64.py, to_int).     *)
THEOREM PartsStayWithinWhole == NumbersSpec => []PartsWithinWhole
<1>1. NumbersInv => PartsWithinWhole
  <2> SUFFICES ASSUME Number(top), Number(below)
               PROVE  /\ ToInt(below) + ToInt(top) <= ToInt(Add(below, top))
                      /\ ToInt(Add(below, top)) <= ToInt(below) + ToInt(top) + 1
    BY DEF NumbersInv, PartsWithinWhole
  <2> DEFINE a == below.val
             b == top.val
             P == PRECISION
             N == 2 * MaxBytes
  <2>1. a \in Nat /\ b \in Nat /\ P \in Nat \ {0} /\ N \in Nat \ {0} /\ N - 1 \in Nat
    BY WordFacts DEF Number
  <2>2. a + b \in Nat /\ a + b < Power[N]
    <3>1. \A x \in {top, below} : x.val < Power[N - 1]
      <4> SUFFICES ASSUME NEW x, Number(x) PROVE x.val < Power[N - 1]
        OBVIOUS
      <4>1. x.len \in Nat /\ x.len <= N - 1
        BY <2>1 DEF Number
      <4>2. Power[x.len] <= Power[N - 1] /\ Power[x.len] \in Nat /\ Power[N - 1] \in Nat
        BY <2>1, <4>1, PowerGrows, PowerFacts
      <4> QED
        BY <4>2 DEF Number
    <3>2. 2 * Power[N - 1] <= Power[N] /\ Power[N - 1] \in Nat /\ Power[N] \in Nat
      BY <2>1, PowerGrows, PowerFacts
    <3> HIDE DEF N
    <3> QED
      BY <2>1, <3>1, <3>2
  <2>3. ToInt(Add(below, top)) = (a + b) \div P
    BY <2>2, TruncatedIsNumber DEF ToInt, Add
  <2>4. ToInt(below) = a \div P /\ ToInt(top) = b \div P
    BY IntegralPart DEF ToInt, Number
  <2> HIDE DEF a, b, P
  <2>5. /\ a \div P + b \div P <= (a + b) \div P
        /\ (a + b) \div P <= a \div P + b \div P + 1
    <3> DEFINE i == a \div P
               j == b \div P
               k == (a + b) \div P
    <3>1. /\ i \in Nat /\ P * i <= a /\ a < P * i + P
          /\ j \in Nat /\ P * j <= b /\ b < P * j + P
      BY <2>1, DivNat
    <3>2. k \in Nat /\ P * k <= a + b /\ a + b < P * k + P
      BY <2>1, DivNat
    <3> HIDE DEF i, j, k
    <3>3. /\ P * i \in Nat /\ P * j \in Nat /\ P * k \in Nat
          /\ (i + j) * P = P * i + P * j /\ (k + 1) * P = P * k + P
          /\ k * P = P * k /\ (i + j + 2) * P = (P * i + P) + (P * j + P)
      BY <2>1, <3>1, <3>2
    <3>4. (i + j) * P < (k + 1) * P /\ k * P < (i + j + 2) * P
      BY <2>1, <3>1, <3>2, <3>3
    <3>5. i + j < k + 1 /\ k < i + j + 2
      <4>1. i + j \in Nat /\ k + 1 \in Nat /\ i + j + 2 \in Nat
        BY <3>1, <3>2
      <4> QED
        BY <2>1, <3>2, <3>4, <4>1, TimesCancel
    <3>6. i + j <= k /\ k <= i + j + 1
      BY <3>1, <3>2, <3>5
    <3> QED
      BY <3>6 DEF i, j, k
  <2> QED
    BY <2>3, <2>4, <2>5
<1> QED
  BY <1>1, NumbersInvariance, PTL

-----------------------------------------------------------------------------
(* Packed state                                                            *)

(* The members of a schema have a kind and a length.                       *)
LEMMA MemberFacts ==
  /\ Len(Members) \in Nat /\ Ids = 1 .. Len(Members)
  /\ \A i \in Ids : /\ Members[i].kind \in {"uint", "bytes"} /\ Members[i].length \in Nat
                    /\ Members[i].kind = "uint" => Members[i].length = WordBytes
<1>1. /\ Members \in Seq([kind : {"uint", "bytes"}, length : Nat])
      /\ \A i \in Ids : Members[i].kind = "uint" => Members[i].length = WordBytes
  BY PackedAssumption DEF Ids
<1>2. /\ Len(Members) \in Nat /\ DOMAIN Members = 1 .. Len(Members)
      /\ Members \in [1 .. Len(Members) -> [kind : {"uint", "bytes"}, length : Nat]]
  BY <1>1, LenProperties
<1> QED
  BY <1>1, <1>2 DEF Ids

(* What a slot holds tells its kind.                                       *)
LEMMA SlotFacts ==
  /\ \A n : Uint(n)[1] = "uint" /\ Uint(n)[2] = n
  /\ \A b : Str(b)[1] = "bytes" /\ Str(b)[2] = b
BY DEF Uint, Str

(* Offsets add up the lengths (Schema.load).                               *)
LEMMA OffsetFacts ==
  /\ Offset(1) = 0
  /\ \A i \in Ids : Offset(i) \in Nat /\ Offset(i + 1) = Offset(i) + Members[i].length
<1> DEFINE lengths == [m \in Ids |-> Members[m].length]
<1>1. lengths \in [Ids -> Nat] /\ Ids = 1 .. Len(Members) /\ Len(Members) \in Nat
  BY MemberFacts
<1>2. \A i : Offset(i) = SumFunctionOnSet(lengths, 1 .. i - 1)
  BY DEF Offset
<1>3. \A i \in Ids : lengths[i] = Members[i].length
  OBVIOUS
<1> HIDE DEF lengths
<1>4. IsFiniteSet(Ids) /\ {} \in SUBSET Ids /\ IsFiniteSet({})
  BY <1>1, FS_Interval, FS_EmptySet
<1>5. Offset(1) = 0
  <2>1. 1 .. 1 - 1 = {}
    OBVIOUS
  <2> QED
    BY <1>1, <1>2, <1>4, <2>1, SumOfPart, PairsFinite
<1>6. ASSUME NEW i \in Ids
      PROVE  Offset(i) \in Nat /\ Offset(i + 1) = Offset(i) + Members[i].length
  <2> DEFINE T == 1 .. i - 1
  <2>1. /\ T \in SUBSET Ids /\ IsFiniteSet(T) /\ i \in Ids \ T
        /\ 1 .. (i + 1) - 1 = T \union {i}
    <3>1. i \in Nat \ {0} /\ i <= Len(Members)
      BY <1>1
    <3>2. IsFiniteSet(1 .. i - 1)
      BY <3>1, FS_Interval
    <3> QED
      BY <1>1, <3>1, <3>2
  <2> HIDE DEF T
  <2>2. /\ SumFunctionOnSet(lengths, T) \in Nat
        /\ SumFunctionOnSet(lengths, T \union {i}) = lengths[i] + SumFunctionOnSet(lengths, T)
    BY <1>1, <2>1, SumOfPart, SumInsert
  <2>3. /\ Offset(i) = SumFunctionOnSet(lengths, T)
        /\ Offset(i + 1) = SumFunctionOnSet(lengths, T \union {i})
    BY <1>2, <2>1 DEF T
  <2> QED
    BY <1>3, <2>2, <2>3, MemberFacts
<1> QED
  BY <1>5, <1>6

(* An integer has the bytes of a word, and is found in them again.         *)
LEMMA IntegersAreWords ==
  ASSUME NEW n \in 0 .. WordValues - 1
  PROVE  /\ Itob(n) \in [1 .. WordBytes -> Nat] /\ Itob(n) \in Seq(Nat)
         /\ Len(Itob(n)) = WordBytes
         /\ Btoi(Itob(n)) = n
<1> DEFINE w == WordBytes
           B == ByteValues
           b == Itob(n)
           terms == [k \in 1 .. w |-> b[k] * Power[w - k]]
<1>1. /\ w \in Nat /\ B \in Nat \ {0} /\ n \in Nat /\ n < Power[w]
      /\ \A k \in 0 .. w : Power[k] \in Nat \ {0}
  BY PowerFacts, ByteWordsAssumption DEF WordValues
<1>2. b = [k \in 1 .. w |-> (n \div Power[w - k]) % B]
  BY DEF Itob
<1>3. \A k \in 1 .. w : n \div Power[w - k] \in Nat /\ b[k] = (n \div Power[w - k]) % B /\ b[k] \in Nat
  <2> TAKE k \in 1 .. w
  <2>1. w - k \in 0 .. w
    BY <1>1
  <2>2. n \div Power[w - k] \in Nat
    BY <1>1, <2>1, DivNat
  <2>3. (n \div Power[w - k]) % B \in 0 .. B - 1
    <3> DEFINE m == n \div Power[w - k]
    <3>1. m \in Int /\ B \in Nat \ {0}
      BY <1>1, <2>2
    <3> HIDE DEF m, B
    <3>2. m % B \in 0 .. B - 1
      BY <3>1, DivMod
    <3> QED
      BY <3>2 DEF m
  <2> QED
    BY <1>1, <1>2, <2>2, <2>3
<1>4. b \in [1 .. w -> Nat]
  BY <1>2, <1>3
<1>5. b \in Seq(Nat) /\ Len(b) = w /\ DOMAIN b = 1 .. w
  BY <1>1, <1>4, SeqDef, LenProperties
<1> HIDE DEF b
<1>6. terms \in [1 .. w -> Nat]
  <2>1. ASSUME NEW k \in 1 .. w PROVE b[k] * Power[w - k] \in Nat
    <3>1. w - k \in 0 .. w
      BY <1>1
    <3>2. b[k] \in Nat /\ Power[w - k] \in Nat
      BY <1>1, <1>3, <3>1
    <3> QED
      BY <3>2
  <2> QED
    BY <2>1
<1>7. Btoi(b) = SumFunctionOnSet(terms, 1 .. w)
  <2>1. DOMAIN terms = 1 .. w
    OBVIOUS
  <2>2. Btoi(b) = SumFunction(terms)
    BY <1>5 DEF Btoi
  <2> QED
    BY <2>1, <2>2 DEF SumFunction
<1> DEFINE Value(j) == (n \div Power[w - j]) * Power[w - j]
           Good == {j \in Nat : j <= w => SumFunctionOnSet(terms, 1 .. j) = Value(j)}
<1>8. 0 \in Good
  <2>1. 1 .. 0 = {} /\ {} \in SUBSET (1 .. w) /\ IsFiniteSet({}) /\ IsFiniteSet(1 .. w)
    BY <1>1, FS_EmptySet, FS_Interval
  <2>2. SumFunctionOnSet(terms, 1 .. 0) = 0
    <3> HIDE DEF terms
    <3> QED
      BY <1>6, <2>1, SumOfPart, PairsFinite
  <2>3. n \div Power[w] = 0
    <3> DEFINE P == Power[w]
    <3>1. P \in Nat \ {0} /\ n \in 0 .. P - 1 /\ n = P * 0 + n
      BY <1>1
    <3> HIDE DEF P
    <3>2. n \div P = 0
      BY <3>1, DivUnique
    <3> QED
      BY <3>2 DEF P
  <2>4. Value(0) = 0
    <3>1. w - 0 = w /\ Power[w] \in Nat
      BY <1>1
    <3> QED
      BY <2>3, <3>1
  <2> QED
    BY <2>2, <2>4
<1>9. ASSUME NEW j \in Good PROVE j + 1 \in Good
  <2> SUFFICES ASSUME j + 1 <= w
               PROVE  SumFunctionOnSet(terms, 1 .. j + 1) = Value(j + 1)
    OBVIOUS
  <2> DEFINE P == Power[w - (j + 1)]
             q == n \div P
  <2>1. /\ j \in Nat /\ j + 1 \in 1 .. w /\ w - (j + 1) \in Nat
        /\ (w - (j + 1)) + 1 = w - j
    BY <1>1
  <2>2. P \in Nat \ {0} /\ Power[w - j] = B * P
    BY <2>1, PowerFacts
  <2>3. SumFunctionOnSet(terms, 1 .. j) = Value(j)
    <3>1. j <= w
      BY <1>1, <2>1
    <3> HIDE DEF terms, Value
    <3> QED
      BY <3>1
  <2>4. SumFunctionOnSet(terms, 1 .. j + 1) = terms[j + 1] + SumFunctionOnSet(terms, 1 .. j)
    <3> DEFINE T == 1 .. j
               S == 1 .. w
               k == j + 1
    <3>1. IsFiniteSet(T)
      BY <2>1, FS_Interval
    <3>2. T \in SUBSET S /\ k \in S \ T /\ 1 .. k = T \union {k}
      BY <1>1, <2>1
    <3> HIDE DEF terms
    <3>3. terms \in [S -> Nat]
      BY <1>6
    <3> HIDE DEF T, k, S
    <3>4. SumFunctionOnSet(terms, T \union {k}) = terms[k] + SumFunctionOnSet(terms, T)
      BY <3>1, <3>2, <3>3, SumInsert
    <3> QED
      BY <3>2, <3>4 DEF T, k
  <2>5. terms[j + 1] = (q % B) * P
    BY <1>3, <2>1
  <2>6. Value(j) = (q \div B) * (B * P)
    BY <1>1, <2>2, DivTwice
  <2>7. q \in Nat
    BY <1>1, <2>2, DivNat
  <2>8. Value(j + 1) = q * P
    OBVIOUS
  <2> HIDE DEF Value, terms, P, q
  <2>9. (q % B) * P + (q \div B) * (B * P) = q * P
    <3> DEFINE x == q % B
               y == q \div B
    <3>1. x \in Int /\ y \in Int /\ q = B * y + x
      BY <1>1, <2>7, DivMod
    <3> HIDE DEF x, y
    <3>2. x * P + y * (B * P) = (B * y + x) * P
      BY <1>1, <2>2, <3>1
    <3> QED
      BY <3>1, <3>2 DEF x, y
  <2> QED
    BY <2>3, <2>4, <2>5, <2>6, <2>8, <2>9
<1>10. Good = Nat
  <2> HIDE DEF Good
  <2>1. Good \in SUBSET Nat
    BY DEF Good
  <2> QED
    BY <1>8, <1>9, <2>1, SetInduction
<1>11. SumFunctionOnSet(terms, 1 .. w) = Value(w)
  BY <1>1, <1>10
<1>12. Value(w) = n
  <2>1. w - w = 0 /\ Power[0] = 1 /\ n \div 1 = n /\ n * 1 = n
    BY <1>1, PowerFacts
  <2> QED
    BY <2>1
<1> QED
  BY <1>4, <1>5, <1>7, <1>11, <1>12 DEF b

(* What defines the concatenation of the first n strings of s.             *)
Flattens(g, s, n) ==
  g = [i \in 1 .. n |-> IF i = 1 THEN s[i] ELSE g[i - 1] \o s[i]]

(* Such functions exist.                                                   *)
LEMMA FlattensExist == ASSUME NEW s PROVE \A n \in Nat : \E g : Flattens(g, s, n)
<1> DEFINE Good == {n \in Nat : \E g : Flattens(g, s, n)}
<1>1. 0 \in Good
  <2> DEFINE g == [i \in 1 .. 0 |-> s]
  <2>1. Flattens(g, s, 0)
    BY DEF Flattens
  <2> QED
    BY <2>1
<1>2. ASSUME NEW n \in Good PROVE n + 1 \in Good
  <2>1. n \in Nat /\ \E g : Flattens(g, s, n)
    OBVIOUS
  <2>2. PICK g : Flattens(g, s, n)
    BY <2>1
  <2> DEFINE last == IF n + 1 = 1 THEN s[n + 1] ELSE g[n] \o s[n + 1]
             h == [i \in 1 .. n + 1 |-> IF i = n + 1 THEN last ELSE g[i]]
  <2>3. ASSUME NEW i \in 1 .. n + 1
        PROVE  h[i] = IF i = 1 THEN s[i] ELSE h[i - 1] \o s[i]
    <3>1. CASE i = n + 1
      <4>1. i # 1 => i - 1 \in 1 .. n + 1 /\ i - 1 # n + 1 /\ i - 1 = n
        BY <2>1, <3>1
      <4> QED
        BY <3>1, <4>1
    <3>2. CASE i # n + 1
      <4>1. i \in 1 .. n /\ (i # 1 => i - 1 \in 1 .. n + 1 /\ i - 1 # n + 1)
        BY <2>1, <3>2
      <4>2. g[i] = IF i = 1 THEN s[i] ELSE g[i - 1] \o s[i]
        BY <2>2, <4>1 DEF Flattens
      <4> QED
        BY <3>2, <4>1, <4>2
    <3> QED
      BY <3>1, <3>2
  <2>4. h = [i \in 1 .. n + 1 |-> h[i]]
    OBVIOUS
  <2> HIDE DEF h
  <2>5. Flattens(h, s, n + 1)
    BY <2>3, <2>4 DEF Flattens
  <2> QED
    BY <2>1, <2>5
<1>3. Good = Nat
  <2> HIDE DEF Good
  <2>1. Good \in SUBSET Nat
    BY DEF Good
  <2> QED
    BY <1>1, <1>2, <2>1, SetInduction
<1> QED
  BY <1>3

(* Concat of one string or more appends them one after the other.          *)
LEMMA FlattenFacts ==
  ASSUME NEW s, NEW n \in Nat \ {0}, Len(s) = n
  PROVE  \E g : /\ FlattenSeq(s) = g[n] /\ g[1] = s[1]
                /\ \A k \in 1 .. n - 1 : g[k + 1] = g[k] \o s[k + 1]
<1> DEFINE g == CHOOSE f : Flattens(f, s, n)
<1>1. Flattens(g, s, n)
  BY FlattensExist
<1>2. FlattenSeq(s) = g[n]
  BY DEF FlattenSeq, Flattens
<1> HIDE DEF g
<1>3. g[1] = s[1]
  BY <1>1 DEF Flattens
<1>4. ASSUME NEW k \in 1 .. n - 1 PROVE g[k + 1] = g[k] \o s[k + 1]
  <2>1. k + 1 \in 1 .. n /\ k + 1 # 1 /\ (k + 1) - 1 = k
    OBVIOUS
  <2>2. g[k + 1] = IF k + 1 = 1 THEN s[k + 1] ELSE g[(k + 1) - 1] \o s[k + 1]
    BY <1>1, <2>1 DEF Flattens
  <2> QED
    BY <2>1, <2>2
<1> QED
  BY <1>2, <1>3, <1>4

(* What the strings of integers and of byte strings consist of.            *)
Symbols == Nat \union Bytes

(* The bytes b hold the strings of vals for the first n members, each at   *)
(* its offset.                                                             *)
Holds(b, vals, n) ==
  /\ b \in Seq(Symbols)
  /\ \A i \in 1 .. n : /\ Offset(i) + Members[i].length <= Len(b)
                       /\ \A p \in 1 .. Members[i].length : b[Offset(i) + p] = vals[i][p]

(* And nothing else.                                                       *)
Packs(b, vals, n) == Holds(b, vals, n) /\ Len(b) = Offset(n + 1)

(* Appending the next member's string keeps those before it in place.      *)
LEMMA AppendPacks ==
  ASSUME NEW vals, NEW n \in Nat, n + 1 \in Ids, vals[n + 1] \in Seq(Symbols),
         Len(vals[n + 1]) = Members[n + 1].length, NEW b, Packs(b, vals, n)
  PROVE  Packs(b \o vals[n + 1], vals, n + 1)
<1> DEFINE m == n + 1
           c == vals[m]
<1>1. /\ b \in Seq(Symbols) /\ Len(b) \in Nat /\ Len(b) = Offset(m)
      /\ c \in Seq(Symbols) /\ Len(c) \in Nat /\ Len(c) = Members[m].length /\ m \in Ids
  BY LenProperties DEF Packs, Holds
<1> HIDE DEF c
<1>2. /\ b \o c \in Seq(Symbols) /\ Len(b \o c) = Len(b) + Len(c)
      /\ \A p \in 1 .. Len(b) + Len(c) :
           (b \o c)[p] = IF p <= Len(b) THEN b[p] ELSE c[p - Len(b)]
  BY <1>1, ConcatProperties
<1>3. Len(b \o c) = Offset(m + 1)
  BY <1>1, <1>2, OffsetFacts
<1>4. ASSUME NEW i \in 1 .. m
      PROVE  /\ Offset(i) + Members[i].length <= Len(b) + Len(c)
             /\ \A p \in 1 .. Members[i].length : (b \o c)[Offset(i) + p] = vals[i][p]
  <2>1. i \in Ids /\ Offset(i) \in Nat /\ Members[i].length \in Nat
    BY <1>1, MemberFacts, OffsetFacts
  <2>2. CASE i = m
    <3>1. Offset(i) + Members[i].length = Len(b) + Len(c)
      BY <1>1, <2>2
    <3>2. ASSUME NEW p \in 1 .. Members[i].length PROVE (b \o c)[Offset(i) + p] = vals[i][p]
      <4>1. /\ Offset(i) + p \in 1 .. Len(b) + Len(c) /\ ~ (Offset(i) + p <= Len(b))
            /\ (Offset(i) + p) - Len(b) = p
        BY <1>1, <2>1, <2>2
      <4>2. (b \o c)[Offset(i) + p] = c[p]
        BY <1>2, <4>1
      <4> QED
        BY <2>2, <4>2 DEF c
    <3>3. Offset(i) + Members[i].length <= Len(b) + Len(c)
      BY <1>1, <2>1, <3>1
    <3> QED
      BY <3>2, <3>3
  <2>3. CASE i # m
    <3> DEFINE o == Offset(i)
               l == Members[i].length
               k == Len(b)
               d == Len(c)
    <3>1. i \in 1 .. n
      BY <2>3
    <3>2. o + l <= k /\ \A p \in 1 .. l : b[o + p] = vals[i][p]
      BY <3>1 DEF Packs, Holds
    <3>3. o \in Nat /\ l \in Nat /\ k \in Nat /\ d \in Nat
      BY <1>1, <2>1
    <3>4. \A p \in 1 .. k + d : (b \o c)[p] = IF p <= k THEN b[p] ELSE c[p - k]
      BY <1>2
    <3> HIDE DEF o, l, k, d
    <3>5. ASSUME NEW p \in 1 .. l PROVE (b \o c)[o + p] = vals[i][p]
      <4>1. o + p \in 1 .. k + d /\ o + p <= k
        BY <3>2, <3>3
      <4> QED
        BY <3>2, <3>4, <4>1
    <3>6. o + l <= k + d
      BY <3>2, <3>3
    <3> QED
      BY <3>5, <3>6 DEF o, l, k, d
  <2> QED
    BY <2>2, <2>3
<1>5. Packs(b \o c, vals, m)
  BY <1>2, <1>3, <1>4 DEF Packs, Holds
<1> QED
  BY <1>5 DEF c

(* Concatenated, strings of the members' lengths are found at their        *)
(* offsets (Schema.store).                                                 *)
LEMMA ConcatHolds ==
  ASSUME NEW vals \in [Ids -> Seq(Symbols)], Ids # {},
         \A i \in Ids : Len(vals[i]) = Members[i].length
  PROVE  Holds(FlattenSeq(vals), vals, Len(Members))
<1> DEFINE n == Len(Members)
<1>1. n \in Nat \ {0} /\ Ids = 1 .. n
  BY MemberFacts
<1>2. Len(vals) = n
  <2>1. vals \in [1 .. n -> Seq(Symbols)]
    BY <1>1
  <2>2. vals \in Seq(Seq(Symbols))
    BY <1>1, <2>1, SeqDef
  <2>3. Len(vals) \in Nat /\ DOMAIN vals = 1 .. Len(vals)
    BY <2>2, LenProperties
  <2>4. DOMAIN vals = 1 .. n
    BY <2>1
  <2> HIDE DEF n
  <2> QED
    BY <1>1, <2>3, <2>4
<1> HIDE DEF n
<1>3. PICK g : /\ FlattenSeq(vals) = g[n] /\ g[1] = vals[1]
               /\ \A k \in 1 .. n - 1 : g[k + 1] = g[k] \o vals[k + 1]
  BY <1>1, <1>2, FlattenFacts
<1> DEFINE Good == {k \in Nat : k + 1 <= n => Packs(g[k + 1], vals, k + 1)}
<1>4. Packs(g[1], vals, 1)
  <2>1. /\ 1 \in Ids /\ Offset(1) = 0 /\ Offset(1 + 1) = Offset(1) + Members[1].length
        /\ Members[1].length \in Nat
    <3>1. 1 \in Ids
      BY <1>1
    <3> QED
      BY <3>1, OffsetFacts, MemberFacts
  <2>2. g[1] = vals[1] /\ vals[1] \in Seq(Symbols) /\ Len(vals[1]) = Members[1].length
    BY <1>3, <2>1
  <2>3. ASSUME NEW i \in 1 .. 1
        PROVE  /\ Offset(i) + Members[i].length <= Len(g[1])
               /\ \A p \in 1 .. Members[i].length : g[1][Offset(i) + p] = vals[i][p]
    <3>1. i = 1
      OBVIOUS
    <3> QED
      BY <2>1, <2>2, <3>1
  <2>4. Holds(g[1], vals, 1)
    BY <2>2, <2>3 DEF Holds
  <2> QED
    BY <2>1, <2>2, <2>4 DEF Packs
<1>5. 0 \in Good
  <2>1. 0 + 1 = 1
    OBVIOUS
  <2> QED
    BY <1>4, <2>1
<1>6. ASSUME NEW k \in Good PROVE k + 1 \in Good
  <2>1. k \in Nat /\ (k + 1 <= n => Packs(g[k + 1], vals, k + 1))
    OBVIOUS
  <2> SUFFICES ASSUME (k + 1) + 1 <= n PROVE Packs(g[(k + 1) + 1], vals, (k + 1) + 1)
    BY <2>1
  <2> DEFINE j == k + 1
  <2>2. j \in Nat /\ j \in 1 .. n - 1 /\ j + 1 \in Ids /\ Packs(g[j], vals, j)
    BY <1>1, <2>1
  <2> HIDE DEF j
  <2>3. Packs(g[j] \o vals[j + 1], vals, j + 1)
    BY <2>2, AppendPacks
  <2>4. g[j + 1] = g[j] \o vals[j + 1]
    BY <1>3, <2>2
  <2>5. Packs(g[j + 1], vals, j + 1)
    BY <2>3, <2>4
  <2> QED
    BY <2>5 DEF j
<1>7. Good = Nat
  <2> HIDE DEF Good
  <2>1. Good \in SUBSET Nat
    BY DEF Good
  <2> QED
    BY <1>5, <1>6, <2>1, SetInduction
<1>8. Packs(g[n], vals, n)
  <2>1. n - 1 \in Nat /\ (n - 1) + 1 = n
    BY <1>1
  <2>2. n - 1 \in Good
    BY <1>7, <2>1
  <2> QED
    BY <1>1, <2>1, <2>2
<1> QED
  BY <1>3, <1>8 DEF n, Packs

(* What a slot of each member can hold, and what of it can be stored.      *)
Storable(i) ==
  IF Members[i].kind = "uint" THEN {Uint(n) : n \in 0 .. WordValues - 1}
  ELSE {Str(b) : b \in [1 .. Members[i].length -> Bytes]}
InSlot(i) ==
  IF Members[i].kind = "uint" THEN {Uint(n) : n \in 0 .. WordValues - 1}
  ELSE {Uint(0)} \union {Str(b) : b \in Seq(Bytes)}

(* A member's string in the storage.                                       *)
Encoded(v, i) == IF Members[i].kind = "uint" THEN Itob(v[2]) ELSE v[2]
Strings(vals) == [i \in Ids |-> Encoded(vals[i], i)]

Encodes(b, vals) ==
  b # Absent => /\ \A i \in Ids : vals[i] \in Storable(i)
                /\ Holds(b, Strings(vals), Len(Members))

(* The inductive invariant: the storage encodes what was stored last, now  *)
(* and before the transaction; and after a load, the slots of the members  *)
(* that the program has not put since hold what is stored.                 *)
PackedInv ==
  /\ cache = [i \in Ids |-> cache[i]] /\ \A i \in Ids : cache[i] \in InSlot(i)
  /\ Encodes(storage, stored) /\ Encodes(saved.storage, saved.stored)
  /\ loaded => \A i \in Ids \ touched : cache[i] = stored[i]

(* A value that can be stored has the length of its member, and is found   *)
(* in its string again (CachedUInt, CachedFixedBytes).                     *)
LEMMA StorableFacts ==
  ASSUME NEW i \in Ids, NEW v \in Storable(i)
  PROVE  /\ v \in InSlot(i)
         /\ Encoded(v, i) \in Seq(Symbols) /\ Len(Encoded(v, i)) = Members[i].length
         /\ v = IF Members[i].kind = "uint" THEN Uint(Btoi(Encoded(v, i)))
                ELSE Str(Encoded(v, i))
<1> DEFINE l == Members[i].length
           e == Encoded(v, i)
<1>1. l \in Nat /\ (Members[i].kind = "uint" => l = WordBytes)
  BY MemberFacts
<1>2. Nat \subseteq Symbols /\ Bytes \subseteq Symbols
  BY DEF Symbols
<1>3. CASE Members[i].kind = "uint"
  <2>1. PICK n \in 0 .. WordValues - 1 : v = Uint(n)
    BY <1>3 DEF Storable
  <2>2. e = Itob(n)
    BY <1>3, <2>1, SlotFacts DEF Encoded
  <2>3. Itob(n) \in [1 .. l -> Nat] /\ Len(Itob(n)) = l /\ Btoi(Itob(n)) = n
    BY <1>1, <1>3, IntegersAreWords
  <2>4. Itob(n) \in Seq(Symbols)
    <3>1. Itob(n) \in [1 .. l -> Symbols]
      BY <1>2, <2>3
    <3> QED
      BY <1>1, <3>1, SeqDef
  <2>5. v \in InSlot(i)
    BY <1>3, <2>1 DEF InSlot
  <2> QED
    BY <1>3, <2>1, <2>2, <2>3, <2>4, <2>5
<1>4. CASE Members[i].kind # "uint"
  <2>1. PICK b \in [1 .. l -> Bytes] : v = Str(b)
    BY <1>4 DEF Storable
  <2>2. e = b
    BY <1>4, <2>1, SlotFacts DEF Encoded
  <2>3. b \in Seq(Bytes) /\ b \in Seq(Symbols) /\ Len(b) = l
    <3>1. b \in [1 .. l -> Symbols]
      BY <1>2, <2>1
    <3>2. b \in Seq(Bytes) /\ b \in Seq(Symbols)
      BY <1>1, <2>1, <3>1, SeqDef
    <3>3. DOMAIN b = 1 .. Len(b) /\ DOMAIN b = 1 .. l /\ Len(b) \in Nat
      BY <2>1, <3>2, LenProperties
    <3> HIDE DEF l
    <3>4. Len(b) = l
      BY <1>1, <3>3
    <3> QED
      BY <3>2, <3>4
  <2>4. v \in InSlot(i)
    BY <1>4, <2>1, <2>3 DEF InSlot
  <2> QED
    BY <1>4, <2>1, <2>2, <2>3, <2>4
<1> QED
  BY <1>3, <1>4

(* A slot that serializes holds what can be stored.                        *)
LEMMA SerializableFacts ==
  ASSUME NEW i \in Ids, cache[i] \in InSlot(i), Serializable(i)
  PROVE  cache[i] \in Storable(i) /\ Serialize(i) = Encoded(cache[i], i)
<1>1. Serialize(i) = Encoded(cache[i], i)
  BY DEF Serialize, Encoded
<1>2. CASE Members[i].kind = "uint"
  BY <1>1, <1>2 DEF InSlot, Storable
<1>3. CASE Members[i].kind = "bytes"
  <2>1. cache[i][1] = "bytes" /\ Len(cache[i][2]) = Members[i].length
    BY <1>3 DEF Serializable
  <2>2. cache[i] # Uint(0)
    BY <2>1, SlotFacts
  <2>3. PICK b \in Seq(Bytes) : cache[i] = Str(b)
    BY <1>3, <2>2 DEF InSlot
  <2>4. b \in [1 .. Members[i].length -> Bytes]
    <3>1. Len(b) = Members[i].length
      BY <2>1, <2>3, SlotFacts
    <3>2. b \in [1 .. Len(b) -> Bytes]
      BY LenProperties
    <3> QED
      BY <3>1, <3>2
  <2> QED
    BY <1>1, <1>3, <2>3, <2>4 DEF Storable
<1> QED
  BY <1>2, <1>3, MemberFacts

(* What is stored is found (Schema.load).                                  *)
LEMMA StoredFound ==
  ASSUME Encodes(storage, stored), storage # Absent, NEW i \in Ids
  PROVE  Extractable(i) /\ Deserialize(i) = stored[i] /\ stored[i] \in Storable(i)
<1> DEFINE e == Encoded(stored[i], i)
           o == Offset(i)
           l == Members[i].length
           part == SubSeq(storage, o + 1, o + l)
<1>1. /\ stored[i] \in Storable(i) /\ storage \in Seq(Symbols)
      /\ o + l <= Len(storage) /\ \A p \in 1 .. l : storage[o + p] = e[p]
  <2>1. i \in 1 .. Len(Members) /\ Strings(stored)[i] = e
    BY MemberFacts DEF Strings
  <2> QED
    BY <2>1 DEF Encodes, Holds
<1>2. e \in Seq(Symbols) /\ Len(e) = l
  BY <1>1, StorableFacts
<1>3. o \in Nat /\ l \in Nat /\ Len(storage) \in Nat
  BY <1>1, MemberFacts, OffsetFacts, LenProperties
<1>4. Extractable(i)
  BY <1>1 DEF Extractable
<1>5. part = e
  <2>1. \A k \in o + 1 .. o + l : storage[k] \in Symbols
    <3> TAKE k \in o + 1 .. o + l
    <3>1. k \in 1 .. Len(storage)
      BY <1>1, <1>3
    <3> QED
      BY <1>1, <3>1, ElementOfSeq
  <2> HIDE DEF e, o, l
  <2>2. /\ part \in Seq(Symbols)
        /\ Len(part) = IF o + 1 <= o + l THEN (o + l) - (o + 1) + 1 ELSE 0
        /\ \A k \in 1 .. (o + l) - (o + 1) + 1 : part[k] = storage[(o + 1) + k - 1]
    BY <1>3, <2>1, SubSeqProperties
  <2> HIDE DEF part
  <2>3. Len(part) = l
    BY <1>3, <2>2
  <2>4. ASSUME NEW k \in 1 .. l PROVE part[k] = e[k]
    <3>1. (o + 1) + k - 1 = o + k /\ k \in 1 .. (o + l) - (o + 1) + 1
      BY <1>3
    <3> QED
      BY <1>1, <2>2, <3>1
  <2> QED
    BY <1>2, <2>2, <2>3, <2>4, SeqEqual
<1>6. Deserialize(i) = IF Members[i].kind = "uint" THEN Uint(Btoi(e)) ELSE Str(e)
  BY <1>5 DEF Deserialize
<1> QED
  BY <1>1, <1>4, <1>6, StorableFacts

(* Store: what the slots hold is what the new storage encodes.             *)
LEMMA StoreEncodes == PackedInv /\ Store => Encodes(storage', stored')
<1> SUFFICES ASSUME PackedInv, Store, storage' # Absent
             PROVE  /\ \A i \in Ids : cache[i] \in Storable(i)
                    /\ Holds(storage', Strings(cache), Len(Members))
  BY DEF Store, Encodes
<1> DEFINE vals == Strings(cache)
<1>1. \A i \in Ids : cache[i] \in Storable(i) /\ Serialize(i) = vals[i]
  BY SerializableFacts DEF PackedInv, Store, Strings
<1>2. vals = [i \in Ids |-> Serialize(i)]
  BY <1>1 DEF Strings
<1>3. storage' = FlattenSeq(vals)
  BY <1>2 DEF Store
<1>4. /\ vals \in [Ids -> Seq(Symbols)]
      /\ \A i \in Ids : Len(vals[i]) = Members[i].length
  BY <1>1, StorableFacts DEF Strings
<1>5. CASE Ids # {}
  <2> HIDE DEF vals
  <2>1. Holds(FlattenSeq(vals), vals, Len(Members))
    BY <1>4, <1>5, ConcatHolds
  <2> QED
    BY <1>1, <1>3, <2>1 DEF vals
<1>6. CASE Ids = {}
  <2>1. Len(Members) = 0
    BY <1>6, MemberFacts
  <2>2. vals = << >>
    BY <1>4, <1>6
  <2>3. storage' = << >>
    BY <1>3, <2>2 DEF FlattenSeq
  <2> QED
    BY <1>6, <2>1, <2>3 DEF Holds
<1> QED
  BY <1>5, <1>6

(* No operation of a schema, end of a transaction or panic breaks it.      *)
LEMMA PackedInvariance == PackedSpec => []PackedInv
<1>1. \A i \in Ids : Uint(0) \in InSlot(i)
  <2>1. 0 \in 0 .. WordValues - 1
    BY PowerFacts, ByteWordsAssumption DEF WordValues
  <2> QED
    BY <2>1 DEF InSlot
<1>2. PackedInit => PackedInv
  BY <1>1 DEF PackedInit, PackedInv, Scratch, Encodes
<1>3. PackedInv /\ [PackedNext]_packedVars => PackedInv'
  <2> SUFFICES ASSUME PackedInv, [PackedNext]_packedVars PROVE PackedInv'
    OBVIOUS
  <2>1. CASE Load
    <3>1. /\ cache' = [i \in Ids |-> Deserialize(i)]
          /\ UNCHANGED <<storage, stored, saved>>
      BY <2>1 DEF Load
    <3>2. ASSUME NEW i \in Ids PROVE Deserialize(i) = stored[i] /\ stored[i] \in InSlot(i)
      <4>1. storage # Absent
        BY <2>1 DEF Load, Extractable
      <4> QED
        BY <4>1, StoredFound, StorableFacts DEF PackedInv
    <3> QED
      BY <3>1, <3>2 DEF PackedInv, Encodes
  <2>2. CASE Store
    <3>1. Encodes(storage', stored')
      BY <2>2, StoreEncodes
    <3>2. cache' = cache /\ saved' = saved /\ stored' = cache
      BY <2>2 DEF Store
    <3> QED
      BY <3>1, <3>2 DEF PackedInv, Encodes
  <2>3. CASE Succeed \/ Panic
    <3>1. cache' = Scratch /\ loaded' = FALSE
      BY <2>3 DEF Succeed, Panic
    <3>2. Encodes(storage', stored') /\ Encodes(saved'.storage, saved'.stored)
      BY <2>3 DEF Succeed, Panic, PackedInv, Encodes
    <3> QED
      BY <1>1, <3>1, <3>2 DEF PackedInv, Scratch, Encodes
  <2>4. ASSUME NEW i \in Ids, NEW value \in Inputs(i), Put(i, value) PROVE PackedInv'
    <3>1. value \in InSlot(i)
      <4>1. CASE Members[i].kind = "uint"
        BY <4>1, PackedAssumption DEF Inputs, InSlot
      <4>2. CASE Members[i].kind # "uint"
        <5>1. PICK n \in {Members[i].length, Members[i].length + 1} :
                \E b \in [1 .. n -> Bytes] : value = Str(b)
          BY <4>2 DEF Inputs
        <5>2. PICK b \in [1 .. n -> Bytes] : value = Str(b)
          BY <5>1
        <5>3. b \in Seq(Bytes)
          <6>1. n \in Nat
            BY MemberFacts
          <6> QED
            BY <6>1, SeqDef
        <5> QED
          BY <4>2, <5>2, <5>3 DEF InSlot
      <4> QED
        BY <4>1, <4>2
    <3>2. /\ cache' = [cache EXCEPT ![i] = value] /\ touched' = touched \union {i}
          /\ UNCHANGED <<storage, loaded, stored, saved>>
      BY <2>4 DEF Put
    <3>3. cache'[i] = value /\ \A j \in Ids \ {i} : cache'[j] = cache[j]
      BY <3>2 DEF PackedInv
    <3>4. cache' = [j \in Ids |-> cache'[j]]
      BY <3>2 DEF PackedInv
    <3> QED
      BY <3>1, <3>2, <3>3, <3>4 DEF PackedInv, Encodes
  <2>5. CASE UNCHANGED packedVars
    BY <2>5 DEF packedVars, PackedInv, Encodes
  <2> QED
    BY <2>1, <2>2, <2>3, <2>4, <2>5 DEF PackedNext
<1> QED
  BY <1>2, <1>3, PTL DEF PackedSpec

(* Any member of any schema is found where the schema describes it, with   *)
(* the value it was last stored with (Schema.store, Schema.load).          *)
THEOREM MembersAreFound == PackedSpec => []StoredIsFound
<1>1. PackedInv => StoredIsFound
  BY StoredFound DEF PackedInv, StoredIsFound
<1> QED
  BY <1>1, PackedInvariance, PTL

(* A transaction that loads a schema and stores it changes only what it    *)
(* has put (CachedStateVariable.put).                                      *)
THEOREM StoresKeepTheRest == PackedSpec => StoreKeepsTheRest
<1>1. PackedInv /\ [PackedNext]_packedVars
        => [Store /\ loaded => \A i \in Ids \ touched : stored'[i] = stored[i]]_packedVars
  BY DEF PackedInv, Store
<1> QED
  BY <1>1, PackedInvariance, PTL DEF PackedSpec, StoreKeepsTheRest
=============================================================================
