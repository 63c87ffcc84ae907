----------------------------- MODULE CallProofs -----------------------------
(***************************************************************************)
(* The loop of claim_rewards, for any number of assets and indices, and    *)
(* the transfers that pay for deposits, for groups of any length.          *)
(***************************************************************************)
EXTENDS ClaimLoop, DepositGroup, ArithmeticProofs, SequenceTheorems

(* The indices of the call that have been processed.                       *)
Processed == {ids[k] : k \in 1 .. i}

LoopTypeOK ==
  /\ ids \in Seq(Nat \ {0}) /\ i \in 0 .. Len(ids)
  /\ rewardsNum \in 0 .. MaxFarmedAssets /\ limit \in [Slots -> Nat]
  /\ settled \in [Slots -> Nat] /\ accrued \in [Slots -> Nat] /\ sent \in [Slots -> Nat]
  /\ outcome \in {"running", "stored", "rejected"}

(* A processed slot could be paid, and has been; then it has nothing left, *)
(* so that its index pays nothing again, and cannot fail.                  *)
PaidUpTo ==
  /\ \A s \in Processed : SettledIsPayable(s)
  /\ \A s \in Slots : IF s \in Processed THEN accrued[s] = 0 /\ sent[s] = settled[s]
                                         ELSE accrued[s] = settled[s] /\ sent[s] = 0

RolledBack ==
  /\ \E s \in ToSet(ids) : ~ SettledIsPayable(s)
  /\ sent = Zeros /\ claimed = Zeros /\ accrued = settled

(* The inductive invariant of the loop.                                    *)
LoopInv ==
  /\ LoopTypeOK
  /\ claimed = sent
  /\ outcome # "rejected" => PaidUpTo
  /\ outcome = "stored" => i = Len(ids)
  /\ outcome = "rejected" => RolledBack

(* At first nothing has been processed.                                    *)
LEMMA LoopStarts == LoopInit => LoopInv
<1> SUFFICES ASSUME LoopInit PROVE LoopInv
  OBVIOUS
<1>1. PICK n \in 0 .. MaxRequests : ids \in [1 .. n -> 1 .. MaxFarmedAssets + 1]
  BY DEF LoopInit
<1>2. n \in Nat /\ MaxFarmedAssets \in Nat /\ 1 .. MaxFarmedAssets + 1 \subseteq Nat \ {0}
  BY ClaimLoopAssumption
<1>3. ids \in Seq(Nat \ {0})
  BY <1>1, <1>2, SeqDef
<1>4. LoopTypeOK
  BY <1>2, <1>3, LenProperties, ClaimLoopAssumption DEF LoopInit, LoopTypeOK, Zeros
<1>5. Processed = {}
  BY DEF LoopInit, Processed
<1> QED
  BY <1>4, <1>5 DEF LoopInv, PaidUpTo, LoopInit, Zeros

(* The next index, and whether it can be paid: if its slot has been        *)
(* processed it pays nothing, and otherwise what was settled.              *)
LEMMA NextIndex ==
  ASSUME LoopInv, outcome = "running", i < Len(ids)
  PROVE  /\ i \in Nat /\ i + 1 \in 1 .. Len(ids) /\ Len(ids) \in Nat
         /\ rewardsNum \in Nat /\ ids[i + 1] \in Nat \ {0}
         /\ ids[i + 1] \in ToSet(ids)
         /\ Payable(ids[i + 1]) <=> SettledIsPayable(ids[i + 1])
         /\ Payable(ids[i + 1]) => ids[i + 1] \in Slots
<1>1. /\ Len(ids) \in Nat /\ DOMAIN ids = 1 .. Len(ids) /\ rewardsNum \in Nat
      /\ MaxFarmedAssets \in Nat /\ rewardsNum <= MaxFarmedAssets
  BY LenProperties, ClaimLoopAssumption DEF LoopInv, LoopTypeOK
<1>2. i \in Nat /\ i + 1 \in 1 .. Len(ids)
  BY <1>1 DEF LoopInv, LoopTypeOK
<1>3. ids[i + 1] \in Nat \ {0} /\ ids[i + 1] \in ToSet(ids)
  BY <1>1, <1>2, ElementOfSeq DEF LoopInv, LoopTypeOK, ToSet
<1>4. PICK s \in Nat \ {0} : s = ids[i + 1]
  BY <1>3
<1>5. InBounds(s) <=> s \in 1 .. rewardsNum
  BY <1>1, <1>4 DEF InBounds
<1>6. s \in 1 .. rewardsNum => s \in Slots
  BY <1>1 DEF Slots
<1>7. ASSUME s \in 1 .. rewardsNum
      PROVE  Transferable(s, accrued[s])
               <=> /\ s \in referenced
                   /\ settled[s] > 0 => s \in receivable /\ settled[s] <= limit[s]
  <2>1. accrued[s] \in Nat /\ settled[s] \in Nat /\ limit[s] \in Nat
    BY <1>6, <1>7 DEF LoopInv, LoopTypeOK
  <2>2. CASE s \in Processed
    <3>1. accrued[s] = 0 /\ SettledIsPayable(s)
      BY <1>6, <1>7, <2>2 DEF LoopInv, PaidUpTo
    <3> QED
      BY <3>1 DEF Transferable, SettledIsPayable
  <2>3. CASE s \notin Processed
    <3>1. accrued[s] = settled[s] /\ sent[s] = 0
      BY <1>6, <1>7, <2>3 DEF LoopInv, PaidUpTo
    <3> QED
      BY <2>1, <3>1 DEF Transferable
  <2> QED
    BY <2>2, <2>3
<1>8. Payable(s) <=> SettledIsPayable(s)
  BY <1>5, <1>7 DEF Payable, SettledIsPayable
<1> QED
  BY <1>1, <1>2, <1>3, <1>4, <1>5, <1>6, <1>8 DEF Payable

(* One index: whether it is new or has been processed before, its slot is  *)
(* processed now, and the others are as they were.                         *)
LEMMA ProcessKeeps == LoopInv /\ Process => LoopInv'
<1> SUFFICES ASSUME LoopInv, Process PROVE LoopInv'
  OBVIOUS
<1>1. PICK s : s = ids[i + 1]
  OBVIOUS
<1>2. /\ sent' = [sent EXCEPT ![s] = @ + accrued[s]]
      /\ accrued' = [accrued EXCEPT ![s] = 0]
      /\ claimed' = [claimed EXCEPT ![s] = @ + accrued[s]]
      /\ UNCHANGED <<ids, rewardsNum, referenced, receivable, limit, settled>>
      /\ i' = i + 1 /\ outcome = "running" /\ outcome' = "running"
      /\ i < Len(ids) /\ Payable(s)
  BY <1>1 DEF Process, callVars
<1>3. /\ i \in Nat /\ i + 1 \in 1 .. Len(ids) /\ Len(ids) \in Nat
      /\ s \in Slots /\ SettledIsPayable(s)
  BY <1>1, <1>2, NextIndex
<1>4. Processed' = Processed \union {s}
  <2>1. 1 .. i + 1 = (1 .. i) \union {i + 1}
    BY <1>3
  <2> QED
    BY <1>1, <1>2, <2>1 DEF Processed
<1>5. LoopTypeOK /\ PaidUpTo /\ claimed = sent
  BY <1>2 DEF LoopInv
<1>6. LoopTypeOK'
  BY <1>2, <1>3, <1>5 DEF LoopTypeOK
<1>7. claimed' = sent'
  BY <1>2, <1>5
<1>8. \A x : SettledIsPayable(x)' <=> SettledIsPayable(x)
  BY <1>2 DEF SettledIsPayable
<1>9. ASSUME NEW x \in Slots
      PROVE  IF x \in Processed' THEN accrued'[x] = 0 /\ sent'[x] = settled'[x]
                                 ELSE accrued'[x] = settled'[x] /\ sent'[x] = 0
  <2>1. accrued[x] \in Nat /\ sent[x] \in Nat /\ settled[x] \in Nat
    BY <1>5 DEF LoopTypeOK
  <2>2. IF x \in Processed THEN accrued[x] = 0 /\ sent[x] = settled[x]
                           ELSE accrued[x] = settled[x] /\ sent[x] = 0
    BY <1>5 DEF PaidUpTo
  <2>3. CASE x = s
    <3>1. accrued'[x] = 0 /\ sent'[x] = sent[x] + accrued[x] /\ x \in Processed'
      BY <1>2, <1>4, <1>5, <2>3 DEF LoopTypeOK
    <3> QED
      BY <1>2, <2>1, <2>2, <3>1
  <2>4. CASE x # s
    BY <1>2, <1>4, <1>5, <2>2, <2>4 DEF LoopTypeOK
  <2> QED
    BY <2>3, <2>4
<1>10. PaidUpTo'
  BY <1>3, <1>4, <1>5, <1>8, <1>9 DEF PaidUpTo
<1> QED
  BY <1>2, <1>6, <1>7, <1>10 DEF LoopInv

(* LoopInv holds in every call.                                            *)
LEMMA LoopInvariance == LoopSpec => []LoopInv
<1>1. LoopInv /\ [LoopNext]_loopVars => LoopInv'
  <2> SUFFICES ASSUME LoopInv, [LoopNext]_loopVars PROVE LoopInv'
    OBVIOUS
  <2>1. CASE Process
    BY <2>1, ProcessKeeps
  <2>2. CASE Panic
    <3>1. ids[i + 1] \in ToSet(ids) /\ ~ SettledIsPayable(ids[i + 1])
      BY <2>2, NextIndex DEF Panic
    <3>2. UNCHANGED <<ids, rewardsNum, referenced, receivable, limit, settled, i>>
      BY <2>2 DEF Panic, callVars
    <3>3. RolledBack'
      BY <2>2, <3>1, <3>2 DEF Panic, RolledBack, SettledIsPayable, Zeros
    <3> QED
      BY <2>2, <3>2, <3>3 DEF Panic, LoopInv, LoopTypeOK, Zeros
  <2>3. CASE Store
    <3>1. /\ UNCHANGED <<ids, rewardsNum, referenced, receivable, limit, settled>>
          /\ UNCHANGED <<i, accrued, claimed, sent>>
          /\ outcome = "running" /\ outcome' = "stored" /\ i = Len(ids)
      BY <2>3 DEF Store, callVars
    <3>2. LoopTypeOK' /\ claimed' = sent' /\ i' = Len(ids')
      BY <3>1 DEF LoopInv, LoopTypeOK
    <3>3. PaidUpTo'
      BY <3>1 DEF LoopInv, PaidUpTo, Processed, SettledIsPayable
    <3> QED
      BY <3>1, <3>2, <3>3 DEF LoopInv
  <2>4. CASE UNCHANGED loopVars
    BY <2>4 DEF loopVars, callVars, LoopInv, LoopTypeOK, PaidUpTo, RolledBack,
                Processed, SettledIsPayable
  <2> QED
    BY <2>1, <2>2, <2>3, <2>4 DEF LoopNext
<1> QED
  BY <1>1, LoopStarts, PTL DEF LoopSpec

(* When a call is done, all its indices have been processed.               *)
LEMMA AllProcessed ==
  ASSUME LoopInv, outcome = "stored"
  PROVE  Processed = ToSet(ids)
<1>1. DOMAIN ids = 1 .. Len(ids) /\ i = Len(ids)
  BY LenProperties DEF LoopInv, LoopTypeOK
<1> QED
  BY <1>1 DEF Processed, ToSet

(* A claim pays each listed index once, however often it is listed.        *)
THEOREM ClaimsPayEachOnce == LoopSpec => []PaysEachOnce
<1>1. LoopInv => PaysEachOnce
  <2> SUFFICES ASSUME LoopInv, outcome = "stored" PROVE PaysEachOnce
    BY DEF PaysEachOnce
  <2> DEFINE paid == [s \in Slots |-> IF s \in ToSet(ids) THEN settled[s] ELSE 0]
  <2>1. /\ sent \in [Slots -> Nat] /\ accrued \in [Slots -> Nat] /\ claimed = sent
        /\ settled \in [Slots -> Nat]
    BY DEF LoopInv, LoopTypeOK
  <2>2. \A s \in Slots : sent[s] = paid[s] /\ accrued[s] = settled[s] - paid[s]
    BY <2>1, AllProcessed DEF LoopInv, PaidUpTo
  <2>3. sent = paid /\ accrued = [s \in Slots |-> settled[s] - paid[s]]
    BY <2>1, <2>2
  <2> QED
    BY <2>1, <2>3 DEF PaysEachOnce
<1> QED
  BY <1>1, LoopInvariance, PTL

(* A claim is refused, and then changes nothing, if and only if one of its *)
(* indices is of no asset, or of rewards that cannot be paid out once.     *)
THEOREM ClaimsPayAllOrNothing == LoopSpec => []StoredIffPayable
<1>1. LoopInv => StoredIffPayable
  BY AllProcessed DEF LoopInv, PaidUpTo, RolledBack, StoredIffPayable
<1> QED
  BY <1>1, LoopInvariance, PTL

-----------------------------------------------------------------------------
(* Groups with deposits                                                    *)

(* What the transaction at position k brings for slot s, what the first m  *)
(* have brought, and a group with nothing but transfers after those.       *)
Paid(s) == [k \in Nat |-> IF k \in 1 .. Len(group) /\ ValidTransfer(group[k], s)
                         THEN group[k].amount ELSE 0]
SentUpTo(s, m) == SumFunctionOnSet(Paid(s), 1 .. m)
OnlyTransfersAfter(m) == \A k \in m + 1 .. Len(group) : group[k].type = "transfer"

(* The inductive invariant of the groups: the transfers after the last     *)
(* call have not been counted yet, and no transfer more than once.         *)
GroupInv ==
  /\ group \in Seq(Txns) /\ received \in [Listed -> Nat] /\ counted \in [Listed -> Nat]
  /\ ~ rejected =>
       \A s \in Listed :
         /\ \A m \in 0 .. Len(group) :
              OnlyTransfersAfter(m) => counted[s] <= SentUpTo(s, m)
         /\ SentUpTo(s, Len(group)) <= received[s]

(* A list of indices is a sequence.                                        *)
LEMMA IdListType ==
  ASSUME NEW xs \in IdLists
  PROVE  /\ xs \in Seq(Listed) /\ Len(xs) \in 0 .. MaxIds
         /\ DOMAIN xs = 1 .. Len(xs)
<1>1. PICK n \in 0 .. MaxIds : xs \in [1 .. n -> Listed]
  BY DEF IdLists
<1>2. n \in Nat
  BY DepositGroupAssumption
<1>3. xs \in Seq(Listed)
  BY <1>1, <1>2, SeqDef
<1> QED
  BY <1>1, <1>2, <1>3, LenProperties

(* Transactions have the fields of their type.                             *)
LEMMA TxnFields ==
  ASSUME NEW t \in Txns
  PROVE  /\ t.type \in {"transfer", "update", "deposit"}
         /\ t.type = "transfer" => t \in Transfer /\ t.amount \in Nat
         /\ t.type = "deposit" => t.ids \in IdLists
<1>1. \A s \in Listed, a \in Amounts :
        Reward(s, a) \in Transfer /\ Reward(s, a).type = "transfer"
  BY DEF Reward, Transfer
<1>2. Amounts \subseteq Nat
  BY DepositGroupAssumption
<1>3. CASE t \in {Reward(s, a) : s \in Listed, a \in Amounts} \union OneWrong
  <2>1. t \in Transfer
    BY <1>1, <1>3 DEF OneWrong
  <2> QED
    BY <1>2, <2>1 DEF Transfer
<1>4. CASE t \in UpdateCall
  BY <1>4 DEF UpdateCall
<1>5. CASE t \in DepositCall
  BY <1>5 DEF DepositCall
<1> QED
  BY <1>3, <1>4, <1>5 DEF Txns

(* What a transaction brings is a number of tokens.                        *)
LEMMA PaidType ==
  ASSUME group \in Seq(Txns), NEW s
  PROVE  Paid(s) \in [Nat -> Nat]
<1>1. ASSUME NEW k \in 1 .. Len(group), ValidTransfer(group[k], s)
      PROVE  group[k].amount \in Nat
  <2>1. group[k] \in Txns
    BY ElementOfSeq
  <2> QED
    BY <1>1, <2>1, TxnFields DEF ValidTransfer
<1> QED
  BY <1>1 DEF Paid

(* The first m positions.                                                  *)
LEMMA Initial ==
  ASSUME NEW m \in Nat
  PROVE  /\ 1 .. m \in SUBSET Nat /\ IsFiniteSet(1 .. m)
         /\ m + 1 \in Nat \ (1 .. m) /\ 1 .. m + 1 = (1 .. m) \union {m + 1}
         /\ \A n \in 0 .. m : /\ n \in Nat /\ 1 .. n \in SUBSET (1 .. m)
                             /\ IsFiniteSet(1 .. n)
<1>1. ASSUME NEW n \in Nat PROVE IsFiniteSet(1 .. n)
  <2>1. 1 \in Int /\ n \in Int
    OBVIOUS
  <2> QED
    BY <2>1, FS_Interval
<1>2. \A n \in 0 .. m : n \in Nat /\ 1 .. n \in SUBSET (1 .. m)
  OBVIOUS
<1>3. /\ 1 .. m \in SUBSET Nat
      /\ m + 1 \in Nat \ (1 .. m) /\ 1 .. m + 1 = (1 .. m) \union {m + 1}
  OBVIOUS
<1> QED
  BY <1>1, <1>2, <1>3

(* What SumInsert is about.                                                *)
Summands(S, f, T, x) ==
  f \in [S -> Nat] /\ T \in SUBSET S /\ IsFiniteSet(T) /\ x \in S \ T

(* The sum over a set and one more of its superset.                        *)
LEMMA SumOfSummands ==
  ASSUME NEW S, NEW f, NEW T, NEW x, Summands(S, f, T, x)
  PROVE  SumFunctionOnSet(f, T \union {x}) = f[x] + SumFunctionOnSet(f, T)
BY SumInsert DEF Summands

(* The sum over positions and one more.                                    *)
LEMMA SumOneMore ==
  ASSUME NEW f \in [Nat -> Nat], NEW T \in SUBSET Nat, IsFiniteSet(T),
         NEW x \in Nat, x \notin T
  PROVE  SumFunctionOnSet(f, T \union {x}) = f[x] + SumFunctionOnSet(f, T)
<1>1. Summands(Nat, f, T, x)
  BY DEF Summands
<1> QED
  BY <1>1, SumOfSummands

(* No less has been sent in more transactions, and what one of the later   *)
(* ones brings is on top.                                                  *)
LEMMA SentFacts ==
  ASSUME group \in Seq(Txns), NEW s, NEW m \in Nat, NEW n \in 0 .. m
  PROVE  /\ SentUpTo(s, m) \in Nat /\ SentUpTo(s, n) \in Nat
         /\ SentUpTo(s, n) <= SentUpTo(s, m)
         /\ \A k \in n + 1 .. m : Paid(s)[k] + SentUpTo(s, n) <= SentUpTo(s, m)
<1>1. PICK f \in [Nat -> Nat] : f = Paid(s)
  BY PaidType
<1>2. /\ 1 .. m \in SUBSET Nat /\ IsFiniteSet(1 .. m) /\ n \in Nat
      /\ 1 .. n \in SUBSET (1 .. m) /\ 1 .. n \in SUBSET Nat
      /\ IsFiniteSet(1 .. n) /\ \A x \in 1 .. m : f[x] <= f[x]
  BY <1>1, Initial
<1>3. SumFunctionOnSet(f, 1 .. m) \in Nat /\ SumFunctionOnSet(f, 1 .. n) \in Nat
  BY <1>2, SumOfPart
<1>4. SumFunctionOnSet(f, 1 .. n) <= SumFunctionOnSet(f, 1 .. m)
  BY <1>2, SumLarger
<1>5. ASSUME NEW k \in n + 1 .. m
      PROVE  f[k] + SumFunctionOnSet(f, 1 .. n) <= SumFunctionOnSet(f, 1 .. m)
  <2> DEFINE T == 1 .. n
             U == 1 .. m
  <2>0. k \in Nat \ T /\ k \in U
    BY <1>2
  <2>1. /\ T \in SUBSET U /\ T \in SUBSET Nat /\ IsFiniteSet(T)
        /\ U \in SUBSET Nat /\ IsFiniteSet(U) /\ \A x \in U : f[x] <= f[x]
    BY <1>2, Zenon
  <2> HIDE DEF T, U
  <2>2. SumFunctionOnSet(f, T \union {k}) = f[k] + SumFunctionOnSet(f, T)
    BY <1>1, <2>0, <2>1, SumOneMore
  <2>3. T \union {k} \in SUBSET U
    BY <2>0, <2>1
  <2>4. SumFunctionOnSet(f, T \union {k}) <= SumFunctionOnSet(f, U)
    BY <1>1, <2>1, <2>3, SumLarger
  <2> QED
    BY <2>2, <2>4 DEF T, U
<1> QED
  BY <1>1, <1>3, <1>4, <1>5 DEF SentUpTo

(* Functions that agree on a finite set have the same sum there.           *)
LEMMA SumAgrees ==
  ASSUME NEW f \in [Nat -> Nat], NEW g \in [Nat -> Nat], NEW T \in SUBSET Nat,
         IsFiniteSet(T), \A x \in T : f[x] = g[x]
  PROVE  SumFunctionOnSet(f, T) = SumFunctionOnSet(g, T)
<1>1. \A x \in T : f[x] <= g[x] /\ g[x] <= f[x]
  OBVIOUS
<1>2. /\ SumFunctionOnSet(f, T) <= SumFunctionOnSet(g, T)
      /\ SumFunctionOnSet(g, T) <= SumFunctionOnSet(f, T)
  BY <1>1, SumLarger
<1>3. SumFunctionOnSet(f, T) \in Nat /\ SumFunctionOnSet(g, T) \in Nat
  BY SumOfPart
<1> QED
  BY <1>2, <1>3

(* One more transaction in a group of l.                                   *)
LEMMA Appended ==
  ASSUME group \in Seq(Txns), NEW t \in Txns, group' = Append(group, t),
         NEW l, l = Len(group)
  PROVE  /\ group' \in Seq(Txns) /\ l \in Nat /\ Len(group') = l + 1
         /\ group'[l + 1] = t
         /\ \A k \in 1 .. l : group'[k] = group[k]
         /\ \A s, m : m \in 0 .. l => SentUpTo(s, m)' = SentUpTo(s, m)
         /\ \A s : SentUpTo(s, l + 1)'
                     = SentUpTo(s, l) + IF ValidTransfer(t, s) THEN t.amount ELSE 0
<1>1. /\ group' \in Seq(Txns) /\ l \in Nat /\ Len(group') = l + 1
      /\ group'[l + 1] = t /\ \A k \in 1 .. l : group'[k] = group[k]
  BY LenProperties
<1>2. ASSUME NEW s
      PROVE  /\ Paid(s) \in [Nat -> Nat] /\ Paid(s)' \in [Nat -> Nat]
             /\ \A k \in 1 .. l : Paid(s)[k] = Paid(s)'[k]
             /\ Paid(s)'[l + 1] = IF ValidTransfer(t, s) THEN t.amount ELSE 0
  <2>1. ASSUME group' \in Seq(Txns) PROVE Paid(s)' \in [Nat -> Nat]
    <3>1. ASSUME NEW k \in 1 .. l + 1 PROVE group'[k] \in Txns
      BY <1>1, ElementOfSeq
    <3>2. \A k \in 1 .. l + 1 :
            ValidTransfer(group'[k], s) => group'[k].amount \in Nat
      BY <3>1, TxnFields DEF ValidTransfer
    <3> QED
      BY <1>1, <3>2 DEF Paid, ValidTransfer
  <2>2. \A k \in 1 .. l : k \in Nat /\ k \in 1 .. l + 1
    BY <1>1
  <2>3. l + 1 \in Nat /\ l + 1 \in 1 .. l + 1
    BY <1>1
  <2> QED
    BY <1>1, <2>1, <2>2, <2>3, PaidType DEF Paid, ValidTransfer
<1>3. ASSUME NEW s, NEW m \in 0 .. l PROVE SentUpTo(s, m)' = SentUpTo(s, m)
  <2>1. PICK f, g : f = Paid(s) /\ g = Paid(s)'
    OBVIOUS
  <2> DEFINE T == 1 .. m
  <2>2. /\ T \in SUBSET Nat /\ IsFiniteSet(T) /\ T \subseteq 1 .. l
    BY <1>1, Initial
  <2>3. /\ f \in [Nat -> Nat] /\ g \in [Nat -> Nat]
        /\ \A k \in 1 .. l : f[k] = g[k]
    BY <1>2, <2>1
  <2> HIDE DEF T
  <2>4. \A k \in T : f[k] = g[k]
    BY <2>2, <2>3
  <2>5. SumFunctionOnSet(f, T) = SumFunctionOnSet(g, T)
    BY <2>2, <2>3, <2>4, SumAgrees
  <2> QED
    BY <2>1, <2>5 DEF SentUpTo, T
<1>4. ASSUME NEW s
      PROVE  SentUpTo(s, l + 1)'
               = SentUpTo(s, l) + IF ValidTransfer(t, s) THEN t.amount ELSE 0
  <2>1. PICK g \in [Nat -> Nat] : g = Paid(s)'
    BY <1>2
  <2>2. /\ 1 .. l \in SUBSET Nat /\ IsFiniteSet(1 .. l) /\ l + 1 \in Nat \ (1 .. l)
        /\ 1 .. l + 1 = (1 .. l) \union {l + 1}
    BY <1>1, Initial
  <2>3. SumFunctionOnSet(g, 1 .. l + 1) = g[l + 1] + SumFunctionOnSet(g, 1 .. l)
    <3> DEFINE T == 1 .. l
    <3> HIDE DEF T
    <3>1. T \in SUBSET Nat /\ IsFiniteSet(T) /\ l + 1 \in Nat \ T
      BY <2>2 DEF T
    <3>2. SumFunctionOnSet(g, T \union {l + 1}) = g[l + 1] + SumFunctionOnSet(g, T)
      BY <2>1, <3>1, SumOneMore
    <3> QED
      BY <2>2, <3>2 DEF T
  <2>4. SentUpTo(s, l + 1)' = Paid(s)'[l + 1] + SentUpTo(s, l)'
    BY <2>1, <2>3 DEF SentUpTo
  <2>5. SentUpTo(s, l)' = SentUpTo(s, l) /\ SentUpTo(s, l) \in Nat
    <3>1. l \in 0 .. l /\ l \in Nat
      BY <1>1
    <3> QED
      BY <1>3, <3>1, SentFacts
  <2>6. Paid(s)'[l + 1] = IF ValidTransfer(t, s) THEN t.amount ELSE 0
    BY <1>2
  <2>7. Paid(s)'[l + 1] \in Nat
    BY <1>2, <2>2
  <2> DEFINE a == SentUpTo(s, l)
             b == SentUpTo(s, l + 1)'
             x == IF ValidTransfer(t, s) THEN t.amount ELSE 0
  <2>8. b = x + a /\ x \in Nat /\ a \in Nat
    BY <2>4, <2>5, <2>6, <2>7
  <2> HIDE DEF a, b, x
  <2>9. b = a + x
    BY <2>8
  <2> QED
    BY <2>9 DEF a, b, x
<1> QED
  BY <1>1, <1>3, <1>4

-----------------------------------------------------------------------------
(* A group begins with nothing in it.                                      *)
LEMMA GroupStarts == GroupInit => GroupInv
<1> SUFFICES ASSUME GroupInit PROVE GroupInv
  OBVIOUS
<1>1. group \in Seq(Txns) /\ Len(group) = 0
  BY EmptySeq DEF GroupInit
<1>2. ASSUME NEW s \in Listed PROVE SentUpTo(s, 0) = 0
  <2>1. Paid(s) = [k \in Nat |-> 0]
    BY <1>1 DEF Paid
  <2>2. PICK f \in [Nat -> Nat] : f = Paid(s)
    BY <2>1
  <2>3. SumFunctionOnSet(f, {}) = Cardinality(Pairs(f, {}))
    BY SumOfPart, FS_EmptySet
  <2>4. Pairs(f, {}) = {} /\ 1 .. 0 = {}
    BY DEF Pairs
  <2> QED
    BY <2>2, <2>3, <2>4, FS_EmptySet DEF SentUpTo
<1> QED
  BY <1>1, <1>2 DEF GroupInv, GroupInit, Nothing

(* A transfer is not counted yet, but has been received if it is a reward. *)
LEMMA TransferKeeps ==
  ASSUME GroupInv, NEW t \in Txns, ExecuteTransfer(t)
  PROVE  GroupInv'
<1> USE DEF GroupInv
<1>0. PICK l \in Nat : l = Len(group)
  BY LenProperties
<1>1. /\ t.type = "transfer" /\ ~ rejected /\ ~ rejected' /\ group' = Append(group, t)
      /\ counted' = counted /\ t \in Transfer /\ t.amount \in Nat
      /\ received' = IF t.to = "farm" THEN [received EXCEPT ![t.slot] = @ + t.amount]
                                      ELSE received
  BY <1>0, TxnFields DEF ExecuteTransfer, Execute
<1>2. /\ group' \in Seq(Txns) /\ Len(group') = l + 1
      /\ received' \in [Listed -> Nat]
  <2>1. t.slot \in Listed
    BY <1>1 DEF Transfer
  <2> QED
    BY <1>0, <1>1, <2>1, Appended
<1>3. ASSUME NEW s \in Listed
      PROVE  /\ SentUpTo(s, l) \in Nat /\ SentUpTo(s, l) <= received[s]
             /\ counted[s] <= SentUpTo(s, l)
             /\ SentUpTo(s, l + 1)'
                  = SentUpTo(s, l) + IF ValidTransfer(t, s) THEN t.amount ELSE 0
  <2>1. OnlyTransfersAfter(l) /\ l \in 0 .. l
    BY <1>0 DEF OnlyTransfersAfter
  <2> QED
    BY <1>0, <1>1, <2>1, SentFacts, Appended
<1>4. ASSUME NEW s \in Listed, NEW m \in 0 .. l + 1, OnlyTransfersAfter(m)'
      PROVE  counted'[s] <= SentUpTo(s, m)'
  <2>1. CASE m \in 0 .. l
    <3>1. OnlyTransfersAfter(m)
      BY <1>0, <1>1, <1>2, <1>4, <2>1, Appended DEF OnlyTransfersAfter
    <3> QED
      BY <1>0, <1>1, <2>1, <3>1, Appended
  <2>2. CASE m = l + 1
    <3> DEFINE a == SentUpTo(s, l)
               b == SentUpTo(s, l + 1)'
    <3>1. /\ a \in Nat /\ counted[s] <= a /\ counted[s] \in Nat
          /\ b = a + IF ValidTransfer(t, s) THEN t.amount ELSE 0
      BY <1>3
    <3> HIDE DEF a, b
    <3>2. counted'[s] <= b
      BY <1>1, <3>1
    <3> QED
      BY <2>2, <3>2 DEF b
  <2> QED
    BY <1>0, <2>1, <2>2
<1>5. ASSUME NEW s \in Listed PROVE SentUpTo(s, l + 1)' <= received'[s]
  <2> DEFINE a == SentUpTo(s, l)
             b == SentUpTo(s, l + 1)'
  <2>1. /\ a \in Nat /\ a <= received[s] /\ received[s] \in Nat
        /\ b = a + IF ValidTransfer(t, s) THEN t.amount ELSE 0
    BY <1>3
  <2>2. received'[s] = received[s] + (IF t.to = "farm" /\ t.slot = s THEN t.amount ELSE 0)
    BY <1>1 DEF Transfer
  <2>3. ValidTransfer(t, s) => t.to = "farm" /\ t.slot = s
    BY DEF ValidTransfer
  <2> HIDE DEF a, b
  <2>4. b <= received'[s]
    BY <1>1, <2>1, <2>2, <2>3
  <2> QED
    BY <2>4 DEF b
<1> QED
  BY <1>0, <1>1, <1>2, <1>4, <1>5

(* No transfer before a call is among the transfers at the group's end.    *)
LEMMA OnlyAfterCall ==
  ASSUME group \in Seq(Txns), NEW t \in Txns, group' = Append(group, t),
         t.type # "transfer", NEW m \in 0 .. Len(group) + 1, OnlyTransfersAfter(m)'
  PROVE  m = Len(group) + 1
<1>1. PICK l \in Nat : l = Len(group)
  BY LenProperties
<1>2. Len(group') = l + 1 /\ group'[l + 1] = t
  BY <1>1, Appended
<1>3. m <= l => l + 1 \in m + 1 .. l + 1
  BY <1>1
<1> QED
  BY <1>1, <1>2, <1>3 DEF OnlyTransfersAfter

(* A call that schedules nothing.                                          *)
LEMMA UpdateKeeps ==
  ASSUME GroupInv, NEW t \in Txns, ExecuteUpdate(t)
  PROVE  GroupInv'
<1> USE DEF GroupInv
<1>0. PICK l \in Nat : l = Len(group)
  BY LenProperties
<1>1. /\ t.type = "update" /\ ~ rejected /\ group' = Append(group, t)
      /\ counted' = counted /\ received' = received
  BY DEF ExecuteUpdate, Execute
<1>2. group' \in Seq(Txns) /\ Len(group') = l + 1
  BY <1>0, <1>1, Appended
<1>3. ASSUME NEW s \in Listed
      PROVE  /\ SentUpTo(s, l + 1)' = SentUpTo(s, l)
             /\ counted[s] <= SentUpTo(s, l) /\ SentUpTo(s, l) <= received[s]
  <2>1. ~ ValidTransfer(t, s)
    BY <1>1 DEF ValidTransfer
  <2>2. OnlyTransfersAfter(l) /\ l \in 0 .. l
    BY <1>0 DEF OnlyTransfersAfter
  <2>3. SentUpTo(s, l) \in Nat
    BY <1>0, <2>2, SentFacts
  <2> QED
    BY <1>0, <1>1, <2>1, <2>2, <2>3, Appended
<1>4. ASSUME NEW m \in 0 .. l + 1, OnlyTransfersAfter(m)' PROVE m = l + 1
  BY <1>0, <1>1, <1>4, OnlyAfterCall
<1> QED
  BY <1>0, <1>1, <1>2, <1>3, <1>4

(* A set of positions that is not empty has a last one: the positions from *)
(* it on are the fewest.                                                   *)
LEMMA LastPosition ==
  ASSUME NEW n \in Nat, NEW K \in SUBSET (1 .. n), K # {}
  PROVE  \E k \in K : \A j \in K : j <= k
<1> DEFINE Tails == {k .. n : k \in K}
<1>1. IsFiniteSet(1 .. n) /\ Tails \subseteq SUBSET (1 .. n) /\ Tails # {}
  <2>1. ASSUME NEW k \in K PROVE k .. n \subseteq 1 .. n
    OBVIOUS
  <2>2. \A k \in K : k .. n \in SUBSET (1 .. n)
    BY <2>1
  <2>3. Tails \subseteq SUBSET (1 .. n) /\ Tails # {}
    BY <2>2
  <2> QED
    BY <2>3, Initial
<1>2. IsWellFoundedOn(StrictSubsetOrdering(1 .. n), SUBSET (1 .. n))
  BY <1>1, FS_StrictSubsetOrderingWellFounded, FS_FiniteSubsetsOfFinite
<1>3. PICK B \in Tails : \A C \in Tails : ~ (<<C, B>> \in StrictSubsetOrdering(1 .. n))
  <2> HIDE DEF Tails
  <2> QED
    BY <1>1, <1>2, WFMin
<1>4. PICK k \in K : B = k .. n
  OBVIOUS
<1>5. ASSUME NEW j \in K, ~ (j <= k) PROVE FALSE
  <2>1. /\ j .. n \in Tails /\ j .. n \subseteq k .. n /\ k \in k .. n
        /\ k \notin j .. n /\ j .. n \subseteq 1 .. n /\ k .. n \subseteq 1 .. n
    BY <1>5
  <2>2. <<j .. n, k .. n>> \in StrictSubsetOrdering(1 .. n)
    BY <2>1 DEF StrictSubsetOrdering
  <2> QED
    BY <1>3, <1>4, <2>1, <2>2
<1> QED
  BY <1>5

(* The transfer that counts for a listed index.                            *)
LEMMA LastOfType ==
  ASSUME NEW xs \in IdLists, NEW s \in ToSet(xs)
  PROVE  /\ LastOf(xs, s) \in 1 .. Len(xs) /\ xs[LastOf(xs, s)] = s
         /\ \A j \in 1 .. Len(xs) : xs[j] = s => j <= LastOf(xs, s)
<1>1. DOMAIN xs = 1 .. Len(xs) /\ Len(xs) \in Nat
  BY IdListType, LenProperties
<1> DEFINE K == {k \in 1 .. Len(xs) : xs[k] = s}
<1>2. K \in SUBSET (1 .. Len(xs)) /\ K # {}
  BY <1>1 DEF ToSet
<1>3. \E k \in K : \A j \in K : j <= k
  <2> HIDE DEF K
  <2> QED
    BY <1>1, <1>2, LastPosition
<1>4. \E k \in DOMAIN xs : xs[k] = s /\ \A j \in DOMAIN xs : xs[j] = s => j <= k
  BY <1>1, <1>3
<1> QED
  BY <1>1, <1>4 DEF LastOf

(* deposit_rewards counts transfers after the last call, each in its slot. *)
LEMMA DepositKeeps ==
  ASSUME GroupInv, NEW t \in Txns, ExecuteDeposit(t)
  PROVE  GroupInv'
<1> USE DEF GroupInv
<1>0. PICK l, n : l \in Nat /\ l = Len(group) /\ n = Len(t.ids)
  BY LenProperties
<1>1. /\ t.type = "deposit" /\ ~ rejected /\ group' = Append(group, t)
      /\ DepositAccepted(t.ids) /\ received' = received
      /\ counted' = [s \in Listed |-> counted[s] + NewRewards(t.ids)[s]]
  BY DEF ExecuteDeposit, Execute
<1>2. group' \in Seq(Txns) /\ Len(group') = l + 1
  BY <1>0, <1>1, Appended
<1>3. /\ t.ids \in IdLists /\ t.ids \in Seq(Listed)
      /\ n \in Nat \ {0} /\ DOMAIN t.ids = 1 .. n
  BY <1>0, <1>1, TxnFields, IdListType, EmptySeq, LenProperties DEF DepositAccepted
<1>4. /\ l - n \in 0 .. l
      /\ \A k \in 1 .. n : ValidTransfer(group[l - n + k], t.ids[k])
  <2>1. \A k \in 1 .. n : l - n + k >= 1 /\ ValidTransfer(group[l - n + k], t.ids[k])
    BY <1>0, <1>1, <1>3 DEF DepositAccepted, DepositId
  <2>2. l - n \in 0 .. l
    <3>1. 1 \in 1 .. n /\ n \in Nat
      BY <1>3
    <3>2. l - n + 1 >= 1
      BY <2>1, <3>1
    <3> QED
      BY <1>0, <3>1, <3>2
  <2> QED
    BY <2>1, <2>2
<1>5. OnlyTransfersAfter(l - n)
  <2> SUFFICES ASSUME NEW k \in l - n + 1 .. l PROVE group[k].type = "transfer"
    BY <1>0 DEF OnlyTransfersAfter
  <2>1. n \in Nat /\ l - n \in Nat
    BY <1>3, <1>4
  <2>2. k - (l - n) \in 1 .. n /\ k = l - n + (k - (l - n))
    <3>1. \A x, y \in Nat : \A j \in x - y + 1 .. x :
            j - (x - y) \in 1 .. y /\ j = x - y + (j - (x - y))
      OBVIOUS
    <3> QED
      BY <1>0, <2>1, <3>1, Zenon
  <2>3. ValidTransfer(group[k], t.ids[k - (l - n)])
    BY <1>4, <2>2
  <2> QED
    BY <2>3 DEF ValidTransfer
<1>6. ASSUME NEW s \in Listed
      PROVE  /\ SentUpTo(s, l) \in Nat /\ SentUpTo(s, l - n) \in Nat
             /\ SentUpTo(s, l - n) <= SentUpTo(s, l)
             /\ \A k \in l - n + 1 .. l : Paid(s)[k] + SentUpTo(s, l - n) <= SentUpTo(s, l)
             /\ counted[s] <= SentUpTo(s, l - n) /\ counted[s] \in Nat
  BY <1>0, <1>1, <1>4, <1>5, SentFacts
<1>7. ASSUME NEW s \in Listed
      PROVE  counted'[s] \in Nat /\ counted'[s] <= SentUpTo(s, l)
  <2>1. CASE s \notin ToSet(t.ids)
    <3>1. counted'[s] = counted[s] + 0
      BY <1>1, <2>1 DEF NewRewards
    <3> DEFINE a == SentUpTo(s, l)
               b == SentUpTo(s, l - n)
    <3>2. a \in Nat /\ b \in Nat /\ b <= a /\ counted[s] <= b /\ counted[s] \in Nat
      BY <1>6
    <3> HIDE DEF a, b
    <3>3. counted'[s] \in Nat /\ counted'[s] <= a
      BY <3>1, <3>2
    <3> QED
      BY <3>3 DEF a
  <2>2. CASE s \in ToSet(t.ids)
    <3> DEFINE k == LastOf(t.ids, s)
               p == l - n + k
    <3>1. k \in 1 .. n /\ t.ids[k] = s
      BY <1>0, <1>3, <2>2, LastOfType
    <3>2. DepositId(t.ids, k) = p
      BY <1>0 DEF DepositId
    <3>3. counted'[s] = counted[s] + group[p].amount
      BY <1>1, <2>2, <3>2 DEF NewRewards, DepositedAmount
    <3>4. ValidTransfer(group[p], s)
      BY <1>4, <3>1
    <3>5. p \in l - n + 1 .. l /\ p \in 1 .. l /\ p \in Nat
      <4>1. n \in Nat /\ l - n \in Nat /\ l \in Nat
        BY <1>0, <1>3, <1>4
      <4>2. k \in 1 .. n
        BY <3>1
      <4> HIDE DEF k
      <4>3. l - n + k \in l - n + 1 .. l
        BY <4>1, <4>2
      <4> QED
        BY <4>1, <4>3
    <3>6. Paid(s)[p] = group[p].amount
      BY <1>0, <3>4, <3>5 DEF Paid
    <3>7. Paid(s)[p] \in Nat
      BY <3>5, PaidType
    <3> DEFINE a == SentUpTo(s, l)
               b == SentUpTo(s, l - n)
               x == Paid(s)[p]
    <3>8. /\ a \in Nat /\ b \in Nat /\ x + b <= a /\ x \in Nat
          /\ counted[s] <= b /\ counted[s] \in Nat /\ counted'[s] = counted[s] + x
      BY <1>6, <3>3, <3>5, <3>6, <3>7
    <3> HIDE DEF a, b, x
    <3>9. counted'[s] \in Nat /\ counted'[s] <= a
      BY <3>8
    <3> QED
      BY <3>9 DEF a
  <2> QED
    BY <2>1, <2>2
<1>8. ASSUME NEW s \in Listed
      PROVE  /\ SentUpTo(s, l + 1)' = SentUpTo(s, l)
             /\ SentUpTo(s, l) <= received[s]
  <2>1. ~ ValidTransfer(t, s)
    BY <1>1 DEF ValidTransfer
  <2> QED
    BY <1>0, <1>1, <1>6, <2>1, Appended
<1>9. ASSUME NEW m \in 0 .. l + 1, OnlyTransfersAfter(m)' PROVE m = l + 1
  BY <1>0, <1>1, <1>9, OnlyAfterCall
<1>10. counted' \in [Listed -> Nat]
  BY <1>1, <1>7
<1> QED
  BY <1>0, <1>1, <1>2, <1>7, <1>8, <1>9, <1>10

(* GroupInv holds in every group.                                          *)
LEMMA GroupInvariance == GroupSpec => []GroupInv
<1>1. GroupInv /\ [GroupNext]_groupVars => GroupInv'
  <2> SUFFICES ASSUME GroupInv, [GroupNext]_groupVars PROVE GroupInv'
    OBVIOUS
  <2>1. ASSUME NEW t \in Txns, ExecuteTransfer(t) PROVE GroupInv'
    BY <2>1, TransferKeeps
  <2>2. ASSUME NEW t \in Txns, ExecuteUpdate(t) PROVE GroupInv'
    BY <2>2, UpdateKeeps
  <2>3. ASSUME NEW t \in Txns, ExecuteDeposit(t) PROVE GroupInv'
    BY <2>3, DepositKeeps
  <2>4. ASSUME NEW t \in Txns, Reject(t) PROVE GroupInv'
    BY <2>4, LenProperties, Appended DEF Reject, Execute, GroupInv, Nothing
  <2>5. CASE UNCHANGED groupVars
    BY <2>5 DEF groupVars, GroupInv, OnlyTransfersAfter, SentUpTo, Paid
  <2> QED
    BY <2>1, <2>2, <2>3, <2>4, <2>5 DEF GroupNext
<1> QED
  BY <1>1, GroupStarts, PTL DEF GroupSpec

(* The rewards a group schedules have come with it from the admin, each    *)
(* transfer counting at most once, in groups of any length, with any number*)
(* of deposits, indices and amounts.                                       *)
THEOREM DepositsCountWhatWasSent == GroupSpec => []CountedWereSent
<1>1. GroupInv => CountedWereSent
  <2> SUFFICES ASSUME GroupInv, ~ rejected, NEW s \in Listed
               PROVE  counted[s] <= SentByAdmin(s) /\ counted[s] <= received[s]
    BY DEF CountedWereSent
  <2>1. PICK l \in Nat : l = Len(group) /\ DOMAIN group = 1 .. l
    BY LenProperties DEF GroupInv
  <2>2. OnlyTransfersAfter(l) /\ l \in 0 .. l
    BY <2>1 DEF OnlyTransfersAfter
  <2>3. /\ counted[s] <= SentUpTo(s, l) /\ SentUpTo(s, l) <= received[s]
        /\ SentUpTo(s, l) \in Nat /\ counted[s] \in Nat /\ received[s] \in Nat
    BY <2>1, <2>2, SentFacts DEF GroupInv
  <2>4. SentByAdmin(s) = SentUpTo(s, l)
    <3> DEFINE h == [k \in DOMAIN group |-> IF ValidTransfer(group[k], s)
                                            THEN group[k].amount ELSE 0]
    <3>1. PICK f \in [Nat -> Nat] : f = Paid(s)
      BY PaidType DEF GroupInv
    <3>2. \A k \in 1 .. l : h[k] = f[k] /\ f[k] \in Nat
      BY <2>1, <3>1 DEF Paid
    <3>3. h \in [1 .. l -> Nat]
      BY <2>1, <3>2
    <3>4. SentByAdmin(s) = SumFunctionOnSet(h, 1 .. l)
      BY <2>1 DEF SentByAdmin
    <3> HIDE DEF h
    <3>5. IsFiniteSet(1 .. l) /\ 1 .. l \in SUBSET Nat
      BY <2>1, Initial
    <3>6. Pairs(h, 1 .. l) = Pairs(f, 1 .. l)
      BY <3>2 DEF Pairs
    <3>7. SumFunctionOnSet(h, 1 .. l) = Cardinality(Pairs(h, 1 .. l))
      BY <3>3, <3>5, SumCounts
    <3>8. SumFunctionOnSet(f, 1 .. l) = Cardinality(Pairs(f, 1 .. l))
      BY <3>5, SumOfPart
    <3> QED
      BY <3>1, <3>4, <3>6, <3>7, <3>8 DEF SentUpTo
  <2> QED
    BY <2>3, <2>4
<1> QED
  BY <1>1, GroupInvariance, PTL

(* The last elements of a sequence, by their positions.                    *)
LEMMA SuffixPositions ==
  ASSUME NEW S, NEW s \in Seq(S), NEW t \in Seq(S), IsSuffix(s, t)
  PROVE  /\ Len(s) \in Nat /\ Len(t) \in Nat /\ Len(s) <= Len(t)
         /\ \A k \in 1 .. Len(s) : t[Len(t) - Len(s) + k] = s[k]
<1> DEFINE m == Len(s)
           n == Len(t)
           r == Reverse(s)
           q == Reverse(t)
<1>1. /\ m \in Nat /\ n \in Nat
      /\ \A k \in 1 .. m : s[k] \in S
      /\ \A k \in 1 .. n : t[k] \in S
  BY LenProperties, ElementOfSeq
<1>2. /\ r = [j \in 1 .. m |-> s[(m - j) + 1]]
      /\ q = [j \in 1 .. n |-> t[(n - j) + 1]]
  BY DEF Reverse
<1>3. Len(r) <= Len(q) /\ SubSeq(r, 1, Len(r)) = SubSeq(q, 1, Len(r))
  BY DEF IsSuffix, IsPrefix
<1> HIDE DEF m, n, r, q
<1>4. /\ \A j \in 1 .. m : m - j + 1 \in 1 .. m
      /\ \A j \in 1 .. n : n - j + 1 \in 1 .. n
  BY <1>1
<1>5. r \in [1 .. m -> S] /\ q \in [1 .. n -> S]
  BY <1>1, <1>2, <1>4
<1>6. r \in Seq(S) /\ q \in Seq(S) /\ Len(r) = m /\ Len(q) = n
  BY <1>1, <1>5, SeqDef, LenProperties
<1>7. m <= n /\ SubSeq(r, 1, m) = SubSeq(q, 1, m)
  BY <1>3, <1>6
<1>8. ASSUME NEW j \in 1 .. m PROVE r[j] = q[j]
  <2>1. 1 \in Int /\ m \in Int /\ j \in 1 .. m - 1 + 1 /\ 1 + j - 1 = j
    BY <1>1
  <2>2. \A k \in 1 .. m : r[k] \in S /\ q[k] \in S
    BY <1>1, <1>5, <1>7
  <2>3. SubSeq(r, 1, m)[j] = r[1 + j - 1]
    BY <2>1, <2>2, SubSeqProperties
  <2>4. SubSeq(q, 1, m)[j] = q[1 + j - 1]
    BY <2>1, <2>2, SubSeqProperties
  <2> QED
    BY <1>7, <2>1, <2>3, <2>4
<1>9. ASSUME NEW k \in 1 .. m PROVE t[n - m + k] = s[k]
  <2> DEFINE j == m - k + 1
  <2>1. j \in 1 .. m /\ j \in 1 .. n /\ (m - j) + 1 = k /\ (n - j) + 1 = n - m + k
    BY <1>1, <1>7
  <2> HIDE DEF j
  <2>2. r[j] = s[(m - j) + 1] /\ q[j] = t[(n - j) + 1]
    BY <1>2, <2>1
  <2> QED
    BY <1>8, <2>1, <2>2
<1> QED
  BY <1>1, <1>7, <1>9 DEF m, n

(* The rewards and the deposit that counts them.                           *)
LEMMA PlainDepositParts ==
  ASSUME NEW n \in 1 .. MaxIds, NEW xs \in [1 .. n -> Listed],
         NEW ys \in [1 .. n -> Amounts]
  PROVE  /\ PlainDeposit(xs, ys) \in Seq(Txns) /\ Len(PlainDeposit(xs, ys)) = n + 1
         /\ \A k \in 1 .. n : PlainDeposit(xs, ys)[k] = Reward(xs[k], ys[k])
         /\ PlainDeposit(xs, ys)[n + 1] = [type |-> "deposit", ids |-> xs]
<1> DEFINE call == [type |-> "deposit", ids |-> xs]
           rewards == [k \in DOMAIN xs |-> Reward(xs[k], ys[k])]
<1>1. n \in Nat /\ n \in 0 .. MaxIds /\ DOMAIN xs = 1 .. n
  BY DepositGroupAssumption
<1>2. call \in Txns
  BY <1>1 DEF Txns, DepositCall, IdLists
<1>3. /\ rewards \in [1 .. n -> Txns]
      /\ \A k \in 1 .. n : rewards[k] = Reward(xs[k], ys[k])
  BY <1>1 DEF Txns
<1>4. rewards \in Seq(Txns) /\ Len(rewards) = n
  BY <1>1, <1>3, SeqDef, LenProperties
<1>5. <<call>> \in Seq(Txns) /\ Len(<<call>>) = 1 /\ <<call>>[1] = call
  BY <1>2
<1>6. PlainDeposit(xs, ys) = rewards \o <<call>>
  BY DEF PlainDeposit
<1> HIDE DEF rewards, call
<1>7. /\ rewards \o <<call>> \in Seq(Txns)
      /\ Len(rewards \o <<call>>) = n + 1
      /\ \A k \in 1 .. n + 1 : (rewards \o <<call>>)[k] =
           IF k <= n THEN rewards[k] ELSE <<call>>[k - n]
  BY <1>4, <1>5, ConcatProperties
<1>8. /\ \A k \in 1 .. n : k \in 1 .. n + 1 /\ k <= n
      /\ n + 1 \in 1 .. n + 1 /\ ~ (n + 1 <= n) /\ (n + 1) - n = 1
  BY <1>1
<1>9. (rewards \o <<call>>)[n + 1] = call
  BY <1>5, <1>7, <1>8
<1> QED
  BY <1>3, <1>6, <1>7, <1>8, <1>9 DEF call

(* Such a deposit is accepted when the schedule has room, and counts.      *)
LEMMA PlainDepositAccepted ==
  ASSUME GroupInv, GroupNext, NEW n \in 1 .. MaxIds, NEW xs \in [1 .. n -> Listed],
         NEW ys \in [1 .. n -> Amounts],
         IsSuffix(PlainDeposit(xs, ys), group'), updated, deposits < 2
  PROVE  /\ ~ rejected'
         /\ \A k \in 1 .. n : (\A j \in k + 1 .. n : xs[j] # xs[k])
              => counted'[xs[k]] = counted[xs[k]] + ys[k]
<1>1. PICK t \in Txns : /\ ExecuteTransfer(t) \/ ExecuteUpdate(t)
                             \/ ExecuteDeposit(t) \/ Reject(t)
                        /\ group' = Append(group, t) /\ ~ rejected
  BY DEF GroupNext, ExecuteTransfer, ExecuteUpdate, ExecuteDeposit, Reject, Execute
<1>2. PICK l, g : l \in Nat /\ l = Len(group) /\ g = group'
  BY LenProperties DEF GroupInv
<1>3. /\ g \in Seq(Txns) /\ Len(g) = l + 1 /\ g[l + 1] = t
      /\ \A k \in 1 .. l : g[k] = group[k]
  BY <1>1, <1>2, Appended DEF GroupInv
<1>4. /\ n \in Nat /\ 1 <= n /\ Len(xs) = n /\ DOMAIN xs = 1 .. n
      /\ xs \in IdLists
  <2>1. n \in Nat /\ 1 <= n /\ n \in 0 .. MaxIds
    BY DepositGroupAssumption
  <2> QED
    BY <2>1, LenProperties, SeqDef DEF IdLists
<1>5. /\ n + 1 <= l + 1
      /\ \A k \in 1 .. n + 1 : g[(l + 1) - (n + 1) + k] = PlainDeposit(xs, ys)[k]
  <2>1. IsSuffix(PlainDeposit(xs, ys), g)
    BY <1>2
  <2> QED
    <3>1. PlainDeposit(xs, ys) \in Seq(Txns) /\ Len(PlainDeposit(xs, ys)) = n + 1
      BY PlainDepositParts
    <3>2. /\ Len(PlainDeposit(xs, ys)) <= Len(g)
          /\ \A k \in 1 .. Len(PlainDeposit(xs, ys)) :
                g[Len(g) - Len(PlainDeposit(xs, ys)) + k] = PlainDeposit(xs, ys)[k]
      BY <1>3, <2>1, <3>1, SuffixPositions
    <3> QED
      BY <1>3, <3>1, <3>2
<1>6. t = [type |-> "deposit", ids |-> xs]
  <2>1. n + 1 \in 1 .. n + 1 /\ (l + 1) - (n + 1) + (n + 1) = l + 1
    BY <1>2, <1>4
  <2>2. g[(l + 1) - (n + 1) + (n + 1)] = PlainDeposit(xs, ys)[n + 1]
    BY <1>5, <2>1
  <2> QED
    BY <1>3, <2>1, <2>2, PlainDepositParts
<1>7. ASSUME NEW k \in 1 .. n
      PROVE  DepositId(xs, k) >= 1 /\ group[DepositId(xs, k)] = Reward(xs[k], ys[k])
  <2>1. /\ k \in 1 .. n + 1 /\ l - n + k \in 1 .. l
        /\ (l + 1) - (n + 1) + k = l - n + k
    BY <1>2, <1>4, <1>5
  <2>2. g[l - n + k] = Reward(xs[k], ys[k])
    BY <1>5, <2>1, PlainDepositParts
  <2>3. DepositId(xs, k) = l - n + k
    BY <1>2, <1>4 DEF DepositId
  <2> QED
    BY <1>3, <2>1, <2>2, <2>3
<1>8. DepositAccepted(xs)
  <2>1. \A s \in Listed, a \in Amounts : ValidTransfer(Reward(s, a), s)
    BY DEF ValidTransfer, Reward
  <2>2. xs # <<>>
    BY <1>4
  <2> QED
    BY <1>4, <1>7, <2>1, <2>2 DEF DepositAccepted
<1>9. ExecuteDeposit(t)
  BY <1>1, <1>6, <1>8 DEF ExecuteTransfer, ExecuteUpdate, Reject
<1>10. /\ ~ rejected'
       /\ counted' = [s \in Listed |-> counted[s] + NewRewards(xs)[s]]
  BY <1>1, <1>6, <1>9 DEF ExecuteDeposit
<1>11. ASSUME NEW k \in 1 .. n, \A j \in k + 1 .. n : xs[j] # xs[k]
       PROVE  NewRewards(xs)[xs[k]] = ys[k]
  <2>1. xs[k] \in ToSet(xs)
    BY <1>4 DEF ToSet
  <2>2. PICK m : m = LastOf(xs, xs[k])
    OBVIOUS
  <2>3. m \in 1 .. n /\ xs[m] = xs[k] /\ k <= m
    BY <1>4, <2>1, <2>2, LastOfType
  <2>4. m = k
    <3>1. m # k => m \in k + 1 .. n
      BY <1>4, <2>3
    <3> QED
      BY <1>11, <2>3, <3>1
  <2>5. group[DepositId(xs, k)].amount = ys[k]
    <3>1. group[DepositId(xs, k)] = Reward(xs[k], ys[k])
      BY <1>7
    <3> QED
      BY <3>1 DEF Reward
  <2> QED
    BY <2>1, <2>2, <2>4, <2>5 DEF NewRewards, DepositedAmount
<1>12. ASSUME NEW k \in 1 .. n, \A j \in k + 1 .. n : xs[j] # xs[k]
       PROVE  counted'[xs[k]] = counted[xs[k]] + ys[k]
  BY <1>10, <1>11, <1>12
<1> QED
  BY <1>10, <1>12

(* Transfers followed by the deposit they pay for are accepted wherever    *)
(* they are in a group, and each counts with its own amount; of several in *)
(* one asset only the last does (farm.py, deposit_rewards).                *)
THEOREM PlainDepositsCount == GroupSpec => PlainDepositCounts
<1>1. ASSUME GroupInv, GroupNext, NEW xs \in IdLists \ {<<>>},
             NEW ys \in [DOMAIN xs -> Amounts], updated, deposits < 2
      PROVE  PlainDepositCounted(xs, ys)
  <2> SUFFICES ASSUME IsSuffix(PlainDeposit(xs, ys), group')
               PROVE  /\ ~ rejected'
                      /\ \A k \in DOMAIN xs :
                           xs[k] \notin {xs[j] : j \in k + 1 .. Len(xs)}
                             => counted'[xs[k]] = counted[xs[k]] + ys[k]
    BY DEF PlainDepositCounted
  <2>1. PICK n \in 0 .. MaxIds : n = Len(xs) /\ DOMAIN xs = 1 .. n
    BY IdListType
  <2>2. xs \in Seq(Listed) /\ xs \in [1 .. n -> Listed] /\ ys \in [1 .. n -> Amounts]
    <3>1. xs \in Seq(Listed)
      BY IdListType
    <3> QED
      BY <2>1, <3>1, LenProperties
  <2>3. n \in 1 .. MaxIds
    <3>1. n # 0
      BY <2>1, <2>2, EmptySeq
    <3> QED
      BY <2>1, <3>1, DepositGroupAssumption
  <2>4. /\ ~ rejected'
        /\ \A k \in 1 .. n : (\A j \in k + 1 .. n : xs[j] # xs[k])
             => counted'[xs[k]] = counted[xs[k]] + ys[k]
    BY <1>1, <2>2, <2>3, PlainDepositAccepted
  <2> QED
    BY <2>1, <2>4
<1>2. GroupInv /\ [GroupNext]_groupVars
        => [updated /\ deposits < 2 =>
              \A slots \in IdLists \ {<<>>} : \A amounts \in [DOMAIN slots -> Amounts] :
                PlainDepositCounted(slots, amounts)]_groupVars
  BY <1>1
<1> QED
  BY <1>2, GroupInvariance, PTL DEF GroupSpec, PlainDepositCounts
=============================================================================
