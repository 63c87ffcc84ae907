----------------------------- MODULE ClaimLoop -----------------------------
(***************************************************************************)
(* The loop of Farm.claim_rewards over the indices of one call, as the     *)
(* contract runs it; module Farm states its outcome in one step.  Indices  *)
(* start at 1 here.                                                        *)
(***************************************************************************)
EXTENDS Integers, Sequences, SequencesExt

CONSTANTS MaxFarmedAssets,  \* length of the reward arrays
          MaxRequests,      \* bound on the indices of one call
          MaxReward,        \* bound on the rewards settled per slot
          MaxLimit          \* bound on what the farm can pay per slot

ASSUME ClaimLoopAssumption ==
  /\ MaxFarmedAssets \in Nat \ {0} /\ MaxRequests \in Nat
  /\ MaxReward \in Nat /\ MaxLimit \in Nat

Slots == 1 .. MaxFarmedAssets

VARIABLES ids,         \* reward_ids of the call
          rewardsNum,  \* assets listed
          referenced,  \* slots of the assets in Txn.assets, and of Algo
          receivable,  \* slots of the assets the receiver has opted in to
          limit,       \* what the farm holds, and claimed_rewards can count
          settled,     \* AccruedRewards at the start of the call
          i,           \* indices processed
          accrued,     \* the user_accrued_rewards array
          claimed,     \* the claimed_rewards and user_claimed_rewards arrays,
                       \* which the loop changes alike
          sent,        \* inner transfers made
          outcome      \* "running", "stored", "rejected"

callVars == <<ids, rewardsNum, referenced, receivable, limit, settled>>
loopVars == <<callVars, i, accrued, claimed, sent, outcome>>

Zeros == [s \in Slots |-> 0]

LoopInit ==
  /\ ids \in UNION {[1 .. n -> 1 .. MaxFarmedAssets + 1] : n \in 0 .. MaxRequests}
  /\ rewardsNum \in 0 .. MaxFarmedAssets
  /\ referenced \in SUBSET Slots /\ receivable \in SUBSET Slots
  /\ limit \in [Slots -> 0 .. MaxLimit]
  /\ settled \in [Slots -> 0 .. MaxReward]
  /\ \A s \in Slots : s > rewardsNum => settled[s] = 0
  /\ i = 0 /\ accrued = settled /\ claimed = Zeros /\ sent = Zeros
  /\ outcome = "running"

InBoundsAsserted(s) == s - 1 <= rewardsNum /\ s <= MaxFarmedAssets       \* mutant

(* The assertion lets an index one past the last pass, 0-based, but then   *)
(* reward_asset_ids[...] panics.                                           *)
InBounds(s) == s - 1 <= rewardsNum /\ s <= rewardsNum

(* SendToAddress of the amount in slot s, after which claimed_rewards adds *)
(* it.  The ledger moves no tokens to an account that has not opted in, or *)
(* that the farm does not have; a transfer of zero looks at neither.       *)
Transferable(s, amount) ==
  /\ s \in referenced
  /\ amount > 0 => s \in receivable /\ sent[s] + amount <= limit[s]

Payable(s) == InBounds(s) /\ Transferable(s, accrued[s])

ProcessKeepingAccrued ==                                              \* mutant
  LET s == ids[i + 1]
  IN /\ outcome = "running" /\ i < Len(ids) /\ Payable(s)
     /\ sent' = [sent EXCEPT ![s] = @ + accrued[s]]
     /\ claimed' = [claimed EXCEPT ![s] = @ + accrued[s]]
     /\ i' = i + 1
     /\ UNCHANGED <<callVars, accrued, outcome>>

Process ==
  LET s == ids[i + 1]
  IN /\ outcome = "running" /\ i < Len(ids) /\ Payable(s)
     /\ sent' = [sent EXCEPT ![s] = @ + accrued[s]]
     /\ accrued' = [accrued EXCEPT ![s] = 0]
     /\ claimed' = [claimed EXCEPT ![s] = @ + accrued[s]]
     /\ i' = i + 1
     /\ UNCHANGED <<callVars, outcome>>

(* One index fails: the call is rejected, and the ledger takes back the    *)
(* transfers that have been made for the indices before it.                *)
Panic ==
  /\ outcome = "running" /\ i < Len(ids) /\ ~ Payable(ids[i + 1])
  /\ outcome' = "rejected"
  /\ accrued' = settled /\ claimed' = Zeros /\ sent' = Zeros
  /\ UNCHANGED <<callVars, i>>

Store ==
  /\ outcome = "running" /\ i = Len(ids)
  /\ outcome' = "stored"
  /\ UNCHANGED <<callVars, i, accrued, claimed, sent>>

LoopNext == Process \/ Panic \/ Store

LoopSpec == LoopInit /\ [][LoopNext]_loopVars

-----------------------------------------------------------------------------
(* When the call succeeds each index listed, any number of times, has been *)
(* paid what was settled once, and the others are untouched: what          *)
(* Farm!ClaimRewards does with the set of the indices.                     *)
PaysEachOnce ==
  outcome = "stored" =>
    LET paid == [s \in Slots |-> IF s \in ToSet(ids) THEN settled[s] ELSE 0]
    IN /\ sent = paid /\ claimed = paid
       /\ accrued = [s \in Slots |-> settled[s] - paid[s]]

(* An index whose settled rewards can be paid, once.                       *)
SettledIsPayable(s) ==
  /\ s \in 1 .. rewardsNum /\ s \in referenced
  /\ settled[s] > 0 => s \in receivable /\ settled[s] <= limit[s]

(* The call succeeds exactly when each index listed can be paid once: one  *)
(* that cannot, such as an asset the receiver has not opted in to, makes   *)
(* the whole claim fail, and a repeated index never does.  A failed call   *)
(* leaves everything as it was.                                            *)
StoredIffPayable ==
  /\ outcome = "stored" => \A s \in ToSet(ids) : SettledIsPayable(s)
  /\ outcome = "rejected" =>
       /\ \E s \in ToSet(ids) : ~ SettledIsPayable(s)
       /\ sent = Zeros /\ claimed = Zeros /\ accrued = settled
=============================================================================
