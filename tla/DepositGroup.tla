---------------------------- MODULE DepositGroup ----------------------------
(***************************************************************************)
(* One atomic transaction group with deposit_rewards calls in it, executed *)
(* transaction by transaction.  The contract finds the transfers that pay  *)
(* for a deposit by their position: the last ones before the call.         *)
(*                                                                         *)
(* Reward assets are named by their slot; positions start at 1.            *)
(***************************************************************************)
EXTENDS Integers, Sequences, FiniteSets, Functions, SequencesExt

CONSTANTS Listed,    \* indices of the listed reward assets
          Amounts,   \* amounts of one transfer
          MaxIds,    \* bound on the indices of one deposit
          MaxGroup   \* bound on the group's length, 16 on chain

ASSUME DepositGroupAssumption ==
  IsFiniteSet(Listed) /\ Amounts \subseteq Nat /\ MaxIds \in Nat /\ MaxGroup \in Nat

IdLists == UNION {[1 .. n -> Listed] : n \in 0 .. MaxIds}

Transfer == [type : {"transfer"}, slot : Listed, amount : Amounts,
             from : {"admin", "other"}, to : {"farm", "elsewhere"}, plain : BOOLEAN]
UpdateCall == [type : {"update"}]
DepositCall == [type : {"deposit"}, ids : IdLists]

(* The sender is the admin throughout; not plain: rekeys or closes out.    *)
Reward(slot, amount) == [type |-> "transfer", slot |-> slot, amount |-> amount,
                         from |-> "admin", to |-> "farm", plain |-> TRUE]
OneWrong == {t \in Transfer :
               \/ t.from = "other" /\ t.to = "farm" /\ t.plain
               \/ t.from = "admin" /\ t.to # "farm" /\ t.plain
               \/ t.from = "admin" /\ t.to = "farm" /\ ~ t.plain}

Txns == {Reward(s, a) : s \in Listed, a \in Amounts}
          \union OneWrong \union UpdateCall \union DepositCall

VARIABLES group,     \* the transactions of the group up to now
          rejected,  \* the last of them has failed, and the group with it
          updated,   \* UpdatedAt is the block's timestamp
          deposits,  \* deposits in the schedule: pending, then next
          received,  \* what the group has brought to the farm's account
          counted    \* rewards scheduled by this group, per slot

groupVars == <<group, rejected, updated, deposits, received, counted>>

Nothing == [s \in Listed |-> 0]

(* Before the group the farm may have been updated in the same block, and  *)
(* may have one deposit in its schedule or two.                            *)
GroupInit ==
  /\ group = <<>> /\ rejected = FALSE
  /\ updated \in BOOLEAN /\ deposits \in 0 .. 2
  /\ received = Nothing /\ counted = Nothing

(* validate_transfer, for the asset in slot, from the admin to the farm.   *)
ValidTransfer(t, slot) ==
  /\ t.type = "transfer" /\ t.plain
  /\ t.slot = slot /\ t.to = "farm" /\ t.from = "admin"

WindowFromStart(ids, k) == IF Len(ids) <= Len(group) THEN k ELSE 0     \* mutant

WindowBeforeUpdate(ids, k) == Len(group) - Len(ids) + (k - 1)         \* mutant

(* deposit_id, group_index - reward_ids.length() + i, as a position; the   *)
(* call itself is at position Len(group) + 1.                              *)
DepositId(ids, k) == Len(group) - Len(ids) + k

DepositAccepted(ids) ==
  /\ updated /\ deposits < 2 /\ ids # <<>>
  /\ \A k \in DOMAIN ids : /\ DepositId(ids, k) >= 1
                           /\ ValidTransfer(group[DepositId(ids, k)], ids[k])

(* get_deposited_amount.                                                   *)
DepositedAmount(position) == group[position].amount

NewRewardsOfFirst(ids) ==                                             \* mutant
  [s \in Listed |-> IF s \in ToSet(ids)
                    THEN DepositedAmount(DepositId(ids, 1)) ELSE 0]

(* The loop sets the amount of each index; one that is listed again is set *)
(* again, so that its last transfer is counted.                            *)
LastOf(ids, s) ==
  CHOOSE k \in DOMAIN ids : /\ ids[k] = s
                            /\ \A j \in DOMAIN ids : ids[j] = s => j <= k

NewRewards(ids) ==
  [s \in Listed |-> IF s \in ToSet(ids)
                    THEN DepositedAmount(DepositId(ids, LastOf(ids, s))) ELSE 0]

-----------------------------------------------------------------------------
Execute(t) == ~ rejected /\ Len(group) < MaxGroup /\ group' = Append(group, t)

ExecuteTransfer(t) ==
  /\ Execute(t) /\ t.type = "transfer"
  /\ received' = IF t.to = "farm" THEN [received EXCEPT ![t.slot] = @ + t.amount]
                                  ELSE received
  /\ UNCHANGED <<rejected, updated, deposits, counted>>

(* No time passes within a group, so that the schedule does not advance    *)
(* after the first update; advancing it before only empties the schedule.  *)
ExecuteUpdate(t) ==
  /\ Execute(t) /\ t.type = "update"
  /\ updated' = TRUE
  /\ deposits' \in IF updated THEN {deposits} ELSE 0 .. deposits
  /\ UNCHANGED <<rejected, received, counted>>

ExecuteDeposit(t) ==
  /\ Execute(t) /\ t.type = "deposit" /\ DepositAccepted(t.ids)
  /\ deposits' = deposits + 1
  /\ counted' = [s \in Listed |-> counted[s] + NewRewards(t.ids)[s]]
  /\ UNCHANGED <<rejected, updated, received>>

(* A failed call makes the ledger drop the whole group.                    *)
Reject(t) ==
  /\ Execute(t) /\ t.type = "deposit" /\ ~ DepositAccepted(t.ids)
  /\ rejected' = TRUE /\ received' = Nothing /\ counted' = Nothing
  /\ UNCHANGED <<updated, deposits>>

GroupNext == \E t \in Txns :
  ExecuteTransfer(t) \/ ExecuteUpdate(t) \/ ExecuteDeposit(t) \/ Reject(t)

GroupSpec == GroupInit /\ [][GroupNext]_groupVars

-----------------------------------------------------------------------------
SentByAdmin(s) ==
  SumFunctionOnSet([k \in DOMAIN group |-> IF ValidTransfer(group[k], s)
                                           THEN group[k].amount ELSE 0],
                   DOMAIN group)

(* However transfers and deposits are mixed in a group, the rewards it     *)
(* schedules have come with it from the admin, each transfer counting at   *)
(* most once.                                                              *)
CountedWereSent ==
  ~ rejected => \A s \in Listed : /\ counted[s] <= SentByAdmin(s)
                                 /\ counted[s] <= received[s]

PlainDeposit(slots, amounts) ==
  [k \in DOMAIN slots |-> Reward(slots[k], amounts[k])]
    \o <<[type |-> "deposit", ids |-> slots]>>

PlainDepositCounted(slots, amounts) ==
  IsSuffix(PlainDeposit(slots, amounts), group') =>
    /\ ~ rejected'
    /\ \A k \in DOMAIN slots :
         slots[k] \notin {slots[j] : j \in k + 1 .. Len(slots)}
           => counted'[slots[k]] = counted[slots[k]] + amounts[k]

(* Transfers followed by the deposit they pay for are accepted wherever    *)
(* they are in a group, and each counts with its own amount; of several in *)
(* one asset only the last does.                                           *)
PlainDepositCounts ==
  [][updated /\ deposits < 2 =>
       \A slots \in IdLists \ {<<>>} : \A amounts \in [DOMAIN slots -> Amounts] :
         PlainDepositCounted(slots, amounts)]_groupVars

(* README.md:186-189, DEPLOYMENT.md:331-400 and test_farm.py:567 put       *)
(* update_global_state between the transfers and deposit_rewards, where    *)
(* the contract looks for the last transfer.                               *)
DocumentedGroup(s, amount) ==
  <<Reward(s, amount), [type |-> "update"], [type |-> "deposit", ids |-> <<s>>]>>

DocumentedGroupAccepted ==
  \A s \in Listed, amount \in Amounts :
    group = DocumentedGroup(s, amount) /\ deposits = 0 => ~ rejected
=============================================================================
