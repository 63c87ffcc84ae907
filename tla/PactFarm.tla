------------------------------ MODULE PactFarm ------------------------------
(***************************************************************************)
(* The farm contract together with the escrows that hold its users' stakes.*)
(* A user opts in with an escrow of its own, the farm reads the balance of *)
(* that escrow, and the escrow tells the farm before tokens leave it.      *)
(***************************************************************************)
EXTENDS FarmProperties, Escrow

CONSTANT ThisFarm   \* the farm's own application id

(* All staked tokens there are; an escrow may hold them all.               *)
AllTokens == SumFunctionOnSet([o \in Owners |-> Wallet], Owners)

ASSUME PactFarmAssumption ==
  /\ Users = Owners /\ ThisFarm \in Farms
  /\ 0 .. AllTokens \subseteq Balances

VARIABLES escrowID,  \* EscrowID in each user's local state
          quitting   \* users who have decided to leave and recover their stake

pactVars == <<vars, escrowVars, escrowID, quitting>>

PactTypeOK ==
  /\ TypeOK /\ EscrowTypeOK
  /\ escrowID \in [Users -> EscrowIds \union {None}]
  /\ quitting \subseteq Users

PactInit ==
  /\ Init /\ EscrowInit
  /\ escrowID = [u \in Users |-> None]
  /\ quitting = {}

-----------------------------------------------------------------------------
ValidEscrowOfAnyUse(e, u) ==                                  \* mutant
  /\ app[e].program = "escrow" /\ app[e].creator = u
  /\ app[e].master = ThisFarm /\ u \in optedIn

(* validate_escrow, with the assertions before it in update_state.         *)
ValidEscrow(e, u) ==
  /\ app[e].program = "escrow"
  /\ app[e].creator = u
  /\ app[e].master = ThisFarm
  /\ u \in optedIn /\ escrowID[u] = e

(* opt_in: the transaction before it in the group, prev, has created e, and*)
(* the farm replaces the husk's program by the escrow's.  A creation whose *)
(* code does not let the farm update it is rejected.                       *)
OptInWithEscrow(u, e, prev) ==
  /\ prev.program = "husk" /\ prev.completion = "NoOp"
  /\ prev.sender = u /\ prev.master = ThisFarm
  /\ Create(e, u, "escrow", prev.master)
  /\ OptIn(u)
  /\ escrowID' = [escrowID EXCEPT ![u] = e]
  /\ UNCHANGED quitting

(* An application with the husk's or the escrow's code that is not created *)
(* right before an opt_in.                                                 *)
CreateUnlinked(u, e, program, master) ==
  /\ Create(e, u, program, master)
  /\ UNCHANGED <<vars, escrowID, quitting>>

Stake(u, e, amount) ==
  /\ Transfer(u, e, amount)
  /\ UNCHANGED <<vars, escrowID, quitting>>

UpdateStateOf(e, u) ==
  /\ ValidEscrow(e, u)
  /\ UpdateState(u, balance[e], FALSE)
  /\ UNCHANGED <<escrowVars, escrowID, quitting>>

UnstakeUnnoticed(e, caller, amount) ==                        \* mutant
  SendToCreator(e, caller, amount) /\ UNCHANGED <<vars, escrowID, quitting>>

(* on_unstake: the transfer, then update_state of MASTER, in one call.  An *)
(* escrow of another farm calls that one.                                  *)
Unstake(e, caller, amount) ==
  /\ SendToCreator(e, caller, amount)
  /\ IF app[e].master = ThisFarm
     THEN /\ ValidEscrow(e, app[e].creator)
          /\ UpdateState(app[e].creator, balance'[e], FALSE)
     ELSE UNCHANGED vars
  /\ UNCHANGED <<escrowID, quitting>>

DeleteEscrow(e, caller) ==
  /\ Delete(e, caller, app[e].master = ThisFarm /\ app[e].creator \in optedIn)
  /\ UNCHANGED <<vars, escrowID, quitting>>

(* clear_state and close_out delete the local state, EscrowID with it.     *)
LeaveFarm(u) ==
  /\ ClearState(u) \/ CloseOut(u)
  /\ escrowID' = [escrowID EXCEPT ![u] = None]
  /\ UNCHANGED <<escrowVars, quitting>>

(* The user's decision to leave for good.                                  *)
Quit(u) ==
  /\ u \notin quitting /\ quitting' = quitting \union {u}
  /\ UNCHANGED <<vars, escrowVars, escrowID>>

-----------------------------------------------------------------------------
(* What concerns the farm alone.                                           *)
FarmOnly ==
  /\ \/ Tick \/ UpdateGlobalState \/ AdminNext
     \/ \E a \in Assets, amount \in Amounts : FundFarm(a, amount)
     \/ \E u \in Users, ids \in SUBSET Listed : ClaimRewards(u, ids)
  /\ UNCHANGED <<escrowVars, escrowID, quitting>>

Creations == [program : {"husk", "escrow"}, completion : {"NoOp", "OptIn"},
              sender : Users, master : Farms]

PactNext ==
  \/ FarmOnly
  \/ \E u \in Users : LeaveFarm(u) \/ Quit(u)
  \/ \E e \in EscrowIds, u \in Users :
       \/ UpdateStateOf(e, u) \/ DeleteEscrow(e, u)
       \/ \E amount \in 0 .. balance[e] : Unstake(e, u, amount)
       \/ /\ u \notin quitting
          /\ \/ \E prev \in Creations : OptInWithEscrow(u, e, prev)
             \/ \E program \in {"husk", "escrow"}, master \in Farms :
                  CreateUnlinked(u, e, program, master)
             \/ \E amount \in 1 .. wallet[u] : Stake(u, e, amount)

PactSpec == PactInit /\ [][PactNext]_pactVars

(* A user who quits claims what is settled, leaves, and deletes its        *)
(* escrows; nobody else needs to do anything.                              *)
ClaimAll(u) ==
  /\ local[u].accrued # ZeroRewards /\ ClaimRewards(u, Listed)
  /\ UNCHANGED <<escrowVars, escrowID, quitting>>

Depart(u) ==
  /\ u \in quitting
  /\ \/ ClaimAll(u)
     \/ local[u].accrued = ZeroRewards /\ LeaveFarm(u)
     \/ \E e \in EscrowIds : DeleteEscrow(e, u)

PactFairSpec == PactSpec /\ \A u \in Users : WF_pactVars(Depart(u))

-----------------------------------------------------------------------------
(* The stake the farm rewards is really there: every user of the farm has  *)
(* an intact escrow of its own, holding at least the stake the farm counts,*)
(* so that no token is counted for two users or after it has gone.         *)
StakeIsBacked ==
  \A u \in optedIn :
    /\ escrowID[u] \in EscrowIds /\ ValidEscrow(escrowID[u], u)
    /\ local[u].staked <= balance[escrowID[u]]

(* Unstaking, any part or all, always works for the escrow in use: the     *)
(* update_state it ends with finds it valid and its arithmetic in range.   *)
UnstakeAlwaysOpen ==
  \A u \in optedIn :
    /\ ValidEscrow(escrowID[u], u)
    /\ UpdateFits /\ SettleFits(Updated, local[u])
    /\ \A kept \in 0 .. balance[escrowID[u]] : StakeFits(local[u].staked, kept)

(* Tokens leave an escrow only for its creator's wallet, and while the farm*)
(* uses the escrow, only in a step that also brings the stake up to date.  *)
TokensReturnToCreator ==
  [][\A e \in EscrowIds : balance'[e] < balance[e] =>
       LET u == app[e].creator
       IN /\ wallet' = [wallet EXCEPT ![u] = @ + balance[e] - balance'[e]]
          /\ u \in optedIn /\ escrowID[u] = e => local'[u].staked = balance'[e]]_pactVars

(* A user who has decided to leave gets out and has all its tokens back,   *)
(* old and unused escrows included, whatever the others do.                *)
Recovered(u) == /\ u \notin optedIn
                /\ \A e \in EscrowIds : app[e].creator = u => balance[e] = 0

QuittersRecover == \A u \in Users : u \in quitting ~> []Recovered(u)
=============================================================================
