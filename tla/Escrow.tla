------------------------------- MODULE Escrow -------------------------------
(***************************************************************************)
(* The escrow applications of src/farm/escrow.py and the staked tokens:    *)
(* in the escrows' accounts and in the users' wallets.  The farm's part in *)
(* each step is added in PactFarm.                                         *)
(***************************************************************************)
EXTENDS Integers, FiniteSets

CONSTANTS Owners,      \* accounts that create escrows and hold staked tokens
          EscrowIds,   \* application ids, never used twice
          Farms,       \* farm applications a MasterAppID may name
          Wallet,      \* staked tokens each owner starts with
          None         \* no owner, no application

ASSUME EscrowAssumption ==
  /\ Wallet \in Nat /\ IsFiniteSet(EscrowIds)
  /\ None \notin Owners \union EscrowIds \union Farms

(* Approval programs: "husk" allows anything, "escrow" is this module's.   *)
Programs == {"none", "husk", "escrow", "deleted"}

VARIABLES app,      \* creator, MasterAppID and program of each application
          balance,  \* staked tokens in each escrow's account
          wallet    \* staked tokens outside the escrows

escrowVars == <<app, balance, wallet>>

EscrowTypeOK ==
  /\ app \in [EscrowIds -> [program : Programs, creator : Owners \union {None},
                          master : Farms \union {None}]]
  /\ balance \in [EscrowIds -> Nat] /\ wallet \in [Owners -> Nat]

EscrowInit ==
  /\ app = [e \in EscrowIds |-> [program |-> "none", creator |-> None, master |-> None]]
  /\ balance = [e \in EscrowIds |-> 0]
  /\ wallet = [o \in Owners |-> Wallet]

(* on_create, of the husk and of the escrow program alike: remember MASTER,*)
(* opt in to the staked asset.                                             *)
Create(e, o, program, master) ==
  /\ app[e].program = "none"
  /\ app' = [app EXCEPT ![e] = [program |-> program, creator |-> o, master |-> master]]
  /\ UNCHANGED <<balance, wallet>>

(* A transfer of staked tokens to an escrow's account, from anyone.  A husk*)
(* that no farm has updated does nothing for its creator, and its program  *)
(* may become anything: tokens sent there are out of the model.            *)
Transfer(o, e, amount) ==
  /\ app[e].program = "escrow"
  /\ amount <= wallet[o]
  /\ wallet' = [wallet EXCEPT ![o] = @ - amount]
  /\ balance' = [balance EXCEPT ![e] = @ + amount]
  /\ UNCHANGED app

SendToAnyCaller(e, caller, amount) ==                         \* mutant
  /\ app[e].program = "escrow" /\ amount <= balance[e]
  /\ balance' = [balance EXCEPT ![e] = @ - amount]
  /\ wallet' = [wallet EXCEPT ![caller] = @ + amount]
  /\ UNCHANGED app

(* The token transfer of on_unstake: to the creator, who alone may call.   *)
SendToCreator(e, caller, amount) ==
  /\ app[e].program = "escrow" /\ caller = app[e].creator
  /\ amount <= balance[e]
  /\ balance' = [balance EXCEPT ![e] = @ - amount]
  /\ wallet' = [wallet EXCEPT ![app[e].creator] = @ + amount]
  /\ UNCHANGED app

DeleteWithoutClosing(e, caller, optedInToMaster) ==           \* mutant
  /\ app[e].program = "escrow" /\ caller = app[e].creator
  /\ ~ optedInToMaster
  /\ app' = [app EXCEPT ![e].program = "deleted"]
  /\ UNCHANGED <<balance, wallet>>

DeleteInUse(e, caller, optedInToMaster) ==                    \* mutant
  /\ app[e].program = "escrow" /\ caller = app[e].creator
  /\ balance' = [balance EXCEPT ![e] = 0]
  /\ wallet' = [wallet EXCEPT ![app[e].creator] = @ + balance[e]]
  /\ app' = [app EXCEPT ![e].program = "deleted"]

(* on_delete: refused while the creator is opted in to MASTER; the account *)
(* closes out to the creator.                                              *)
Delete(e, caller, optedInToMaster) ==
  /\ app[e].program = "escrow" /\ caller = app[e].creator
  /\ ~ optedInToMaster
  /\ balance' = [balance EXCEPT ![e] = 0]
  /\ wallet' = [wallet EXCEPT ![app[e].creator] = @ + balance[e]]
  /\ app' = [app EXCEPT ![e].program = "deleted"]
=============================================================================
