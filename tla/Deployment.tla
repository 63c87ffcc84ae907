----------------------------- MODULE Deployment -----------------------------
(***************************************************************************)
(* The Algos of farms and escrows: the deployment group of deploy_farm.py, *)
(* the creation of escrows, and what becomes of an escrow's Algos.  Tokens *)
(* and the farm's own use of Algos are in Escrow and Farm.                 *)
(***************************************************************************)
EXTENDS GasStation, FiniteSets, Functions

CONSTANTS Farms, Escrows,  \* application ids, never used twice
          Multisig,        \* settings.ALGORAND_MULTISIG_ADMIN_ADDRESS
          AssetCost,       \* minimum balance for one asset
          BoxCost,         \* BOX_COST, the minimum balance for the box
          Payments,        \* amounts of other payments
          MaxQuota,        \* bound on count and on fee of one quota call
          None

ASSUME DeploymentAssumption ==
  /\ Apps = Farms \union Escrows /\ Farms \intersect Escrows = {}
  /\ IsFiniteSet(Escrows) /\ AssetCost \in Nat /\ BoxCost \in Nat /\ MaxQuota \in Nat
  /\ Payments \subseteq Nat /\ None \notin Users \union {Multisig}

VARIABLES roles,    \* Admin and Updater of each farm
          creator,  \* of each escrow that exists
          used      \* escrow ids already given

deploymentVars == <<algos, roles, creator, used>>

NoRoles == [admin |-> None, updater |-> None]

Created(f) == roles[f] # NoRoles

DeploymentInit ==
  /\ AlgosInit
  /\ roles = [f \in Farms |-> NoRoles]
  /\ creator = [e \in Escrows |-> None]
  /\ used = {}

-----------------------------------------------------------------------------
(* An ABI reference to an account: 0 is the sender, then the listed ones.  *)
AccountAt(sender, accounts, i) == IF i = 0 THEN sender ELSE accounts[i]

DeployPaymentForBox == BoxCost                                \* mutant

DeployPayment == MinBalance + BoxCost

(* create, with the group's arguments; paid is what the transaction before *)
(* it has sent to the station.                                             *)
Create(u, f, paid, accounts, admin, updater) ==
  /\ ~ Created(f)
  /\ RelayTo(u, f, paid, MinBalance + BoxCost)
  /\ roles' = [roles EXCEPT ![f] = [admin |-> AccountAt(u, accounts, admin),
                                    updater |-> AccountAt(u, accounts, updater)]]
  /\ UNCHANGED <<creator, used>>

(* get_deploy_farm_tx_group.                                               *)
DeployFarm(u, f) == Create(u, f, DeployPayment, <<Multisig>>, 0, 1)

(* What a new escrow needs: its minimum balance, with the staked asset.    *)
EscrowPayment == MinBalance + AssetCost

(* on_create of the husk, and what the farm's opt_in does afterwards,      *)
(* which moves no Algos.                                                   *)
CreateEscrow(u, e, paid) ==
  /\ e \notin used
  /\ RelayTo(u, e, paid, EscrowPayment)
  /\ creator' = [creator EXCEPT ![e] = u] /\ used' = used \union {e}
  /\ UNCHANGED roles

WithdrawAlgosToBareMinimum(e, caller) ==                      \* mutant
  /\ creator[e] # None /\ caller = creator[e]
  /\ algos' = [algos EXCEPT ![creator[e]] = @ + algos[e] - MinBalance,
                            ![e] = MinBalance]
  /\ UNCHANGED <<roles, creator, used>>

(* on_withdraw_algos.                                                      *)
WithdrawAlgos(e, caller) ==
  /\ creator[e] # None /\ caller = creator[e]
  /\ algos' = [algos EXCEPT ![creator[e]] = @ + algos[e] - EscrowPayment,
                            ![e] = EscrowPayment]
  /\ UNCHANGED <<roles, creator, used>>

DeleteClosingTokensOnly(e, caller) ==                         \* mutant
  /\ creator[e] # None /\ caller = creator[e]
  /\ creator' = [creator EXCEPT ![e] = None]
  /\ UNCHANGED <<algos, roles, used>>

(* on_delete; it may be refused, because the creator is still opted in.    *)
Delete(e, caller) ==
  /\ creator[e] # None /\ caller = creator[e]
  /\ algos' = [algos EXCEPT ![creator[e]] = @ + algos[e], ![e] = 0]
  /\ creator' = [creator EXCEPT ![e] = None]
  /\ UNCHANGED <<roles, used>>

Live == {f \in Farms : Created(f)} \union {e \in Escrows : creator[e] # None}

AlgosOnly ==
  /\ \/ \E u \in Users :
          \/ Withdraw(u)
          \/ \E to \in Live \union {Station}, amount \in Payments : Pay(u, to, amount)
     \/ \E count, fee \in 1 .. MaxQuota : IncreaseOpcodeQuota(count, fee)
  /\ UNCHANGED <<roles, creator, used>>

DeploymentNext ==
  \/ AlgosOnly
  \/ \E u \in Users :
       \/ \E f \in Farms : DeployFarm(u, f)
       \/ \E e \in Escrows :
            \/ \E paid \in Payments \union {0} : CreateEscrow(u, e, paid)
            \/ WithdrawAlgos(e, u) \/ Delete(e, u)

DeploymentSpec == DeploymentInit /\ [][DeploymentNext]_deploymentVars

-----------------------------------------------------------------------------
(* Every account keeps the minimum balance it needs, so that withdraw and  *)
(* withdraw_algos never panic once it is there, and keep nothing else back.*)
MinimumsKept ==
  /\ roles \in [Farms -> [admin : Users \union {Multisig, None},
                          updater : Users \union {Multisig, None}]]
  /\ \A a \in Users : algos[a] \in Nat
  /\ algos[Station] = 0 \/ Bootstrapped
  /\ \A f \in Farms : IF Created(f) THEN algos[f] >= MinBalance + BoxCost
                                    ELSE algos[f] = 0
  /\ \A e \in Escrows : IF creator[e] \in Users THEN algos[e] >= EscrowPayment
                                               ELSE algos[e] = 0

DeployAccepted(u) == RelayAccepted(u, DeployPayment, MinBalance + BoxCost)

EmptiesStationOnly == algos' = [algos EXCEPT ![Station] = 0]

(* A deployment that would go through now does so later, whatever others   *)
(* take from the station first: none relies on Algos left there by others, *)
(* which the next caller gets.  Only calls of increase_opcode_quota that   *)
(* cost the station everything, its minimum balance included, stop it.     *)
DeploymentsStayOpen ==
  [][\A u \in Users :
       DeployAccepted(u) /\ DeployPayment <= algos'[u]
         => DeployAccepted(u)' \/ EmptiesStationOnly]_deploymentVars

Holdings(u) ==
  SumFunctionOnSet(algos, {u} \union {e \in Escrows : creator[e] = u})

(* An account's Algos and those in its escrows shrink only when it pays    *)
(* some itself: whatever an escrow gives up goes to its creator, and       *)
(* nothing stays behind in a deleted one.                                  *)
HoldingsShrinkByPaying ==
  [][\A u \in Users : Holdings(u)' < Holdings(u) => algos'[u] < algos[u]]_deploymentVars

(* DEPLOYMENT.md:418-452 and test_farm.py:391-417 opt in to a deployed farm*)
(* with a group of two: the husk's creation and opt_in.                    *)
DocumentedOptInAccepted ==
  \A f \in Farms, u \in Users :
    Created(f) => RelayAccepted(u, 0, EscrowPayment)
=============================================================================
