--------------------------- MODULE PactFarmProofs ---------------------------
(***************************************************************************)
(* Proofs about the farm with its escrows: it implements the farm whose    *)
(* escrows are the environment, and the stakes it counts are there.        *)
(***************************************************************************)
EXTENDS PactFarm, FarmSafetyProofs

(* Staked tokens move between wallets and escrows, and are all there.      *)
TokensConserved ==
  SumFunctionOnSet(wallet, Owners) + SumFunctionOnSet(balance, EscrowIds) = AllTokens

PactInv == PactTypeOK /\ TokensConserved /\ StakeIsBacked

-----------------------------------------------------------------------------
(* Tokens                                                                  *)

(* update_state finds a balance the farm is prepared for.                  *)
LEMMA EveryBalance ==
  ASSUME EscrowTypeOK, TokensConserved, NEW e \in EscrowIds, NEW b \in 0 .. balance[e]
  PROVE  b \in Balances /\ b \in Nat
<1>1. IsFiniteSet(EscrowIds) /\ IsFiniteSet(Owners)
  BY EscrowAssumption, FarmAssumption, PactFarmAssumption
<1>2. wallet \in [Owners -> Nat] /\ balance \in [EscrowIds -> Nat]
  BY DEF EscrowTypeOK
<1>3. balance[e] <= SumFunctionOnSet(balance, EscrowIds)
  BY <1>1, <1>2, SumMember
<1>4. /\ SumFunctionOnSet(balance, EscrowIds) \in Nat
      /\ SumFunctionOnSet(wallet, Owners) \in Nat
  BY <1>1, <1>2, SumType
<1>5. balance[e] \in Nat
  BY <1>2
<1>6. b \in Nat /\ b <= AllTokens /\ AllTokens \in Nat
  BY <1>3, <1>4, <1>5 DEF TokensConserved
<1> QED
  BY <1>6, PactFarmAssumption

(* Only the tokens of o and of e change, and not those of both together.   *)
Moves(o, e) ==
  /\ balance' \in [EscrowIds -> Nat] /\ wallet' \in [Owners -> Nat]
  /\ \A z \in EscrowIds \ {e} : balance[z] = balance'[z]
  /\ \A z \in Owners \ {o} : wallet[z] = wallet'[z]
  /\ balance'[e] + wallet'[o] = balance[e] + wallet[o]

(* A move of tokens between a wallet and an escrow keeps their sum.        *)
LEMMA MoveConserves ==
  ASSUME EscrowTypeOK, TokensConserved, NEW o \in Owners, NEW e \in EscrowIds,
         Moves(o, e)
  PROVE  TokensConserved'
<1>1. IsFiniteSet(EscrowIds) /\ IsFiniteSet(Owners)
  BY EscrowAssumption, FarmAssumption, PactFarmAssumption
<1>2. /\ wallet \in [Owners -> Nat] /\ balance \in [EscrowIds -> Nat]
      /\ wallet' \in [Owners -> Nat] /\ balance' \in [EscrowIds -> Nat]
  BY DEF EscrowTypeOK, Moves
<1>3. /\ \A z \in EscrowIds \ {e} : balance[z] = balance'[z]
      /\ \A z \in Owners \ {o} : wallet[z] = wallet'[z]
  BY DEF Moves
<1>4. SumFunctionOnSet(balance', EscrowIds)
        = SumFunctionOnSet(balance, EscrowIds) - balance[e] + balance'[e]
  BY <1>1, <1>2, <1>3, SumChangeOne
<1>5. SumFunctionOnSet(wallet', Owners)
        = SumFunctionOnSet(wallet, Owners) - wallet[o] + wallet'[o]
  BY <1>1, <1>2, <1>3, SumChangeOne
<1>6. /\ SumFunctionOnSet(balance, EscrowIds) \in Nat
      /\ SumFunctionOnSet(wallet, Owners) \in Nat
  BY <1>1, <1>2, SumType
<1>7. /\ balance[e] \in Nat /\ wallet[o] \in Nat
      /\ balance'[e] \in Nat /\ wallet'[o] \in Nat
      /\ balance'[e] + wallet'[o] = balance[e] + wallet[o]
  BY <1>2 DEF Moves
<1>8. SumFunctionOnSet(wallet', Owners) + SumFunctionOnSet(balance', EscrowIds)
        = SumFunctionOnSet(wallet, Owners) + SumFunctionOnSet(balance, EscrowIds)
  BY <1>4, <1>5, <1>6, <1>7
<1>9. AllTokens' = AllTokens
  BY DEF AllTokens
<1> QED
  BY <1>8, <1>9 DEF TokensConserved

(* The escrows' own steps keep their types and all tokens.                 *)
EscrowsSound == EscrowTypeOK /\ TokensConserved

(* on_create moves no tokens.                                              *)
LEMMA CreateSound ==
  ASSUME EscrowsSound, NEW e \in EscrowIds, NEW o \in Owners,
         NEW program \in {"husk", "escrow"}, NEW master \in Farms,
         Create(e, o, program, master)
  PROVE  EscrowsSound'
<1>1. app' \in [EscrowIds -> [program : Programs, creator : Owners \union {None},
                              master : Farms \union {None}]]
  BY DEF EscrowsSound, EscrowTypeOK, Create, Programs
<1> QED
  BY <1>1 DEF EscrowsSound, EscrowTypeOK, Create, TokensConserved, AllTokens

(* A transfer takes from the wallet what the escrow gets.                  *)
LEMMA TransferSound ==
  ASSUME EscrowsSound, NEW e \in EscrowIds, NEW o \in Owners,
         NEW amount \in 1 .. wallet[o], Transfer(o, e, amount)
  PROVE  EscrowsSound' /\ balance'[e] >= balance[e]
<1>1. /\ balance[e] \in Nat /\ wallet[o] \in Nat
      /\ balance[e] + amount \in Nat /\ wallet[o] - amount \in Nat
  BY DEF EscrowsSound, EscrowTypeOK
<1>2. /\ balance' = [balance EXCEPT ![e] = balance[e] + amount]
      /\ wallet' = [wallet EXCEPT ![o] = wallet[o] - amount]
  BY DEF Transfer, EscrowsSound, EscrowTypeOK
<1>3. (balance[e] + amount) + (wallet[o] - amount) = balance[e] + wallet[o]
  BY <1>1
<1>4. /\ balance' \in [EscrowIds -> Nat] /\ wallet' \in [Owners -> Nat]
      /\ TokensConserved'
  <2>1. Moves(o, e)
    BY <1>1, <1>2, <1>3 DEF Moves, EscrowsSound, EscrowTypeOK
  <2> QED
    BY <2>1, MoveConserves DEF EscrowsSound, Moves
<1> QED
  BY <1>1, <1>2, <1>4 DEF Transfer, EscrowsSound, EscrowTypeOK

(* on_unstake's transfer: the caller gets what the escrow loses.           *)
LEMMA SendSound ==
  ASSUME EscrowsSound, NEW e \in EscrowIds, NEW caller \in Owners,
         NEW amount \in 0 .. balance[e], SendToCreator(e, caller, amount)
  PROVE  /\ EscrowsSound' /\ app[e].creator = caller
         /\ balance' = [balance EXCEPT ![e] = balance[e] - amount]
         /\ wallet' = [wallet EXCEPT ![caller] = wallet[caller] + amount]
         /\ balance'[e] \in 0 .. balance[e]
<1>1. /\ balance[e] \in Nat /\ wallet[caller] \in Nat
      /\ balance[e] - amount \in Nat /\ wallet[caller] + amount \in Nat
  BY DEF EscrowsSound, EscrowTypeOK
<1>2. /\ app[e].creator = caller
      /\ balance' = [balance EXCEPT ![e] = balance[e] - amount]
      /\ wallet' = [wallet EXCEPT ![caller] = wallet[caller] + amount]
  BY DEF SendToCreator, EscrowsSound, EscrowTypeOK
<1>3. (balance[e] - amount) + (wallet[caller] + amount) = balance[e] + wallet[caller]
  BY <1>1
<1>4. /\ balance' \in [EscrowIds -> Nat] /\ wallet' \in [Owners -> Nat]
      /\ TokensConserved'
  <2>1. Moves(caller, e)
    BY <1>1, <1>2, <1>3 DEF Moves, EscrowsSound, EscrowTypeOK
  <2> QED
    BY <2>1, MoveConserves DEF EscrowsSound, Moves
<1> QED
  BY <1>1, <1>2, <1>4 DEF SendToCreator, EscrowsSound, EscrowTypeOK

(* on_delete: the creator gets all the escrow has.                         *)
LEMMA DeleteSound ==
  ASSUME EscrowsSound, NEW e \in EscrowIds, NEW caller \in Owners, NEW b \in BOOLEAN,
         Delete(e, caller, b)
  PROVE  /\ EscrowsSound' /\ app[e].creator = caller
         /\ balance' = [balance EXCEPT ![e] = 0]
         /\ wallet' = [wallet EXCEPT ![caller] = wallet[caller] + balance[e]]
<1>1. balance[e] \in Nat /\ wallet[caller] \in Nat /\ wallet[caller] + balance[e] \in Nat
  BY DEF EscrowsSound, EscrowTypeOK
<1>2. /\ app[e].creator = caller
      /\ balance' = [balance EXCEPT ![e] = 0]
      /\ wallet' = [wallet EXCEPT ![caller] = wallet[caller] + balance[e]]
  BY DEF Delete, EscrowsSound, EscrowTypeOK
<1>3. 0 + (wallet[caller] + balance[e]) = balance[e] + wallet[caller]
  BY <1>1
<1>4. /\ balance' \in [EscrowIds -> Nat] /\ wallet' \in [Owners -> Nat]
      /\ TokensConserved'
  <2>1. Moves(caller, e)
    BY <1>1, <1>2, <1>3 DEF Moves, EscrowsSound, EscrowTypeOK
  <2> QED
    BY <2>1, MoveConserves DEF EscrowsSound, Moves
<1>5. app' \in [EscrowIds -> [program : Programs, creator : Owners \union {None},
                              master : Farms \union {None}]]
  BY DEF Delete, EscrowsSound, EscrowTypeOK, Programs
<1> QED
  BY <1>2, <1>4, <1>5 DEF EscrowsSound, EscrowTypeOK

-----------------------------------------------------------------------------
(* Each action is a step of the farm, or none, and keeps the invariant     *)

(* StakeIsBacked for one user.                                             *)
Backed(u) ==
  /\ escrowID[u] \in EscrowIds /\ ValidEscrow(escrowID[u], u)
  /\ local[u].staked <= balance[escrowID[u]]

LinksTypeOK ==
  escrowID \in [Users -> EscrowIds \union {None}] /\ quitting \subseteq Users

(* What every step has to show.                                            *)
Kept == [Next]_vars /\ EscrowsSound' /\ LinksTypeOK' /\ StakeIsBacked'

(* The invariant in the form the lemmas use.                               *)
LEMMA PactInvParts ==
  PactInv <=> TypeOK /\ EscrowsSound /\ LinksTypeOK /\ StakeIsBacked
BY DEF PactInv, PactTypeOK, EscrowsSound, LinksTypeOK

(* A user nothing happened to, except that its escrow received tokens.     *)
LEMMA StillBacked ==
  ASSUME NEW u \in Users, EscrowTypeOK, TypeOK, u \in optedIn, Backed(u), u \in optedIn',
         escrowID'[u] = escrowID[u], app'[escrowID[u]] = app[escrowID[u]],
         local'[u].staked = local[u].staked,
         balance'[escrowID[u]] \in Nat, balance'[escrowID[u]] >= balance[escrowID[u]]
  PROVE  Backed(u)'
<1>1. balance[escrowID[u]] \in Nat
  BY DEF Backed, EscrowTypeOK
<1>2. local[u].staked \in Nat
  BY ConstantsType DEF TypeOK, Local
<1> QED
  BY <1>1, <1>2 DEF Backed, ValidEscrow

(* An escrow in use is its user's, so no two users share one.              *)
LEMMA OwnEscrow ==
  ASSUME StakeIsBacked, NEW u \in optedIn
  PROVE  /\ escrowID[u] \in EscrowIds /\ app[escrowID[u]].program = "escrow"
         /\ app[escrowID[u]].creator = u /\ app[escrowID[u]].master = ThisFarm
         /\ Backed(u)
BY DEF StakeIsBacked, Backed, ValidEscrow

(* The methods of the farm that concern no escrow.                         *)
LEMMA FarmOnlyKeeps ==
  ASSUME PactInv, FarmOnly
  PROVE  Kept
<1>1. /\ TypeOK /\ EscrowsSound /\ LinksTypeOK /\ StakeIsBacked
      /\ UNCHANGED <<app, balance, wallet, escrowID, quitting>>
  BY PactInvParts DEF FarmOnly, escrowVars
<1>2. Next
  BY DEF FarmOnly, Next, StakerNext
<1>3. optedIn' = optedIn /\ \A u \in Users : local'[u].staked = local[u].staked
  <2>1. CASE Tick \/ UpdateGlobalState \/ AdminNext
             \/ \E a \in Assets, amount \in Amounts : FundFarm(a, amount)
    BY <2>1 DEF Tick, UpdateGlobalState, AdminNext, DepositRewards, AddRewardAsset,
                ChangeAdmin, FundFarm
  <2>2. ASSUME NEW u \in Users, NEW ids \in SUBSET Listed, ClaimRewards(u, ids)
        PROVE  optedIn' = optedIn /\ \A v \in Users : local'[v].staked = local[v].staked
    <3>1. optedIn' = optedIn
      BY <2>2 DEF ClaimRewards
    <3>2. local \in [Users -> Local]
      BY <1>1 DEF TypeOK
    <3> QED
      BY <2>2, <3>1, <3>2 DEF ClaimRewards, Local
  <2> QED
    BY <2>1, <2>2 DEF FarmOnly
<1>4. EscrowsSound' /\ LinksTypeOK'
  BY <1>1 DEF EscrowsSound, EscrowTypeOK, TokensConserved, AllTokens, LinksTypeOK
<1>5. StakeIsBacked'
  BY <1>1, <1>3 DEF StakeIsBacked, ValidEscrow, TypeOK
<1> QED
  BY <1>2, <1>4, <1>5 DEF Kept

(* clear_state and close_out.                                              *)
LEMMA LeaveFarmKeeps ==
  ASSUME PactInv, NEW u \in Users, LeaveFarm(u)
  PROVE  Kept
<1>1. /\ TypeOK /\ EscrowsSound /\ LinksTypeOK /\ StakeIsBacked
      /\ UNCHANGED <<app, balance, wallet, quitting>>
      /\ escrowID' = [escrowID EXCEPT ![u] = None]
  BY PactInvParts DEF LeaveFarm, escrowVars
<1>2. Next
  BY DEF LeaveFarm, Next, StakerNext
<1>3. /\ optedIn' = optedIn \ {u} /\ \A v \in Users \ {u} : local'[v] = local[v]
      /\ optedIn \subseteq Users
  BY <1>1 DEF LeaveFarm, ClearState, CloseOut, Leave, TypeOK
<1>4. EscrowsSound' /\ LinksTypeOK'
  BY <1>1 DEF EscrowsSound, EscrowTypeOK, TokensConserved, AllTokens, LinksTypeOK
<1>5. StakeIsBacked'
  <2>1. \A v \in optedIn' : v \in optedIn /\ v \in Users \ {u}
    BY <1>3
  <2>2. \A v \in optedIn' : escrowID'[v] = escrowID[v] /\ local'[v] = local[v]
    BY <1>1, <1>3, <2>1 DEF LinksTypeOK
  <2> QED
    BY <1>1, <2>1, <2>2 DEF StakeIsBacked, ValidEscrow
<1> QED
  BY <1>2, <1>4, <1>5 DEF Kept

(* update_state gives its user the new stake, and nobody else.             *)
LEMMA StakeSet ==
  ASSUME TypeOK, NEW u \in Users, NEW n, UpdateState(u, n, FALSE)
  PROVE  /\ optedIn' = optedIn /\ u \in optedIn /\ optedIn \subseteq Users
         /\ local'[u].staked = n /\ \A v \in Users \ {u} : local'[v] = local[v]
<1>1. local' = [local EXCEPT ![u] = UpdateLocal(Updated, local[u], n)]
  BY DEF UpdateState
<1>2. local[u] \in Local /\ local \in [Users -> Local]
  BY DEF TypeOK
<1>3. UpdateLocal(Updated, local[u], n).staked = n
  BY <1>2 DEF UpdateLocal, Local
<1> QED
  BY <1>1, <1>2, <1>3 DEF UpdateState, TypeOK

(* update_state: the new stake is what the escrow holds.                   *)
LEMMA UpdateStateOfKeeps ==
  ASSUME PactInv, NEW e \in EscrowIds, NEW u \in Users, UpdateStateOf(e, u)
  PROVE  Kept
<1>1. /\ TypeOK /\ EscrowsSound /\ LinksTypeOK /\ StakeIsBacked
      /\ UNCHANGED <<app, balance, wallet, escrowID, quitting>>
      /\ ValidEscrow(e, u) /\ UpdateState(u, balance[e], FALSE)
  BY PactInvParts DEF UpdateStateOf, escrowVars
<1>2. balance[e] \in Nat /\ balance[e] \in Balances
  <2>1. balance[e] \in 0 .. balance[e]
    BY <1>1 DEF EscrowsSound, EscrowTypeOK
  <2> QED
    BY <1>1, <2>1, EveryBalance DEF EscrowsSound
<1>3. Next
  BY <1>1, <1>2 DEF Next, StakerNext
<1>4. /\ optedIn' = optedIn /\ u \in optedIn /\ optedIn \subseteq Users
      /\ local'[u].staked = balance[e] /\ \A v \in Users \ {u} : local'[v] = local[v]
  BY <1>1, StakeSet
<1>5. EscrowsSound' /\ LinksTypeOK'
  BY <1>1 DEF EscrowsSound, EscrowTypeOK, TokensConserved, AllTokens, LinksTypeOK
<1>6. StakeIsBacked'
  <2>1. \A v \in optedIn \ {u} : v \in Users /\ local'[v] = local[v]
    BY <1>4
  <2>2. escrowID[u] = e
    BY <1>1 DEF ValidEscrow
  <2> QED
    BY <1>1, <1>2, <1>4, <2>1, <2>2 DEF StakeIsBacked, ValidEscrow
<1> QED
  BY <1>3, <1>5, <1>6 DEF Kept

(* A step of the escrows alone, on escrows the farm does not use.          *)
LEMMA UnusedEscrowKeeps ==
  ASSUME PactInv, NEW e \in EscrowIds, UNCHANGED <<vars, escrowID, quitting>>,
         EscrowsSound', \A v \in optedIn : escrowID[v] # e,
         \A f \in EscrowIds \ {e} : app'[f] = app[f] /\ balance'[f] = balance[f]
  PROVE  Kept
<1>1. /\ TypeOK /\ EscrowsSound /\ LinksTypeOK /\ StakeIsBacked
      /\ UNCHANGED <<optedIn, local, escrowID, quitting>>
  BY PactInvParts DEF vars
<1>2. StakeIsBacked'
  BY <1>1 DEF StakeIsBacked, ValidEscrow
<1> QED
  BY <1>1, <1>2 DEF Kept, LinksTypeOK

(* on_delete: the escrow of a user of the farm is not deleted.             *)
LEMMA DeleteEscrowKeeps ==
  ASSUME PactInv, NEW e \in EscrowIds, NEW u \in Users, DeleteEscrow(e, u)
  PROVE  Kept
<1>1. /\ EscrowsSound /\ StakeIsBacked /\ u \in Owners
      /\ UNCHANGED <<vars, escrowID, quitting>>
  BY PactInvParts, PactFarmAssumption DEF DeleteEscrow
<1> DEFINE inUse == app[e].master = ThisFarm /\ app[e].creator \in optedIn
<1>2. Delete(e, u, inUse) /\ inUse \in BOOLEAN /\ ~ inUse
  BY DEF DeleteEscrow, Delete
<1> HIDE DEF inUse
<1>3. EscrowsSound' /\ balance' = [balance EXCEPT ![e] = 0]
  BY <1>1, <1>2, DeleteSound
<1>4. \A f \in EscrowIds \ {e} : app'[f] = app[f] /\ balance'[f] = balance[f]
  BY <1>1, <1>2, <1>3 DEF Delete, EscrowsSound, EscrowTypeOK
<1>5. \A v \in optedIn : escrowID[v] # e
  BY <1>1, <1>2, OwnEscrow DEF inUse
<1> QED
  BY <1>1, <1>3, <1>4, <1>5, UnusedEscrowKeeps

(* An application that is not linked to a user.                            *)
LEMMA CreateUnlinkedKeeps ==
  ASSUME PactInv, NEW e \in EscrowIds, NEW u \in Users,
         NEW program \in {"husk", "escrow"}, NEW master \in Farms,
         CreateUnlinked(u, e, program, master)
  PROVE  Kept
<1>1. /\ EscrowsSound /\ StakeIsBacked /\ u \in Owners
      /\ Create(e, u, program, master) /\ UNCHANGED <<vars, escrowID, quitting>>
  BY PactInvParts, PactFarmAssumption DEF CreateUnlinked
<1>2. EscrowsSound'
  BY <1>1, CreateSound
<1>3. \A f \in EscrowIds \ {e} : app'[f] = app[f] /\ balance'[f] = balance[f]
  BY <1>1 DEF Create, EscrowsSound, EscrowTypeOK
<1>4. \A v \in optedIn : escrowID[v] # e
  BY <1>1, OwnEscrow DEF Create
<1> QED
  BY <1>1, <1>2, <1>3, <1>4, UnusedEscrowKeeps

(* A transfer to an escrow, whosever it is.                                *)
LEMMA StakeKeeps ==
  ASSUME PactInv, NEW e \in EscrowIds, NEW u \in Users,
         NEW amount \in 1 .. wallet[u], Stake(u, e, amount)
  PROVE  Kept
<1>1. /\ TypeOK /\ EscrowsSound /\ LinksTypeOK /\ StakeIsBacked /\ u \in Owners
      /\ Transfer(u, e, amount) /\ UNCHANGED <<vars, escrowID, quitting>>
  BY PactInvParts, PactFarmAssumption DEF Stake
<1>2. EscrowsSound' /\ balance'[e] >= balance[e]
  BY <1>1, TransferSound
<1>3. /\ app' = app
      /\ \A f \in EscrowIds : balance'[f] \in Nat /\ balance'[f] >= balance[f]
  BY <1>1, <1>2 DEF Transfer, EscrowsSound, EscrowTypeOK
<1>4. UNCHANGED <<optedIn, local, escrowID, quitting>> /\ optedIn \subseteq Users
  BY <1>1 DEF vars, TypeOK
<1>5. StakeIsBacked'
  <2> SUFFICES ASSUME NEW v \in optedIn PROVE Backed(v)'
    BY <1>4 DEF StakeIsBacked, Backed
  <2>1. Backed(v) /\ escrowID[v] \in EscrowIds /\ v \in Users
    BY <1>1, <1>4, OwnEscrow
  <2> QED
    BY <1>1, <1>3, <1>4, <2>1, StillBacked DEF EscrowsSound
<1> QED
  BY <1>1, <1>2, <1>4, <1>5 DEF Kept, LinksTypeOK

(* opt_in: the escrow is a new application, and nothing is staked yet.     *)
LEMMA OptInWithEscrowKeeps ==
  ASSUME PactInv, NEW e \in EscrowIds, NEW u \in Users, NEW prev \in Creations,
         OptInWithEscrow(u, e, prev)
  PROVE  Kept
<1>1. /\ TypeOK /\ EscrowsSound /\ LinksTypeOK /\ StakeIsBacked /\ u \in Owners
      /\ Create(e, u, "escrow", ThisFarm) /\ OptIn(u)
      /\ escrowID' = [escrowID EXCEPT ![u] = e] /\ quitting' = quitting
  BY PactInvParts, PactFarmAssumption DEF OptInWithEscrow
<1>2. Next
  BY <1>1 DEF Next, StakerNext
<1>3. EscrowsSound'
  BY <1>1, CreateSound, PactFarmAssumption
<1>4. LinksTypeOK'
  BY <1>1 DEF LinksTypeOK
<1>5. /\ app'[e] = [program |-> "escrow", creator |-> u, master |-> ThisFarm]
      /\ \A f \in EscrowIds \ {e} : app'[f] = app[f]
      /\ balance' = balance /\ balance[e] \in Nat
  BY <1>1 DEF Create, EscrowsSound, EscrowTypeOK
<1>6. /\ optedIn' = optedIn \union {u} /\ u \notin optedIn /\ optedIn \subseteq Users
      /\ local'[u].staked = 0 /\ \A v \in Users \ {u} : local'[v] = local[v]
  <2>1. NoLocal.staked = 0
    BY DEF NoLocal
  <2> QED
    BY <1>1, <2>1 DEF OptIn, TypeOK
<1>7. /\ escrowID'[u] = e
      /\ \A v \in Users \ {u} : escrowID'[v] = escrowID[v]
  BY <1>1 DEF LinksTypeOK
<1>8. \A v \in optedIn : escrowID[v] # e
  BY <1>1, OwnEscrow DEF Create
<1>9. StakeIsBacked'
  <2> SUFFICES ASSUME NEW v \in optedIn' PROVE Backed(v)'
    BY DEF StakeIsBacked, Backed
  <2>1. CASE v = u
    BY <1>5, <1>6, <1>7, <2>1 DEF Backed, ValidEscrow
  <2>2. CASE v # u
    <3>1. v \in optedIn /\ v \in Users \ {u}
      BY <1>6, <2>2
    <3>2. Backed(v) /\ escrowID[v] \in EscrowIds \ {e}
      BY <1>1, <1>8, <3>1, OwnEscrow
    <3> QED
      BY <1>5, <1>6, <1>7, <3>1, <3>2 DEF Backed, ValidEscrow
  <2> QED
    BY <2>1, <2>2
<1> QED
  BY <1>2, <1>3, <1>4, <1>9 DEF Kept

(* on_unstake: the farm sees the escrow's balance after the transfer.      *)
LEMMA UnstakeKeeps ==
  ASSUME PactInv, NEW e \in EscrowIds, NEW u \in Users,
         NEW amount \in 0 .. balance[e], Unstake(e, u, amount)
  PROVE  Kept
<1>1. /\ TypeOK /\ EscrowsSound /\ LinksTypeOK /\ StakeIsBacked /\ u \in Owners
      /\ SendToCreator(e, u, amount) /\ UNCHANGED <<escrowID, quitting>>
  BY PactInvParts, PactFarmAssumption DEF Unstake
<1>2. /\ EscrowsSound' /\ app[e].creator = u /\ app' = app
      /\ balance' = [balance EXCEPT ![e] = balance[e] - amount]
      /\ balance'[e] \in 0 .. balance[e] /\ balance'[e] \in Nat
  <2>1. /\ EscrowsSound' /\ app[e].creator = u
        /\ balance' = [balance EXCEPT ![e] = balance[e] - amount]
        /\ balance'[e] \in 0 .. balance[e]
    BY <1>1, SendSound
  <2>2. app' = app
    BY <1>1 DEF SendToCreator
  <2>3. balance'[e] \in Nat
    BY <2>1 DEF EscrowsSound, EscrowTypeOK
  <2> QED
    BY <2>1, <2>2, <2>3
<1>3. \A f \in EscrowIds \ {e} : app'[f] = app[f] /\ balance'[f] = balance[f]
  BY <1>1, <1>2 DEF EscrowsSound, EscrowTypeOK
<1>4. CASE app[e].master # ThisFarm
  <2>1. \A v \in optedIn : escrowID[v] # e
    BY <1>1, <1>4, OwnEscrow
  <2>2. UNCHANGED vars
    BY <1>4 DEF Unstake
  <2> QED
    BY <1>1, <1>2, <1>3, <2>1, <2>2, UnusedEscrowKeeps
<1>5. CASE app[e].master = ThisFarm
  <2>1. ValidEscrow(e, u) /\ UpdateState(u, balance'[e], FALSE)
    BY <1>2, <1>5 DEF Unstake
  <2>2. balance'[e] \in Balances
    BY <1>1, <1>2, EveryBalance DEF EscrowsSound
  <2>3. Next
    BY <2>1, <2>2 DEF Next, StakerNext
  <2>4. /\ optedIn' = optedIn /\ u \in optedIn /\ optedIn \subseteq Users
        /\ local'[u].staked = balance'[e]
        /\ \A v \in Users \ {u} : local'[v] = local[v]
    BY <1>1, <2>1, StakeSet
  <2>5. StakeIsBacked'
    <3> SUFFICES ASSUME NEW v \in optedIn PROVE Backed(v)'
      BY <2>4 DEF StakeIsBacked, Backed
    <3>1. CASE v = u
      <4>1. escrowID'[v] = e /\ ValidEscrow(e, u)'
        BY <1>1, <1>2, <2>1, <2>4, <3>1 DEF ValidEscrow
      <4> QED
        BY <1>2, <2>4, <3>1, <4>1 DEF Backed
    <3>2. CASE v # u
      <4>1. Backed(v) /\ escrowID[v] \in EscrowIds \ {e} /\ v \in Users \ {u}
        BY <1>1, <1>2, <2>4, <3>2, OwnEscrow
      <4> QED
        BY <1>1, <1>3, <2>4, <4>1 DEF Backed, ValidEscrow
    <3> QED
      BY <3>1, <3>2
  <2> QED
    BY <1>1, <1>2, <2>3, <2>5 DEF Kept, LinksTypeOK
<1> QED
  BY <1>4, <1>5

-----------------------------------------------------------------------------
(* The composition starts in the invariant, as the farm starts.            *)
LEMMA PactInitInv == PactInit => Init /\ PactInv
<1> SUFFICES ASSUME PactInit PROVE Init /\ PactInv
  OBVIOUS
<1>1. Init /\ TypeOK /\ EscrowInit
  BY TypeInit DEF PactInit
<1>2. EscrowTypeOK
  BY <1>1, EscrowAssumption DEF EscrowInit, EscrowTypeOK, Programs
<1>3. TokensConserved
  <2>1. SumFunctionOnSet(balance, EscrowIds) = 0
    <3>1. balance \in [EscrowIds -> Nat] /\ \A e \in EscrowIds : balance[e] = 0
      BY <1>1 DEF EscrowInit
    <3> QED
      BY <3>1, SumZero, EscrowAssumption
  <2>2. wallet \in [Owners -> Nat] /\ AllTokens = SumFunctionOnSet(wallet, Owners)
    BY <1>1, <1>2 DEF EscrowInit, EscrowTypeOK, AllTokens
  <2>3. SumFunctionOnSet(wallet, Owners) \in Nat
    BY <2>2, SumType, FarmAssumption, PactFarmAssumption
  <2> QED
    BY <2>1, <2>2, <2>3 DEF TokensConserved
<1>4. StakeIsBacked
  BY <1>1 DEF Init, StakeIsBacked
<1>5. LinksTypeOK
  BY DEF PactInit, LinksTypeOK
<1> QED
  BY <1>1, <1>2, <1>3, <1>4, <1>5, PactInvParts DEF EscrowsSound

(* Every step of the composition keeps the invariant and is one of Farm.   *)
LEMMA PactStep == PactInv /\ [PactNext]_pactVars => [Next]_vars /\ PactInv'
<1> SUFFICES ASSUME PactInv, [PactNext]_pactVars PROVE [Next]_vars /\ PactInv'
  OBVIOUS
<1> SUFFICES Kept
  <2>1. TypeOK
    BY DEF PactInv, PactTypeOK
  <2> QED
    BY <2>1, TypeStep DEF Kept, PactInv, PactTypeOK, EscrowsSound, LinksTypeOK
<1>1. CASE FarmOnly
  BY <1>1, FarmOnlyKeeps
<1>2. ASSUME NEW u \in Users, LeaveFarm(u) PROVE Kept
  BY <1>2, LeaveFarmKeeps
<1>3. ASSUME NEW u \in Users, Quit(u) PROVE Kept
  <2>1. TypeOK /\ EscrowsSound /\ LinksTypeOK /\ StakeIsBacked
    BY PactInvParts
  <2> QED
    BY <1>3, <2>1 DEF Quit, Kept, vars, escrowVars, EscrowsSound, EscrowTypeOK,
       TokensConserved, AllTokens, LinksTypeOK, StakeIsBacked, ValidEscrow
<1>4. ASSUME NEW e \in EscrowIds, NEW u \in Users, UpdateStateOf(e, u) PROVE Kept
  BY <1>4, UpdateStateOfKeeps
<1>5. ASSUME NEW e \in EscrowIds, NEW u \in Users, DeleteEscrow(e, u) PROVE Kept
  BY <1>5, DeleteEscrowKeeps
<1>6. ASSUME NEW e \in EscrowIds, NEW u \in Users, NEW amount \in 0 .. balance[e],
             Unstake(e, u, amount)
      PROVE  Kept
  BY <1>6, UnstakeKeeps
<1>7. ASSUME NEW e \in EscrowIds, NEW u \in Users, NEW prev \in Creations,
             OptInWithEscrow(u, e, prev)
      PROVE  Kept
  BY <1>7, OptInWithEscrowKeeps
<1>8. ASSUME NEW e \in EscrowIds, NEW u \in Users, NEW program \in {"husk", "escrow"},
             NEW master \in Farms, CreateUnlinked(u, e, program, master)
      PROVE  Kept
  BY <1>8, CreateUnlinkedKeeps
<1>9. ASSUME NEW e \in EscrowIds, NEW u \in Users, NEW amount \in 1 .. wallet[u],
             Stake(u, e, amount)
      PROVE  Kept
  BY <1>9, StakeKeeps
<1>10. CASE UNCHANGED pactVars
  <2>1. TypeOK /\ EscrowsSound /\ LinksTypeOK /\ StakeIsBacked
    BY PactInvParts
  <2> QED
    BY <1>10, <2>1 DEF pactVars, Kept, vars, escrowVars, EscrowsSound, EscrowTypeOK,
       TokensConserved, AllTokens, LinksTypeOK, StakeIsBacked, ValidEscrow
<1> QED
  BY <1>1, <1>2, <1>3, <1>4, <1>5, <1>6, <1>7, <1>8, <1>9, <1>10 DEF PactNext

(* The invariant of the composition: types, tokens and stakes.             *)
THEOREM PactInvariant == PactSpec => []PactInv
<1>1. PactInit => PactInv
  BY PactInitInv
<1>2. PactInv /\ [PactNext]_pactVars => PactInv'
  BY PactStep
<1> QED
  BY <1>1, <1>2, PTL DEF PactSpec

(* The farm and its escrows are well typed: no wallet or escrow account    *)
(* goes below zero, and EscrowID names an application.                     *)
THEOREM PactTypes == PactSpec => []PactTypeOK
<1>1. PactInv => PactTypeOK
  BY DEF PactInv
<1> QED
  BY <1>1, PactInvariant, PTL

(* The stake the farm rewards is in an escrow of the user's own, for any   *)
(* number of users and escrows: opt_in checks the creation it follows, and *)
(* on_unstake and on_delete do not take tokens from under a stake.         *)
THEOREM StakesAreBacked == PactSpec => []StakeIsBacked
<1>1. PactInv => StakeIsBacked
  BY DEF PactInv
<1> QED
  BY <1>1, PactInvariant, PTL

(* The farm with its real escrows behaves as Farm, where update_state may  *)
(* find any balance: what is proved of Farm holds in the composition.      *)
THEOREM PactImplementsFarm == PactSpec => Spec
<1>1. PactInit => Init
  BY PactInitInv
<1>2. PactInv /\ [PactNext]_pactVars => [Next]_vars
  BY PactStep
<1> QED
  BY <1>1, <1>2, PactInvariant, PTL DEF PactSpec, Spec

(* The composition never owes more rewards than it has released.           *)
THEOREM PactSolvent == PactSpec => []Solvent
BY PactImplementsFarm, FarmSolvent, PTL

-----------------------------------------------------------------------------
(* A step in which an escrow loses tokens.                                 *)
LEMMA TokensReturn ==
  ASSUME PactInv, PactNext, NEW e \in EscrowIds, balance'[e] < balance[e], NEW u,
         u = app[e].creator
  PROVE  /\ wallet' = [wallet EXCEPT ![u] = wallet[u] + balance[e] - balance'[e]]
         /\ u \in optedIn /\ escrowID[u] = e => local'[u].staked = balance'[e]
<1>1. /\ TypeOK /\ EscrowsSound /\ StakeIsBacked
  BY PactInvParts
<1>2. balance[e] \in Nat /\ balance' # balance
  BY <1>1 DEF EscrowsSound, EscrowTypeOK
<1>3. ASSUME NEW f \in EscrowIds, NEW v \in Users, DeleteEscrow(f, v)
      PROVE  /\ wallet' = [wallet EXCEPT ![u] = wallet[u] + balance[e] - balance'[e]]
             /\ u \in optedIn /\ escrowID[u] = e => local'[u].staked = balance'[e]
  <2> DEFINE inUse == app[f].master = ThisFarm /\ app[f].creator \in optedIn
  <2>1. Delete(f, v, inUse) /\ inUse \in BOOLEAN /\ ~ inUse
    BY <1>3 DEF DeleteEscrow, Delete
  <2> HIDE DEF inUse
  <2>2. v \in Owners
    BY PactFarmAssumption
  <2>3. /\ app[f].creator = v /\ balance' = [balance EXCEPT ![f] = 0]
        /\ wallet' = [wallet EXCEPT ![v] = wallet[v] + balance[f]]
    BY <1>1, <2>1, <2>2, DeleteSound
  <2>4. f = e /\ u = v /\ balance'[e] = 0
    BY <1>1, <1>2, <2>3 DEF EscrowsSound, EscrowTypeOK
  <2>5. wallet[v] \in Nat /\ wallet[v] + balance[e] - 0 = wallet[v] + balance[e]
    BY <1>1, <1>2, <2>2 DEF EscrowsSound, EscrowTypeOK
  <2>6. ~ (u \in optedIn /\ escrowID[u] = e)
    BY <1>1, <2>1, <2>4, OwnEscrow DEF inUse
  <2> QED
    BY <2>3, <2>4, <2>5, <2>6
<1>4. ASSUME NEW f \in EscrowIds, NEW v \in Users, NEW amount \in 0 .. balance[f],
             Unstake(f, v, amount)
      PROVE  /\ wallet' = [wallet EXCEPT ![u] = wallet[u] + balance[e] - balance'[e]]
             /\ u \in optedIn /\ escrowID[u] = e => local'[u].staked = balance'[e]
  <2>1. v \in Owners /\ SendToCreator(f, v, amount)
    BY <1>4, PactFarmAssumption DEF Unstake
  <2>2. /\ app[f].creator = v /\ balance' = [balance EXCEPT ![f] = balance[f] - amount]
        /\ wallet' = [wallet EXCEPT ![v] = wallet[v] + amount]
    BY <1>1, <2>1, SendSound
  <2>3. f = e /\ u = v /\ balance'[e] = balance[e] - amount
    BY <1>1, <1>2, <2>2 DEF EscrowsSound, EscrowTypeOK
  <2>4. wallet[v] \in Nat /\ wallet[v] + balance[e] - (balance[e] - amount) = wallet[v] + amount
    BY <1>1, <1>2, <1>4, <2>1, <2>3 DEF EscrowsSound, EscrowTypeOK
  <2>5. ASSUME u \in optedIn, escrowID[u] = e PROVE local'[u].staked = balance'[e]
    <3>1. app[e].master = ThisFarm
      BY <1>1, <2>5, OwnEscrow
    <3>2. UpdateState(v, balance'[e], FALSE)
      BY <1>4, <2>2, <2>3, <3>1 DEF Unstake
    <3> QED
      BY <1>1, <2>3, <3>2, StakeSet
  <2> QED
    BY <2>2, <2>3, <2>4, <2>5
<1>5. ASSUME NEW f \in EscrowIds, NEW v \in Users, NEW amount \in 1 .. wallet[v],
             Stake(v, f, amount)
      PROVE  FALSE
  <2>1. v \in Owners /\ Transfer(v, f, amount)
    <3>1. v \in Owners
      BY PactFarmAssumption
    <3> QED
      BY <1>5, <3>1 DEF Stake
  <2>2. balance'[f] >= balance[f]
    BY <1>1, <2>1, TransferSound
  <2> QED
    BY <1>1, <1>2, <2>1, <2>2 DEF Transfer, EscrowsSound, EscrowTypeOK
<1>6. ~ (FarmOnly \/ \E v \in Users : LeaveFarm(v) \/ Quit(v))
  BY <1>2 DEF FarmOnly, LeaveFarm, Quit, escrowVars
<1>7. ASSUME NEW f \in EscrowIds, NEW v \in Users
      PROVE  /\ ~ UpdateStateOf(f, v)
             /\ \A prev \in Creations : ~ OptInWithEscrow(v, f, prev)
             /\ \A program \in {"husk", "escrow"}, master \in Farms :
                  ~ CreateUnlinked(v, f, program, master)
  BY <1>2 DEF UpdateStateOf, OptInWithEscrow, CreateUnlinked, Create, escrowVars
<1> QED
  BY <1>3, <1>4, <1>5, <1>6, <1>7 DEF PactNext

(* An escrow's tokens go to its creator only, through on_unstake, where the*)
(* stake follows, or on_delete, which the farm's users cannot call.        *)
THEOREM EscrowsPayTheirCreators == PactSpec => TokensReturnToCreator
<1>1. ASSUME PactInv, [PactNext]_pactVars
      PROVE  [\A e \in EscrowIds : balance'[e] < balance[e] =>
                LET u == app[e].creator
                IN /\ wallet' = [wallet EXCEPT ![u] = @ + balance[e] - balance'[e]]
                   /\ u \in optedIn /\ escrowID[u] = e
                        => local'[u].staked = balance'[e]]_pactVars
  BY <1>1, TokensReturn
<1> QED
  BY <1>1, PactInvariant, PTL DEF PactSpec, TokensReturnToCreator

-----------------------------------------------------------------------------
(* The escrows in use by the users of a set.                               *)
EscrowsOf(T) == {escrowID[u] : u \in T \intersect optedIn}

(* What users have in escrows of their own is no more than what is in all  *)
(* escrows together.                                                       *)
LEMMA BackedSum ==
  ASSUME EscrowsSound, StakeIsBacked, optedIn \subseteq Users, NEW f \in [Users -> Nat],
         \A u \in Users : f[u] # 0 => u \in optedIn /\ f[u] <= balance[escrowID[u]]
  PROVE  SumFunctionOnSet(f, Users) <= AllTokens
<1> DEFINE N(g, T) == Cardinality(Pairs(g, T))
           Good == {T \in SUBSET Users : N(f, T) <= N(balance, EscrowsOf(T))}
<1>1. IsFiniteSet(Users) /\ IsFiniteSet(EscrowIds) /\ IsFiniteSet(Owners)
  BY EscrowAssumption, FarmAssumption, PactFarmAssumption
<1>2. balance \in [EscrowIds -> Nat] /\ wallet \in [Owners -> Nat]
  BY DEF EscrowsSound, EscrowTypeOK
<1>3. \A T \in SUBSET Users : EscrowsOf(T) \in SUBSET EscrowIds
  BY OwnEscrow DEF EscrowsOf
<1>4. /\ \A T \in SUBSET Users : N(f, T) \in Nat
      /\ \A E \in SUBSET EscrowIds : N(balance, E) \in Nat
  BY <1>1, <1>2, PairsFinite, FS_CardinalityType
<1>5. {} \in Good
  <2>1. EscrowsOf({}) = {} /\ N(f, {}) = 0 /\ N(balance, {}) = 0
    BY <1>1, <1>2, PairsFinite DEF EscrowsOf
  <2> QED
    BY <2>1
<1>6. ASSUME NEW T \in Good, NEW u \in Users \ T PROVE T \union {u} \in Good
  <2> DEFINE E == EscrowsOf(T)
  <2>1. T \in SUBSET Users /\ N(f, T) <= N(balance, E) /\ T \union {u} \in SUBSET Users
    OBVIOUS
  <2>2. N(f, T \union {u}) = f[u] + N(f, T) /\ f[u] \in Nat /\ N(f, T) \in Nat
    BY <1>1, <1>4, <2>1, PairsFinite, PairsInsert
  <2>3. CASE u \in optedIn
    <3>1. escrowID[u] \in EscrowIds \ E /\ EscrowsOf(T \union {u}) = E \union {escrowID[u]}
      BY <2>1, <2>3, OwnEscrow DEF EscrowsOf
    <3>2. E \in SUBSET EscrowIds /\ balance[escrowID[u]] \in Nat /\ N(balance, E) \in Nat
      BY <1>2, <1>3, <1>4, <2>1, <3>1
    <3>3. N(balance, E \union {escrowID[u]}) = balance[escrowID[u]] + N(balance, E)
      BY <1>1, <1>2, <3>1, <3>2, PairsFinite, PairsInsert
    <3>4. f[u] <= balance[escrowID[u]]
      BY <3>2
    <3> HIDE DEF N, E
    <3>5. N(f, T \union {u}) <= N(balance, E \union {escrowID[u]})
      BY <2>1, <2>2, <3>2, <3>3, <3>4
    <3> QED
      BY <2>1, <3>1, <3>5
  <2>4. CASE u \notin optedIn
    <3>1. f[u] = 0 /\ EscrowsOf(T \union {u}) = E
      BY <2>4 DEF EscrowsOf
    <3> HIDE DEF N, E
    <3>2. N(f, T \union {u}) <= N(balance, E)
      BY <2>1, <2>2, <3>1
    <3> QED
      BY <2>1, <3>1, <3>2
  <2> QED
    BY <2>3, <2>4
<1>7. Good = SUBSET Users
  <2>1. Good \in SUBSET SUBSET Users
    OBVIOUS
  <2> HIDE DEF Good
  <2> QED
    BY <1>1, <1>5, <1>6, <2>1, SubsetInduction
<1>8. N(f, Users) <= N(balance, EscrowsOf(Users))
  BY <1>7
<1>9. N(balance, EscrowsOf(Users)) <= N(balance, EscrowIds)
  <2>1. Pairs(balance, EscrowsOf(Users)) \subseteq Pairs(balance, EscrowIds)
    BY <1>3 DEF Pairs
  <2>2. IsFiniteSet(Pairs(balance, EscrowIds))
    BY <1>1, <1>2, PairsFinite
  <2> QED
    BY <2>1, <2>2, FS_Subset
<1>10. /\ SumFunctionOnSet(f, Users) = N(f, Users)
       /\ SumFunctionOnSet(balance, EscrowIds) = N(balance, EscrowIds)
       /\ SumFunctionOnSet(wallet, Owners) \in Nat
  BY <1>1, <1>2, SumCounts, SumType
<1>11. N(balance, EscrowsOf(Users)) \in Nat /\ N(balance, EscrowIds) \in Nat /\ N(f, Users) \in Nat
  BY <1>3, <1>4
<1> HIDE DEF N, Good
<1> QED
  BY <1>8, <1>9, <1>10, <1>11 DEF EscrowsSound, TokensConserved

(* When the lifetime deposits of each reward asset are a word, on_unstake  *)
(* never finds update_state panicking: whatever part of the escrow's       *)
(* balance is left is counted, since all staked tokens together are a word.*)
THEOREM PactUnstakeAlwaysOpen ==
  ASSUME Supply < W
  PROVE  PactSpec => []UnstakeAlwaysOpen
<1>1. PactInv /\ SafetyInv /\ DepositsBounded => UnstakeAlwaysOpen
  <2> SUFFICES ASSUME PactInv, SafetyInv, DepositsBounded, NEW u \in optedIn
               PROVE  /\ ValidEscrow(escrowID[u], u)
                      /\ UpdateFits /\ SettleFits(Updated, local[u])
                      /\ \A kept \in 0 .. balance[escrowID[u]] :
                           StakeFits(local[u].staked, kept)
    BY DEF UnstakeAlwaysOpen
  <2>1. /\ TypeOK /\ EscrowsSound /\ StakeIsBacked /\ u \in Users /\ optedIn \subseteq Users
    BY PactInvParts DEF TypeOK
  <2>2. UpdateFits /\ SettleFits(Updated, local[u])
    BY <2>1, UpdateAlwaysFits, SettleAlwaysFits
  <2>3. ASSUME NEW kept \in 0 .. balance[escrowID[u]]
        PROVE  StakeFits(local[u].staked, kept)
    <3> DEFINE l == [local[u] EXCEPT !.staked = kept]
               m == [local EXCEPT ![u] = l]
               f == [v \in Users |-> m[v].staked]
    <3>1. kept \in Word /\ kept \in Nat
      <4>1. kept \in Balances /\ kept \in Nat
        BY <2>1, OwnEscrow, EveryBalance DEF EscrowsSound
      <4> QED
        BY <4>1, FarmAssumption
    <3>2. l \in Local /\ l.staked = kept
      BY <2>1, <3>1 DEF TypeOK, Local
    <3>3. StakeSum(m) = totalStaked - local[u].staked + kept
      <4> HIDE DEF l
      <4>1. StakeSum(m) = totalStaked - local[u].staked + l.staked
        BY <2>1, <3>2, StakeReplace DEF SafetyInv
      <4> QED
        BY <3>2, <4>1
    <3>4. /\ f \in [Users -> Nat]
          /\ \A v \in Users : f[v] # 0 => v \in optedIn /\ f[v] <= balance[escrowID[v]]
      <4>1. f[u] = kept /\ \A v \in Users \ {u} : f[v] = local[v].staked
        BY <2>1, <3>2 DEF TypeOK
      <4>2. \A v \in Users : local[v].staked \in Nat
        BY <2>1, ConstantsType DEF TypeOK, Local
      <4>3. balance[escrowID[u]] \in Nat
        BY <2>1, OwnEscrow DEF EscrowsSound, EscrowTypeOK
      <4>4. \A v \in optedIn : local[v].staked <= balance[escrowID[v]]
        BY <2>1 DEF StakeIsBacked
      <4>5. \A v \in Users \ optedIn : local[v].staked = 0
        BY DEF SafetyInv, NoStrays, NoLocal
      <4>6. \A v \in Users : f[v] \in Nat
        BY <3>1, <4>1, <4>2
      <4>7. \A v \in Users : f[v] # 0 => v \in optedIn /\ f[v] <= balance[escrowID[v]]
        BY <3>1, <4>1, <4>3, <4>4, <4>5
      <4> QED
        BY <4>6, <4>7
    <3>5. StakeSum(m) <= AllTokens
      <4>1. StakeSum(m) = SumFunctionOnSet(f, Users)
        BY DEF StakeSum
      <4> HIDE DEF f
      <4> QED
        BY <2>1, <3>4, <4>1, BackedSum
    <3>6. totalStaked - local[u].staked + kept < W
      <4>1. AllTokens \in Nat
        <5>1. IsFiniteSet(Owners) /\ Wallet \in Nat
          BY EscrowAssumption, FarmAssumption, PactFarmAssumption
        <5>2. [o \in Owners |-> Wallet] \in [Owners -> Nat]
          BY <5>1
        <5> QED
          BY <5>1, <5>2, SumType DEF AllTokens
      <4>2. AllTokens < W
        <5>1. AllTokens \in 0 .. AllTokens
          BY <4>1
        <5> HIDE DEF AllTokens
        <5>2. AllTokens \in Word
          BY <5>1, PactFarmAssumption, FarmAssumption
        <5> QED
          BY <5>2, ConstantsType DEF Word
      <4>3. /\ totalStaked \in Nat /\ local[u].staked \in Nat /\ W \in Nat
        BY <2>1, ConstantsType DEF TypeOK, Local
      <4> DEFINE x == totalStaked - local[u].staked + kept
      <4>4. x \in Int /\ x <= AllTokens
        BY <3>1, <3>3, <3>5, <4>3
      <4> HIDE DEF x
      <4>5. x < W
        BY <4>1, <4>2, <4>3, <4>4
      <4> QED
        BY <4>5 DEF x
    <3> QED
      BY <2>1, <3>1, <3>6, StakeAlwaysFits DEF SafetyInv
  <2> QED
    BY <2>1, <2>2, <2>3, OwnEscrow DEF Backed
<1>2. PactSpec => []SafetyInv /\ []DepositsBounded
  BY PactImplementsFarm, FarmSafety, FarmDepositsBounded, PTL
<1> QED
  BY <1>1, <1>2, PactInvariant, PTL
=============================================================================
