--------------------------- MODULE LifecycleProofs ---------------------------
(***************************************************************************)
(* Proofs about the life of farms and escrows as applications: upgrades,   *)
(* for any accounts, programs and versions and groups of any length, and   *)
(* the Algos of deployments, for any users, payments and minimum balances. *)
(***************************************************************************)
EXTENDS FarmUpgrade, Deployment, ArithmeticProofs

(* Upgrades                                                                *)

(* Between groups: the migration is done, and the linked escrows have the  *)
(* program in the box.                                                     *)
SavedIsMigrated ==
  /\ saved.version = saved.program.version /\ saved.box = saved.program.escrow
  /\ \A a \in Accounts : saved.escrowCode[a] # NoCode => saved.escrowCode[a] = saved.box

(* Within one: the box stays, and the linked escrows agree with it.        *)
BoxStays ==
  /\ box = saved.box
  /\ \A a \in Accounts : escrowCode[a] # NoCode => escrowCode[a] = box

(* A program that a post_update does not follow is the one before the group*)
(* or a newer one.                                                         *)
VersionsGrow ==
  /\ version >= saved.version
  /\ txn.type # "post_update" => program = saved.program \/ version > saved.version

(* Neither the updater nor the program is another without a signature of   *)
(* who was updater before the group.                                       *)
ChangesAreSigned ==
  saved.updater \notin signers => updater = saved.updater /\ program = saved.program

BetweenGroups == txn = NoTxn => State = saved /\ signers = {}

IInv ==
  /\ UpgradeTypeOK /\ SavedIsMigrated /\ BoxStays /\ VersionsGrow
  /\ ChangesAreSigned /\ CallsSeeMigratedState /\ BetweenGroups

-----------------------------------------------------------------------------
(* One transaction has been executed and `next' follows: the conjuncts of  *)
(* IInv about the farm, with the transaction's sender among the signers.   *)
Executed(next) ==
  /\ txn \in Txns /\ next \in Txns \union {NoTxn}
  /\ Advance(next)
  /\ State' \in States
  /\ box' = saved.box
  /\ \A a \in Accounts : escrowCode'[a] # NoCode => escrowCode'[a] = box'
  /\ version' >= saved.version
  /\ next.type # "post_update" =>
       /\ version' = program'.version /\ box' = program'.escrow
       /\ program' = saved.program \/ version' > saved.version
  /\ saved.updater \notin signers \union {txn.sender} =>
       updater' = saved.updater /\ program' = saved.program

(* The fields of States, and of what a group starts with.                  *)
LEMMA StateFields ==
  ASSUME State \in States
  PROVE  /\ program \in Programs /\ version \in Versions /\ box \in Bytecodes
         /\ updater \in Accounts
         /\ escrowCode \in [Accounts -> Bytecodes \union {NoCode}]
  BY DEF State, States

(* Every kind of transaction has its own type, and a sender.               *)
LEMMA TxnFields ==
  ASSUME NEW t \in Txns
  PROVE  /\ t.type \in {"update", "post_update", "change_updater", "opt_in",
                        "leave", "update_state"}
         /\ t # NoTxn
         /\ t.sender \in Accounts
         /\ t.type = "update" => t.program \in Programs
         /\ t.type = "change_updater" => t.to \in Accounts
  BY DEF Txns, NoTxn

(* The initial state is one between groups.                                *)
LEMMA InitIInv == Init => IInv
  BY UpgradeAssumption
  DEF Init, IInv, UpgradeTypeOK, SavedIsMigrated, BoxStays, VersionsGrow,
      ChangesAreSigned, CallsSeeMigratedState, BetweenGroups, State, States,
      Programs, NoTxn

-----------------------------------------------------------------------------
(* update leaves the migration to the post_update it has seen next.        *)
LEMMA UpdateExecuted ==
  ASSUME IInv, NEW next \in Txns \union {NoTxn}, Update(next)
  PROVE  Executed(next)
<1>1. txn \in Txns /\ txn.program \in Programs
  BY TxnFields DEF IInv, UpgradeTypeOK, Update, NoTxn
<1>2. State' \in States
  BY <1>1, StateFields DEF IInv, UpgradeTypeOK, Update, State, States
<1>3. saved.updater \notin signers \union {txn.sender} => FALSE
  BY DEF IInv, ChangesAreSigned, Update
<1> QED
  BY <1>1, <1>2, <1>3
  DEF Executed, IInv, BoxStays, VersionsGrow, Update

(* post_update makes the version that of the program.                      *)
LEMMA PostUpdateExecuted ==
  ASSUME IInv, NEW next \in Txns \union {NoTxn}, PostUpdate(next)
  PROVE  Executed(next)
<1>1. txn \in Txns
  BY DEF IInv, UpgradeTypeOK, PostUpdate, NoTxn
<1>2. /\ program.version \in Nat /\ version \in Nat /\ saved.version \in Nat
      /\ State' \in States
  BY StateFields, UpgradeAssumption
  DEF IInv, UpgradeTypeOK, PostUpdate, State, States, Programs
<1>3. version' > saved.version
  BY <1>2 DEF IInv, VersionsGrow, PostUpdate, NotYetDone
<1> QED
  BY <1>1, <1>2, <1>3
  DEF Executed, IInv, BoxStays, ChangesAreSigned, PostUpdate, SameEscrow

(* change_updater is signed by the updater, or by one it has made updater. *)
LEMMA ChangeUpdaterExecuted ==
  ASSUME IInv, NEW next \in Txns \union {NoTxn}, ChangeUpdater(next)
  PROVE  Executed(next)
<1>1. txn \in Txns /\ txn.to \in Accounts /\ txn.type # "post_update"
  BY TxnFields DEF IInv, UpgradeTypeOK, ChangeUpdater, NoTxn
<1>2. State' \in States
  BY <1>1, StateFields DEF IInv, UpgradeTypeOK, ChangeUpdater, State, States
<1>3. saved.updater \notin signers \union {txn.sender} => FALSE
  BY DEF IInv, ChangesAreSigned, ChangeUpdater
<1> QED
  BY <1>1, <1>2, <1>3
  DEF Executed, IInv, BoxStays, VersionsGrow, CallsSeeMigratedState, ChangeUpdater

(* The calls of users change at most the sender's link, to the escrow of a *)
(* migrated program.                                                       *)
LEMMA UserCallExecuted ==
  ASSUME IInv, NEW next \in Txns \union {NoTxn},
         OptIn(next) \/ Leave(next) \/ UpdateState(next)
  PROVE  Executed(next)
<1>1. txn \in Txns /\ txn.sender \in Accounts /\ txn.type # "post_update"
  BY TxnFields DEF IInv, UpgradeTypeOK, OptIn, Leave, UpdateState, NoTxn
<1>2. box = program.escrow /\ program.escrow \in Bytecodes
  BY <1>1, StateFields DEF IInv, UpgradeTypeOK, CallsSeeMigratedState, Programs
<1>3. UNCHANGED <<program, version, box, updater>> /\ Advance(next)
  BY DEF OptIn, Leave, UpdateState, farmVars
<1>4. \/ escrowCode' = escrowCode
      \/ escrowCode' = [escrowCode EXCEPT ![txn.sender] = program.escrow]
      \/ escrowCode' = [escrowCode EXCEPT ![txn.sender] = NoCode]
  BY DEF OptIn, Leave, UpdateState, farmVars
<1>5. State \in States
  BY DEF IInv, UpgradeTypeOK
<1>6. /\ escrowCode' \in [Accounts -> Bytecodes \union {NoCode}]
      /\ \A a \in Accounts : escrowCode'[a] # NoCode => escrowCode'[a] = box'
  BY <1>1, <1>2, <1>3, <1>4, <1>5, StateFields DEF IInv, BoxStays
<1>7. State' \in States
  BY <1>3, <1>5, <1>6, StateFields DEF State, States
<1> QED
  BY <1>1, <1>3, <1>6, <1>7
  DEF Executed, IInv, BoxStays, VersionsGrow, ChangesAreSigned, CallsSeeMigratedState

(* What Executed promises is enough, within the group and at its end.      *)
LEMMA ExecutedKeepsIInv ==
  ASSUME IInv, NEW next, Executed(next)
  PROVE  IInv'
<1>1. txn' = next /\ txn.sender \in Accounts
  BY TxnFields DEF Executed, Advance
<1>2. CASE next = NoTxn
  <2>1. signers' = {} /\ saved' = State' /\ saved' \in States
    BY <1>2 DEF Executed, Advance
  <2>2. next.type # "post_update"
    BY <1>2 DEF NoTxn
  <2>3. /\ saved'.program = program' /\ saved'.version = version' /\ saved'.box = box'
        /\ saved'.updater = updater' /\ saved'.escrowCode = escrowCode'
    BY <2>1 DEF State
  <2>4. UpgradeTypeOK' /\ BetweenGroups'
    BY <1>1, <1>2, <2>1 DEF Executed, UpgradeTypeOK, BetweenGroups
  <2>5. version' \in Nat
    BY <2>1, <2>3, UpgradeAssumption DEF States
  <2> QED
    BY <1>1, <2>2, <2>3, <2>4, <2>5
    DEF Executed, IInv, SavedIsMigrated, BoxStays, VersionsGrow,
        ChangesAreSigned, CallsSeeMigratedState
<1>3. CASE next # NoTxn
  <2>1. signers' = signers \union {txn.sender} /\ saved' = saved
    BY <1>3 DEF Executed, Advance
  <2>2. UpgradeTypeOK' /\ BetweenGroups'
    BY <1>1, <1>3, <2>1 DEF Executed, IInv, UpgradeTypeOK, BetweenGroups
  <2> QED
    BY <1>1, <2>1, <2>2
    DEF Executed, IInv, SavedIsMigrated, BoxStays, VersionsGrow,
        ChangesAreSigned, CallsSeeMigratedState
<1> QED
  BY <1>2, <1>3

(* Beginning a group changes nothing but the transaction in sight.         *)
LEMMA BeginKeepsIInv == IInv /\ Begin => IInv'
<1> SUFFICES ASSUME IInv, Begin PROVE IInv'
  OBVIOUS
<1>1. txn' \in Txns /\ txn' # NoTxn /\ txn = NoTxn
  BY TxnFields DEF Begin
<1>2. NoTxn.type # "post_update"
  BY DEF NoTxn
<1> QED
  BY <1>1, <1>2
  DEF Begin, IInv, UpgradeTypeOK, SavedIsMigrated, BoxStays, VersionsGrow, farmVars,
      ChangesAreSigned, CallsSeeMigratedState, BetweenGroups, State

(* A rejected group leaves what was there before it.                       *)
LEMMA RejectKeepsIInv == IInv /\ Reject => IInv'
<1> SUFFICES ASSUME IInv, Reject PROVE IInv'
  OBVIOUS
<1>1. saved \in States
  BY DEF IInv, UpgradeTypeOK
<1>2. saved = [program |-> saved.program, version |-> saved.version, box |-> saved.box,
               updater |-> saved.updater, escrowCode |-> saved.escrowCode]
  BY <1>1 DEF States
<1>3. State' = saved' /\ saved' = saved
  BY <1>2 DEF Reject, State
<1>4. UpgradeTypeOK' /\ BetweenGroups'
  BY <1>1, <1>3 DEF Reject, UpgradeTypeOK, BetweenGroups
<1>5. saved.version \in Nat
  BY <1>1, UpgradeAssumption DEF States
<1> QED
  BY <1>4, <1>5
  DEF Reject, IInv, SavedIsMigrated, BoxStays, VersionsGrow,
      ChangesAreSigned, CallsSeeMigratedState

(* The steps that execute a transaction.                                   *)
LEMMA StepExecutes ==
  ASSUME IInv, Next
  PROVE  Begin \/ Reject \/ \E next : Executed(next)
  BY UpdateExecuted, PostUpdateExecuted, ChangeUpdaterExecuted, UserCallExecuted
  DEF Next

(* No transaction of a group, rejection or new group breaks IInv.          *)
LEMMA NextIInv == IInv /\ [Next]_vars => IInv'
<1> SUFFICES ASSUME IInv, [Next]_vars PROVE IInv'
  OBVIOUS
<1>1. CASE Next
  BY <1>1, StepExecutes, BeginKeepsIInv, RejectKeepsIInv, ExecutedKeepsIInv
<1>2. CASE UNCHANGED vars
  BY <1>2
  DEF vars, farmVars, IInv, UpgradeTypeOK, SavedIsMigrated, BoxStays, VersionsGrow,
      ChangesAreSigned, CallsSeeMigratedState, BetweenGroups, State
<1> QED
  BY <1>1, <1>2

(* IInv holds before, within and after every group.                        *)
LEMMA Invariance == Spec => []IInv
  BY InitIInv, NextIInv, PTL DEF Spec

-----------------------------------------------------------------------------
(* The farm's and the ledger's state stay well typed in groups of any      *)
(* length (create, update, post_update, change_updater, opt_in).           *)
THEOREM UpgradeTypes == Spec => []UpgradeTypeOK
<1>1. IInv => UpgradeTypeOK
  BY DEF IInv
<1> QED
  BY <1>1, Invariance, PTL

(* No upgrade locks up a stake: every linked escrow passes validate_escrow *)
(* of the program that is running (farm.py:298-304).                       *)
THEOREM UpgradesKeepEscrowsValid == Spec => []EscrowsStayValid
<1>1. IInv => EscrowsStayValid
  BY DEF IInv, BoxStays, CallsSeeMigratedState, EscrowsStayValid, EscrowIsValid, NoTxn
<1> QED
  BY <1>1, Invariance, PTL

(* No call but post_update runs between an update and its migration        *)
(* (farm.py:285-292).                                                      *)
THEOREM MigrationComesFirst == Spec => []CallsSeeMigratedState
<1>1. IInv => CallsSeeMigratedState
  BY DEF IInv
<1> QED
  BY <1>1, Invariance, PTL

(* Only the updater of before a group lets it change the program           *)
(* (farm.py:283, 375).                                                     *)
THEOREM UpgradesNeedTheUpdater == Spec => UpgradesAreAuthorized
<1>1. ASSUME IInv, [Next]_vars
      PROVE  [txn # NoTxn /\ txn' = NoTxn /\ program' # saved.program
                => saved.updater \in signers \union {txn.sender}]_vars
  BY <1>1, StepExecutes DEF Executed, Begin, Reject
<1> QED
  BY <1>1, Invariance, PTL DEF Spec, UpgradesAreAuthorized

(* Every upgrade raises the version (farm.py:305-308).                     *)
THEOREM UpgradesRaiseVersions == Spec => UpgradesAreNewer
<1>1. ASSUME IInv, [Next]_vars
      PROVE  [txn # NoTxn /\ txn' = NoTxn /\ program' # saved.program
                => program'.version > saved.program.version]_vars
  <2>1. saved.version = saved.program.version
    BY <1>1 DEF IInv, SavedIsMigrated
  <2>2. ASSUME NEW next, Executed(next), txn' = NoTxn, program' # saved.program
        PROVE  program'.version > saved.program.version
    BY <2>1, <2>2 DEF Executed, Advance, NoTxn
  <2> QED
    BY <1>1, <2>2, StepExecutes DEF Begin, Reject
<1> QED
  BY <1>1, Invariance, PTL DEF Spec, UpgradesAreNewer

-----------------------------------------------------------------------------
(* The Algos of deployments                                                *)
Everybody == Users \union Apps \union {Station}

(* Minimum balances are kept, and an escrow exists only under an id that   *)
(* has been given.                                                         *)
DeploymentInv ==
  /\ algos \in [Everybody -> Nat] /\ creator \in [Escrows -> Users \union {None}]
  /\ MinimumsKept
  /\ \A e \in Escrows \ used : creator[e] = None

(* Accounts are distinct, and amounts are natural numbers.                 *)
LEMMA AccountFacts ==
  /\ Station \in Everybody \ (Users \union Apps) /\ Users \subseteq Everybody
  /\ Farms \subseteq Apps /\ Escrows \subseteq Apps /\ Apps \subseteq Everybody
  /\ Users \intersect Apps = {} /\ Farms \intersect Escrows = {}
  /\ Wallet \in Nat /\ MinBalance \in Nat \ {0} /\ Payments \subseteq Nat
  /\ BoxCost \in Nat /\ AssetCost \in Nat /\ None \notin Users
  /\ DeployPayment \in Nat /\ EscrowPayment \in Nat \ {0}
  /\ DeployPayment = MinBalance + BoxCost
<1>1. /\ Wallet \in Nat /\ MinBalance \in Nat \ {0} /\ BoxCost \in Nat /\ AssetCost \in Nat
  BY StationAssumption, DeploymentAssumption
<1>2. /\ DeployPayment \in Nat /\ EscrowPayment \in Nat \ {0}
      /\ DeployPayment = MinBalance + BoxCost
  BY <1>1 DEF DeployPayment, EscrowPayment
<1> QED
  BY <1>1, <1>2, StationAssumption, DeploymentAssumption DEF Everybody

(* Nothing has been created yet.                                           *)
LEMMA DeploymentStarts == DeploymentInit => DeploymentInv
<1> SUFFICES ASSUME DeploymentInit PROVE DeploymentInv
  OBVIOUS
<1>1. /\ algos \in [Everybody -> Nat] /\ creator \in [Escrows -> Users \union {None}]
      /\ \A e \in Escrows \ used : creator[e] = None
  BY AccountFacts DEF DeploymentInit, AlgosInit, Everybody
<1>2. MinimumsKept
  BY <1>1, AccountFacts
  DEF MinimumsKept, DeploymentInit, AlgosInit, NoRoles, Created, Everybody
<1> QED
  BY <1>1, <1>2 DEF DeploymentInv

(* What the transactions of users and of the station do with Algos: every  *)
(* app keeps at least what it had.                                         *)
AlgosMoved ==
  /\ algos' \in [Everybody -> Nat]
  /\ algos'[Station] = 0 \/ algos'[Station] >= MinBalance
  /\ \A x \in Apps : algos'[x] = algos[x] \/ (algos'[x] >= algos[x] /\ x \in Live)

(* Others than the applications that exist already are not paid.           *)
LEMMA AlgosOnlyMoves == DeploymentInv /\ AlgosOnly => AlgosMoved
<1> SUFFICES ASSUME DeploymentInv, AlgosOnly PROVE AlgosMoved
  OBVIOUS
<1>1. algos \in [Everybody -> Nat] /\ (algos[Station] = 0 \/ algos[Station] >= MinBalance)
  BY DEF DeploymentInv, MinimumsKept, Bootstrapped
<1>2. Live \subseteq Apps
  BY AccountFacts DEF Live
<1>3. CASE \E u \in Users : Withdraw(u)
  <2>1. PICK u \in Users : Withdraw(u)
    BY <1>3
  <2>2. algos[Station] >= MinBalance /\ Relayed(0) = algos[Station] - MinBalance
    BY <1>1, <2>1, AccountFacts DEF Withdraw, Bootstrapped, Relayed
  <2>3. Relayed(0) \in Nat
    BY <1>1, <2>2, AccountFacts
  <2> QED
    BY <1>1, <2>1, <2>3, AccountFacts DEF Withdraw, AlgosMoved
<1>4. CASE \E u \in Users, to \in Live \union {Station}, amount \in Payments :
             Pay(u, to, amount)
  <2>1. PICK u \in Users, to \in Live \union {Station}, amount \in Payments :
               Pay(u, to, amount)
    BY <1>4
  <2>2. u # to /\ to \in Everybody /\ u \in Everybody /\ amount \in Nat
    BY <1>2, AccountFacts
  <2>3. /\ algos' = [algos EXCEPT ![u] = algos[u] - amount, ![to] = algos[to] + amount]
        /\ amount <= algos[u]
        /\ to = Station => algos[Station] + amount >= MinBalance
    BY <2>1, <2>2 DEF Pay
  <2>4. algos[u] - amount \in Nat /\ algos[to] + amount \in Nat
    BY <1>1, <2>2, <2>3
  <2> QED
    BY <1>1, <1>2, <2>1, <2>2, <2>3, <2>4, AccountFacts DEF AlgosMoved
<1>5. CASE \E count, fee \in 1 .. MaxQuota : IncreaseOpcodeQuota(count, fee)
  <2>1. PICK count \in 1 .. MaxQuota, fee \in 1 .. MaxQuota :
               IncreaseOpcodeQuota(count, fee)
    BY <1>5
  <2> DEFINE left == algos[Station] - count * fee
  <2>2. /\ algos' = [algos EXCEPT ![Station] = left]
        /\ left \in Nat /\ (left = 0 \/ left >= MinBalance)
    BY <2>1 DEF IncreaseOpcodeQuota
  <2> HIDE DEF left
  <2> QED
    BY <1>1, <2>2, AccountFacts DEF AlgosMoved
<1> QED
  BY <1>3, <1>4, <1>5 DEF AlgosOnly

(* DeploymentInv after those.                                              *)
LEMMA AlgosOnlyKeeps == DeploymentInv /\ AlgosOnly => DeploymentInv'
<1> SUFFICES ASSUME DeploymentInv, AlgosOnly PROVE DeploymentInv'
  OBVIOUS
<1>1. AlgosMoved /\ UNCHANGED <<roles, creator, used>>
  BY AlgosOnlyMoves DEF AlgosOnly
<1>2. \A f \in Farms : IF Created(f)' THEN algos'[f] >= MinBalance + BoxCost
                                      ELSE algos'[f] = 0
  <2> SUFFICES ASSUME NEW f \in Farms
               PROVE  IF Created(f)' THEN algos'[f] >= MinBalance + BoxCost
                                     ELSE algos'[f] = 0
    OBVIOUS
  <2>1. f \in Apps /\ f \notin Escrows /\ algos[f] \in Nat /\ algos'[f] \in Nat
    BY <1>1, AccountFacts DEF DeploymentInv, AlgosMoved
  <2>2. Created(f)' <=> Created(f)
    BY <1>1 DEF Created
  <2>3. f \in Live <=> Created(f)
    BY <2>1 DEF Live
  <2>4. IF Created(f) THEN algos[f] >= MinBalance + BoxCost ELSE algos[f] = 0
    BY DEF DeploymentInv, MinimumsKept
  <2>5. MinBalance + BoxCost \in Nat
    BY AccountFacts
  <2> QED
    BY <1>1, <2>1, <2>2, <2>3, <2>4, <2>5 DEF AlgosMoved
<1>3. \A e \in Escrows : IF creator'[e] \in Users THEN algos'[e] >= EscrowPayment
                                                 ELSE algos'[e] = 0
  <2> SUFFICES ASSUME NEW e \in Escrows
               PROVE  IF creator'[e] \in Users THEN algos'[e] >= EscrowPayment
                                               ELSE algos'[e] = 0
    OBVIOUS
  <2>1. e \in Apps /\ e \notin Farms /\ algos[e] \in Nat /\ algos'[e] \in Nat
    BY <1>1, AccountFacts DEF DeploymentInv, AlgosMoved
  <2>2. e \in Live <=> creator[e] \in Users
    BY <2>1, AccountFacts DEF Live, DeploymentInv
  <2>3. IF creator[e] \in Users THEN algos[e] >= EscrowPayment ELSE algos[e] = 0
    BY DEF DeploymentInv, MinimumsKept
  <2> QED
    BY <1>1, <2>1, <2>2, <2>3, AccountFacts DEF AlgosMoved
<1> QED
  BY <1>1, <1>2, <1>3, AccountFacts
  DEF DeploymentInv, AlgosMoved, MinimumsKept, Bootstrapped, Everybody

(* What a new application gets from the station, on its creator's account. *)
LEMMA RelayedAlgos ==
  ASSUME DeploymentInv, NEW u \in Users, NEW app \in Apps, NEW paid \in Nat,
         NEW needed \in Nat, RelayTo(u, app, paid, needed)
  PROVE  /\ algos' \in [Everybody -> Nat]
         /\ algos'[Station] = MinBalance
         /\ paid <= algos[u] /\ algos'[u] = algos[u] - paid
         /\ algos'[app] = algos[Station] + paid - MinBalance /\ algos'[app] >= needed
         /\ \A x \in Everybody \ {u, app, Station} : algos'[x] = algos[x]
<1>1. /\ algos \in [Everybody -> Nat] /\ u \in Everybody /\ app \in Everybody
      /\ u # app /\ u # Station /\ app # Station
  BY AccountFacts DEF DeploymentInv
<1>2. /\ algos' = [algos EXCEPT ![u] = algos[u] - paid, ![app] = Relayed(paid),
                                ![Station] = MinBalance]
      /\ paid <= algos[u] /\ Relayed(paid) >= needed
      /\ Relayed(paid) = algos[Station] + paid - MinBalance
  BY DEF RelayTo, RelayAccepted, Relayed
<1>3. Relayed(paid) \in Nat /\ algos[u] - paid \in Nat
  BY <1>1, <1>2, AccountFacts
<1> QED
  BY <1>1, <1>2, <1>3, AccountFacts

(* create gets what the group has paid for the farm's box.                 *)
LEMMA DeployFarmKeeps ==
  ASSUME DeploymentInv, NEW u \in Users, NEW f \in Farms, DeployFarm(u, f)
  PROVE  DeploymentInv'
<1>1. /\ RelayTo(u, f, DeployPayment, MinBalance + BoxCost)
      /\ roles' = [roles EXCEPT ![f] = [admin |-> u, updater |-> Multisig]]
      /\ UNCHANGED <<creator, used>>
  BY DEF DeployFarm, Create, AccountAt
<1>2. /\ algos' \in [Everybody -> Nat] /\ algos'[Station] = MinBalance
      /\ algos'[f] >= MinBalance + BoxCost
      /\ \A x \in Everybody \ {u, f, Station} : algos'[x] = algos[x]
  BY <1>1, AccountFacts, RelayedAlgos
<1>3. roles' \in [Farms -> [admin : Users \union {Multisig, None},
                            updater : Users \union {Multisig, None}]]
  BY <1>1 DEF DeploymentInv, MinimumsKept
<1>4. ASSUME NEW g \in Farms
      PROVE  IF Created(g)' THEN algos'[g] >= MinBalance + BoxCost ELSE algos'[g] = 0
  <2>1. CASE g = f
    <3>1. roles'[f] = [admin |-> u, updater |-> Multisig]
      BY <1>1 DEF DeploymentInv, MinimumsKept
    <3>2. Created(f)'
      BY <3>1, AccountFacts DEF Created, NoRoles
    <3> QED
      BY <1>2, <2>1, <3>2
  <2>2. CASE g # f
    <3>1. roles'[g] = roles[g]
      BY <1>1, <2>2 DEF DeploymentInv, MinimumsKept
    <3>2. algos'[g] = algos[g]
      BY <1>2, <2>2, AccountFacts
    <3> QED
      BY <3>1, <3>2 DEF DeploymentInv, MinimumsKept, Created
  <2> QED
    BY <2>1, <2>2
<1>5. ASSUME NEW e \in Escrows PROVE algos'[e] = algos[e]
  BY <1>2, AccountFacts
<1> QED
  BY <1>1, <1>2, <1>3, <1>4, <1>5, AccountFacts
  DEF DeploymentInv, MinimumsKept, Bootstrapped

(* A new escrow gets what it needs, or is not created.                     *)
LEMMA CreateEscrowKeeps ==
  ASSUME DeploymentInv, NEW u \in Users, NEW e \in Escrows,
         NEW paid \in Payments \union {0}, CreateEscrow(u, e, paid)
  PROVE  DeploymentInv'
<1>1. /\ RelayTo(u, e, paid, EscrowPayment) /\ paid \in Nat
      /\ creator' = [creator EXCEPT ![e] = u] /\ used' = used \union {e}
      /\ UNCHANGED roles
  BY AccountFacts DEF CreateEscrow
<1>2. /\ algos' \in [Everybody -> Nat] /\ algos'[Station] = MinBalance
      /\ algos'[e] >= EscrowPayment
      /\ \A x \in Everybody \ {u, e, Station} : algos'[x] = algos[x]
  BY <1>1, AccountFacts, RelayedAlgos
<1>3. \A x \in Apps \ {e} : algos'[x] = algos[x]
  BY <1>2, AccountFacts
<1>4. /\ creator' \in [Escrows -> Users \union {None}] /\ creator'[e] = u
      /\ \A x \in Escrows \ {e} : creator'[x] = creator[x]
      /\ \A x \in Escrows \ used' : creator'[x] = None
  BY <1>1 DEF DeploymentInv
<1>5. ASSUME NEW f \in Farms
      PROVE  IF Created(f)' THEN algos'[f] >= MinBalance + BoxCost ELSE algos'[f] = 0
  BY <1>1, <1>3, AccountFacts DEF DeploymentInv, MinimumsKept, Created
<1>6. ASSUME NEW x \in Escrows
      PROVE  IF creator'[x] \in Users THEN algos'[x] >= EscrowPayment ELSE algos'[x] = 0
  BY <1>2, <1>3, <1>4, AccountFacts DEF DeploymentInv, MinimumsKept
<1> QED
  BY <1>1, <1>2, <1>4, <1>5, <1>6, AccountFacts
  DEF DeploymentInv, MinimumsKept, Bootstrapped

(* An escrow keeps some of its Algos, and gives the rest to its creator.   *)
GivesUp(e, u, kept) ==
  /\ creator[e] = u /\ kept <= algos[e]
  /\ algos' = [algos EXCEPT ![u] = algos[u] + algos[e] - kept, ![e] = kept]

GivenUp(e, u, kept) ==
  /\ algos' \in [Everybody -> Nat] /\ algos'[Station] = algos[Station]
  /\ algos[u] \in Nat /\ algos[e] \in Nat
  /\ algos'[u] = algos[u] + algos[e] - kept /\ algos'[u] >= algos[u]
  /\ algos'[e] = kept
  /\ \A x \in Everybody \ {u, e} : algos'[x] = algos[x]

(* What an escrow gives up its owner gets, and nobody else is touched      *)
(* (withdraw_algos, delete).                                               *)
LEMMA EscrowPays ==
  ASSUME DeploymentInv, NEW u \in Users, NEW e \in Escrows, NEW kept \in Nat,
         GivesUp(e, u, kept)
  PROVE  GivenUp(e, u, kept)
<1>1. /\ algos \in [Everybody -> Nat] /\ u \in Everybody /\ e \in Everybody
      /\ u # e /\ u # Station /\ e # Station
  BY AccountFacts DEF DeploymentInv
<1> DEFINE sum == algos[u] + algos[e] - kept
<1>2. sum \in Nat /\ sum >= algos[u] /\ algos[u] \in Nat /\ algos[e] \in Nat
  BY <1>1 DEF GivesUp
<1>3. algos' = [algos EXCEPT ![u] = sum, ![e] = kept]
  BY DEF GivesUp
<1> HIDE DEF sum
<1>4. /\ algos' \in [Everybody -> Nat] /\ algos'[Station] = algos[Station]
      /\ algos'[u] = sum /\ algos'[e] = kept
      /\ \A x \in Everybody \ {u, e} : algos'[x] = algos[x]
  BY <1>1, <1>2, <1>3, AccountFacts
<1> QED
  BY <1>2, <1>4 DEF sum, GivenUp

(* withdraw_algos and delete.                                              *)
LEMMA EscrowActions ==
  ASSUME DeploymentInv, NEW u \in Users, NEW e \in Escrows
  PROVE  /\ WithdrawAlgos(e, u) =>
              GivesUp(e, u, EscrowPayment) /\ UNCHANGED <<roles, creator, used>>
         /\ Delete(e, u) =>
              /\ GivesUp(e, u, 0) /\ UNCHANGED <<roles, used>>
              /\ creator' = [creator EXCEPT ![e] = None]
<1>1. algos[e] \in Nat /\ algos[u] \in Nat
  BY AccountFacts DEF DeploymentInv
<1>2. creator[e] = u => EscrowPayment <= algos[e]
  BY <1>1, AccountFacts DEF DeploymentInv, MinimumsKept
<1>3. WithdrawAlgos(e, u) =>
        GivesUp(e, u, EscrowPayment) /\ UNCHANGED <<roles, creator, used>>
  BY <1>2 DEF WithdrawAlgos, GivesUp
<1>4. Delete(e, u) => /\ GivesUp(e, u, 0) /\ UNCHANGED <<roles, used>>
                      /\ creator' = [creator EXCEPT ![e] = None]
  <2>1. Delete(e, u) => /\ creator[e] = u
                        /\ algos' = [algos EXCEPT ![u] = algos[u] + algos[e], ![e] = 0]
                        /\ creator' = [creator EXCEPT ![e] = None]
                        /\ UNCHANGED <<roles, used>>
    BY DEF Delete
  <2>2. algos[u] + algos[e] - 0 = algos[u] + algos[e] /\ 0 <= algos[e]
    BY <1>1
  <2> QED
    BY <2>1, <2>2, Zenon DEF GivesUp
<1> QED
  BY <1>3, <1>4

(* DeploymentInv after those.                                              *)
LEMMA EscrowActionKeeps ==
  ASSUME DeploymentInv, NEW u \in Users, NEW e \in Escrows,
         WithdrawAlgos(e, u) \/ Delete(e, u)
  PROVE  DeploymentInv'
<1>1. PICK kept \in {0, EscrowPayment} :
        /\ GivesUp(e, u, kept) /\ UNCHANGED <<roles, used>>
        /\ \/ kept = EscrowPayment /\ creator' = creator
           \/ kept = 0 /\ creator' = [creator EXCEPT ![e] = None]
  BY EscrowActions
<1>2. /\ GivenUp(e, u, kept) /\ creator[e] = u /\ kept \in Nat
      /\ algos' \in [Everybody -> Nat] /\ algos'[Station] = algos[Station]
      /\ algos'[e] = kept /\ \A x \in Everybody \ {u, e} : algos'[x] = algos[x]
  <2>1. kept \in Nat
    BY AccountFacts
  <2>2. GivenUp(e, u, kept)
    BY <1>1, <2>1, EscrowPays
  <2> QED
    BY <1>1, <2>1, <2>2 DEF GivesUp, GivenUp
<1>3. \A x \in Apps \ {e} : algos'[x] = algos[x]
  BY <1>2, AccountFacts
<1>4. /\ creator' \in [Escrows -> Users \union {None}]
      /\ \A x \in Escrows \ {e} : creator'[x] = creator[x]
      /\ \A x \in Escrows \ used' : creator'[x] = None
      /\ IF creator'[e] \in Users THEN kept = EscrowPayment ELSE kept = 0
  BY <1>1, <1>2, AccountFacts DEF DeploymentInv
<1>5. ASSUME NEW f \in Farms
      PROVE  IF Created(f)' THEN algos'[f] >= MinBalance + BoxCost ELSE algos'[f] = 0
  BY <1>1, <1>3, AccountFacts DEF DeploymentInv, MinimumsKept, Created
<1>6. ASSUME NEW x \in Escrows
      PROVE  IF creator'[x] \in Users THEN algos'[x] >= EscrowPayment ELSE algos'[x] = 0
  <2>1. CASE x = e
    BY <1>2, <1>4, <2>1, AccountFacts
  <2>2. CASE x # e
    BY <1>3, <1>4, <2>2, AccountFacts DEF DeploymentInv, MinimumsKept
  <2> QED
    BY <2>1, <2>2
<1> QED
  BY <1>1, <1>2, <1>4, <1>5, <1>6, AccountFacts
  DEF DeploymentInv, MinimumsKept, Bootstrapped

(* DeploymentInv always holds.                                             *)
LEMMA DeploymentInvariance == DeploymentSpec => []DeploymentInv
<1>1. DeploymentInv /\ [DeploymentNext]_deploymentVars => DeploymentInv'
  <2> SUFFICES ASSUME DeploymentInv, [DeploymentNext]_deploymentVars
               PROVE  DeploymentInv'
    OBVIOUS
  <2>1. CASE UNCHANGED deploymentVars
    BY <2>1
    DEF deploymentVars, DeploymentInv, MinimumsKept, Created, Bootstrapped
  <2> QED
    BY <2>1, AlgosOnlyKeeps, DeployFarmKeeps, CreateEscrowKeeps, EscrowActionKeeps
    DEF DeploymentNext
<1> QED
  BY <1>1, DeploymentStarts, PTL DEF DeploymentSpec

-----------------------------------------------------------------------------
(* Every account keeps the minimum balance it needs, so that no withdraw   *)
(* of an escrow's Algos panics (escrow.py, gas_station.py).                *)
THEOREM DeploymentsKeepMinimums == DeploymentSpec => []MinimumsKept
<1>1. DeploymentInv => MinimumsKept
  BY DEF DeploymentInv
<1> QED
  BY <1>1, DeploymentInvariance, PTL

(* A group that deploy_farm.py builds is accepted when the station has its *)
(* minimum balance and the sender has the payment.                         *)
LEMMA AcceptedWhenBootstrapped ==
  ASSUME algos \in [Everybody -> Nat], NEW u \in Users
  PROVE  DeployAccepted(u) <=> Bootstrapped /\ DeployPayment <= algos[u]
<1>1. algos[Station] \in Nat
  BY AccountFacts
<1> QED
  BY <1>1, AccountFacts
  DEF DeployAccepted, RelayAccepted, Relayed, Bootstrapped

(* The station loses its minimum balance to quota calls only.              *)
LEMMA StationStaysBootstrapped ==
  ASSUME DeploymentInv, [DeploymentNext]_deploymentVars, Bootstrapped
  PROVE  Bootstrapped' \/ EmptiesStationOnly
<1>1. algos \in [Everybody -> Nat] /\ algos[Station] >= MinBalance
  BY DEF DeploymentInv, Bootstrapped
<1>2. CASE AlgosOnly
  <2>1. CASE \E count, fee \in 1 .. MaxQuota : IncreaseOpcodeQuota(count, fee)
    <3>1. PICK count \in 1 .. MaxQuota, fee \in 1 .. MaxQuota :
                 IncreaseOpcodeQuota(count, fee)
      BY <2>1
    <3> DEFINE left == algos[Station] - count * fee
    <3>2. /\ algos' = [algos EXCEPT ![Station] = left]
          /\ left = 0 \/ left >= MinBalance
      BY <3>1 DEF IncreaseOpcodeQuota
    <3> HIDE DEF left
    <3>3. algos'[Station] = left
      BY <1>1, <3>2, AccountFacts
    <3> QED
      BY <3>2, <3>3 DEF Bootstrapped, EmptiesStationOnly
  <2>2. CASE \E u \in Users : Withdraw(u)
    BY <1>1, <2>2, AccountFacts DEF Withdraw, Bootstrapped
  <2>3. ASSUME NEW u \in Users, NEW to \in Live \union {Station},
               NEW amount \in Payments, Pay(u, to, amount)
        PROVE  Bootstrapped'
    <3>1. /\ u # to /\ to \in Everybody /\ u # Station /\ amount \in Nat
          /\ algos' = [algos EXCEPT ![u] = algos[u] - amount, ![to] = algos[to] + amount]
      <4>1. u # to /\ to \in Everybody /\ u # Station /\ amount \in Nat
        BY AccountFacts DEF Live
      <4> QED
        BY <1>1, <2>3, <4>1, AccountFacts DEF Pay
    <3>2. algos'[Station] = algos[Station] + IF to = Station THEN amount ELSE 0
      BY <1>1, <3>1, AccountFacts
    <3> QED
      BY <1>1, <3>1, <3>2, AccountFacts DEF Bootstrapped
  <2> QED
    BY <1>2, <2>1, <2>2, <2>3 DEF AlgosOnly
<1>3. ASSUME NEW u \in Users, NEW app \in Apps, NEW paid \in Nat, NEW needed \in Nat,
             RelayTo(u, app, paid, needed)
      PROVE  Bootstrapped'
  BY <1>3, RelayedAlgos, AccountFacts DEF Bootstrapped
<1>4. ASSUME NEW u \in Users, NEW f \in Farms, DeployFarm(u, f)
      PROVE  Bootstrapped'
  BY <1>3, <1>4, AccountFacts DEF DeployFarm, Create
<1>5. ASSUME NEW u \in Users, NEW e \in Escrows, NEW paid \in Payments \union {0},
             CreateEscrow(u, e, paid)
      PROVE  Bootstrapped'
  BY <1>3, <1>5, AccountFacts DEF CreateEscrow
<1>6. ASSUME NEW u \in Users, NEW e \in Escrows, WithdrawAlgos(e, u) \/ Delete(e, u)
      PROVE  Bootstrapped'
  <2>1. PICK kept \in Nat : GivesUp(e, u, kept)
    BY <1>6, EscrowActions, AccountFacts
  <2>2. algos'[Station] = algos[Station]
    BY <2>1, EscrowPays DEF GivenUp
  <2> QED
    BY <1>1, <2>2 DEF Bootstrapped
<1>7. CASE UNCHANGED deploymentVars
  BY <1>1, <1>7 DEF deploymentVars, Bootstrapped
<1> QED
  BY <1>2, <1>4, <1>5, <1>6, <1>7 DEF DeploymentNext

(* A deployment that is paid for stays possible whatever others do, but    *)
(* for quota calls that burn the station (deploy_farm.py, gas_station.py). *)
THEOREM DeploymentsStayPossible == DeploymentSpec => DeploymentsStayOpen
<1>1. DeploymentInv /\ DeploymentInv' /\ [DeploymentNext]_deploymentVars
        => [\A u \in Users :
              DeployAccepted(u) /\ DeployPayment <= algos'[u]
                => DeployAccepted(u)' \/ EmptiesStationOnly]_deploymentVars
  <2> SUFFICES ASSUME DeploymentInv, DeploymentInv', [DeploymentNext]_deploymentVars,
                      NEW u \in Users, DeployAccepted(u), DeployPayment <= algos'[u],
                      ~ EmptiesStationOnly
               PROVE  DeployAccepted(u)'
    OBVIOUS
  <2>1. algos \in [Everybody -> Nat] /\ algos' \in [Everybody -> Nat]
    BY DEF DeploymentInv
  <2>2. Bootstrapped
    BY <2>1, AcceptedWhenBootstrapped
  <2>3. Bootstrapped'
    BY <2>2, StationStaysBootstrapped
  <2>4. algos'[Station] \in Nat
    BY <2>1, AccountFacts
  <2> QED
    BY <2>3, <2>4, AccountFacts
    DEF DeployAccepted, RelayAccepted, Relayed, Bootstrapped
<1> QED
  BY <1>1, DeploymentInvariance, PTL DEF DeploymentSpec, DeploymentsStayOpen

-----------------------------------------------------------------------------
Own(u) == {e \in Escrows : creator[e] = u}

(* An account and its escrows are finitely many accounts.                  *)
LEMMA OwnFacts ==
  ASSUME DeploymentInv, NEW u \in Users
  PROVE  /\ IsFiniteSet(Own(u)) /\ IsFiniteSet({u} \union Own(u))
         /\ {u} \union Own(u) \subseteq Everybody /\ u \notin Own(u)
         /\ algos \in [Everybody -> Nat]
<1>1. IsFiniteSet(Own(u)) /\ Own(u) \subseteq Escrows
  BY DeploymentAssumption, FS_Subset DEF Own
<1>2. IsFiniteSet({u} \union Own(u))
  BY <1>1, FS_AddElement
<1> QED
  BY <1>1, <1>2, AccountFacts DEF DeploymentInv

(* Holdings are natural numbers.                                           *)
LEMMA HoldingsType == DeploymentInv => \A u \in Users : Holdings(u) \in Nat
  BY OwnFacts, SumOfPart DEF Holdings, Own

(* What an account has when it and its escrows keep theirs, or get more.   *)
LEMMA HoldingsGrow ==
  ASSUME DeploymentInv, DeploymentInv', NEW u \in Users,
         Own(u) \subseteq Own(u)',
         \A x \in {u} \union Own(u) : algos[x] <= algos'[x]
  PROVE  Holdings(u) <= Holdings(u)'
<1> DEFINE T == {u} \union Own(u)
           U == {u} \union Own(u)'
<1>1. /\ U \in SUBSET Everybody /\ IsFiniteSet(U) /\ T \in SUBSET U
      /\ algos \in [Everybody -> Nat] /\ algos' \in [Everybody -> Nat]
  <2>1. IsFiniteSet(Own(u)') /\ Own(u)' \subseteq Escrows
    BY DeploymentAssumption, FS_Subset DEF Own
  <2>2. IsFiniteSet(U)
    BY <2>1, FS_AddElement
  <2> QED
    BY <2>1, <2>2, AccountFacts DEF DeploymentInv
<1>2. Holdings(u) = SumFunctionOnSet(algos, T)
  BY DEF Holdings, Own
<1>3. Holdings(u)' = SumFunctionOnSet(algos', U)
  BY DEF Holdings, Own
<1>4. \A x \in T : algos[x] <= algos'[x]
  OBVIOUS
<1> HIDE DEF T, U
<1> QED
  BY <1>1, <1>2, <1>3, <1>4, SumLarger

(* What an escrow gives up is not lost to its creator.                     *)
LEMMA HoldingsMove ==
  ASSUME DeploymentInv, NEW u \in Users, NEW e \in Escrows, NEW kept \in Nat,
         GivesUp(e, u, kept), NEW T, T = Own(u) \ {e}, NEW g, g = algos'
  PROVE  /\ Holdings(u) = SumFunctionOnSet(g, {u} \union Own(u))
         /\ kept = 0 => Holdings(u) = SumFunctionOnSet(g, {u} \union T)
<1>1. e \in Own(u)
  BY DEF Own, GivesUp
<1>2. /\ g \in [Everybody -> Nat] /\ algos[u] \in Nat /\ algos[e] \in Nat
      /\ g[u] = algos[u] + algos[e] - kept /\ g[e] = kept
      /\ \A x \in Everybody \ {u, e} : g[x] = algos[x]
  BY EscrowPays DEF GivenUp
<1>3. /\ algos \in [Everybody -> Nat]
      /\ T \in SUBSET Everybody /\ IsFiniteSet(T)
      /\ u \in Everybody \ T /\ e \in Everybody \ ({u} \union T)
      /\ T \union {u} \in SUBSET Everybody /\ IsFiniteSet(T \union {u})
      /\ {u} \union Own(u) = (T \union {u}) \union {e}
  <2>1. /\ IsFiniteSet(Own(u)) /\ {u} \union Own(u) \subseteq Everybody
        /\ u \notin Own(u) /\ algos \in [Everybody -> Nat]
    BY OwnFacts
  <2>2. IsFiniteSet(T)
    BY <2>1, FS_Subset
  <2>3. IsFiniteSet(T \union {u})
    BY <2>2, FS_AddElement
  <2>4. {u} \union Own(u) = (T \union {u}) \union {e}
    BY <1>1
  <2>5. /\ T \subseteq Everybody /\ u \in Everybody \ T
        /\ e \in Everybody \ ({u} \union T) /\ T \union {u} \subseteq Everybody
    BY <1>1, <2>1
  <2> QED
    BY <2>1, <2>2, <2>3, <2>4, <2>5
<1> DEFINE rest == SumFunctionOnSet(algos, T)
<1>4. rest \in Nat /\ SumFunctionOnSet(g, T) = rest
  <2>1. rest \in Nat /\ rest = Cardinality(Pairs(algos, T))
    BY <1>3, SumOfPart
  <2>2. SumFunctionOnSet(g, T) = Cardinality(Pairs(g, T))
    BY <1>2, <1>3, SumOfPart
  <2>3. \A x \in T : g[x] = algos[x]
    BY <1>2, <1>3
  <2>4. Pairs(g, T) = Pairs(algos, T)
    BY <2>3 DEF Pairs
  <2> QED
    BY <2>1, <2>2, <2>4
<1>5. /\ SumFunctionOnSet(algos, T \union {u}) = algos[u] + rest
      /\ SumFunctionOnSet(algos, (T \union {u}) \union {e})
           = algos[e] + SumFunctionOnSet(algos, T \union {u})
  <2>1. u \in Everybody \ T /\ e \in Everybody \ (T \union {u})
    BY <1>3
  <2>2. SumFunctionOnSet(algos, T \union {u}) = algos[u] + SumFunctionOnSet(algos, T)
    BY <1>3, <2>1, SumInsert
  <2>3. SumFunctionOnSet(algos, (T \union {u}) \union {e})
          = algos[e] + SumFunctionOnSet(algos, T \union {u})
    BY <1>3, <2>1, SumInsert
  <2> QED
    BY <2>2, <2>3
<1>6. /\ SumFunctionOnSet(g, T \union {u}) = g[u] + rest
      /\ SumFunctionOnSet(g, (T \union {u}) \union {e})
           = g[e] + SumFunctionOnSet(g, T \union {u})
  <2>1. u \in Everybody \ T /\ e \in Everybody \ (T \union {u})
    BY <1>3
  <2>2. SumFunctionOnSet(g, T \union {u}) = g[u] + SumFunctionOnSet(g, T)
    BY <1>2, <1>3, <2>1, SumInsert
  <2>3. SumFunctionOnSet(g, (T \union {u}) \union {e})
          = g[e] + SumFunctionOnSet(g, T \union {u})
    BY <1>2, <1>3, <2>1, SumInsert
  <2> QED
    BY <1>4, <2>2, <2>3
<1>7. Holdings(u) = SumFunctionOnSet(algos, {u} \union Own(u))
  BY DEF Holdings, Own
<1> HIDE DEF rest
<1>8. Holdings(u) = algos[e] + (algos[u] + rest)
  BY <1>3, <1>5, <1>7
<1>9. SumFunctionOnSet(g, {u} \union Own(u)) = g[e] + (g[u] + rest)
  BY <1>3, <1>6
<1>10. {u} \union T = T \union {u}
  OBVIOUS
<1>11. SumFunctionOnSet(g, {u} \union T) = g[u] + rest
  BY <1>6, <1>10
<1> DEFINE x == g[u]
           y == SumFunctionOnSet(g, {u} \union Own(u))
           z == SumFunctionOnSet(g, {u} \union T)
           h == Holdings(u)
<1>12. /\ algos[u] \in Nat /\ algos[e] \in Nat /\ rest \in Nat
       /\ x = algos[u] + algos[e] - kept /\ h = algos[e] + (algos[u] + rest)
       /\ y = kept + (x + rest) /\ z = x + rest
  BY <1>2, <1>4, <1>8, <1>9, <1>11
<1> HIDE DEF x, y, z, h
<1>13. h = y /\ (kept = 0 => h = z)
  BY <1>12
<1> QED
  BY <1>13 DEF y, z, h

(* No step takes Algos from an account and its escrows unless the account  *)
(* pays some itself; nothing stays behind in a deleted escrow (escrow.py). *)
THEOREM HoldingsStayWithTheirOwner == DeploymentSpec => HoldingsShrinkByPaying
<1>1. ASSUME DeploymentInv, DeploymentInv', [DeploymentNext]_deploymentVars,
             NEW u \in Users, ~ (algos'[u] < algos[u])
      PROVE  ~ (Holdings(u)' < Holdings(u))
  <2>1. /\ algos \in [Everybody -> Nat] /\ algos' \in [Everybody -> Nat]
        /\ algos[u] <= algos'[u] /\ Own(u) \subseteq Apps /\ Own(u) \subseteq Escrows
    BY <1>1, AccountFacts DEF DeploymentInv, Own
  <2>2. Holdings(u) \in Nat /\ Holdings(u)' \in Nat
    <3>1. PICK g, T : g = algos' /\ T = {u} \union Own(u)'
      OBVIOUS
    <3>2. g \in [Everybody -> Nat] /\ T \in SUBSET Everybody /\ IsFiniteSet(T)
      <4>1. Own(u)' \subseteq Escrows
        BY DEF Own
      <4>2. IsFiniteSet(Own(u)')
        BY <4>1, DeploymentAssumption, FS_Subset
      <4> QED
        BY <2>1, <3>1, <4>1, <4>2, AccountFacts, FS_AddElement
    <3>3. SumFunctionOnSet(g, T) \in Nat
      BY <3>2, SumOfPart
    <3>4. Holdings(u)' = SumFunctionOnSet(g, T)
      BY <3>1 DEF Holdings, Own
    <3> QED
      BY <1>1, <3>3, <3>4, HoldingsType
  <2>3. ASSUME Own(u) \subseteq Own(u)', \A x \in Own(u) : algos[x] <= algos'[x]
        PROVE  ~ (Holdings(u)' < Holdings(u))
    <3>1. Holdings(u) <= Holdings(u)'
      BY <1>1, <2>1, <2>3, HoldingsGrow
    <3> QED
      BY <2>2, <3>1
  <2>4. CASE AlgosOnly
    <3>1. Own(u)' = Own(u)
      BY <2>4 DEF AlgosOnly, Own
    <3>2. \A x \in Own(u) : algos[x] <= algos'[x]
      BY <1>1, <2>1, <2>4, AccountFacts, AlgosOnlyMoves DEF AlgosMoved
    <3> QED
      BY <2>3, <3>1, <3>2
  <2>5. ASSUME NEW v \in Users, NEW f \in Farms, DeployFarm(v, f)
        PROVE  ~ (Holdings(u)' < Holdings(u))
    <3>1. RelayTo(v, f, DeployPayment, MinBalance + BoxCost) /\ UNCHANGED creator
      BY <2>5 DEF DeployFarm, Create
    <3>2. \A y \in Everybody \ {v, f, Station} : algos'[y] = algos[y]
      BY <1>1, <3>1, AccountFacts, RelayedAlgos
    <3>3. \A x \in Own(u) : algos[x] <= algos'[x]
      BY <2>1, <3>2, AccountFacts
    <3> QED
      BY <2>3, <3>1, <3>3 DEF Own
  <2>6. ASSUME NEW v \in Users, NEW e \in Escrows, NEW paid \in Payments \union {0},
               CreateEscrow(v, e, paid)
        PROVE  ~ (Holdings(u)' < Holdings(u))
    <3>1. /\ RelayTo(v, e, paid, EscrowPayment) /\ paid \in Nat
          /\ creator' = [creator EXCEPT ![e] = v] /\ creator[e] = None
      BY <1>1, <2>6, AccountFacts DEF CreateEscrow, DeploymentInv
    <3>2. \A y \in Everybody \ {v, e, Station} : algos'[y] = algos[y]
      BY <1>1, <3>1, AccountFacts, RelayedAlgos
    <3>3. e \notin Own(u) /\ Own(u) \subseteq Own(u)'
      BY <1>1, <3>1, AccountFacts DEF Own, DeploymentInv
    <3>4. \A x \in Own(u) : algos[x] <= algos'[x]
      BY <2>1, <3>2, <3>3, AccountFacts
    <3> QED
      BY <2>3, <3>3, <3>4
  <2>7. ASSUME NEW v \in Users, NEW e \in Escrows, NEW kept \in Nat, GivesUp(e, v, kept),
               \/ creator' = creator
               \/ kept = 0 /\ creator' = [creator EXCEPT ![e] = None]
        PROVE  ~ (Holdings(u)' < Holdings(u))
    <3>1. \A x \in Everybody \ {v, e} : algos'[x] = algos[x]
      BY <1>1, <2>7, EscrowPays DEF GivenUp
    <3>2. creator[e] = v /\ v # None
      BY <2>7, AccountFacts DEF GivesUp
    <3>3. CASE u # v
      <4>1. e \notin Own(u) /\ Own(u) \subseteq Own(u)'
        BY <1>1, <2>7, <3>2, <3>3 DEF Own, DeploymentInv
      <4>2. \A x \in Own(u) : algos[x] <= algos'[x]
        BY <2>1, <3>1, <4>1, AccountFacts
      <4> QED
        BY <2>3, <4>1, <4>2
    <3>4. CASE u = v
      <4>1. PICK g, T : g = algos' /\ T = Own(u) \ {e}
        OBVIOUS
      <4>2. /\ Holdings(u) = SumFunctionOnSet(g, {u} \union Own(u))
            /\ kept = 0 => Holdings(u) = SumFunctionOnSet(g, {u} \union T)
        BY <1>1, <2>7, <3>4, <4>1, HoldingsMove
      <4>3. Holdings(u)' = SumFunctionOnSet(g, {u} \union Own(u)')
        BY <4>1 DEF Holdings, Own
      <4>4. Own(u)' = Own(u) \/ (kept = 0 /\ Own(u)' = T)
        BY <1>1, <2>7, <3>4, <4>1, AccountFacts DEF Own, DeploymentInv
      <4>5. Holdings(u)' = Holdings(u)
        BY <4>2, <4>3, <4>4
      <4> QED
        BY <2>2, <4>5
    <3> QED
      BY <3>3, <3>4
  <2>8. ASSUME NEW v \in Users, NEW e \in Escrows, WithdrawAlgos(e, v) \/ Delete(e, v)
        PROVE  ~ (Holdings(u)' < Holdings(u))
    BY <1>1, <2>7, <2>8, EscrowActions, AccountFacts
  <2>9. CASE UNCHANGED deploymentVars
    <3>1. Holdings(u)' = Holdings(u)
      BY <2>9 DEF deploymentVars, Holdings
    <3> QED
      BY <2>2, <3>1
  <2> QED
    BY <1>1, <2>4, <2>5, <2>6, <2>8, <2>9 DEF DeploymentNext
<1>2. DeploymentInv /\ DeploymentInv' /\ [DeploymentNext]_deploymentVars
        => [\A u \in Users : Holdings(u)' < Holdings(u) => algos'[u] < algos[u]]_deploymentVars
  BY <1>1
<1> QED
  BY <1>2, DeploymentInvariance, PTL DEF DeploymentSpec, HoldingsShrinkByPaying
=============================================================================
