----------------------------- MODULE FarmUpgrade -----------------------------
(***************************************************************************)
(* Upgrades of the farm's program.  Transactions come in atomic groups: a  *)
(* group is executed transaction by transaction, each with the next one in *)
(* sight, and a failure returns to the state before the group.             *)
(*                                                                         *)
(* A program is one build of the farm: the escrow's bytecode that has been *)
(* compiled into it, its CONTRACT_VERSION, and everything else.            *)
(***************************************************************************)
EXTENDS Naturals

CONSTANTS Accounts,   \* users, updaters, anybody else
          Bytecodes,  \* approval programs of escrows
          Versions,   \* values of CONTRACT_VERSION
          Builds,     \* what else sets programs apart
          NoCode      \* the account has no escrow

ASSUME UpgradeAssumption == Versions \subseteq Nat /\ NoCode \notin Bytecodes

Programs == [escrow : Bytecodes, version : Versions, build : Builds]

NoTxn == [type |-> "none"]

(* A call of post_update is plain when it has no argument but the selector;*)
(* opt_in comes with the husk's creation right before it, and clear_state  *)
(* and close_out are one kind of leaving.                                  *)
Txns == [type : {"update"}, sender : Accounts, program : Programs]
          \union [type : {"post_update"}, sender : Accounts, plain : BOOLEAN]
          \union [type : {"change_updater"}, sender : Accounts, to : Accounts]
          \union [type : {"opt_in", "leave", "update_state"}, sender : Accounts]

VARIABLES program,     \* the program of the farm's application
          version,     \* VERSION in its global state
          box,         \* content of its box ESCROW_BOX_NAME
          updater,
          escrowCode,  \* program of the escrow linked to each account
          txn,         \* transaction to be executed, NoTxn between groups
          signers,     \* senders of the group's transactions before it
          saved        \* the state before the group

farmVars == <<program, version, box, updater, escrowCode>>
vars == <<farmVars, txn, signers, saved>>

State == [program |-> program, version |-> version, box |-> box,
          updater |-> updater, escrowCode |-> escrowCode]

States == [program : Programs, version : Versions, box : Bytecodes,
           updater : Accounts, escrowCode : [Accounts -> Bytecodes \union {NoCode}]]

UpgradeTypeOK ==
  /\ State \in States /\ saved \in States
  /\ txn \in Txns \union {NoTxn} /\ signers \subseteq Accounts

(* create, of any build.                                                   *)
Init ==
  /\ program \in Programs
  /\ version = program.version /\ box = program.escrow
  /\ updater \in Accounts
  /\ escrowCode = [a \in Accounts |-> NoCode]
  /\ txn = NoTxn /\ signers = {} /\ saved = State

-----------------------------------------------------------------------------
Begin ==
  /\ txn = NoTxn /\ txn' \in Txns
  /\ UNCHANGED <<farmVars, signers, saved>>

(* On to the next transaction of the group, or past its end.               *)
Advance(next) ==
  /\ txn' = next
  /\ IF next = NoTxn THEN signers' = {} /\ saved' = State'
                     ELSE signers' = signers \union {txn.sender} /\ UNCHANGED saved

UpdateWithFollowUpLater(next) ==                              \* mutant
  /\ txn.type = "update" /\ txn.sender = updater
  /\ next # NoTxn
  /\ program' = txn.program
  /\ UNCHANGED <<version, box, updater, escrowCode>>
  /\ Advance(next)

(* update, by the program that it replaces.                                *)
Update(next) ==
  /\ txn.type = "update" /\ txn.sender = updater
  /\ next.type = "post_update" /\ next.plain
  /\ program' = txn.program
  /\ UNCHANGED <<version, box, updater, escrowCode>>
  /\ Advance(next)

SameEscrowUnchecked == box \in Bytecodes                      \* mutant

(* "Escrow's bytecode must remain unchanged."                              *)
SameEscrow == box = program.escrow

NotYetDoneOrEqual == program.version >= version               \* mutant

(* "Update was already done"                                               *)
NotYetDone == program.version > version

PostUpdateCounting(next) ==                                   \* mutant
  /\ txn.type = "post_update" /\ SameEscrow /\ NotYetDone
  /\ version' = version + 1
  /\ UNCHANGED <<program, box, updater, escrowCode>>
  /\ Advance(next)

(* post_update, by the program that is running by then.                    *)
PostUpdate(next) ==
  /\ txn.type = "post_update" /\ SameEscrow /\ NotYetDone
  /\ version' = program.version
  /\ UNCHANGED <<program, box, updater, escrowCode>>
  /\ Advance(next)

ChangeUpdaterByAnyone(next) ==                                \* mutant
  /\ txn.type = "change_updater"
  /\ updater' = txn.to
  /\ UNCHANGED <<program, version, box, escrowCode>>
  /\ Advance(next)

ChangeUpdater(next) ==
  /\ txn.type = "change_updater" /\ txn.sender = updater
  /\ updater' = txn.to
  /\ UNCHANGED <<program, version, box, escrowCode>>
  /\ Advance(next)

(* opt_in injects the escrow's code of the running program into the husk.  *)
OptIn(next) ==
  /\ txn.type = "opt_in" /\ escrowCode[txn.sender] = NoCode
  /\ escrowCode' = [escrowCode EXCEPT ![txn.sender] = program.escrow]
  /\ UNCHANGED <<program, version, box, updater>>
  /\ Advance(next)

Leave(next) ==
  /\ txn.type = "leave" /\ escrowCode[txn.sender] # NoCode
  /\ escrowCode' = [escrowCode EXCEPT ![txn.sender] = NoCode]
  /\ UNCHANGED <<program, version, box, updater>>
  /\ Advance(next)

(* validate_escrow as far as programs go: the linked escrow's is compared  *)
(* with the one the running build has been compiled with.                  *)
EscrowIsValid(a) == escrowCode[a] = program.escrow

UpdateState(next) ==
  /\ txn.type = "update_state" /\ EscrowIsValid(txn.sender)
  /\ UNCHANGED farmVars
  /\ Advance(next)

(* A transaction whose guard does not hold fails, and any other may, for   *)
(* its fees or its budget; the ledger then drops the whole group.          *)
Reject ==
  /\ txn # NoTxn /\ txn' = NoTxn /\ signers' = {}
  /\ program' = saved.program /\ version' = saved.version /\ box' = saved.box
  /\ updater' = saved.updater /\ escrowCode' = saved.escrowCode
  /\ UNCHANGED saved

Next ==
  \/ Begin \/ Reject
  \/ \E next \in Txns \union {NoTxn} :
       \/ Update(next) \/ PostUpdate(next) \/ ChangeUpdater(next)
       \/ OptIn(next) \/ Leave(next) \/ UpdateState(next)

Spec == Init /\ [][Next]_vars

-----------------------------------------------------------------------------
(* Whatever groups have been executed, every linked escrow still has the   *)
(* code that the running build takes for valid, so that no upgrade locks   *)
(* anybody's stake up (farm.py:298-304).                                   *)
EscrowsStayValid ==
  txn = NoTxn => \A a \in Accounts : escrowCode[a] # NoCode => EscrowIsValid(a)

(* No call is served by a build whose migration has not been done: the     *)
(* one call that meets it is post_update (farm.py:285-292 and the comment  *)
(* at 310).                                                                *)
CallsSeeMigratedState ==
  txn.type # "post_update" => version = program.version /\ box = program.escrow

(* A group that changes the program has been signed by who was updater     *)
(* before the group, even if the group changes the updater first.          *)
UpgradesAreAuthorized ==
  [][txn # NoTxn /\ txn' = NoTxn /\ program' # saved.program
       => saved.updater \in signers \union {txn.sender}]_vars

(* Every program installed by a group has a higher version than the one    *)
(* before the group: no way back, and no upgrade twice (farm.py:305-308).  *)
UpgradesAreNewer ==
  [][txn # NoTxn /\ txn' = NoTxn /\ program' # saved.program
       => program'.version > saved.program.version]_vars
=============================================================================
