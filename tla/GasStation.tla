----------------------------- MODULE GasStation -----------------------------
(***************************************************************************)
(* The gas station of src/gas_station.py: an application that relays Algos *)
(* to whoever calls it, above all to applications being created, which     *)
(* have none of their own yet.                                             *)
(*                                                                         *)
(* After a transaction of the top level the ledger demands of an account   *)
(* it has changed that it be empty or hold its minimum balance; not so     *)
(* between inner transactions.  What a user needs for its own minimum      *)
(* balance and for fees is not counted.                                    *)
(***************************************************************************)
EXTENDS Naturals

CONSTANTS Users,       \* accounts that sign transactions
          Apps,        \* accounts of the farms and escrows
          Station,     \* the gas station's account
          Wallet,      \* Algos each user starts with
          MinBalance   \* minimum balance of an account with no extras

ASSUME StationAssumption ==
  /\ Wallet \in Nat /\ MinBalance \in Nat \ {0}
  /\ Station \notin Users \union Apps /\ Users \intersect Apps = {}

VARIABLE algos   \* of every account

AlgosInit == algos = [a \in Users \union Apps \union {Station} |->
                        IF a \in Users THEN Wallet ELSE 0]

Bootstrapped == algos[Station] >= MinBalance

(* Balance - MinBalance, which withdraw finds after a payment in the group.*)
Relayed(paid) == algos[Station] + paid - MinBalance

(* A payment, and none of the station's calls with it in the group.        *)
Pay(u, to, amount) ==
  /\ amount <= algos[u]
  /\ to = Station => algos[Station] + amount >= MinBalance
  /\ algos' = [algos EXCEPT ![u] = @ - amount, ![to] = @ + amount]

(* withdraw, called by a user; it panics below the minimum balance.        *)
Withdraw(caller) ==
  /\ Bootstrapped
  /\ algos' = [algos EXCEPT ![caller] = @ + Relayed(0), ![Station] = MinBalance]

(* withdraw, called by the new application in its creation, in a group in  *)
(* which its creator has paid the station before, or not (0).  The new     *)
(* account must end up with the minimum balance it then needs.             *)
RelayAccepted(u, paid, needed) ==
  /\ paid <= algos[u]
  /\ algos[Station] + paid >= MinBalance
  /\ Relayed(paid) >= needed

RelayTo(u, app, paid, needed) ==
  /\ RelayAccepted(u, paid, needed)
  /\ algos' = [algos EXCEPT ![u] = @ - paid, ![app] = Relayed(paid),
                            ![Station] = MinBalance]

(* increase_opcode_quota: count applications are created and deleted, and  *)
(* the station pays fee for each.                                          *)
IncreaseOpcodeQuota(count, fee) ==
  /\ count * fee <= algos[Station]
  /\ algos[Station] - count * fee \in {0} \union {a \in Nat : a >= MinBalance}
  /\ algos' = [algos EXCEPT ![Station] = @ - count * fee]
=============================================================================
