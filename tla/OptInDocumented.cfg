\* The group of two that the documents describe, after a deployment.
CONSTANTS
  Users = {alice, bob}
  Apps = {farm, e1, e2}
  Farms = {farm}
  Escrows = {e1, e2}
  Station = station
  Multisig = multisig
  None = none
  Wallet = 9
  MinBalance = 2
  AssetCost = 2
  BoxCost = 3
  Payments = {2, 4, 5}
  MaxQuota = 2
SPECIFICATION DeploymentSpec
INVARIANTS DocumentedOptInAccepted
CHECK_DEADLOCK FALSE
