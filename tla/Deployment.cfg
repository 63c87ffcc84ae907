\* Two users, a farm and two escrows; small Algos.  Everything may be spent.
CONSTANTS
  Users = {alice, bob}
  Apps = {farm, e1, e2}
  Farms = {farm}
  Escrows = {e1, e2}
  Station = station
  Multisig = multisig
  None = none
  Wallet = 9
  MinBalance = 2
  AssetCost = 2
  BoxCost = 3
  Payments = {2, 4, 5}
  MaxQuota = 2
SPECIFICATION DeploymentSpec
INVARIANTS MinimumsKept
PROPERTIES DeploymentsStayOpen HoldingsShrinkByPaying
CHECK_DEADLOCK FALSE
