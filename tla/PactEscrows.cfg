\* Two users and three escrows, of which some name another farm.
CONSTANTS
  W = 8
  Users = {alice, bob}
  Owners = {alice, bob}
  Accounts = {adm}
  Algo = algo
  Assets = {algo}
  MaxFarmedAssets = 1
  OptInCost = 0
  Balances = {0, 1, 2}
  MaxElapsed = 1
  Durations = {1}
  Amounts = {0, 1}
  Supply = 1
  EscrowIds = {e1, e2, e3}
  Farms = {farm, other}
  ThisFarm = farm
  Wallet = 1
  None = none
SPECIFICATION PactSpec
SYMMETRY Symmetry
INVARIANTS PactTypeOK StakeIsBacked UnstakeAlwaysOpen
PROPERTIES TokensReturnToCreator
