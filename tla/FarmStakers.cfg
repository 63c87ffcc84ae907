\* Two stakers and one reward asset: stakes, exits and rounding.
CONSTANTS
  W = 8
  Users = {alice, bob}
  Accounts = {adm}
  Algo = algo
  Assets = {algo}
  MaxFarmedAssets = 1
  OptInCost = 1
  Balances = {0, 1, 3}
  MaxElapsed = 3
  Durations = {2}
  Amounts = {0, 1, 3}
  Supply = 3
SPECIFICATION Spec
SYMMETRY UserSymmetry
INVARIANTS TypeOK StakeAccounting Solvent HoldingsCoverLiabilities
  ScheduleConsistent UpdatesNeverPanic ExitAlwaysOpen
PROPERTIES EarningsFollowStake StreamsRewards
