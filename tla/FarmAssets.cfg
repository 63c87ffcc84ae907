\* Algo and a token as reward assets, two admins, and lifetime deposits larger
\* than a word: listing, opt-in costs, deposits of several assets, and updates
\* that panic for good.
CONSTANTS
  W = 4
  Users = {alice}
  Accounts = {adm, newAdm}
  Algo = algo
  Assets = {algo, token}
  MaxFarmedAssets = 2
  OptInCost = 1
  Balances = {0, 1}
  MaxElapsed = 2
  Durations = {1}
  Amounts = {0, 2}
  Supply = 6
SPECIFICATION Spec
INVARIANTS Solvent HoldingsCoverLiabilities ExitAlwaysOpen
