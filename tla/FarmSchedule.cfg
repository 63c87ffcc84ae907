\* Long periods and one staker who may pause, under the fairness of time and
\* of updates.
CONSTANTS
  W = 8
  Users = {alice}
  Accounts = {adm}
  Algo = algo
  Assets = {algo}
  MaxFarmedAssets = 1
  OptInCost = 1
  Balances = {0, 1}
  MaxElapsed = 5
  Durations = {4}
  Amounts = {0, 3}
  Supply = 6
SPECIFICATION FairScheduleSpec
INVARIANTS ReleaseOnSchedule
PROPERTIES QueuedRewardsStart PendingRewardsAreReleased
