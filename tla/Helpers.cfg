\* Rewards per token in words of 16; byte strings of bits in words of two.
CONSTANTS
  W = 16
  MaxStake = 5
  MaxReward = 4
  MaxDistributions = 3
  ByteValues = 2
  WordBytes = 2
  MaxBytes = 6
  Members <- MCMembers
  UintValues = {1, 2}
  Bytes = {0, 1}
  Absent = absent
SPECIFICATION HelpersSpec
INVARIANTS NeverOverpays RoundingLossBounded
  ToIntDefined QuotientBounded PartsWithinWhole StoredIsFound
PROPERTIES StoreKeepsTheRest
