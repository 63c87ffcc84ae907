\* Every group of up to four transactions over two reward assets.
CONSTANTS
  Listed = {s1, s2}
  Amounts = {1, 2}
  MaxIds = 3
  MaxGroup = 4
SPECIFICATION GroupSpec
INVARIANTS CountedWereSent
PROPERTIES PlainDepositCounts
CHECK_DEADLOCK FALSE
