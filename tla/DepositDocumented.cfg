\* The group the documents describe.
CONSTANTS
  Listed = {s1, s2}
  Amounts = {1, 2}
  MaxIds = 1
  MaxGroup = 3
SPECIFICATION GroupSpec
INVARIANTS DocumentedGroupAccepted
CHECK_DEADLOCK FALSE
