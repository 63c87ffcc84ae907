\* Two accounts, two escrow programs three versions and two builds of each.
CONSTANTS
  Accounts = {alice, bob}
  Bytecodes = {escrow1, escrow2}
  Versions = {100, 101, 200}
  Builds = {b1, b2}
  NoCode = none
SPECIFICATION Spec
INVARIANTS UpgradeTypeOK EscrowsStayValid CallsSeeMigratedState
PROPERTIES UpgradesAreAuthorized UpgradesAreNewer
