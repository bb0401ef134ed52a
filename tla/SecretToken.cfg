SPECIFICATION Spec
CONSTANTS
  Address = {a1, a2}
  deployer = a1
  supply = 2
  Width = 4
  Amounts = {1}
  MaxHandles = 7
  Words = {0, 1, 2, 3, 5}
VIEW Stored
INVARIANTS TokenTypeOK
PROPERTIES SupplyAccounted OnlyAuthorizedDebits
CHECK_DEADLOCK FALSE
