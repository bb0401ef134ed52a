SPECIFICATION Spec
CONSTANTS
  Address = {a1, a2}
  deployer = a1
  supply = 2
  Width = 4
  Amounts = {1}
  MaxHandles = 7
  Words = {0, 1}
INVARIANTS TotalSupplyIsSumOfBalances
CHECK_DEADLOCK FALSE
