SPECIFICATION Spec
CONSTANTS
  Address = {a1, a2, a3}
  deployer = a1
  supply = 2
  Width = 3
INVARIANTS ERC20TypeOK SupplyIsSumOfBalances
PROPERTIES OnlyAuthorizedDebits
