SPECIFICATION Spec
CONSTANTS
  a1 = a1
  a2 = a2
  a3 = a3
  t1 = t1
  t2 = t2
  Account <- MCAccount
  zero = zero
  ZeroAddress = zero
  Operator <- MCOperator
  Token <- MCToken
  deployer = a1
  Width = 3
INVARIANTS
  ERC721TypeOK
  BalancesCountTokens
  NobodyIsAuthorizedForNothing
PROPERTIES
  ImplementsCustody
