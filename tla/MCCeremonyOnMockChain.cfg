SPECIFICATION MockSpec
CONSTANTS
  c1 = c1
  c2 = c2
  a1 = a1
  a2 = a2
  a3 = a3
  NoOne = NoOne
  NoSession = 0
  SessionId = {1, 2}
  Contract <- MCContract
  Account <- MCAccount
  Threshold <- MCThreshold
INVARIANTS CeremonyTypeOK SessionsNeverShared
PROPERTIES ImplementsLifecycle
CHECK_DEADLOCK FALSE
