SPECIFICATION Spec
CONSTANTS
  c1 = c1
  c2 = c2
  u1 = u1
  r = r
  NoOne = NoOne
  NoSession = NoSession
  Contract <- MCContract
  Account <- MCAccount
  Threshold <- MCThreshold
  SessionId = {s1, s2, s3}
  Signer = {u1}
  Share = {x}
  Requested = {}
  Width = 4
  MaxShares = 2
INVARIANTS HelperInStep FinalizedMeetsBothThresholds
PROPERTIES ImplementsLifecycle
CHECK_DEADLOCK FALSE
