SPECIFICATION HelperSpec
CONSTANTS
  c1 = c1
  u1 = u1
  u2 = u2
  NoOne = NoOne
  SessionId = {s1, s2}
  Share = {x}
  Address <- MCAddress
  Signer <- MCSigner
  Requested <- MCRequested
  Width <- MCWidth
  MaxShares = 2
INVARIANTS HelperTypeOK IndexMatchesSessions SharesLiveUntilDestroyed LogReplaysPhase
PROPERTIES PhasesOnlyAdvance
CHECK_DEADLOCK FALSE
