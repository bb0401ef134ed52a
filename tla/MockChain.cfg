SPECIFICATION Spec
CONSTANTS
  Account = {a1}
  Slot = {0}
  Payload = {1}
  Given = {2}
  Width = 3
  NoEnv = NoEnv
  Running = Running
  MaxHandles = 3
  MaxSteps = 3
  BlockTime = 1
  MaxU64 = 2
  MaxTx = 3
INVARIANTS ChainTypeOK HandlesResolve ReceiptsExplainContracts
PROPERTIES AllOrNothing CiphertextsImmutable
