CONSTANTS
  Width = 16
  U128 = 4
  BlockLimit = 40
  max_iterations = 10
  MaxSeconds = 2000000
  MAX_PARSE_DEPTH = 16
  MAX_BODY_STMTS = 16
  MaxSlot = 63
  FieldType <- MCFieldType
  EventType <- MCEventType
  Files <- MCFiles
  Programs <- MCPrograms
  Transactions <- MCTransactions
SPECIFICATION MCSpec
INVARIANTS
  AcceptedRunsAreDefined
  DominanceHolds
  ValidatorAccepts
  EncryptedStaysHidden
  ParsesAsWritten
  FormattingIsHonest
  FieldsKeepApart
PROPERTIES
  LoweringKeepsMeaning
  PassesKeepBehaviour
  ReachesFixpoint
