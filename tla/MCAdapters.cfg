SPECIFICATION AdaptersSpec
CONSTANTS
  MaxBody = 2
  Writers = {w1, w2}
  Asked <- AskedLists
  Width = 2
  MaxTotal = 2
  MaxPolls = 2
  MaxRows = 2
  MaxChunks = 3
  Columns <- FourRows
  Churning = 3
  Limits = {1, 2}
  Offsets = {0, 1}
  PageCap = 2
  ScanPage = 2
  ScanCap = 3
  OffsetCap = 4
  Callers = {c1, c2}
  MaxIssued = 2
  MaxMinted = 3
  MaxQueryPages = 2
  TxKeys = {k1, k2}
  MaxSteps = 3
  MaxOthers = 1
  MaxAttempts = 2
  MaxTables = 2
  MaxRead = 1
  MaxLogins = 2
  MaxGrants = 2
  MaxTries = 2
INVARIANTS
  AbortIsPrompt
  NothingLeftOpen
  BatchIsExact
  NoReadOutlivesItsBatch
  ResultIsWhole
  ChainIsExact
  AnswerIsWhole
  FilterIsExact
  ValuesSurvive
  HandleGivesOnePage
  TransactionIsWhole
  ReadsHoldAtCommit
  KeyIsProven
  SignedOutStaysOut
PROPERTIES
  SentCallsEnd
  ImplementsRecordStore
  ResumeDropsNoOther
  DispatchIsAuthorised
CHECK_DEADLOCK FALSE
