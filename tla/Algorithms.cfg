SPECIFICATION Spec
CONSTANTS
  Addresses = {"a1", "a2"}
  Stranger = "s"
  WinStart = 1
  WinEnd = 2
  MaxOccurrences = 2
  Worlds <- MCWorlds
  Listings <- MCListings
  TwoFactors <- MCTwoFactors
  RawCalls <- MCRawCalls
  Senders <- MCSenders
  StatusRuns <- MCStatusRuns
  LogRecords <- MCLogRecords
INVARIANTS
  DiagnosisFits
  OneKeyIsEnough
  ListingFaithful
  TwoFactorKeepsTokens
  RefusalsReadTheSame
  SenderCanSend
  NotLoggedInIsTrue
  LeavesRedacted
CHECK_DEADLOCK FALSE
