CONSTANTS
  Threads = {1, 2}
  Nobody = nobody
  MaxCalls = 1
  MaxAttempts = 2
  MaxTokens = 2
  MaxRestarts = 1
  MaxEncoded = 2
  MaxDecoded = 2
  MaxHeader = 2
  MaxPieces = 2
  External = TRUE
  Calls <- MCCalls
  Profiles <- MCProfiles
SPECIFICATION FairSpec
INVARIANTS
  ExactlyOnceOutcome
  InFlightTokenIsCurrent
  DetachedIsForgotten
PROPERTY
  CallsEnd
CHECK_DEADLOCK FALSE
