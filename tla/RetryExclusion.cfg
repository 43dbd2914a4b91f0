SPECIFICATION RetrySpec
CONSTANTS
  Budget = 2
  MaxSessions = 1
INVARIANT Exclusion
