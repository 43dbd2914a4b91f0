SPECIFICATION RetrySpec
CONSTANTS
  Budget = 1
  MaxSessions = 2
INVARIANTS OncePerBoot NothingSurvives OwnerUsed
