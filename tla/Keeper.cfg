SPECIFICATION LiveSpec
CONSTANTS
    Cap = 3
    MaxInbox = 2
    MaxTries = 2
    MaxOdd = 1
INVARIANTS KeeperInv ManualAlone InOrder ResetQuiet
PROPERTIES PauseServed
