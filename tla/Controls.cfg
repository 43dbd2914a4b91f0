SPECIFICATION FairSpec
CONSTANTS
    Publishers = {"air", "acl"}
    LogCap = 2
    MaxTotal = 2
    MaxGen = 3
    KeyCap = 1
    MaxKeys = 2
    MaxRefusals = 1
INVARIANTS OneCapture KeysReported
PROPERTIES KeyReleased
CHECK_DEADLOCK FALSE
