SPECIFICATION FairSpec
CONSTANTS
    Modes = {"single", "follow", "reply", "repeat"}
INVARIANTS OnAirConfigured FaultProvoked
PROPERTIES RetiredBeforeRelease KeepsEventPromise EventuallyReclaimed
