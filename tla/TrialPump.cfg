SPECIFICATION FairSpec
CONSTANTS
    MaxRuns = 3
INVARIANTS OneOutstanding IdleMeansQuiet NoStaleStep
PROPERTIES PumpSettles
