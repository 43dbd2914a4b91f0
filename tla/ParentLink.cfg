SPECIFICATION FairSpec
CONSTANTS
    MaxMsg = 3
    Windows = 2
INVARIANTS KeysInOrder NoPressLost AckSound LinkInv
PROPERTIES DeliversControls ControlArrives
