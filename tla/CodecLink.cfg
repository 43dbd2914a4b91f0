SPECIFICATION FairSpec
CONSTANTS
    Queue = 2
    MicQueue = 1
    Seqs = 2
    MaxEpoch = 2
INVARIANTS PausedMeansParked NothingOld NoQueueDrop DecoderFresh
PROPERTIES PauseAnswered
