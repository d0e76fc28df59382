CONSTANTS
    NBeats <- MCNBeats
    NBatches <- MCNBatches
    MaxBatch <- MCMaxBatch
    NCompletes <- MCNCompletes

SPECIFICATION Spec

INVARIANT TrackerParsesEveryMessage

CHECK_DEADLOCK FALSE
