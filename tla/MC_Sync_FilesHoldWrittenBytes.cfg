CONSTANTS
    Peers <- MCPeers
    Paths <- MCPaths
    Sizes <- MCSizes
    MaxClock <- MCMaxClock
    Ep <- MCEp
    InitDisk <- MCInitDisk
    Writers <- MCWriters
    Quitters <- MCNoQuitters
    Flushed <- MCFlushed
SPECIFICATION Spec
INVARIANT FilesHoldWrittenBytes
CHECK_DEADLOCK FALSE
