CONSTANTS
    Peers <- MCPeers
    Paths <- MCPaths
    Sizes <- MCSizes
    MaxClock <- MCMaxClock
    Ep <- MCEp
    InitDisk <- MCInitDisk
    Writers <- MCOneWriter
    Quitters <- MCQuitters
    Flushed <- MCFlushed
SPECIFICATION Spec
INVARIANT TypeOK
INVARIANT EchoSuppressed
CHECK_DEADLOCK FALSE
