CONSTANTS
    p1 = p1
    p2 = p2
    Peers <- MCPeers
    INTERVAL <- MCInterval
    R <- MCR
    Slack <- MCExact
    MaxInbox <- MCMaxInbox
SPECIFICATION Spec
INVARIANT TypeOK
INVARIANT LiveHeartbeatKept
INVARIANT SweepDeadline
SYMMETRY MCSymm
