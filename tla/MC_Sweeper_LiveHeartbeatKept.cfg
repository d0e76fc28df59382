CONSTANTS
    p1 = p1
    p2 = p2
    Peers <- MCPeers
    INTERVAL <- MCInterval
    R <- MCR
    Slack <- MCOverrun
    MaxInbox <- MCMaxInbox
SPECIFICATION Spec
SYMMETRY MCSymm
INVARIANT LiveHeartbeatKept
