---------------------------- MODULE MC_Sweeper ----------------------------
(* Two peers, INTERVAL scaled down from the tracker's 5 seconds to 2 (the *)
(* sleeps are INTERVAL and INTERVAL+5 in the code, so the orderings are   *)
(* kept), at two ticks per second: half a second is enough for a sleep to *)
(* end in the next second.                                                 *)
EXTENDS Sweeper, TLC

CONSTANTS p1, p2

MCPeers == {p1, p2}
MCInterval == 2
MCR == 2
MCExact == 0
MCOverrun == 1
MCMaxInbox == 2
MCSymm == Permutations(MCPeers)
=============================================================================
