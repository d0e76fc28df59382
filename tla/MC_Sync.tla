------------------------------ MODULE MC_Sync ------------------------------
EXTENDS Sync

MCPeers == {"p1", "p2"}
MCPaths == {<<"a">>}
MCSizes == {1}
MCMaxClock == 3
MCWriters == {"p1", "p2"}
MCOneWriter == {"p1"}
MCQuitters == {"p2"}
MCFlushed == TRUE
MCNoQuitters == {}
MCEp == [p \in MCPeers |-> [ip |-> "ip_" \o p, port |-> 1]]
\* p1 starts with a file written at time 1, p2 with an empty directory.
MCInitDisk == [p \in MCPeers |->
                 IF p = "p1" THEN [x \in MCPaths |-> [mtime |-> 1, size |-> 1, ver |-> 1]]
                 ELSE [x \in {} |-> [mtime |-> 0, size |-> 0, ver |-> 0]]]

=============================================================================
