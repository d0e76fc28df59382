---------------------------- MODULE MC_FileTable ----------------------------
(* Model-checking instances of FileTable.  MCPaths: a directory "d", a  *)
(* file below it "d/x" and a dotfile ".h" (reported, never indexed).     *)
(* Two endpoints share an ip (two peers on one host), one does not.      *)
EXTENDS FileTable

MCPaths == {<<"d">>, <<"d", "/", "x">>, <<".", "h">>}

MCEndpoints == {[ip |-> "ipA", port |-> 1],
                [ip |-> "ipA", port |-> 2],
                [ip |-> "ipB", port |-> 1]}

MCTimes == 1..2

MCSizes == {1}
=============================================================================
