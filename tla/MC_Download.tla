---------------------------- MODULE MC_Download ----------------------------
(* Two peer threads, each streaming from one of two send_file threads of  *)
(* source pA (stream_num 2), and a file of two segments: a thread can     *)
(* finish while the other still holds a segment, both can race for the   *)
(* last one, a refused connect leaves one thread without a slot, and the  *)
(* two send_file threads contend for pA's one fileMutex.                  *)
EXTENDS Download

MCNSlots == 2
MCNSegs == 2
MCSrc == [k \in 1..2 |-> "pA"]
MCAllFaults == {"refuse", "close", "truncate", "delete"}
=============================================================================
