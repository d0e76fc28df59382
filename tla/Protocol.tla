------------------------------ MODULE Protocol ------------------------------
(***************************************************************************)
(* The tracker protocol messages (src/messaging/segment.h MessageType and   *)
(* the bodies segment.c sends).  A TCP stream is a sequence of them.        *)
(* REGISTER carries the sender's scan, FILE_UPDATE a batch of FileEvents in *)
(* the order they are written to the socket, TABLE_UPDATE a copy of the    *)
(* index.  KEEP_ALIVE is modelled by the Sweeper module.                   *)
(***************************************************************************)
RegisterMsg(files) == [type |-> "REGISTER", files |-> files]
FileUpdateMsg(evs) == [type |-> "FILE_UPDATE", events |-> evs]
AckMsg             == [type |-> "REGISTER_ACK"]
TableMsg(t)        == [type |-> "TABLE_UPDATE", table |-> t]

=============================================================================
