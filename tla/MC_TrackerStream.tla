--------------------------- MODULE MC_TrackerStream ---------------------------
(***************************************************************************)
(* One heartbeat, one monitor batch of up to two events and one download   *)
(* completion: enough for a KEEP_ALIVE to fall between any two sends of a  *)
(* FILE_UPDATE, and for the two comm_lock holders to contend.             *)
(***************************************************************************)
EXTENDS TrackerStream

MCNBeats == 1
MCNBatches == 1
MCMaxBatch == 2
MCNCompletes == 1

=============================================================================
