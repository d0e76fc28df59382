-------------------------- MODULE SegmentDelivery --------------------------
(***************************************************************************)
(* What one download promises the peer, whatever threads and sockets       *)
(* carry it (src/upload_download/upload_download.h, download.c's comments  *)
(* on seg_handler and file_saver): each segment of the file is handed to   *)
(* the saver once, with the bytes its source sent; the saver writes a      *)
(* segment it was handed, in any order; the file is closed, and the        *)
(* completion callback run, once every segment is written.  A handed      *)
(* segment is eventually written, and a file whose segments are all       *)
(* written is eventually closed.                                           *)
(***************************************************************************)
EXTENDS Naturals

CONSTANTS NSegs

Segs == 1..NSegs

\* What a source's bytes can be: the file's, or the zeroed buffer.
Bytes == {"src", "zero"}

VARIABLES
    handed,     \* handed[i]: the bytes handed to the saver for segment i
    written,    \* written[i]: the bytes the saver wrote for segment i
    done        \* the file is closed and the callback has run

vars == <<handed, written, done>>

Init ==
    /\ handed = [i \in Segs |-> "none"]
    /\ written = [i \in Segs |-> "none"]
    /\ done = FALSE

\* A segment not handed yet reaches the saver.
Hand(i) ==
    /\ handed[i] = "none"
    /\ \E b \in Bytes : handed' = [handed EXCEPT ![i] = b]
    /\ UNCHANGED <<written, done>>

\* The saver writes a handed segment once, with the bytes it was handed.
Write(i) ==
    /\ handed[i] # "none"
    /\ written[i] = "none"
    /\ written' = [written EXCEPT ![i] = handed[i]]
    /\ UNCHANGED <<handed, done>>

\* The saver closes the file after the last segment.
Finish ==
    /\ ~done
    /\ \A i \in Segs : written[i] # "none"
    /\ done' = TRUE
    /\ UNCHANGED <<handed, written>>

Next == (\E i \in Segs : Hand(i) \/ Write(i)) \/ Finish

Spec == Init /\ [][Next]_vars
            /\ WF_vars(\E i \in Segs : Write(i)) /\ WF_vars(Finish)

=============================================================================
