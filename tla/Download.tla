------------------------------ MODULE Download ------------------------------
(***************************************************************************)
(* One download of one file (src/upload_download/download.c) against the   *)
(* upload servers of its sources (upload.c).                               *)
(*                                                                         *)
(* Download side: the peer threads that share the segment array and the   *)
(* socket array, and the file_saver thread that writes the segments they   *)
(* queue.  download() connects one socket per slot (peer x stream) and     *)
(* starts one peer_thread right after writing each slot, so a thread may   *)
(* run while later slots still hold calloc's 0 (fd 0).                     *)
(*                                                                         *)
(* Upload side: each accepted connection gets a send_file thread, and all  *)
(* the send_file threads of one source process share its fileMutex.  The   *)
(* source's copy of the file may be truncated or deleted by its user while *)
(* it is served, and the source process may exit.                          *)
(*                                                                         *)
(* A segment's bytes are "src" when they came from the source's file and   *)
(* "zero" when a zeroed buffer was sent or queued in their place.          *)
(***************************************************************************)
EXTENDS Integers, Sequences, FiniteSets

CONSTANTS
    NSlots,      \* numPeers * stream_num: sockets, and peer threads
    NSegs,       \* segNum = ceil(size / data_len)
    Src,         \* Src[k]: the source peer slot k connects to
    Faults       \* what may go wrong: "refuse" (a connect fails), "close"
                 \* (a source exits), "truncate" and "delete" (a source's
                 \* user shortens or removes its copy of the file)

Slots == 1..NSlots
Segs  == 1..NSegs
Sources == {Src[k] : k \in Slots}

VARIABLES
    conn,        \* conn[k]: peer_connect's result for slot k: "none" (not yet
                 \* called), "ok" or "refused"
    peers,       \* seqInfos->peers: 1 a socket, 0 calloc's fd 0, -1 taken or
                 \* refused; peers[1] counts exits below -1
    sock,        \* sock[t]: the slot whose socket thread t copied, or
                 \* NoSocket (an fd that is no connected socket)
    tpc,         \* tpc[t]: "idle" (not created), "claim", "scan", "xfer",
                 \* "recv", "exit", "done"
    pos,         \* pos[t]: curSeg of the for loop; NSegs+1 = back at the while
    status,      \* status[i]: seqInfos->arr[i]->status
    numReceived, \* seqInfos->numReceived
    queue,       \* handlingInfo->head: queued segments [seg, bytes], head first
    saved,       \* saved[i]: the bytes file_saver wrote for segment i
    nWritten,    \* file_saver's n_written
    saverDone,   \* file_saver closed the file and ran the callback
    freed,       \* the last peer thread freed seqInfos
    req,         \* req[k]: what slot k's socket carries to the source, in order:
                 \* segment requests and the termination message Term
    resp,        \* resp[k]: the segment buffers the source sent back on it
    shut,        \* shut[k]: the downloading thread closed slot k's socket
    upc,         \* upc[k]: slot k's send_file thread: "none" (no connection),
                 \* "read", "lock" (a request read), "closed", "wedged"
    fileMutex,   \* fileMutex[p]: the slot whose send_file holds p's mutex
    alive,       \* alive[p]: source p's process runs
    copy         \* copy[p]: p's copy of the file: "whole", "short", "gone"

\* Values of sock that are no slot: never assigned, and an fd that is no
\* connected socket (fd 0 copied from the calloc'd array, or whatever an
\* uninitialised sock holds: 0 on a new thread's zeroed stack, or an fd an
\* earlier thread left in a reused one; never -1, which peer_thread only
\* ever stores into the array).
Unset    == -2
NoSocket == NSlots + 1

\* fileMutex unlocked.
Free == 0

\* The termination message: a SequenceInfo with initSeg -1.
Term == -1

dlVars == <<conn, peers, sock, tpc, pos, status, numReceived, queue, saved,
            nWritten, saverDone, freed>>
upVars == <<req, resp, shut, upc, fileMutex, alive, copy>>
vars == <<dlVars, upVars>>

\* Mutant: n_expected computed with a floor where segNum takes the ceiling.
NExpectedUnder == NSegs - 1

\* Mutant: n_expected one more than segNum.
NExpectedOver == NSegs + 1

\* file_saver's n_expected: the same ceil as download()'s segNum.
NExpected == NSegs

\* Slot k's connection is open at the source: its send_file thread has not
\* closed it (a thread that exits without close leaves it open) and the
\* source process runs.
Open(k) == upc[k] \in {"read", "lock", "wedged"} /\ alive[Src[k]]

(***************************************************************************)
(* download(): the calloc'd socket array, every segment UNDOWNLOADED, the  *)
(* file_saver started; no slot connected and no peer thread created yet.  *)
(***************************************************************************)
Init ==
    /\ conn = [k \in Slots |-> "none"]
    /\ peers = [k \in Slots |-> 0]
    /\ sock = [t \in Slots |-> Unset]
    /\ tpc = [t \in Slots |-> "idle"]
    /\ pos = [t \in Slots |-> NSegs + 1]
    /\ status = [i \in Segs |-> "UNDOWNLOADED"]
    /\ numReceived = 0
    /\ queue = <<>>
    /\ saved = [i \in Segs |-> "none"]
    /\ nWritten = 0
    /\ saverDone = FALSE
    /\ freed = FALSE
    /\ req = [k \in Slots |-> <<>>]
    /\ resp = [k \in Slots |-> <<>>]
    /\ shut = [k \in Slots |-> FALSE]
    /\ upc = [k \in Slots |-> "none"]
    /\ fileMutex = [p \in Sources |-> Free]
    /\ alive = [p \in Sources |-> TRUE]
    /\ copy = [p \in Sources |-> "whole"]

(***************************************************************************)
(* upload()'s accept loop takes slot k's connection and starts a detached  *)
(* send_file thread on it; a refused connect reaches no server.            *)
(***************************************************************************)
Accept(k, r) == upc' = [upc EXCEPT ![k] = IF r = "ok" THEN "read" ELSE "none"]

(***************************************************************************)
(* download()'s loop, for the next slot k: peer_connect returns the       *)
(* socket, or -1 when the connection is refused (always, once the source   *)
(* has exited); then the k-th peer thread is created.  The source's        *)
(* upload() loop accepts the connection and starts its send_file thread.   *)
(***************************************************************************)
Connect ==
    \E k \in Slots :
        /\ \A j \in 1..(k - 1) : conn[j] # "none"
        /\ conn[k] = "none"
        /\ \E r \in IF ~alive[Src[k]] THEN {"refused"}
                   ELSE IF "refuse" \in Faults THEN {"ok", "refused"}
                   ELSE {"ok"} :
              /\ conn' = [conn EXCEPT ![k] = r]
              /\ peers' = [peers EXCEPT ![k] = IF r = "ok" THEN 1 ELSE -1]
              /\ Accept(k, r)
        /\ tpc' = [tpc EXCEPT ![k] = "claim"]
        /\ UNCHANGED <<sock, pos, status, numReceived, queue, saved, nWritten,
                       saverDone, freed, req, resp, shut, fileMutex, alive, copy>>

(***************************************************************************)
(* peer_thread: take the first slot holding a socket (>= 0) and set it to  *)
(* -1, under seq_lock.  When none is left, sock is never assigned: its     *)
(* value is whatever the stack held, here -1 or an fd that is no socket. *)
(* A slot download() has not reached yet still holds 0, and is taken.    *)
(***************************************************************************)
Claim(t) ==
    LET open == {k \in Slots : peers[k] >= 0}
    IN  /\ tpc[t] = "claim"
        /\ IF open # {}
           THEN LET k == CHOOSE k \in open : \A j \in open : k <= j
                IN  /\ sock' = [sock EXCEPT ![t] = IF peers[k] = 1 THEN k
                                                      ELSE NoSocket]
                    /\ peers' = [peers EXCEPT ![k] = -1]
           ELSE /\ sock' = [sock EXCEPT ![t] = NoSocket]
                /\ UNCHANGED peers
        /\ tpc' = [tpc EXCEPT ![t] = "scan"]
        /\ UNCHANGED <<conn, pos, status, numReceived, queue, saved, nWritten,
                       saverDone, freed>> /\ UNCHANGED upVars

(***************************************************************************)
(* One iteration of peer_thread's loops: at the end of the for loop the    *)
(* while test reads numReceived; otherwise, under seq_lock, skip a segment *)
(* DOWNLOADING or DOWNLOADED, or mark an UNDOWNLOADED one DOWNLOADING and  *)
(* go fetch it.                                                            *)
(***************************************************************************)
\* Mutant: the DOWNLOADED skip dropped, any segment not DOWNLOADING is taken.
ScanRedownload(t) ==
    /\ tpc[t] = "scan"
    /\ IF pos[t] > NSegs
       THEN IF numReceived < NSegs
            THEN /\ pos' = [pos EXCEPT ![t] = 1]
                 /\ UNCHANGED <<tpc, status>>
            ELSE /\ tpc' = [tpc EXCEPT ![t] = "exit"]
                 /\ UNCHANGED <<pos, status>>
       ELSE IF status[pos[t]] # "DOWNLOADING"
            THEN /\ status' = [status EXCEPT ![pos[t]] = "DOWNLOADING"]
                 /\ tpc' = [tpc EXCEPT ![t] = "xfer"]
                 /\ UNCHANGED pos
            ELSE /\ pos' = [pos EXCEPT ![t] = @ + 1]
                 /\ UNCHANGED <<tpc, status>>
    /\ UNCHANGED <<conn, peers, sock, numReceived, queue, saved, nWritten,
                   saverDone, freed>> /\ UNCHANGED upVars

Scan(t) ==
    /\ tpc[t] = "scan"
    /\ IF pos[t] > NSegs
       THEN IF numReceived < NSegs
            THEN /\ pos' = [pos EXCEPT ![t] = 1]
                 /\ UNCHANGED <<tpc, status>>
            ELSE /\ tpc' = [tpc EXCEPT ![t] = "exit"]
                 /\ UNCHANGED <<pos, status>>
       ELSE IF status[pos[t]] = "UNDOWNLOADED"
            THEN /\ status' = [status EXCEPT ![pos[t]] = "DOWNLOADING"]
                 /\ tpc' = [tpc EXCEPT ![t] = "xfer"]
                 /\ UNCHANGED pos
            ELSE /\ pos' = [pos EXCEPT ![t] = @ + 1]
                 /\ UNCHANGED <<tpc, status>>
    /\ UNCHANGED <<conn, peers, sock, numReceived, queue, saved, nWritten,
                   saverDone, freed>> /\ UNCHANGED upVars

\* After a segment: DOWNLOADED and counted, on to the next curSeg.
Received(t) ==
    /\ status' = [status EXCEPT ![pos[t]] = "DOWNLOADED"]
    /\ numReceived' = numReceived + 1
    /\ pos' = [pos EXCEPT ![t] = @ + 1]
    /\ tpc' = [tpc EXCEPT ![t] = "scan"]

\* seg_handler's recv returned its buffer: queue it at the head (insert at
\* the head under queue_mutex) and count the segment.
Fetched(t, bytes) ==
    /\ queue' = <<[seg |-> pos[t], bytes |-> bytes]>> \o queue
    /\ Received(t)

\* Mutant: the segment counted before seg_handler's result is checked.
SegFailedCounted(t) ==
    /\ status' = [status EXCEPT ![pos[t]] = "UNDOWNLOADED"]
    /\ pos' = [pos EXCEPT ![t] = NSegs + 1]
    /\ tpc' = [tpc EXCEPT ![t] = "scan"]
    /\ numReceived' = numReceived + 1
    /\ UNCHANGED queue

\* seg_handler returned -1: status back to UNDOWNLOADED (without seq_lock)
\* and break out of the for loop to the while test.
SegFailed(t) ==
    /\ status' = [status EXCEPT ![pos[t]] = "UNDOWNLOADED"]
    /\ pos' = [pos EXCEPT ![t] = NSegs + 1]
    /\ tpc' = [tpc EXCEPT ![t] = "scan"]
    /\ UNCHANGED <<numReceived, queue>>

(***************************************************************************)
(* seg_handler's two writes, the SequenceInfo and the FileInfo_FS of the   *)
(* claimed segment, with what the socket leads to:                         *)
(*  - sock == -1: the call is skipped and the segment counted as received, *)
(*    nothing queued;                                                      *)
(*  - an fd that is no connected socket: write fails, status back to       *)
(*    UNDOWNLOADED and break to the while test;                            *)
(*  - a connection: the request goes out (into the void once the source   *)
(*    has closed it); on a closed connection a write may also fail (EPIPE, *)
(*    SIGPIPE ignored).                                                    *)
(***************************************************************************)
Transfer(t) ==
    LET k == sock[t] IN
    /\ tpc[t] = "xfer"
    /\ \/ k = NoSocket /\ SegFailed(t) /\ UNCHANGED req
       \/ /\ k \in Slots
          /\ req' = IF Open(k) THEN [req EXCEPT ![k] = Append(@, pos[t])]
                              ELSE req
          /\ tpc' = [tpc EXCEPT ![t] = "recv"]
          /\ UNCHANGED <<pos, status, numReceived, queue>>
       \/ k \in Slots /\ ~Open(k) /\ SegFailed(t) /\ UNCHANGED req
    /\ UNCHANGED <<conn, peers, sock, saved, nWritten, saverDone, freed,
                   resp, shut, upc, fileMutex, alive, copy>>

(***************************************************************************)
(* seg_handler's recv(MSG_WAITALL) of the segment: the source's buffer is  *)
(* queued.  On a connection the source has closed with nothing left to    *)
(* read, recv returns 0 at end of stream, which is not < 0, and the        *)
(* zeroed buffer is queued; or -1 after a reset, and the segment fails.    *)
(* A connection still open with nothing sent back blocks recv.            *)
(***************************************************************************)
Await(t) ==
    LET k == sock[t] IN
    /\ tpc[t] = "recv"
    /\ \/ /\ resp[k] # <<>>
          /\ Fetched(t, Head(resp[k]))
          /\ resp' = [resp EXCEPT ![k] = Tail(@)]
       \/ /\ resp[k] = <<>> /\ ~Open(k)
          /\ Fetched(t, "zero") \/ SegFailed(t)
          /\ UNCHANGED resp
    /\ UNCHANGED <<conn, peers, sock, saved, nWritten, saverDone, freed,
                   req, shut, upc, fileMutex, alive, copy>>

(***************************************************************************)
(* peer_thread's end: the termination message (arr[0] with initSeg -1),    *)
(* close, then under seq_lock peers[0]-- ; the thread that brings it to    *)
(* -(numPeers*stream_num)-1 frees the segment and socket arrays.  The      *)
(* write and close on -1 or on an fd that is no socket change nothing     *)
(* modelled.                                                               *)
(***************************************************************************)
\* The termination message and close(sock) on thread t's connection.
Terminate(t) ==
    IF sock[t] \in Slots
    THEN /\ req' = IF Open(sock[t]) THEN [req EXCEPT ![sock[t]] = Append(@, Term)]
                                    ELSE req
         /\ shut' = [shut EXCEPT ![sock[t]] = TRUE]
    ELSE UNCHANGED <<req, shut>>

ExitNoClose(t) ==
    /\ tpc[t] = "exit"
    /\ IF sock[t] \in Slots
       THEN req' = IF Open(sock[t]) THEN [req EXCEPT ![sock[t]] = Append(@, Term)]
                                   ELSE req
       ELSE UNCHANGED req
    /\ peers' = [peers EXCEPT ![1] = @ - 1]
    /\ freed' = (freed \/ peers'[1] = -NSlots - 1)
    /\ tpc' = [tpc EXCEPT ![t] = "done"]
    /\ UNCHANGED <<conn, sock, pos, status, numReceived, queue, saved, nWritten,
                   saverDone, resp, shut, upc, fileMutex, alive, copy>>

Exit(t) ==
    /\ tpc[t] = "exit"
    /\ Terminate(t)
    /\ peers' = [peers EXCEPT ![1] = @ - 1]
    /\ freed' = (freed \/ peers'[1] = -NSlots - 1)
    /\ tpc' = [tpc EXCEPT ![t] = "done"]
    /\ UNCHANGED <<conn, sock, pos, status, numReceived, queue, saved, nWritten,
                   saverDone, resp, upc, fileMutex, alive, copy>>

(***************************************************************************)
(* file_saver: while n_written < n_expected, spin until the list is        *)
(* non-empty, then fseek/fwrite its head and unlink it.                    *)
(***************************************************************************)
SaverWrite ==
    /\ nWritten < NExpected
    /\ queue # <<>>
    /\ saved' = [saved EXCEPT ![Head(queue).seg] = Head(queue).bytes]
    /\ nWritten' = nWritten + 1
    /\ queue' = Tail(queue)
    /\ UNCHANGED <<conn, peers, sock, tpc, pos, status, numReceived, saverDone, freed>> /\ UNCHANGED upVars

\* file_saver: fclose, utime to the entry's mtime, download_complete_callback.
SaverFinish ==
    /\ nWritten >= NExpected
    /\ ~saverDone
    /\ saverDone' = TRUE
    /\ UNCHANGED <<conn, peers, sock, tpc, pos, status, numReceived, queue, saved,
                   nWritten, freed>> /\ UNCHANGED upVars

(***************************************************************************)
(* send_file's loop head: read the SequenceInfo, then fileinfo_receive's   *)
(* recv(MSG_WAITALL) of a FileInfo_FS.  A request goes on to the file.     *)
(* The termination message carries no FileInfo_FS, so that recv returns    *)
(* only at the close that follows it (0, not < 0); then initSeg == -1      *)
(* breaks the loop and the socket is closed.  (read() returning 0 on an    *)
(* empty socket never happens first: the downloader closes only after its *)
(* termination message.)                                                   *)
(***************************************************************************)
ServeRead(k) ==
    /\ upc[k] = "read"
    /\ alive[Src[k]]
    /\ req[k] # <<>>
    /\ \/ Head(req[k]) \in Segs /\ upc' = [upc EXCEPT ![k] = "lock"]
       \/ Head(req[k]) = Term /\ shut[k] /\ upc' = [upc EXCEPT ![k] = "closed"]
    /\ req' = [req EXCEPT ![k] = Tail(@)]
    /\ UNCHANGED dlVars
    /\ UNCHANGED <<resp, shut, fileMutex, alive, copy>>

(***************************************************************************)
(* send_file, the segment: lock fileMutex, fopen the file.  When fopen     *)
(* fails (the file is gone) the thread calls pthread_exit holding the      *)
(* mutex and leaving the socket open.  Otherwise fread byte by byte until *)
(* EOF (a shortened file leaves the rest of the calloc'd buffer zero),     *)
(* fclose, unlock and write the buffer back.  (The write cannot fail       *)
(* here: the downloader waits for this answer before it can close.)        *)
(***************************************************************************)
ServeSegment(k) ==
    LET p == Src[k] IN
    /\ upc[k] = "lock"
    /\ alive[p]
    /\ fileMutex[p] = Free
    /\ \/ /\ copy[p] = "gone"
          /\ fileMutex' = [fileMutex EXCEPT ![p] = k]
          /\ upc' = [upc EXCEPT ![k] = "wedged"]
          /\ UNCHANGED resp
       \/ /\ copy[p] # "gone"
          /\ \E b \in IF copy[p] = "whole" THEN {"src"} ELSE {"src", "zero"} :
                resp' = [resp EXCEPT ![k] = Append(@, b)]
          /\ upc' = [upc EXCEPT ![k] = "read"]
          /\ UNCHANGED fileMutex
    /\ UNCHANGED dlVars
    /\ UNCHANGED <<req, shut, alive, copy>>

(***************************************************************************)
(* The environment of a source: its process exits (its sockets are closed *)
(* by the kernel and its send_file threads die), or its user shortens or  *)
(* deletes its copy of the file while it is being served.                  *)
(***************************************************************************)
SourceExit(p) ==
    /\ "close" \in Faults
    /\ alive[p]
    /\ alive' = [alive EXCEPT ![p] = FALSE]
    /\ UNCHANGED dlVars
    /\ UNCHANGED <<req, resp, shut, upc, fileMutex, copy>>

SourceTruncate(p) ==
    /\ "truncate" \in Faults
    /\ copy[p] = "whole"
    /\ copy' = [copy EXCEPT ![p] = "short"]
    /\ UNCHANGED dlVars
    /\ UNCHANGED <<req, resp, shut, upc, fileMutex, alive>>

SourceDelete(p) ==
    /\ "delete" \in Faults
    /\ copy[p] # "gone"
    /\ copy' = [copy EXCEPT ![p] = "gone"]
    /\ UNCHANGED dlVars
    /\ UNCHANGED <<req, resp, shut, upc, fileMutex, alive>>

DownloadStep ==
    \/ \E t \in Slots : Claim(t) \/ Scan(t) \/ Transfer(t) \/ Await(t) \/ Exit(t)
    \/ Connect \/ SaverWrite \/ SaverFinish

UploadStep == \E k \in Slots : ServeRead(k) \/ ServeSegment(k)

Next ==
    \/ DownloadStep
    \/ UploadStep
    \/ \E p \in Sources : SourceExit(p) \/ SourceTruncate(p) \/ SourceDelete(p)

(***************************************************************************)
(* Every thread runs when it can.  The peer threads and file_saver are    *)
(* detached pthreads that spin rather than block, except in recv; a        *)
(* send_file thread blocks in read and recv until bytes or a close arrive, *)
(* and on fileMutex, which no thread holds across a step except one that  *)
(* exited holding it.  Awaiting an answer that never comes is never       *)
(* enabled, so fairness does not make it happen.                           *)
(***************************************************************************)
Fairness ==
    /\ \A t \in Slots : /\ WF_vars(Claim(t)) /\ WF_vars(Scan(t))
                        /\ WF_vars(Transfer(t)) /\ WF_vars(Await(t))
                        /\ WF_vars(Exit(t))
    /\ WF_vars(Connect) /\ WF_vars(SaverWrite) /\ WF_vars(SaverFinish)
    /\ \A k \in Slots : WF_vars(ServeRead(k)) /\ WF_vars(ServeSegment(k))

Spec == Init /\ [][Next]_vars /\ Fairness


-----------------------------------------------------------------------------
TypeOK ==
    /\ conn \in [Slots -> {"none", "ok", "refused"}]
    /\ peers \in [Slots -> (-NSlots - 1)..1]
    /\ sock \in [Slots -> Slots \cup {Unset, NoSocket}]
    /\ tpc \in [Slots -> {"idle", "claim", "scan", "xfer", "recv", "exit", "done"}]
    /\ pos \in [Slots -> 1..NSegs+1]
    /\ status \in [Segs -> {"UNDOWNLOADED", "DOWNLOADING", "DOWNLOADED"}]
    /\ numReceived \in 0..NSegs
    /\ saved \in [Segs -> {"none", "src", "zero"}]
    /\ nWritten \in 0..NSegs
    /\ req \in [Slots -> Seq(Segs \cup {Term})]
    /\ resp \in [Slots -> Seq({"src", "zero"})]
    /\ shut \in [Slots -> BOOLEAN]
    /\ upc \in [Slots -> {"none", "read", "lock", "closed", "wedged"}]
    /\ fileMutex \in [Sources -> Slots \cup {Free}]
    /\ alive \in [Sources -> BOOLEAN]
    /\ copy \in [Sources -> {"whole", "short", "gone"}]

\* Times segment i has been handed to file_saver: queued or written.
Deliveries(i) ==
    Cardinality({j \in DOMAIN queue : queue[j].seg = i})
        + (IF saved[i] # "none" THEN 1 ELSE 0)

(***************************************************************************)
(* No segment reaches file_saver twice.  file_saver counts segments, not  *)
(* which ones; a duplicate would let it close the file with another       *)
(* segment never written.  It rests on the seq_lock'd claim of a segment  *)
(* and on only its owner setting it back to UNDOWNLOADED.                  *)
(***************************************************************************)
SegmentDeliveredOnce == \A i \in Segs : Deliveries(i) <= 1

HandedBytes(i) ==
    IF saved[i] # "none" THEN saved[i]
    ELSE IF \E j \in DOMAIN queue : queue[j].seg = i
         THEN queue[CHOOSE j \in DOMAIN queue : queue[j].seg = i].bytes
         ELSE "none"

Delivery == INSTANCE SegmentDelivery
                WITH handed <- [i \in Segs |-> HandedBytes(i)],
                     written <- saved, done <- saverDone

(***************************************************************************)
(* The download implements SegmentDelivery: seg_handler hands each segment *)
(* once, file_saver writes what it was handed and closes the file only     *)
(* when every segment is written, and, the threads running when they can,  *)
(* a queued segment is written and a fully written file closed.  It is     *)
(* about file_saver counting n_written against n_expected rather than      *)
(* tracking which segments it wrote.                                       *)
(***************************************************************************)
ImplementsSegmentDelivery == Delivery!Spec

(***************************************************************************)
(* The same when every connection succeeds and every source keeps running *)
(* with its copy of the file in place (a shortened copy still answers):   *)
(* the peer threads, file_saver and the send_file threads, each run when   *)
(* it can, finish.                                                         *)
(***************************************************************************)
CompletesWhenSourcesServe ==
    ((\A k \in Slots : [](conn[k] # "refused"))
        /\ \A p \in Sources : [](alive[p] /\ copy[p] # "gone"))
        => <>saverDone

(***************************************************************************)
(* Every send_file thread a download used ends once its downloading thread *)
(* has exited: the termination message and the close that completes its   *)
(* fileinfo_receive make it leave the loop and close the socket, unless    *)
(* it exited inside the loop or its process did.  It is about the two      *)
(* sides' end-of-download handshake across processes.                     *)
(***************************************************************************)
UploadThreadEnds ==
    \A t, k \in Slots :
        (tpc[t] = "done" /\ sock[t] = k)
            ~> (upc[k] \in {"closed", "wedged"} \/ ~alive[Src[k]])

=============================================================================
