------------------------------- MODULE Sync --------------------------------
(***************************************************************************)
(* The synchronisation system: one tracker and a set of peers connected by *)
(* TCP streams.  The tracker's state and handlers are the Tracker module's, *)
(* each peer's the Peer module's; the two share the streams up[p] (peer to *)
(* tracker) and down[p] (tracker to peer) and the connection states.       *)
(***************************************************************************)
EXTENDS Naturals, Sequences, SequencesExt, FiniteSets, Protocol

CONSTANTS
    Peers, Paths, Sizes, MaxClock, Ep,
    InitDisk,    \* InitDisk[p]: the watched directory when p is started
    Writers,     \* peers whose users edit the watched directory
    Quitters,    \* peers that may be stopped
    Flushed      \* the resume sleeps outlast inotify delivery (Peer module)

ASSUME \A x \in Paths : x[1] # "."

VARIABLES
    index, ptable, session,
    pc, disk, osq, evq, ignMod, ignDel, settle, mainWait, dls, wedged, clock,
    conn, up, down

vars == <<index, ptable, session, pc, disk, osq, evq, ignMod, ignDel,
          settle, mainWait, dls, wedged, clock, conn, up, down>>

T == INSTANCE Tracker
P == INSTANCE Peer

Init ==
    /\ index = T!FT!EmptyTable
    /\ ptable = {}
    /\ session = [p \in Peers |-> "none"]
    /\ pc = [p \in Peers |-> "off"]
    /\ disk = InitDisk
    /\ osq = [p \in Peers |-> <<>>]
    /\ evq = [p \in Peers |-> <<>>]
    /\ ignMod = [p \in Peers |-> {}]
    /\ ignDel = [p \in Peers |-> {}]
    /\ settle = [p \in Peers |-> {}]
    /\ mainWait = [p \in Peers |-> {}]
    /\ dls = [p \in Peers |-> {}]
    /\ wedged = [p \in Peers |-> FALSE]
    /\ clock = 1
    /\ conn = [p \in Peers |-> "none"]
    /\ up = [p \in Peers |-> <<>>]
    /\ down = [p \in Peers |-> <<>>]

trackerVars == <<index, ptable, session>>
peerVars == <<pc, disk, osq, evq, ignMod, ignDel, settle, mainWait, dls, wedged, clock>>

(***************************************************************************)
(* A step is a step of the tracker or of one peer; the streams are shared. *)
(***************************************************************************)
StartSession(p)     == T!StartSession(p)     /\ UNCHANGED peerVars
PeerTableAdd(p)     == T!PeerTableAdd(p)     /\ UNCHANGED peerVars
HandleRegister(p)   == T!HandleRegister(p)   /\ UNCHANGED peerVars
HandleFileUpdate(p) == T!HandleFileUpdate(p) /\ UNCHANGED peerVars
SessionEnd(p)       == T!SessionEnd(p)       /\ UNCHANGED peerVars

Start(p)               == P!Start(p)               /\ UNCHANGED trackerVars
RecvAck(p)             == P!RecvAck(p)             /\ UNCHANGED trackerVars
UserWrite(p, x, sz)    == P!UserWrite(p, x, sz)    /\ UNCHANGED trackerVars
UserDelete(p, x)       == P!UserDelete(p, x)       /\ UNCHANGED trackerVars
MonitorRead(p)         == P!MonitorRead(p)         /\ UNCHANGED trackerVars
Drain(p)               == P!Drain(p)               /\ UNCHANGED trackerVars
Reconcile(p)           == P!Reconcile(p)           /\ UNCHANGED trackerVars
MainResume(p, w)       == P!MainResume(p, w)       /\ UNCHANGED trackerVars
DownloadDone(p, d, s)  == P!DownloadDone(p, d, s)  /\ UNCHANGED trackerVars
UploadWedge(p, d, s)   == P!UploadWedge(p, d, s)   /\ UNCHANGED trackerVars
CallbackResume(p, x)   == P!CallbackResume(p, x)   /\ UNCHANGED trackerVars
Quit(p)                == P!Quit(p)                /\ UNCHANGED trackerVars

Next ==
    \E p \in Peers :
        \/ StartSession(p) \/ PeerTableAdd(p) \/ HandleRegister(p)
        \/ HandleFileUpdate(p) \/ SessionEnd(p)
        \/ Start(p) \/ RecvAck(p) \/ MonitorRead(p) \/ Drain(p) \/ Reconcile(p)
        \/ p \in Writers /\ \E x \in Paths, sz \in Sizes : UserWrite(p, x, sz)
        \/ p \in Writers /\ \E x \in Paths : UserDelete(p, x)
        \/ \E w \in mainWait[p] : MainResume(p, w)
        \/ \E d \in dls[p], s \in Peers : DownloadDone(p, d, s) \/ UploadWedge(p, d, s)
        \/ \E x \in settle[p] : CallbackResume(p, x)
        \/ p \in Quitters /\ Quit(p)

Spec == Init /\ [][Next]_vars

-----------------------------------------------------------------------------
Disk == [mtime: 0..MaxClock, size: Sizes \cup {0}, ver: 0..MaxClock]

TypeOK ==
    /\ \A x \in DOMAIN index : x \in Paths /\ index[x] \in T!FT!Entry
    /\ ptable \subseteq Peers
    /\ session \in [Peers -> {"none", "running", "exited"}]
    /\ pc \in [Peers -> {"off", "registering", "running", "exited"}]
    /\ \A p \in Peers : DOMAIN disk[p] \subseteq Paths
                        /\ \A x \in DOMAIN disk[p] : disk[p][x] \in Disk
    /\ ignMod \in [Peers -> SUBSET Paths]
    /\ ignDel \in [Peers -> SUBSET Paths]
    /\ clock \in 1..MaxClock
    /\ conn \in [Peers -> {"none", "open", "closed"}]

-----------------------------------------------------------------------------
(***************************************************************************)
(* Nothing is in flight: no unread notification or queued event, no       *)
(* message on a stream, no download or pending resume.                    *)
(***************************************************************************)
Quiescent ==
    \A p \in Peers :
        /\ osq[p] = <<>> /\ evq[p] = <<>> /\ up[p] = <<>> /\ down[p] = <<>>
        /\ dls[p] = {} /\ settle[p] = {} /\ mainWait[p] = {}
        /\ conn[p] = "open" => session[p] # "none" /\ p \in ptable
        /\ conn[p] = "closed" => session[p] # "running"

\* The bytes of a file: its version cut or padded to its size.
Content(p, x) == <<disk[p][x].ver, disk[p][x].size>>

(***************************************************************************)
(* Convergence, the purpose of the system: once nothing is in flight,     *)
(* every running peer holds exactly the files of the index, with the same *)
(* contents as every other running peer.                                  *)
(***************************************************************************)
QuiescentConvergence ==
    Quiescent =>
        \A p, q \in {r \in Peers : pc[r] = "running"} :
            /\ DOMAIN disk[p] = DOMAIN index
            /\ \A x \in DOMAIN index : Content(p, x) = Content(q, x)

(***************************************************************************)
(* A file at rest holds bytes a user wrote: the zero-filled placeholder   *)
(* download_file creates with fopen("w") exists only while its download   *)
(* is in flight (the path is in ignore_modify).  send_file pads a read     *)
(* past the end of the source file with the zeros of its calloc'd buffer. *)
(***************************************************************************)
FilesHoldWrittenBytes ==
    \A p \in Peers : \A x \in DOMAIN disk[p] :
        pc[p] = "running" /\ disk[p][x].ver = 0 => x \in ignMod[p]

\* The events of every FILE_UPDATE peer p has sent.
SentEvents(p) ==
    UNION {{m.events[i] : i \in DOMAIN m.events} :
              m \in {up[p][j] : j \in {k \in DOMAIN up[p] : up[p][k].type = "FILE_UPDATE"}}}

(***************************************************************************)
(* Echo suppression (download_file, delete_file, download_complete_       *)
(* callback and monitor_thread): the monitor never forwards to the event  *)
(* queue, nor the drain thread to the tracker, a notification that the    *)
(* peer's own reconciliation or download caused.  The ignore sets must    *)
(* cover each such notification from the write that causes it until the   *)
(* monitor has read it.                                                    *)
(***************************************************************************)
EchoSuppressed ==
    \A p \in Peers :
        \A e \in {evq[p][i] : i \in DOMAIN evq[p]} \cup SentEvents(p) :
            e.action # "DOWNLOAD_COMPLETE" => e.by = "user"

=============================================================================
