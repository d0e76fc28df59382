------------------------------- MODULE Peer --------------------------------
(***************************************************************************)
(* A peer process (src/peer/peer.c with the monitor of src/monitor/): its  *)
(* watched directory, the inotify queue, the monitor thread filtering      *)
(* notifications through the ignore sets into the event queue, the        *)
(* read_monitor_thread draining that queue into FILE_UPDATEs, the main     *)
(* loop reconciling each TABLE_UPDATE, and the downloads it starts.        *)
(*                                                                         *)
(* File contents are version numbers: a user write at clock c writes       *)
(* version c.  A download is one step that copies a source's bytes; the   *)
(* segment protocol inside it is the Download module's.                   *)
(***************************************************************************)
EXTENDS Naturals, Sequences, SequencesExt, FiniteSets, Protocol

CONSTANTS Peers, Paths, Sizes, MaxClock, Ep,
    Writers,     \* peers whose users edit the watched directory
    Quitters,    \* peers that may be stopped
    Flushed      \* TRUE: the 300 ms sleep before each resume outlasts the
                 \* delivery of the notifications the peer's own writes caused

VARIABLES
    pc,        \* pc[p]: "off", "registering", "running", "exited"
    disk,      \* disk[p]: filepath -> [mtime, size, ver]
    osq,       \* osq[p]: inotify notifications not yet read, [kind, path, by];
               \* by ("user" or "sync") records who caused it and is never read
               \* by the code
    evq,       \* evq[p]: the monitor's event queue of FileEvents
    ignMod,    \* ignMod[p]: the ignore_modify file set
    ignDel,    \* ignDel[p]: the ignore_delete file set
    settle,    \* settle[p]: paths a download thread's callback has yet to resume
    mainWait,  \* mainWait[p]: resumes the main thread sleeps before, [set, path]
    dls,       \* dls[p]: downloads in flight, clones of index entries
    wedged,    \* wedged[p]: an upload thread exited holding fileMutex
    clock,     \* time(NULL)
    conn, up, down

\* What the disk says of a file: fileinfo_get_by_name.
InfoOf(p, x) == [path |-> x, size |-> disk[p][x].size,
                 mtime |-> disk[p][x].mtime, isdir |-> FALSE]

\* monitor_get_current_files: one FileInfo per file on disk.
Scan(p) == SetToSeq({InfoOf(p, x) : x \in DOMAIN disk[p]})

\* The disk of p with x set to the record r.
WriteDisk(p, x, r) == [y \in DOMAIN disk[p] \cup {x} |-> IF y = x THEN r ELSE disk[p][y]]

Live(p) == pc[p] \in {"registering", "running"}

(***************************************************************************)
(* main: monitor_start_watching, initialize_connection, then               *)
(* register_with_tracker sends REGISTER with the scan.                     *)
(***************************************************************************)
Start(p) ==
    /\ pc[p] = "off"
    /\ pc' = [pc EXCEPT ![p] = "registering"]
    /\ conn' = [conn EXCEPT ![p] = "open"]
    /\ up' = [up EXCEPT ![p] = Append(@, RegisterMsg(Scan(p)))]
    /\ UNCHANGED <<disk, osq, evq, ignMod, ignDel, settle, mainWait, dls,
                   wedged, clock, down>>

(***************************************************************************)
(* register_with_tracker: the first message must be REGISTER_ACK, anything *)
(* else ends the process with exit(1).                                     *)
(***************************************************************************)
RecvAck(p) ==
    /\ pc[p] = "registering"
    /\ down[p] # <<>>
    /\ down' = [down EXCEPT ![p] = Tail(@)]
    /\ IF Head(down[p]).type = "REGISTER_ACK"
       THEN /\ pc' = [pc EXCEPT ![p] = "running"]
            /\ UNCHANGED conn
       ELSE /\ pc' = [pc EXCEPT ![p] = "exited"]
            /\ conn' = [conn EXCEPT ![p] = "closed"]
    /\ UNCHANGED <<disk, osq, evq, ignMod, ignDel, settle, mainWait, dls,
                   wedged, clock, up>>

(***************************************************************************)
(* A user writes x (creat/write: IN_CREATE or IN_MODIFY) or unlinks it     *)
(* (IN_DELETE) while the peer runs, each at a later second of the clock;   *)
(* each write is a new version.                                           *)
(***************************************************************************)
UserWrite(p, x, s) ==
    /\ Live(p)
    /\ clock < MaxClock
    /\ clock' = clock + 1
    /\ disk' = [disk EXCEPT ![p] = WriteDisk(p, x, [mtime |-> clock', size |-> s, ver |-> clock'])]
    /\ osq' = [osq EXCEPT ![p] = Append(@, [kind |-> IF x \in DOMAIN disk[p]
                                                    THEN "MODIFIED" ELSE "CREATED",
                                            path |-> x, by |-> "user"])]
    /\ UNCHANGED <<pc, evq, ignMod, ignDel, settle, mainWait, dls, wedged, conn, up, down>>

UserDelete(p, x) ==
    /\ Live(p)
    /\ x \in DOMAIN disk[p]
    /\ clock < MaxClock
    /\ clock' = clock + 1
    /\ disk' = [disk EXCEPT ![p] = [y \in DOMAIN @ \ {x} |-> @[y]]]
    /\ osq' = [osq EXCEPT ![p] = Append(@, [kind |-> "DELETED", path |-> x, by |-> "user"])]
    /\ UNCHANGED <<pc, evq, ignMod, ignDel, settle, mainWait, dls, wedged, conn, up, down>>

(***************************************************************************)
(* inotify_to_fileevent: DELETED gets size 0 and time(NULL); CREATED and   *)
(* MODIFIED stat the file when the notification is read, and are dropped   *)
(* when it no longer exists.                                               *)
(***************************************************************************)
ToEvent(p, n) ==
    IF n.kind = "DELETED"
    THEN <<[action |-> "DELETED", by |-> n.by,
            file |-> [path |-> n.path, size |-> 0, mtime |-> clock, isdir |-> FALSE]]>>
    ELSE IF n.path \in DOMAIN disk[p]
         THEN <<[action |-> n.kind, by |-> n.by, file |-> InfoOf(p, n.path)]>>
         ELSE <<>>

\* Mutant of Ignored: each kind of event is looked up in the other set.
IgnoredSwapped(p, e) ==
    IF e.action = "DELETED" THEN e.file.path \in ignMod[p]
                            ELSE e.file.path \in ignDel[p]

\* monitor_thread: an event on an ignored path is destroyed.
Ignored(p, e) ==
    IF e.action = "DELETED" THEN e.file.path \in ignDel[p]
                            ELSE e.file.path \in ignMod[p]

(***************************************************************************)
(* monitor_thread: one read() of the inotify fd returns every queued       *)
(* notification; fileobserver_get_events pushes each converted event at    *)
(* the head of its list, so the batch is reversed, then filtered through   *)
(* the ignore sets and appended to the event queue.                        *)
(***************************************************************************)
MonitorRead(p) ==
    /\ Live(p)
    /\ osq[p] # <<>>
    /\ LET batch == Reverse(FoldLeft(LAMBDA acc, n : acc \o ToEvent(p, n),
                                     <<>>, osq[p]))
       IN  evq' = [evq EXCEPT ![p] = @ \o SelectSeq(batch, LAMBDA e : ~Ignored(p, e))]
    /\ osq' = [osq EXCEPT ![p] = <<>>]
    /\ UNCHANGED <<pc, disk, ignMod, ignDel, settle, mainWait, dls, wedged, clock, conn, up, down>>

(***************************************************************************)
(* read_monitor_thread (started after registration): take every queued     *)
(* event (monitor_get_events) and send them as one FILE_UPDATE.            *)
(***************************************************************************)
Drain(p) ==
    /\ pc[p] = "running"
    /\ evq[p] # <<>>
    /\ up' = [up EXCEPT ![p] = Append(@, FileUpdateMsg(evq[p]))]
    /\ evq' = [evq EXCEPT ![p] = <<>>]
    /\ UNCHANGED <<pc, disk, osq, ignMod, ignDel, settle, mainWait, dls, wedged, clock, conn, down>>

(***************************************************************************)
(* update_from_filetable with the download_file and delete_file calls it   *)
(* makes, for the TABLE_UPDATE at the head of the stream:                  *)
(*  - a local file missing from the table is unlinked under ignore_delete; *)
(*  - a table entry is fetched when the file is missing locally, or when   *)
(*    the table does not list this peer and the local copy is older or of  *)
(*    another size; download_file skips a path already in ignore_modify,   *)
(*    otherwise adds it there, truncates the file with fopen("w") and      *)
(*    calls init_download, which for size 0 runs the callback at once.     *)
(* The main thread then sleeps before each resume (mainWait).              *)
(***************************************************************************)
Reconcile(p) ==
    LET t     == Head(down[p]).table
        Dels  == {x \in DOMAIN disk[p] : x \notin DOMAIN t}
        Stale(x) == /\ Ep[p] \notin t[x].peers
                    /\ \/ disk[p][x].mtime < t[x].mtime
                       \/ disk[p][x].size # t[x].size
        Gets  == {x \in DOMAIN t : (x \in DOMAIN disk[p] => Stale(x))} \ ignMod[p]
        Empty == {x \in Gets : t[x].size = 0}
        Done(x) == [action |-> "DOWNLOAD_COMPLETE", by |-> "sync",
                    file |-> [path |-> x, size |-> 0, mtime |-> t[x].mtime, isdir |-> FALSE]]
        Note(x) == [kind |-> IF x \in Dels THEN "DELETED"
                             ELSE IF x \in DOMAIN disk[p] THEN "MODIFIED" ELSE "CREATED",
                    path |-> x, by |-> "sync"]
    IN
    /\ pc[p] = "running"
    /\ mainWait[p] = {}
    /\ down[p] # <<>>
    /\ Head(down[p]).type = "TABLE_UPDATE"
    /\ down' = [down EXCEPT ![p] = Tail(@)]
    /\ disk' = [disk EXCEPT ![p] =
                  [y \in (DOMAIN @ \ Dels) \cup Gets |->
                      IF y \in Gets THEN [mtime |-> clock, size |-> 0, ver |-> 0]
                      ELSE @[y]]]
    /\ osq' = [osq EXCEPT ![p] = @ \o SetToSeq({Note(x) : x \in Dels \cup Gets})]
    /\ ignDel' = [ignDel EXCEPT ![p] = @ \cup Dels]
    /\ ignMod' = [ignMod EXCEPT ![p] = @ \cup Gets]
    /\ mainWait' = [mainWait EXCEPT ![p] =
                      {[set |-> "delete", path |-> x] : x \in Dels} \cup
                      {[set |-> "modify", path |-> x] : x \in Empty}]
    /\ up' = [up EXCEPT ![p] = @ \o SetToSeq({FileUpdateMsg(<<Done(x)>>) : x \in Empty})]
    /\ dls' = [dls EXCEPT ![p] = @ \cup
                 {[path |-> x, size |-> t[x].size, mtime |-> t[x].mtime, peers |-> t[x].peers] :
                      x \in Gets \ Empty}]
    /\ UNCHANGED <<pc, evq, settle, wedged, clock, conn>>

(***************************************************************************)
(* nanosleep(WAIT_TIME) before monitor_resume_*: "wait to allow inotify to *)
(* flush first".  Under Flushed the monitor has read every notification    *)
(* on the path before the resume; otherwise the resume may come first.     *)
(***************************************************************************)
FlushedFor(p, x) == Flushed => \A i \in DOMAIN osq[p] : osq[p][i].path # x

\* delete_file / init_download: the main thread wakes and resumes the path.
MainResume(p, w) ==
    /\ Live(p)
    /\ w \in mainWait[p]
    /\ FlushedFor(p, w.path)
    /\ mainWait' = [mainWait EXCEPT ![p] = @ \ {w}]
    /\ IF w.set = "delete"
       THEN /\ ignDel' = [ignDel EXCEPT ![p] = @ \ {w.path}]
            /\ UNCHANGED ignMod
       ELSE /\ ignMod' = [ignMod EXCEPT ![p] = @ \ {w.path}]
            /\ UNCHANGED ignDel
    /\ UNCHANGED <<pc, disk, osq, evq, settle, dls, wedged, clock, conn, up, down>>

(***************************************************************************)
(* A download of d from the source s completes: file_saver rewrites the    *)
(* file with the bytes s serves (its current file cut or zero-padded to    *)
(* the entry's size), sets last_modified to the entry's with utime, and    *)
(* download_complete_callback sends DOWNLOAD_COMPLETE with the entry's     *)
(* FileInfo.  The source's upload server must be up, not wedged, and have  *)
(* the file (send_file's fopen).                                           *)
(***************************************************************************)
DownloadDone(p, d, s) ==
    /\ pc[p] = "running"
    /\ d \in dls[p]
    /\ Ep[s] \in d.peers
    /\ pc[s] = "running"
    /\ ~wedged[s]
    /\ d.path \in DOMAIN disk[s]
    /\ disk' = [disk EXCEPT ![p] = WriteDisk(p, d.path,
                  [mtime |-> d.mtime, size |-> d.size, ver |-> disk[s][d.path].ver])]
    /\ osq' = [osq EXCEPT ![p] = Append(@, [kind |-> "MODIFIED", path |-> d.path, by |-> "sync"])]
    /\ up' = [up EXCEPT ![p] = Append(@, FileUpdateMsg(<<[action |-> "DOWNLOAD_COMPLETE", by |-> "sync",
                  file |-> [path |-> d.path, size |-> d.size, mtime |-> d.mtime,
                            isdir |-> FALSE]]>>))]
    /\ dls' = [dls EXCEPT ![p] = @ \ {d}]
    /\ settle' = [settle EXCEPT ![p] = @ \cup {d.path}]
    /\ UNCHANGED <<pc, evq, ignMod, ignDel, mainWait, wedged, clock, conn, down>>

\* download_complete_callback: after its sleep, monitor_resume_modify.
CallbackResume(p, x) ==
    /\ Live(p)
    /\ x \in settle[p]
    /\ FlushedFor(p, x)
    /\ settle' = [settle EXCEPT ![p] = @ \ {x}]
    /\ ignMod' = [ignMod EXCEPT ![p] = @ \ {x}]
    /\ UNCHANGED <<pc, disk, osq, evq, ignDel, mainWait, dls, wedged, clock, conn, up, down>>

(***************************************************************************)
(* send_file: a segment request for a file the source no longer has makes  *)
(* fopen fail, and the thread calls pthread_exit while holding fileMutex:  *)
(* every later upload of that peer blocks on the mutex.                   *)
(***************************************************************************)
UploadWedge(p, d, s) ==
    /\ pc[p] = "running"
    /\ d \in dls[p]
    /\ Ep[s] \in d.peers
    /\ pc[s] = "running"
    /\ ~wedged[s]
    /\ d.path \notin DOMAIN disk[s]
    /\ wedged' = [wedged EXCEPT ![s] = TRUE]
    /\ UNCHANGED <<pc, disk, osq, evq, ignMod, ignDel, settle, mainWait, dls, clock, conn, up, down>>

\* SIGINT (stop_peer) or a crash: the process ends and its sockets close.
Quit(p) ==
    /\ Live(p)
    /\ pc' = [pc EXCEPT ![p] = "exited"]
    /\ conn' = [conn EXCEPT ![p] = "closed"]
    /\ UNCHANGED <<disk, osq, evq, ignMod, ignDel, settle, mainWait, dls, wedged, clock, up, down>>

PeerNext ==
    \E p \in Peers :
        \/ Start(p)
        \/ RecvAck(p)
        \/ p \in Writers /\ \E x \in Paths, sz \in Sizes : UserWrite(p, x, sz)
        \/ p \in Writers /\ \E x \in Paths : UserDelete(p, x)
        \/ MonitorRead(p)
        \/ Drain(p)
        \/ Reconcile(p)
        \/ \E w \in mainWait[p] : MainResume(p, w)
        \/ \E d \in dls[p], s \in Peers : DownloadDone(p, d, s) \/ UploadWedge(p, d, s)
        \/ \E x \in settle[p] : CallbackResume(p, x)
        \/ p \in Quitters /\ Quit(p)

=============================================================================
