---------------------------- MODULE TrackerStream ----------------------------
(***************************************************************************)
(* The peer's TCP connection to the tracker (tracker_conn) after           *)
(* registration, at the granularity of send() and recv() calls.            *)
(*                                                                         *)
(* Three peer threads write to the one socket:                             *)
(*   - heartbeat_thread sends a KEEP_ALIVE header, one send(), taking no    *)
(*     lock (src/peer/peer.c:462-473);                                     *)
(*   - read_monitor_thread sends a FILE_UPDATE for each batch the monitor   *)
(*     hands it, holding comm_lock (peer.c:401-423);                        *)
(*   - download_complete_callback sends a one-event FILE_UPDATE, holding   *)
(*     comm_lock (peer.c:183-210).                                         *)
(* A FILE_UPDATE is 2 + 2n send() calls (segment.c:196-229 and             *)
(* fileevent.c:101-122): the Message header, the FileUpdateBody carrying   *)
(* n_events, then a FileInfo_FS and a FileEvent per event.                 *)
(*                                                                         *)
(* The tracker's session thread (handshake_thread, tracker.c:151-275)      *)
(* reads with recv(MSG_WAITALL) a fixed number of bytes per part, chosen   *)
(* by what it has parsed so far (segment.c:272-310, 232-250,               *)
(* fileevent.c:57-99).  Each send() is taken to land in the stream whole,   *)
(* the most favourable reading of TCP for this code; a part is then read   *)
(* correctly exactly when the next chunk in the stream is the part the     *)
(* parser expects.  When it is not, the bytes of one field are taken for   *)
(* another (a KEEP_ALIVE header read as a FileUpdateBody gives n_events =   *)
(* KEEP_ALIVE = 3), so the model stops the parser in "desync": what        *)
(* follows depends on raw bytes the model does not carry.                  *)
(***************************************************************************)
EXTENDS Naturals, Sequences

CONSTANTS
    NBeats,       \* heartbeats sent in a behaviour
    NBatches,     \* FILE_UPDATEs of read_monitor_thread in a behaviour
    MaxBatch,     \* most events in a monitor batch
    NCompletes    \* download_complete_callback calls in a behaviour

ASSUME NBeats \in Nat /\ NBatches \in Nat /\ MaxBatch \in Nat \ {0}
       /\ NCompletes \in Nat

\* The two threads that send FILE_UPDATEs under comm_lock.
Updaters == {"monitor", "complete"}

\* The chunks one send() puts on the stream: the Message header of a
\* KEEP_ALIVE or FILE_UPDATE, a FileUpdateBody, a FileInfo_FS, a FileEvent.
Chunks == [kind : {"ka_hdr", "fu_hdr", "info", "event"}]
            \cup [kind : {"fu_body"}, n : 1..MaxBatch]

VARIABLES
    stream,    \* bytes sent on tracker_conn and not yet read: a Seq(Chunks)
    comm,      \* holder of comm_lock, or "free"
    upc,       \* [Updaters -> program counter within send_file_update]
    left,      \* [Updaters -> events of the current update still to send]
    done,      \* [Updaters -> FILE_UPDATEs started]
    beats,     \* KEEP_ALIVEs sent
    rpc,       \* what the tracker's parser reads next
    rleft,     \* events of the FILE_UPDATE being parsed still to read
    parsed     \* messages the tracker's switch has dispatched, in order

vars == <<stream, comm, upc, left, done, beats, rpc, rleft, parsed>>

\* How many FILE_UPDATEs each updater sends in a behaviour.
Rounds == [monitor |-> NBatches, complete |-> NCompletes]

\* The sizes of the event lists each updater can hand to send_file_update:
\* monitor_get_events returns a non-empty batch, the callback one event.
BatchSizes(t) == IF t = "monitor" THEN 1..MaxBatch ELSE {1}

Init ==
    /\ stream = <<>>
    /\ comm = "free"
    /\ upc = [t \in Updaters |-> "idle"]
    /\ left = [t \in Updaters |-> 0]
    /\ done = [t \in Updaters |-> 0]
    /\ beats = 0
    /\ rpc = "hdr"
    /\ rleft = 0
    /\ parsed = <<>>

Send(c) == stream' = Append(stream, c)

(*************************** peer: senders ********************************)

\* heartbeat_thread: after sleep(interval), send_keep_alive puts one header
\* on the socket; no lock is taken.
Beat ==
    /\ beats < NBeats
    /\ Send([kind |-> "ka_hdr"])
    /\ beats' = beats + 1
    /\ UNCHANGED <<comm, upc, left, done, rpc, rleft, parsed>>

\* read_monitor_thread or download_complete_callback takes comm_lock with
\* an event list of n events in hand.
UpdateLock(t) ==
    /\ upc[t] = "idle"
    /\ done[t] < Rounds[t]
    /\ comm = "free"
    /\ \E n \in BatchSizes(t) : left' = [left EXCEPT ![t] = n]
    /\ comm' = t
    /\ upc' = [upc EXCEPT ![t] = "hdr"]
    /\ done' = [done EXCEPT ![t] = @ + 1]
    /\ UNCHANGED <<stream, beats, rpc, rleft, parsed>>

\* send_file_update: the FILE_UPDATE header.
SendHeader(t) ==
    /\ upc[t] = "hdr"
    /\ Send([kind |-> "fu_hdr"])
    /\ upc' = [upc EXCEPT ![t] = "body"]
    /\ UNCHANGED <<comm, left, done, beats, rpc, rleft, parsed>>

\* send_file_update: counts the list and sends the body with n_events.
SendBody(t) ==
    /\ upc[t] = "body"
    /\ Send([kind |-> "fu_body", n |-> left[t]])
    /\ upc' = [upc EXCEPT ![t] = "info"]
    /\ UNCHANGED <<comm, left, done, beats, rpc, rleft, parsed>>

\* fileevent_send_all: the FileInfo_FS of the current event.
SendInfo(t) ==
    /\ upc[t] = "info"
    /\ Send([kind |-> "info"])
    /\ upc' = [upc EXCEPT ![t] = "event"]
    /\ UNCHANGED <<comm, left, done, beats, rpc, rleft, parsed>>

\* fileevent_send_all: the FileEvent, then on to event->next.
SendEvent(t) ==
    /\ upc[t] = "event"
    /\ Send([kind |-> "event"])
    /\ left' = [left EXCEPT ![t] = @ - 1]
    /\ upc' = [upc EXCEPT ![t] = IF left[t] = 1 THEN "unlock" ELSE "info"]
    /\ UNCHANGED <<comm, done, beats, rpc, rleft, parsed>>

\* The sender unlocks comm_lock and frees the list it sent.
UpdateUnlock(t) ==
    /\ upc[t] = "unlock"
    /\ comm' = "free"
    /\ upc' = [upc EXCEPT ![t] = "idle"]
    /\ UNCHANGED <<stream, left, done, beats, rpc, rleft, parsed>>

(************************** tracker: the parser ***************************)

\* The tracker reads the next chunk as the part it expects; Read(k) says
\* whether it is one.
Arrived == stream # <<>>
Front == Head(stream)
Read(k) == Front.kind = k

\* recv_message reads sizeof(Message) and switches on the type: a
\* KEEP_ALIVE is dispatched at once, a FILE_UPDATE goes on to its body.
RecvMessage ==
    /\ rpc = "hdr"
    /\ Arrived
    /\ stream' = Tail(stream)
    /\ \/ Read("ka_hdr") /\ parsed' = Append(parsed, "KEEP_ALIVE")
                         /\ rpc' = "hdr"
       \/ Read("fu_hdr") /\ rpc' = "body" /\ UNCHANGED parsed
       \/ ~Read("ka_hdr") /\ ~Read("fu_hdr") /\ rpc' = "desync"
          /\ UNCHANGED parsed
    /\ UNCHANGED <<comm, upc, left, done, beats, rleft>>

\* receive_file_update reads the FileUpdateBody and takes n_events from it.
RecvFileUpdate ==
    /\ rpc = "body"
    /\ Arrived
    /\ stream' = Tail(stream)
    /\ IF Read("fu_body")
         THEN rpc' = "info" /\ rleft' = Front.n
         ELSE rpc' = "desync" /\ UNCHANGED rleft
    /\ UNCHANGED <<comm, upc, left, done, beats, parsed>>

\* fileevent_receive, per event: the FileInfo_FS ...
RecvInfo ==
    /\ rpc = "info"
    /\ Arrived
    /\ stream' = Tail(stream)
    /\ rpc' = IF Read("info") THEN "event" ELSE "desync"
    /\ UNCHANGED <<comm, upc, left, done, beats, rleft, parsed>>

\* ... then the FileEvent; after the last one the switch merges the list.
RecvEvent ==
    /\ rpc = "event"
    /\ Arrived
    /\ stream' = Tail(stream)
    /\ IF Read("event")
         THEN /\ rleft' = rleft - 1
              /\ rpc' = IF rleft = 1 THEN "hdr" ELSE "info"
              /\ parsed' = IF rleft = 1 THEN Append(parsed, "FILE_UPDATE")
                                        ELSE parsed
         ELSE rpc' = "desync" /\ UNCHANGED <<rleft, parsed>>
    /\ UNCHANGED <<comm, upc, left, done, beats>>

PeerStep ==
    \/ Beat
    \/ \E t \in Updaters :
          UpdateLock(t) \/ SendHeader(t) \/ SendBody(t) \/ SendInfo(t)
          \/ SendEvent(t) \/ UpdateUnlock(t)

TrackerStep == RecvMessage \/ RecvFileUpdate \/ RecvInfo \/ RecvEvent

Next == PeerStep \/ TrackerStep

Spec == Init /\ [][Next]_vars

(******************************** properties ******************************)

\* Every recv() of the tracker's session thread starts at the beginning of
\* a part the peer sent and reads the part the parser expects, so every
\* KEEP_ALIVE and FILE_UPDATE the peer's threads send is parsed as sent.
\* It is about heartbeat_thread's send_keep_alive, which takes no lock,
\* against send_file_update's 2 + 2n sends under comm_lock.
TrackerParsesEveryMessage == rpc # "desync"

=============================================================================
