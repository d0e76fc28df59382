------------------------------ MODULE Tracker ------------------------------
(***************************************************************************)
(* The tracker (src/tracker/tracker.c): the accept loop starting one        *)
(* session thread per peer connection, and the session thread's handlers    *)
(* for REGISTER and FILE_UPDATE, all serialised by file_table->lock.        *)
(*                                                                         *)
(* Every handler runs its whole critical section (merge, acknowledgement,  *)
(* broadcast) as one step because the code holds file_table->lock across  *)
(* it; a broadcast appends the new index to the TCP stream of every peer   *)
(* in the peer table.  KEEP_ALIVE only refreshes a timestamp read by the   *)
(* sweeper and is left to the Sweeper module.                              *)
(***************************************************************************)
EXTENDS Naturals, Sequences, SequencesExt, FiniteSets, Protocol

CONSTANTS
    Peers,       \* peer processes
    Paths,       \* filepaths, as sequences of characters
    Sizes,       \* sizes of regular files
    MaxClock,    \* the wall clock (time(NULL)) runs over 0..MaxClock
    Ep           \* Ep[p]: the endpoint [ip, port] the tracker records for p

VARIABLES
    index,       \* the tracker's file_table
    ptable,      \* peers linked into peer_table
    session,     \* session[p]: "none", "running" or "exited" (handshake_thread)
    conn,        \* conn[p]: the peer's TCP connection, "none", "open", "closed"
    up,          \* up[p]: messages in flight from p to the tracker
    down         \* down[p]: messages in flight from the tracker to p

\* ft->numfiles is the number of entries: the FileTable run checks that
\* insert and remove keep it so (TableSurvivesWire).
FT == INSTANCE FileTable WITH table <- index, Times <- 0..MaxClock,
                              Endpoints <- {Ep[q] : q \in Peers},
                              numfiles <- Cardinality(DOMAIN index)


(***************************************************************************)
(* broadcast_table(exclude): one TABLE_UPDATE with the index t to every    *)
(* peer in the peer table but the excluded ones, in the state the caller   *)
(* leaves the index.  A send on a connection the peer has closed is lost.  *)
(***************************************************************************)
BroadcastTo(chans, t, exclude) ==
    [q \in Peers |->
        IF q \in ptable \ exclude /\ conn[q] = "open"
        THEN Append(chans[q], TableMsg(t)) ELSE chans[q]]

(***************************************************************************)
(* start_peer: pthread_create of the session thread.  The peer is linked   *)
(* into the peer table only afterwards (PeerTableAdd), so the session may  *)
(* already handle the peer's REGISTER before it is a broadcast target.     *)
(***************************************************************************)
StartSession(p) ==
    /\ conn[p] = "open"
    /\ session[p] = "none"
    /\ session' = [session EXCEPT ![p] = "running"]
    /\ UNCHANGED <<index, ptable, conn, up, down>>

\* start_peer: peertable_add after the thread is created.
PeerTableAdd(p) ==
    /\ session[p] # "none"
    /\ p \notin ptable
    /\ ptable' = ptable \cup {p}
    /\ UNCHANGED <<index, session, conn, up, down>>

(***************************************************************************)
(* REGISTER: under the index lock, filetable_merge of the scan with the    *)
(* peer's ip and listen_port, send_register_ack to the peer, then           *)
(* broadcast_table(NULL) to every peer in the table.                       *)
(***************************************************************************)
HandleRegister(p) ==
    /\ session[p] = "running"
    /\ up[p] # <<>>
    /\ Head(up[p]).type = "REGISTER"
    /\ LET t2 == FT!Merge(index, Head(up[p]).files, Ep[p])
           acked == [down EXCEPT ![p] = IF conn[p] = "open"
                                        THEN Append(@, AckMsg) ELSE @]
       IN  /\ index' = t2
           /\ down' = BroadcastTo(acked, t2, {})
    /\ up' = [up EXCEPT ![p] = Tail(@)]
    /\ UNCHANGED <<ptable, session, conn>>

(***************************************************************************)
(* Mutant of HandleFileUpdate: the REGISTER handler does not store         *)
(* listen_port, so eventMerge records the peer with the port peer_init     *)
(* left, 0.                                                                *)
(***************************************************************************)
HandleFileUpdateUnsetPort(p) ==
    /\ session[p] = "running"
    /\ up[p] # <<>>
    /\ Head(up[p]).type = "FILE_UPDATE"
    /\ LET t2 == FT!EventMerge(index, Reverse(Head(up[p]).events),
                               [Ep[p] EXCEPT !.port = 0])
       IN  /\ index' = t2
           /\ down' = BroadcastTo(down, t2, {p})
    /\ up' = [up EXCEPT ![p] = Tail(@)]
    /\ UNCHANGED <<ptable, session, conn>>

(***************************************************************************)
(* FILE_UPDATE: fileevent_receive pushes each received event at the head   *)
(* of its list, so filetable_eventMerge applies the batch in the reverse   *)
(* of the order it was sent; then broadcast_table(peer) to all others.     *)
(***************************************************************************)
HandleFileUpdate(p) ==
    /\ session[p] = "running"
    /\ up[p] # <<>>
    /\ Head(up[p]).type = "FILE_UPDATE"
    /\ LET t2 == FT!EventMerge(index, Reverse(Head(up[p]).events), Ep[p])
       IN  /\ index' = t2
           /\ down' = BroadcastTo(down, t2, {p})
    /\ up' = [up EXCEPT ![p] = Tail(@)]
    /\ UNCHANGED <<ptable, session, conn>>

(***************************************************************************)
(* recv_message returns <= 0 once the peer has closed its end and every    *)
(* byte it sent has been read: the session strips the peer from every     *)
(* entry (filetable_removePeerAll) and exits.  The peer stays in the peer  *)
(* table and its socket stays open.                                        *)
(***************************************************************************)
SessionEnd(p) ==
    /\ session[p] = "running"
    /\ conn[p] = "closed"
    /\ up[p] = <<>>
    /\ index' = FT!RemovePeerAll(index, Ep[p])
    /\ session' = [session EXCEPT ![p] = "exited"]
    /\ UNCHANGED <<ptable, conn, up, down>>

TrackerNext ==
    \E p \in Peers :
        \/ StartSession(p)
        \/ PeerTableAdd(p)
        \/ HandleRegister(p)
        \/ HandleFileUpdate(p)
        \/ SessionEnd(p)

=============================================================================
