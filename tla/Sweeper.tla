------------------------------- MODULE Sweeper -------------------------------
(***************************************************************************)
(* The tracker's liveness machinery (src/tracker/tracker.c, peertable.c)   *)
(* and the peers' keep-alives (src/peer/peer.c heartbeat_thread).          *)
(*                                                                         *)
(* Time is a clock of R ticks per second; time(NULL) is the second.  A     *)
(* session's last_timestamp is kept as its age in whole seconds, capped.   *)
(* Every sleep() is a countdown in ticks that may overrun by up to Slack   *)
(* ticks.  A step that some thread can take at once is taken before the    *)
(* clock moves (NoDueWork): messages are read as they arrive, the          *)
(* sweeper's walk is instantaneous, and only a thread blocked on a lock    *)
(* waits across ticks.  The index is abstracted to the set of peers it     *)
(* lists as holders.                                                       *)
(***************************************************************************)
EXTENDS Integers, Sequences, SequencesExt

CONSTANTS
    Peers,      \* peer processes
    INTERVAL,   \* tracker.h INTERVAL: the keep-alive period sent in REGISTER_ACK
    R,          \* clock ticks per second
    Slack,      \* ticks by which a sleep() may return late
    MaxInbox    \* unread messages kept per session once its thread stops reading

SweepSleep == INTERVAL + 5              \* monitor_thread: sleep(INTERVAL + 5)
Deadline   == INTERVAL + SweepSleep + 2 \* seconds a silent peer may stay listed
AgeCap     == Deadline + 2
Epoch      == AgeCap                    \* age of calloc'd last_timestamp 0
NoPeer     == "none"

VARIABLES
    phase,    \* ticks into the current second
    age,      \* age[p]: time(NULL) - peer->last_timestamp, in seconds, capped
    stage,    \* stage[p]: "off", "reg" (REGISTER sent), "live" (heartbeat
              \* running), "crashed" (host silent), "exited" (exit(1))
    hb,       \* hb[p]: ticks until heartbeat_thread's sleep(interval) returns
    inbox,    \* inbox[p]: messages from p its session has not read
    sess,     \* sess[p]: handshake_thread: "none", "idle" (in recv),
              \* "lockwait", "crit" (holds file_table->lock), "gone"
    pend,     \* pend[p]: the REGISTER or FILE_UPDATE the session is handling
    added,    \* peers start_peer has passed to peertable_add
    ptab,     \* peer_table: the list, head first
    held,     \* peers the index lists as holders
    lock,     \* holder of file_table->lock: a peer or "none" (the sweeper's
              \* removePeerAll section is one step)
    spc,      \* monitor_thread: "sleep", "walk", "lock", "destroy"
    sw,       \* ticks until monitor_thread's sleep returns
    toVisit,  \* the rest of the list the sweeper is walking
    cur,      \* the timed-out peer the sweeper is removing, or NoPeer
    elapsed,  \* seconds since the sweeper read time_now
    seen      \* ghost: the age the sweeper's test saw for cur

vars == <<phase, age, stage, hb, inbox, sess, pend, added, ptab, held, lock,
          spc, sw, toVisit, cur, elapsed, seen>>
peerVars  == <<stage, hb>>
sweepVars == <<spc, sw, toVisit, cur, elapsed, seen>>

\* A sleep of n seconds returns after n * R ticks, or up to Slack later.
SleepFor(n) == {n * R + s : s \in 0..Slack}

Init ==
    /\ phase = 0
    /\ age = [p \in Peers |-> Epoch]
    /\ stage = [p \in Peers |-> "off"]
    /\ hb = [p \in Peers |-> 0]
    /\ inbox = [p \in Peers |-> <<>>]
    /\ sess = [p \in Peers |-> "none"]
    /\ pend = [p \in Peers |-> "none"]
    /\ added = {}
    /\ ptab = <<>>
    /\ held = {}
    /\ lock = "none"
    /\ spc = "sleep"
    /\ sw \in 0..(SweepSleep * R)      \* the sweeper started before any peer
    /\ toVisit = <<>>
    /\ cur = NoPeer
    /\ elapsed = 0
    /\ seen = 0

(***************************************************************************)
(* A peer connects and sends REGISTER; accept_peers and start_peer create  *)
(* the session thread on a calloc'd Peer, whose last_timestamp is 0.       *)
(***************************************************************************)
PeerConnect(p) ==
    /\ stage[p] = "off"
    /\ stage' = [stage EXCEPT ![p] = "reg"]
    /\ inbox' = [inbox EXCEPT ![p] = <<"reg">>]
    /\ sess' = [sess EXCEPT ![p] = "idle"]
    /\ age' = [age EXCEPT ![p] = Epoch]
    /\ UNCHANGED <<phase, hb, pend, added, ptab, held, lock, sweepVars>>

\* start_peer, after pthread_create: peertable_add inserts at the head.
PeerTableAdd(p) ==
    /\ sess[p] # "none"
    /\ p \notin added
    /\ added' = added \cup {p}
    /\ ptab' = <<p>> \o ptab
    /\ UNCHANGED <<phase, age, peerVars, inbox, sess, pend, held, lock, sweepVars>>

(***************************************************************************)
(* handshake_thread: recv_message, then every type updates last_timestamp; *)
(* REGISTER and FILE_UPDATE go on to take file_table->lock.                *)
(***************************************************************************)
Recv(p) ==
    /\ sess[p] = "idle"
    /\ inbox[p] # <<>>
    /\ age' = [age EXCEPT ![p] = 0]
    /\ inbox' = [inbox EXCEPT ![p] = Tail(@)]
    /\ IF Head(inbox[p]) = "ka"
       THEN UNCHANGED <<sess, pend>>
       ELSE /\ sess' = [sess EXCEPT ![p] = "lockwait"]
            /\ pend' = [pend EXCEPT ![p] = Head(inbox[p])]
    /\ UNCHANGED <<phase, peerVars, added, ptab, held, lock, sweepVars>>

Acquire(p) ==
    /\ sess[p] = "lockwait"
    /\ lock = "none"
    /\ lock' = p
    /\ sess' = [sess EXCEPT ![p] = "crit"]
    /\ UNCHANGED <<phase, age, peerVars, inbox, pend, added, ptab, held, sweepVars>>

(***************************************************************************)
(* The rest of the critical section: filetable_merge or eventMerge with    *)
(* the peer as reporter, REGISTER_ACK (the peer then starts its heartbeat  *)
(* thread), broadcast_table, and pthread_mutex_unlock of file_table->lock. *)
(* The unlock reads file_table again: after a reset it is a new mutex,     *)
(* which glibc's unlock leaves unlocked whoever holds it.                  *)
(***************************************************************************)
Release(p) ==
    /\ sess[p] = "crit"
    /\ held' = held \cup {p}
    /\ lock' = "none"
    /\ IF pend[p] = "reg" /\ stage[p] = "reg"
       THEN /\ stage' = [stage EXCEPT ![p] = "live"]
            /\ \E d \in SleepFor(INTERVAL) : hb' = [hb EXCEPT ![p] = d]
       ELSE UNCHANGED peerVars
    /\ sess' = [sess EXCEPT ![p] = "idle"]
    /\ pend' = [pend EXCEPT ![p] = "none"]
    /\ UNCHANGED <<phase, age, inbox, added, ptab, sweepVars>>

\* Mutant: heartbeat_thread sleeping interval + 1 seconds.
HeartbeatLate(p) ==
    /\ stage[p] = "live"
    /\ hb[p] = 0
    /\ IF sess[p] = "gone"
       THEN /\ stage' = [stage EXCEPT ![p] = "exited"]
            /\ UNCHANGED <<hb, inbox>>
       ELSE /\ inbox' = [inbox EXCEPT ![p] =
                           IF Len(@) < MaxInbox THEN Append(@, "ka") ELSE @]
            /\ \E d \in SleepFor(INTERVAL + 1) : hb' = [hb EXCEPT ![p] = d]
            /\ UNCHANGED stage
    /\ UNCHANGED <<phase, age, sess, pend, added, ptab, held, lock, sweepVars>>

(***************************************************************************)
(* heartbeat_thread: after sleep(interval), send_keep_alive; once the     *)
(* tracker has closed the session socket the send fails and the peer      *)
(* calls exit(1).                                                          *)
(***************************************************************************)
Heartbeat(p) ==
    /\ stage[p] = "live"
    /\ hb[p] = 0
    /\ IF sess[p] = "gone"
       THEN /\ stage' = [stage EXCEPT ![p] = "exited"]
            /\ UNCHANGED <<hb, inbox>>
       ELSE /\ inbox' = [inbox EXCEPT ![p] =
                           IF Len(@) < MaxInbox THEN Append(@, "ka") ELSE @]
            /\ \E d \in SleepFor(INTERVAL) : hb' = [hb EXCEPT ![p] = d]
            /\ UNCHANGED stage
    /\ UNCHANGED <<phase, age, sess, pend, added, ptab, held, lock, sweepVars>>

\* read_monitor_thread sends a FILE_UPDATE for a batch of local events.
SendUpdate(p) ==
    /\ stage[p] = "live"
    /\ sess[p] # "gone"
    /\ inbox[p] = <<>>
    /\ inbox' = [inbox EXCEPT ![p] = <<"fu">>]
    /\ UNCHANGED <<phase, age, peerVars, sess, pend, added, ptab, held, lock,
                   sweepVars>>

\* The peer's host stops answering without closing the connection.
Crash(p) ==
    /\ stage[p] \in {"reg", "live"}
    /\ stage' = [stage EXCEPT ![p] = "crashed"]
    /\ UNCHANGED <<phase, age, hb, inbox, sess, pend, added, ptab, held, lock,
                   sweepVars>>

(***************************************************************************)
(* monitor_thread wakes from sleep(INTERVAL + 5), reads time_now and       *)
(* starts at peer_table->head.                                             *)
(***************************************************************************)
Wake ==
    /\ spc = "sleep"
    /\ sw = 0
    /\ spc' = "walk"
    /\ toVisit' = ptab
    /\ elapsed' = 0
    /\ UNCHANGED <<phase, age, peerVars, inbox, sess, pend, added, ptab, held,
                   lock, sw, cur, seen>>

\* Mutant: the timeout test with >= instead of >.
TimedOutAtInterval(p) == age[p] - elapsed >= INTERVAL

\* The next peer of the walk has timed out if difftime(time_now,
\* last_timestamp) > INTERVAL; a timestamp set after time_now gives <= 0.
TimedOut(p) == age[p] - elapsed > INTERVAL

Check ==
    /\ spc = "walk"
    /\ toVisit # <<>>
    /\ toVisit' = Tail(toVisit)
    /\ IF TimedOut(Head(toVisit))
       THEN /\ spc' = "lock"
            /\ cur' = Head(toVisit)
            /\ seen' = age[Head(toVisit)]
       ELSE UNCHANGED <<spc, cur, seen>>
    /\ UNCHANGED <<phase, age, peerVars, inbox, sess, pend, added, ptab, held,
                   lock, sw, elapsed>>

\* Under file_table->lock: filetable_removePeerAll of the timed-out peer.
SweepRemove ==
    /\ spc = "lock"
    /\ lock = "none"
    /\ held' = held \ {cur}
    /\ spc' = "destroy"
    /\ UNCHANGED <<phase, age, peerVars, inbox, sess, pend, added, ptab, lock,
                   sw, toVisit, cur, elapsed, seen>>

(***************************************************************************)
(* peertable_remove, then peer_destroy: pthread_cancel and pthread_join    *)
(* of the session thread, close of its socket (unread messages are lost). *)
(* Cancellation is deferred:                                               *)
(* a session in recv ends there; one waiting for the lock (not a          *)
(* cancellation point) is joined only once it has taken the lock and      *)
(* reached the broadcast's send, so it ends holding file_table->lock, as   *)
(* one already in the critical section does.                               *)
(***************************************************************************)
\* Mutant: the walk stops after the first peer it removes.
DestroyBreak ==
    /\ spc = "destroy"
    /\ sess[cur] # "lockwait"
    /\ ptab' = SelectSeq(ptab, LAMBDA q : q # cur)
    /\ sess' = [sess EXCEPT ![cur] = "gone"]
    /\ inbox' = [inbox EXCEPT ![cur] = <<>>]
    /\ spc' = "walk"
    /\ toVisit' = <<>>
    /\ UNCHANGED <<phase, age, peerVars, pend, added, held, lock, sw,
                   cur, elapsed, seen>>

Destroy ==
    /\ spc = "destroy"
    /\ sess[cur] # "lockwait"
    /\ ptab' = SelectSeq(ptab, LAMBDA q : q # cur)
    /\ sess' = [sess EXCEPT ![cur] = "gone"]
    /\ inbox' = [inbox EXCEPT ![cur] = <<>>]
    /\ spc' = "walk"
    /\ UNCHANGED <<phase, age, peerVars, pend, added, held, lock, sw,
                   toVisit, cur, elapsed, seen>>

(***************************************************************************)
(* End of the walk: if peer_table->head is NULL, filetable_destroy and     *)
(* filetable_init, without the lock: the index and its mutex are new.      *)
(* Then sleep again.                                                       *)
(***************************************************************************)
WalkEnd ==
    /\ spc = "walk"
    /\ toVisit = <<>>
    /\ IF ptab = <<>>
       THEN /\ held' = {}
            /\ lock' = "none"
       ELSE UNCHANGED <<held, lock>>
    /\ spc' = "sleep"
    /\ \E d \in SleepFor(SweepSleep) : sw' = d
    /\ UNCHANGED <<phase, age, peerVars, inbox, sess, pend, added, ptab,
                   toVisit, cur, elapsed, seen>>

\* Nothing can happen at once: every runnable thread is sleeping or blocked.
NoDueWork ==
    /\ \A p \in Peers :
          /\ stage[p] = "live" => hb[p] > 0
          /\ sess[p] = "idle" => inbox[p] = <<>>
          /\ sess[p] = "lockwait" => lock # "none"
          /\ sess[p] # "crit"
          /\ sess[p] # "none" => p \in added
    /\ spc = "sleep" => sw > 0
    /\ spc # "walk"
    /\ spc = "lock" => lock # "none"
    /\ spc = "destroy" => sess[cur] = "lockwait" /\ lock # "none"

\* One clock tick: the sleeps count down; at a new second the age of every
\* running session grows (the others are never read again).
Tick ==
    /\ NoDueWork
    /\ phase' = (phase + 1) % R
    /\ IF phase' = 0
       THEN /\ age' = [p \in Peers |->
                        IF sess[p] \in {"idle", "lockwait", "crit"} /\ age[p] < AgeCap
                        THEN age[p] + 1 ELSE age[p]]
            /\ elapsed' = IF spc = "sleep" \/ elapsed = AgeCap THEN elapsed ELSE elapsed + 1
       ELSE UNCHANGED <<age, elapsed>>
    /\ hb' = [p \in Peers |-> IF stage[p] = "live" /\ hb[p] > 0 THEN hb[p] - 1 ELSE hb[p]]
    /\ sw' = IF spc = "sleep" /\ sw > 0 THEN sw - 1 ELSE sw
    /\ UNCHANGED <<stage, inbox, sess, pend, added, ptab, held, lock, spc,
                   toVisit, cur, seen>>

Next ==
    \/ \E p \in Peers :
          \/ PeerConnect(p) \/ PeerTableAdd(p) \/ Recv(p) \/ Acquire(p)
          \/ Release(p) \/ Heartbeat(p) \/ SendUpdate(p) \/ Crash(p)
    \/ Wake \/ Check \/ SweepRemove \/ Destroy \/ WalkEnd \/ Tick

Spec == Init /\ [][Next]_vars

-----------------------------------------------------------------------------
\* file_table->lock is held by a session thread that was cancelled.
LockOrphaned == lock \in Peers /\ sess[lock] = "gone"

TypeOK ==
    /\ phase \in 0..(R - 1)
    /\ age \in [Peers -> 0..AgeCap]
    /\ stage \in [Peers -> {"off", "reg", "live", "crashed", "exited"}]
    /\ hb \in [Peers -> 0..(INTERVAL * R + Slack)]
    /\ inbox \in [Peers -> Seq({"reg", "ka", "fu"})]
    /\ \A p \in Peers : Len(inbox[p]) <= MaxInbox
    /\ sess \in [Peers -> {"none", "idle", "lockwait", "crit", "gone"}]
    /\ pend \in [Peers -> {"none", "reg", "fu"}]
    /\ added \subseteq Peers
    /\ ptab \in Seq(Peers)
    /\ held \subseteq Peers
    /\ lock \in Peers \cup {"none"}
    /\ spc \in {"sleep", "walk", "lock", "destroy"}
    /\ sw \in 0..(SweepSleep * R + Slack)
    /\ cur \in Peers \cup {NoPeer}
    /\ seen \in 0..AgeCap
    /\ elapsed \in 0..AgeCap


(***************************************************************************)
(* A peer whose heartbeat thread is running is never timed out on a       *)
(* keep-alive it sent: sending every interval seconds keeps               *)
(* difftime(time_now, last_timestamp) <= INTERVAL when the sweeper looks. *)
(* (A timeout on the calloc'd timestamp 0, before the REGISTER is read,   *)
(* is the registration race, left to NoOrphanedLock, as is a session     *)
(* that can no longer read because the lock is orphaned.)                *)
(***************************************************************************)
LiveHeartbeatKept ==
    spc \in {"lock", "destroy"} /\ seen # Epoch /\ ~LockOrphaned => stage[cur] # "live"

(***************************************************************************)
(* A peer that has gone silent leaves the peer table within               *)
(* INTERVAL + (INTERVAL + 5) + 2 seconds of its last message (the sweeper *)
(* wakes every INTERVAL + 5 seconds and drops it once it is INTERVAL      *)
(* old), unless file_table->lock is held by a dead session thread and the *)
(* sweeper waits for it forever.                                          *)
(***************************************************************************)
SweepDeadline ==
    LockOrphaned \/ \A i \in 1..Len(ptab) : age[ptab[i]] \in {Epoch} \cup 0..Deadline

(***************************************************************************)
(* The index lock is never left held by a session the sweeper cancelled:  *)
(* peer_destroy's pthread_cancel must not end a thread inside its         *)
(* critical section, or every later REGISTER, FILE_UPDATE and sweep       *)
(* blocks.                                                                 *)
(***************************************************************************)
NoOrphanedLock == ~LockOrphaned

=============================================================================
