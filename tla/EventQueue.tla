----------------------------- MODULE EventQueue -----------------------------
(***************************************************************************)
(* The monitor's EventQueue (src/monitor/eventqueue.c) between its two     *)
(* threads: monitor_thread appends each FileEvent with eventqueue_add, and *)
(* read_monitor_thread (src/peer/peer.c) takes the whole list with         *)
(* eventqueue_get_blocking, sends it as one FILE_UPDATE and frees it.      *)
(*                                                                         *)
(* The queue is the linked list itself: head, tail, the next field of each *)
(* FileEvent and the length counter, all guarded by one pthread mutex and  *)
(* one condition variable.  Every statement of the code that reads or     *)
(* writes the shared list is one step, so that the steps of the two        *)
(* threads interleave as the statements do once the lock stops excluding. *)
(* Events are numbered in the order the monitor adds them.                 *)
(***************************************************************************)
EXTENDS Naturals, Sequences, SequencesExt

CONSTANT NEvents   \* FileEvents the monitor thread adds, in order 1..NEvents

Events == 1..NEvents
Nil == 0                    \* NULL
Threads == {"monitor", "reader"}

VARIABLES
    head, tail,   \* q->head, q->tail
    next,         \* next[e]: e->next
    length,       \* q->length
    lock,         \* the thread that last took q->lock, or "free"
    mpc,          \* monitor_thread: where it is in eventqueue_add
    cur,          \* the event it is adding
    reg,          \* the value of q->length it loaded for q->length++
    rpc,          \* read_monitor_thread: where it is in its loop
    evs,          \* the list eventqueue_get_blocking returned (tmp)
    freed,        \* events fileevent_destroy has freed
    reported,     \* events sent in FILE_UPDATEs, in order
    fault         \* "none", or "null" after a NULL pointer dereference

vars == <<head, tail, next, length, lock, mpc, cur, reg, rpc, evs, freed,
          reported, fault>>

(***************************************************************************)
(* The list reachable from e through next, as send_file_update and the    *)
(* reader's clean-up loop walk it.  At most NEvents nodes are followed.    *)
(***************************************************************************)
RECURSIVE WalkN(_, _)
WalkN(e, k) == IF e = Nil \/ k = 0 THEN <<>> ELSE <<e>> \o WalkN(next[e], k - 1)

Walk(e) == WalkN(e, NEvents)

(***************************************************************************)
(* pthread_mutex_unlock by thread t.  q->lock is initialised with NULL     *)
(* attributes (eventqueue.c:19), a glibc PTHREAD_MUTEX_NORMAL mutex, whose *)
(* unlock clears the lock word without checking the owner: the lock is    *)
(* free afterwards whoever held it.                                        *)
(***************************************************************************)
Unlock(t) == lock' = "free"

(***************************************************************************)
(* eventqueue_init callocs the queue; the events come from                 *)
(* fileobserver_get_events as lists, so an event may still link to the     *)
(* next event of its batch when it is added.                               *)
(***************************************************************************)
Init ==
    /\ head = Nil /\ tail = Nil /\ length = 0 /\ lock = "free"
    /\ \E batched \in SUBSET (1..(NEvents - 1)) :
           next = [e \in Events |-> IF e \in batched THEN e + 1 ELSE Nil]
    /\ mpc = "lock" /\ cur = 1 /\ reg = 0
    /\ rpc = "lock" /\ evs = Nil
    /\ freed = {} /\ reported = <<>> /\ fault = "none"

-----------------------------------------------------------------------------
(* eventqueue_add(q, event), one step per statement on shared state.       *)

MVars == <<mpc, cur, reg>>
RVars == <<rpc, evs, freed, reported>>

\* Mutant of AddLock: event->next is left linking to the rest of its batch.
AddLockKeepNext ==
    /\ fault = "none" /\ mpc = "lock" /\ cur \in Events /\ lock = "free"
    /\ lock' = "monitor"
    /\ mpc' = "test"
    /\ UNCHANGED <<head, tail, next, length, cur, reg, fault>> /\ UNCHANGED RVars

\* event->next = NULL; pthread_mutex_lock(&q->lock).
AddLock ==
    /\ fault = "none" /\ mpc = "lock" /\ cur \in Events /\ lock = "free"
    /\ next' = [next EXCEPT ![cur] = Nil]
    /\ lock' = "monitor"
    /\ mpc' = "test"
    /\ UNCHANGED <<head, tail, length, cur, reg, fault>> /\ UNCHANGED RVars

\* if (q->head == NULL)
AddTest ==
    /\ fault = "none" /\ mpc = "test"
    /\ mpc' = IF head = Nil THEN "sethead" ELSE "link"
    /\ UNCHANGED <<head, tail, next, length, lock, cur, reg, fault>> /\ UNCHANGED RVars

\* q->head = event;
AddSetHead ==
    /\ fault = "none" /\ mpc = "sethead"
    /\ head' = cur
    /\ mpc' = "settail"
    /\ UNCHANGED <<tail, next, length, lock, cur, reg, fault>> /\ UNCHANGED RVars

\* q->tail = q->head;  (head is read again)
AddSetTail ==
    /\ fault = "none" /\ mpc = "settail"
    /\ tail' = head
    /\ mpc' = "load"
    /\ UNCHANGED <<head, next, length, lock, cur, reg, fault>> /\ UNCHANGED RVars

\* q->tail->next = event;  (a NULL tail faults)
AddLink ==
    /\ fault = "none" /\ mpc = "link"
    /\ IF tail = Nil
       THEN fault' = "null" /\ UNCHANGED next
       ELSE next' = [next EXCEPT ![tail] = cur] /\ UNCHANGED fault
    /\ mpc' = "advance"
    /\ UNCHANGED <<head, tail, length, lock, cur, reg>> /\ UNCHANGED RVars


\* q->tail = q->tail->next;  (a NULL tail faults)
AddAdvance ==
    /\ fault = "none" /\ mpc = "advance"
    /\ IF tail = Nil
       THEN fault' = "null" /\ UNCHANGED tail
       ELSE tail' = next[tail] /\ UNCHANGED fault
    /\ mpc' = "load"
    /\ UNCHANGED <<head, next, length, lock, cur, reg>> /\ UNCHANGED RVars

\* q->length++ loads the counter ...
AddLoad ==
    /\ fault = "none" /\ mpc = "load"
    /\ reg' = length
    /\ mpc' = "store"
    /\ UNCHANGED <<head, tail, next, length, lock, cur, fault>> /\ UNCHANGED RVars

\* ... and stores it incremented.
AddStore ==
    /\ fault = "none" /\ mpc = "store"
    /\ length' = reg + 1
    /\ mpc' = "signal"
    /\ UNCHANGED <<head, tail, next, lock, cur, reg, fault>> /\ UNCHANGED RVars


\* pthread_cond_signal(&q->len_cv): wakes the reader if it waits.
AddSignal ==
    /\ fault = "none" /\ mpc = "signal"
    /\ rpc' = IF rpc = "wait" THEN "relock" ELSE rpc
    /\ mpc' = "unlock"
    /\ UNCHANGED <<head, tail, next, length, lock, cur, reg, fault, evs, freed, reported>>

(***************************************************************************)
(* pthread_mutex_unlock(&q->lock); monitor_thread then moves to the next   *)
(* event of its list (monitor.c:164).                                      *)
(***************************************************************************)
AddUnlock ==
    /\ fault = "none" /\ mpc = "unlock"
    /\ Unlock("monitor")
    /\ cur' = cur + 1
    /\ mpc' = "lock"
    /\ UNCHANGED <<head, tail, next, length, reg, fault>> /\ UNCHANGED RVars

-----------------------------------------------------------------------------
(* read_monitor_thread: eventqueue_get_blocking, send, clean up.           *)

\* pthread_mutex_lock(&q->lock) at the top of eventqueue_get_blocking.
GetLock ==
    /\ fault = "none" /\ rpc = "lock" /\ lock = "free"
    /\ lock' = "reader"
    /\ rpc' = "check"
    /\ UNCHANGED <<head, tail, next, length, evs, freed, reported, fault>> /\ UNCHANGED MVars

(***************************************************************************)
(* while (q->length == 0) pthread_cond_wait(...): the wait unlocks the     *)
(* mutex as pthread_mutex_unlock does and sleeps until a signal.           *)
(***************************************************************************)
GetCheck ==
    /\ fault = "none" /\ rpc = "check"
    /\ IF length = 0
       THEN rpc' = "wait" /\ Unlock("reader")
       ELSE rpc' = "take" /\ UNCHANGED lock
    /\ UNCHANGED <<head, tail, next, length, evs, freed, reported, fault>> /\ UNCHANGED MVars

\* pthread_cond_wait returns with the mutex taken again.
GetRelock ==
    /\ fault = "none" /\ rpc = "relock" /\ lock = "free"
    /\ lock' = "reader"
    /\ rpc' = "check"
    /\ UNCHANGED <<head, tail, next, length, evs, freed, reported, fault>> /\ UNCHANGED MVars


\* eventqueue_remove_all: tmp = q->head;
RemoveAllTake ==
    /\ fault = "none" /\ rpc = "take"
    /\ evs' = head
    /\ rpc' = "nullhead"
    /\ UNCHANGED <<head, tail, next, length, lock, freed, reported, fault>> /\ UNCHANGED MVars

\* q->head = NULL;
RemoveAllNullHead ==
    /\ fault = "none" /\ rpc = "nullhead"
    /\ head' = Nil
    /\ rpc' = "nulltail"
    /\ UNCHANGED <<tail, next, length, lock, evs, freed, reported, fault>> /\ UNCHANGED MVars

RemoveAllNullTail ==
    /\ fault = "none" /\ rpc = "nulltail"
    /\ tail' = Nil
    /\ rpc' = "zero"
    /\ UNCHANGED <<head, next, length, lock, evs, freed, reported, fault>> /\ UNCHANGED MVars


\* q->length = 0;
RemoveAllZero ==
    /\ fault = "none" /\ rpc = "zero"
    /\ length' = 0
    /\ rpc' = "unlock1"
    /\ UNCHANGED <<head, tail, next, lock, evs, freed, reported, fault>> /\ UNCHANGED MVars

\* eventqueue_remove_all unlocks before it returns ...
RemoveAllUnlock ==
    /\ fault = "none" /\ rpc = "unlock1"
    /\ Unlock("reader")
    /\ rpc' = "unlock2"
    /\ UNCHANGED <<head, tail, next, length, evs, freed, reported, fault>> /\ UNCHANGED MVars

\* ... and eventqueue_get_blocking unlocks again.
GetUnlock ==
    /\ fault = "none" /\ rpc = "unlock2"
    /\ Unlock("reader")
    /\ rpc' = "send"
    /\ UNCHANGED <<head, tail, next, length, evs, freed, reported, fault>> /\ UNCHANGED MVars

\* send_file_update walks the list to count and send the events.
ReadSend ==
    /\ fault = "none" /\ rpc = "send"
    /\ reported' = reported \o Walk(evs)
    /\ rpc' = "destroy"
    /\ UNCHANGED <<head, tail, next, length, lock, evs, freed, fault>> /\ UNCHANGED MVars

\* The clean-up loop walks the list again and frees each event.
ReadDestroy ==
    /\ fault = "none" /\ rpc = "destroy"
    /\ freed' = freed \cup Range(Walk(evs))
    /\ evs' = Nil
    /\ rpc' = "lock"
    /\ UNCHANGED <<head, tail, next, length, lock, reported, fault>> /\ UNCHANGED MVars

-----------------------------------------------------------------------------
MonitorStep ==
    \/ AddLock \/ AddTest \/ AddSetHead \/ AddSetTail \/ AddLink \/ AddAdvance
    \/ AddLoad \/ AddStore \/ AddSignal \/ AddUnlock

ReaderStep ==
    \/ GetLock \/ GetCheck \/ GetRelock \/ RemoveAllTake \/ RemoveAllNullHead
    \/ RemoveAllNullTail \/ RemoveAllZero \/ RemoveAllUnlock \/ GetUnlock
    \/ ReadSend \/ ReadDestroy

\* A NULL dereference ends the process: every step requires fault = "none".
Next == MonitorStep \/ ReaderStep

(***************************************************************************)
(* Both threads are scheduled whenever they can run: a thread blocked on   *)
(* the mutex or in pthread_cond_wait has no enabled step.                  *)
(***************************************************************************)
Spec == Init /\ [][Next]_vars
        /\ WF_vars(MonitorStep)
        /\ WF_vars(ReaderStep)

-----------------------------------------------------------------------------
TypeOK ==
    /\ head \in Events \cup {Nil} /\ tail \in Events \cup {Nil}
    /\ next \in [Events -> Events \cup {Nil}]
    /\ length \in 0..NEvents /\ reg \in 0..NEvents
    /\ lock \in Threads \cup {"free"}
    /\ cur \in 1..(NEvents + 1)
    /\ evs \in Events \cup {Nil}
    /\ freed \subseteq Events
    /\ reported \in Seq(Events) /\ Len(reported) <= NEvents
    /\ fault \in {"none", "null"}

(***************************************************************************)
(* The peer reports its file events in the order the monitor queued them,  *)
(* each once, and neither thread dereferences NULL: the sent events are a  *)
(* prefix of 1..NEvents.  This is what read_monitor_thread relies on when  *)
(* it forwards eventqueue_get_blocking's list as one FILE_UPDATE.          *)
(***************************************************************************)
MonitorEventsReported ==
    /\ fault = "none"
    /\ IsPrefix(reported, [i \in Events |-> i])

=============================================================================
