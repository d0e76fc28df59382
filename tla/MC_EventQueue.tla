---------------------------- MODULE MC_EventQueue ----------------------------
(* Five events, in every split into observer batches.  Three already let *)
(* one add find the queue empty, one link behind a queued event and one   *)
(* race a reader that has just taken the list; five let that happen again *)
(* after a batch has been sent and freed.                                 *)
EXTENDS EventQueue

MCNEvents == 5
=============================================================================
