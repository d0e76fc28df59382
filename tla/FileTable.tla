----------------------------- MODULE FileTable -----------------------------
(***************************************************************************)
(* The tracker's file index (src/filetable/filetable.c) and its merge and  *)
(* diff algebra.  The linked list of TableEntry, kept sorted by filepath,  *)
(* is a function from filepath to entry; the IP list of an entry is the   *)
(* set of endpoints believed to hold the current version, and numpeers is *)
(* the entry's own count of that list, kept by each mutator beside it.    *)
(*                                                                         *)
(* A filepath is a sequence of characters, because filetable_remove        *)
(* selects the entries of a directory with strncmp, a string-prefix test.  *)
(*                                                                         *)
(* The operators take the index as an argument so that the system module  *)
(* can reuse them on the tracker's state; the state machine at the end     *)
(* applies them to one index with inputs from small sets.                  *)
(***************************************************************************)
EXTENDS Naturals, Sequences, SequencesExt, FiniteSets, TLC

CONSTANTS
    Paths,       \* filepaths (sequences of characters) that may appear
    Endpoints,   \* peer endpoints, records [ip, port]
    Times,       \* last_modified values
    Sizes        \* sizes of regular files

FileInfo == [path: Paths, size: Sizes \cup {0}, mtime: Times, isdir: BOOLEAN]

Entry == [size: Sizes \cup {0}, mtime: Times, isdir: BOOLEAN,
          peers: SUBSET Endpoints, numpeers: Nat]

Actions == {"CREATED", "MODIFIED", "DELETED", "DOWNLOAD_COMPLETE"}

FileEvent == [action: Actions, file: FileInfo]

EmptyTable == [p \in {} |-> 0]

\* file->filepath[0] == '.'
IsDotfile(p) == p[1] = "."

\* The entry after the keys in S are unlinked and destroyed.
Without(t, S) == [q \in DOMAIN t \ S |-> t[q]]

(***************************************************************************)
(* filetable_updateMod: overwrite last_modified and size, discard the      *)
(* peer list and reseat it to the reporter.  The directory flag is left   *)
(* as it was.  A missing filepath fails and leaves the table unchanged.   *)
(***************************************************************************)
UpdateMod(t, f, ep) ==
    IF f.path \in DOMAIN t
    THEN [t EXCEPT ![f.path].mtime = f.mtime,
                   ![f.path].size  = f.size,
                   ![f.path].peers = {ep},
                   ![f.path].numpeers = 1]
    ELSE t

\* Mutant of Insert: the new entry's last_modified is left as calloc'd (0).
InsertZeroTime(t, f, ep) ==
    LET g == IF f.isdir THEN [f EXCEPT !.size = 0] ELSE f
    IN  IF IsDotfile(f.path) THEN t
        ELSE IF g.path \in DOMAIN t THEN UpdateMod(t, g, ep)
        ELSE [q \in DOMAIN t \cup {g.path} |->
                IF q = g.path
                THEN [size |-> g.size, mtime |-> 0, isdir |-> g.isdir,
                      peers |-> {ep}, numpeers |-> 1]
                ELSE t[q]]

(***************************************************************************)
(* filetable_insert: dotfiles are ignored, directories get size 0, an     *)
(* existing filepath is delegated to filetable_updateMod, otherwise a new *)
(* entry is linked in with the creator as its only peer.                  *)
(***************************************************************************)
Insert(t, f, ep) ==
    LET g == IF f.isdir THEN [f EXCEPT !.size = 0] ELSE f
    IN  IF IsDotfile(f.path) THEN t
        ELSE IF g.path \in DOMAIN t THEN UpdateMod(t, g, ep)
        ELSE [q \in DOMAIN t \cup {g.path} |->
                IF q = g.path
                THEN [size |-> g.size, mtime |-> g.mtime,
                      isdir |-> g.isdir, peers |-> {ep}, numpeers |-> 1]
                ELSE t[q]]

(***************************************************************************)
(* filetable_remove: a directory entry first removes every entry whose    *)
(* filepath has the directory's filepath as a strict string prefix        *)
(* (strncmp over strlen(dirname) characters), recursively, then itself.   *)
(* Since every entry below a nested directory also has the outer prefix,  *)
(* the recursion removes exactly the entries with that prefix.            *)
(***************************************************************************)
Removed(t, p) ==
    IF p \notin DOMAIN t THEN {}
    ELSE IF t[p].isdir THEN {q \in DOMAIN t : IsPrefix(p, q)}
    ELSE {p}

RemoveFile(t, p) == Without(t, Removed(t, p))

\* Mutant of AddPeer: the size comparison is dropped.
AddPeerAnySize(t, p, ep, size) ==
    IF p \in DOMAIN t /\ \A q \in t[p].peers : q.ip # ep.ip
    THEN [t EXCEPT ![p].peers = @ \cup {ep}, ![p].numpeers = @ + 1]
    ELSE t

\* Mutant of AddPeer: the peer is linked but numpeers is not incremented.
AddPeerUncounted(t, p, ep, size) ==
    IF /\ p \in DOMAIN t
       /\ t[p].size = size
       /\ \A q \in t[p].peers : q.ip # ep.ip
    THEN [t EXCEPT ![p].peers = @ \cup {ep}]
    ELSE t

(***************************************************************************)
(* filetable_addPeer, the DOWNLOAD_COMPLETE handler: nothing happens when  *)
(* the filepath is missing, when the reported size differs from the       *)
(* entry's, or when a peer with the same ip string is already listed (the *)
(* duplicate test compares the ip only, not the port).                    *)
(***************************************************************************)
AddPeer(t, p, ep, size) ==
    IF /\ p \in DOMAIN t
       /\ t[p].size = size
       /\ \A q \in t[p].peers : q.ip # ep.ip
    THEN [t EXCEPT ![p].peers = @ \cup {ep}, ![p].numpeers = @ + 1]
    ELSE t

\* filetable_entryContainsPeer: ip and port both compared.
EntryContainsPeer(e, ep) == ep \in e.peers

\* filetable_removePeerAll: filetable_entryRemovePeer on every entry, which
\* unlinks the endpoint (ip and port compared) and decrements numpeers when
\* it is listed; the entries are kept.
RemovePeerAll(t, ep) ==
    [q \in DOMAIN t |->
        IF ep \in t[q].peers
        THEN [t[q] EXCEPT !.peers = @ \ {ep}, !.numpeers = @ - 1]
        ELSE t[q]]

\* Mutant of DiffEvent: the MODIFIED comparison is reversed.
DiffEventReversed(t, f) ==
    IF f.path \notin DOMAIN t THEN <<[action |-> "CREATED", file |-> f]>>
    ELSE IF t[f.path].mtime > f.mtime THEN <<[action |-> "MODIFIED", file |-> f]>>
    ELSE IF t[f.path].mtime = f.mtime
         THEN <<[action |-> "DOWNLOAD_COMPLETE", file |-> f]>>
    ELSE <<>>

(***************************************************************************)
(* filetable_fileDiff: one event per reported file, CREATED when absent,  *)
(* MODIFIED when the table's copy is strictly older, DOWNLOAD_COMPLETE    *)
(* when equally old, none otherwise.  Each event is pushed at the head of *)
(* the list, so the events come out in the reverse order of the files.    *)
(***************************************************************************)
DiffEvent(t, f) ==
    IF f.path \notin DOMAIN t THEN <<[action |-> "CREATED", file |-> f]>>
    ELSE IF t[f.path].mtime < f.mtime THEN <<[action |-> "MODIFIED", file |-> f]>>
    ELSE IF t[f.path].mtime = f.mtime
         THEN <<[action |-> "DOWNLOAD_COMPLETE", file |-> f]>>
    ELSE <<>>

FileDiff(t, files) ==
    FoldLeft(LAMBDA evs, f : DiffEvent(t, f) \o evs, <<>>, files)

\* One event of filetable_eventMerge, applied with the reporter's endpoint.
ApplyEvent(t, e, ep) ==
    CASE e.action = "MODIFIED"          -> UpdateMod(t, e.file, ep)
      [] e.action = "CREATED"           -> Insert(t, e.file, ep)
      [] e.action = "DELETED"           -> RemoveFile(t, e.file.path)
      [] e.action = "DOWNLOAD_COMPLETE" -> AddPeer(t, e.file.path, ep, e.file.size)

\* filetable_eventMerge: the events in list order.
EventMerge(t, events, ep) ==
    FoldLeft(LAMBDA u, e : ApplyEvent(u, e, ep), t, events)

\* filetable_merge: diff against the table, then apply the diff.
Merge(t, files, ep) == EventMerge(t, FileDiff(t, files), ep)

(***************************************************************************)
(* ft->numfiles, the count filetable_receive trusts: filetable_insert      *)
(* increments it when it links a new entry, each filetable_remove call     *)
(* (the recursive ones for a directory's entries included) decrements it.  *)
(***************************************************************************)
Linked(t, f) == IF ~IsDotfile(f.path) /\ f.path \notin DOMAIN t THEN 1 ELSE 0

\* numfiles after one event of filetable_eventMerge.
CountEvent(n, t, e) ==
    CASE e.action = "CREATED" -> n + Linked(t, e.file)
      [] e.action = "DELETED" -> n - Cardinality(Removed(t, e.file.path))
      [] OTHER                -> n

\* numfiles after filetable_merge.
MergeCount(n, t, files, ep) ==
    LET step(acc, e) == <<ApplyEvent(acc[1], e, ep), CountEvent(acc[2], acc[1], e)>>
    IN  FoldLeft(step, <<t, n>>, FileDiff(t, files))[2]

(***************************************************************************)
(* The table on the wire.  filetable_send writes the FileTable struct, and *)
(* for each entry its TableEntry struct, its FileInfo_FS and its IPs, one  *)
(* send() each, the structs' pointers included.  filetable_receive reads   *)
(* numfiles entries and, for each, numpeers IPs: the counts it reads are   *)
(* the only framing.  A chunk is one send(); the list order is left out,   *)
(* because the received table is keyed by filepath again.                 *)
(***************************************************************************)
InfoOf(t, p) == [path |-> p, size |-> t[p].size, mtime |-> t[p].mtime,
                 isdir |-> t[p].isdir]

Send(t, nf) ==
    LET EntryChunks(p) ==
            <<[kind |-> "entry", n |-> t[p].numpeers],
              [kind |-> "info", file |-> InfoOf(t, p)]>>
            \o SetToSeq({[kind |-> "ip", ep |-> e] : e \in t[p].peers})
        ps == SetToSeq(DOMAIN t)
    IN  <<[kind |-> "table", n |-> nf]>>
        \o FlattenSeq([i \in DOMAIN ps |-> EntryChunks(ps[i])])

\* filetable_receive from chunk i on, k entries still expected: {table}, or
\* {} when a count does not match the chunks sent (a struct read from the
\* bytes of another, a recv that waits for bytes never sent, or bytes left
\* over that the next recv_message takes for a header).
RECURSIVE ReceiveEntries(_, _, _, _)
ReceiveEntries(s, i, k, t) ==
    IF k <= 0 THEN (IF i = Len(s) + 1 THEN {t} ELSE {})
    ELSE IF i + 1 > Len(s) \/ s[i].kind # "entry" \/ s[i + 1].kind # "info"
    THEN {}
    ELSE LET np == s[i].n
             f  == s[i + 1].file
             ips == i + 2 .. i + 1 + np
         IN  IF i + 1 + np > Len(s) \/ \E j \in ips : s[j].kind # "ip" THEN {}
             ELSE ReceiveEntries(s, i + 2 + np, k - 1,
                    (f.path :> [size |-> f.size, mtime |-> f.mtime,
                                isdir |-> f.isdir, numpeers |-> np,
                                peers |-> {s[j].ep : j \in ips}]) @@ t)

Receive(s) ==
    IF s = <<>> \/ s[1].kind # "table" THEN {}
    ELSE ReceiveEntries(s, 2, s[1].n, EmptyTable)


-----------------------------------------------------------------------------
(***************************************************************************)
(* The index as the tracker mutates it: one action per filetable call the *)
(* tracker makes (tracker.c handshake_thread and monitor_thread), with    *)
(* the inputs a peer can send drawn from small sets.                      *)
(***************************************************************************)
VARIABLES
    table,      \* the entries, by filepath
    numfiles    \* ft->numfiles

vars == <<table, numfiles>>

\* What fileinfo_get_by_name can report for a filepath: directories size 0.
InfosOf(p) == {f \in FileInfo : f.path = p /\ (f.isdir => f.size = 0)}

\* A directory scan (monitor_get_current_files): at most one FileInfo per
\* filepath, listed in some order.
ScanSets == FoldSet(LAMBDA p, acc : acc \cup {S \cup {f} : S \in acc, f \in InfosOf(p)},
                    {{}}, Paths)

Scans == {SetToSeq(S) : S \in ScanSets}

Init == table = EmptyTable /\ numfiles = 0

\* REGISTER: filetable_merge of the peer's scan.
DoMerge(files, ep) ==
    /\ table' = Merge(table, files, ep)
    /\ numfiles' = MergeCount(numfiles, table, files, ep)

\* FILE_UPDATE events, one filetable call each.
DoInsert(f, ep) ==
    /\ table' = Insert(table, f, ep)
    /\ numfiles' = numfiles + Linked(table, f)
DoUpdateMod(f, ep)     == table' = UpdateMod(table, f, ep) /\ UNCHANGED numfiles
DoRemove(p) ==
    /\ table' = RemoveFile(table, p)
    /\ numfiles' = numfiles - Cardinality(Removed(table, p))
DoAddPeer(p, ep, size) == table' = AddPeer(table, p, ep, size) /\ UNCHANGED numfiles

\* Session exit or sweep: filetable_removePeerAll.
DoRemovePeerAll(ep) == table' = RemovePeerAll(table, ep) /\ UNCHANGED numfiles

Next ==
    \/ \E files \in Scans, ep \in Endpoints : DoMerge(files, ep)
    \/ \E p \in Paths, ep \in Endpoints : \E f \in InfosOf(p) :
            DoInsert(f, ep) \/ DoUpdateMod(f, ep)
    \/ \E p \in Paths : DoRemove(p)
    \/ \E p \in Paths, ep \in Endpoints, size \in Sizes \cup {0} : DoAddPeer(p, ep, size)
    \/ \E ep \in Endpoints : DoRemovePeerAll(ep)

Spec == Init /\ [][Next]_vars

-----------------------------------------------------------------------------
TypeOK ==
    /\ DOMAIN table \subseteq Paths
    /\ \A p \in DOMAIN table : table[p] \in Entry
    /\ numfiles \in Nat


(***************************************************************************)
(* Spec property 6, round trip: after filetable_merge of a peer's scan     *)
(* (the REGISTER handler), every reported non-dot file is in the index    *)
(* with a last_modified no older than the reported one.  It rests on      *)
(* filetable_fileDiff choosing MODIFIED exactly when the index is older.  *)
(***************************************************************************)
MergeCoversReport ==
    \A files \in Scans, ep \in Endpoints :
        LET t2 == Merge(table, files, ep)
        IN  \A i \in DOMAIN files :
                ~IsDotfile(files[i].path) =>
                    /\ files[i].path \in DOMAIN t2
                    /\ t2[files[i].path].mtime >= files[i].mtime

(***************************************************************************)
(* A registering endpoint not yet listed anywhere is recorded by           *)
(* filetable_merge only as a holder of versions it reported: same size    *)
(* and same last_modified.  Otherwise other peers would download from it  *)
(* a version it does not have.  It rests on the size test of              *)
(* filetable_addPeer and on updateMod/insert copying the reported size.   *)
(***************************************************************************)
MergeRecordsOnlyHeldVersions ==
    \A files \in Scans, ep \in Endpoints :
        (\A p \in DOMAIN table : ep \notin table[p].peers) =>
            LET t2 == Merge(table, files, ep)
            IN  \A p \in DOMAIN t2 :
                    ep \in t2[p].peers =>
                        \E i \in DOMAIN files :
                            /\ files[i].path = p
                            /\ files[i].size = t2[p].size
                            /\ files[i].mtime = t2[p].mtime

(***************************************************************************)
(* The tracker sends the index with filetable_send and the peer reads it   *)
(* back with filetable_receive (REGISTER reply and every broadcast): the   *)
(* peer receives exactly the index sent, every entry with the endpoints it *)
(* lists.  It rests on numfiles and every numpeers matching the list they *)
(* count after any sequence of inserts, removes, merges and peer updates; *)
(* a count off by one misframes the stream, and download() walks numpeers *)
(* IPs of the received entry.                                             *)
(***************************************************************************)
TableSurvivesWire == Receive(Send(table, numfiles)) = {table}

=============================================================================
