------------------------------ MODULE MCHosts -------------------------------
(***************************************************************************)
(* What surrounds a project: its file on disk, the containers of the       *)
(* multi-user gateway, the windows of the desktop application, the caches  *)
(* of computed texts, the data library of the web server and the provider  *)
(* connections.  The models share no state, so each behaviour here runs    *)
(* one of them and the others stay in their initial state.                 *)
(*                                                                         *)
(* Two spellings of one file name, another name and an Untitled project,   *)
(* two operations, two changes; two users for one worker and two faults;   *)
(* two documents, two paths, one Save As, Quit beside the updater.  Two    *)
(* threads of one process and one of another use a cache.  A folder in a   *)
(* folder, a file beside and a file within them, and an upload of the same *)
(* file name.  One connection after another, with two keys.                *)
(***************************************************************************)
EXTENDS Naturals, FiniteSets, TLC

CONSTANTS Names, Identity, Private, Theirs, MaxOps, MaxWrites,
          Users, Limit, Gateway, MaxFaults,
          Docs, Paths, Export, Quitters, MaxSaves, None,
          Threads, Process, MaxLookups, MaxBatches, Keys, MaxIds, MaxRequests,
          Parts  \* the components that are checked

VARIABLES
  part, \* the component that runs
  dir, name, current, version, opened, op, pc, staged, original, stranded, up, ops,
  main, round, slot, at, counted, admission, container, termed, ids, failed, orphans,
  late, faults,
  open, path, listed, status, run, file, actions, save, dest, close, gate, quit, outcome,
  q, left, visit, exporting, exited, saves,
  db, full, wal, job, place, calls,
  parent, leaf, turn, uploads, stage, batch, asked, spoilt, batches, mishaps,
  id, metadata, rows, store, session, change, wanted, torn, requests, failures

disk == <<dir, name, current, version, opened, op, pc, staged, original, stranded, up, ops>>
server == <<main, round, slot, at, counted, admission, container, termed, ids, failed,
            orphans, late, faults>>
desktop == <<open, path, listed, status, run, file, actions, save, dest, close, gate, quit,
             outcome, q, left, visit, exporting, exited, saves>>
caches == <<db, full, wal, job, place, calls>>
library == <<parent, leaf, turn, uploads, stage, batch, asked, spoilt, batches, mishaps>>
keys == <<id, metadata, rows, store, session, change, wanted, torn, requests, failures>>
host == <<disk, server, desktop>>
vars == <<part, host, caches, library, keys>>

\* The file system folds case.
MCIdentity == [n \in Names |-> IF n = "Doc" THEN "doc" ELSE n]
Disk == INSTANCE SaveTo
Server == INSTANCE Workers
Desktop == INSTANCE Documents
MCProcess == <<"p", "p", "q">>
Cache == INSTANCE TextCache WITH MaxCalls <- MaxLookups, at <- place
Library == INSTANCE DataLibrary WITH
  Folders <- {"f", "g"}, Files <- {"a", "b"}, Uploads <- {"c"},
  Home <- [i \in {"f", "g", "a", "b"} |-> IF i \in {"g", "b"} THEN "f" ELSE "/"],
  Stem <- [i \in {"f", "g", "a", "b", "c"} |-> IF i \in {"f", "g"} THEN i ELSE "x"],
  Root <- "/", Trash <- "trash", Nowhere <- "nowhere",
  name <- leaf, gate <- turn, torn <- spoilt, faults <- mishaps
Connection == INSTANCE Connections WITH
  MaxCalls <- MaxRequests, file <- metadata, op <- change, calls <- requests, faults <- failures

ASSUME HostsAssumption ==
  Disk!SaveToAssumption /\ Server!WorkersAssumption /\ Desktop!DocumentsAssumption /\
  Cache!TextCacheAssumption /\ Library!DataLibraryAssumption /\ Connection!ConnectionsAssumption

Init ==
  /\ part \in Parts
  /\ Disk!Init /\ Server!Init /\ Desktop!Init /\ Cache!Init /\ Library!Init /\ Connection!Init
  /\ part # "disk" => current = Private
  /\ part # "server" => \A u \in Users : container[u] = "absent"
  /\ part # "caches" => db = "none"

Next ==
  /\ UNCHANGED part
  /\ \/ part = "disk" /\ Disk!Next /\ UNCHANGED <<server, desktop, caches, library, keys>>
     \/ part = "server" /\ Server!Next /\ UNCHANGED <<disk, desktop, caches, library, keys>>
     \/ part = "desktop" /\ Desktop!Next /\ UNCHANGED <<disk, server, caches, library, keys>>
     \/ part = "caches" /\ Cache!Next /\ UNCHANGED <<host, library, keys>>
     \/ part = "library" /\ Library!Next /\ UNCHANGED <<host, caches, keys>>
     \/ part = "keys" /\ Connection!Next /\ UNCHANGED <<host, caches, library>>

Spec == Init /\ [][Next]_vars

\* Of the component that runs.  Docker answers and a worker told to terminate
\* does; a backend opens its project or fails, and stops when it is told to;
\* tokio's locks are queues.  Users need neither ask nor answer.
FairSpec ==
  /\ Spec
  /\ \A u \in Users :
       /\ SF_server(part = "server" /\ Server!Admit(u))
       /\ WF_server(part = "server" /\ Server!Step(u))
       /\ WF_server(part = "server" /\ Server!Terminates(u))
  /\ SF_server(part = "server" /\ Server!List)
  /\ WF_server(part = "server" /\ (Server!Kill \/ Server!Wait \/ Server!Drain))
  /\ \A d \in Docs :
       /\ WF_desktop(part = "desktop" /\ Desktop!Step(d))
       /\ SF_desktop(part = "desktop" /\ Desktop!OpenGate(d))
  /\ \A k \in Quitters : SF_desktop(part = "desktop" /\ Desktop!Snapshot(k))
  /\ WF_desktop(part = "desktop" /\ Desktop!Install)

\* Users, documents and their paths are interchangeable.
HostsSymmetry == Permutations(Users) \cup Permutations(Docs) \cup Permutations(Paths)

\* Whatever fails and whenever the process dies, a Save As or Rename leaves the
\* project as last committed complete on the disk, under its own name once the
\* operation is over, and replaces no file of another application but one
\* that a Save As has found and locked (lifecycle.rs).
FilesAreSafe ==
  /\ [](part = "disk" => Disk!SaveToInv)
  /\ Disk!OthersKept

\* Starts, restarts and shutdowns of the gateway keep to the limit, a clean
\* shutdown leaves no worker and starts none any more, but for starts that
\* nobody waited for (workers.rs, main.rs).
WorkersBounded ==
  /\ [](part = "server" => Server!WorkersInv)
  /\ Server!NoneStarted

\* A file has one owner among windows, backends and exports, and an approved
\* Quit leaves no window and no backend (documents.rs, supervisor.rs).
DocumentsOwned ==
  part = "desktop" => Desktop!DocumentsInv

\* Lookups, rebuilds and clears of a cache by several processes keep it whole,
\* and a lookup's cache is not cleared under it (cache.rs, file_lock.rs).
CacheIsKept ==
  /\ [](part = "caches" => Cache!TextCacheInv)
  /\ Cache!LeasedStays

\* Uploads, moves and deletions lose and replace no file, an upload's folder
\* stays where it is, and a move or deletion of several files is carried out or
\* undone (files.rs, routes.rs).
LibraryIsSafe ==
  /\ [](part = "library" => Library!TypeOK /\ Library!NothingOverwritten /\ Library!FolderStays)
  /\ Library!AllOrNothing

\* A change of a connection that fails keeps its key, and no key is left
\* without a connection that remembers it (ai.rs).
KeysFollow ==
  part = "keys" => Connection!ConnectionsInv

\* A worker's start and the gateway's shutdown end, unless a worker could not
\* be told to terminate; on the desktop an open is decided, Quit gets its turn
\* and an approved close ends, whatever dialogs stay unanswered.  Lookups and
\* clears of a cache do not wait for one another's locks (workers.rs, main.rs,
\* documents.rs, supervisor.rs, file_lock.rs).
HostsSettle ==
  /\ Server!StartSettles /\ Server!ShutdownEnds /\ Desktop!LocksSettle
  /\ [](part = "caches" => Cache!NobodyStuck)
=============================================================================
