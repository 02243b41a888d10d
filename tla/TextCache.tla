----------------------------- MODULE TextCache ------------------------------
(***************************************************************************)
(* The reusable caches of tokens and embeddings (ldaca-rs/src/cache.rs and *)
(* file_lock.rs): DuckDB files that several threads of several processes   *)
(* read, fill, rebuild and clear.                                          *)
(*                                                                         *)
(* A lookup holds a shared lease from its fetch to the end of what it      *)
(* stores, and the file's lock only around each use of the database, so    *)
(* that misses are computed in parallel.  Clearing takes the lease alone   *)
(* or gives up.  A process may be killed between any two steps; the        *)
(* operating system then releases its locks.                               *)
(***************************************************************************)
EXTENDS Naturals

CONSTANTS
  Threads,
  Process,  \* of each thread
  MaxCalls  \* bound: lookups and clears

TextCacheAssumption == MaxCalls \in Nat

VARIABLES
  db,    \* the file: none, current, or old (another schema, or unreadable)
  full,  \* it holds the value that is looked up, its log aside
  wal,   \* its log: none, its own, or one left by a file that is gone
  job,   \* what each thread is about
  at,    \* and where it stands
  calls

disk == <<db, full, wal>>
vars == <<disk, job, at, calls>>

Call == calls < MaxCalls /\ calls' = calls + 1

Looking(t) == job[t] \in {"fetch", "persist"}
LocalRead(t) == Looking(t) /\ at[t] # "local"
LocalWrite(t) == job[t] = "clear"
Shared(t) == LocalRead(t) /\ at[t] # "shared"
Exclusive(t) == job[t] = "clear" /\ at[t] # "try"
FileLock(t) == at[t] \in {"open", "replace", "use", "log", "remove"}
Operation(t) == at[t] = "file" \/ FileLock(t)

Near(t) == {u \in Threads \ {t} : Process[u] = Process[t]}
Far(t) == {u \in Threads : Process[u] # Process[t]}

Move(t, place) == at' = [at EXCEPT ![t] = place]
Return(t) == at' = [at EXCEPT ![t] = "idle"] /\ job' = [job EXCEPT ![t] = "none"]

(* --------------------------------- locks -------------------------------- *)

get_or_insert(t) ==
  /\ job[t] = "none" /\ job' = [job EXCEPT ![t] = "fetch"] /\ Move(t, "local")
  /\ Call /\ UNCHANGED disk

with_cache_lease(t) ==
  /\ \/ at[t] = "local" /\ ~(\E u \in Near(t) : LocalWrite(u)) /\ Move(t, "shared")
     \/ at[t] = "shared" /\ ~(\E u \in Far(t) : Exclusive(u)) /\ Move(t, "mutex")
  /\ UNCHANGED <<disk, job, calls>>

with_file_lock(t) ==
  /\ \/ at[t] = "mutex" /\ ~(\E u \in Near(t) : Operation(u)) /\ Move(t, "file")
     \/ /\ at[t] = "file" /\ ~(\E u \in Far(t) : FileLock(u))
        /\ Move(t, IF job[t] = "clear" THEN "log" ELSE "open")
  /\ UNCHANGED <<disk, job, calls>>

\* The first lock that is taken ends the attempt.
clear(t) ==
  /\ job[t] = "none" /\ ~(\E u \in Near(t) : LocalRead(u) \/ LocalWrite(u))
  /\ job' = [job EXCEPT ![t] = "clear"] /\ Move(t, "try") /\ Call /\ UNCHANGED disk
Bug_try_cache_maintenance(t) ==
  /\ at[t] = "try" /\ Move(t, "mutex") /\ UNCHANGED <<disk, job, calls>>
try_cache_maintenance(t) ==
  /\ at[t] = "try"
  /\ IF \E u \in Far(t) : Shared(u) \/ Exclusive(u) THEN Return(t) ELSE Move(t, "mutex") /\ UNCHANGED job
  /\ UNCHANGED <<disk, calls>>

(* ------------------------------- the files ------------------------------ *)

\* A log that its file has lost would be replayed into another one.
Orphaned(log) == IF log = "own" THEN "stale" ELSE log

\* cache_schema_is_current; a file that cannot be opened is not.
open_cache(t) ==
  /\ at[t] = "open"
  /\ \/ db = "current" /\ Move(t, "use") /\ UNCHANGED wal
     \/ Move(t, "replace") /\ wal' = "none"
  /\ UNCHANGED <<db, full, job, calls>>

\* A replacement has been prepared beside the file and takes its place.
rebuild_cache(t) ==
  /\ at[t] = "replace" /\ Move(t, "use")
  /\ db' = "current" /\ full' = FALSE /\ wal' = Orphaned(wal)
  /\ UNCHANGED <<job, calls>>

\* The database has replayed its log, and writes it back as it closes.  A miss
\* is computed without the file's lock.
Seen == full \/ wal # "none"
Close == full' = Seen /\ wal' = "none"
fetch_cached(t) ==
  /\ at[t] = "use" /\ job[t] = "fetch" /\ Close
  /\ IF Seen THEN Return(t) ELSE Move(t, "compute") /\ UNCHANGED job
  /\ UNCHANGED <<db, calls>>
compute_misses(t) ==
  /\ at[t] = "compute" /\ Move(t, "mutex") /\ job' = [job EXCEPT ![t] = "persist"]
  /\ UNCHANGED <<disk, calls>>

\* persist_new commits to the log.
persist_new(t) ==
  /\ at[t] = "use" /\ job[t] = "persist"
  /\ \/ wal = "none" /\ wal' = "own" /\ UNCHANGED <<full, job, at>>
     \/ wal # "none" /\ Close /\ Return(t)
  /\ UNCHANGED <<db, calls>>

\* Clearing removes the log before the file.
RemoveLog(t) ==
  /\ at[t] = "log" /\ wal' = "none" /\ Move(t, "remove") /\ UNCHANGED <<db, full, job, calls>>
RemoveFile(t) ==
  /\ at[t] = "remove" /\ Return(t)
  /\ db' = "none" /\ full' = FALSE /\ wal' = Orphaned(wal)
  /\ UNCHANGED calls

\* A step or a computation fails.
Fails(t) ==
  /\ FileLock(t) \/ at[t] = "compute"
  /\ Return(t) /\ UNCHANGED <<disk, calls>>

\* A process is killed.
Kill(p) ==
  /\ at' = [t \in Threads |-> IF Process[t] = p THEN "idle" ELSE at[t]]
  /\ job' = [t \in Threads |-> IF Process[t] = p THEN "none" ELSE job[t]]
  /\ UNCHANGED <<disk, calls>>

Init ==
  /\ db \in {"none", "current", "old"} /\ full = (db = "current") /\ wal = "none"
  /\ job = [t \in Threads |-> "none"] /\ at = [t \in Threads |-> "idle"] /\ calls = 0

Step(t) ==
  \/ with_cache_lease(t) \/ with_file_lock(t) \/ try_cache_maintenance(t)
  \/ open_cache(t) \/ rebuild_cache(t) \/ fetch_cached(t) \/ compute_misses(t) \/ persist_new(t)
  \/ RemoveLog(t) \/ RemoveFile(t)
Next ==
  \/ \E t \in Threads : get_or_insert(t) \/ clear(t) \/ Step(t) \/ Fails(t)
  \/ \E p \in {Process[t] : t \in Threads} : Kill(p)

Spec == Init /\ [][Next]_vars

(* ------------------------------ properties ------------------------------ *)

TypeOK ==
  /\ db \in {"none", "current", "old"} /\ full \in BOOLEAN /\ wal \in {"none", "own", "stale"}
  /\ job \in [Threads -> {"none", "fetch", "persist", "clear"}] /\ calls \in 0..MaxCalls
  /\ at \in [Threads -> {"idle", "local", "shared", "mutex", "file", "open", "replace", "use",
                          "compute", "try", "log", "remove"}]
  /\ \A t \in Threads : job[t] = "none" <=> at[t] = "idle"

\* Whenever a process is killed, no log is left beside a file that is not its
\* own, or without one (rebuild_cache, clear).
LogIsOwn == wal # "stale" /\ (wal = "own" => db # "none")

\* One thread of all processes uses the files at a time, and a clear that has
\* its lease finds nobody there: it never waits (application-storage.md:
\* "Clear takes a nonblocking exclusive lease").
FilesExclusive ==
  \A t, u \in Threads :
    t # u /\ (FileLock(t) \/ Exclusive(t)) => ~FileLock(u)

\* What they rest on.  Where a thread stands fits what it is about.  In a process
\* one operation has the mutex, and one clear or any lookups its lease; between
\* processes one operation has the file's lock, and one clear or any lookups its
\* shared lease.
PlacesFit ==
  \A t \in Threads :
    /\ at[t] \in {"local", "shared", "compute"} => job[t] = "fetch"
    /\ at[t] \in {"open", "replace", "use"} => Looking(t)
    /\ at[t] \in {"try", "log", "remove"} => job[t] = "clear"
LocksHeld ==
  \A t \in Threads :
    /\ \A u \in Near(t) : (Operation(t) => ~Operation(u)) /\ (LocalWrite(t) => ~LocalRead(u) /\ ~LocalWrite(u))
    /\ \A u \in Far(t) : (FileLock(t) => ~FileLock(u)) /\ (Exclusive(t) => ~Shared(u) /\ ~Exclusive(u))

\* Who uses the file finds it current, and who replaces or removes it has seen
\* its log gone.
FilesFit ==
  /\ wal = "own" => db = "current"
  /\ \A t \in Threads : (at[t] = "use" => db = "current") /\ (at[t] \in {"replace", "remove"} => wal = "none")

\* Inductive.
TextCacheInv == TypeOK /\ PlacesFit /\ LocksHeld /\ FilesFit /\ LogIsOwn /\ FilesExclusive

\* No cache is removed while a lookup is between its fetch and what it stores
\* (file_lock.rs: "Maintenance cannot remove a cache while an unlocked miss
\* computation still intends to write it.").
LeasedStays == [][db # "none" /\ db' = "none" => \A t \in Threads : ~Shared(t)]_vars

\* No locks wait for one another: while a lookup or a clear is under way some
\* thread of some process can go on (file_lock.rs: the lease is always taken
\* before the operation lock, and a clear does not wait for it).
NobodyStuck == (\E t \in Threads : job[t] # "none") => \E t \in Threads : ENABLED Step(t)
=============================================================================
