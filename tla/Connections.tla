---------------------------- MODULE Connections -----------------------------
(***************************************************************************)
(* The provider connections of a host that keeps its users' keys           *)
(* (backend/src/ai.rs): their metadata in one file that is replaced as a   *)
(* whole, remembered keys in the operating system's credential store,      *)
(* other keys in memory.  The two stores share no transaction: a change    *)
(* writes the key first and puts the old one back if the file cannot be    *)
(* written.                                                                *)
(*                                                                         *)
(* All requests are serialized by one lock, held by blocking work that no  *)
(* disconnected client can stop.  Each access to a store may fail, and the *)
(* process may end between two of them.                                    *)
(***************************************************************************)
EXTENDS Naturals

CONSTANTS
  Keys, None,
  MaxIds, MaxFaults, MaxCalls \* bounds: connections created one after another, faults, requests

VARIABLES
  id,       \* of the latest connection
  file,     \* how the metadata on disk keep its key, or None without connection
  rows,     \* the same in memory
  store,    \* the credential store
  session,  \* keys in memory
  op,       \* the request that holds the lock
  wanted,   \* how the last request that succeeded has left it: mode and key, as
            \* long as its process lives
  torn,     \* two stores failed in one request, or the process ended within one
  calls, faults

memory == <<rows, session>>
vars == <<id, file, memory, store, op, wanted, torn, calls, faults>>

Ids == 1..MaxIds
Modes == {"none", "session", "remembered"}
Absent == [mode |-> None, key |-> None]
Fault == faults < MaxFaults /\ faults' = faults + 1

\* A request under way, with what it has to put back.
Request == [kind: {"create", "update", "remove"}, old: Modes, new: Modes \cup {None},
            key: Keys \cup {None}, previous: Keys \cup {None},
            at: {"change", "persist", "restore"}]

\* None is neither a key nor a mode nor a request.
ConnectionsAssumption ==
  /\ None \notin Keys \cup Modes \cup Request
  /\ MaxIds \in Nat /\ MaxFaults \in Nat /\ MaxCalls \in Nat

credential(mode) ==
  IF mode = "session" THEN session[id] ELSE IF mode = "remembered" THEN store[id] ELSE None

(* ------------------------------- requests ------------------------------- *)

\* Changes of other metadata leave the key alone; they are not followed here.
\* Every request begins by reading the key it may have to put back.
Begin(kind, mode, key) ==
  /\ op = None /\ calls < MaxCalls /\ calls' = calls + 1
  /\ op' = [kind |-> kind, old |-> rows, new |-> mode, key |-> key, previous |-> credential(rows), at |-> "change"]
create(mode, key) ==
  /\ rows = None /\ id < MaxIds /\ id' = id + 1
  /\ op = None /\ calls < MaxCalls /\ calls' = calls + 1
  /\ op' = [kind |-> "create", old |-> "none", new |-> mode, key |-> key, previous |-> None, at |-> "change"]
  /\ UNCHANGED <<file, memory, store, wanted, torn, faults>>
update(mode, key) ==
  /\ rows # None /\ Begin("update", mode, key)
  /\ UNCHANGED <<id, file, memory, store, wanted, torn, faults>>
remove ==
  /\ rows # None /\ Begin("remove", None, None)
  /\ UNCHANGED <<id, file, memory, store, wanted, torn, faults>>

Put(key) == store' = [store EXCEPT ![id] = key]
Keep(key) == session' = [session EXCEPT ![id] = key]
Fail == op' = None /\ UNCHANGED <<id, file, memory, store, wanted, torn, calls>>

\* change_credential, and its counterpart in remove, which leaves a session key
\* in place until the file is written.
change_credential ==
  /\ op # None /\ op.at = "change"
  /\ op' = [op EXCEPT !.at = "persist"]
  /\ IF op.new = "remembered" THEN Put(op.key)
     ELSE IF op.old = "remembered" THEN Put(None) ELSE UNCHANGED store
  /\ IF op.kind = "remove" THEN UNCHANGED session ELSE Keep(IF op.new = "session" THEN op.key ELSE None)
  /\ UNCHANGED <<id, file, rows, wanted, torn, calls, faults>>
StoreFails ==
  op # None /\ op.at = "change" /\ "remembered" \in {op.old, op.new} /\ Fault /\ Fail

\* A temporary file takes the place of the old one.
persist ==
  /\ op # None /\ op.at = "persist" /\ op' = None
  /\ file' = op.new /\ rows' = op.new
  /\ IF op.kind = "remove" THEN Keep(None) ELSE UNCHANGED session
  /\ wanted' = [mode |-> op.new, key |-> op.key]
  /\ UNCHANGED <<id, store, torn, calls, faults>>
PersistFails ==
  /\ op # None /\ op.at = "persist" /\ Fault /\ op' = [op EXCEPT !.at = "restore"]
  /\ UNCHANGED <<id, file, memory, store, wanted, torn, calls>>

Bug_restore_credential ==
  /\ op # None /\ op.at = "restore" /\ op' = None
  /\ IF op.old = "remembered" THEN Put(op.previous)
     ELSE IF op.new = "remembered" THEN Put(None) ELSE UNCHANGED store
  /\ Keep(None)
  /\ UNCHANGED <<id, file, rows, wanted, torn, calls, faults>>
restore_credential ==
  /\ op # None /\ op.at = "restore" /\ op' = None
  /\ IF op.old = "remembered" THEN Put(op.previous)
     ELSE IF op.new = "remembered" THEN Put(None) ELSE UNCHANGED store
  /\ Keep(IF op.old = "session" THEN op.previous ELSE None)
  /\ UNCHANGED <<id, file, rows, wanted, torn, calls, faults>>
\* The error leaves restore_credential before it looks at the sessions; create
\* has looked at them first.
RestoreFails ==
  /\ op # None /\ op.at = "restore" /\ "remembered" \in {op.old, op.new} /\ Fault /\ op' = None /\ torn' = TRUE
  /\ IF op.kind = "create" THEN Keep(None) ELSE UNCHANGED session
  /\ UNCHANGED <<id, file, rows, store, wanted, calls>>

\* The process ends and takes its session keys along; the next one reads the file.
Exit ==
  /\ Fault /\ op' = None /\ rows' = file /\ session' = [i \in Ids |-> None]
  /\ wanted' = [wanted EXCEPT !.key = IF wanted.mode = "session" THEN None ELSE @]
  /\ torn' = (torn \/ (op # None /\ op.at # "change"))
  /\ UNCHANGED <<id, file, store, calls>>

Init ==
  /\ id = 0 /\ file = None /\ rows = None /\ op = None /\ wanted = Absent /\ torn = FALSE
  /\ store = [i \in Ids |-> None] /\ session = [i \in Ids |-> None] /\ calls = 0 /\ faults = 0

Updates == ({"session", "remembered"} \X Keys) \cup {<<"none", None>>}
Next ==
  \/ \E u \in Updates : create(u[1], u[2]) \/ update(u[1], u[2])
  \/ remove \/ change_credential \/ StoreFails \/ persist \/ PersistFails
  \/ restore_credential \/ RestoreFails \/ Exit

Spec == Init /\ [][Next]_vars

(* ------------------------------ properties ------------------------------ *)

TypeOK ==
  /\ id \in 0..MaxIds /\ file \in Modes \cup {None} /\ rows = file
  /\ store \in [Ids -> Keys \cup {None}] /\ session \in [Ids -> Keys \cup {None}]
  /\ wanted \in [mode: Modes \cup {None}, key: Keys \cup {None}]
  /\ op \in Request \cup {None}
  /\ torn \in BOOLEAN /\ calls \in 0..MaxCalls /\ faults \in 0..MaxFaults

\* Between requests the connection is as the last one that succeeded has left
\* it, and so is its key, in the credential store or in memory: a request that
\* fails changes neither, and only the end of the process takes a session key
\* along (native-analyses.md: "Metadata-write failures restore the preceding
\* credential state where the OS store remains available").
FailureChangesNothing ==
  op = None /\ ~torn =>
    /\ rows = wanted.mode
    /\ id > 0 => credential(rows) = wanted.key

\* No key stays in the credential store, or in memory, for a connection that
\* does not remember it.
NoKeyLeft ==
  op = None /\ ~torn =>
    \A i \in Ids :
      /\ store[i] # None => i = id /\ rows = "remembered"
      /\ session[i] # None => i = id /\ rows = "session"

(* --------------- what makes these properties inductive ------------------ *)

\* A request fits what it changes: one that creates finds no connection, the
\* others find the one they began with; only kept modes come with a key.
RequestFits ==
  /\ rows # None => id > 0
  /\ rows = wanted.mode /\ (wanted.mode \in {None, "none"} => wanted.key = None)
  /\ op # None =>
       /\ id > 0
       /\ IF op.kind = "create" THEN rows = None /\ op.old = "none" ELSE op.old = rows
       /\ op.kind = "remove" <=> op.new = None
       /\ op.new \in {None, "none"} => op.key = None

\* The stores, as a connection of this mode and key leaves them.
StoreHolds(mode, key) == store[id] = IF mode = "remembered" THEN key ELSE None
SessionHolds(mode, key) == session[id] = IF mode = "session" THEN key ELSE None

\* Until a request changes the stores they hold the key it has read; from then
\* on the new one, but for the session key that a removal leaves in place.  No
\* other connection has a key.
Undoable ==
  ~torn =>
    /\ \A i \in Ids \ {id} : store[i] = None /\ session[i] = None
    /\ (op = None \/ op.at = "change") /\ id > 0 =>
         /\ StoreHolds(rows, credential(rows)) /\ SessionHolds(rows, credential(rows))
         /\ credential(rows) = wanted.key
    /\ op # None /\ op.at = "change" => op.previous = credential(rows)
    /\ op # None /\ op.at # "change" =>
         /\ op.previous = wanted.key /\ (op.old = "none" => op.previous = None)
         /\ StoreHolds(op.new, op.key)
         /\ IF op.kind = "remove" THEN SessionHolds(op.old, op.previous)
            ELSE SessionHolds(op.new, op.key)

ConnectionsInv == TypeOK /\ RequestFits /\ Undoable /\ FailureChangesNothing /\ NoKeyLeft
=============================================================================
