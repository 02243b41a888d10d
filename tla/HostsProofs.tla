----------------------------- MODULE HostsProofs -----------------------------
(***************************************************************************)
(* Theorems about what surrounds a project, for any number of users,       *)
(* documents, requests, threads and faults.                                *)
(***************************************************************************)
EXTENDS MCHosts, FiniteSetTheorems, TLAPS

(* ------------------------- provider connections ------------------------- *)

USE DEF Connection!Ids, Connection!Modes

(* Nothing is kept before the first connection.                             *)
LEMMA KeysInit ==
    ASSUME Connection!ConnectionsAssumption, Connection!Init
    PROVE  Connection!ConnectionsInv
  <1> USE DEF Connection!ConnectionsAssumption, Connection!Init, Connection!Absent
  <1>1. Connection!TypeOK
    <2>1. wanted \in [mode : Connection!Modes \cup {None}, key : Keys \cup {None}]
      OBVIOUS
    <2>2. torn \in BOOLEAN
      OBVIOUS
    <2> QED BY <2>1, <2>2 DEF Connection!TypeOK
  <1>2. Connection!RequestFits
    BY DEF Connection!RequestFits
  <1>3. Connection!Undoable
    BY DEF Connection!Undoable
  <1>4. Connection!FailureChangesNothing /\ Connection!NoKeyLeft
    BY DEF Connection!FailureChangesNothing, Connection!NoKeyLeft, Connection!credential
  <1> QED BY <1>1, <1>2, <1>3, <1>4 DEF Connection!ConnectionsInv

(* At rest the stores say what a reader is promised: both properties follow *)
(* from the invariant's part on the stores.                                 *)
LEMMA KeysAtRest ==
    ASSUME Connection!ConnectionsAssumption, Connection!TypeOK', Connection!RequestFits',
           Connection!Undoable'
    PROVE  Connection!ConnectionsInv'
  <1> USE DEF Connection!ConnectionsAssumption, Connection!TypeOK, Connection!RequestFits,
              Connection!Undoable
  <1>1. Connection!FailureChangesNothing'
    BY DEF Connection!FailureChangesNothing
  <1>2. Connection!NoKeyLeft'
    BY DEF Connection!NoKeyLeft, Connection!StoreHolds, Connection!SessionHolds
  <1> QED BY <1>1, <1>2 DEF Connection!ConnectionsInv

(* A request begins: it reads the key it may have to put back.              *)
LEMMA RequestsKeepKeys ==
    ASSUME Connection!ConnectionsAssumption, Connection!ConnectionsInv,
           \/ \E u \in Connection!Updates :
                 Connection!create(u[1], u[2]) \/ Connection!update(u[1], u[2])
           \/ Connection!remove
    PROVE  Connection!ConnectionsInv'
  <1> USE DEF Connection!ConnectionsAssumption, Connection!memory
  <1>0. Connection!TypeOK /\ Connection!RequestFits /\ Connection!Undoable
    BY DEF Connection!ConnectionsInv
  <1>1. PICK kind \in {"create", "update", "remove"}, mode \in Connection!Modes \cup {None},
             key \in Keys \cup {None} :
        /\ change = None
        /\ change' = [kind |-> kind, old |-> IF kind = "create" THEN "none" ELSE rows,
                      new |-> mode, key |-> key, at |-> "change",
                      previous |-> IF kind = "create" THEN None ELSE Connection!credential(rows)]
        /\ IF kind = "create" THEN rows = None /\ id < MaxIds /\ id' = id + 1
                              ELSE rows # None /\ id' = id
        /\ mode \in {None, "none"} => key = None
        /\ kind = "remove" <=> mode = None
        /\ requests < MaxRequests /\ requests' = requests + 1
        /\ UNCHANGED <<metadata, rows, session, store, wanted, torn, failures>>
    <2>1. ASSUME NEW u \in Connection!Updates
          PROVE  /\ u[1] \in Connection!Modes /\ u[2] \in Keys \cup {None}
                 /\ u[1] = "none" => u[2] = None
      BY DEF Connection!Updates
    <2>2. CASE \E u \in Connection!Updates : Connection!create(u[1], u[2])
      BY <2>1, <2>2 DEF Connection!create
    <2>3. CASE \E u \in Connection!Updates : Connection!update(u[1], u[2])
      BY <2>1, <2>3 DEF Connection!update, Connection!Begin
    <2>4. CASE Connection!remove
      BY <2>4 DEF Connection!remove, Connection!Begin
    <2> QED BY <2>2, <2>3, <2>4
  <1>2. Connection!credential(rows) \in Keys \cup {None}
    BY <1>0, <1>1 DEF Connection!TypeOK, Connection!RequestFits, Connection!credential
  <1>3. Connection!TypeOK'
    <2>1. change' \in Connection!Request
      BY <1>0, <1>1, <1>2 DEF Connection!Request, Connection!TypeOK
    <2> QED BY <1>0, <1>1, <2>1 DEF Connection!TypeOK
  <1>4. Connection!RequestFits'
    BY <1>0, <1>1 DEF Connection!TypeOK, Connection!RequestFits
  <1>5. Connection!Undoable'
    BY <1>0, <1>1 DEF Connection!TypeOK, Connection!RequestFits, Connection!Undoable,
       Connection!StoreHolds, Connection!SessionHolds, Connection!credential
  <1> QED BY <1>3, <1>4, <1>5, KeysAtRest

(* The stores change, or the change is refused before it began.             *)
LEMMA ChangesKeepKeys ==
    ASSUME Connection!ConnectionsAssumption, Connection!ConnectionsInv,
           Connection!change_credential \/ Connection!StoreFails
    PROVE  Connection!ConnectionsInv'
  <1> USE DEF Connection!ConnectionsAssumption, Connection!memory
  <1>0. Connection!TypeOK /\ Connection!RequestFits /\ Connection!Undoable
    BY DEF Connection!ConnectionsInv
  <1>1. CASE Connection!change_credential
    <2> USE DEF Connection!change_credential, Connection!Put, Connection!Keep
    <2>1. change \in Connection!Request /\ change.at = "change" /\ id \in Connection!Ids
      BY <1>0, <1>1 DEF Connection!TypeOK, Connection!RequestFits
    <2>2. change' \in Connection!Request /\ change'.at = "persist"
          /\ \A f \in {"kind", "old", "new", "key", "previous"} : change'[f] = change[f]
      BY <1>1, <2>1 DEF Connection!Request
    <2>3. change.key \in Keys \cup {None}
      BY <2>1 DEF Connection!Request
    <2>4. /\ store' \in [Connection!Ids -> Keys \cup {None}]
          /\ store'[id] = IF change.new = "remembered" THEN change.key
                          ELSE IF change.old = "remembered" THEN None ELSE store[id]
          /\ \A i \in Connection!Ids \ {id} : store'[i] = store[i]
      BY <1>0, <1>1, <2>1, <2>3 DEF Connection!TypeOK
    <2>5. /\ session' \in [Connection!Ids -> Keys \cup {None}]
          /\ session'[id] = IF change.kind = "remove" THEN session[id]
                            ELSE IF change.new = "session" THEN change.key ELSE None
          /\ \A i \in Connection!Ids \ {id} : session'[i] = session[i]
      BY <1>0, <1>1, <2>1, <2>3 DEF Connection!TypeOK
    <2>6. UNCHANGED <<id, metadata, rows, wanted, torn, requests, failures>>
      BY <1>1
    <2>7. Connection!TypeOK'
      BY <1>0, <2>2, <2>4, <2>5, <2>6 DEF Connection!TypeOK
    <2>8. Connection!RequestFits'
      BY <1>0, <2>1, <2>2, <2>6 DEF Connection!RequestFits
    <2>9. Connection!Undoable'
      <3>1. Connection!credential(rows) = change.previous \/ torn
        BY <1>0, <2>1 DEF Connection!Undoable
      <3> QED
        BY <1>0, <2>1, <2>2, <2>4, <2>5, <2>6, <3>1
           DEF Connection!Undoable, Connection!RequestFits, Connection!StoreHolds,
               Connection!SessionHolds, Connection!credential
    <2> QED BY <2>7, <2>8, <2>9, KeysAtRest
  <1>2. CASE Connection!StoreFails
    <2>1. /\ change # None /\ change.at = "change" /\ change' = None
          /\ failures < MaxFaults /\ failures' = failures + 1
          /\ UNCHANGED <<id, metadata, rows, session, store, wanted, torn, requests>>
      BY <1>2 DEF Connection!StoreFails, Connection!Fault, Connection!Fail
    <2>2. Connection!TypeOK'
      BY <1>0, <2>1 DEF Connection!TypeOK
    <2>3. Connection!RequestFits'
      BY <1>0, <2>1 DEF Connection!RequestFits
    <2>4. Connection!Undoable'
      BY <1>0, <2>1 DEF Connection!Undoable, Connection!StoreHolds, Connection!SessionHolds,
         Connection!credential
    <2> QED BY <2>2, <2>3, <2>4, KeysAtRest
  <1> QED BY <1>1, <1>2

(* The metadata is replaced as a whole, or not at all.                      *)
LEMMA PersistKeepsKeys ==
    ASSUME Connection!ConnectionsAssumption, Connection!ConnectionsInv,
           Connection!persist \/ Connection!PersistFails
    PROVE  Connection!ConnectionsInv'
  <1> USE DEF Connection!ConnectionsAssumption, Connection!memory
  <1>0. Connection!TypeOK /\ Connection!RequestFits /\ Connection!Undoable
    BY DEF Connection!ConnectionsInv
  <1>1. change \in Connection!Request /\ change.at = "persist" /\ id \in Connection!Ids
    BY <1>0 DEF Connection!persist, Connection!PersistFails, Connection!TypeOK,
       Connection!RequestFits
  <1>2. CASE Connection!persist
    <2> USE DEF Connection!persist, Connection!Keep
    <2>1. change.new \in Connection!Modes \cup {None} /\ change.key \in Keys \cup {None}
      BY <1>1 DEF Connection!Request
    <2>2. /\ session' \in [Connection!Ids -> Keys \cup {None}]
          /\ session'[id] = IF change.kind = "remove" THEN None ELSE session[id]
          /\ \A i \in Connection!Ids \ {id} : session'[i] = session[i]
      BY <1>0, <1>1, <1>2 DEF Connection!TypeOK
    <2>3. /\ change' = None /\ metadata' = change.new /\ rows' = change.new
          /\ wanted'.mode = change.new /\ wanted'.key = change.key
          /\ wanted' \in [mode : Connection!Modes \cup {None}, key : Keys \cup {None}]
          /\ UNCHANGED <<id, store, torn, requests, failures>>
      BY <1>2, <2>1
    <2>4. Connection!TypeOK'
      BY <1>0, <2>1, <2>2, <2>3 DEF Connection!TypeOK
    <2>5. Connection!RequestFits'
      BY <1>0, <1>1, <2>3 DEF Connection!RequestFits
    <2>6. Connection!Undoable'
      BY <1>0, <1>1, <2>2, <2>3
         DEF Connection!Undoable, Connection!RequestFits, Connection!StoreHolds,
             Connection!SessionHolds, Connection!credential
    <2> QED BY <2>4, <2>5, <2>6, KeysAtRest
  <1>3. CASE Connection!PersistFails
    <2>1. /\ change' = [change EXCEPT !.at = "restore"]
          /\ failures < MaxFaults /\ failures' = failures + 1
          /\ UNCHANGED <<id, metadata, rows, session, store, wanted, torn, requests>>
      BY <1>3 DEF Connection!PersistFails, Connection!Fault
    <2>2. change' \in Connection!Request /\ change'.at = "restore"
          /\ \A f \in {"kind", "old", "new", "key", "previous"} : change'[f] = change[f]
      BY <1>1, <2>1 DEF Connection!Request
    <2>3. Connection!TypeOK'
      BY <1>0, <2>1, <2>2 DEF Connection!TypeOK
    <2>4. Connection!RequestFits'
      BY <1>0, <1>1, <2>1, <2>2 DEF Connection!RequestFits
    <2>5. Connection!Undoable'
      BY <1>0, <1>1, <2>1, <2>2
         DEF Connection!Undoable, Connection!StoreHolds, Connection!SessionHolds
    <2> QED BY <2>3, <2>4, <2>5, KeysAtRest
  <1> QED BY <1>2, <1>3

(* The old key is put back; or that fails as well, or the process ends.     *)
LEMMA RecoveryKeepsKeys ==
    ASSUME Connection!ConnectionsAssumption, Connection!ConnectionsInv,
           Connection!restore_credential \/ Connection!RestoreFails \/ Connection!Exit
    PROVE  Connection!ConnectionsInv'
  <1> USE DEF Connection!ConnectionsAssumption, Connection!memory
  <1>0. Connection!TypeOK /\ Connection!RequestFits /\ Connection!Undoable
    BY DEF Connection!ConnectionsInv
  <1>1. CASE Connection!restore_credential
    <2> USE DEF Connection!restore_credential, Connection!Put, Connection!Keep
    <2>1. change \in Connection!Request /\ change.at = "restore" /\ id \in Connection!Ids
      BY <1>0, <1>1 DEF Connection!TypeOK, Connection!RequestFits
    <2>2. change.previous \in Keys \cup {None}
      BY <2>1 DEF Connection!Request
    <2>3. /\ store' \in [Connection!Ids -> Keys \cup {None}]
          /\ store'[id] = IF change.old = "remembered" THEN change.previous
                          ELSE IF change.new = "remembered" THEN None ELSE store[id]
          /\ \A i \in Connection!Ids \ {id} : store'[i] = store[i]
      BY <1>0, <1>1, <2>1, <2>2 DEF Connection!TypeOK
    <2>4. /\ session' \in [Connection!Ids -> Keys \cup {None}]
          /\ session'[id] = IF change.old = "session" THEN change.previous ELSE None
          /\ \A i \in Connection!Ids \ {id} : session'[i] = session[i]
      BY <1>0, <1>1, <2>1, <2>2 DEF Connection!TypeOK
    <2>5. change' = None /\ UNCHANGED <<id, metadata, rows, wanted, torn, requests, failures>>
      BY <1>1
    <2>6. Connection!TypeOK'
      BY <1>0, <2>3, <2>4, <2>5 DEF Connection!TypeOK
    <2>7. Connection!RequestFits'
      BY <1>0, <2>5 DEF Connection!RequestFits
    <2>8. Connection!Undoable'
      BY <1>0, <2>1, <2>3, <2>4, <2>5
         DEF Connection!Undoable, Connection!RequestFits, Connection!StoreHolds,
             Connection!SessionHolds, Connection!credential, Connection!TypeOK
    <2> QED BY <2>6, <2>7, <2>8, KeysAtRest
  <1>2. CASE Connection!RestoreFails
    <2>1. /\ change' = None /\ torn' = TRUE
          /\ failures < MaxFaults /\ failures' = failures + 1
          /\ UNCHANGED <<id, metadata, rows, store, wanted, requests>>
      BY <1>2 DEF Connection!RestoreFails, Connection!Fault
    <2>2. session' \in [Connection!Ids -> Keys \cup {None}]
      BY <1>0, <1>2 DEF Connection!RestoreFails, Connection!Keep, Connection!TypeOK
    <2>3. Connection!TypeOK'
      BY <1>0, <2>1, <2>2 DEF Connection!TypeOK
    <2>4. Connection!RequestFits'
      BY <1>0, <2>1 DEF Connection!RequestFits
    <2>5. Connection!Undoable'
      BY <2>1 DEF Connection!Undoable
    <2> QED BY <2>3, <2>4, <2>5, KeysAtRest
  <1>3. CASE Connection!Exit
    <2>1. /\ change' = None /\ rows' = metadata /\ session' = [i \in Connection!Ids |-> None]
          /\ torn' = (torn \/ (change # None /\ change.at # "change"))
          /\ failures < MaxFaults /\ failures' = failures + 1
          /\ UNCHANGED <<id, metadata, store, requests>>
      BY <1>3 DEF Connection!Exit, Connection!Fault
    <2>2. /\ wanted' \in [mode: Connection!Modes \cup {None}, key: Keys \cup {None}]
          /\ wanted'.mode = wanted.mode
          /\ wanted'.key = IF wanted.mode = "session" THEN None ELSE wanted.key
      BY <1>0, <1>3 DEF Connection!Exit, Connection!TypeOK
    <2>3. Connection!TypeOK'
      <3>1. torn' \in BOOLEAN
        BY <2>1
      <3> QED BY <1>0, <2>1, <2>2, <3>1 DEF Connection!TypeOK
    <2>4. rows' = rows
      BY <1>0, <2>1 DEF Connection!TypeOK
    <2>5. Connection!RequestFits'
      BY <1>0, <2>1, <2>2, <2>4 DEF Connection!RequestFits
    <2>6. Connection!Undoable'
      <3>1. ~torn' => ~torn /\ (change = None \/ change.at = "change")
        BY <2>1
      <3>2. rows = wanted.mode
        BY <1>0 DEF Connection!RequestFits
      <3> QED
        BY <1>0, <2>1, <2>2, <2>4, <3>1, <3>2
           DEF Connection!Undoable, Connection!RequestFits, Connection!StoreHolds,
               Connection!SessionHolds, Connection!credential, Connection!TypeOK
    <2> QED BY <2>3, <2>5, <2>6, KeysAtRest
  <1> QED BY <1>1, <1>2, <1>3

(* However requests, refused accesses, failed writes and ends of the        *)
(* process follow one another, a change that fails keeps the key, and no    *)
(* key is left without a connection that remembers it.                      *)
THEOREM KeysAreKept == Spec => []KeysFollow
  <1>0. Connection!ConnectionsAssumption
    BY HostsAssumption DEF HostsAssumption
  <1>1. Init => KeysFollow
    BY <1>0, KeysInit DEF Init, KeysFollow
  <1>2. KeysFollow /\ [Next]_vars => KeysFollow'
    <2>1. CASE part = "keys" /\ Connection!Next
      BY <1>0, <2>1, RequestsKeepKeys, ChangesKeepKeys, PersistKeepsKeys, RecoveryKeepsKeys
         DEF Connection!Next, KeysFollow
    <2>2. CASE UNCHANGED <<part, keys>>
      BY <2>2 DEF keys, KeysFollow, Connection!ConnectionsInv, Connection!TypeOK,
         Connection!RequestFits, Connection!Undoable, Connection!FailureChangesNothing,
         Connection!NoKeyLeft, Connection!credential,
         Connection!StoreHolds, Connection!SessionHolds
    <2> QED BY <2>1, <2>2 DEF Next, vars, KeysFollow
  <1> QED BY <1>1, <1>2, PTL DEF Spec

(* ------------------------------- workers -------------------------------- *)

(* The instance counts as FiniteSets does.                                  *)
LEMMA SameFiniteSets == \A S : Server!IsFiniteSet(S) = IsFiniteSet(S)
  BY DEF Server!IsFiniteSet, IsFiniteSet
LEMMA SameSizes == \A S : Server!Cardinality(S) = Cardinality(S)
  BY DEF Server!Cardinality, Cardinality

(* Fewer workers are not more.                                              *)
LEMMA FewerWorkers ==
    ASSUME Server!WorkersAssumption, NEW S \in SUBSET Users, NEW T \in SUBSET S
    PROVE  /\ Server!Cardinality(S) \in Nat /\ Server!Cardinality(S) <= Server!Cardinality(Users)
           /\ Server!Cardinality(T) \in Nat /\ Server!Cardinality(T) <= Server!Cardinality(S)
  <1>1. IsFiniteSet(Users)
    BY SameFiniteSets DEF Server!WorkersAssumption
  <1>2. IsFiniteSet(S) /\ Cardinality(S) <= Cardinality(Users)
    BY <1>1, FS_Subset
  <1>3. IsFiniteSet(T) /\ Cardinality(T) <= Cardinality(S)
    BY <1>2, FS_Subset
  <1>4. Cardinality(S) \in Nat /\ Cardinality(T) \in Nat
    BY <1>2, <1>3, FS_CardinalityType
  <1> QED BY <1>2, <1>3, <1>4, SameSizes

(* A step that starts no worker of its own and lets nobody into the gate.   *)
LEMMA CountsKept ==
    ASSUME Server!WorkersAssumption, Server!WorkersInv,
           (Server!Running \ late)' \subseteq Server!Running \ late,
           \A u \in Users : Server!Gated(u)' =>
              at'[u] = at[u] /\ counted'[u] = counted[u] /\ admission' = admission
    PROVE  Server!WithinLimit' /\ Server!CountsHold'
  <1> DEFINE S == Server!Running \ late
  <1>1. S \in SUBSET Users /\ S' \in SUBSET S
    BY DEF Server!Running
  <1>2. Server!Cardinality(S) \in Nat /\ Server!Cardinality(S') \in Nat /\ Server!Cardinality(S') <= Server!Cardinality(S)
    BY <1>1, FewerWorkers
  <1>3. Server!Cardinality(S) <= Limit
    BY DEF Server!WorkersInv, Server!WithinLimit
  <1>4. \A u \in Users : counted[u] \in Nat
    <2>1. Server!Cardinality(Users) \in Nat
      BY FewerWorkers
    <2> QED BY <2>1 DEF Server!WorkersInv, Server!TypeOK
  <1>5. \A u \in Users :
          /\ Server!Gated(u) => admission = u
          /\ at[u] \in {"decide", "run", "start"} => Server!Cardinality(S) <= counted[u]
          /\ at[u] \in {"run", "start"} => counted[u] < Limit
    BY DEF Server!WorkersInv, Server!CountsHold
  <1>6. Server!Cardinality(S') <= Limit
    BY <1>2, <1>3 DEF Server!WorkersAssumption
  <1>7. ASSUME NEW u \in Users, Server!Gated(u)'
        PROVE  /\ admission' = u
               /\ at'[u] \in {"decide", "run", "start"} => Server!Cardinality(S') <= counted'[u]
               /\ at'[u] \in {"run", "start"} => counted'[u] < Limit
    BY <1>2, <1>4, <1>5, <1>7, SMTT(20) DEF Server!Gated
  <1>8. \A u \in Users : at'[u] \in {"decide", "run", "start"} => Server!Gated(u)'
    BY DEF Server!Gated
  <1> QED BY <1>6, <1>7, <1>8 DEF Server!WithinLimit, Server!CountsHold

(* A step that leaves the gateway alone starts workers before shutdown has  *)
(* listed them, if at all.                                                  *)
LEMMA ListingKept ==
    ASSUME Server!WorkersInv,
           UNCHANGED <<main, round, ids, failed>>,
           (Server!Running \ late)' \subseteq Server!Running \ late \/ main \in {"serving", "stopping"},
           \A u \in Users :
              /\ Server!Gated(u)' => Server!Gated(u) \/ round = 0
              /\ at[u] = "none" => at'[u] = "none" \/ main = "serving"
    PROVE  Server!NoneLeft' /\ Server!ShutdownListed'
  <1> USE DEF Server!WorkersInv, Server!NoneLeft, Server!ShutdownListed, Server!TypeOK
  <1>1. Server!NoneLeft'
    BY DEF Server!NoneLeft
  <1>2. (main \in {"serving", "exited"} <=> round = 0)'
    OBVIOUS
  <1>3. (main \in {"kill", "wait", "drain"} => \A u \in Users : ~Server!Gated(u))'
    OBVIOUS
  <1>4. (round = 2 \/ main = "exited" => Server!Idle)'
    BY DEF Server!Idle
  <1>5. (main = "kill" \/ (main = "wait" /\ ~failed) => Server!Running \ late \subseteq ids)'
    OBVIOUS
  <1> QED BY <1>1, <1>2, <1>3, <1>4, <1>5

(* A start that ends leaves the gate if it was there.                       *)
LEMMA FailedStart ==
    ASSUME Server!TypeOK, NEW u \in Users, Server!Fail(u)
    PROVE  /\ slot' \in [Users -> {"empty", "starting", "ready"}]
           /\ at' \in [Users -> {"none", "queue", "count", "decide", "run", "start", "probe"}]
           /\ \A v \in Users : slot'[v] = "starting" <=> at'[v] # "none"
           /\ at'[u] = "none" /\ \A v \in Users \ {u} : at'[v] = at[v]
           /\ admission' = IF admission = u THEN None ELSE admission
           /\ UNCHANGED <<main, round, ids, failed, counted>>
  BY DEF Server!TypeOK, Server!Fail, Server!Release, Server!gateway

(* When the process ends, so do its requests, and docker is left alone.     *)
LEMMA ExitKeepsWorkers ==
    ASSUME Server!WorkersAssumption, Server!WorkersInv, Server!Exit,
           Server!NoneLeft', failed' \in BOOLEAN, faults' \in 0..MaxFaults,
           orphans' \subseteq Users \X {"run", "start"}, UNCHANGED <<container, termed, late>>
    PROVE  Server!WorkersInv'
  <1>1. /\ main' = "exited" /\ round' = 0 /\ ids' = {} /\ admission' = None /\ counted' = counted
        /\ slot' = [u \in Users |-> "empty"] /\ at' = [u \in Users |-> "none"]
    BY DEF Server!Exit
  <1>2. Server!Running' = Server!Running
    BY DEF Server!Running
  <1>3. Server!TypeOK'
    BY <1>1, <1>2 DEF Server!WorkersInv, Server!TypeOK
  <1>4. \A u \in Users : ~Server!Gated(u)'
    BY <1>1 DEF Server!Gated
  <1>5. Server!WithinLimit' /\ Server!CountsHold'
    BY <1>2, <1>4, CountsKept
  <1>6. Server!ShutdownListed'
    BY <1>1, <1>4 DEF Server!ShutdownListed, Server!Idle
  <1> QED BY <1>3, <1>5, <1>6 DEF Server!WorkersInv

(* Requests begin, fail, are dropped or find their worker: no container of  *)
(* theirs starts, and nobody gets to the gate.                              *)
LEMMA RequestsKeepWorkers ==
    ASSUME Server!WorkersAssumption, Server!WorkersInv, NEW u \in Users,
           \/ Server!client(u)
           \/ Server!Admit(u) /\ Server!stopping
           \/ Server!Decide(u) /\ (Server!Refused(u) \/ container[u] = "running")
           \/ Server!Launch(u) /\ ~Server!Starts(u, at[u])
           \/ Server!Probe(u)
           \/ Server!StepFails(u)
           \/ Server!Abandon(u)
    PROVE  Server!WorkersInv'
  <1> USE DEF Server!docker, Server!starts, Server!gateway, Server!stopping, Server!Fault
  <1>0. Server!TypeOK
    BY DEF Server!WorkersInv
  <1>1. /\ slot' \in [Users -> {"empty", "starting", "ready"}]
        /\ at' \in [Users -> {"none", "queue", "count", "decide", "run", "start", "probe"}]
        /\ \A v \in Users : slot'[v] = "starting" <=> at'[v] # "none"
        /\ \A v \in Users \ {u} : at'[v] = at[v]
        /\ \/ at'[u] \in {"none", "probe"} /\ at[u] # "none"
           \/ at'[u] = "queue" /\ main = "serving"
        /\ admission' = admission \/ (admission = u /\ admission' = None)
        /\ UNCHANGED <<main, round, ids, failed, counted>>
    <2>1. ASSUME Server!Fail(u), at[u] # "none" PROVE <1>1
      BY <1>0, <2>1, FailedStart
    <2>2. CASE Server!client(u)
      BY <1>0, <2>2 DEF Server!client, Server!TypeOK
    <2>3. CASE Server!Admit(u) /\ Server!stopping
      BY <2>1, <2>3 DEF Server!Admit
    <2>4. CASE Server!Decide(u) /\ (Server!Refused(u) \/ container[u] = "running")
      <3>1. CASE Server!Fail(u)
        BY <2>1, <2>4, <3>1 DEF Server!Decide
      <3>2. CASE ~Server!Fail(u)
        BY <1>0, <2>4, <3>2 DEF Server!Decide, Server!Refused, Server!Release, Server!TypeOK
      <3> QED BY <3>1, <3>2
    <2>5. CASE Server!Launch(u) /\ ~Server!Starts(u, at[u])
      <3>1. CASE Server!Fail(u)
        BY <2>1, <2>5, <3>1 DEF Server!Launch
      <3>2. CASE ~Server!Fail(u)
        BY <1>0, <2>5, <3>2 DEF Server!Launch, Server!Release, Server!TypeOK
      <3> QED BY <3>1, <3>2
    <2>6. CASE Server!Probe(u)
      <3>1. CASE Server!Fail(u)
        BY <2>1, <2>6, <3>1 DEF Server!Probe
      <3>2. CASE ~Server!Fail(u)
        BY <1>0, <2>6, <3>2 DEF Server!Probe, Server!TypeOK
      <3> QED BY <3>1, <3>2
    <2>7. CASE Server!StepFails(u)
      BY <2>1, <2>7 DEF Server!StepFails
    <2>8. CASE Server!Abandon(u)
      BY <2>1, <2>8 DEF Server!Abandon
    <2> QED BY <2>2, <2>3, <2>4, <2>5, <2>6, <2>7, <2>8
  <1>2. /\ container' \in [Users -> {"absent", "stopped", "running"}]
        /\ \A v \in Users : container'[v] = "running" <=> container[v] = "running"
        /\ UNCHANGED <<termed, late>>
        /\ orphans' \subseteq Users \X {"run", "start"}
    <2>1. CASE Server!StepFails(u)
      BY <1>0, <2>1 DEF Server!StepFails, Server!TypeOK
    <2>2. CASE Server!Abandon(u)
      BY <1>0, <2>2 DEF Server!Abandon, Server!TypeOK
    <2>3. CASE ~Server!StepFails(u) /\ ~Server!Abandon(u)
      BY <1>0, <2>3 DEF Server!client, Server!Admit, Server!Decide, Server!Launch, Server!Probe,
         Server!TypeOK
    <2> QED BY <2>1, <2>2, <2>3
  <1>3. faults' \in 0..MaxFaults
    BY <1>0 DEF Server!client, Server!Admit, Server!Decide, Server!Launch, Server!Probe,
       Server!StepFails, Server!Abandon, Server!TypeOK, Server!WorkersAssumption
  <1>4. Server!Running' = Server!Running
    BY <1>2 DEF Server!Running
  <1>5. Server!TypeOK'
    <2>1. failed' \in BOOLEAN
      BY <1>0, <1>1 DEF Server!TypeOK
    <2>2. admission' \in Users \cup {None, Gateway}
      BY <1>0, <1>1 DEF Server!TypeOK
    <2> QED BY <1>0, <1>1, <1>2, <1>3, <1>4, <2>1, <2>2 DEF Server!TypeOK
  <1>6. \A v \in Users : Server!Gated(v)' =>
           at'[v] = at[v] /\ counted'[v] = counted[v] /\ admission' = admission
    <2>1. \A v \in Users : Server!Gated(v) => admission = v
      BY DEF Server!WorkersInv, Server!CountsHold
    <2>2. \A v \in Users : Server!Gated(v)' => v # u /\ Server!Gated(v)
      BY <1>1 DEF Server!Gated
    <2> QED BY <1>1, <2>1, <2>2
  <1>7. Server!WithinLimit' /\ Server!CountsHold'
    BY <1>2, <1>4, <1>6, CountsKept
  <1>8. Server!NoneLeft' /\ Server!ShutdownListed'
    <2>1. \A v \in Users : /\ Server!Gated(v)' => Server!Gated(v)
                           /\ at[v] = "none" => at'[v] = "none" \/ main = "serving"
      BY <1>1 DEF Server!Gated
    <2> QED BY <1>1, <1>2, <1>4, <2>1, ListingKept
  <1> QED BY <1>5, <1>7, <1>8 DEF Server!WorkersInv

(* The start at the gate counts, decides and launches its worker: there is  *)
(* still room for it, since nobody else could start one.                    *)
LEMMA AdmittedKeepWorkers ==
    ASSUME Server!WorkersAssumption, Server!WorkersInv, NEW u \in Users,
           \/ Server!Admit(u) /\ ~Server!stopping
           \/ Server!Count(u)
           \/ Server!Decide(u) /\ ~Server!Refused(u) /\ container[u] # "running"
           \/ Server!Launch(u) /\ Server!Starts(u, at[u])
    PROVE  Server!WorkersInv'
  <1> USE DEF Server!docker, Server!starts, Server!gateway, Server!stopping
  <1> DEFINE S == Server!Running \ late
  <1>0. Server!TypeOK /\ Server!CountsHold /\ Server!WithinLimit
    BY DEF Server!WorkersInv
  <1>1. /\ slot' = slot /\ at' = [at EXCEPT ![u] = at'[u]] /\ at[u] # "none"
        /\ at'[u] \in {"count", "decide", "run", "start", "probe"}
        /\ UNCHANGED <<main, round, ids, failed, faults>>
    BY <1>0 DEF Server!Admit, Server!Count, Server!Decide, Server!Launch, Server!Starts,
       Server!Refused, Server!Release, Server!Run, Server!TypeOK
  <1>2. S \in SUBSET Users /\ Server!Cardinality(S) \in Nat
    BY FewerWorkers DEF Server!Running
  <1>3. \A v \in Users : /\ Server!Gated(v) => admission = v
                         /\ at[v] \in {"decide", "run", "start"} => Server!Gated(v)
    BY <1>0 DEF Server!CountsHold, Server!Gated
  <1>4. \A v \in Users \ {u} : ~Server!Gated(v) /\ ~Server!Gated(v)'
    <2>1. admission \in {None, u}
      BY <1>3 DEF Server!Admit, Server!Count, Server!Decide, Server!Launch, Server!Gated
    <2>2. \A v \in Users \ {u} : at'[v] = at[v] /\ admission # v
      BY <1>0, <1>1, <2>1 DEF Server!TypeOK, Server!WorkersAssumption
    <2> QED BY <1>3, <2>2 DEF Server!Gated
  <1>5. CASE Server!Admit(u) /\ ~Server!stopping
    <2>1. admission' = u /\ at'[u] = "count" /\ UNCHANGED <<counted, container, termed, late, orphans>>
      BY <1>0, <1>5 DEF Server!Admit, Server!TypeOK
    <2>2. Server!TypeOK'
      BY <1>0, <1>1, <2>1 DEF Server!TypeOK, Server!Running
    <2>3. Server!WithinLimit' /\ Server!CountsHold'
      BY <1>0, <1>1, <1>4, <2>1 DEF Server!WithinLimit, Server!CountsHold, Server!Running, Server!Gated
    <2>4. Server!NoneLeft' /\ Server!ShutdownListed'
      <3>1. round = 0
        BY <1>0, <1>5 DEF Server!TypeOK
      <3>2. Server!Running' = Server!Running
        BY <2>1 DEF Server!Running
      <3>3. \A v \in Users : at[v] = "none" => at'[v] = "none"
        BY <1>0, <1>1 DEF Server!TypeOK
      <3> QED BY <1>1, <2>1, <3>1, <3>2, <3>3, ListingKept
    <2> QED BY <2>2, <2>3, <2>4 DEF Server!WorkersInv
  <1>6. CASE Server!Count(u)
    <2>1. /\ at[u] = "count" /\ at'[u] = "decide" /\ counted' = [counted EXCEPT ![u] = Server!Cardinality(Server!Running)]
          /\ UNCHANGED <<admission, container, termed, late, orphans>>
      BY <1>0, <1>6 DEF Server!Count, Server!TypeOK
    <2>2. Server!Running' = Server!Running
      BY <2>1 DEF Server!Running
    <2>3. /\ Server!Cardinality(Server!Running) \in 0..Server!Cardinality(Users)
          /\ Server!Cardinality(S) <= Server!Cardinality(Server!Running)
      <3>1. Server!Running \in SUBSET Users /\ S \in SUBSET Server!Running
        BY DEF Server!Running
      <3>2. Users \in SUBSET Users
        OBVIOUS
      <3>3. Server!Cardinality(Users) \in Nat
        BY <3>2, FewerWorkers
      <3> HIDE DEF S
      <3> QED BY <3>1, <3>3, FewerWorkers
    <2>4. counted' \in [Users -> 0..Server!Cardinality(Users)] /\ counted'[u] = Server!Cardinality(Server!Running)
      BY <1>0, <2>1, <2>3 DEF Server!TypeOK
    <2>5. Server!TypeOK'
      BY <1>0, <1>1, <2>1, <2>2, <2>4 DEF Server!TypeOK
    <2>6. Server!WithinLimit' /\ Server!CountsHold'
      BY <1>0, <1>1, <1>3, <1>4, <2>1, <2>2, <2>3, <2>4
         DEF Server!WithinLimit, Server!CountsHold, Server!Gated
    <2>7. Server!NoneLeft' /\ Server!ShutdownListed'
      <3>1. \A v \in Users : /\ Server!Gated(v)' => Server!Gated(v)
                             /\ at[v] = "none" => at'[v] = "none"
        BY <1>0, <1>1, <1>4, <2>1 DEF Server!Gated, Server!TypeOK
      <3> QED BY <1>1, <2>1, <2>2, <3>1, ListingKept
    <2> QED BY <2>5, <2>6, <2>7 DEF Server!WorkersInv
  <1>7. CASE Server!Decide(u) /\ ~Server!Refused(u) /\ container[u] # "running"
    <2>1. /\ at[u] = "decide" /\ at'[u] \in {"run", "start"} /\ counted[u] < Limit
          /\ UNCHANGED <<counted, admission, container, termed, late, orphans>>
      <3>1. counted[u] \in Nat
        BY <1>0, FewerWorkers DEF Server!TypeOK
      <3> QED BY <1>0, <1>7, <3>1 DEF Server!Decide, Server!Refused, Server!TypeOK, Server!WorkersAssumption
    <2>2. Server!Running' = Server!Running
      BY <2>1 DEF Server!Running
    <2>3. Server!TypeOK'
      BY <1>0, <1>1, <2>1, <2>2 DEF Server!TypeOK
    <2>4. Server!WithinLimit' /\ Server!CountsHold'
      BY <1>0, <1>1, <1>3, <1>4, <2>1, <2>2
         DEF Server!WithinLimit, Server!CountsHold, Server!Gated
    <2>5. Server!NoneLeft' /\ Server!ShutdownListed'
      <3>1. \A v \in Users : /\ Server!Gated(v)' => Server!Gated(v)
                             /\ at[v] = "none" => at'[v] = "none"
        BY <1>0, <1>1, <1>4, <2>1 DEF Server!Gated, Server!TypeOK
      <3> QED BY <1>1, <2>1, <2>2, <3>1, ListingKept
    <2> QED BY <2>3, <2>4, <2>5 DEF Server!WorkersInv
  <1>8. CASE Server!Launch(u) /\ Server!Starts(u, at[u])
    <2>1. /\ at[u] \in {"run", "start"} /\ at'[u] = "probe"
          /\ container[u] # "running"
          /\ container' = [container EXCEPT ![u] = "running"]
          /\ termed' = termed \ {u} /\ late' = late \ {u}
          /\ admission = u /\ admission' = None
          /\ UNCHANGED <<counted, orphans>>
      BY <1>0, <1>3, <1>8 DEF Server!Launch, Server!Starts, Server!Run, Server!Release, Server!TypeOK
    <2>2. Server!Running' = Server!Running \cup {u} /\ u \notin S
      BY <1>0, <2>1 DEF Server!Running, Server!TypeOK
    <2>3. S' = S \cup {u}
      BY <2>1, <2>2
    <2>4. Server!TypeOK'
      BY <1>0, <1>1, <2>1, <2>2 DEF Server!TypeOK
    <2>5. Server!WithinLimit'
      <3>1. Server!Cardinality(S') = Server!Cardinality(S) + 1
        <4>1. IsFiniteSet(S)
          BY <1>2, FS_Subset, SameFiniteSets DEF Server!WorkersAssumption
        <4> QED BY <2>2, <2>3, <4>1, FS_AddElement, SameSizes
      <3>2. Server!Cardinality(S) <= counted[u] /\ counted[u] < Limit /\ counted[u] \in Nat
        BY <1>0, <2>1, FewerWorkers DEF Server!CountsHold, Server!TypeOK
      <3> QED BY <1>2, <3>1, <3>2 DEF Server!WithinLimit, Server!WorkersAssumption
    <2>6. Server!CountsHold'
      <3>1. ~Server!Gated(u)'
        BY <1>0, <1>1, <2>1 DEF Server!Gated
      <3> QED BY <1>4, <3>1 DEF Server!CountsHold, Server!Gated
    <2>7. Server!NoneLeft' /\ Server!ShutdownListed'
      <3>1. \A v \in Users : /\ Server!Gated(v)' => Server!Gated(v)
                             /\ at[v] = "none" => at'[v] = "none"
        BY <1>0, <1>1, <1>4, <2>1 DEF Server!Gated, Server!TypeOK
      <3>2. main \in {"serving", "stopping"}
        BY <1>0, <2>1 DEF Server!WorkersInv, Server!ShutdownListed, Server!Gated, Server!Idle,
           Server!TypeOK
      <3> QED BY <1>1, <3>1, <3>2, ListingKept
    <2> QED BY <2>4, <2>5, <2>6, <2>7 DEF Server!WorkersInv
  <1> QED BY <1>5, <1>6, <1>7, <1>8

(* Shutdown asks every worker it has listed to end and waits for all.       *)
LEMMA ShutdownKeepsWorkers ==
    ASSUME Server!WorkersAssumption, Server!WorkersInv,
           \/ Server!Signal \/ Server!List \/ Server!Kill \/ Server!Wait \/ Server!Drain
           \/ \E u \in Users : Server!WaitFails(u)
    PROVE  Server!WorkersInv'
  <1> USE DEF Server!docker, Server!starts, Server!gateway, Server!Fault
  <1>0. /\ Server!TypeOK /\ Server!CountsHold /\ Server!ShutdownListed /\ Server!NoneLeft
        /\ \A v \in Users : Server!Gated(v) => admission = v
    BY DEF Server!WorkersInv, Server!CountsHold
  <1>1. CASE Server!Signal
    <2>1. /\ main = "serving" /\ main' = "stopping" /\ round' \in {1, 2}
          /\ round' = 2 => Server!Idle
          /\ UNCHANGED <<slot, at, counted, admission, container, termed, late, orphans, ids, failed, faults>>
      BY <1>1 DEF Server!Signal
    <2>2. Server!Running' = Server!Running /\ Server!Idle' = Server!Idle
      BY <2>1 DEF Server!Running, Server!Idle
    <2>3. Server!TypeOK'
      <3>1. failed' \in BOOLEAN
        BY <1>0, <2>1 DEF Server!TypeOK
      <3> QED BY <1>0, <2>1, <2>2, <3>1 DEF Server!TypeOK
    <2>4. Server!WithinLimit' /\ Server!CountsHold'
      BY <2>1, <2>2, CountsKept DEF Server!Gated
    <2>5. Server!NoneLeft' /\ Server!ShutdownListed'
      BY <2>1, <2>2 DEF Server!NoneLeft, Server!ShutdownListed
    <2> QED BY <2>3, <2>4, <2>5 DEF Server!WorkersInv
  <1>2. CASE Server!List
    <2>1. /\ main = "stopping" /\ admission = None /\ admission' = Gateway
          /\ ids' = Server!Running /\ main' = "kill"
          /\ UNCHANGED <<slot, at, counted, container, termed, late, orphans, round, failed, faults>>
      BY <1>2 DEF Server!List
    <2>2. Server!Running' = Server!Running /\ Server!Idle' = Server!Idle
      BY <2>1 DEF Server!Running, Server!Idle
    <2>3. \A v \in Users : ~Server!Gated(v) /\ ~Server!Gated(v)'
      BY <1>0, <2>1 DEF Server!Gated, Server!WorkersAssumption
    <2>4. Server!TypeOK'
      <3>1. failed' \in BOOLEAN
        BY <1>0, <2>1 DEF Server!TypeOK
      <3>2. Server!Running \subseteq Users
        BY DEF Server!Running
      <3> QED BY <1>0, <2>1, <2>2, <3>1, <3>2 DEF Server!TypeOK
    <2>5. Server!WithinLimit' /\ Server!CountsHold'
      BY <2>1, <2>2, <2>3, CountsKept
    <2>6. Server!NoneLeft' /\ Server!ShutdownListed'
      BY <1>0, <2>1, <2>2, <2>3 DEF Server!NoneLeft, Server!ShutdownListed
    <2> QED BY <2>4, <2>5, <2>6 DEF Server!WorkersInv
  <1>3. CASE Server!Kill
    <2>1. PICK missed \in SUBSET (ids \cap Server!Running) :
            /\ faults' = faults \/ (faults < MaxFaults /\ faults' = faults + 1)
            /\ termed' = termed \cup ((ids \cap Server!Running) \ missed)
            /\ failed' = (missed # {} \/ ~(ids \subseteq Server!Running))
      BY <1>3 DEF Server!Kill
    <2>2. /\ main = "kill" /\ main' = "wait"
          /\ UNCHANGED <<slot, at, counted, container, admission, late, orphans, round, ids>>
      BY <1>3 DEF Server!Kill
    <2>3. Server!Running' = Server!Running /\ Server!Idle' = Server!Idle
      BY <2>2 DEF Server!Running, Server!Idle
    <2>4. Server!TypeOK'
      <3>1. failed' \in BOOLEAN
        BY <2>1
      <3>2. termed' \subseteq Server!Running /\ Server!Running \subseteq Users
        BY <1>0, <2>1 DEF Server!TypeOK, Server!Running
      <3>3. faults' \in 0..MaxFaults
        BY <1>0, <2>1 DEF Server!TypeOK, Server!WorkersAssumption
      <3> QED BY <1>0, <2>2, <2>3, <3>1, <3>2, <3>3 DEF Server!TypeOK
    <2>5. Server!WithinLimit' /\ Server!CountsHold'
      BY <2>2, <2>3, CountsKept DEF Server!Gated
    <2>6. Server!NoneLeft' /\ Server!ShutdownListed'
      BY <1>0, <2>2, <2>3 DEF Server!NoneLeft, Server!ShutdownListed, Server!Gated
    <2> QED BY <2>4, <2>5, <2>6 DEF Server!WorkersInv
  <1>4. ASSUME NEW u \in Users, Server!WaitFails(u) PROVE Server!WorkersInv'
    <2>1. /\ main = "wait" /\ ids' = ids \ {u} /\ failed' = TRUE
          /\ faults < MaxFaults /\ faults' = faults + 1
          /\ UNCHANGED <<main, slot, at, counted, container, admission, termed, late, orphans, round>>
      BY <1>4 DEF Server!WaitFails
    <2>2. Server!Running' = Server!Running /\ Server!Idle' = Server!Idle
      BY <2>1 DEF Server!Running, Server!Idle
    <2>3. Server!TypeOK'
      <3>1. faults' \in 0..MaxFaults
        BY <1>0, <2>1 DEF Server!TypeOK, Server!WorkersAssumption
      <3> QED BY <1>0, <2>1, <2>2, <3>1 DEF Server!TypeOK
    <2>4. Server!WithinLimit' /\ Server!CountsHold'
      BY <2>1, <2>2, CountsKept DEF Server!Gated
    <2>5. Server!NoneLeft' /\ Server!ShutdownListed'
      BY <1>0, <2>1, <2>2 DEF Server!NoneLeft, Server!ShutdownListed, Server!Gated
    <2> QED BY <2>3, <2>4, <2>5 DEF Server!WorkersInv
  <1>5. CASE Server!Wait /\ main' = "drain"
    <2>1. /\ main = "wait" /\ ids \cap Server!Running = {} /\ round = 1 /\ ~failed
          /\ ids' = {} /\ admission' = None
          /\ UNCHANGED <<slot, at, counted, container, termed, late, orphans, round, failed, faults>>
      BY <1>5 DEF Server!Wait, Server!Exit
    <2>2. Server!Running' = Server!Running /\ Server!Idle' = Server!Idle
      BY <2>1 DEF Server!Running, Server!Idle
    <2>3. \A v \in Users : ~Server!Gated(v) /\ ~Server!Gated(v)'
      BY <1>0, <2>1 DEF Server!ShutdownListed, Server!Gated
    <2>4. Server!TypeOK'
      <3>1. failed' \in BOOLEAN
        BY <1>0, <2>1 DEF Server!TypeOK
      <3> QED BY <1>0, <1>5, <2>1, <2>2, <3>1 DEF Server!TypeOK
    <2>5. Server!WithinLimit' /\ Server!CountsHold'
      BY <2>1, <2>2, <2>3, CountsKept
    <2>6. Server!NoneLeft' /\ Server!ShutdownListed'
      BY <1>0, <1>5, <2>1, <2>2, <2>3 DEF Server!NoneLeft, Server!ShutdownListed
    <2> QED BY <2>4, <2>5, <2>6 DEF Server!WorkersInv
  <1>6. CASE Server!Wait /\ Server!Exit
    <2>1. /\ main = "wait" /\ ids \cap Server!Running = {}
          /\ UNCHANGED <<container, termed, late, orphans, failed, faults>>
      BY <1>6 DEF Server!Wait
    <2>2. Server!NoneLeft'
      BY <1>0, <2>1 DEF Server!NoneLeft, Server!ShutdownListed, Server!Running
    <2>3. faults' \in 0..MaxFaults /\ failed' \in BOOLEAN /\ orphans' \subseteq Users \X {"run", "start"}
      BY <1>0, <2>1 DEF Server!TypeOK
    <2> QED BY <1>6, <2>1, <2>2, <2>3, ExitKeepsWorkers
  <1>7. CASE Server!Drain
    <2>1. /\ main = "drain" /\ Server!Idle /\ main' = "stopping" /\ round' = 2
          /\ UNCHANGED <<slot, at, counted, container, termed, late, orphans, ids, admission, failed, faults>>
      BY <1>7 DEF Server!Drain
    <2>2. Server!Running' = Server!Running /\ Server!Idle' = Server!Idle
      BY <2>1 DEF Server!Running, Server!Idle
    <2>3. Server!TypeOK'
      <3>1. failed' \in BOOLEAN
        BY <1>0, <2>1 DEF Server!TypeOK
      <3> QED BY <1>0, <2>1, <2>2, <3>1 DEF Server!TypeOK
    <2>4. Server!WithinLimit' /\ Server!CountsHold'
      BY <2>1, <2>2, CountsKept DEF Server!Gated
    <2>5. Server!NoneLeft' /\ Server!ShutdownListed'
      BY <1>0, <2>1, <2>2 DEF Server!NoneLeft, Server!ShutdownListed
    <2> QED BY <2>3, <2>4, <2>5 DEF Server!WorkersInv
  <1> QED BY <1>1, <1>2, <1>3, <1>4, <1>5, <1>6, <1>7 DEF Server!Wait

(* What goes on without the gateway: commands that nobody waits for, ends   *)
(* of workers and of the gateway itself, and its next start.                *)
LEMMA DockerKeepsWorkers ==
    ASSUME Server!WorkersAssumption, Server!WorkersInv,
           \/ \E u \in Users : Server!WorkerEnds(u)
           \/ \E u \in Users, command \in {"run", "start"} : Server!OrphanLands(u, command)
           \/ Server!Crash \/ Server!new
    PROVE  Server!WorkersInv'
  <1> USE DEF Server!docker, Server!starts, Server!gateway, Server!Fault
  <1>0. /\ Server!TypeOK /\ Server!CountsHold /\ Server!ShutdownListed /\ Server!NoneLeft
        /\ failed \in BOOLEAN
    BY DEF Server!WorkersInv, Server!TypeOK
  <1>1. ASSUME NEW u \in Users, Server!WorkerEnds(u) PROVE Server!WorkersInv'
    <2>1. /\ container' = [container EXCEPT ![u] = "stopped"] /\ termed' = termed \ {u}
          /\ faults' = faults \/ (faults < MaxFaults /\ faults' = faults + 1)
          /\ UNCHANGED <<main, round, ids, failed, slot, at, counted, admission, late, orphans>>
      BY <1>1 DEF Server!WorkerEnds
    <2>2. Server!Running' = Server!Running \ {u}
      BY <1>0, <2>1 DEF Server!Running, Server!TypeOK
    <2>3. Server!TypeOK'
      <3>1. faults' \in 0..MaxFaults
        BY <1>0, <2>1 DEF Server!TypeOK, Server!WorkersAssumption
      <3> QED BY <1>0, <2>1, <2>2, <3>1 DEF Server!TypeOK
    <2>4. Server!WithinLimit' /\ Server!CountsHold'
      BY <2>1, <2>2, CountsKept DEF Server!Gated
    <2>5. Server!NoneLeft' /\ Server!ShutdownListed'
      BY <2>1, <2>2, ListingKept DEF Server!Gated
    <2> QED BY <2>3, <2>4, <2>5 DEF Server!WorkersInv
  <1>2. ASSUME NEW u \in Users, NEW command \in {"run", "start"}, Server!OrphanLands(u, command)
        PROVE  Server!WorkersInv'
    <2>1. /\ orphans' \subseteq orphans
          /\ UNCHANGED <<main, round, ids, failed, slot, at, counted, admission, faults>>
      BY <1>2 DEF Server!OrphanLands
    <2>2. /\ container' \in [Users -> {"absent", "stopped", "running"}]
          /\ termed' \subseteq Server!Running' /\ late' \subseteq Users
          /\ Server!Running' \ late' \subseteq Server!Running \ late
          /\ Server!Running' \subseteq Server!Running \cup late'
          /\ late \subseteq late'
      BY <1>0, <1>2 DEF Server!OrphanLands, Server!Run, Server!Running, Server!Starts, Server!TypeOK
    <2>3. Server!Running' \subseteq Users
      BY DEF Server!Running
    <2>4. Server!TypeOK'
      BY <1>0, <2>1, <2>2, <2>3 DEF Server!TypeOK
    <2>5. Server!WithinLimit' /\ Server!CountsHold'
      BY <2>1, <2>2, CountsKept DEF Server!Gated
    <2>6. Server!NoneLeft' /\ Server!ShutdownListed'
      BY <2>1, <2>2, ListingKept DEF Server!Gated
    <2> QED BY <2>4, <2>5, <2>6 DEF Server!WorkersInv
  <1>3. CASE Server!Crash
    <2>1. Server!Exit /\ failed' = TRUE /\ UNCHANGED <<container, termed, late>>
      BY <1>3 DEF Server!Crash
    <2>2. faults' \in 0..MaxFaults
      BY <1>0, <1>3 DEF Server!Crash, Server!TypeOK, Server!WorkersAssumption
    <2>3. orphans' \subseteq Users \X {"run", "start"}
      BY <1>0, <1>3 DEF Server!Crash, Server!TypeOK
    <2>4. Server!NoneLeft'
      BY <2>1 DEF Server!NoneLeft
    <2> QED BY <2>1, <2>2, <2>3, <2>4, ExitKeepsWorkers
  <1>4. CASE Server!new
    <2>1. /\ main = "exited" /\ main' = "serving" /\ failed' = FALSE
          /\ UNCHANGED <<round, ids, slot, at, counted, admission, container, termed, late, orphans, faults>>
      BY <1>4 DEF Server!new
    <2>2. Server!Running' = Server!Running /\ Server!Idle' = Server!Idle
      BY <2>1 DEF Server!Running, Server!Idle
    <2>3. Server!TypeOK'
      BY <1>0, <2>1, <2>2 DEF Server!TypeOK
    <2>4. Server!WithinLimit' /\ Server!CountsHold'
      BY <2>1, <2>2, CountsKept DEF Server!Gated
    <2>5. Server!NoneLeft' /\ Server!ShutdownListed'
      BY <1>0, <2>1, <2>2 DEF Server!NoneLeft, Server!ShutdownListed
    <2> QED BY <2>3, <2>4, <2>5 DEF Server!WorkersInv
  <1> QED BY <1>1, <1>2, <1>3, <1>4

(* Before the first request the deployment is within its limit.             *)
LEMMA WorkersInit ==
    ASSUME Server!WorkersAssumption, Server!Init
    PROVE  Server!WorkersInv
  <1> USE DEF Server!Init
  <1>1. Server!Running \in SUBSET Users
    BY DEF Server!Running
  <1>2. /\ Server!Cardinality(Server!Running) \in Nat /\ Server!Cardinality(Users) \in Nat
        /\ Server!Cardinality(Server!Running \ late) <= Server!Cardinality(Server!Running)
        /\ Server!Cardinality(Server!Running \ late) \in Nat
    <2>1. Users \in SUBSET Users /\ Server!Running \ late \in SUBSET Server!Running
      OBVIOUS
    <2> QED BY <1>1, <2>1, FewerWorkers
  <1>3. failed \in BOOLEAN
    OBVIOUS
  <1>4. Server!TypeOK
    BY <1>2, <1>3 DEF Server!TypeOK, Server!WorkersAssumption
  <1>5. Server!WithinLimit
    BY <1>2 DEF Server!WithinLimit, Server!WorkersAssumption
  <1>6. Server!NoneLeft /\ Server!CountsHold /\ Server!ShutdownListed
    BY DEF Server!NoneLeft, Server!CountsHold, Server!ShutdownListed, Server!Gated, Server!Idle
  <1> QED BY <1>4, <1>5, <1>6 DEF Server!WorkersInv

(* Every step of the gateway keeps the invariant.                           *)
LEMMA StepsKeepWorkers ==
    ASSUME Server!WorkersAssumption, Server!WorkersInv, Server!Next
    PROVE  Server!WorkersInv'
  <1>1. ASSUME NEW u \in Users, Server!client(u) \/ Server!Admit(u) \/ Server!Step(u)
                               \/ Server!StepFails(u) \/ Server!Abandon(u)
        PROVE  Server!WorkersInv'
    <2>1. CASE Server!client(u) \/ Server!StepFails(u) \/ Server!Abandon(u) \/ Server!Probe(u)
      BY <2>1, RequestsKeepWorkers
    <2>2. CASE Server!Admit(u)
      BY <2>2, RequestsKeepWorkers, AdmittedKeepWorkers
    <2>3. CASE Server!Count(u)
      BY <2>3, AdmittedKeepWorkers
    <2>4. CASE Server!Decide(u)
      BY <2>4, RequestsKeepWorkers, AdmittedKeepWorkers
    <2>5. CASE Server!Launch(u)
      BY <2>5, RequestsKeepWorkers, AdmittedKeepWorkers
    <2> QED BY <1>1, <2>1, <2>2, <2>3, <2>4, <2>5 DEF Server!Step
  <1>2. ASSUME Server!Signal \/ Server!List \/ Server!Kill \/ Server!Wait \/ Server!Drain
               \/ \E u \in Users : Server!WaitFails(u)
        PROVE  Server!WorkersInv'
    BY <1>2, ShutdownKeepsWorkers
  <1>3. ASSUME \/ \E u \in Users : Server!WorkerEnds(u)
               \/ \E u \in Users, command \in {"run", "start"} : Server!OrphanLands(u, command)
               \/ Server!Crash \/ Server!new
        PROVE  Server!WorkersInv'
    BY <1>3, DockerKeepsWorkers
  <1> QED BY <1>1, <1>2, <1>3 DEF Server!Next

(* A container that starts although shutdown has begun was asked for by a   *)
(* command that nobody waits for any more.                                  *)
LEMMA StopStartsNothing ==
    ASSUME Server!WorkersInv, Server!Next, NEW u \in Users,
           main \in {"kill", "wait", "drain"} \/ round = 2,
           container[u] # "running", container'[u] = "running"
    PROVE  \E command \in {"run", "start"} : <<u, command>> \in orphans
  <1> USE DEF Server!docker
  <1>0. Server!TypeOK /\ \A v \in Users : ~Server!Gated(v)
    BY DEF Server!WorkersInv, Server!ShutdownListed, Server!Idle, Server!Gated
  <1>1. ASSUME NEW v \in Users, Server!client(v) \/ Server!Admit(v) \/ Server!Step(v)
                               \/ Server!StepFails(v) \/ Server!Abandon(v) \/ Server!WaitFails(v)
                               \/ Server!WorkerEnds(v)
        PROVE  FALSE
    <2>1. ~Server!Launch(v)
      BY <1>0 DEF Server!Launch, Server!Gated
    <2>2. \/ container' = container
          \/ container' = [container EXCEPT ![v] = "stopped"]
      BY <1>1, <2>1 DEF Server!client, Server!Admit, Server!Step, Server!Count, Server!Decide,
         Server!Probe, Server!StepFails, Server!Abandon, Server!WaitFails, Server!WorkerEnds
    <2> QED BY <1>0, <2>2 DEF Server!TypeOK
  <1>2. ASSUME Server!Signal \/ Server!List \/ Server!Kill \/ Server!Wait \/ Server!Drain
               \/ Server!Crash \/ Server!new
        PROVE  FALSE
    BY <1>2 DEF Server!Signal, Server!List, Server!Kill, Server!Wait, Server!Drain, Server!Crash,
       Server!new
  <1>3. ASSUME NEW v \in Users, NEW command \in {"run", "start"}, Server!OrphanLands(v, command)
        PROVE  v = u /\ <<v, command>> \in orphans
    BY <1>0, <1>3 DEF Server!OrphanLands, Server!Run, Server!TypeOK
  <1> QED BY <1>1, <1>2, <1>3 DEF Server!Next

(* With any number of users, through crashes, dropped requests and faults   *)
(* of docker, the workers keep to the limit, a clean shutdown leaves none   *)
(* and starts none any more, late ones aside.                               *)
THEOREM WorkersAreBounded == Spec => WorkersBounded
  <1> DEFINE Inv == part = "server" => Server!WorkersInv
             StartsLate ==
               \A u \in Users :
                 /\ main \in {"kill", "wait", "drain"} \/ round = 2
                 /\ container[u] # "running" /\ container'[u] = "running"
                 => \E command \in {"run", "start"} : <<u, command>> \in orphans
  <1>0. Server!WorkersAssumption
    BY HostsAssumption DEF HostsAssumption
  <1>1. Init => Inv
    BY <1>0, WorkersInit DEF Init
  <1>2. [Next]_vars => (part = "server" /\ Server!Next) \/ UNCHANGED server
    BY DEF Next, vars, host
  <1>3. [Next]_vars => part' = part
    BY DEF Next, vars
  <1>4. Inv /\ [Next]_vars => Inv'
    <2>1. CASE part = "server" /\ Server!Next
      BY <1>0, <1>3, <2>1, StepsKeepWorkers
    <2>2. CASE UNCHANGED server
      BY <1>3, <2>2 DEF server, Server!WorkersInv, Server!TypeOK, Server!WithinLimit,
         Server!NoneLeft, Server!CountsHold, Server!ShutdownListed, Server!Running,
         Server!Gated, Server!Idle
    <2> QED BY <1>2, <2>1, <2>2
  <1>5. Inv /\ [Next]_vars => [StartsLate]_(Server!vars)
    <2>1. CASE part = "server" /\ Server!Next
      BY <2>1, StopStartsNothing
    <2>2. CASE UNCHANGED server
      BY <2>2 DEF server, Server!vars, Server!gateway, Server!starts, Server!docker
    <2> QED BY <1>2, <2>1, <2>2
  <1>6. Spec => []Inv
    BY <1>1, <1>4, PTL DEF Spec
  <1>7. Spec => [][StartsLate]_(Server!vars)
    BY <1>5, <1>6, PTL DEF Spec
  <1> QED BY <1>6, <1>7, PTL DEF WorkersBounded, Server!NoneStarted

(* --------------------------- desktop documents -------------------------- *)

USE DEF Desktop!document, Desktop!backend, Desktop!saving, Desktop!quitting, Desktop!Set

(* Opens, backends, closes and saves respect the locks: whoever is at the   *)
(* gate or holds a document's lock is alone, and a backend runs behind a    *)
(* window.                                                                  *)
LEMMA DocumentsKeepLocks ==
    ASSUME Desktop!DocumentsAssumption, Desktop!DocumentsInv, NEW d \in Docs,
           \/ \E p \in Paths \cup {None} : Desktop!enqueue_open(d, p) \/ Desktop!Choose(d, p)
           \/ Desktop!Step(d) \/ Desktop!RunEnds(d) \/ Desktop!Acquire(d)
           \/ Desktop!request_close(d) \/ Desktop!settle_for_close(d) \/ Desktop!menu_save(d)
    PROVE  Desktop!TypeOK' /\ Desktop!LocksHeld' /\ Desktop!WindowsFirst'
  <1> DEFINE Locks == Desktop!TypeOK /\ Desktop!LocksHeld /\ Desktop!WindowsFirst
  <1> USE DEF Desktop!DocumentsAssumption, Desktop!TypeOK, Desktop!LocksHeld,
              Desktop!WindowsFirst, Desktop!SaveHolds, Desktop!CloseHolds
  <1>0. Locks
    BY DEF Desktop!DocumentsInv
  <1>1. ASSUME NEW p \in Paths \cup {None}, Desktop!enqueue_open(d, p) PROVE Locks'
    BY <1>0, <1>1 DEF Desktop!enqueue_open
  <1>2. CASE Desktop!OpenGate(d)
    BY <1>0, <1>2 DEF Desktop!OpenGate
  <1>3. CASE Desktop!open_window(d)
    BY <1>0, <1>3 DEF Desktop!open_window
  <1>4. CASE Desktop!RunOpens(d)
    BY <1>0, <1>4 DEF Desktop!RunOpens
  <1>5. CASE Desktop!RunEnds(d)
    BY <1>0, <1>5 DEF Desktop!RunEnds
  <1>6. CASE Desktop!RunFinishes(d)
    BY <1>0, <1>6 DEF Desktop!RunFinishes
  <1>7. CASE Desktop!request_close(d)
    BY <1>0, <1>7 DEF Desktop!request_close
  <1>8. CASE Desktop!CloseBegins(d)
    BY <1>0, <1>8 DEF Desktop!CloseBegins
  <1>9. CASE Desktop!settle_for_close(d)
    BY <1>0, <1>9 DEF Desktop!settle_for_close, Desktop!EndClose
  <1>10. CASE Desktop!stop(d)
    BY <1>0, <1>10 DEF Desktop!stop
  <1>11. CASE Desktop!CloseEnds(d)
    BY <1>0, <1>11 DEF Desktop!CloseEnds, Desktop!Closable, Desktop!EndClose
  <1>12. CASE Desktop!menu_save(d)
    BY <1>0, <1>12 DEF Desktop!menu_save
  <1>13. CASE Desktop!SaveBegins(d)
    BY <1>0, <1>13 DEF Desktop!SaveBegins
  <1>14. ASSUME NEW p \in Paths \cup {None}, Desktop!Choose(d, p) PROVE Locks'
    BY <1>0, <1>14 DEF Desktop!Choose, Desktop!EndSave, Desktop!EndClose
  <1>15. CASE Desktop!SaveGate(d)
    BY <1>0, <1>15 DEF Desktop!SaveGate, Desktop!EndSave, Desktop!EndClose
  <1>16. CASE Desktop!ProjectSave(d)
    BY <1>0, <1>16 DEF Desktop!ProjectSave, Desktop!EndSave, Desktop!EndClose
  <1>17. CASE Desktop!RecordPath(d)
    BY <1>0, <1>17 DEF Desktop!RecordPath, Desktop!EndSave, Desktop!EndClose
  <1> QED BY <1>1, <1>2, <1>3, <1>4, <1>5, <1>6, <1>7, <1>8, <1>9, <1>10, <1>11, <1>12,
             <1>13, <1>14, <1>15, <1>16, <1>17 DEF Desktop!Step, Desktop!Acquire

(* What a window owns nobody else gets: a path changes hands only at the    *)
(* gate, after every window has been asked for it.                          *)
LEMMA DocumentsKeepPaths ==
    ASSUME Desktop!DocumentsAssumption, Desktop!DocumentsInv, NEW d \in Docs,
           \/ \E p \in Paths \cup {None} : Desktop!enqueue_open(d, p) \/ Desktop!Choose(d, p)
           \/ Desktop!Step(d) \/ Desktop!RunEnds(d) \/ Desktop!Acquire(d)
           \/ Desktop!request_close(d) \/ Desktop!settle_for_close(d) \/ Desktop!menu_save(d)
    PROVE  Desktop!PathsKnown' /\ Desktop!OneOwner'
  <1> DEFINE Owners == Desktop!PathsKnown /\ Desktop!OneOwner
  <1> USE DEF Desktop!DocumentsAssumption, Desktop!TypeOK, Desktop!LocksHeld,
              Desktop!WindowsFirst, Desktop!PathsKnown, Desktop!OneOwner
  <1>0. Desktop!TypeOK /\ Desktop!LocksHeld /\ Desktop!WindowsFirst /\ Owners
    BY DEF Desktop!DocumentsInv
  <1>1. ASSUME NEW p \in Paths \cup {None}, Desktop!enqueue_open(d, p) PROVE Owners'
    BY <1>0, <1>1 DEF Desktop!enqueue_open
  <1>2. CASE Desktop!open_window(d)
    BY <1>0, <1>2 DEF Desktop!open_window, Desktop!Owned
  <1>3. CASE Desktop!RunOpens(d)
    BY <1>0, <1>3 DEF Desktop!RunOpens
  <1>4. CASE Desktop!RunEnds(d)
    BY <1>0, <1>4 DEF Desktop!RunEnds
  <1>5. CASE Desktop!RunFinishes(d)
    BY <1>0, <1>5 DEF Desktop!RunFinishes
  <1>6. CASE Desktop!OpenGate(d) \/ Desktop!request_close(d) \/ Desktop!CloseBegins(d) \/ Desktop!stop(d)
    BY <1>0, <1>6 DEF Desktop!OpenGate, Desktop!request_close, Desktop!CloseBegins, Desktop!stop
  <1>7. CASE Desktop!settle_for_close(d)
    BY <1>0, <1>7 DEF Desktop!settle_for_close, Desktop!EndClose, Desktop!SaveHolds,
       Desktop!CloseHolds
  <1>8. CASE Desktop!CloseEnds(d)
    BY <1>0, <1>8 DEF Desktop!CloseEnds, Desktop!Closable, Desktop!EndClose
  <1>9. CASE Desktop!menu_save(d)
    BY <1>0, <1>9 DEF Desktop!menu_save
  <1>10. CASE Desktop!SaveBegins(d)
    BY <1>0, <1>10 DEF Desktop!SaveBegins
  <1>11. ASSUME NEW p \in Paths \cup {None}, Desktop!Choose(d, p) PROVE Owners'
    BY <1>0, <1>11 DEF Desktop!Choose, Desktop!EndSave, Desktop!EndClose
  <1>12. CASE Desktop!SaveGate(d)
    BY <1>0, <1>12 DEF Desktop!SaveGate, Desktop!EndSave, Desktop!EndClose
  <1>13. CASE Desktop!ProjectSave(d)
    BY <1>0, <1>13 DEF Desktop!ProjectSave, Desktop!EndSave, Desktop!EndClose
  <1>14. CASE Desktop!RecordPath(d)
    BY <1>0, <1>14 DEF Desktop!RecordPath, Desktop!EndSave
  <1> QED BY <1>1, <1>2, <1>3, <1>4, <1>5, <1>6, <1>7, <1>8, <1>9, <1>10, <1>11, <1>12,
             <1>13, <1>14 DEF Desktop!Step, Desktop!Acquire

(* Nothing opens while Quit counts its windows, and what closes is counted. *)
LEMMA DocumentsKeepQuit ==
    ASSUME Desktop!DocumentsAssumption, Desktop!DocumentsInv, NEW d \in Docs,
           \/ \E p \in Paths \cup {None} : Desktop!enqueue_open(d, p) \/ Desktop!Choose(d, p)
           \/ Desktop!Step(d) \/ Desktop!RunEnds(d) \/ Desktop!Acquire(d)
           \/ Desktop!request_close(d) \/ Desktop!settle_for_close(d) \/ Desktop!menu_save(d)
    PROVE  Desktop!QuitCounts' /\ Desktop!QuitClosesAll'
  <1> DEFINE Quit == Desktop!QuitCounts /\ Desktop!QuitClosesAll
  <1> USE DEF Desktop!DocumentsAssumption, Desktop!TypeOK, Desktop!WindowsFirst,
              Desktop!QuitCounts, Desktop!QuitClosesAll
  <1>0. Desktop!TypeOK /\ Desktop!WindowsFirst /\ Quit
    BY DEF Desktop!DocumentsInv
  <1>1. ASSUME UNCHANGED <<listed, run, quit, outcome, q, left, visit, exited>> PROVE Quit'
    BY <1>0, <1>1
  <1>2. ASSUME NEW p \in Paths \cup {None}, Desktop!enqueue_open(d, p) PROVE Quit'
    BY <1>1, <1>2 DEF Desktop!enqueue_open
  <1>3. CASE Desktop!open_window(d)
    BY <1>0, <1>3 DEF Desktop!open_window, Desktop!Quitting
  <1>4. CASE Desktop!RunOpens(d)
    BY <1>0, <1>4 DEF Desktop!RunOpens
  <1>5. CASE Desktop!RunEnds(d)
    BY <1>0, <1>5 DEF Desktop!RunEnds
  <1>6. CASE Desktop!RunFinishes(d)
    BY <1>0, <1>6 DEF Desktop!RunFinishes
  <1>7. CASE Desktop!OpenGate(d) \/ Desktop!request_close(d) \/ Desktop!CloseBegins(d)
             \/ Desktop!stop(d) \/ Desktop!menu_save(d) \/ Desktop!SaveBegins(d)
    BY <1>1, <1>7 DEF Desktop!OpenGate, Desktop!request_close, Desktop!CloseBegins,
       Desktop!stop, Desktop!menu_save, Desktop!SaveBegins
  <1>8. ASSUME UNCHANGED <<listed, run>>, Desktop!EndClose(d, FALSE) PROVE Quit'
    BY <1>0, <1>8 DEF Desktop!EndClose
  <1>9. CASE Desktop!settle_for_close(d)
    BY <1>1, <1>8, <1>9 DEF Desktop!settle_for_close
  <1>10. CASE Desktop!CloseEnds(d)
    BY <1>0, <1>10 DEF Desktop!CloseEnds, Desktop!Closable, Desktop!EndClose
  <1>11. ASSUME NEW saved \in BOOLEAN, Desktop!EndSave(d, saved), UNCHANGED <<listed, run>> PROVE Quit'
    BY <1>1, <1>8, <1>11 DEF Desktop!EndSave
  <1>12. ASSUME NEW p \in Paths \cup {None}, Desktop!Choose(d, p) PROVE Quit'
    BY <1>1, <1>11, <1>12 DEF Desktop!Choose
  <1>13. CASE Desktop!SaveGate(d)
    BY <1>1, <1>11, <1>13 DEF Desktop!SaveGate
  <1>14. CASE Desktop!ProjectSave(d)
    BY <1>1, <1>11, <1>14 DEF Desktop!ProjectSave
  <1>15. CASE Desktop!RecordPath(d)
    BY <1>1, <1>11, <1>15 DEF Desktop!RecordPath
  <1> QED BY <1>2, <1>3, <1>4, <1>5, <1>6, <1>7, <1>9, <1>10, <1>12, <1>13, <1>14, <1>15
          DEF Desktop!Step, Desktop!Acquire

(* Exports take the gate; Quit and the updater take a lock of their own,    *)
(* under which they count the windows.                                      *)
LEMMA QuitKeepsDocuments ==
    ASSUME Desktop!DocumentsAssumption, Desktop!DocumentsInv,
           \/ \E k \in Quitters : \/ Desktop!close_all(k) \/ Desktop!Second(k)
                                  \/ Desktop!Snapshot(k) \/ Desktop!QuitStep(k)
           \/ (\E p \in Paths : Desktop!ExportGate(p)) \/ Desktop!Install \/ Desktop!intercept_exit
    PROVE  Desktop!DocumentsInv'
  <1> DEFINE Files == /\ Desktop!LocksHeld /\ Desktop!WindowsFirst
                      /\ Desktop!PathsKnown /\ Desktop!OneOwner
             Quit == Desktop!QuitCounts /\ Desktop!QuitClosesAll
  <1> USE DEF Desktop!DocumentsAssumption, Desktop!TypeOK
  <1>0. Desktop!TypeOK /\ Files /\ Quit
    BY DEF Desktop!DocumentsInv
  <1>1. ASSUME UNCHANGED <<open, path, listed, run, file, actions, save, dest, gate, exporting>>,
               close' = close \/ \E d \in Docs : close[d] = "none" /\ close' = [close EXCEPT ![d] = "wait"]
        PROVE  Files'
    BY <1>0, <1>1 DEF Desktop!LocksHeld, Desktop!WindowsFirst, Desktop!PathsKnown,
       Desktop!OneOwner, Desktop!SaveHolds, Desktop!CloseHolds
  <1>2. ASSUME NEW k \in Quitters, NEW d \in Docs, Desktop!CloseNext(k, d)
        PROVE  Desktop!TypeOK' /\ Files' /\ Quit'
    <2> USE <1>0, <1>2 DEF Desktop!CloseNext
    <2>1. Desktop!TypeOK'
      OBVIOUS
    <2>2. Files'
      BY <1>1
    <2>3. Quit'
      BY DEF Desktop!QuitCounts, Desktop!QuitClosesAll
    <2> QED BY <2>1, <2>2, <2>3
  <1>3. ASSUME NEW k \in Quitters,
               \/ Desktop!close_all(k) \/ Desktop!Second(k) \/ Desktop!Snapshot(k) \/ Desktop!Refuse(k)
               \/ Desktop!allow_exit(k) \/ Desktop!install_update(k)
        PROVE  Desktop!TypeOK' /\ Files' /\ Quit'
    <2>1. UNCHANGED <<open, path, listed, status, run, file, actions, save, dest, saves, close, gate, exporting>>
      BY <1>3 DEF Desktop!close_all, Desktop!Second, Desktop!Snapshot, Desktop!Refuse,
         Desktop!allow_exit, Desktop!install_update, Desktop!EndQuit
    <2>2. Files'
      BY <1>1, <2>1
    <2>3. outcome' \in BOOLEAN
      BY <1>0, <1>3 DEF Desktop!close_all, Desktop!Second, Desktop!Snapshot, Desktop!Refuse,
         Desktop!allow_exit, Desktop!install_update, Desktop!EndQuit
    <2>4. Desktop!TypeOK' /\ Quit'
      <3> USE <1>0, <2>1, <2>3 DEF Desktop!QuitCounts, Desktop!QuitClosesAll
      <3>1. CASE Desktop!close_all(k)
        BY <3>1 DEF Desktop!close_all
      <3>2. CASE Desktop!Second(k)
        BY <3>2 DEF Desktop!Second
      <3>3. CASE Desktop!Snapshot(k)
        BY <3>3 DEF Desktop!Snapshot
      <3>4. CASE Desktop!Refuse(k)
        BY <3>4 DEF Desktop!Refuse
      <3>5. CASE Desktop!allow_exit(k) \/ Desktop!install_update(k)
        <4>1. PICK approved \in BOOLEAN : Desktop!EndQuit(k, approved)
          BY <3>5 DEF Desktop!allow_exit, Desktop!install_update
        <4> QED BY <4>1 DEF Desktop!EndQuit, Desktop!AllClosed, Desktop!WindowsFirst
      <3> QED BY <1>3, <3>1, <3>2, <3>3, <3>4, <3>5
    <2> QED BY <2>2, <2>4
  <1>4. ASSUME (\E p \in Paths : Desktop!ExportGate(p)) \/ Desktop!Install
        PROVE  Desktop!TypeOK' /\ Files' /\ Quit'
    <2> USE <1>0, <1>4 DEF Desktop!ExportGate, Desktop!Install
    <2>1. Desktop!TypeOK'
      OBVIOUS
    <2>2. Files'
      BY DEF Desktop!LocksHeld, Desktop!WindowsFirst, Desktop!PathsKnown, Desktop!OneOwner,
         Desktop!SaveHolds, Desktop!CloseHolds, Desktop!Owned
    <2>3. Quit'
      BY DEF Desktop!QuitCounts, Desktop!QuitClosesAll
    <2> QED BY <2>1, <2>2, <2>3
  <1>5. ASSUME Desktop!intercept_exit
        PROVE  Desktop!TypeOK' /\ Files' /\ Quit'
    <2> USE <1>0, <1>5 DEF Desktop!intercept_exit
    <2>1. Desktop!TypeOK'
      OBVIOUS
    <2>2. Files'
      BY <1>1
    <2>3. Quit'
      BY DEF Desktop!QuitCounts, Desktop!QuitClosesAll
    <2> QED BY <2>1, <2>2, <2>3
  <1> QED BY <1>2, <1>3, <1>4, <1>5 DEF Desktop!QuitStep, Desktop!DocumentsInv

(* However windows, backends, exports, Quit and the updater interleave, a   *)
(* file has one owner, and Quit leaves nothing open.                        *)
THEOREM DocumentsAreOwned == Spec => []DocumentsOwned
  <1>0. Desktop!DocumentsAssumption
    BY HostsAssumption DEF HostsAssumption
  <1>1. Init => DocumentsOwned
    <2> SUFFICES ASSUME Desktop!Init PROVE Desktop!DocumentsInv
      BY DEF Init, DocumentsOwned
    <2> USE <1>0 DEF Desktop!DocumentsAssumption, Desktop!Init
    <2>1. outcome \in BOOLEAN /\ exited \in BOOLEAN
      OBVIOUS
    <2>2. Desktop!TypeOK
      BY <2>1 DEF Desktop!TypeOK
    <2>3. Desktop!OneOwner /\ Desktop!QuitClosesAll
      BY DEF Desktop!OneOwner, Desktop!QuitClosesAll
    <2>4. Desktop!LocksHeld /\ Desktop!WindowsFirst /\ Desktop!PathsKnown /\ Desktop!QuitCounts
      BY DEF Desktop!LocksHeld, Desktop!WindowsFirst, Desktop!PathsKnown, Desktop!QuitCounts,
         Desktop!SaveHolds, Desktop!CloseHolds
    <2> QED BY <2>2, <2>3, <2>4 DEF Desktop!DocumentsInv
  <1>2. Desktop!DocumentsInv /\ Desktop!Next => Desktop!DocumentsInv'
    BY <1>0, DocumentsKeepLocks, DocumentsKeepPaths, DocumentsKeepQuit, QuitKeepsDocuments
       DEF Desktop!Next, Desktop!DocumentsInv
  <1>3. DocumentsOwned /\ [Next]_vars => DocumentsOwned'
    <2>1. CASE part = "desktop" /\ Desktop!Next
      BY <1>2, <2>1 DEF DocumentsOwned
    <2>2. CASE UNCHANGED <<part, desktop>>
      BY <2>2 DEF desktop, DocumentsOwned, Desktop!DocumentsInv, Desktop!TypeOK,
         Desktop!OneOwner, Desktop!QuitClosesAll, Desktop!LocksHeld, Desktop!WindowsFirst,
         Desktop!PathsKnown, Desktop!QuitCounts, Desktop!SaveHolds, Desktop!CloseHolds
    <2> QED BY <2>1, <2>2 DEF Next, vars, host, DocumentsOwned
  <1> QED BY <1>1, <1>3, PTL DEF Spec

(* ---------------------------- files on disk ----------------------------- *)

(* The file that a name stands for.                                         *)
File(n) == Identity[n]

(* Names and their files, before and after a step.                          *)
LEMMA FileNames ==
    ASSUME Disk!SaveToAssumption
    PROVE  /\ \A n \in Names : File(n) \in Disk!Files
           /\ Private \in Names /\ \A n \in Names : File(n) = File(Private) => n = Private
           /\ current \in Names => Disk!Own = File(current)
           /\ current' \in Names => Disk!Own' = File(current')
           /\ op.dest \in Names => Disk!Dest = File(op.dest)
           /\ op'.dest \in Names => Disk!Dest' = File(op'.dest)
  BY DEF Disk!SaveToAssumption, Disk!Files, Disk!Own, Disk!Dest, File

LEMMA SpellingsKept ==
           /\ Disk!TypeOK => \A f \in Disk!Files : name[f] \in Names /\ File(name[f]) = f
           /\ name' \in [Disk!Files -> Names] /\ (\A f \in Disk!Files : File(name'[f]) = f)
              => (\A f \in Disk!Files : Identity[name[f]] = f)'
  BY DEF Disk!TypeOK, File

(* The type invariant, in the parts that a step has to keep.                *)
LEMMA DiskTypes ==
    ASSUME Disk!SaveToAssumption,
           dir' \in [Disk!Files -> Disk!Content], name' \in [Disk!Files -> Names],
           \A f \in Disk!Files : File(name'[f]) = f,
           current' \in Names, version' \in 0..MaxWrites, opened' \subseteq Disk!Files,
           op' \in [dest : Names, rename : BOOLEAN, same : BOOLEAN, approved : BOOLEAN,
                    lock : BOOLEAN, installed : BOOLEAN],
           pc' \in {"idle", "chosen", "lock", "stage", "aside", "install", "open", "move",
                    "remove", "restore"},
           staged' \in Disk!Content, original' \in Disk!Content,
           stranded' \in BOOLEAN, up' \in BOOLEAN, ops' \in 0..MaxOps
    PROVE  Disk!TypeOK'
  <1>1. Disk!Files' = Disk!Files /\ Disk!Content' = Disk!Content
    BY DEF Disk!Files, Disk!Content
  <1>2. (\A f \in Disk!Files : Identity[name[f]] = f)'
    BY SpellingsKept
  <1>3. stranded' \in BOOLEAN /\ up' \in BOOLEAN
    OBVIOUS
  <1> QED BY <1>1, <1>2, <1>3, Zenon DEF Disk!TypeOK

(* The first state of a project in its own file.                            *)
LEMMA DiskInit ==
    ASSUME Disk!SaveToAssumption, Disk!Init
    PROVE  Disk!SaveToInv
  <1> USE DEF Disk!SaveToAssumption, Disk!Init, Disk!NoOp, Disk!Content
  <1>1. current \in Names /\ Disk!Own \in Disk!Files /\ Disk!Own = File(current)
    BY FileNames
  <1>2. \A f \in Disk!Files : name[f] \in Names /\ File(name[f]) = f
    <2> SUFFICES ASSUME NEW f \in Disk!Files
                 PROVE  name[f] \in Names /\ File(name[f]) = f
      OBVIOUS
    <2>1. CASE f = Disk!Own
      BY <1>1, <2>1
    <2>2. CASE f # Disk!Own
      <3>1. \E n \in Names : Identity[n] = f
        BY DEF Disk!Files
      <3>2. name[f] = CHOOSE n \in Names : Identity[n] = f
        BY <2>2
      <3>3. name[f] \in Names /\ Identity[name[f]] = f
        BY <3>1, <3>2
      <3> QED BY <3>3 DEF File
    <2> QED BY <2>1, <2>2
  <1>3. Disk!TypeOK
    <2>1. dir \in [Disk!Files -> Disk!Content] /\ name \in [Disk!Files -> Names]
      BY <1>1, <1>2
    <2>2. \A f \in Disk!Files : Identity[name[f]] = f
      BY <1>2 DEF File
    <2>3. op \in [dest : Names, rename : BOOLEAN, same : BOOLEAN, approved : BOOLEAN,
                  lock : BOOLEAN, installed : BOOLEAN]
      OBVIOUS
    <2>4. stranded \in BOOLEAN /\ up \in BOOLEAN
      OBVIOUS
    <2> QED BY <1>1, <2>1, <2>2, <2>3, <2>4 DEF Disk!TypeOK
  <1>4. Disk!OperationFits /\ Disk!DestinationLocked
    BY DEF Disk!OperationFits, Disk!DestinationLocked
  <1>5. Disk!CopiesComplete /\ Disk!ProjectKept
    BY <1>1 DEF Disk!CopiesComplete, Disk!ProjectKept, Disk!Aside
  <1> QED BY <1>3, <1>4, <1>5 DEF Disk!SaveToInv

(* An operation may end when the project lies complete under its name.      *)
LEMMA OperationsEnd ==
    ASSUME Disk!SaveToAssumption, Disk!SaveToInv, Disk!End, ~stranded,
           dir' \in [Disk!Files -> Disk!Content], name' \in [Disk!Files -> Names],
           \A f \in Disk!Files : File(name'[f]) = f,
           current' \in Names, dir'[File(current')] = version, name'[File(current')] = current'
    PROVE  Disk!SaveToInv'
  <1>0. Disk!TypeOK
    BY DEF Disk!SaveToInv
  <1>1. /\ pc' = "idle" /\ op' = Disk!NoOp /\ staged' = None /\ original' = None
        /\ UNCHANGED <<version, opened, stranded, up, ops>>
    BY DEF Disk!End
  <1>2. /\ Disk!Own' = File(current') /\ Disk!Own' \in Disk!Files
        /\ Private \in Names /\ Disk!Files' = Disk!Files /\ Disk!NoOp' = Disk!NoOp
    BY FileNames DEF Disk!Files, Disk!NoOp
  <1>3. Disk!TypeOK'
    <2>1. op' \in [dest : Names, rename : BOOLEAN, same : BOOLEAN, approved : BOOLEAN,
                   lock : BOOLEAN, installed : BOOLEAN]
      BY <1>1, <1>2 DEF Disk!NoOp
    <2>2. stranded' \in BOOLEAN /\ up' \in BOOLEAN
      BY <1>0, <1>1 DEF Disk!TypeOK
    <2>3. /\ version' \in 0..MaxWrites /\ opened' \subseteq Disk!Files /\ ops' \in 0..MaxOps
          /\ staged' \in Disk!Content /\ original' \in Disk!Content /\ pc' = "idle"
      BY <1>0, <1>1 DEF Disk!TypeOK, Disk!Content
    <2> QED BY <2>1, <2>2, <2>3, DiskTypes
  <1>4. Disk!OperationFits' /\ Disk!DestinationLocked'
    BY <1>1, <1>2 DEF Disk!OperationFits, Disk!DestinationLocked, Disk!NoOp
  <1>5. Disk!CopiesComplete' /\ Disk!ProjectKept'
    BY <1>1, <1>2 DEF Disk!CopiesComplete, Disk!ProjectKept, Disk!Aside
  <1> QED BY <1>3, <1>4, <1>5 DEF Disk!SaveToInv

(* It fails without a trace unless its own file has left its name.          *)
LEMMA OperationsFail ==
    ASSUME Disk!SaveToAssumption, Disk!SaveToInv, Disk!Failed, ~stranded, ~Disk!Aside
    PROVE  Disk!SaveToInv'
  <1>0. Disk!TypeOK /\ Disk!CopiesComplete
    BY DEF Disk!SaveToInv
  <1>1. Disk!End /\ UNCHANGED <<dir, name, current>>
    BY DEF Disk!Failed
  <1>2. /\ dir \in [Disk!Files -> Disk!Content] /\ name \in [Disk!Files -> Names]
        /\ current \in Names /\ \A f \in Disk!Files : File(name[f]) = f
    BY <1>0, SpellingsKept DEF Disk!TypeOK
  <1>3. dir[File(current)] = version /\ name[File(current)] = current
    BY <1>0, <1>2, FileNames DEF Disk!CopiesComplete
  <1> QED BY <1>1, <1>2, <1>3, OperationsEnd

Operation == [dest : Names, rename : BOOLEAN, same : BOOLEAN, approved : BOOLEAN,
              lock : BOOLEAN, installed : BOOLEAN]

(* What an invariant state says of the operation's two files.               *)
LEMMA OperationFiles ==
    ASSUME Disk!SaveToAssumption, Disk!TypeOK
    PROVE  /\ Private \in Names /\ current \in Names /\ op \in Operation
           /\ Disk!Own = File(current) /\ Disk!Dest = File(op.dest)
           /\ Disk!Own \in Disk!Files /\ Disk!Dest \in Disk!Files
           /\ dir \in [Disk!Files -> Disk!Content] /\ name \in [Disk!Files -> Names]
           /\ \A f \in Disk!Files : File(name[f]) = f
           /\ version \in 0..MaxWrites /\ version # None /\ version \in Disk!Content
           /\ \A n \in Names : File(n) \in Disk!Files
           /\ \A n \in Names : File(n) = File(Private) => n = Private
  <1>1. op \in Operation /\ current \in Names
    BY DEF Disk!TypeOK, Operation
  <1>2. op.dest \in Names
    BY <1>1 DEF Operation
  <1>3. version \in 0..MaxWrites /\ version # None /\ version \in Disk!Content
    BY DEF Disk!TypeOK, Disk!SaveToAssumption, Disk!Content
  <1>4. dir \in [Disk!Files -> Disk!Content] /\ name \in [Disk!Files -> Names]
    BY DEF Disk!TypeOK
  <1> QED BY <1>1, <1>2, <1>3, <1>4, FileNames, SpellingsKept

(* An operation that goes on keeps the types and the project's own path.    *)
LEMMA OperationsGoOn ==
    ASSUME Disk!SaveToAssumption, Disk!TypeOK, op' \in Operation, ops' \in 0..MaxOps,
           pc' \in {"chosen", "lock", "stage", "aside", "install", "open", "move", "remove",
                    "restore"},
           staged' \in Disk!Content, original' \in Disk!Content,
           dir' \in [Disk!Files -> Disk!Content], name' \in [Disk!Files -> Names],
           \A f \in Disk!Files : File(name'[f]) = f,
           UNCHANGED <<current, version, opened, stranded, up>>
    PROVE  Disk!TypeOK' /\ Disk!Own' = Disk!Own /\ Disk!Dest' = File(op'.dest)
  <1>1. Disk!Own' = Disk!Own /\ Disk!Dest' = File(op'.dest)
    BY FileNames, OperationFiles DEF Operation
  <1>2. stranded' \in BOOLEAN /\ up' \in BOOLEAN
    BY DEF Disk!TypeOK
  <1>3. current' \in Names /\ version' \in 0..MaxWrites /\ opened' \subseteq Disk!Files
    BY DEF Disk!TypeOK
  <1>4. op' \in [dest : Names, rename : BOOLEAN, same : BOOLEAN, approved : BOOLEAN,
                 lock : BOOLEAN, installed : BOOLEAN]
    BY DEF Operation
  <1> QED BY <1>1, <1>2, <1>3, <1>4, DiskTypes

(* An operation begins: its destination is chosen, compared with the        *)
(* project's own file and locked.                                           *)
LEMMA BeginningsKeepFiles ==
    ASSUME Disk!SaveToAssumption, Disk!SaveToInv,
           \/ \E n \in Names, rename \in BOOLEAN : Disk!Choose(n, rename)
           \/ Disk!Begin \/ Disk!lock_destination
    PROVE  Disk!SaveToInv'
  <1>0. Disk!TypeOK /\ Disk!ProjectKept /\ Disk!OperationFits /\ Disk!CopiesComplete
        /\ Disk!DestinationLocked
    BY DEF Disk!SaveToInv
  <1> DEFINE Still == UNCHANGED <<dir, name, current, version, opened, staged, original,
                                  stranded, up>>
  <1>1. ASSUME NEW n \in Names, NEW rename \in BOOLEAN, Disk!Choose(n, rename)
        PROVE  Disk!SaveToInv'
    <2>1. /\ ~stranded /\ pc = "idle" /\ ops < MaxOps /\ n # Private
          /\ rename => current # Private
          /\ op'.dest = n /\ op'.rename = rename /\ ~op'.same /\ ~op'.lock /\ ~op'.installed
          /\ op' \in Operation /\ pc' = "chosen" /\ ops' = ops + 1 /\ Still
      BY <1>1, OperationFiles, <1>0 DEF Disk!Choose, Disk!NoOp, Disk!temporary, Operation
    <2>2. ops' \in 0..MaxOps /\ staged \in Disk!Content /\ original \in Disk!Content
      BY <1>0, <2>1 DEF Disk!TypeOK, Disk!SaveToAssumption
    <2>3. Disk!TypeOK' /\ Disk!Own' = Disk!Own
      BY <1>0, <2>1, <2>2, OperationFiles, OperationsGoOn
    <2>4. Disk!OperationFits' /\ Disk!DestinationLocked'
      BY <2>1 DEF Disk!OperationFits, Disk!DestinationLocked, Disk!temporary
    <2>5. Disk!CopiesComplete' /\ Disk!ProjectKept'
      BY <1>0, <2>1, <2>3, OperationFiles
         DEF Disk!CopiesComplete, Disk!ProjectKept, Disk!Aside, Disk!Files
    <2> QED BY <2>3, <2>4, <2>5 DEF Disk!SaveToInv
  <1>2. CASE Disk!Begin
    <2>1. pc = "chosen" /\ ~stranded /\ ~Disk!Aside
      BY <1>0, <1>2 DEF Disk!Begin, Disk!OperationFits, Disk!Aside
    <2>2. CASE Disk!Failed
      BY <2>1, <2>2, OperationsFail
    <2>3. ASSUME NEW same \in BOOLEAN, same = (dir[Disk!Dest] # None /\ Disk!Dest = Disk!Own),
                 IF same THEN op.rename ELSE op.rename => dir[Disk!Dest] = None,
                 op' = [op EXCEPT !.same = same],
                 pc' = IF op.rename THEN "stage" ELSE "lock", Still, UNCHANGED ops
          PROVE  Disk!SaveToInv'
      <3>1. /\ op' \in Operation /\ op'.same = same
            /\ op'.dest = op.dest /\ op'.rename = op.rename
            /\ op'.lock = op.lock /\ op'.installed = op.installed
        BY <1>0, <2>3, OperationFiles DEF Operation
      <3>2. dir[Disk!Own] = version /\ dir[Disk!Own] # None
        BY <1>0, <2>1, OperationFiles DEF Disk!CopiesComplete
      <3>3. ops \in 0..MaxOps /\ staged \in Disk!Content /\ original \in Disk!Content
        BY <1>0 DEF Disk!TypeOK
      <3>4. Disk!TypeOK' /\ Disk!Own' = Disk!Own /\ Disk!Dest' = Disk!Dest
        BY <1>0, <2>3, <3>1, <3>3, OperationFiles, OperationsGoOn
      <3>5. Disk!OperationFits' /\ Disk!DestinationLocked'
        BY <1>0, <2>1, <2>3, <3>1, <3>2, <3>4
           DEF Disk!OperationFits, Disk!DestinationLocked, Disk!temporary
      <3>6. Disk!CopiesComplete' /\ Disk!ProjectKept'
        BY <1>0, <2>1, <2>3, <3>1, <3>4, OperationFiles
           DEF Disk!CopiesComplete, Disk!ProjectKept, Disk!Aside, Disk!Files
      <3> QED BY <3>4, <3>5, <3>6 DEF Disk!SaveToInv
    <2> QED BY <1>2, <2>2, <2>3 DEF Disk!Begin
  <1>3. CASE Disk!lock_destination
    <2>1. pc = "lock" /\ ~stranded /\ ~Disk!Aside
      BY <1>0, <1>3 DEF Disk!lock_destination, Disk!OperationFits, Disk!Aside
    <2>2. CASE Disk!Failed
      BY <2>1, <2>2, OperationsFail
    <2>3. CASE ~Disk!Failed
      <3>1. /\ Disk!Dest \notin opened /\ pc' = "stage" /\ Still /\ UNCHANGED ops
            /\ op' = [op EXCEPT !.lock = dir[Disk!Dest] # None]
        BY <1>3, <2>3 DEF Disk!lock_destination
      <3>2. /\ op' \in Operation /\ op'.same = op.same
            /\ op'.dest = op.dest /\ op'.rename = op.rename /\ op'.installed = op.installed
        BY <1>0, <3>1, OperationFiles DEF Operation
      <3>3. ops \in 0..MaxOps /\ staged \in Disk!Content /\ original \in Disk!Content
        BY <1>0 DEF Disk!TypeOK
      <3>4. Disk!TypeOK' /\ Disk!Own' = Disk!Own /\ Disk!Dest' = Disk!Dest
        BY <1>0, <3>1, <3>2, <3>3, OperationFiles, OperationsGoOn
      <3>5. Disk!OperationFits' /\ Disk!DestinationLocked'
        BY <1>0, <2>1, <3>1, <3>2, <3>4
           DEF Disk!OperationFits, Disk!DestinationLocked, Disk!temporary
      <3>6. Disk!CopiesComplete' /\ Disk!ProjectKept'
        BY <1>0, <2>1, <3>1, <3>2, <3>4, OperationFiles
           DEF Disk!CopiesComplete, Disk!ProjectKept, Disk!Aside, Disk!Files
      <3> QED BY <3>4, <3>5, <3>6 DEF Disk!SaveToInv
    <2> QED BY <2>2, <2>3
  <1> QED BY <1>1, <1>2, <1>3

(* The project is copied, and leaves its name if only the spelling changes. *)
LEMMA CopiesKeepFiles ==
    ASSUME Disk!SaveToAssumption, Disk!SaveToInv, Disk!Stage \/ Disk!MoveAside
    PROVE  Disk!SaveToInv'
  <1>0. Disk!TypeOK /\ Disk!ProjectKept /\ Disk!OperationFits /\ Disk!CopiesComplete
        /\ Disk!DestinationLocked
    BY DEF Disk!SaveToInv
  <1>1. pc \in {"stage", "aside"} /\ ~stranded /\ ~Disk!Aside
    BY <1>0 DEF Disk!Stage, Disk!MoveAside, Disk!OperationFits, Disk!Aside
  <1>2. dir[Disk!Own] = version /\ name[Disk!Own] = current
    BY <1>0, <1>1 DEF Disk!CopiesComplete
  <1>3. CASE Disk!Failed
    BY <1>1, <1>3, OperationsFail
  <1>4. CASE Disk!Stage /\ ~Disk!Failed
    <2>1. /\ pc = "stage" /\ staged' = version
          /\ pc' = IF op.rename /\ op.same THEN "aside" ELSE "install"
          /\ UNCHANGED <<dir, name, current, version, opened, op, original, stranded, up, ops>>
      BY <1>2, <1>4 DEF Disk!Stage
    <2>2. ops \in 0..MaxOps /\ original \in Disk!Content
      BY <1>0 DEF Disk!TypeOK
    <2>3. Disk!TypeOK' /\ Disk!Own' = Disk!Own /\ Disk!Dest' = Disk!Dest
      BY <1>0, <2>1, <2>2, OperationFiles, OperationsGoOn
    <2>4. Disk!OperationFits' /\ Disk!DestinationLocked'
      BY <1>0, <2>1, <2>3 DEF Disk!OperationFits, Disk!DestinationLocked, Disk!temporary
    <2>5. Disk!CopiesComplete' /\ Disk!ProjectKept'
      BY <1>0, <1>1, <2>1, <2>3, OperationFiles
         DEF Disk!CopiesComplete, Disk!ProjectKept, Disk!Aside, Disk!Files
    <2> QED BY <2>3, <2>4, <2>5 DEF Disk!SaveToInv
  <1>5. CASE Disk!MoveAside /\ ~Disk!Failed
    <2>1. /\ pc = "aside" /\ original' = version /\ pc' = "install"
          /\ dir' = [dir EXCEPT ![Disk!Own] = None]
          /\ UNCHANGED <<name, current, version, opened, op, staged, stranded, up, ops>>
      BY <1>2, <1>5 DEF Disk!MoveAside
    <2>2. /\ ops \in 0..MaxOps /\ staged \in Disk!Content
          /\ dir' \in [Disk!Files -> Disk!Content]
      BY <1>0, <2>1 DEF Disk!TypeOK, Disk!Content
    <2>3. Disk!TypeOK' /\ Disk!Own' = Disk!Own /\ Disk!Dest' = Disk!Dest
      BY <1>0, <2>1, <2>2, OperationFiles, OperationsGoOn
    <2>4. Disk!OperationFits' /\ Disk!DestinationLocked'
      BY <1>0, <2>1, <2>3 DEF Disk!OperationFits, Disk!DestinationLocked, Disk!temporary
    <2>5. Disk!CopiesComplete' /\ Disk!ProjectKept'
      BY <1>0, <1>1, <2>1, <2>3, OperationFiles
         DEF Disk!CopiesComplete, Disk!ProjectKept, Disk!Aside, Disk!Files, Disk!OperationFits
    <2> QED BY <2>3, <2>4, <2>5 DEF Disk!SaveToInv
  <1> QED BY <1>3, <1>4, <1>5

(* The copy is installed, at a free name or over a file that was locked.    *)
LEMMA InstallKeepsFiles ==
    ASSUME Disk!SaveToAssumption, Disk!SaveToInv, Disk!Install
    PROVE  Disk!SaveToInv'
  <1>0. Disk!TypeOK /\ Disk!ProjectKept /\ Disk!OperationFits /\ Disk!CopiesComplete
        /\ Disk!DestinationLocked
    BY DEF Disk!SaveToInv
  <1>1. pc = "install" /\ ~stranded /\ staged = version
    BY <1>0 DEF Disk!Install, Disk!OperationFits, Disk!CopiesComplete
  <1>2. /\ ops \in 0..MaxOps /\ staged \in Disk!Content /\ original \in Disk!Content
        /\ op.dest \in Names
    BY <1>0 DEF Disk!TypeOK
  <1>3. CASE pc' = "open"
    <2>1. /\ dir' = [dir EXCEPT ![Disk!Dest] = version]
          /\ name' = [name EXCEPT ![Disk!Dest] = IF dir[Disk!Dest] = None THEN op.dest
                                                 ELSE name[Disk!Dest]]
          /\ op' = [op EXCEPT !.installed = TRUE]
          /\ UNCHANGED <<current, version, opened, staged, original, stranded, up, ops>>
      BY <1>1, <1>3 DEF Disk!Install
    <2>2. /\ op' \in Operation /\ op'.same = op.same /\ op'.dest = op.dest
          /\ op'.rename = op.rename /\ op'.lock = op.lock /\ op'.installed = TRUE
      BY <1>0, <2>1, OperationFiles DEF Operation
    <2>3. /\ dir' \in [Disk!Files -> Disk!Content] /\ name' \in [Disk!Files -> Names]
          /\ \A f \in Disk!Files : File(name'[f]) = f
          /\ dir'[Disk!Dest] = version
          /\ \A f \in Disk!Files \ {Disk!Dest} : dir'[f] = dir[f] /\ name'[f] = name[f]
      BY <1>0, <1>2, <2>1, OperationFiles
    <2>4. Disk!TypeOK' /\ Disk!Own' = Disk!Own /\ Disk!Dest' = Disk!Dest
      BY <1>0, <1>2, <1>3, <2>1, <2>2, <2>3, OperationFiles, OperationsGoOn
    <2>5. Disk!OperationFits' /\ Disk!DestinationLocked'
      BY <1>0, <1>1, <1>3, <2>1, <2>2, <2>4
         DEF Disk!OperationFits, Disk!DestinationLocked, Disk!temporary
    <2>6. Disk!CopiesComplete'
      BY <1>0, <1>1, <1>3, <2>1, <2>2, <2>3, <2>4, OperationFiles
         DEF Disk!CopiesComplete, Disk!Aside, Disk!OperationFits
    <2>7. Disk!ProjectKept'
      BY <1>0, <1>1, <1>3, <2>1, <2>2, <2>3, <2>4, <2>6, OperationFiles
         DEF Disk!CopiesComplete, Disk!ProjectKept, Disk!Files
    <2> QED BY <2>4, <2>5, <2>6, <2>7 DEF Disk!SaveToInv
  <1>4. CASE pc' # "open"
    <2>1. /\ pc' = "remove"
          /\ UNCHANGED <<dir, name, current, version, opened, op, staged, original, stranded, up, ops>>
      BY <1>4 DEF Disk!Install
    <2>2. Disk!TypeOK' /\ Disk!Own' = Disk!Own /\ Disk!Dest' = Disk!Dest
      BY <1>0, <1>2, <2>1, OperationFiles, OperationsGoOn
    <2>3. Disk!OperationFits' /\ Disk!DestinationLocked'
      BY <1>0, <1>1, <2>1, <2>2 DEF Disk!OperationFits, Disk!DestinationLocked, Disk!temporary
    <2>4. ~op.installed
      BY <1>0, <1>1 DEF Disk!OperationFits
    <2>5. Disk!CopiesComplete' /\ Disk!ProjectKept'
      BY <1>0, <1>1, <2>1, <2>2, <2>4, OperationFiles
         DEF Disk!CopiesComplete, Disk!ProjectKept, Disk!Aside, Disk!Files
    <2> QED BY <2>2, <2>3, <2>5 DEF Disk!SaveToInv
  <1> QED BY <1>3, <1>4

(* The project goes on in the installed copy.                               *)
LEMMA SwitchesKeepFiles ==
    ASSUME Disk!SaveToAssumption, Disk!SaveToInv, pc \in {"open", "move"},
           NEW d \in [Disk!Files -> Disk!Content], d[Disk!Dest] = version, Disk!Switch(d)
    PROVE  Disk!SaveToInv'
  <1>0. Disk!TypeOK /\ Disk!OperationFits
    BY DEF Disk!SaveToInv
  <1>1. /\ Disk!End /\ current' = name[Disk!Dest] /\ name' = name
        /\ dir' = [f \in Disk!Files |-> IF f = File(Private) /\ current = Private THEN None ELSE d[f]]
    BY <1>0, OperationFiles DEF Disk!Switch, Disk!temporary, File
  <1>2. op.dest # Private /\ ~stranded
    BY <1>0 DEF Disk!OperationFits
  <1>3. Disk!Dest # File(Private) /\ File(name[Disk!Dest]) = Disk!Dest
    BY <1>0, <1>2, OperationFiles DEF Operation
  <1>4. /\ dir' \in [Disk!Files -> Disk!Content] /\ dir'[Disk!Dest] = version
        /\ current' \in Names /\ File(current') = Disk!Dest
    BY <1>0, <1>1, <1>3, OperationFiles DEF Disk!Content
  <1> QED BY <1>0, <1>1, <1>2, <1>4, OperationFiles, OperationsEnd

(* The installed copy is opened, and the old file of a renamed project goes *)
(* last; if it cannot, the copy is taken back.                              *)
LEMMA OpeningsKeepFiles ==
    ASSUME Disk!SaveToAssumption, Disk!SaveToInv, Disk!Open \/ Disk!MoveOld
    PROVE  Disk!SaveToInv'
  <1>0. Disk!TypeOK /\ Disk!ProjectKept /\ Disk!OperationFits /\ Disk!CopiesComplete
        /\ Disk!DestinationLocked
    BY DEF Disk!SaveToInv
  <1>1. /\ pc \in {"open", "move"} /\ ~stranded /\ op.installed
        /\ dir[Disk!Dest] = version /\ staged = version
    BY <1>0 DEF Disk!Open, Disk!MoveOld, Disk!OperationFits, Disk!CopiesComplete
  <1>2. ASSUME Disk!Open, pc' \in {"move", "remove"},
               pc' = "move" => op.rename /\ ~op.same,
               UNCHANGED <<dir, name, current, version, opened, op, staged, original, stranded, up, ops>>
        PROVE  Disk!SaveToInv'
    <2>1. pc = "open" /\ ops \in 0..MaxOps /\ staged \in Disk!Content /\ original \in Disk!Content
      BY <1>0, <1>2 DEF Disk!TypeOK, Disk!Open
    <2>2. Disk!TypeOK' /\ Disk!Own' = Disk!Own /\ Disk!Dest' = Disk!Dest
      BY <1>0, <1>2, <2>1, OperationFiles, OperationsGoOn
    <2>3. Disk!OperationFits' /\ Disk!DestinationLocked'
      BY <1>0, <1>2, <2>1, <2>2 DEF Disk!OperationFits, Disk!DestinationLocked, Disk!temporary
    <2>4. Disk!CopiesComplete' /\ Disk!ProjectKept'
      BY <1>0, <1>1, <1>2, <2>1, <2>2, OperationFiles
         DEF Disk!CopiesComplete, Disk!ProjectKept, Disk!Aside, Disk!Files
    <2> QED BY <2>2, <2>3, <2>4 DEF Disk!SaveToInv
  <1>3. CASE Disk!Open
    BY <1>0, <1>1, <1>2, <1>3, OperationFiles, SwitchesKeepFiles DEF Disk!Open
  <1>4. CASE Disk!MoveOld
    <2>1. pc = "move" /\ op.rename /\ ~op.same /\ ~Disk!Aside /\ Disk!Dest # Disk!Own
      BY <1>0, <1>4 DEF Disk!MoveOld, Disk!OperationFits, Disk!Aside
    <2>2. CASE Disk!Switch([dir EXCEPT ![Disk!Own] = None])
      <3>1. /\ [dir EXCEPT ![Disk!Own] = None] \in [Disk!Files -> Disk!Content]
            /\ [dir EXCEPT ![Disk!Own] = None][Disk!Dest] = version
        BY <1>0, <1>1, <2>1, OperationFiles DEF Disk!Content
      <3> QED BY <1>1, <2>2, <3>1, SwitchesKeepFiles
    <2>3. CASE Disk!Failed
      BY <1>1, <2>1, <2>3, OperationsFail
    <2>4. CASE Disk!End /\ dir' = [dir EXCEPT ![Disk!Dest] = None] /\ UNCHANGED <<name, current>>
      <3>1. /\ dir' \in [Disk!Files -> Disk!Content]
            /\ dir'[Disk!Own] = version /\ name[Disk!Own] = current
        BY <1>0, <1>1, <2>1, <2>4, OperationFiles DEF Disk!CopiesComplete, Disk!Content
      <3> QED BY <1>0, <1>1, <2>4, <3>1, OperationFiles, OperationsEnd
    <2> QED BY <1>4, <2>2, <2>3, <2>4 DEF Disk!MoveOld
  <1> QED BY <1>3, <1>4

(* A failed operation takes back what it installed and puts its own file    *)
(* back under its name, or keeps the directory that has it.                 *)
LEMMA RollbacksKeepFiles ==
    ASSUME Disk!SaveToAssumption, Disk!SaveToInv, Disk!Remove \/ Disk!Restore
    PROVE  Disk!SaveToInv'
  <1>0. Disk!TypeOK /\ Disk!ProjectKept /\ Disk!OperationFits /\ Disk!CopiesComplete
        /\ Disk!DestinationLocked
    BY DEF Disk!SaveToInv
  <1>1. pc \in {"remove", "restore"} /\ ~stranded /\ staged = version
    BY <1>0 DEF Disk!Remove, Disk!Restore, Disk!OperationFits, Disk!CopiesComplete
  <1>2. CASE Disk!Remove
    <2>1. pc = "remove" /\ (op.same <=> Disk!Dest = Disk!Own) /\ (op.same => op.rename)
      BY <1>0, <1>2 DEF Disk!Remove, Disk!OperationFits
    <2>2. CASE ~op.rename
      BY <1>1, <1>2, <2>1, <2>2, OperationsFail DEF Disk!Remove, Disk!Aside
    <2>3. ASSUME op.rename
          PROVE  \E removed \in [Disk!Files -> Disk!Content] :
                    /\ \A f \in Disk!Files \ {Disk!Dest} : removed[f] = dir[f]
                    /\ dir' = removed
                    /\ IF op.same
                       THEN /\ pc' = "restore"
                            /\ UNCHANGED <<name, current, version, opened, op, staged, original,
                                           stranded, up, ops>>
                       ELSE Disk!End /\ UNCHANGED <<name, current>>
      <3>1. /\ dir \in [Disk!Files -> Disk!Content]
            /\ [dir EXCEPT ![Disk!Dest] = None] \in [Disk!Files -> Disk!Content]
        BY <1>0, OperationFiles DEF Disk!Content
      <3> QED BY <1>2, <2>3, <3>1 DEF Disk!Remove
    <2>4. CASE op.rename /\ op.same
      <3>1. /\ pc' = "restore" /\ dir' \in [Disk!Files -> Disk!Content]
            /\ UNCHANGED <<name, current, version, opened, op, staged, original, stranded, up, ops>>
        BY <2>3, <2>4
      <3>2. ops \in 0..MaxOps /\ staged \in Disk!Content /\ original \in Disk!Content
        BY <1>0 DEF Disk!TypeOK
      <3>3. Disk!TypeOK' /\ Disk!Own' = Disk!Own /\ Disk!Dest' = Disk!Dest
        BY <1>0, <3>1, <3>2, OperationFiles, OperationsGoOn
      <3>4. Disk!OperationFits' /\ Disk!DestinationLocked'
        BY <1>0, <2>1, <2>4, <3>1, <3>3
           DEF Disk!OperationFits, Disk!DestinationLocked, Disk!temporary
      <3>5. Disk!CopiesComplete' /\ Disk!ProjectKept'
        BY <1>0, <1>1, <2>1, <2>4, <3>1, <3>3, OperationFiles
           DEF Disk!CopiesComplete, Disk!ProjectKept, Disk!Aside
      <3> QED BY <3>3, <3>4, <3>5 DEF Disk!SaveToInv
    <2>5. CASE op.rename /\ ~op.same
      <3>1. /\ Disk!End /\ UNCHANGED <<name, current>> /\ dir' \in [Disk!Files -> Disk!Content]
            /\ dir'[Disk!Own] = dir[Disk!Own]
        BY <1>0, <2>1, <2>3, <2>5, OperationFiles
      <3>2. dir[Disk!Own] = version /\ name[Disk!Own] = current
        BY <1>0, <1>1, <2>5 DEF Disk!CopiesComplete, Disk!Aside
      <3> QED BY <1>0, <1>1, <3>1, <3>2, OperationFiles, OperationsEnd
    <2> QED BY <2>2, <2>4, <2>5
  <1>3. CASE Disk!Restore
    <2>1. pc = "restore" /\ op.same /\ op.rename /\ original = version
      BY <1>0, <1>3 DEF Disk!Restore, Disk!OperationFits, Disk!CopiesComplete, Disk!Aside
    <2>2. CASE Disk!End
      <3>1. /\ dir' = [dir EXCEPT ![Disk!Own] = version] /\ current' = current
            /\ name' = [name EXCEPT ![Disk!Own] = current]
        BY <1>0, <1>1, <1>3, <2>1, <2>2 DEF Disk!Restore, Disk!Strand, Disk!End
      <3>2. /\ dir' \in [Disk!Files -> Disk!Content] /\ name' \in [Disk!Files -> Names]
            /\ \A f \in Disk!Files : File(name'[f]) = f
            /\ dir'[Disk!Own] = version /\ name'[Disk!Own] = current
        BY <1>0, <3>1, OperationFiles
      <3> QED BY <1>0, <1>1, <2>2, <3>1, <3>2, OperationFiles, OperationsEnd
    <2>3. CASE Disk!Strand
      <3>1. /\ stranded' = TRUE /\ pc' = "idle" /\ op' = Disk!NoOp /\ staged' = None
            /\ UNCHANGED <<dir, name, current, version, opened, original, up, ops>>
        BY <2>3 DEF Disk!Strand
      <3>2. Disk!TypeOK'
        <4>1. op' \in [dest : Names, rename : BOOLEAN, same : BOOLEAN, approved : BOOLEAN,
                       lock : BOOLEAN, installed : BOOLEAN]
          BY <1>0, <3>1, OperationFiles DEF Disk!NoOp
        <4>2. stranded' \in BOOLEAN /\ up' \in BOOLEAN
          BY <1>0, <3>1 DEF Disk!TypeOK
        <4>3. /\ version' \in 0..MaxWrites /\ opened' \subseteq Disk!Files /\ ops' \in 0..MaxOps
              /\ staged' \in Disk!Content /\ original' \in Disk!Content
          BY <1>0, <3>1 DEF Disk!TypeOK, Disk!Content
        <4> QED BY <1>0, <3>1, <4>1, <4>2, <4>3, OperationFiles, DiskTypes
      <3>3. Disk!OperationFits' /\ Disk!DestinationLocked'
        BY <3>1 DEF Disk!OperationFits, Disk!DestinationLocked, Disk!NoOp
      <3>4. Disk!CopiesComplete' /\ Disk!ProjectKept'
        BY <2>1, <3>1 DEF Disk!CopiesComplete, Disk!ProjectKept, Disk!Aside
      <3> QED BY <3>2, <3>3, <3>4 DEF Disk!SaveToInv
    <2> QED BY <1>3, <2>2, <2>3 DEF Disk!Restore
  <1> QED BY <1>2, <1>3

(* The project is written, another application creates, opens and closes    *)
(* files, and the process dies.                                             *)
LEMMA SurroundingsKeepFiles ==
    ASSUME Disk!SaveToAssumption, Disk!SaveToInv,
           \/ Disk!Write \/ Disk!Crash \/ \E n \in Names : Disk!Create(n)
           \/ \E f \in Disk!Files : Disk!OpenTheirs(f) \/ Disk!CloseTheirs(f)
    PROVE  Disk!SaveToInv'
  <1>0. Disk!TypeOK /\ Disk!ProjectKept /\ Disk!OperationFits /\ Disk!CopiesComplete
        /\ Disk!DestinationLocked
    BY DEF Disk!SaveToInv
  <1>1. /\ UNCHANGED <<current, op, pc, staged, original, stranded, ops>>
        /\ Disk!Own' = Disk!Own /\ Disk!Dest' = Disk!Dest
    <2>1. UNCHANGED <<current, op, pc, staged, original, stranded, ops>>
      BY DEF Disk!Write, Disk!Crash, Disk!Create, Disk!OpenTheirs, Disk!CloseTheirs
    <2> QED BY <2>1 DEF Disk!Own, Disk!Dest
  <1>2. Disk!OperationFits'
    BY <1>0, <1>1 DEF Disk!OperationFits, Disk!temporary
  <1>3. ASSUME dir' \in [Disk!Files -> Disk!Content], name' \in [Disk!Files -> Names],
               \A f \in Disk!Files : File(name'[f]) = f,
               version' \in 0..MaxWrites, opened' \subseteq Disk!Files, up' \in BOOLEAN
        PROVE  Disk!TypeOK'
    <2>1. stranded' \in BOOLEAN /\ up' \in BOOLEAN
      BY <1>0, <1>1, <1>3 DEF Disk!TypeOK
    <2>2. current' \in Names /\ staged' \in Disk!Content /\ original' \in Disk!Content
          /\ ops' \in 0..MaxOps
      BY <1>0, <1>1 DEF Disk!TypeOK
    <2>3. /\ op' \in [dest : Names, rename : BOOLEAN, same : BOOLEAN, approved : BOOLEAN,
                      lock : BOOLEAN, installed : BOOLEAN]
          /\ pc' \in {"idle", "chosen", "lock", "stage", "aside", "install", "open", "move",
                      "remove", "restore"}
      BY <1>0, <1>1 DEF Disk!TypeOK
    <2> QED BY <1>3, <2>1, <2>2, <2>3, DiskTypes
  <1>4. opened \subseteq Disk!Files /\ up \in BOOLEAN
    BY <1>0 DEF Disk!TypeOK
  <1>5. CASE Disk!Write
    <2>1. /\ ~stranded /\ pc \in {"idle", "chosen"} /\ version' = version + 1
          /\ version < MaxWrites
          /\ dir' = [dir EXCEPT ![Disk!Own] = version + 1] /\ UNCHANGED <<name, opened, up>>
      BY <1>5 DEF Disk!Write
    <2>2. /\ version' \in 0..MaxWrites /\ version' \in Disk!Content
          /\ dir' \in [Disk!Files -> Disk!Content] /\ dir'[Disk!Own] = version'
      BY <1>0, <2>1, OperationFiles DEF Disk!SaveToAssumption, Disk!Content
    <2>3. Disk!TypeOK'
      BY <1>0, <1>3, <1>4, <2>1, <2>2, OperationFiles
    <2>4. Disk!DestinationLocked'
      BY <1>1, <2>1 DEF Disk!DestinationLocked
    <2>5. name[Disk!Own] = current
      BY <1>0, <2>1 DEF Disk!CopiesComplete, Disk!Aside
    <2>6. Disk!CopiesComplete' /\ Disk!ProjectKept'
      BY <1>0, <1>1, <2>1, <2>2, <2>5, OperationFiles
         DEF Disk!CopiesComplete, Disk!ProjectKept, Disk!Aside, Disk!OperationFits, Disk!Files
    <2> QED BY <1>2, <2>3, <2>4, <2>6 DEF Disk!SaveToInv
  <1>6. CASE Disk!Crash
    <2>1. up' = FALSE /\ UNCHANGED <<dir, name, version, opened>>
      BY <1>6 DEF Disk!Crash
    <2>2. Disk!TypeOK'
      BY <1>0, <1>3, <1>4, <2>1, OperationFiles
    <2>3. Disk!CopiesComplete' /\ Disk!ProjectKept' /\ Disk!DestinationLocked'
      BY <1>0, <1>1, <2>1
         DEF Disk!CopiesComplete, Disk!ProjectKept, Disk!Aside, Disk!DestinationLocked, Disk!Files
    <2> QED BY <1>2, <2>2, <2>3 DEF Disk!SaveToInv
  <1>7. ASSUME NEW n \in Names, Disk!Create(n) PROVE Disk!SaveToInv'
    <2>1. /\ dir[File(n)] = None /\ dir' = [dir EXCEPT ![File(n)] = Theirs]
          /\ name' = [name EXCEPT ![File(n)] = n] /\ UNCHANGED <<version, opened, up>>
      BY <1>7 DEF Disk!Create, File
    <2>2. /\ dir' \in [Disk!Files -> Disk!Content] /\ name' \in [Disk!Files -> Names]
          /\ \A f \in Disk!Files : File(name'[f]) = f
          /\ \A f \in Disk!Files : dir[f] # None => dir'[f] = dir[f] /\ name'[f] = name[f]
      BY <1>0, <2>1, OperationFiles DEF Disk!Content
    <2>3. Disk!TypeOK'
      BY <1>0, <1>3, <1>4, <2>1, <2>2, OperationFiles
    <2>4. Disk!CopiesComplete' /\ Disk!DestinationLocked'
      BY <1>0, <1>1, <2>1, <2>2, OperationFiles
         DEF Disk!CopiesComplete, Disk!Aside, Disk!DestinationLocked
    <2>5. Disk!ProjectKept'
      BY <1>0, <1>1, <2>1, <2>2, <2>4, OperationFiles
         DEF Disk!CopiesComplete, Disk!ProjectKept, Disk!OperationFits, Disk!Aside, Disk!Files
    <2> QED BY <1>2, <2>3, <2>4, <2>5 DEF Disk!SaveToInv
  <1>8. ASSUME NEW f \in Disk!Files, Disk!OpenTheirs(f) \/ Disk!CloseTheirs(f)
        PROVE  Disk!SaveToInv'
    <2>1. /\ opened' \subseteq Disk!Files /\ UNCHANGED <<dir, name, version, up>>
          /\ Disk!Dest \in opened' => Disk!Dest \in opened \/ Disk!Dest \notin Disk!Held
      BY <1>4, <1>8 DEF Disk!OpenTheirs, Disk!CloseTheirs
    <2>2. Disk!TypeOK'
      BY <1>0, <1>3, <1>4, <2>1, OperationFiles
    <2>3. Disk!DestinationLocked'
      BY <1>0, <1>1, <2>1 DEF Disk!DestinationLocked, Disk!Held
    <2>4. Disk!CopiesComplete' /\ Disk!ProjectKept'
      BY <1>0, <1>1, <2>1 DEF Disk!CopiesComplete, Disk!ProjectKept, Disk!Aside, Disk!Files
    <2> QED BY <1>2, <2>2, <2>3, <2>4 DEF Disk!SaveToInv
  <1> QED BY <1>5, <1>6, <1>7, <1>8

(* Of the files of the other application, only a destination that a Save As *)
(* has locked changes: whatever else a step writes or removes is a copy of  *)
(* the project, or nothing.                                                 *)
LEMMA StepsKeepOthers ==
    ASSUME Disk!SaveToAssumption, Disk!SaveToInv, Disk!Next, NEW f \in Disk!Files,
           dir[f] = Theirs, dir'[f] # Theirs
    PROVE  ~op.rename /\ op.lock /\ f = Disk!Dest /\ f \notin opened
  <1> DEFINE Approved == ~op.rename /\ op.lock /\ f = Disk!Dest /\ f \notin opened
  <1>0. Disk!TypeOK /\ Disk!ProjectKept /\ Disk!OperationFits /\ Disk!CopiesComplete
        /\ Disk!DestinationLocked
    BY DEF Disk!SaveToInv
  <1>1. Theirs # None /\ version # Theirs
    BY <1>0 DEF Disk!SaveToAssumption, Disk!TypeOK
  <1>2. dir' # dir /\ dir \in [Disk!Files -> Disk!Content]
    BY <1>0 DEF Disk!TypeOK
  <1>3. ~stranded /\ ~Disk!Aside => f # Disk!Own
    BY <1>0, <1>1 DEF Disk!CopiesComplete
  <1>4. ASSUME NEW d, Disk!Switch(d), d[f] = Theirs, pc \in {"open", "move"} PROVE FALSE
    <2>1. dir' = [g \in Disk!Files |-> IF g = File(Private) /\ current = Private THEN None ELSE d[g]]
      BY <1>0, <1>4, OperationFiles DEF Disk!Switch, Disk!temporary, File
    <2>2. f = File(Private) /\ current = Private
      BY <1>4, <2>1
    <2>3. ~stranded /\ ~op.rename
      BY <1>0, <1>4, <2>2 DEF Disk!OperationFits, Disk!temporary
    <2> QED BY <1>0, <1>3, <2>2, <2>3, OperationFiles DEF Disk!Aside
  <1>5. CASE Disk!MoveAside
    <2>1. /\ ~stranded /\ ~Disk!Aside
          /\ \A g \in Disk!Files \ {Disk!Own} : dir'[g] = dir[g]
      BY <1>0, <1>2, <1>5, OperationFiles
         DEF Disk!MoveAside, Disk!OperationFits, Disk!Aside, Disk!Failed
    <2> QED BY <1>3, <2>1
  <1>6. CASE Disk!Install
    <2>1. /\ pc = "install" /\ (op.lock \/ dir[Disk!Dest] = None)
          /\ \A g \in Disk!Files \ {Disk!Dest} : dir'[g] = dir[g]
      BY <1>0, <1>2, <1>6, OperationFiles DEF Disk!Install, Disk!Replaces
    <2>2. f = Disk!Dest /\ op.lock
      BY <1>1, <2>1
    <2> QED BY <1>0, <2>1, <2>2 DEF Disk!OperationFits, Disk!DestinationLocked
  <1>7. CASE Disk!Open
    BY <1>2, <1>4, <1>7 DEF Disk!Open
  <1>8. CASE Disk!MoveOld
    <2>1. pc = "move" /\ ~stranded /\ ~Disk!Aside /\ op.installed /\ dir[Disk!Dest] = version
      BY <1>0, <1>8 DEF Disk!MoveOld, Disk!OperationFits, Disk!Aside, Disk!CopiesComplete
    <2>2. f # Disk!Own /\ f # Disk!Dest
      BY <1>1, <1>3, <2>1
    <2>3. [dir EXCEPT ![Disk!Own] = None][f] = Theirs /\ [dir EXCEPT ![Disk!Dest] = None][f] = Theirs
      BY <1>2, <2>2
    <2> QED BY <1>2, <1>4, <1>8, <2>1, <2>3 DEF Disk!MoveOld, Disk!Failed
  <1>9. CASE Disk!Remove
    <2>1. op.installed /\ dir' = [dir EXCEPT ![Disk!Dest] = None] /\ pc = "remove"
      <3>1. pc = "remove" /\ op.rename
        BY <1>2, <1>9 DEF Disk!Remove, Disk!Failed
      <3>2. PICK removed \in {dir} \cup (IF op.installed THEN {[dir EXCEPT ![Disk!Dest] = None]}
                                        ELSE {}) : dir' = removed
        BY <1>9, <3>1 DEF Disk!Remove
      <3> QED BY <1>2, <3>1, <3>2
    <2>2. dir[Disk!Dest] = version
      BY <1>0, <2>1 DEF Disk!CopiesComplete
    <2> QED BY <1>1, <1>2, <2>1, <2>2
  <1>10. CASE Disk!Restore
    BY <1>0, <1>1, <1>2, <1>10, OperationFiles DEF Disk!Restore, Disk!Strand
  <1>11. CASE Disk!Write
    <2>1. ~stranded /\ ~Disk!Aside /\ \A g \in Disk!Files \ {Disk!Own} : dir'[g] = dir[g]
      BY <1>0, <1>2, <1>11, OperationFiles DEF Disk!Write, Disk!Aside
    <2> QED BY <1>3, <2>1
  <1>12. ASSUME NEW n \in Names, Disk!Create(n) PROVE FALSE
    BY <1>1, <1>2, <1>12 DEF Disk!Create
  <1>13. ~(\E n \in Names, rename \in BOOLEAN : Disk!Choose(n, rename))
    BY <1>2 DEF Disk!Choose
  <1>14. ~(Disk!Begin \/ Disk!lock_destination \/ Disk!Stage \/ Disk!Crash)
    BY <1>2 DEF Disk!Begin, Disk!lock_destination, Disk!Stage, Disk!Crash, Disk!Failed
  <1>15. ~(\E g \in Disk!Files : Disk!OpenTheirs(g) \/ Disk!CloseTheirs(g))
    BY <1>2 DEF Disk!OpenTheirs, Disk!CloseTheirs
  <1> QED
    BY <1>5, <1>6, <1>7, <1>8, <1>9, <1>10, <1>11, <1>12, <1>13, <1>14, <1>15 DEF Disk!Next

(* Whatever fails and whenever the process dies, a Save As or a Rename      *)
(* leaves the project as last committed complete on the disk, and replaces  *)
(* no file of another application but one that a Save As has locked.        *)
THEOREM FilesAreKept == Spec => FilesAreSafe
  <1> DEFINE Safe == part = "disk" => Disk!SaveToInv
  <1>0. Disk!SaveToAssumption
    BY HostsAssumption DEF HostsAssumption
  <1>1. Init => Safe
    BY <1>0, DiskInit DEF Init
  <1>2. Safe /\ [Next]_vars => Safe'
    <2>1. CASE part = "disk" /\ Disk!Next
      BY <1>0, <2>1, BeginningsKeepFiles, CopiesKeepFiles, InstallKeepsFiles, OpeningsKeepFiles,
         RollbacksKeepFiles, SurroundingsKeepFiles DEF Disk!Next, Next
    <2>2. CASE UNCHANGED <<part, disk>>
      BY <2>2 DEF disk, Disk!SaveToInv, Disk!TypeOK, Disk!ProjectKept, Disk!OperationFits,
         Disk!CopiesComplete, Disk!DestinationLocked, Disk!Own, Disk!Dest, Disk!Aside,
         Disk!temporary, Disk!NoOp, Disk!Files, Disk!Content
    <2> QED BY <2>1, <2>2 DEF Next, vars, host
  <1>3. Safe /\ [Next]_vars =>
        [\A f \in Disk!Files :
            dir[f] = Theirs /\ dir'[f] # Theirs
              => ~op.rename /\ op.lock /\ f = Disk!Dest /\ f \notin opened]_(Disk!vars)
    <2>1. CASE part = "disk" /\ Disk!Next
      BY <1>0, <2>1, StepsKeepOthers
    <2>2. CASE UNCHANGED disk
      BY <2>2 DEF disk, Disk!vars
    <2> QED BY <2>1, <2>2 DEF Next, vars, host
  <1>4. Spec => []Safe
    BY <1>1, <1>2, PTL DEF Spec
  <1>5. Spec => Disk!OthersKept
    BY <1>3, <1>4, PTL DEF Spec, Disk!OthersKept
  <1> QED BY <1>4, <1>5, PTL DEF FilesAreSafe

(* -------------------------------- caches -------------------------------- *)

\* One thread moves, and the locks it comes to hold are free.
LEMMA LocksKept ==
  ASSUME Cache!TypeOK, Cache!PlacesFit, Cache!LocksHeld, NEW t \in Threads,
         \A u \in Threads : u # t => place'[u] = place[u] /\ job'[u] = job[u],
         Cache!Operation(t)' => Cache!Operation(t) \/ \A u \in Cache!Near(t) : ~Cache!Operation(u),
         Cache!LocalWrite(t)'
              => Cache!LocalWrite(t) \/ \A u \in Cache!Near(t) : ~Cache!LocalRead(u)
              /\ ~Cache!LocalWrite(u),
         Cache!LocalRead(t)' => Cache!LocalRead(t) \/ \A u \in Cache!Near(t) : ~Cache!LocalWrite(u),
         Cache!FileLock(t)' => Cache!FileLock(t) \/ \A u \in Cache!Far(t) : ~Cache!FileLock(u),
         Cache!Exclusive(t)' => Cache!Exclusive(t) \/ \A u \in Cache!Far(t) : ~Cache!Shared(u)
              /\ ~Cache!Exclusive(u),
         Cache!Shared(t)' => Cache!Shared(t) \/ \A u \in Cache!Far(t) : ~Cache!Exclusive(u)
  PROVE  Cache!LocksHeld'
  <1>1. \A u \in Threads : u # t => /\ Cache!Operation(u)' <=> Cache!Operation(u)
                                    /\ Cache!LocalWrite(u)' <=> Cache!LocalWrite(u)
                                    /\ Cache!LocalRead(u)' <=> Cache!LocalRead(u)
                                    /\ Cache!FileLock(u)' <=> Cache!FileLock(u)
                                    /\ Cache!Exclusive(u)' <=> Cache!Exclusive(u)
                                    /\ Cache!Shared(u)' <=> Cache!Shared(u)
    BY DEF Cache!Operation, Cache!LocalWrite, Cache!LocalRead, Cache!FileLock, Cache!Exclusive,
         Cache!Shared, Cache!Looking
  <1>2. /\ \A u, v \in Threads : (u \in Cache!Near(v) <=> v \in Cache!Near(u))
             /\ (u \in Cache!Far(v) <=> v \in Cache!Far(u))
        /\ \A u \in Threads : Cache!Near(u) \subseteq Threads \ {u}
             /\ Cache!Far(u) \subseteq Threads \ {u}
    BY DEF Cache!Near, Cache!Far
  <1>3. ASSUME NEW u \in Threads, NEW v \in Cache!Near(u)
        PROVE  (Cache!Operation(u)' => ~Cache!Operation(v)') /\ (Cache!LocalWrite(u)'
             => ~Cache!LocalRead(v)' /\ ~Cache!LocalWrite(v)')
    <2>0. v \in Threads /\ v # u /\ u \in Cache!Near(v) BY <1>2
    <2>1. /\ Cache!Operation(u) => ~Cache!Operation(v)
          /\ Cache!LocalWrite(u) => ~Cache!LocalRead(v) /\ ~Cache!LocalWrite(v)
          /\ Cache!LocalWrite(v) => ~Cache!LocalRead(u) /\ ~Cache!LocalWrite(u)
      BY <2>0 DEF Cache!LocksHeld
    <2>2. CASE u # t /\ v # t BY <1>1, <2>0, <2>1, <2>2
    <2>3. CASE u = t BY <1>1, <2>0, <2>1, <2>3
    <2>4. CASE v = t BY <1>1, <2>0, <2>1, <2>4
    <2> QED BY <2>2, <2>3, <2>4
  <1>4. ASSUME NEW u \in Threads, NEW v \in Cache!Far(u)
        PROVE  (Cache!FileLock(u)' => ~Cache!FileLock(v)') /\ (Cache!Exclusive(u)'
             => ~Cache!Shared(v)' /\ ~Cache!Exclusive(v)')
    <2>0. v \in Threads /\ v # u /\ u \in Cache!Far(v) BY <1>2
    <2>1. /\ Cache!FileLock(u) => ~Cache!FileLock(v)
          /\ Cache!Exclusive(u) => ~Cache!Shared(v) /\ ~Cache!Exclusive(v)
          /\ Cache!Exclusive(v) => ~Cache!Shared(u) /\ ~Cache!Exclusive(u)
      BY <2>0 DEF Cache!LocksHeld
    <2>2. CASE u # t /\ v # t BY <1>1, <2>0, <2>1, <2>2
    <2>3. CASE u = t BY <1>1, <2>0, <2>1, <2>3
    <2>4. CASE v = t BY <1>1, <2>0, <2>1, <2>4
    <2> QED BY <2>2, <2>3, <2>4
  <1>5. /\ \A u \in Threads : Cache!Near(u)' = Cache!Near(u) /\ Cache!Far(u)' = Cache!Far(u)
    BY DEF Cache!Near, Cache!Far
  <1> QED BY <1>3, <1>4, <1>5 DEF Cache!LocksHeld

\* What the locks say of the files.
LEMMA LocksExclude ==
  ASSUME Cache!TypeOK, Cache!PlacesFit, Cache!LocksHeld
  PROVE  Cache!FilesExclusive /\ \A t, u \in Threads : t # u /\ Cache!Exclusive(t)
       => ~Cache!Shared(u)
  <1>1. \A t, u \in Threads : t # u => u \in Cache!Near(t) \/ u \in Cache!Far(t)
    BY DEF Cache!Near, Cache!Far
  <1>2. ASSUME NEW t \in Threads PROVE /\ Cache!FileLock(t) => Cache!Operation(t)
                                       /\ Cache!FileLock(t)
                                            => Cache!LocalRead(t) \/ Cache!LocalWrite(t)
                                       /\ Cache!FileLock(t) => Cache!Shared(t) \/ Cache!Exclusive(t)
                                       /\ Cache!Exclusive(t) => Cache!LocalWrite(t)
                                       /\ Cache!Shared(t) => Cache!LocalRead(t)
    BY DEF Cache!Operation, Cache!FileLock, Cache!LocalRead, Cache!LocalWrite, Cache!Shared,
         Cache!Exclusive, Cache!Looking, Cache!PlacesFit, Cache!TypeOK
  <1>3. ASSUME NEW t \in Threads, NEW u \in Threads, t # u
        PROVE  /\ Cache!FileLock(t) => ~Cache!FileLock(u)
               /\ Cache!Exclusive(t) => ~Cache!Shared(u) /\ ~Cache!FileLock(u)
    <2>1. CASE u \in Cache!Near(t) BY <1>2, <2>1 DEF Cache!LocksHeld
    <2>2. CASE u \in Cache!Far(t) BY <1>2, <2>2 DEF Cache!LocksHeld
    <2> QED BY <1>1, <1>3, <2>1, <2>2
  <1> QED BY <1>3 DEF Cache!FilesExclusive

\* One thread goes on: where it comes to fits what it is about, the locks it comes to
\* hold are free, and it changes the files only with their lock.
LEMMA MoveKeeps ==
  ASSUME Cache!TextCacheInv, NEW t \in Threads,
         NEW p \in {"idle", "local", "shared", "mutex", "file", "open", "replace", "use",
                    "compute", "try", "log", "remove"},
         NEW j \in {"none", "fetch", "persist", "clear"},
         place' = [place EXCEPT ![t] = p], job' = [job EXCEPT ![t] = j],
         j = "none" <=> p = "idle",
         p \in {"local", "shared", "compute"} => j = "fetch",
         p \in {"open", "replace", "use"} => j \in {"fetch", "persist"},
         p \in {"try", "log", "remove"} => j = "clear",
         db' \in {"none", "current", "old"}, full' \in BOOLEAN, wal' \in {"none", "own"},
         calls' \in 0..MaxLookups,
         UNCHANGED <<db, wal>> \/ Cache!FileLock(t),
         wal' = "own" => db' = "current",
         p = "use" => db' = "current",
         p \in {"replace", "remove"} => wal' = "none",
         p \in {"file", "open", "replace", "use", "log", "remove"}
           => Cache!Operation(t) \/ \A u \in Cache!Near(t) : ~Cache!Operation(u),
         j = "clear" => Cache!LocalWrite(t) \/ \A u \in Cache!Near(t) : ~Cache!LocalRead(u)
              /\ ~Cache!LocalWrite(u),
         j \in {"fetch", "persist"} /\ p # "local"
           => Cache!LocalRead(t) \/ \A u \in Cache!Near(t) : ~Cache!LocalWrite(u),
         p \in {"open", "replace", "use", "log", "remove"}
           => Cache!FileLock(t) \/ \A u \in Cache!Far(t) : ~Cache!FileLock(u),
         j = "clear" /\ p # "try"
              => Cache!Exclusive(t) \/ \A u \in Cache!Far(t) : ~Cache!Shared(u)
              /\ ~Cache!Exclusive(u),
         j \in {"fetch", "persist"} /\ p \notin {"local", "shared"}
           => Cache!Shared(t) \/ \A u \in Cache!Far(t) : ~Cache!Exclusive(u)
  PROVE  Cache!TextCacheInv'
  <1>0. /\ Cache!TypeOK /\ Cache!PlacesFit /\ Cache!LocksHeld /\ Cache!FilesFit
             /\ Cache!LogIsOwn /\ Cache!FilesExclusive
    BY DEF Cache!TextCacheInv
  <1>1. /\ place \in [Threads -> {"idle", "local", "shared", "mutex", "file", "open", "replace",
             "use",
                               "compute", "try", "log", "remove"}]
        /\ job \in [Threads -> {"none", "fetch", "persist", "clear"}]
        /\ \A u \in Threads : job[u] = "none" <=> place[u] = "idle"
    BY <1>0 DEF Cache!TypeOK
  <1>2. /\ place'[t] = p /\ job'[t] = j
        /\ \A u \in Threads : u # t => place'[u] = place[u] /\ job'[u] = job[u]
    BY <1>1
  <1>3. Cache!TypeOK'
    <2>1. /\ place' \in [Threads -> {"idle", "local", "shared", "mutex", "file", "open",
               "replace", "use",
                                  "compute", "try", "log", "remove"}]
          /\ job' \in [Threads -> {"none", "fetch", "persist", "clear"}]
      BY <1>1
    <2>2. \A u \in Threads : job'[u] = "none" <=> place'[u] = "idle" BY <1>1, <1>2
    <2>3. wal' \in {"none", "own", "stale"} OBVIOUS
    <2> QED BY <2>1, <2>2, <2>3, Zenon DEF Cache!TypeOK
  <1>4. Cache!PlacesFit'
    <2> SUFFICES ASSUME NEW u \in Threads
                 PROVE  /\ place'[u] \in {"local", "shared", "compute"} => job'[u] = "fetch"
                        /\ place'[u] \in {"open", "replace", "use"}
                             => job'[u] \in {"fetch", "persist"}
                        /\ place'[u] \in {"try", "log", "remove"} => job'[u] = "clear"
      BY DEF Cache!PlacesFit, Cache!Looking
    <2>1. CASE u = t BY <1>2, <2>1
    <2>2. CASE u # t BY <1>0, <1>2, <2>2 DEF Cache!PlacesFit, Cache!Looking
    <2> QED BY <2>1, <2>2
  <1>5. Cache!LocksHeld'
    <2>1. /\ Cache!Operation(t)' <=> p \in {"file", "open", "replace", "use", "log", "remove"}
          /\ Cache!LocalWrite(t)' <=> j = "clear"
          /\ Cache!LocalRead(t)' <=> j \in {"fetch", "persist"} /\ p # "local"
          /\ Cache!FileLock(t)' <=> p \in {"open", "replace", "use", "log", "remove"}
          /\ Cache!Exclusive(t)' <=> j = "clear" /\ p # "try"
          /\ Cache!Shared(t)' <=> j \in {"fetch", "persist"} /\ p \notin {"local", "shared"}
      BY <1>2 DEF Cache!Operation, Cache!LocalWrite, Cache!LocalRead, Cache!FileLock,
           Cache!Exclusive, Cache!Shared, Cache!Looking
    <2>2. /\ Cache!Operation(t)'
               => Cache!Operation(t) \/ \A u \in Cache!Near(t) : ~Cache!Operation(u)
          /\ Cache!LocalWrite(t)'
               => Cache!LocalWrite(t) \/ \A u \in Cache!Near(t) : ~Cache!LocalRead(u)
               /\ ~Cache!LocalWrite(u)
          /\ Cache!LocalRead(t)'
               => Cache!LocalRead(t) \/ \A u \in Cache!Near(t) : ~Cache!LocalWrite(u)
      BY <2>1
    <2>3. /\ Cache!FileLock(t)' => Cache!FileLock(t) \/ \A u \in Cache!Far(t) : ~Cache!FileLock(u)
          /\ Cache!Exclusive(t)'
               => Cache!Exclusive(t) \/ \A u \in Cache!Far(t) : ~Cache!Shared(u)
               /\ ~Cache!Exclusive(u)
          /\ Cache!Shared(t)' => Cache!Shared(t) \/ \A u \in Cache!Far(t) : ~Cache!Exclusive(u)
      BY <2>1
    <2> QED BY <1>0, <1>2, <2>2, <2>3, LocksKept
  <1>6. Cache!FilesFit'
    <2> SUFFICES ASSUME NEW u \in Threads
                 PROVE  /\ place'[u] = "use" => db' = "current"
                        /\ place'[u] \in {"replace", "remove"} => wal' = "none"
      BY DEF Cache!FilesFit
    <2>1. CASE u = t BY <1>2, <2>1
    <2>2. CASE u # t /\ Cache!FileLock(t)
      <3>1. ~Cache!FileLock(u) BY <1>0, <2>2 DEF Cache!FilesExclusive
      <3> QED BY <1>2, <2>2, <3>1 DEF Cache!FileLock
    <2>3. CASE u # t /\ UNCHANGED <<db, wal>> BY <1>0, <1>2, <2>3 DEF Cache!FilesFit
    <2> QED BY <2>1, <2>2, <2>3
  <1>7. Cache!LogIsOwn' BY DEF Cache!LogIsOwn
  <1>8. Cache!FilesExclusive'
    <2>1. Cache!TypeOK' /\ Cache!PlacesFit' /\ Cache!LocksHeld' => Cache!FilesExclusive'
      <3>1. \A x, y \in Threads : x # y => y \in Cache!Near(x)' \/ y \in Cache!Far(x)'
        BY DEF Cache!Near, Cache!Far
      <3>2. ASSUME Cache!TypeOK', Cache!PlacesFit', Cache!LocksHeld', NEW x \in Threads
            PROVE  /\ Cache!FileLock(x)' => Cache!Operation(x)'
                   /\ Cache!FileLock(x)' => Cache!LocalRead(x)' \/ Cache!LocalWrite(x)'
                   /\ Cache!FileLock(x)' => Cache!Shared(x)' \/ Cache!Exclusive(x)'
                   /\ Cache!Exclusive(x)' => Cache!LocalWrite(x)'
        BY <3>2 DEF Cache!Operation, Cache!FileLock, Cache!LocalRead, Cache!LocalWrite,
             Cache!Shared, Cache!Exclusive, Cache!Looking,
           Cache!PlacesFit, Cache!TypeOK
      <3>3. ASSUME Cache!TypeOK', Cache!PlacesFit', Cache!LocksHeld', NEW x \in Threads,
           NEW y \in Threads, x # y
            PROVE  /\ Cache!FileLock(x)' => ~Cache!FileLock(y)'
                   /\ Cache!Exclusive(x)' => ~Cache!FileLock(y)'
        <4>1. CASE y \in Cache!Near(x)' BY <3>2, <3>3, <4>1 DEF Cache!LocksHeld
        <4>2. CASE y \in Cache!Far(x)' BY <3>2, <3>3, <4>2 DEF Cache!LocksHeld
        <4> QED BY <3>1, <3>3, <4>1, <4>2
      <3> QED BY <3>3 DEF Cache!FilesExclusive
    <2> QED BY <1>3, <1>4, <1>5, <2>1
  <1> QED BY <1>3, <1>4, <1>5, <1>6, <1>7, <1>8 DEF Cache!TextCacheInv

\* A thread takes the next lock, or gives up.
LEMMA LocksStep ==
  ASSUME Cache!TextCacheAssumption, Cache!TextCacheInv, NEW t \in Threads,
         \/ Cache!get_or_insert(t) \/ Cache!clear(t)
         \/ Cache!with_cache_lease(t) \/ Cache!with_file_lock(t) \/ Cache!try_cache_maintenance(t)
  PROVE  Cache!TextCacheInv'
  <1>0. /\ Cache!TypeOK /\ Cache!PlacesFit /\ Cache!LocksHeld /\ Cache!FilesFit /\ Cache!LogIsOwn
    BY DEF Cache!TextCacheInv
  <1>1. /\ UNCHANGED Cache!disk /\ db \in {"none", "current", "old"} /\ full \in BOOLEAN
        /\ wal \in {"none", "own"} /\ (wal = "own" => db = "current")
        /\ place[t] \in {"idle", "local", "shared", "mutex", "file", "open", "replace", "use",
                      "compute", "try", "log", "remove"}
        /\ job[t] \in {"none", "fetch", "persist", "clear"}
        /\ job[t] = "none" <=> place[t] = "idle"
    BY <1>0 DEF Cache!get_or_insert, Cache!with_cache_lease, Cache!with_file_lock, Cache!clear,
         Cache!try_cache_maintenance,
       Cache!TypeOK, Cache!FilesFit, Cache!LogIsOwn
  <1>2. UNCHANGED <<db, full, wal>> BY <1>1 DEF Cache!disk
  <1>3. calls' \in 0..MaxLookups
    <2>1. calls \in 0..MaxLookups /\ MaxLookups \in Nat
      BY <1>0 DEF Cache!TypeOK, Cache!TextCacheAssumption
    <2> QED BY <2>1 DEF Cache!get_or_insert, Cache!with_cache_lease, Cache!with_file_lock,
                 Cache!clear,
               Cache!try_cache_maintenance, Cache!Call
  <1>4. job = [job EXCEPT ![t] = job[t]] BY <1>0 DEF Cache!TypeOK
  <1>5. CASE Cache!get_or_insert(t)
    <2>1. place' = [place EXCEPT ![t] = "local"] /\ job' = [job EXCEPT ![t] = "fetch"]
      BY <1>5 DEF Cache!get_or_insert, Cache!Move
    <2> QED BY <1>1, <1>2, <1>3, <2>1, MoveKeeps
  <1>6. CASE Cache!with_cache_lease(t)
    <2>1. CASE place[t] = "local" /\ ~(\E u \in Cache!Near(t) : Cache!LocalWrite(u))
         /\ Cache!Move(t, "shared")
      <3>1. place' = [place EXCEPT ![t] = "shared"] /\ job' = [job EXCEPT ![t] = "fetch"]
        BY <1>0, <1>4, <1>6, <2>1 DEF Cache!with_cache_lease, Cache!Move, Cache!PlacesFit
      <3> QED BY <1>1, <1>2, <1>3, <2>1, <3>1, MoveKeeps
    <2>2. CASE place[t] = "shared" /\ ~(\E u \in Cache!Far(t) : Cache!Exclusive(u))
         /\ Cache!Move(t, "mutex")
      <3>1. place' = [place EXCEPT ![t] = "mutex"] /\ job' = [job EXCEPT ![t] = "fetch"]
        BY <1>0, <1>4, <1>6, <2>2 DEF Cache!with_cache_lease, Cache!Move, Cache!PlacesFit
      <3>2. Cache!LocalRead(t) BY <1>0, <2>2 DEF Cache!LocalRead, Cache!Looking, Cache!PlacesFit
      <3> QED BY <1>1, <1>2, <1>3, <2>2, <3>1, <3>2, MoveKeeps
    <2> QED BY <1>6, <2>1, <2>2 DEF Cache!with_cache_lease
  <1>7. CASE Cache!with_file_lock(t)
    <2>0. /\ place[t] \in {"mutex", "file"} /\ job' = [job EXCEPT ![t] = job[t]]
          /\ job[t] \in {"fetch", "persist", "clear"}
      BY <1>1, <1>4, <1>7 DEF Cache!with_file_lock
    <2>1. /\ job[t] = "clear" => Cache!LocalWrite(t) /\ Cache!Exclusive(t)
          /\ job[t] \in {"fetch", "persist"} => Cache!LocalRead(t) /\ Cache!Shared(t)
      BY <2>0 DEF Cache!LocalWrite, Cache!Exclusive, Cache!LocalRead, Cache!Shared, Cache!Looking
    <2>2. CASE place[t] = "mutex" /\ ~(\E u \in Cache!Near(t) : Cache!Operation(u))
         /\ Cache!Move(t, "file")
      <3>1. place' = [place EXCEPT ![t] = "file"] BY <2>2 DEF Cache!Move
      <3> QED BY <1>1, <1>2, <1>3, <2>0, <2>1, <2>2, <3>1, MoveKeeps
    <2>3. CASE /\ place[t] = "file" /\ ~(\E u \in Cache!Far(t) : Cache!FileLock(u))
               /\ Cache!Move(t, IF job[t] = "clear" THEN "log" ELSE "open")
      <3>1. Cache!Operation(t) BY <2>3 DEF Cache!Operation
      <3>2. CASE job[t] = "clear"
        <4>1. place' = [place EXCEPT ![t] = "log"] BY <2>3, <3>2 DEF Cache!Move
        <4> QED BY <1>1, <1>2, <1>3, <2>0, <2>1, <2>3, <3>1, <3>2, <4>1, MoveKeeps
      <3>3. CASE job[t] # "clear"
        <4>1. place' = [place EXCEPT ![t] = "open"] BY <2>3, <3>3 DEF Cache!Move
        <4> QED BY <1>1, <1>2, <1>3, <2>0, <2>1, <2>3, <3>1, <3>3, <4>1, MoveKeeps
      <3> QED BY <3>2, <3>3
    <2> QED BY <1>7, <2>2, <2>3 DEF Cache!with_file_lock
  <1>8. CASE Cache!clear(t)
    <2>1. place' = [place EXCEPT ![t] = "try"] /\ job' = [job EXCEPT ![t] = "clear"]
          /\ ~(\E u \in Cache!Near(t) : Cache!LocalRead(u) \/ Cache!LocalWrite(u))
      BY <1>8 DEF Cache!clear, Cache!Move
    <2> QED BY <1>1, <1>2, <1>3, <2>1, MoveKeeps
  <1>9. CASE Cache!try_cache_maintenance(t)
    <2>0. place[t] = "try" /\ job[t] = "clear" /\ Cache!LocalWrite(t)
      BY <1>0, <1>9 DEF Cache!try_cache_maintenance, Cache!PlacesFit, Cache!LocalWrite
    <2>1. CASE \E u \in Cache!Far(t) : Cache!Shared(u) \/ Cache!Exclusive(u)
      <3>1. place' = [place EXCEPT ![t] = "idle"] /\ job' = [job EXCEPT ![t] = "none"]
        BY <1>9, <2>1 DEF Cache!try_cache_maintenance, Cache!Return
      <3> QED BY <1>1, <1>2, <1>3, <3>1, MoveKeeps
    <2>2. CASE ~\E u \in Cache!Far(t) : Cache!Shared(u) \/ Cache!Exclusive(u)
      <3>1. place' = [place EXCEPT ![t] = "mutex"] /\ job' = [job EXCEPT ![t] = "clear"]
        BY <1>4, <1>9, <2>0, <2>2 DEF Cache!try_cache_maintenance, Cache!Move
      <3> QED BY <1>1, <1>2, <1>3, <2>0, <2>2, <3>1, MoveKeeps
    <2> QED BY <2>1, <2>2
  <1> QED BY <1>5, <1>6, <1>7, <1>8, <1>9

\* A thread that holds the file's lock works on the files, or computes without it.
LEMMA FilesStep ==
  ASSUME Cache!TextCacheAssumption, Cache!TextCacheInv, NEW t \in Threads,
         \/ Cache!open_cache(t) \/ Cache!rebuild_cache(t) \/ Cache!fetch_cached(t)
         \/ Cache!compute_misses(t) \/ Cache!persist_new(t)
         \/ Cache!RemoveLog(t) \/ Cache!RemoveFile(t) \/ Cache!Fails(t)
  PROVE  Cache!TextCacheInv'
  <1>0. /\ Cache!TypeOK /\ Cache!PlacesFit /\ Cache!LocksHeld /\ Cache!FilesFit /\ Cache!LogIsOwn
    BY DEF Cache!TextCacheInv
  <1>1. /\ db \in {"none", "current", "old"} /\ full \in BOOLEAN
        /\ wal \in {"none", "own"} /\ (wal = "own" => db = "current")
        /\ place[t] \in {"idle", "local", "shared", "mutex", "file", "open", "replace", "use",
                      "compute", "try", "log", "remove"}
        /\ job[t] \in {"none", "fetch", "persist", "clear"}
        /\ job[t] = "none" <=> place[t] = "idle"
        /\ calls' \in 0..MaxLookups
    BY <1>0 DEF Cache!open_cache, Cache!rebuild_cache, Cache!fetch_cached, Cache!compute_misses,
         Cache!persist_new, Cache!RemoveLog,
       Cache!RemoveFile, Cache!Fails, Cache!TypeOK, Cache!FilesFit, Cache!LogIsOwn
  <1>2. job = [job EXCEPT ![t] = job[t]] /\ place = [place EXCEPT ![t] = place[t]]
    BY <1>0 DEF Cache!TypeOK
  <1>3. /\ place[t] \in {"open", "replace", "use"} =>
             job[t] \in {"fetch", "persist"} /\ Cache!FileLock(t) /\ Cache!Operation(t)
                  /\ Cache!LocalRead(t) /\ Cache!Shared(t)
        /\ place[t] \in {"log", "remove"} =>
             job[t] = "clear" /\ Cache!FileLock(t) /\ Cache!Operation(t) /\ Cache!LocalWrite(t)
                  /\ Cache!Exclusive(t)
        /\ place[t] = "compute" => job[t] = "fetch" /\ Cache!LocalRead(t) /\ Cache!Shared(t)
    BY <1>0 DEF Cache!PlacesFit, Cache!Looking, Cache!FileLock, Cache!Operation, Cache!LocalRead,
         Cache!Shared, Cache!LocalWrite, Cache!Exclusive
  <1>4. /\ place[t] = "use" => db = "current"
        /\ place[t] \in {"replace", "remove"} => wal = "none"
    BY <1>0 DEF Cache!FilesFit
  <1>5. Cache!Seen \in BOOLEAN BY <1>1 DEF Cache!Seen
  <1>6. CASE Cache!open_cache(t)
    <2>1. /\ place[t] = "open" /\ UNCHANGED <<db, full, job, calls>>
          /\ \/ db = "current" /\ place' = [place EXCEPT ![t] = "use"] /\ UNCHANGED wal
             \/ place' = [place EXCEPT ![t] = "replace"] /\ wal' = "none"
      BY <1>6 DEF Cache!open_cache, Cache!Move
    <2>2. CASE db = "current" /\ place' = [place EXCEPT ![t] = "use"] /\ UNCHANGED wal
      BY <1>1, <1>2, <1>3, <2>1, <2>2, MoveKeeps
    <2>3. CASE place' = [place EXCEPT ![t] = "replace"] /\ wal' = "none"
      BY <1>1, <1>2, <1>3, <2>1, <2>3, MoveKeeps
    <2> QED BY <2>1, <2>2, <2>3
  <1>7. CASE Cache!rebuild_cache(t)
    <2>1. /\ place[t] = "replace" /\ place' = [place EXCEPT ![t] = "use"]
               /\ UNCHANGED <<job, calls>>
          /\ db' = "current" /\ full' = FALSE /\ wal' = Cache!Orphaned(wal)
      BY <1>7 DEF Cache!rebuild_cache, Cache!Move
    <2>2. wal' = "none" BY <1>4, <2>1 DEF Cache!Orphaned
    <2> QED BY <1>1, <1>2, <1>3, <2>1, <2>2, MoveKeeps
  <1>8. CASE Cache!fetch_cached(t)
    <2>1. /\ place[t] = "use" /\ job[t] = "fetch" /\ full' = Cache!Seen /\ wal' = "none"
               /\ UNCHANGED <<db, calls>>
          /\ IF Cache!Seen THEN Cache!Return(t) ELSE Cache!Move(t, "compute") /\ UNCHANGED job
      BY <1>8 DEF Cache!fetch_cached, Cache!Close
    <2>2. CASE Cache!Seen
      <3>1. place' = [place EXCEPT ![t] = "idle"] /\ job' = [job EXCEPT ![t] = "none"]
        BY <2>1, <2>2 DEF Cache!Return
      <3> QED BY <1>1, <1>3, <1>5, <2>1, <3>1, MoveKeeps
    <2>3. CASE ~Cache!Seen
      <3>1. place' = [place EXCEPT ![t] = "compute"] /\ job' = [job EXCEPT ![t] = job[t]]
        BY <1>2, <2>1, <2>3 DEF Cache!Move
      <3> QED BY <1>1, <1>3, <1>5, <2>1, <3>1, MoveKeeps
    <2> QED BY <2>2, <2>3
  <1>9. CASE Cache!compute_misses(t)
    <2>1. /\ place[t] = "compute" /\ place' = [place EXCEPT ![t] = "mutex"]
          /\ job' = [job EXCEPT ![t] = "persist"] /\ UNCHANGED <<db, full, wal>>
      BY <1>9 DEF Cache!compute_misses, Cache!Move, Cache!disk
    <2> QED BY <1>1, <1>3, <2>1, MoveKeeps
  <1>10. CASE Cache!persist_new(t)
    <2>1. place[t] = "use" /\ job[t] = "persist" /\ UNCHANGED <<db, calls>>
      BY <1>10 DEF Cache!persist_new
    <2>2. CASE wal = "none" /\ wal' = "own" /\ UNCHANGED <<full, job, place>>
      <3>1. /\ place' = [place EXCEPT ![t] = "use"] /\ job' = [job EXCEPT ![t] = job[t]]
        BY <1>2, <2>1, <2>2
      <3> QED BY <1>1, <1>3, <1>4, <2>1, <2>2, <3>1, MoveKeeps
    <2>3. CASE wal # "none" /\ Cache!Close /\ Cache!Return(t)
      <3>1. /\ place' = [place EXCEPT ![t] = "idle"] /\ job' = [job EXCEPT ![t] = "none"]
            /\ full' = Cache!Seen /\ wal' = "none"
        BY <2>3 DEF Cache!Return, Cache!Close
      <3> QED BY <1>1, <1>3, <1>5, <2>1, <3>1, MoveKeeps
    <2> QED BY <1>10, <2>2, <2>3 DEF Cache!persist_new
  <1>11. CASE Cache!RemoveLog(t)
    <2>1. /\ place[t] = "log" /\ wal' = "none" /\ place' = [place EXCEPT ![t] = "remove"]
          /\ UNCHANGED <<db, full, job, calls>>
      BY <1>11 DEF Cache!RemoveLog, Cache!Move
    <2> QED BY <1>1, <1>2, <1>3, <2>1, MoveKeeps
  <1>12. CASE Cache!RemoveFile(t)
    <2>1. /\ place[t] = "remove" /\ place' = [place EXCEPT ![t] = "idle"]
               /\ job' = [job EXCEPT ![t] = "none"]
          /\ db' = "none" /\ full' = FALSE /\ wal' = Cache!Orphaned(wal)
      BY <1>12 DEF Cache!RemoveFile, Cache!Return
    <2>2. wal' = "none" BY <1>4, <2>1 DEF Cache!Orphaned
    <2> QED BY <1>1, <1>3, <2>1, <2>2, MoveKeeps
  <1>13. CASE Cache!Fails(t)
    <2>1. /\ place' = [place EXCEPT ![t] = "idle"] /\ job' = [job EXCEPT ![t] = "none"]
          /\ UNCHANGED <<db, full, wal>>
      BY <1>13 DEF Cache!Fails, Cache!Return, Cache!disk
    <2> QED BY <1>1, <2>1, MoveKeeps
  <1> QED BY <1>6, <1>7, <1>8, <1>9, <1>10, <1>11, <1>12, <1>13

\* A process is killed at any point, and its locks are released.
LEMMA KillKeeps ==
  ASSUME Cache!TextCacheInv, NEW p, Cache!Kill(p)
  PROVE  Cache!TextCacheInv'
  <1>0. /\ Cache!TypeOK /\ Cache!PlacesFit /\ Cache!LocksHeld /\ Cache!FilesFit
             /\ Cache!LogIsOwn /\ Cache!FilesExclusive
    BY DEF Cache!TextCacheInv
  <1>1. /\ UNCHANGED <<db, full, wal, calls>>
        /\ place' = [t \in Threads |-> IF Process[t] = p THEN "idle" ELSE place[t]]
        /\ job' = [t \in Threads |-> IF Process[t] = p THEN "none" ELSE job[t]]
    BY DEF Cache!Kill, Cache!disk
  <1>2. \A t \in Threads : \/ place'[t] = "idle" /\ job'[t] = "none"
                           \/ place'[t] = place[t] /\ job'[t] = job[t]
    BY <1>1
  <1>3. Cache!TypeOK'
    <2>1. /\ place' \in [Threads -> {"idle", "local", "shared", "mutex", "file", "open",
               "replace", "use",
                                  "compute", "try", "log", "remove"}]
          /\ job' \in [Threads -> {"none", "fetch", "persist", "clear"}]
      BY <1>0, <1>1 DEF Cache!TypeOK
    <2>2. \A t \in Threads : job'[t] = "none" <=> place'[t] = "idle" BY <1>0, <1>2 DEF Cache!TypeOK
    <2> QED BY <1>0, <1>1, <2>1, <2>2, Zenon DEF Cache!TypeOK
  <1>4. Cache!PlacesFit' BY <1>0, <1>2 DEF Cache!PlacesFit, Cache!Looking
  <1>5. \A t \in Threads : /\ Cache!Operation(t)' => Cache!Operation(t)
                           /\ Cache!LocalWrite(t)' => Cache!LocalWrite(t)
                           /\ Cache!LocalRead(t)' => Cache!LocalRead(t)
                           /\ Cache!FileLock(t)' => Cache!FileLock(t)
                           /\ Cache!Exclusive(t)' => Cache!Exclusive(t)
                           /\ Cache!Shared(t)' => Cache!Shared(t)
    BY <1>2 DEF Cache!Operation, Cache!LocalWrite, Cache!LocalRead, Cache!FileLock,
         Cache!Exclusive, Cache!Shared, Cache!Looking
  <1>6. Cache!LocksHeld'
    <2>1. \A t \in Threads : Cache!Near(t)' = Cache!Near(t) /\ Cache!Far(t)' = Cache!Far(t)
                             /\ Cache!Near(t) \subseteq Threads /\ Cache!Far(t) \subseteq Threads
      BY DEF Cache!Near, Cache!Far
    <2> QED BY <1>0, <1>5, <2>1 DEF Cache!LocksHeld
  <1>7. Cache!FilesFit' BY <1>0, <1>1, <1>2 DEF Cache!FilesFit
  <1>8. Cache!LogIsOwn' BY <1>0, <1>1 DEF Cache!LogIsOwn
  <1>9. Cache!FilesExclusive' BY <1>0, <1>5 DEF Cache!FilesExclusive
  <1> QED BY <1>3, <1>4, <1>6, <1>7, <1>8, <1>9 DEF Cache!TextCacheInv

LEMMA CacheInit ==
  ASSUME Cache!TextCacheAssumption, Cache!Init
  PROVE  Cache!TextCacheInv
  <1>1. \A t \in Threads : place[t] = "idle" /\ job[t] = "none" BY DEF Cache!Init
  <1>2. Cache!TypeOK
    <2>1. calls \in 0..MaxLookups BY DEF Cache!Init, Cache!TextCacheAssumption
    <2>2. full \in BOOLEAN
      <3>1. full = (db = "current") BY DEF Cache!Init
      <3> QED BY <3>1, Zenon
    <2> QED BY <1>1, <2>1, <2>2 DEF Cache!Init, Cache!TypeOK
  <1>3. Cache!PlacesFit BY <1>1 DEF Cache!PlacesFit
  <1>4. Cache!LocksHeld
    <2>1. \A t \in Threads : ~Cache!Operation(t) /\ ~Cache!LocalWrite(t) /\ ~Cache!FileLock(t)
         /\ ~Cache!Exclusive(t)
      BY <1>1 DEF Cache!Operation, Cache!LocalWrite, Cache!FileLock, Cache!Exclusive
    <2> QED BY <2>1 DEF Cache!LocksHeld
  <1>5. Cache!FilesFit /\ Cache!LogIsOwn BY <1>1 DEF Cache!Init, Cache!FilesFit, Cache!LogIsOwn
  <1>6. Cache!FilesExclusive BY <1>1 DEF Cache!FilesExclusive, Cache!FileLock, Cache!Exclusive
  <1> QED BY <1>2, <1>3, <1>4, <1>5, <1>6 DEF Cache!TextCacheInv

LEMMA CacheNext ==
  ASSUME Cache!TextCacheAssumption, Cache!TextCacheInv, Cache!Next
  PROVE  Cache!TextCacheInv'
  BY LocksStep, FilesStep, KillKeeps DEF Cache!Next, Cache!Step

\* A cache is removed by a clear alone, whose lease excludes every lookup.
LEMMA RemovedAlone ==
  ASSUME Cache!TextCacheInv, Cache!Next, db # "none", db' = "none"
  PROVE  \A t \in Threads : ~Cache!Shared(t)
  <1>0. Cache!TypeOK /\ Cache!PlacesFit /\ Cache!LocksHeld BY DEF Cache!TextCacheInv
  <1>1. PICK t \in Threads : Cache!RemoveFile(t)
    <2>1. ASSUME NEW t \in Threads,
                 \/ Cache!get_or_insert(t) \/ Cache!clear(t)
                 \/ Cache!with_cache_lease(t) \/ Cache!with_file_lock(t) \/ Cache!try_cache_maintenance(t)
                 \/ Cache!open_cache(t) \/ Cache!rebuild_cache(t) \/ Cache!fetch_cached(t)
                 \/ Cache!compute_misses(t) \/ Cache!persist_new(t) \/ Cache!RemoveLog(t) \/ Cache!Fails(t)
          PROVE  FALSE
      BY <2>1 DEF Cache!get_or_insert, Cache!clear, Cache!with_cache_lease, Cache!with_file_lock,
           Cache!try_cache_maintenance,
         Cache!open_cache, Cache!rebuild_cache, Cache!fetch_cached, Cache!compute_misses,
              Cache!persist_new, Cache!RemoveLog, Cache!Fails, Cache!disk
    <2>2. ASSUME NEW p, Cache!Kill(p) PROVE FALSE BY <2>2 DEF Cache!Kill, Cache!disk
    <2> QED BY <2>1, <2>2 DEF Cache!Next, Cache!Step
  <1>2. Cache!Exclusive(t) /\ ~Cache!Shared(t)
    BY <1>0, <1>1 DEF Cache!RemoveFile, Cache!PlacesFit, Cache!Exclusive, Cache!Shared,
         Cache!LocalRead, Cache!Looking
  <1> QED BY <1>0, <1>2, LocksExclude

LEMMA CacheStutters ==
  ASSUME Cache!TextCacheInv, UNCHANGED <<db, full, wal, job, place, calls>>
  PROVE  Cache!TextCacheInv'
  <1>1. Cache!TypeOK' BY DEF Cache!TextCacheInv, Cache!TypeOK
  <1>2. Cache!PlacesFit' BY DEF Cache!TextCacheInv, Cache!PlacesFit, Cache!Looking
  <1>3. \A t \in Threads : /\ Cache!Operation(t)' <=> Cache!Operation(t)
                           /\ Cache!LocalWrite(t)' <=> Cache!LocalWrite(t)
                           /\ Cache!LocalRead(t)' <=> Cache!LocalRead(t)
                           /\ Cache!FileLock(t)' <=> Cache!FileLock(t)
                           /\ Cache!Exclusive(t)' <=> Cache!Exclusive(t)
                           /\ Cache!Shared(t)' <=> Cache!Shared(t)
    BY DEF Cache!Operation, Cache!LocalWrite, Cache!LocalRead, Cache!FileLock, Cache!Exclusive,
         Cache!Shared, Cache!Looking
  <1>4. Cache!LocksHeld'
    <2>1. \A t \in Threads : Cache!Near(t)' = Cache!Near(t) /\ Cache!Far(t)' = Cache!Far(t)
                             /\ Cache!Near(t) \subseteq Threads /\ Cache!Far(t) \subseteq Threads
      BY DEF Cache!Near, Cache!Far
    <2> QED BY <1>3, <2>1 DEF Cache!TextCacheInv, Cache!LocksHeld
  <1>5. Cache!FilesFit' /\ Cache!LogIsOwn' BY DEF Cache!TextCacheInv, Cache!FilesFit, Cache!LogIsOwn
  <1>6. Cache!FilesExclusive' BY <1>3 DEF Cache!TextCacheInv, Cache!FilesExclusive
  <1> QED BY <1>1, <1>2, <1>4, <1>5, <1>6 DEF Cache!TextCacheInv

\* Whatever threads and processes look up, rebuild, clear, fail or are killed, one at a
\* time uses the files, no log is left beside a file that is not its own, and no cache is
\* removed while a lookup is between its fetch and what it stores.
THEOREM CacheStaysWhole == Spec => CacheIsKept
  <1> DEFINE Whole == part = "caches" => Cache!TextCacheInv
  <1>0. Cache!TextCacheAssumption BY HostsAssumption
  <1>1. ASSUME Init PROVE Whole
    BY <1>0, <1>1, CacheInit DEF Init
  <1>2. ASSUME Whole, [Next]_vars PROVE Whole'
    <2>0. part' = part BY <1>2 DEF Next, vars
    <2>1. ASSUME part = "caches" PROVE Cache!TextCacheInv'
      <3>0. Cache!TextCacheInv BY <1>2, <2>1
      <3>1. Cache!Next \/ UNCHANGED caches BY <1>2, <2>1 DEF Next, vars
      <3>2. CASE UNCHANGED caches BY <3>0, <3>2, CacheStutters DEF caches
      <3>3. CASE Cache!Next BY <1>0, <3>0, <3>3, CacheNext
      <3> QED BY <3>1, <3>2, <3>3
    <2> QED BY <2>0, <2>1
  <1>3. ASSUME Whole, [Next]_vars
        PROVE  [db # "none" /\ db' = "none" => \A t \in Threads : ~Cache!Shared(t)]_(Cache!vars)
    <2>1. CASE part = "caches" /\ Cache!Next
      BY <1>3, <2>1, RemovedAlone
    <2>2. CASE UNCHANGED caches
      BY <2>2 DEF caches, Cache!vars, Cache!disk
    <2> QED BY <1>3, <2>1, <2>2 DEF Next, vars
  <1>4. Spec => []Whole
    BY <1>1, <1>2, PTL DEF Spec
  <1>5. Spec => Cache!LeasedStays
    BY <1>3, <1>4, PTL DEF Spec, Cache!LeasedStays
  <1> QED BY <1>4, <1>5, PTL DEF CacheIsKept
=============================================================================
