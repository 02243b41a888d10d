----------------------------- MODULE Protection -----------------------------
(***************************************************************************)
(* backend/src/project/protection.rs: the in-memory table of mutation      *)
(* permissions of one open project.  A lease is dropped in two steps (the  *)
(* entry leaves the map under its lock, then waiters are notified), and    *)
(* ready() is a loop: register with the notification, scan the map, sleep. *)
(***************************************************************************)
CONSTANTS Lease, Target, Identity, Arbitrary

ASSUME ArbitraryAssumption == \A T \in SUBSET Target : T # Arbitrary

VARIABLES entries,    \* Protection.entries, with "Free" for an absent id
          waiter,     \* where each exclusive lease stands in Lease::ready
          notified,   \* its Notified future has been woken
          cancelled,  \* the CancellationToken its owner passes to ready
          dropping    \* removed from entries, waiters not notified yet

vars == <<entries, waiter, notified, cancelled, dropping>>

Promise == INSTANCE Exclusion WITH granted <- {l \in Lease : waiter[l] = "Ready"}
-----------------------------------------------------------------------------
WaiterState == {"None", "Reserved", "Enabled", "Busy", "Parked", "Ready", "Failed"}

TypeOK ==
    /\ entries \in [Lease -> Promise!Entry]
    /\ waiter \in [Lease -> WaiterState]
    /\ notified \in [Lease -> BOOLEAN]
    /\ cancelled \in [Lease -> BOOLEAN]
    /\ dropping \subseteq Lease

Init ==
    /\ entries = [l \in Lease |-> Promise!NoEntry]
    /\ waiter = [l \in Lease |-> "None"]
    /\ notified = [l \in Lease |-> FALSE]
    /\ cancelled = [l \in Lease |-> FALSE]
    /\ dropping = {}
-----------------------------------------------------------------------------
\* Protection::reserve, under the entries lock; refused while an exclusive
\* reservation overlaps.  Mutations never exclude one another here.
reserve(l, p, targets) ==
    /\ ~Promise!Held(l)
    /\ l \notin dropping
    /\ Promise!Unprotected(targets)
    /\ entries' = [entries EXCEPT ![l] = [purpose |-> p, targets |-> targets]]

Bug_mutation_unchecked(l, targets) ==
    /\ ~Promise!Held(l)
    /\ l \notin dropping
    /\ entries' = [entries EXCEPT ![l] = [purpose |-> "Mutation", targets |-> targets]]
    /\ UNCHANGED <<waiter, notified, cancelled, dropping>>

mutation(l, targets) ==
    /\ reserve(l, "Mutation", targets)
    /\ UNCHANGED <<waiter, notified, cancelled, dropping>>

\* The reservation comes before the wait: later writes find it.
exclusive(l, p, t) ==
    /\ reserve(l, p, {t})
    /\ waiter' = [waiter EXCEPT ![l] = "Reserved"]
    /\ UNCHANGED <<notified, cancelled, dropping>>

editing(l, t) == exclusive(l, "Manual", t)
analysis(l, t) == exclusive(l, "Analysis", t)

\* ready: a fresh Notified future, registered before the map is read.
Enable(l) ==
    /\ waiter[l] = "Reserved"
    /\ waiter' = [waiter EXCEPT ![l] = "Enabled"]
    /\ notified' = [notified EXCEPT ![l] = FALSE]
    /\ UNCHANGED <<entries, cancelled, dropping>>

\* As if an Annotation run did not wait for the writes before it.
Bug_Scan_no_wait(l) ==
    /\ waiter[l] = "Enabled"
    /\ waiter' = [waiter EXCEPT ![l] =
                     IF Promise!busy(l) /\ entries[l].purpose = "Manual"
                     THEN "Busy" ELSE "Ready"]
    /\ UNCHANGED <<entries, notified, cancelled, dropping>>

\* ready: read the map under its lock and either return or go on to sleep.
Scan(l) ==
    /\ waiter[l] = "Enabled"
    /\ waiter' = [waiter EXCEPT ![l] = IF Promise!busy(l) THEN "Busy" ELSE "Ready"]
    /\ UNCHANGED <<entries, notified, cancelled, dropping>>

\* As if the future were registered only when it is first awaited.
Bug_Sleep_registers(l) ==
    /\ waiter[l] = "Busy"
    /\ waiter' = [waiter EXCEPT ![l] = "Parked"]
    /\ notified' = [notified EXCEPT ![l] = FALSE]
    /\ UNCHANGED <<entries, cancelled, dropping>>

\* ready: the lock is free again; await the future that was registered before.
Sleep(l) ==
    /\ waiter[l] = "Busy"
    /\ waiter' = [waiter EXCEPT ![l] = "Parked"]
    /\ UNCHANGED <<entries, notified, cancelled, dropping>>

\* ready: woken, go round the loop.
Wake(l) ==
    /\ waiter[l] = "Parked"
    /\ notified[l]
    /\ waiter' = [waiter EXCEPT ![l] = "Reserved"]
    /\ notified' = [notified EXCEPT ![l] = FALSE]
    /\ UNCHANGED <<entries, cancelled, dropping>>

\* ready: the select takes the cancellation instead.
Interrupted(l) ==
    /\ waiter[l] = "Parked"
    /\ cancelled[l]
    /\ waiter' = [waiter EXCEPT ![l] = "Failed"]
    /\ UNCHANGED <<entries, notified, cancelled, dropping>>

\* The owner of the wait is cancelled (task cancelled, project closing).
Cancel(l) ==
    /\ Promise!IsExclusive(l)
    /\ ~cancelled[l]
    /\ cancelled' = [cancelled EXCEPT ![l] = TRUE]
    /\ UNCHANGED <<entries, waiter, notified, dropping>>

\* Lease::drop, first half.  Owners are detached tasks, so an exclusive lease
\* is dropped only after ready has returned; its future and token go with it.
DropRemove(l) ==
    /\ Promise!Held(l)
    /\ waiter[l] \in {"None", "Ready", "Failed"}
    /\ entries' = [entries EXCEPT ![l] = Promise!NoEntry]
    /\ waiter' = [waiter EXCEPT ![l] = "None"]
    /\ notified' = [notified EXCEPT ![l] = FALSE]
    /\ cancelled' = [cancelled EXCEPT ![l] = FALSE]
    /\ dropping' = dropping \cup {l}

\* As if a drop woke only waiters already asleep.
Bug_DropNotify_parked_only(l) ==
    /\ l \in dropping
    /\ dropping' = dropping \ {l}
    /\ notified' = [m \in Lease |-> notified[m] \/ waiter[m] = "Parked"]
    /\ UNCHANGED <<entries, waiter, cancelled>>

\* Lease::drop, second half: wake every registered waiter.
DropNotify(l) ==
    /\ l \in dropping
    /\ dropping' = dropping \ {l}
    /\ notified' = [m \in Lease |->
                       notified[m] \/ waiter[m] \in {"Enabled", "Busy", "Parked"}]
    /\ UNCHANGED <<entries, waiter, cancelled>>

Next ==
    \E l \in Lease :
        \/ \E targets \in Promise!Scope : mutation(l, targets)
        \/ \E t \in Target : editing(l, t) \/ analysis(l, t)
        \/ Enable(l) \/ Scan(l) \/ Sleep(l) \/ Wake(l) \/ Interrupted(l) \/ Cancel(l)
        \/ DropRemove(l) \/ DropNotify(l)

Spec == Init /\ [][Next]_vars

(* Detached tasks keep running, writes end, and a drop runs both halves.   *)
(* Nothing obliges anyone to reserve, to cancel, or an editor to finish.   *)
Fairness ==
    \A l \in Lease :
        /\ WF_vars(Enable(l)) /\ WF_vars(Scan(l)) /\ WF_vars(Sleep(l)) /\ WF_vars(Wake(l))
        /\ WF_vars(Promise!IsMutation(l) /\ DropRemove(l))
        /\ WF_vars(DropNotify(l))

FairSpec == Spec /\ Fairness
-----------------------------------------------------------------------------
(* An editor or Annotation run that ready() let through shares no table    *)
(* with a mutation still in the map, and no two of them share a table.     *)
ExclusiveUse == Promise!ExclusiveUse

(* A waiter that goes to sleep although no mutation holds its table has been      *)
(* woken, or a dropped lease is about to wake it: no wake-up is lost       *)
(* between the scan of the map and the sleep.                              *)
NoLostWakeup ==
    \A l \in Lease :
        waiter[l] \in {"Busy", "Parked"} /\ ~Promise!busy(l) => notified[l] \/ dropping # {}

(* Every exclusive reservation gets its answer: ready() returns.           *)
ReservationSettles ==
    \A l \in Lease :
        waiter[l] = "Reserved" ~> waiter[l] \in {"Ready", "Failed"}

(* Every step is a step of the promise, or invisible to callers: "Reserve  *)
(* before waiting so newly arriving writes cannot overtake this editor",   *)
(* and an exclusive use starts only once the writes before it have gone.   *)
KeepsPromise == Promise!ExclusionSpec

\* The inductive invariant behind the theorems of ProtectionProofs.
ProtectionInv ==
    /\ TypeOK
    /\ \A l \in Lease : waiter[l] # "None" <=> Promise!IsExclusive(l)
    /\ \A l \in dropping : ~Promise!Held(l)
    /\ ExclusiveUse
    /\ NoLostWakeup
=============================================================================
