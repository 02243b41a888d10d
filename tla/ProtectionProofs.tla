-------------------------- MODULE ProtectionProofs --------------------------
(***************************************************************************)
(* Theorems about Protection for every set of leases and tables: type      *)
(* correctness, mutual exclusion of exclusive uses and writes, absence of  *)
(* lost wake-ups, and the implementation of Exclusion.                     *)
(***************************************************************************)
EXTENDS Protection, TLAPS

(* Protection::overlaps is symmetric, so it does not matter which of the   *)
(* two leases arrived first.                                               *)
LEMMA OverlapsSymmetric ==
    ASSUME NEW a, NEW b, Promise!overlaps(a, b)
    PROVE  Promise!overlaps(b, a)
  BY DEF Promise!overlaps, Promise!same

(* The initial, empty map satisfies the inductive invariant.               *)
LEMMA InvInit == Init => ProtectionInv
  BY DEF Init, ProtectionInv, TypeOK, ExclusiveUse, NoLostWakeup, WaiterState,
         Promise!ExclusiveUse, Promise!NoEntry, Promise!Entry, Promise!Purpose,
         Promise!Scope, Promise!IsExclusive, Promise!Held, Promise!overlaps,
         Promise!busy

(* Protection::reserve adds one lease that overlaps no exclusive one.      *)
LEMMA ReserveKeepsInv ==
    ASSUME ProtectionInv,
           NEW l \in Lease,
           NEW p \in Promise!Purpose,
           NEW targets \in Promise!Scope,
           reserve(l, p, targets),
           waiter' = IF p = "Mutation" THEN waiter ELSE [waiter EXCEPT ![l] = "Reserved"],
           UNCHANGED <<notified, cancelled, dropping>>
    PROVE  ProtectionInv'
  <1> USE DEF ProtectionInv, TypeOK, reserve, Promise!Held, Promise!IsExclusive,
              Promise!IsMutation
  <1>1. TypeOK'
    BY DEF WaiterState, Promise!Entry
  <1>2. \A m \in Lease : (waiter[m] # "None" <=> Promise!IsExclusive(m))'
    BY DEF Promise!Entry, Promise!Purpose
  <1>3. \A m \in dropping' : (~Promise!Held(m))'
    OBVIOUS
  <1>4. ExclusiveUse'
    <2> SUFFICES ASSUME NEW a \in Lease, NEW b \in Lease, a # b,
                        Promise!IsExclusive(a)',
                        Promise!overlaps(entries[a].targets, entries[b].targets)'
                 PROVE  /\ ~Promise!IsExclusive(b)'
                        /\ (waiter[a] = "Ready" => ~Promise!IsMutation(b))'
      BY DEF ExclusiveUse, Promise!ExclusiveUse
    <2>1. CASE a = l
      <3>1. ~Promise!IsExclusive(b)
        BY <2>1, OverlapsSymmetric DEF Promise!Unprotected
      <3>2. waiter'[a] # "Ready"
        BY <2>1 DEF Promise!Purpose
      <3> QED BY <2>1, <3>1, <3>2
    <2>2. CASE b = l
      BY <2>2 DEF Promise!Unprotected
    <2>3. CASE a # l /\ b # l
      BY <2>3 DEF ExclusiveUse, Promise!ExclusiveUse
    <2> QED BY <2>1, <2>2, <2>3
  <1>5. NoLostWakeup'
    <2> SUFFICES ASSUME NEW a \in Lease, waiter'[a] \in {"Busy", "Parked"}, ~Promise!busy(a)'
                 PROVE  notified[a] \/ dropping # {}
      BY DEF NoLostWakeup
    <2>1. a # l
      BY DEF Promise!Purpose
    <2>2. ~Promise!busy(a)
      BY <2>1 DEF Promise!busy
    <2> QED BY <2>1, <2>2 DEF NoLostWakeup
  <1> QED BY <1>1, <1>2, <1>3, <1>4, <1>5

(* The steps of Lease::ready keep the invariant: a lease turns Ready only  *)
(* when the scan found no overlapping mutation, and parks only when it did. *)
LEMMA ReadyKeepsInv ==
    ASSUME ProtectionInv,
           NEW l \in Lease,
           Enable(l) \/ Scan(l) \/ Sleep(l) \/ Wake(l) \/ Interrupted(l) \/ Cancel(l)
    PROVE  ProtectionInv'
  <1> USE DEF ProtectionInv, TypeOK
  <1>1. entries' = entries /\ dropping' = dropping
    BY DEF Enable, Scan, Sleep, Wake, Interrupted, Cancel
  <1>2. TypeOK'
    BY DEF Enable, Scan, Sleep, Wake, Interrupted, Cancel, WaiterState
  <1>3. \A m \in Lease : waiter'[m] # "None" <=> waiter[m] # "None"
    BY DEF Enable, Scan, Sleep, Wake, Interrupted, Cancel, WaiterState
  <1>4. \A m \in Lease : (waiter[m] # "None" <=> Promise!IsExclusive(m))'
    BY <1>1, <1>3 DEF Promise!IsExclusive
  <1>5. \A m \in dropping' : (~Promise!Held(m))'
    BY <1>1 DEF Promise!Held
  <1>6. \A m \in Lease : waiter'[m] = "Ready" => waiter[m] = "Ready" \/ ~Promise!busy(m)
    BY DEF Enable, Scan, Sleep, Wake, Interrupted, Cancel
  <1>7. ExclusiveUse'
    BY <1>1, <1>6 DEF ExclusiveUse, Promise!ExclusiveUse, Promise!busy,
                      Promise!IsExclusive, Promise!IsMutation
  <1>8. \A m \in Lease : Promise!busy(m)' <=> Promise!busy(m)
    BY <1>1 DEF Promise!busy, Promise!IsMutation
  <1>9. NoLostWakeup'
    BY <1>1, <1>8 DEF NoLostWakeup, Enable, Scan, Sleep, Wake, Interrupted, Cancel
  <1> QED BY <1>2, <1>4, <1>5, <1>7, <1>9

(* Lease::drop keeps the invariant: the first half only frees tables and    *)
(* promises a notification, the second half delivers it to every sleeper.   *)
LEMMA DropKeepsInv ==
    ASSUME ProtectionInv,
           NEW l \in Lease,
           DropRemove(l) \/ DropNotify(l)
    PROVE  ProtectionInv'
  <1> USE DEF ProtectionInv, TypeOK
  <1>1. CASE DropRemove(l)
    <2> USE <1>1 DEF DropRemove
    <2>1. TypeOK'
      BY DEF WaiterState, Promise!Entry, Promise!NoEntry, Promise!Scope
    <2>2. \A m \in Lease : (waiter[m] # "None" <=> Promise!IsExclusive(m))'
      BY DEF Promise!IsExclusive, Promise!NoEntry
    <2>3. \A m \in dropping' : (~Promise!Held(m))'
      BY DEF Promise!Held, Promise!NoEntry
    <2>4. ExclusiveUse'
      <3> SUFFICES ASSUME NEW a \in Lease, NEW b \in Lease, a # b,
                          Promise!IsExclusive(a)',
                          Promise!overlaps(entries[a].targets, entries[b].targets)'
                   PROVE  /\ ~Promise!IsExclusive(b)'
                          /\ (waiter[a] = "Ready" => ~Promise!IsMutation(b))'
        BY DEF ExclusiveUse, Promise!ExclusiveUse
      <3>1. a # l
        BY DEF Promise!IsExclusive, Promise!NoEntry
      <3>2. CASE b = l
        BY <3>2 DEF Promise!IsExclusive, Promise!IsMutation, Promise!NoEntry
      <3>3. CASE b # l
        BY <3>1, <3>3 DEF ExclusiveUse, Promise!ExclusiveUse, Promise!IsExclusive,
                          Promise!IsMutation
      <3> QED BY <3>2, <3>3
    <2>5. NoLostWakeup'
      BY DEF NoLostWakeup
    <2> QED BY <2>1, <2>2, <2>3, <2>4, <2>5
  <1>2. CASE DropNotify(l)
    <2> USE <1>2 DEF DropNotify
    <2>1. TypeOK'
      OBVIOUS
    <2>2. ExclusiveUse'
      BY DEF ExclusiveUse, Promise!ExclusiveUse, Promise!IsExclusive, Promise!IsMutation
    <2>3. NoLostWakeup'
      BY DEF NoLostWakeup
    <2>4. \A m \in Lease : (waiter[m] # "None" <=> Promise!IsExclusive(m))'
      BY DEF Promise!IsExclusive
    <2>5. \A m \in dropping' : (~Promise!Held(m))'
      BY DEF Promise!Held
    <2> QED BY <2>1, <2>2, <2>3, <2>4, <2>5
  <1> QED BY <1>1, <1>2

(* Every step of the protection table keeps the inductive invariant.        *)
LEMMA InvStep == ProtectionInv /\ [Next]_vars => ProtectionInv'
  <1> SUFFICES ASSUME ProtectionInv, [Next]_vars PROVE ProtectionInv'
    OBVIOUS
  <1>1. ASSUME NEW l \in Lease, NEW targets \in Promise!Scope, mutation(l, targets)
        PROVE  ProtectionInv'
    BY <1>1, ReserveKeepsInv DEF mutation, Promise!Purpose
  <1>2. ASSUME NEW l \in Lease, NEW t \in Target, editing(l, t) \/ analysis(l, t)
        PROVE  ProtectionInv'
    <2>1. {t} \in Promise!Scope
      BY DEF Promise!Scope
    <2>2. CASE editing(l, t)
      BY <2>1, <2>2, ReserveKeepsInv DEF editing, exclusive, Promise!Purpose
    <2>3. CASE analysis(l, t)
      BY <2>1, <2>3, ReserveKeepsInv DEF analysis, exclusive, Promise!Purpose
    <2> QED BY <1>2, <2>2, <2>3
  <1>3. ASSUME NEW l \in Lease,
               Enable(l) \/ Scan(l) \/ Sleep(l) \/ Wake(l) \/ Interrupted(l) \/ Cancel(l)
        PROVE  ProtectionInv'
    BY <1>3, ReadyKeepsInv
  <1>4. ASSUME NEW l \in Lease, DropRemove(l) \/ DropNotify(l)
        PROVE  ProtectionInv'
    BY <1>4, DropKeepsInv
  <1>5. CASE UNCHANGED vars
    BY <1>5 DEF vars, ProtectionInv, TypeOK, ExclusiveUse, NoLostWakeup,
                Promise!ExclusiveUse, Promise!IsExclusive, Promise!IsMutation,
                Promise!Held, Promise!busy
  <1> QED BY <1>1, <1>2, <1>3, <1>4, <1>5 DEF Next

(* Type correctness and the full inductive invariant of protection.rs.      *)
THEOREM ProtectionCorrect == Spec => []ProtectionInv
  BY InvInit, InvStep, PTL DEF Spec

(* For any number of leases and tables: an exclusive use let through by     *)
(* Lease::ready never shares a table with a mutation or another exclusive.  *)
THEOREM MutualExclusion == Spec => []ExclusiveUse
  <1>1. ProtectionInv => ExclusiveUse
    BY DEF ProtectionInv
  <1> QED BY <1>1, ProtectionCorrect, PTL

(* Lease::ready never sleeps through the drop it is waiting for.            *)
THEOREM WakeupsAreNotLost == Spec => []NoLostWakeup
  <1>1. ProtectionInv => NoLostWakeup
    BY DEF ProtectionInv
  <1> QED BY <1>1, ProtectionCorrect, PTL

(* The lock, the notification and the scan loop implement Exclusion: each   *)
(* step reserves, grants or releases one lease, or changes nothing a caller *)
(* can see.                                                                 *)
THEOREM ImplementsExclusion == Spec => KeepsPromise
  <1> DEFINE Ready == {l \in Lease : waiter[l] = "Ready"}
  <1>1. Init => Promise!ExclusionInit
    BY DEF Init, Promise!ExclusionInit
  <1>2. ProtectionInv /\ [Next]_vars
            => [Promise!ExclusionNext]_(Promise!exclusionVars)
    <2> SUFFICES ASSUME ProtectionInv, [Next]_vars
                 PROVE  Promise!ExclusionNext \/ UNCHANGED <<entries, Ready>>
      BY DEF Promise!exclusionVars
    <2> USE DEF ProtectionInv, TypeOK
    <2>1. ASSUME NEW l \in Lease, NEW targets \in Promise!Scope, mutation(l, targets)
          PROVE  Promise!ExclusionNext
      <3>1. Promise!Reserve(l, "Mutation", targets)
        BY <2>1 DEF mutation, reserve, Promise!Reserve
      <3> QED BY <3>1 DEF Promise!ExclusionNext
    <2>2. ASSUME NEW l \in Lease, NEW t \in Target, NEW p \in {"Manual", "Analysis"},
                 exclusive(l, p, t)
          PROVE  Promise!ExclusionNext
      <3>1. waiter[l] = "None"
        BY <2>2 DEF exclusive, reserve, Promise!Held, Promise!IsExclusive
      <3>2. Ready' = Ready
        BY <2>2, <3>1 DEF exclusive
      <3>3. Promise!Reserve(l, p, {t})
        BY <2>2, <3>2 DEF exclusive, reserve, Promise!Reserve
      <3> QED BY <3>3 DEF Promise!ExclusionNext
    <2>3. ASSUME NEW l \in Lease, Enable(l) \/ Sleep(l) \/ Wake(l) \/ Interrupted(l)
          PROVE  UNCHANGED <<entries, Ready>>
      BY <2>3 DEF Enable, Sleep, Wake, Interrupted
    <2>4. ASSUME NEW l \in Lease, Cancel(l)
          PROVE  UNCHANGED <<entries, Ready>>
      BY <2>4 DEF Cancel
    <2>5. ASSUME NEW l \in Lease, Scan(l)
          PROVE  Promise!ExclusionNext \/ UNCHANGED <<entries, Ready>>
      <3>1. CASE Promise!busy(l)
        BY <2>5, <3>1 DEF Scan
      <3>2. CASE ~Promise!busy(l)
        <4>1. Promise!IsExclusive(l) /\ l \notin Ready
          BY <2>5 DEF Scan
        <4>2. Ready' = Ready \cup {l}
          BY <2>5, <3>2 DEF Scan
        <4>3. Promise!Grant(l)
          BY <2>5, <3>2, <4>1, <4>2 DEF Scan, Promise!Grant
        <4> QED BY <4>3 DEF Promise!ExclusionNext
      <3> QED BY <3>1, <3>2
    <2>6. ASSUME NEW l \in Lease, DropRemove(l)
          PROVE  Promise!ExclusionNext
      <3>1. Ready' = Ready \ {l}
        BY <2>6 DEF DropRemove
      <3>2. Promise!Release(l)
        BY <2>6, <3>1 DEF DropRemove, Promise!Release
      <3> QED BY <3>2 DEF Promise!ExclusionNext
    <2>7. ASSUME NEW l \in Lease, DropNotify(l)
          PROVE  UNCHANGED <<entries, Ready>>
      BY <2>7 DEF DropNotify
    <2>8. CASE UNCHANGED vars
      BY <2>8 DEF vars
    <2> QED
      BY <2>1, <2>2, <2>3, <2>4, <2>5, <2>6, <2>7, <2>8 DEF Next, editing, analysis
  <1> QED
    BY <1>1, <1>2, ProtectionCorrect, PTL
       DEF Spec, KeepsPromise, Promise!ExclusionSpec
=============================================================================
