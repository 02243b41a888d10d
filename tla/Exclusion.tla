------------------------------ MODULE Exclusion ------------------------------
(***************************************************************************)
(* What table protection promises its callers, with no wait machinery:    *)
(* a lease is reserved for a mutation or for an exclusive use of tables    *)
(* (a manual edit or an Annotation run); a reserved exclusive use admits   *)
(* no new overlapping lease, and it is granted once the mutations that     *)
(* were there before it have gone.  Protection.tla implements this with a  *)
(* lock, a notification and a scan loop; Runtime.tla builds on it.         *)
(***************************************************************************)
CONSTANTS Lease,     \* identities of leases (Uuid)
          Target,    \* spelled table names, schema included
          Identity,  \* what a spelling names: case folded, schema defaulted
          Arbitrary  \* the scope of arbitrary SQL: Option::None

VARIABLES entries,   \* the table of reservations
          granted    \* the exclusive uses whose owner may go ahead

exclusionVars == <<entries, granted>>
-----------------------------------------------------------------------------
Scope == (SUBSET Target) \cup {Arbitrary}
Purpose == {"Mutation", "Manual", "Analysis"}
Entry == [purpose : Purpose \cup {"Free"}, targets : Scope]
NoEntry == [purpose |-> "Free", targets |-> {}]

\* Two spellings name the same table.
same(a, b) == Identity[a] = Identity[b]

\* Arbitrary SQL overlaps everything, even a write that names no table.
overlaps(a, b) ==
    \/ a = Arbitrary
    \/ b = Arbitrary
    \/ \E x \in a : \E y \in b : same(x, y)

Held(l) == entries[l].purpose # "Free"
IsMutation(l) == entries[l].purpose = "Mutation"
IsExclusive(l) == entries[l].purpose \in {"Manual", "Analysis"}

\* No exclusive reservation overlaps the requested targets.
Unprotected(targets) ==
    \A m \in Lease : IsExclusive(m) => ~overlaps(entries[m].targets, targets)

\* A mutation still holds a table of lease l.
busy(l) ==
    \E m \in Lease \ {l} :
        IsMutation(m) /\ overlaps(entries[l].targets, entries[m].targets)
-----------------------------------------------------------------------------
Reserve(l, p, targets) ==
    /\ ~Held(l)
    /\ Unprotected(targets)
    /\ entries' = [entries EXCEPT ![l] = [purpose |-> p, targets |-> targets]]
    /\ UNCHANGED granted

Grant(l) ==
    /\ IsExclusive(l)
    /\ l \notin granted
    /\ ~busy(l)
    /\ granted' = granted \cup {l}
    /\ UNCHANGED entries

Release(l) ==
    /\ Held(l)
    /\ entries' = [entries EXCEPT ![l] = NoEntry]
    /\ granted' = granted \ {l}

ExclusionInit ==
    /\ entries = [l \in Lease |-> NoEntry]
    /\ granted = {}

ExclusionNext ==
    \E l \in Lease :
        \/ \E targets \in Scope : Reserve(l, "Mutation", targets)
        \/ \E p \in {"Manual", "Analysis"}, t \in Target : Reserve(l, p, {t})
        \/ Grant(l)
        \/ Release(l)

ExclusionSpec == ExclusionInit /\ [][ExclusionNext]_exclusionVars
-----------------------------------------------------------------------------
(* A granted manual edit or Annotation run shares no table with a running  *)
(* mutation, and no two exclusive reservations share a table.              *)
ExclusiveUse ==
    \A l, m \in Lease :
        l # m /\ IsExclusive(l) /\ overlaps(entries[l].targets, entries[m].targets) =>
            /\ ~IsExclusive(m)
            /\ l \in granted => ~IsMutation(m)
=============================================================================
