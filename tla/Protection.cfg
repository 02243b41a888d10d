SPECIFICATION FairSpec

CONSTANTS
    l1 = l1
    l2 = l2
    l3 = l3
    doc = doc
    DOC = DOC
    codes = codes
    Lease <- MCLease
    Target <- MCTarget
    Identity <- MCIdentity
    Arbitrary = Arbitrary

INVARIANTS ProtectionInv ExclusiveUse
PROPERTIES KeepsPromise ReservationSettles

CHECK_DEADLOCK FALSE
