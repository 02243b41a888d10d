---------------------------- MODULE MCProtection ----------------------------
(* Three leases over two tables, one of them known by two spellings.       *)
EXTENDS Protection, TLC

CONSTANTS l1, l2, l3, doc, DOC, codes

MCLease == {l1, l2, l3}
MCTarget == {doc, DOC, codes}
MCIdentity == doc :> doc @@ DOC :> doc @@ codes :> codes
=============================================================================
