----------------------------- MODULE MCRuntime -----------------------------
EXTENDS Runtime, TLC

MCIdentity == [t \in Target |-> t]

ClientSymmetry == Permutations(Client)
=============================================================================
