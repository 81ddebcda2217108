----------------------------- MODULE MCCbrZone -----------------------------
(* Small instances of CbrZone for TLC. *)
EXTENDS CbrZone_proofs, TLC

CONSTANTS z1, z2, base, a, b, p1, p2, id1, id2

MCOneProcess == [c \in Clients |-> p1]
MCTwoProcesses == [c \in Clients |-> IF c = b THEN p2 ELSE p1]

\* The uuids are interchangeable.
IdSymmetry == Permutations(Ids)
=============================================================================
