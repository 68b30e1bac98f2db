--------------------------- MODULE MCPointsLedger ---------------------------
(* Small instances of PointsLedger for TLC.                                    *)
EXTENDS PointsLedger, TLC

Symmetry == Permutations(Txns)
FirstMembersKeys == [k \in Keys |-> CHOOSE m \in Members : TRUE]
=============================================================================
