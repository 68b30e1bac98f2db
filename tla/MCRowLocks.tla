----------------------------- MODULE MCRowLocks -----------------------------
(* Small instances of RowLocks for TLC.  Transactions and occurrences are      *)
(* interchangeable; members are not, their ids are ordered.                    *)
EXTENDS RowLocks, TLC

Symmetry == Permutations(Txns) \cup Permutations(Instances)
=============================================================================
