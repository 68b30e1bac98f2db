---------------------------- MODULE MCTaskMarket ----------------------------
(* Small instances of TaskMarket, and of what its members see, for TLC.        *)
(* Members of one role and occurrences are interchangeable.                    *)
EXTENDS TaskViews, TLC

(* Reward rules: paid in full on completion; two fifths on acceptance, which   *)
(* rounds to nothing at the base value; and rewards switched off.              *)
InFull == [enabled |-> TRUE, timing |-> "ON_COMPLETE", multiplier |-> 10, rounding |-> "ROUND"]
InPart == [enabled |-> TRUE, timing |-> "ON_ACCEPT", multiplier |-> 4, rounding |-> "ROUND"]
Off == [enabled |-> FALSE, timing |-> "ON_COMPLETE", multiplier |-> 10, rounding |-> "ROUND"]
AllRules == <<InFull, InPart, Off>>
OnlyInFull == <<InFull>>

Symmetry ==
    Permutations(Members \ Admins) \cup Permutations(Admins) \cup Permutations(Instances)
=============================================================================
