---------------------------- MODULE MCRewardShop ----------------------------
(* RewardShop for TLC: the members are interchangeable. *)
EXTENDS RewardShop, TLC

Symmetry == Permutations(Members)

=============================================================================
