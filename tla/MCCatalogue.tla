----------------------------- MODULE MCCatalogue ----------------------------
(* Catalogue for TLC: the calls and the sweeps are interchangeable. *)
EXTENDS Catalogue, TLC

Symmetry == Permutations(Calls) \cup Permutations(Sweeps)

=============================================================================
