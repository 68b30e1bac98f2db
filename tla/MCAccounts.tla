----------------------------- MODULE MCAccounts -----------------------------
(* Accounts for TLC: one household with its founder, and a second person who  *)
(* may be added to it, register a household of their own, or both.            *)
EXTENDS Accounts, TLC

CONSTANTS h1, h2, u1, u2

MCFounders == <<<<h1, u1>>>>

(* Role or activity alone, and a demotion with a deactivation. *)
MCChanges ==
    {[role |-> {r}, active |-> {}] : r \in {"ADMIN", "MEMBER"}}
      \cup {[role |-> {}, active |-> {a}] : a \in BOOLEAN}
      \cup {[role |-> {"MEMBER"}, active |-> {FALSE}]}

Symmetry == Permutations(Calls)

=============================================================================
