--------------------------------- MODULE Lists ---------------------------------
(***************************************************************************)
(* Array.filter, Array.sort and Array.reduce, the functions of JavaScript  *)
(* the rules of the domain are written with.  As SelectSeq, SortSeq and    *)
(* FoldSeq, but without RECURSIVE and CHOOSE over orders, so that theorems *)
(* can speak of them.                                                      *)
(***************************************************************************)
EXTENDS Integers, FiniteSets

(* How many numbers of a set come up to one of them. *)
Rank(i, I) == Cardinality({j \in I : j <= i})

(* filter: the elements at some positions, in their order. *)
Filtered(s, I) == [k \in 1 .. Cardinality(I) |-> s[CHOOSE i \in I : Rank(i, I) = k]]

(* sort: rows by their ids, which differ. *)
SortedById(rows) ==
    LET ids == {r.id : r \in rows}
    IN  [k \in 1 .. Cardinality(ids) |-> CHOOSE r \in rows : Rank(r.id, ids) = k]

(* reduce: the sum of n amounts. *)
Summed(amounts, n) ==
    LET sum[k \in 0 .. n] == IF k = 0 THEN 0 ELSE sum[k - 1] + amounts[k]
    IN  sum[n]
================================================================================
