---- MODULE MCDiscovery ----
(* Discovery for TLC: callers are interchangeable; peers are not, one of them is peers[0]. *)
EXTENDS Discovery, TLC
Symmetry == Permutations(Callers)
====
