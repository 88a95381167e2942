----------------------------- MODULE MCViewCounter -----------------------------
(* ViewCounter on small instances.                                         *)
EXTENDS ViewCounter, TLC

Symmetry == Permutations(Clients) \cup Permutations(Views) \cup Permutations(Flushes)
=============================================================================
