----------------------------- MODULE MCSpendCaps -----------------------------
(* Model-checking instance of SpendCaps. *)
EXTENDS SpendCaps, TLC
\* Requests and people are interchangeable (safety runs only).
Symmetry ==
  Permutations(Requests) \cup Permutations(Principals)
=============================================================================
