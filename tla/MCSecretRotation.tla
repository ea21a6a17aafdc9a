-------------------------- MODULE MCSecretRotation --------------------------
(* Model-checking instance of SecretRotation. *)
EXTENDS SecretRotation, TLC
\* Tokens, workers and tasks are interchangeable (safety runs only).
Symmetry ==
  Permutations(Tokens) \cup Permutations(Workers) \cup Permutations(Tasks)
=============================================================================
