---------------------------- MODULE MCPortalLogin ---------------------------
(* An instance of PortalLogin: tabs and key ids are interchangeable.       *)
EXTENDS PortalLogin, TLC

Symmetry == Permutations(Threads) \cup Permutations(Kids) \cup Permutations(Logins)

=============================================================================
