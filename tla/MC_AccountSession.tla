------------------------- MODULE MC_AccountSession --------------------------
(* TLC instance of AccountSession: requests are interchangeable. *)
EXTENDS AccountSession, TLC

Symmetry == Permutations(Clients)
=============================================================================
