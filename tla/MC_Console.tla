----------------------------- MODULE MC_Console -----------------------------
(* The tabs, and the passwords, differ in their names only. *)
EXTENDS Console, TLC

Symmetry == Permutations(Tabs) \cup Permutations(Passwords)
=============================================================================
