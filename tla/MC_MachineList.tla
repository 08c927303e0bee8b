--------------------------- MODULE MC_MachineList ---------------------------
(* The machines, and the requests, differ in their names only. *)
EXTENDS MachineList, TLC

Symmetry == Permutations(Machines) \cup Permutations(Requests)
=============================================================================
