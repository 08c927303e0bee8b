------------------------ MODULE MC_KeepAliveService ------------------------
(***************************************************************************)
(* Instances of KeepAliveService for TLC.  Objects of one kind are         *)
(* interchangeable in the safety runs; the liveness runs use no symmetry.  *)
(***************************************************************************)
EXTENDS KeepAliveService, TLC

Symmetry ==
    Permutations(Clients) \cup Permutations(Rts) \cup Permutations(Runners)
      \cup Permutations(Machines) \cup Permutations(Accounts)
=============================================================================
