--------------------------- MODULE MCNrsTbfClients ---------------------------
(* The instance of NrsTbfClients that TLC checks. *)
EXTENDS NrsTbfClients

Symmetry ==
  Permutations(Keys) \union Permutations(Clis) \union Permutations(Threads)
==============================================================================
