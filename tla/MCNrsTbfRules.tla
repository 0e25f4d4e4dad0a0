---------------------------- MODULE MCNrsTbfRules ----------------------------
(* The instance of NrsTbfRules that TLC checks. *)
EXTENDS NrsTbfRules

Symmetry == Permutations(Clis) \union Permutations(Rules \ {DefaultRule})
==============================================================================
