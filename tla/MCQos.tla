-------------------------------- MODULE MCQos --------------------------------
(* The instance of Qos that TLC checks: one rule that doubles the limit and
   one that lowers it, alone and together.  Ints have 16 bits, so that
   doubling a limit of 4 overflows. *)
EXTENDS Qos, TLC

Up   == [m100 |-> 200, b100 |-> 0]
Down == [m100 |-> -1, b100 |-> -150]
MCRuleChoices == {<<Up>>, <<Down, Up>>}
MCBadCounts == {2}
MCPerSec == {-1, 1, 2}

Symmetry == Permutations(Threads)
==============================================================================
