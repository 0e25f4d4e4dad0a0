---------------------------- MODULE MCQosThrottle ----------------------------
(* The instance of QosThrottle that TLC checks. *)
EXTENDS QosThrottle, TLC

MCSteps == {-2, 2}

Symmetry == Permutations(Senders)
==============================================================================
