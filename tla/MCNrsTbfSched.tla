---------------------------- MODULE MCNrsTbfSched ----------------------------
(* The instance of NrsTbfSched that TLC checks.  The rule of c1 may be given
   another rate. *)
EXTENDS NrsTbfSched

CONSTANTS c1, c2

MCOffered == c1 :> {2, 3} @@ c2 :> {3}
==============================================================================
