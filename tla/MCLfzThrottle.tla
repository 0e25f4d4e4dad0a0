--------------------------- MODULE MCLfzThrottle -----------------------------
(* The instance of LfzThrottle that TLC checks. *)
EXTENDS LfzThrottle
==============================================================================
