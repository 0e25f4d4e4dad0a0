------------------------------ MODULE MCNrsSscdt -----------------------------
(* Requests of NrsSscdt for TLC: three seconds, two NIDs, two pids; r1 and r2
   are equal for the comparison, r5 arrives with high priority. *)
EXTENDS NrsSscdt, TLC

CONSTANTS r1, r2, r3, r4, r5

MCSent == [r \in Reqs |-> ((r1 :> 1) @@ (r2 :> 1) @@ (r3 :> 2) @@ (r4 :> 2) @@ (r5 :> 3))[r]]
MCNid  == [r \in Reqs |-> ((r1 :> 2) @@ (r2 :> 2) @@ (r3 :> 1) @@ (r4 :> 2) @@ (r5 :> 1))[r]]
MCPid  == [r \in Reqs |-> ((r1 :> 1) @@ (r2 :> 1) @@ (r3 :> 1) @@ (r4 :> 2) @@ (r5 :> 2))[r]]
MCHp   == [r \in Reqs |-> r = r5]
==============================================================================
