-------------------------- MODULE MCPtlrpcRequests ---------------------------
(* The instance of PtlrpcRequests that TLC checks: n2 is n1 sent again, h1 is
   of high priority.  n1 and n2 are bulk requests, so that n2 is never refused
   as a duplicate; that it is refused is one of the cases of ReqInDropped. *)
EXTENDS PtlrpcRequests, TLC

CONSTANTS n1, n2, h1

XidResent == [r \in Requests |-> IF r = n2 THEN n1 ELSE r]
==============================================================================
