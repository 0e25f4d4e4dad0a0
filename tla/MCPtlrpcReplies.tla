-------------------------- MODULE MCPtlrpcReplies ----------------------------
(* The instance of PtlrpcReplies that TLC checks: two replies of successive
   transactions. *)
EXTENDS PtlrpcReplies, TLC

CONSTANTS rs1, rs2

MCTransno == (rs1 :> 1) @@ (rs2 :> 2)
==============================================================================
