--------------------------- MODULE MCPtlrpcBuffers ---------------------------
(* The instance of PtlrpcBuffers that TLC checks. *)
EXTENDS PtlrpcBuffers
==============================================================================
