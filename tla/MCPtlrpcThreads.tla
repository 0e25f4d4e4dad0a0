-------------------------- MODULE MCPtlrpcThreads ----------------------------
(* The instance of PtlrpcThreads that TLC checks. *)
EXTENDS PtlrpcThreads

\* A service that starts two threads and whose limit grows with its two cores
\* to three; one with a high priority handler, of three to four threads; and
\* another one, which should start three threads where the user allows two.
SmallConf ==
  {[hp |-> FALSE, ncpts |-> 1, init |-> 2, base |-> 1, max |-> 8, user |-> 0,
    factor |-> 1, weight |-> 2, ht |-> FALSE],
   [hp |-> TRUE, ncpts |-> 1, init |-> 2, base |-> 0, max |-> 4, user |-> 0,
    factor |-> 0, weight |-> 1, ht |-> FALSE],
   [hp |-> TRUE, ncpts |-> 2, init |-> 2, base |-> 1, max |-> 8, user |-> 4,
    factor |-> 1, weight |-> 2, ht |-> FALSE]}
==============================================================================
