--------------------------- MODULE NrsPolicyProofs ---------------------------
(***************************************************************************)
(* Proofs about the two request scheduling policies.  NrsTbfSched: for     *)
(* every set of clients, threads and rates, every bucket depth, clock      *)
(* resolution and word size.  NrsSscdt: for every set of requests, however *)
(* they were sent and from whom, and every width of the time window.       *)
(***************************************************************************)
EXTENDS NrsTbfSched, NrsSscdt, WellFoundedInduction, TLAPS

(***************************************************************************)
(* The token buckets of TBF.                                               *)
(***************************************************************************)

\* Integer division never rounds up (the token count in nrs_tbf_req_get).
LEMMA DivBound ==
  ASSUME NEW a \in Nat, NEW b \in Nat \ {0}
  PROVE  a \div b \in Nat /\ (a \div b) * b <= a
  OBVIOUS

\* Unsigned wrap-around never increases a value.
LEMMA ModBound ==
  ASSUME NEW a \in Nat, NEW b \in Nat \ {0}
  PROVE  a % b \in Nat /\ a % b <= a
  OBVIOUS

\* Products of naturals are naturals, and grow with their factors.
LEMMA ProductNat ==
  ASSUME NEW a \in Nat, NEW b \in Nat
  PROVE  a * b \in Nat
  OBVIOUS

LEMMA ProductMono ==
  ASSUME NEW a \in Nat, NEW b \in Nat, NEW k \in Nat, a <= b
  PROVE  a * k <= b * k
  OBVIOUS

LEMMA Distribute ==
  ASSUME NEW a \in Int, NEW b \in Int, NEW k \in Int
  PROVE  (a + b) * k = a * k + b * k
  OBVIOUS

\* A rate is a positive number.
LEMMA RatePositive ==
  ASSUME NEW r \in Rates
  PROVE  r \in Nat /\ r # 0
  BY RatesAssumption

LEMMA OfferedRate ==
  ASSUME NEW c \in Clients, NEW r \in Offered[c]
  PROVE  r \in Rates
  BY RatesAssumption

\* The tokens nrs_tbf_req_get finds are at most Depth and were accrued at the
\* client's rate since its bucket was last checked.
LEMMA NtokenBound ==
  ASSUME TypeOK, NEW c \in Clients, tc_check_time[c] <= now
  PROVE  /\ Ntoken(c) \in 0..Depth
         /\ Ntoken(c) * NSEC_PER_SEC
              <= tc_ntoken[c] * NSEC_PER_SEC
                   + (now - tc_check_time[c]) * tc_rpc_rate[c]
<1> DEFINE due == (now - tc_check_time[c]) * tc_rpc_rate[c]
           accrued == (due % WORD) \div NSEC_PER_SEC
<1>1. /\ now - tc_check_time[c] \in Nat
      /\ tc_rpc_rate[c] \in Nat \ {0}
      /\ tc_ntoken[c] \in 0..Depth
      /\ Depth \in Nat
      /\ NSEC_PER_SEC \in Nat \ {0}
      /\ WORD \in Nat \ {0}
  <2>1. /\ now \in Nat /\ tc_check_time[c] \in Nat
        /\ tc_rpc_rate[c] \in Rates /\ tc_ntoken[c] \in 0..Depth
    BY DEF TypeOK
  <2>2. now - tc_check_time[c] \in Nat
    BY <2>1
  <2>3. tc_rpc_rate[c] \in Nat \ {0}
    BY <2>1, RatePositive
  <2> QED BY <2>1, <2>2, <2>3, DepthAssumption, ClockAssumption
<1>2. due \in Nat
  BY <1>1, ProductNat
<1>3. due % WORD \in Nat /\ due % WORD <= due
  BY <1>1, <1>2, ModBound
<1>4. accrued \in Nat /\ accrued * NSEC_PER_SEC <= due % WORD
  <2> HIDE DEF due
  <2> QED BY <1>1, <1>3, DivBound
<1>5. Ntoken(c) = IF accrued + tc_ntoken[c] > Depth THEN Depth
                                                   ELSE accrued + tc_ntoken[c]
  BY DEF Ntoken
<1> HIDE DEF accrued, due
<1>6. Ntoken(c) \in 0..Depth /\ Ntoken(c) <= accrued + tc_ntoken[c]
  BY <1>1, <1>4, <1>5
<1>7. Ntoken(c) * NSEC_PER_SEC <= (accrued + tc_ntoken[c]) * NSEC_PER_SEC
  BY <1>1, <1>4, <1>6, ProductMono
<1>8. (accrued + tc_ntoken[c]) * NSEC_PER_SEC
        = accrued * NSEC_PER_SEC + tc_ntoken[c] * NSEC_PER_SEC
  BY <1>1, <1>4, Distribute
<1>9. Ntoken(c) * NSEC_PER_SEC <= tc_ntoken[c] * NSEC_PER_SEC + due
  <2>1. /\ tc_ntoken[c] * NSEC_PER_SEC \in Nat
        /\ accrued * NSEC_PER_SEC \in Nat
        /\ Ntoken(c) * NSEC_PER_SEC \in Nat
    BY <1>1, <1>4, <1>6, ProductNat
  <2> QED BY <2>1, <1>2, <1>3, <1>4, <1>7, <1>8
<1> QED BY <1>6, <1>9 DEF due

-----------------------------------------------------------------------------
\* The inductive invariant: the state's type, the agreement of heap and
\* queues, the owner of the throttling flag and the bucket's bookkeeping.
IInv == TypeOK /\ HeapMatchesQueues /\ ThrottleHasOwner /\ BucketBound

\* A token period is a natural number of clock units.
LEMMA NsecsNat ==
  ASSUME NEW r \in Rates
  PROVE  Nsecs(r) \in Nat
  BY RatePositive, ClockAssumption, DivBound DEF Nsecs

LEMMA InitIInv == Init => IInv
<1> SUFFICES ASSUME Init PROVE IInv
  OBVIOUS
<1>1. TypeOK
  <2>1. \A c \in Clients : Nsecs(tc_rpc_rate[c]) \in Nat
    BY NsecsNat DEF Init
  <2>2. tc_nsecs \in [Clients -> Nat]
    BY <2>1 DEF Init
  <2>3. tc_ntoken \in [Clients -> 0..Depth]
    BY DepthAssumption DEF Init
  <2> QED BY <2>2, <2>3 DEF Init, TypeOK
<1>2. HeapMatchesQueues /\ ThrottleHasOwner /\ BucketBound
  BY ObservedAssumption DEF Init, HeapMatchesQueues, ThrottleHasOwner, BucketBound
<1> QED BY <1>1, <1>2 DEF IInv

\* Waking a thread only touches the threads.
LEMMA WakeUpType ==
  ASSUME TypeOK, WakeUp
  PROVE  thread' \in [Threads -> {"run", "sleep"}]
  BY DEF TypeOK, WakeUp

\* Every step keeps the type.
LEMMA TypeStep == IInv /\ [Next]_vars => TypeOK'
<1> SUFFICES ASSUME IInv, [Next]_vars PROVE TypeOK'
  OBVIOUS
<1> USE DEF IInv
<1>1. CASE nrs_tbf_start
  BY <1>1 DEF nrs_tbf_start, TypeOK, clientVars, timerVars, winVars
<1>2. CASE nrs_tbf_stop
  BY <1>2, WakeUpType DEF nrs_tbf_stop, TypeOK, clientVars, timerVars, winVars
<1>3. ASSUME NEW c \in Clients, NEW r \in Offered[c],
             nrs_tbf_cli_init(c, r) \/ nrs_tbf_cli_reset_value(c, r)
      PROVE  TypeOK'
  <2>1. r \in Rates /\ Nsecs(r) \in Nat /\ Depth \in 0..Depth
    BY OfferedRate, NsecsNat, DepthAssumption
  <2>2. /\ tc_rpc_rate' \in [Clients -> Rates] /\ tc_nsecs' \in [Clients -> Nat]
        /\ tc_ntoken' \in [Clients -> 0..Depth] /\ tc_check_time' \in [Clients -> Nat]
    BY <1>3, <2>1 DEF nrs_tbf_cli_init, nrs_tbf_cli_reset_value, Refill, TypeOK
  <2>3. win_start' \in Nat /\ win_sent' \in Nat /\ win_buckets' \in Nat
    BY <1>3 DEF nrs_tbf_cli_init, nrs_tbf_cli_reset_value, NewWindow, winVars, TypeOK
  <2> QED BY <1>3, <2>2, <2>3
          DEF nrs_tbf_cli_init, nrs_tbf_cli_reset_value, TypeOK, timerVars
<1>4. ASSUME NEW c \in Clients, nrs_tbf_req_add(c) PROVE TypeOK'
  <2>1. thread' \in [Threads -> {"run", "sleep"}]
    BY <1>4, WakeUpType DEF nrs_tbf_req_add, TypeOK
  <2> QED BY <1>4, <2>1
          DEF nrs_tbf_req_add, TypeOK, clientVars, timerVars, winVars
<1>16. ASSUME NEW c \in Clients, RearmEarlier(c) PROVE TypeOK'
  <2>1. Deadline(c) \in Nat
    BY DEF TypeOK, Deadline
  <2>2. thread' \in [Threads -> {"run", "sleep"}]
    BY <1>16, WakeUpType DEF RearmEarlier
  <2>3. th_deadline' \in Nat /\ th_timer' \in {"idle", "armed"}
    BY <1>16, <2>1 DEF RearmEarlier, TypeOK
  <2> QED BY <1>16, <2>2, <2>3 DEF RearmEarlier, TypeOK, clientVars, winVars
<1>17. ASSUME NEW c \in Clients, InsertFails(c) PROVE TypeOK'
  BY <1>17, WakeUpType DEF InsertFails, TypeOK, clientVars, timerVars, winVars
<1>5. ASSUME NEW c \in Clients, nrs_tbf_req_del(c) PROVE TypeOK'
  BY <1>5 DEF nrs_tbf_req_del, Unlink, Settle, TypeOK, clientVars, timerVars, winVars
<1>6. ASSUME NEW t \in Threads, nrs_tbf_req_get(t) PROVE TypeOK'
  <2>1. PICK c \in Roots : Dispatch(c) \/ Throttle(c)
    BY <1>6 DEF nrs_tbf_req_get
  <2>2. c \in th_binheap /\ c \in Clients /\ tc_list[c] > 0
    BY DEF Roots, TypeOK, HeapMatchesQueues
  <2>3. Ntoken(c) \in 0..Depth /\ Deadline(c) \in Nat
    BY <2>2, NtokenBound DEF HeapMatchesQueues, TypeOK, Deadline
  <2>4. CASE Dispatch(c)
    <3>1. Ntoken(c) - 1 \in 0..Depth
      BY <2>3, <2>4, DepthAssumption DEF Dispatch
    <3> QED BY <1>6, <2>2, <2>4, <3>1
            DEF nrs_tbf_req_get, Dispatch, Unlink, Settle, TypeOK, timerVars
  <2>5. CASE Throttle(c)
    BY <1>6, <2>3, <2>5
    DEF nrs_tbf_req_get, Throttle, TypeOK, clientVars, winVars
  <2> QED BY <2>1, <2>4, <2>5
<1>7. ASSUME NEW t \in Threads, ptlrpc_wait_event(t) PROVE TypeOK'
  BY <1>7 DEF ptlrpc_wait_event, TypeOK, clientVars, timerVars, winVars
<1>8. CASE TimerExpires
  BY <1>8 DEF TimerExpires, TypeOK, clientVars, winVars
<1>9. CASE TimerCbClear
  BY <1>9 DEF TimerCbClear, TypeOK, clientVars, winVars
<1>10. CASE TimerCbWake
  BY <1>10, WakeUpType DEF TimerCbWake, TypeOK, clientVars, winVars
<1>11. CASE Tick
  BY <1>11 DEF Tick, TypeOK, clientVars, timerVars, winVars
<1>12. CASE OpenWindow
  BY <1>12 DEF OpenWindow, TypeOK, clientVars, timerVars
<1>13. ASSUME NEW c \in Clients, nrs_tbf_cli_fini(c) PROVE TypeOK'
  BY <1>13 DEF nrs_tbf_cli_fini, TypeOK, clientVars, timerVars, winVars
<1>14. CASE UNCHANGED vars
  BY <1>14 DEF vars, TypeOK, clientVars, timerVars, winVars
<1>15. CASE nrs_tbf_sscdt_start \/ nrs_tbf_sscdt_stop
  BY <1>15 DEF nrs_tbf_sscdt_start, nrs_tbf_sscdt_stop, TypeOK, clientVars,
               timerVars, winVars
<1> QED
  BY <1>1, <1>2, <1>3, <1>4, <1>5, <1>6, <1>7, <1>8, <1>9, <1>10, <1>11,
     <1>12, <1>13, <1>14, <1>15, <1>16, <1>17
  DEF Next, ThreadStep, TimerCb

\* Heap and queues stay in agreement, and no bucket is dated in the future.
LEMMA HeapStep == IInv /\ [Next]_vars => HeapMatchesQueues'
<1> SUFFICES ASSUME IInv, [Next]_vars PROVE HeapMatchesQueues'
  OBVIOUS
<1> USE DEF IInv, HeapMatchesQueues
<1>1. CASE /\ UNCHANGED <<now, tc_list, th_binheap, tc_check_time>>
           /\ UNCHANGED <<started, th_cli_hash>>
           /\ adding' \subseteq adding
  BY <1>1
<1>7. CASE nrs_tbf_start \/ nrs_tbf_stop
  BY <1>7 DEF nrs_tbf_start, nrs_tbf_stop, clientVars
<1>8. ASSUME NEW c \in Clients, nrs_tbf_cli_fini(c)
      PROVE  HeapMatchesQueues'
  BY <1>8 DEF nrs_tbf_cli_fini, TypeOK, clientVars
<1>2. ASSUME NEW c \in Clients, NEW r \in Offered[c],
             nrs_tbf_cli_init(c, r) \/ nrs_tbf_cli_reset_value(c, r)
      PROVE  HeapMatchesQueues'
  <2>1. \A d \in Clients : tc_check_time'[d] <= now
    BY <1>2 DEF nrs_tbf_cli_init, nrs_tbf_cli_reset_value, Refill, TypeOK
  <2> QED BY <1>2, <2>1 DEF nrs_tbf_cli_init, nrs_tbf_cli_reset_value, TypeOK
<1>3. ASSUME NEW c \in Clients, nrs_tbf_req_add(c)
      PROVE  HeapMatchesQueues'
  BY <1>3 DEF nrs_tbf_req_add, TypeOK, clientVars
<1>4. ASSUME NEW c \in Clients, nrs_tbf_req_del(c)
      PROVE  HeapMatchesQueues'
  BY <1>4 DEF nrs_tbf_req_del, Unlink, TypeOK, clientVars
<1>5. ASSUME NEW t \in Threads, nrs_tbf_req_get(t)
      PROVE  HeapMatchesQueues'
  <2>1. PICK c \in Roots : Dispatch(c) \/ Throttle(c)
    BY <1>5 DEF nrs_tbf_req_get
  <2>2. c \in th_binheap /\ c \in Clients /\ tc_list[c] > 0
    BY DEF Roots, TypeOK
  <2>3. CASE Dispatch(c)
    BY <1>5, <2>2, <2>3 DEF nrs_tbf_req_get, Dispatch, Unlink, TypeOK
  <2>4. CASE Throttle(c)
    BY <1>5, <2>4 DEF nrs_tbf_req_get, Throttle, clientVars
  <2> QED BY <2>1, <2>3, <2>4
<1>6. CASE Tick
  BY <1>6 DEF Tick, TypeOK, clientVars
<1> QED
  BY <1>1, <1>2, <1>3, <1>4, <1>5, <1>6, <1>7, <1>8
  DEF Next, ThreadStep, TimerCb, ptlrpc_wait_event, TimerExpires,
      TimerCbClear, TimerCbWake, OpenWindow, nrs_tbf_sscdt_start,
      nrs_tbf_sscdt_stop, RearmEarlier, InsertFails, vars, clientVars

\* Nobody leaves the throttling flag without an owner.
LEMMA ThrottleStep == IInv /\ [Next]_vars => ThrottleHasOwner'
<1> SUFFICES ASSUME IInv, [Next]_vars PROVE ThrottleHasOwner'
  OBVIOUS
<1> USE DEF IInv, ThrottleHasOwner
<1>1. CASE UNCHANGED <<started, timerVars>>
  BY <1>1 DEF timerVars
<1>2. CASE nrs_tbf_start
  BY <1>2 DEF nrs_tbf_start, timerVars
<1>3. CASE nrs_tbf_stop
  BY <1>3 DEF nrs_tbf_stop
<1>4. ASSUME NEW c \in Clients, RearmEarlier(c)
      PROVE  ThrottleHasOwner'
  <2>1. started
    BY <1>4 DEF RearmEarlier, HeapMatchesQueues
  <2> QED BY <1>4, <2>1 DEF RearmEarlier
<1>5. ASSUME NEW t \in Threads, nrs_tbf_req_get(t)
      PROVE  ThrottleHasOwner'
  <2>1. PICK c \in Roots : Dispatch(c) \/ Throttle(c)
    BY <1>5 DEF nrs_tbf_req_get
  <2>2. started
    BY DEF Roots, HeapMatchesQueues
  <2> QED BY <1>5, <2>1, <2>2
          DEF nrs_tbf_req_get, RequestPending, Dispatch, Throttle, timerVars
<1>6. CASE TimerCb
  BY <1>6 DEF TimerCb, TimerExpires, TimerCbClear, TimerCbWake
<1> QED
  BY <1>1, <1>2, <1>3, <1>4, <1>5, <1>6
  DEF Next, ThreadStep, nrs_tbf_cli_init, nrs_tbf_cli_reset_value, nrs_tbf_cli_fini,
      nrs_tbf_req_add, nrs_tbf_req_del, InsertFails,
      ptlrpc_wait_event, Tick, OpenWindow, nrs_tbf_sscdt_start,
      nrs_tbf_sscdt_stop, vars

\* What b full buckets pay for, and one bucket more.
LEMMA BucketsPay ==
  ASSUME NEW b \in Nat, NEW d \in Nat, NEW k \in Nat
  PROVE  /\ b * d * k \in Nat
         /\ (b + 1) * d * k = b * d * k + d * k
         /\ b > 0 => d * k <= b * d * k
<1>1. b * d \in Nat /\ d * k \in Nat
  BY ProductNat
<1>2. b * d * k \in Nat
  BY <1>1, ProductNat
<1>3. (b + 1) * d = b * d + d
  BY Distribute
<1>4. (b * d + d) * k = b * d * k + d * k
  BY <1>1, Distribute
<1>5. ASSUME b > 0 PROVE d * k <= b * d * k
  <2>1. d <= b * d
    <3>1. 1 * d <= b * d
      BY <1>5, ProductMono
    <3> QED BY <3>1
  <2> QED BY <2>1, <1>1, ProductMono
<1> QED BY <1>2, <1>3, <1>4, <1>5

\* One dispatch of Observed is paid for: by the depth of the bucket if it is
\* the first of the window, else out of what the window had already paid.
LEMMA DispatchPaid ==
  ASSUME IInv, Observed \in th_cli_hash, Ntoken(Observed) > 0
  PROVE  (win_sent + Ntoken(Observed)) * NSEC_PER_SEC
           <= win_buckets * Depth * NSEC_PER_SEC + (now - win_start) * tc_rpc_rate[Observed]
<1> DEFINE n == Ntoken(Observed)
           k == tc_ntoken[Observed]
           ct == tc_check_time[Observed]
           r == tc_rpc_rate[Observed]
           N == NSEC_PER_SEC
           B == win_buckets * Depth * N
<1>1. /\ now \in Nat /\ ct \in Nat /\ win_start \in Nat /\ win_sent \in Nat
      /\ k \in 0..Depth /\ r \in Rates
      /\ ct <= now /\ win_start <= now
  BY ObservedAssumption DEF IInv, TypeOK, HeapMatchesQueues, BucketBound
<1>2. r \in Nat /\ N \in Nat /\ Depth \in Nat /\ k \in Nat
  BY <1>1, RatePositive, ClockAssumption, DepthAssumption
<1>3. n \in 0..Depth /\ n * N <= k * N + (now - ct) * r
  BY ObservedAssumption, NtokenBound DEF IInv, HeapMatchesQueues
<1>4. win_sent > 0 => /\ win_start <= ct
                      /\ (win_sent + k) * N <= B + (ct - win_start) * r
  BY DEF IInv, BucketBound
<1>8. B \in Nat /\ Depth * N <= B
  BY <1>2, BucketsPay DEF IInv, TypeOK, BucketBound
<1> HIDE DEF n, k, ct, r, N, B
<1>5. n \in Nat
  BY <1>2, <1>3
<1>6. CASE win_sent = 0
  <2>1. n * N <= Depth * N
    BY <1>2, <1>3, <1>5, ProductMono
  <2>2. (now - win_start) * r \in Nat /\ n * N \in Nat /\ Depth * N \in Nat /\ B \in Nat
    BY <1>1, <1>2, <1>5, <1>8, ProductNat
  <2>3. win_sent + n = n
    BY <1>5, <1>6
  <2> QED BY <1>8, <2>1, <2>2, <2>3 DEF n, N, r, B
<1>7. CASE win_sent > 0
  <2>1. (win_sent + n) * N = win_sent * N + n * N
    BY <1>1, <1>2, <1>5, Distribute
  <2>2. (win_sent + k) * N = win_sent * N + k * N
    BY <1>1, <1>2, Distribute
  <2>3. (now - win_start) * r = (now - ct) * r + (ct - win_start) * r
    <3>1. now - win_start = (now - ct) + (ct - win_start)
      BY <1>1
    <3>2. ((now - ct) + (ct - win_start)) * r
             = (now - ct) * r + (ct - win_start) * r
      BY <1>1, <1>2, Distribute
    <3> QED BY <3>1, <3>2
  <2>4. /\ win_sent * N \in Nat /\ n * N \in Nat /\ k * N \in Nat
        /\ B \in Nat /\ (now - ct) * r \in Nat
        /\ (ct - win_start) * r \in Nat
    BY <1>1, <1>2, <1>4, <1>5, <1>7, <1>8, ProductNat
  <2>5. (win_sent + n) * N <= B + (now - win_start) * r
    BY <1>3, <1>4, <1>7, <2>1, <2>2, <2>3, <2>4
  <2> QED BY <2>5 DEF n, N, r, B
<1> QED BY <1>1, <1>6, <1>7

\* A bucket filled anew is paid for by the one that the window gains.
LEMMA BucketRenewed ==
  ASSUME IInv, win_sent > 0
  PROVE  (win_sent + Depth) * NSEC_PER_SEC
           <= (win_buckets + 1) * Depth * NSEC_PER_SEC
                + (now - win_start) * tc_rpc_rate[Observed]
<1> DEFINE k == tc_ntoken[Observed]
           ct == tc_check_time[Observed]
           r == tc_rpc_rate[Observed]
           N == NSEC_PER_SEC
           B == win_buckets * Depth * N
<1>1. /\ now \in Nat /\ ct \in Nat /\ win_start \in Nat /\ win_sent \in Nat
      /\ k \in 0..Depth /\ r \in Rates
      /\ ct <= now /\ win_start <= ct
      /\ (win_sent + k) * N <= B + (ct - win_start) * r
  BY ObservedAssumption DEF IInv, TypeOK, HeapMatchesQueues, BucketBound
<1>2. r \in Nat /\ N \in Nat /\ Depth \in Nat /\ k \in Nat
  BY <1>1, RatePositive, ClockAssumption, DepthAssumption
<1>3. B \in Nat /\ (win_buckets + 1) * Depth * N = B + Depth * N
  BY <1>2, BucketsPay DEF IInv, TypeOK
<1> HIDE DEF k, ct, r, N, B
<1>4. (win_sent + Depth) * N = win_sent * N + Depth * N
  BY <1>1, <1>2, Distribute
<1>5. win_sent * N <= (win_sent + k) * N
  BY <1>1, <1>2, ProductMono
<1>6. (ct - win_start) * r <= (now - win_start) * r
  BY <1>1, <1>2, ProductMono
<1>7. /\ win_sent * N \in Nat /\ Depth * N \in Nat /\ (win_sent + k) * N \in Nat
      /\ (ct - win_start) * r \in Nat /\ (now - win_start) * r \in Nat
  BY <1>1, <1>2, ProductNat
<1>8. (win_sent + Depth) * N <= B + Depth * N + (now - win_start) * r
  BY <1>1, <1>3, <1>4, <1>5, <1>6, <1>7
<1> QED BY <1>3, <1>8 DEF N, r

\* The bucket's bookkeeping survives every step.
LEMMA BucketStep == IInv /\ [Next]_vars => BucketBound'
<1> SUFFICES ASSUME IInv, [Next]_vars PROVE BucketBound'
  OBVIOUS
<1> USE ObservedAssumption
<1>1. CASE /\ UNCHANGED <<now, clientVars, winVars>>
           /\ th_cli_hash' \subseteq th_cli_hash
  BY <1>1 DEF IInv, BucketBound, clientVars, winVars
<1>2. ASSUME NEW c \in Clients, NEW r \in Offered[c], nrs_tbf_cli_reset_value(c, r)
      PROVE  BucketBound'
  BY <1>2
  DEF nrs_tbf_cli_reset_value, Refill, NewWindow, IInv, TypeOK, BucketBound, winVars
<1>6. ASSUME NEW c \in Clients, NEW r \in Offered[c], nrs_tbf_cli_init(c, r)
      PROVE  BucketBound'
  <2>1. CASE c # Observed
    BY <1>6, <2>1
    DEF nrs_tbf_cli_init, Refill, NewWindow, IInv, TypeOK, BucketBound, winVars
  <2>2. CASE c = Observed /\ r # tc_rpc_rate[c]
    BY <1>6, <2>2
    DEF nrs_tbf_cli_init, Refill, NewWindow, IInv, TypeOK, BucketBound, winVars
  <2>3. CASE c = Observed /\ r = tc_rpc_rate[c]
    <3>1. /\ win_buckets' = win_buckets + 1
          /\ win_start' = win_start /\ win_sent' = win_sent /\ now' = now
          /\ tc_rpc_rate'[Observed] = tc_rpc_rate[Observed]
          /\ tc_ntoken'[Observed] = Depth /\ tc_check_time'[Observed] = now
      BY <1>6, <2>3 DEF nrs_tbf_cli_init, Refill, IInv, TypeOK
    <3>2. win_sent > 0 =>
            (win_sent + Depth) * NSEC_PER_SEC
              <= (win_buckets + 1) * Depth * NSEC_PER_SEC
                   + (now - win_start) * tc_rpc_rate[Observed]
      BY BucketRenewed
    <3>3. win_start <= now /\ win_buckets + 1 > 0
      BY DEF IInv, TypeOK, BucketBound
    <3> QED BY <3>1, <3>2, <3>3 DEF BucketBound
  <2> QED BY <2>1, <2>2, <2>3
<1>3. ASSUME NEW t \in Threads, nrs_tbf_req_get(t)
      PROVE  BucketBound'
  <2>1. PICK c \in Roots : Dispatch(c) \/ Throttle(c)
    BY <1>3 DEF nrs_tbf_req_get
  <2>2. c \in Clients /\ c \in th_cli_hash
    BY DEF Roots, IInv, TypeOK, HeapMatchesQueues
  <2>3. CASE Throttle(c) \/ c # Observed
    BY <1>3, <2>1, <2>2, <2>3
    DEF nrs_tbf_req_get, Dispatch, Throttle, IInv, TypeOK, BucketBound,
        clientVars, winVars
  <2>4. CASE Dispatch(c) /\ c = Observed
    <3>1. /\ tc_ntoken'[c] = Ntoken(c) - 1
          /\ tc_check_time'[c] = now
          /\ tc_rpc_rate'[c] = tc_rpc_rate[c]
          /\ win_sent' = win_sent + 1
          /\ win_start' = win_start /\ win_buckets' = win_buckets
          /\ now' = now /\ th_cli_hash' = th_cli_hash
      BY <1>3, <2>4 DEF nrs_tbf_req_get, Dispatch, IInv, TypeOK
    <3>2. Ntoken(c) \in 0..Depth
      BY <2>2, NtokenBound DEF IInv, HeapMatchesQueues
    <3>3. win_sent' + tc_ntoken'[c] = win_sent + Ntoken(c)
      BY <3>1, <3>2, DepthAssumption DEF IInv, TypeOK
    <3>4. (win_sent + Ntoken(c)) * NSEC_PER_SEC
            <= win_buckets * Depth * NSEC_PER_SEC + (now - win_start) * tc_rpc_rate[c]
      BY <2>2, <2>4, DispatchPaid DEF Dispatch
    <3>5. win_start <= now /\ (Observed \in th_cli_hash => win_buckets > 0)
      BY DEF IInv, BucketBound
    <3> QED BY <2>4, <3>1, <3>3, <3>4, <3>5 DEF BucketBound
  <2> QED BY <2>1, <2>3, <2>4
<1>4. CASE Tick
  BY <1>4 DEF Tick, IInv, TypeOK, BucketBound, clientVars, winVars
<1>5. CASE OpenWindow
  BY <1>5 DEF OpenWindow, IInv, TypeOK, BucketBound
<1> QED
  BY <1>1, <1>2, <1>3, <1>4, <1>5, <1>6
  DEF Next, ThreadStep, TimerCb, nrs_tbf_start, nrs_tbf_stop, RearmEarlier,
      InsertFails, nrs_tbf_cli_fini, nrs_tbf_req_add, nrs_tbf_req_del, ptlrpc_wait_event, TimerExpires,
      TimerCbClear, TimerCbWake, nrs_tbf_sscdt_start,
      nrs_tbf_sscdt_stop, vars

-----------------------------------------------------------------------------
\* The inductive invariant holds in every reachable state.
THEOREM Invariance == Spec => []IInv
<1>1. IInv /\ [Next]_vars => IInv'
  BY TypeStep, HeapStep, ThrottleStep, BucketStep DEF IInv
<1> QED BY InitIInv, <1>1, PTL DEF Spec

\* The variables of NrsTbfSched keep their types.
THEOREM TypeCorrect == Spec => []TypeOK
<1>1. IInv => TypeOK
  BY DEF IInv
<1> QED BY Invariance, <1>1, PTL

\* The throttling flag always has an owner that will clear it
\* (nrs_tbf_req_get, nrs_tbf_req_add, nrs_tbf_timer_cb, nrs_tbf_stop).
THEOREM ThrottleOwned == Spec => []ThrottleHasOwner
<1>1. IInv => ThrottleHasOwner
  BY DEF IInv
<1> QED BY Invariance, <1>1, PTL

\* The LASSERTs of nrs_tbf_req_add and nrs_tbf_req_get on tc_in_heap and on
\* the clock hold.
THEOREM HeapConsistent == Spec => []HeapMatchesQueues
<1>1. IInv => HeapMatchesQueues
  BY DEF IInv
<1> QED BY Invariance, <1>1, PTL

\* The rate limit holds for every rate, depth, clock resolution and word size.
THEOREM RateLimited == Spec => []RateBound
<1>1. IInv => RateBound
  <2> SUFFICES ASSUME IInv PROVE RateBound
    OBVIOUS
  <2> DEFINE k == tc_ntoken[Observed]
             ct == tc_check_time[Observed]
             r == tc_rpc_rate[Observed]
             N == NSEC_PER_SEC
             B == win_buckets * Depth * N
  <2>1. /\ now \in Nat /\ ct \in Nat /\ win_start \in Nat
        /\ win_sent \in Nat /\ k \in 0..Depth /\ r \in Rates
        /\ ct <= now /\ win_start <= now
    BY ObservedAssumption DEF IInv, TypeOK, HeapMatchesQueues, BucketBound
  <2>2. r \in Nat /\ N \in Nat /\ Depth \in Nat /\ k \in Nat
    BY <2>1, RatePositive, ClockAssumption, DepthAssumption
  <2>3. win_sent > 0 => /\ win_start <= ct
                        /\ (win_sent + k) * N
                             <= B + (ct - win_start) * r
    BY DEF IInv, BucketBound
  <2>7. B \in Nat
    BY <2>2, BucketsPay DEF IInv, TypeOK
  <2> HIDE DEF k, ct, r, N, B
  <2>4. B \in Nat /\ (now - win_start) * r \in Nat
    BY <2>1, <2>2, <2>7, ProductNat
  <2>5. CASE win_sent = 0
    <3>1. win_sent * N = 0
      BY <2>2, <2>5
    <3> QED BY <2>4, <3>1 DEF RateBound, r, N, B
  <2>6. CASE win_sent > 0
    <3>1. win_sent * N <= (win_sent + k) * N
      BY <2>1, <2>2, ProductMono
    <3>2. (ct - win_start) * r <= (now - win_start) * r
      BY <2>1, <2>2, <2>3, <2>6, ProductMono
    <3>3. /\ win_sent * N \in Nat /\ (win_sent + k) * N \in Nat
          /\ (ct - win_start) * r \in Nat
      BY <2>1, <2>2, <2>3, <2>6, ProductNat
    <3>4. win_sent * N <= B + (now - win_start) * r
      BY <2>3, <2>4, <2>6, <3>1, <3>2, <3>3
    <3> QED BY <3>4 DEF RateBound, r, N, B
  <2> QED BY <2>1, <2>5, <2>6
<1> QED BY Invariance, <1>1, PTL

\* The policy implements the abstract rate limiter.
THEOREM ImplementsLimiter == Spec => ImplementsRateLimiter
<1> USE ObservedAssumption
<1>1. Init => Limiter!Init
  BY DEF Init, Limiter!Init
<1>2. IInv /\ [Next]_vars => [Limiter!Next]_(Limiter!vars)
  <2> SUFFICES ASSUME IInv, [Next]_vars
               PROVE  Limiter!Next \/ UNCHANGED Limiter!vars
    OBVIOUS
  <2>1. CASE UNCHANGED <<now, th_cli_hash, clientVars, tc_list, winVars>>
    BY <2>1 DEF clientVars, winVars, Limiter!vars, Limiter!window
  <2>8. ASSUME NEW c \in Clients, NEW r \in Offered[c], nrs_tbf_cli_init(c, r)
        PROVE  Limiter!Next \/ UNCHANGED Limiter!vars
    <3>1. CASE c = Observed /\ r = tc_rpc_rate[c]
      <4>1. Limiter!Renew
        BY <2>8, <3>1
        DEF nrs_tbf_cli_init, Refill, IInv, TypeOK, Limiter!Renew
      <4> QED BY <4>1 DEF Limiter!Next
    <3>2. CASE c = Observed /\ r # tc_rpc_rate[c]
      <4>1. Limiter!NewRate(r)
        BY <2>8, <3>2
        DEF nrs_tbf_cli_init, Refill, NewWindow, IInv, TypeOK, Limiter!NewRate
      <4> QED BY <4>1, OfferedRate DEF Limiter!Next
    <3>3. CASE c # Observed
      BY <2>8, <3>3
      DEF nrs_tbf_cli_init, Refill, NewWindow, IInv, TypeOK, winVars, Limiter!vars,
          Limiter!window
    <3> QED BY <3>1, <3>2, <3>3
  <2>9. CASE /\ th_cli_hash' \subseteq th_cli_hash
             /\ Observed \notin th_cli_hash' => tc_list[Observed] = 0
             /\ UNCHANGED <<now, clientVars, tc_list, winVars>>
    <3>1. CASE Observed \in th_cli_hash /\ Observed \notin th_cli_hash'
      <4>1. Limiter!Forget
        BY <2>9, <3>1 DEF clientVars, winVars, Limiter!Forget, Limiter!window
      <4> QED BY <4>1 DEF Limiter!Next
    <3>2. CASE (Observed \in th_cli_hash) = (Observed \in th_cli_hash')
      BY <2>9, <3>2 DEF clientVars, winVars, Limiter!vars, Limiter!window
    <3> QED BY <2>9, <3>1, <3>2
  <2>10. CASE nrs_tbf_stop
    <3>1. tc_list[Observed] = 0
      BY <2>10 DEF nrs_tbf_stop, IInv, HeapMatchesQueues, TypeOK
    <3> QED BY <2>9, <2>10, <3>1 DEF nrs_tbf_stop
  <2>11. ASSUME NEW c \in Clients, nrs_tbf_cli_fini(c)
         PROVE  Limiter!Next \/ UNCHANGED Limiter!vars
    <3>1. Observed \notin th_cli_hash' => tc_list[Observed] = 0
      BY <2>11 DEF nrs_tbf_cli_fini, IInv, HeapMatchesQueues, TypeOK
    <3> QED BY <2>9, <2>11, <3>1 DEF nrs_tbf_cli_fini
  <2>2. ASSUME NEW c \in Clients, NEW r \in Offered[c],
               nrs_tbf_cli_reset_value(c, r)
        PROVE  Limiter!Next \/ UNCHANGED Limiter!vars
    <3>1. CASE c = Observed
      <4>1. Limiter!NewRate(r)
        BY <2>2, <3>1
        DEF nrs_tbf_cli_reset_value, Refill, NewWindow, IInv, TypeOK, Limiter!NewRate
      <4> QED BY <4>1, OfferedRate DEF Limiter!Next
    <3>2. CASE c # Observed
      BY <2>2, <3>2
      DEF nrs_tbf_cli_reset_value, Refill, NewWindow, IInv, TypeOK, winVars,
          Limiter!vars, Limiter!window
    <3> QED BY <3>1, <3>2
  <2>3. ASSUME NEW c \in Clients, nrs_tbf_req_add(c)
        PROVE  Limiter!Next \/ UNCHANGED Limiter!vars
    <3>1. CASE c = Observed
      <4>1. Limiter!Arrive
        BY <2>3, <3>1
        DEF nrs_tbf_req_add, IInv, TypeOK, clientVars, winVars, Limiter!Arrive,
            Limiter!window
      <4> QED BY <4>1 DEF Limiter!Next
    <3>2. CASE c # Observed
      BY <2>3, <3>2
      DEF nrs_tbf_req_add, IInv, TypeOK, clientVars, winVars, Limiter!vars,
          Limiter!window
    <3> QED BY <3>1, <3>2
  <2>4. ASSUME NEW c \in Clients, nrs_tbf_req_del(c)
        PROVE  Limiter!Next \/ UNCHANGED Limiter!vars
    <3>1. CASE c = Observed
      <4>1. Limiter!Cancel
        BY <2>4, <3>1
        DEF nrs_tbf_req_del, Unlink, IInv, TypeOK, clientVars, winVars,
            Limiter!Cancel, Limiter!window
      <4> QED BY <4>1 DEF Limiter!Next
    <3>2. CASE c # Observed
      BY <2>4, <3>2
      DEF nrs_tbf_req_del, Unlink, IInv, TypeOK, clientVars, winVars,
          Limiter!vars, Limiter!window
    <3> QED BY <3>1, <3>2
  <2>5. ASSUME NEW t \in Threads, nrs_tbf_req_get(t)
        PROVE  Limiter!Next \/ UNCHANGED Limiter!vars
    <3>1. PICK c \in Roots : Dispatch(c) \/ Throttle(c)
      BY <2>5 DEF nrs_tbf_req_get
    <3>2. c \in Clients /\ c \in th_cli_hash /\ tc_list[c] > 0
      BY DEF Roots, IInv, TypeOK, HeapMatchesQueues
    <3>3. CASE Throttle(c) \/ c # Observed
      BY <2>5, <3>1, <3>2, <3>3
      DEF nrs_tbf_req_get, Dispatch, Throttle, Unlink, IInv, TypeOK,
          clientVars, winVars, Limiter!vars, Limiter!window
    <3>4. CASE Dispatch(c) /\ c = Observed
      <4>1. Ntoken(c) \in 1..Depth
        BY <3>2, <3>4, NtokenBound DEF IInv, HeapMatchesQueues, Dispatch
      <4>2. (win_sent + 1) * NSEC_PER_SEC
              <= (win_sent + Ntoken(c)) * NSEC_PER_SEC
        <5>1. /\ win_sent + 1 \in Nat /\ win_sent + Ntoken(c) \in Nat
              /\ win_sent + 1 <= win_sent + Ntoken(c)
          BY <4>1, DepthAssumption DEF IInv, TypeOK
        <5> QED BY <5>1, ClockAssumption, ProductMono
      <4>3. (win_sent + Ntoken(c)) * NSEC_PER_SEC
              <= win_buckets * Depth * NSEC_PER_SEC + (now - win_start) * tc_rpc_rate[c]
        BY <3>2, <3>4, DispatchPaid DEF Dispatch
      <4>4. /\ (win_sent + 1) * NSEC_PER_SEC \in Int
            /\ (win_sent + Ntoken(c)) * NSEC_PER_SEC \in Int
            /\ win_buckets * Depth * NSEC_PER_SEC
                 + (now - win_start) * tc_rpc_rate[c] \in Int
        <5>1. tc_rpc_rate[c] \in Int
          <6>1. tc_rpc_rate[c] \in Rates
            BY <3>2 DEF IInv, TypeOK
          <6>2. tc_rpc_rate[c] \in Nat
            BY <6>1, RatePositive
          <6> QED BY <6>2
        <5> QED BY <5>1, <4>1, ClockAssumption, DepthAssumption
                DEF IInv, TypeOK
      <4>5. (win_sent + 1) * NSEC_PER_SEC
              <= win_buckets * Depth * NSEC_PER_SEC + (now - win_start) * tc_rpc_rate[c]
        BY <4>2, <4>3, <4>4
      <4>6. Limiter!Start
        BY <2>5, <3>2, <3>4, <4>5
        DEF nrs_tbf_req_get, Dispatch, Unlink, IInv, TypeOK, Limiter!Start
      <4> QED BY <4>6 DEF Limiter!Next
    <3> QED BY <3>1, <3>3, <3>4
  <2>6. CASE Tick
    <3>1. Limiter!Tick
      BY <2>6 DEF Tick, clientVars, winVars, Limiter!Tick, Limiter!window
    <3> QED BY <3>1 DEF Limiter!Next
  <2>7. CASE OpenWindow
    <3>1. Limiter!OpenWindow
      BY <2>7 DEF OpenWindow, clientVars, Limiter!OpenWindow
    <3> QED BY <3>1 DEF Limiter!Next
  <2> QED
    BY <2>1, <2>2, <2>3, <2>4, <2>5, <2>6, <2>7, <2>8, <2>10, <2>11
    DEF Next, ThreadStep, TimerCb, nrs_tbf_start, RearmEarlier, InsertFails, ptlrpc_wait_event, TimerExpires, TimerCbClear,
        TimerCbWake, nrs_tbf_sscdt_start, nrs_tbf_sscdt_stop, vars
<1> QED BY Invariance, <1>1, <1>2, PTL DEF Spec, ImplementsRateLimiter, Limiter!Spec

(***************************************************************************)
(* The heap of SSCDT.                                                      *)
(***************************************************************************)
-----------------------------------------------------------------------------
(* The order of requests under the width k, and a heap in that order.  The
   operators below do not depend on the state. *)
Window(k, r) == (rq_sent[r] * 1000) \div k
Goes(k, r, s) ==
  \/ Window(k, r) < Window(k, s)
  \/ /\ Window(k, r) = Window(k, s)
     /\ nid[r] < nid[s] \/ (nid[r] = nid[s] /\ pid[r] < pid[s])

Ordered(k, h) == \A i \in 2..Len(h) : ~Goes(k, h[i], h[i \div 2])

\* All but the element at p is in order, and its children may take its place.
OrderedAround(k, h, p) ==
  /\ \A i \in 2..Len(h) :
       i # p /\ i \div 2 # p => ~Goes(k, h[i], h[i \div 2])
  /\ p > 1 => \A i \in 2..Len(h) :
                i \div 2 = p => ~Goes(k, h[i], h[p \div 2])

AboveChildren(k, h, p) ==
  \A i \in 2..Len(h) : i \div 2 = p => ~Goes(k, h[i], h[p])
BelowParent(k, h, p) == p > 1 => ~Goes(k, h[p], h[p \div 2])

\* The requests that the operation s compares next, in the heap h.
FirstAt(h, s) == h[IF s.pc = "up" THEN s.i \div 2
                   ELSE IF s.pc = "pick" THEN 2 * s.i + 1 ELSE s.i]
SecondAt(h, s) == h[IF s.pc = "up" THEN s.i
                    ELSE IF s.pc = "pick" THEN 2 * s.i ELSE s.c]

\* The order of the heap h while the operation s works on it.
Fits(k, h, s) ==
  /\ s.pc = "idle" => Ordered(k, h)
  /\ s.pc # "idle" => OrderedAround(k, h, s.i)
  /\ s.pc = "up" /\ s.moved => AboveChildren(k, h, s.i)
  /\ s.pc \in {"pick", "down"} => BelowParent(k, h, s.i)
  /\ s.pc = "down" =>
       \A i \in 2..Len(h) : i \div 2 = s.i => ~Goes(k, h[i], h[s.c])
  /\ s.pc # "idle" /\ s.w # NoWindow => s.w = Window(k, FirstAt(h, s))

\* The type of sift, and its place in a heap of n elements.
Sifts == [pc : {"idle", "up", "pick", "down"}, q : Queues, i : Nat,
          c : Nat, moved : BOOLEAN, w : Nat \union {NoWindow}]
Placed(s, n) ==
  /\ s.pc # "idle" => s.i \in 1..n
  /\ s.pc = "up" => s.i > 1
  /\ s.pc = "pick" => 2 * s.i + 1 <= n
  /\ s.pc = "down" => s.c \in {2 * s.i, 2 * s.i + 1} /\ s.c <= n

\* The elements of a heap, each of which is there once.
Elements(h) == {h[x] : x \in 1..Len(h)}
Distinct(h) == \A x, y \in 1..Len(h) : h[x] = h[y] => x = y

-----------------------------------------------------------------------------
(* The inductive invariant. *)

\* Who holds which resource, by the place of the request.
HoldersInv ==
  /\ \A r \in Reqs :
       /\ where[r] = "queued" => res[r] # None
       /\ where[r] = "moving" => res[r] = "reg" /\ extra[r] = "hp"
  /\ \A q \in Queues : pol_state[q] = "stopped" => Referrers(q) = {}

\* The width of the windows, where there are any.
Width == IF interval = 0 THEN 1 ELSE interval

\* Every heap that interval was not changed under is in order, apart from the
\* operation in progress.
OrderInv ==
  \A q \in Queues :
    steady[q] => Fits(Width, st_binheap[q],
                      IF sift.q = q THEN sift ELSE Idle)

\* The width of the windows of a steady heap is not 0.
WidthInv == \A q \in Queues : steady[q] => interval # 0

SscdtInv ==
  SscdtTypeOK /\ HeapHoldsQueued /\ HoldersInv /\ OrderInv /\ WidthInv

-----------------------------------------------------------------------------
(* The order that sscdt_req_compare decides. *)

\* A later second is in no earlier window.
LEMMA DivMono ==
  ASSUME NEW a \in Nat, NEW b \in Nat, NEW k \in Nat \ {0}, a <= b
  PROVE  a \div k <= b \div k
  OBVIOUS

\* The windows of rq_sent, under one width, are in the order of the seconds.
LEMMA WindowMono ==
  ASSUME NEW k \in Nat \ {0}, NEW r \in Reqs, NEW s \in Reqs
  PROVE  /\ Window(k, r) \in Nat
         /\ rq_sent[r] <= rq_sent[s] => Window(k, r) <= Window(k, s)
<1>1. rq_sent[r] * 1000 \in Nat /\ rq_sent[s] * 1000 \in Nat
  BY ReqAssumption
<1>2. rq_sent[r] <= rq_sent[s] => rq_sent[r] * 1000 <= rq_sent[s] * 1000
  BY ReqAssumption
<1> QED BY <1>1, <1>2, DivMono DEF Window

\* With the window of its first request computed under the width k, the
\* comparison function decides Goes: which of two seconds is earlier agrees
\* with which of two windows is.
LEMMA CompareDecides ==
  ASSUME NEW r \in Reqs, NEW s \in Reqs, interval \in Nat \ {0}
  PROVE  sscdt_req_compare(Window(interval, r), r, s) <=> Goes(interval, r, s)
<1>1. /\ Window(interval, r) \in Nat /\ Window(interval, s) \in Nat
      /\ rq_sent[r] <= rq_sent[s] => Window(interval, r) <= Window(interval, s)
      /\ rq_sent[s] <= rq_sent[r] => Window(interval, s) <= Window(interval, r)
  BY WindowMono
<1>2. time_window(s) = Window(interval, s)
  BY DEF time_window, Window
<1>3. rq_sent[r] \in Nat /\ rq_sent[s] \in Nat
  BY ReqAssumption
<1>4. CASE Window(interval, r) = Window(interval, s)
  <2> /\ nid[r] \in Nat /\ nid[s] \in Nat
    BY ReqAssumption
  <2> QED BY <1>1, <1>2, <1>4 DEF sscdt_req_compare, Goes
<1>5. CASE Window(interval, r) # Window(interval, s)
  BY <1>1, <1>2, <1>3, <1>5 DEF sscdt_req_compare, Goes
<1> QED BY <1>4, <1>5

\* Goes is a strict weak order, which a heap needs.
LEMMA GoesOrder ==
  ASSUME NEW k \in Nat \ {0}
  PROVE  /\ \A r \in Reqs : ~Goes(k, r, r)
         /\ \A r, s \in Reqs : Goes(k, r, s) => ~Goes(k, s, r)
         /\ \A r, s, u \in Reqs :
              ~Goes(k, r, s) /\ ~Goes(k, s, u) => ~Goes(k, r, u)
<1>1. \A r \in Reqs : Window(k, r) \in Nat /\ nid[r] \in Nat /\ pid[r] \in Nat
  BY WindowMono, ReqAssumption
<1> QED BY <1>1 DEF Goes

\* Nothing in an ordered heap goes before its root: a first index at which
\* something did would have a parent that does not.
LEMMA RootFirst ==
  ASSUME NEW k \in Nat \ {0}, NEW h \in Seq(Reqs), Ordered(k, h)
  PROVE  \A i \in 1..Len(h) : ~Goes(k, h[i], h[1])
<1> DEFINE Bad == {i \in 1..Len(h) : Goes(k, h[i], h[1])}
<1> SUFFICES ASSUME Bad # {} PROVE FALSE
  OBVIOUS
<1>1. PICK x \in Bad : \A y \in Bad : ~(<<y, x>> \in OpToRel(<, Nat))
  <2>1. Bad \subseteq Nat
    OBVIOUS
  <2>2. IsWellFoundedOn(OpToRel(<, Nat), Nat)
    BY NatLessThanWellFounded
  <2> HIDE DEF Bad
  <2> QED BY <2>1, <2>2, WFMin
<1>2. \A y \in Bad : ~(y < x)
  <2>1. \A a, b \in Nat : a < b => <<a, b>> \in OpToRel(<, Nat)
    BY DEF OpToRel
  <2>2. Bad \subseteq Nat
    OBVIOUS
  <2> HIDE DEF Bad
  <2> QED BY <1>1, <2>1, <2>2
<1>3. x # 1
  BY GoesOrder
<1>4. x \in 2..Len(h) /\ x \div 2 \in 1..Len(h) /\ x \div 2 < x
  BY <1>3
<1>5. ~Goes(k, h[x \div 2], h[1])
  BY <1>2, <1>4
<1>6. ~Goes(k, h[x], h[x \div 2])
  BY <1>4 DEF Ordered
<1> QED BY <1>4, <1>5, <1>6, GoesOrder

-----------------------------------------------------------------------------
(* The order of the heap under the steps of cfs_binheap. *)

\* An element in order with its relatives completes the order.
LEMMA OrderComplete ==
  ASSUME NEW k, NEW h \in Seq(Reqs), NEW p \in 1..Len(h),
         OrderedAround(k, h, p), BelowParent(k, h, p), AboveChildren(k, h, p)
  PROVE  Ordered(k, h)
  BY DEF OrderedAround, BelowParent, AboveChildren, Ordered

\* Where cfs_binheap_sink starts is inside the heap and fits.
LEMMA SinkAtFits ==
  ASSUME NEW k \in Nat \ {0}, NEW h \in Seq(Reqs), NEW q \in Queues,
         NEW p \in 1..Len(h)
  PROVE  LET s == SinkAt(q, Len(h), p)
         IN  /\ s \in Sifts /\ Placed(s, Len(h)) /\ (s.pc # "idle" => s.q = q)
             /\ OrderedAround(k, h, p) /\ BelowParent(k, h, p) => Fits(k, h, s)
<1> DEFINE n == Len(h)
           s == SinkAt(q, n, p)
<1> n \in Nat /\ p \in 1..n
  OBVIOUS
<1>1. CASE 2 * p > n
  <2>1. s = Idle
    BY <1>1 DEF SinkAt
  <2>2. AboveChildren(k, h, p)
    BY <1>1 DEF AboveChildren
  <2>3. OrderedAround(k, h, p) /\ BelowParent(k, h, p) => Ordered(k, h)
    BY <2>2, OrderComplete
  <2> QED BY <2>1, <2>3 DEF Idle, Sift, Sifts, Placed, Fits, Queues, NoWindow
<1>2. CASE 2 * p = n
  <2>1. s = Sift("down", q, p, n, FALSE)
    BY <1>2 DEF SinkAt, Sift
  <2>2. \A i \in 2..n : i \div 2 = p => i = n
    BY <1>2
  <2>3. ~Goes(k, h[n], h[n])
    BY GoesOrder
  <2>4. s \in Sifts /\ Placed(s, n)
    BY <1>2, <2>1 DEF Sift, Sifts, Placed, NoWindow
  <2>5. OrderedAround(k, h, p) /\ BelowParent(k, h, p) => Fits(k, h, s)
    BY <2>1, <2>2, <2>3 DEF Sift, Fits
  <2> QED BY <2>1, <2>4, <2>5 DEF Sift
<1>3. CASE 2 * p < n
  <2>1. s = Sift("pick", q, p, 0, FALSE)
    BY <1>3 DEF SinkAt, Sift
  <2>2. s \in Sifts /\ Placed(s, n)
    BY <1>3, <2>1 DEF Sift, Sifts, Placed, NoWindow
  <2>3. OrderedAround(k, h, p) /\ BelowParent(k, h, p) => Fits(k, h, s)
    BY <2>1 DEF Sift, Fits
  <2> QED BY <2>1, <2>2, <2>3 DEF Sift
<1> QED BY <1>1, <1>2, <1>3

\* Likewise for cfs_binheap_bubble.
LEMMA BubbleAtFits ==
  ASSUME NEW k \in Nat \ {0}, NEW h \in Seq(Reqs), NEW q \in Queues,
         NEW p \in 1..Len(h), NEW moved \in BOOLEAN
  PROVE  LET s == BubbleAt(q, Len(h), p, moved)
         IN  /\ s \in Sifts /\ Placed(s, Len(h)) /\ (s.pc # "idle" => s.q = q)
             /\ OrderedAround(k, h, p) /\ (moved => AboveChildren(k, h, p))
                  => Fits(k, h, s)
<1> DEFINE s == BubbleAt(q, Len(h), p, moved)
<1>1. CASE p > 1
  <2>1. s = Sift("up", q, p, 0, moved)
    BY <1>1 DEF BubbleAt
  <2>2. s \in Sifts /\ Placed(s, Len(h))
    BY <1>1, <2>1 DEF Sift, Sifts, Placed, NoWindow
  <2>3. OrderedAround(k, h, p) /\ (moved => AboveChildren(k, h, p))
          => Fits(k, h, s)
    BY <2>1 DEF Sift, Fits
  <2> QED BY <2>1, <2>2, <2>3 DEF Sift
<1>2. CASE p = 1 /\ moved
  <2>1. s = Idle
    BY <1>2 DEF BubbleAt
  <2>2. BelowParent(k, h, p)
    BY <1>2 DEF BelowParent
  <2>3. OrderedAround(k, h, p) /\ AboveChildren(k, h, p) => Ordered(k, h)
    BY <2>2, OrderComplete
  <2>4. s \in Sifts /\ Placed(s, Len(h)) /\ s.pc = "idle"
    BY <2>1 DEF Idle, Sift, Sifts, Placed, Queues, NoWindow
  <2>5. Ordered(k, h) => Fits(k, h, s)
    BY <2>1 DEF Idle, Sift, Fits
  <2> QED BY <1>2, <2>3, <2>4, <2>5
<1>3. CASE p = 1 /\ ~moved
  <2>1. s = SinkAt(q, Len(h), p)
    BY <1>3 DEF BubbleAt
  <2>2. BelowParent(k, h, p)
    BY <1>3 DEF BelowParent
  <2> QED BY <2>1, <2>2, SinkAtFits
<1> QED BY <1>1, <1>2, <1>3

\* What is where after two elements were exchanged.
LEMMA SwappedAt ==
  ASSUME NEW h \in Seq(Reqs), NEW i \in 1..Len(h), NEW j \in 1..Len(h)
  PROVE  /\ Swapped(h, i, j) \in Seq(Reqs) /\ Len(Swapped(h, i, j)) = Len(h)
         /\ \A x \in 1..Len(h) :
              Swapped(h, i, j)[x] = IF x = j THEN h[i]
                                    ELSE IF x = i THEN h[j] ELSE h[x]
  BY DEF Swapped

\* Exchanging two elements keeps a heap a sequence of the same requests, each
\* once.
LEMMA SwappedHeap ==
  ASSUME NEW h \in Seq(Reqs), NEW i \in 1..Len(h), NEW j \in 1..Len(h)
  PROVE  LET g == Swapped(h, i, j)
         IN  /\ g \in Seq(Reqs) /\ Len(g) = Len(h)
             /\ Elements(g) = Elements(h)
             /\ Distinct(h) => Distinct(g)
<1> DEFINE g == Swapped(h, i, j)
<1>1. g \in Seq(Reqs) /\ Len(g) = Len(h)
  BY SwappedAt
<1>2. \A x \in 1..Len(h) : g[x] = IF x = j THEN h[i]
                                  ELSE IF x = i THEN h[j] ELSE h[x]
  BY SwappedAt
<1> HIDE DEF g
<1>3. {g[x] : x \in 1..Len(h)} = {h[x] : x \in 1..Len(h)}
  BY <1>2
<1>4. (\A x, y \in 1..Len(h) : h[x] = h[y] => x = y)
        => \A x, y \in 1..Len(h) : g[x] = g[y] => x = y
  BY <1>2
<1>5. Elements(g) = Elements(h) /\ (Distinct(h) => Distinct(g))
  BY <1>1, <1>3, <1>4 DEF Elements, Distinct
<1> QED BY <1>1, <1>5 DEF g

\* An element exchanged with its parent, which does not go before it, leaves
\* the place below in order.
LEMMA BubbleUpOrder ==
  ASSUME NEW k \in Nat \ {0}, NEW h \in Seq(Reqs), NEW p \in 2..Len(h),
         OrderedAround(k, h, p), ~Goes(k, h[p \div 2], h[p])
  PROVE  LET g == Swapped(h, p, p \div 2)
         IN  OrderedAround(k, g, p \div 2) /\ AboveChildren(k, g, p \div 2)
<1> DEFINE g == Swapped(h, p, p \div 2)
           o == p \div 2
<1>1. o \in 1..Len(h) /\ o < p /\ p \in 1..Len(h)
  OBVIOUS
<1>2. Len(g) = Len(h) /\ \A x \in 1..Len(h) :
        g[x] = IF x = o THEN h[p] ELSE IF x = p THEN h[o] ELSE h[x]
  <2> HIDE DEF o
  <2>1. g = Swapped(h, p, o)
    BY DEF o
  <2> HIDE DEF g
  <2> QED BY <1>1, <2>1 DEF Swapped
<1>3. \A x \in 1..Len(h) : h[x] \in Reqs
  OBVIOUS
<1>4. ASSUME NEW i \in 2..Len(h)
      PROVE  /\ i \in 1..Len(h) /\ i \div 2 \in 1..Len(h) /\ i \div 2 < i
  OBVIOUS
<1> HIDE DEF g
<1>5. ASSUME NEW i \in 2..Len(h), i \div 2 = o
      PROVE  ~Goes(k, g[i], g[o]) /\ (o > 1 => ~Goes(k, g[i], g[o \div 2]))
  <2>1. CASE i = p
    <3>1. g[i] = h[o] /\ g[o] = h[p]
      BY <1>1, <1>2, <2>1
    <3>2. o > 1 => ~Goes(k, h[o], h[o \div 2]) /\ g[o \div 2] = h[o \div 2]
      BY <1>1, <1>2 DEF OrderedAround
    <3> QED BY <3>1, <3>2
  <2>2. CASE i # p
    <3>1. g[i] = h[i] /\ g[o] = h[p]
      BY <1>1, <1>2, <1>4, <1>5, <2>2
    <3>2. ~Goes(k, h[i], h[o])
      BY <1>1, <1>5, <2>2 DEF OrderedAround
    <3>3. ~Goes(k, h[i], h[p])
      BY <1>1, <1>3, <1>4, <3>2, GoesOrder
    <3>4. o > 1 => /\ ~Goes(k, h[o], h[o \div 2]) /\ g[o \div 2] = h[o \div 2]
                   /\ o \div 2 \in 1..Len(h)
      BY <1>1, <1>2 DEF OrderedAround
    <3>5. o > 1 => ~Goes(k, h[i], h[o \div 2])
      BY <1>1, <1>3, <1>4, <3>2, <3>4, GoesOrder
    <3> QED BY <3>1, <3>3, <3>4, <3>5
  <2> QED BY <2>1, <2>2
<1>6. ASSUME NEW i \in 2..Len(h), i # o, i \div 2 # o
      PROVE  ~Goes(k, g[i], g[i \div 2])
  <2>1. i # p /\ g[i] = h[i]
    BY <1>1, <1>2, <1>4, <1>6
  <2>2. CASE i \div 2 = p
    BY <1>1, <1>2, <2>1, <2>2 DEF OrderedAround
  <2>3. CASE i \div 2 # p
    BY <1>1, <1>2, <1>4, <1>6, <2>1, <2>3 DEF OrderedAround
  <2> QED BY <2>2, <2>3
<1>7. OrderedAround(k, g, o)
  BY <1>2, <1>5, <1>6 DEF OrderedAround
<1>8. AboveChildren(k, g, o)
  BY <1>2, <1>5 DEF AboveChildren
<1> QED BY <1>7, <1>8 DEF g

\* An element exchanged with the child that goes first leaves the place above
\* in order.
LEMMA SinkDownOrder ==
  ASSUME NEW k \in Nat \ {0}, NEW h \in Seq(Reqs), NEW p \in 1..Len(h),
         NEW c \in {2 * p, 2 * p + 1}, c <= Len(h),
         OrderedAround(k, h, p), BelowParent(k, h, p),
         \A i \in 2..Len(h) : i \div 2 = p => ~Goes(k, h[i], h[c]),
         ~Goes(k, h[p], h[c])
  PROVE  LET g == Swapped(h, p, c)
         IN  OrderedAround(k, g, c) /\ BelowParent(k, g, c)
<1> DEFINE g == Swapped(h, p, c)
<1>1. c \in 2..Len(h) /\ c \in 1..Len(h) /\ c \div 2 = p /\ p < c
  OBVIOUS
<1>2. Len(g) = Len(h) /\ \A x \in 1..Len(h) :
        g[x] = IF x = c THEN h[p] ELSE IF x = p THEN h[c] ELSE h[x]
  BY <1>1 DEF Swapped
<1>3. ASSUME NEW i \in 2..Len(h)
      PROVE  /\ i \in 1..Len(h) /\ i \div 2 \in 1..Len(h) /\ i \div 2 < i
  OBVIOUS
<1> HIDE DEF g
<1>4. BelowParent(k, g, c)
  BY <1>1, <1>2 DEF BelowParent
<1>5. ASSUME NEW i \in 2..Len(h), i \div 2 = c
      PROVE  ~Goes(k, g[i], g[c \div 2])
  <2>1. g[i] = h[i] /\ g[c \div 2] = h[c]
    <3>1. i \in 1..Len(h) /\ i # c /\ i # p
      BY <1>1, <1>3, <1>5
    <3> QED BY <1>1, <1>2, <3>1
  <2>2. ~Goes(k, h[i], h[c])
    BY <1>1, <1>3, <1>5 DEF OrderedAround
  <2> QED BY <2>1, <2>2
<1>6. ASSUME NEW i \in 2..Len(h), i # c, i \div 2 # c
      PROVE  ~Goes(k, g[i], g[i \div 2])
  <2>1. CASE i \div 2 = p
    <3>1. g[i] = h[i] /\ g[i \div 2] = h[c]
      BY <1>1, <1>2, <1>3, <1>6, <2>1
    <3> QED BY <2>1, <3>1
  <2>2. CASE i = p
    <3>1. g[i] = h[c] /\ g[i \div 2] = h[p \div 2]
      BY <1>1, <1>2, <1>3, <2>2
    <3>2. ~Goes(k, h[c], h[p \div 2])
      BY <1>1, <2>2 DEF OrderedAround
    <3> QED BY <2>2, <3>1, <3>2
  <2>3. CASE i # p /\ i \div 2 # p
    <3>1. g[i] = h[i] /\ g[i \div 2] = h[i \div 2]
      BY <1>2, <1>3, <1>6, <2>3
    <3> QED BY <2>3, <3>1 DEF OrderedAround
  <2> QED BY <2>1, <2>2, <2>3
<1>7. OrderedAround(k, g, c)
  BY <1>2, <1>5, <1>6 DEF OrderedAround
<1> QED BY <1>4, <1>7 DEF g

\* The last element in the place of one that was removed.
RemovedAt(h, i) ==
  [j \in 1..(Len(h) - 1) |-> IF j = i THEN h[Len(h)] ELSE h[j]]

\* A removal takes out the element at i and nothing else.
LEMMA RemovedHeap ==
  ASSUME NEW h \in Seq(Reqs), NEW i \in 1..Len(h), Distinct(h)
  PROVE  LET g == RemovedAt(h, i)
         IN  /\ g \in Seq(Reqs) /\ Len(g) = Len(h) - 1
             /\ Elements(g) = Elements(h) \ {h[i]}
             /\ Distinct(g)
<1> DEFINE g == RemovedAt(h, i)
           n == Len(h) - 1
<1>1. /\ n \in Nat /\ Len(h) = n + 1
      /\ \A x, y \in 1..Len(h) : h[x] = h[y] => x = y
  BY DEF Distinct
<1>2. g \in Seq(Reqs) /\ Len(g) = n
  BY <1>1 DEF RemovedAt
<1>3. \A x \in 1..n : g[x] = IF x = i THEN h[n + 1] ELSE h[x]
  BY <1>1 DEF RemovedAt
<1> HIDE DEF g, n
<1>4. {g[x] : x \in 1..n} = {h[x] : x \in 1..(n + 1)} \ {h[i]}
  <2>1. ASSUME NEW x \in 1..n
        PROVE  g[x] \in {h[y] : y \in 1..(n + 1)} \ {h[i]}
    BY <1>1, <1>3
  <2>2. ASSUME NEW y \in 1..(n + 1), y # i
        PROVE  \E x \in 1..n : h[y] = g[x]
    <3>1. CASE y = n + 1
      <4>1. i \in 1..n /\ g[i] = h[y]
        BY <1>1, <1>3, <2>2, <3>1
      <4> QED BY <4>1
    <3>2. CASE y # n + 1
      <4>1. y \in 1..n /\ g[y] = h[y]
        BY <1>1, <1>3, <2>2, <3>2
      <4> QED BY <4>1
    <3> QED BY <3>1, <3>2
  <2> QED BY <1>1, <2>1, <2>2
<1>5. \A x, y \in 1..n : g[x] = g[y] => x = y
  BY <1>1, <1>3
<1>6. Elements(g) = Elements(h) \ {h[i]} /\ Distinct(g)
  BY <1>1, <1>2, <1>4, <1>5 DEF Elements, Distinct
<1> QED BY <1>2, <1>6 DEF g, n

\* After a removal from an ordered heap only the place i may be out of order.
LEMMA RemovedOrder ==
  ASSUME NEW k \in Nat \ {0}, NEW h \in Seq(Reqs), NEW i \in 1..Len(h),
         Ordered(k, h)
  PROVE  LET g == RemovedAt(h, i)
         IN  IF i = Len(h) THEN Ordered(k, g) ELSE OrderedAround(k, g, i)
<1> DEFINE g == RemovedAt(h, i)
           n == Len(h) - 1
<1>1. n \in Nat /\ Len(h) = n + 1
  OBVIOUS
<1>2. Len(g) = n /\ \A x \in 1..n : g[x] = IF x = i THEN h[n + 1] ELSE h[x]
  BY <1>1 DEF RemovedAt
<1>3. ASSUME NEW j \in 2..n
      PROVE  j \in 1..n /\ j \div 2 \in 1..n /\ j \in 2..Len(h)
  BY <1>1
<1> HIDE DEF g, n
<1>4. ASSUME NEW j \in 2..n, j # i, j \div 2 # i
      PROVE  ~Goes(k, g[j], g[j \div 2])
  <2>1. g[j] = h[j] /\ g[j \div 2] = h[j \div 2]
    BY <1>2, <1>3, <1>4
  <2> QED BY <1>3, <2>1 DEF Ordered
<1>5. CASE i = Len(h)
  <2>1. \A j \in 2..n : j # i /\ j \div 2 # i
    BY <1>1, <1>5
  <2> QED BY <1>2, <1>4, <1>5, <2>1 DEF Ordered, g
<1>6. CASE i # Len(h)
  <2>1. ASSUME i > 1, NEW j \in 2..n, j \div 2 = i
        PROVE  ~Goes(k, g[j], g[i \div 2])
    <3>1. i \in 2..Len(h) /\ i \div 2 \in 1..n /\ i \div 2 # i /\ j # i
      BY <1>1, <2>1
    <3>2. g[j] = h[j] /\ g[i \div 2] = h[i \div 2]
      BY <1>2, <1>3, <3>1
    <3>3. ~Goes(k, h[j], h[i]) /\ ~Goes(k, h[i], h[i \div 2])
      BY <1>3, <2>1, <3>1 DEF Ordered
    <3>4. h[j] \in Reqs /\ h[i] \in Reqs /\ h[i \div 2] \in Reqs
      BY <1>1, <1>3, <3>1
    <3> QED BY <3>2, <3>3, <3>4, GoesOrder
  <2> QED BY <1>2, <1>4, <1>6, <2>1 DEF OrderedAround, g
<1> QED BY <1>5, <1>6

\* A new last element, which has no children.
LEMMA AppendedHeap ==
  ASSUME NEW h \in Seq(Reqs), NEW r \in Reqs, Distinct(h), r \notin Elements(h)
  PROVE  LET g == Append(h, r)
         IN  Elements(g) = Elements(h) \union {r} /\ Distinct(g)
<1> DEFINE g == Append(h, r)
<1>1. /\ g \in Seq(Reqs) /\ Len(g) = Len(h) + 1 /\ Len(h) \in Nat
      /\ \A x \in 1..Len(h) : g[x] = h[x]
      /\ g[Len(h) + 1] = r
  OBVIOUS
<1> HIDE DEF g
<1>0. /\ \A x, y \in 1..Len(h) : h[x] = h[y] => x = y
      /\ r \notin {h[x] : x \in 1..Len(h)}
  BY DEF Elements, Distinct
<1>2. {g[x] : x \in 1..Len(g)} = {h[x] : x \in 1..Len(h)} \union {r}
  <2>1. \A x \in 1..Len(g) : x \in 1..Len(h) \/ x = Len(h) + 1
    BY <1>1
  <2>2. Len(h) + 1 \in 1..Len(g) /\ 1..Len(h) \subseteq 1..Len(g)
    BY <1>1
  <2> QED BY <1>1, <2>1, <2>2
<1>3. \A x, y \in 1..Len(g) : g[x] = g[y] => x = y
  BY <1>0, <1>1
<1> QED BY <1>2, <1>3 DEF Elements, Distinct, g

\* After an insertion only the last place may be out of order.
LEMMA AppendedOrder ==
  ASSUME NEW k \in Nat \ {0}, NEW h \in Seq(Reqs), NEW r \in Reqs,
         Ordered(k, h)
  PROVE  OrderedAround(k, Append(h, r), Len(h) + 1)
  BY DEF Ordered, OrderedAround

-----------------------------------------------------------------------------
(* The steps of the specification. *)

\* The conjuncts of SscdtTypeOK about the heaps and the operation in progress.
HeapTypeOK ==
  /\ st_binheap \in [Queues -> Seq(Reqs)]
  /\ sift \in Sifts
  /\ Placed(sift, Len(Heap))
PlainTypeOK ==
  /\ interval \in 0..U32 - 1
  /\ pol_state \in [Queues -> {"stopped", "started", "stopping"}]
  /\ where \in [Reqs -> {"out", "queued", "moving", "away", "done"}]
  /\ res \in [Reqs -> Queues \union {None}]
  /\ extra \in [Reqs -> Queues \union {None}]
  /\ steady \in [Queues -> BOOLEAN]
  /\ oops \in BOOLEAN

\* There is always a width that the order of a heap can be stated with.
LEMMA WidthPositive ==
  ASSUME PlainTypeOK
  PROVE  Width \in Nat \ {0} /\ (interval # 0 => Width = interval)
  BY IntervalAssumption DEF PlainTypeOK, Width

\* SscdtTypeOK in its two parts, in a state and the next one.
LEMMA TypeParts ==
  /\ SscdtTypeOK <=> HeapTypeOK /\ PlainTypeOK
  /\ SscdtTypeOK' <=> HeapTypeOK' /\ PlainTypeOK'
  BY DEF SscdtTypeOK, HeapTypeOK, PlainTypeOK, Sifts, Placed

\* HeapHoldsQueued, of the heaps hs, the places w and the resources rs.
Holds(hs, w, rs) ==
  \A q \in Queues :
    /\ Distinct(hs[q])
    /\ Elements(hs[q]) = {r \in Reqs : w[r] = "queued" /\ rs[r] = q}

\* HeapHoldsQueued in terms of elements and distinctness.
LEMMA HeapParts ==
  /\ HeapTypeOK => (HeapHoldsQueued <=> Holds(st_binheap, where, res))
  /\ HeapTypeOK' => (HeapHoldsQueued' <=> Holds(st_binheap', where', res'))
<1>1. HeapTypeOK =>
        \A q \in Queues : DOMAIN st_binheap[q] = 1..Len(st_binheap[q])
  BY DEF HeapTypeOK
<1>2. HeapTypeOK' =>
        \A q \in Queues : DOMAIN st_binheap'[q] = 1..Len(st_binheap'[q])
  BY DEF HeapTypeOK
<1>3. HeapTypeOK => (HeapHoldsQueued <=> Holds(st_binheap, where, res))
  BY <1>1 DEF HeapHoldsQueued, Content, Distinct, Elements, Holds
<1>4. HeapTypeOK' => (HeapHoldsQueued' <=> Holds(st_binheap', where', res'))
  BY <1>2 DEF HeapHoldsQueued, Content, Distinct, Elements, Holds
<1> QED BY <1>3, <1>4

\* Without an operation, Fits only says that the heap is ordered.
LEMMA FitsIdle ==
  ASSUME NEW k, NEW h, NEW s, NEW u, s.pc = "idle", u.pc = "idle",
         Fits(k, h, s)
  PROVE  Fits(k, h, u)
  BY DEF Fits

\* While no operation goes on, a steady heap is ordered.
LEMMA IdleOrdered ==
  ASSUME OrderInv, sift.pc = "idle", NEW q \in Queues, steady[q]
  PROVE  Ordered(Width, st_binheap[q])
  BY DEF OrderInv, Fits, Idle, Sift

\* A steady heap that the operation does not work on is ordered.
LEMMA OthersOrdered ==
  ASSUME OrderInv, NEW q \in Queues, q # sift.q, steady[q]
  PROVE  Ordered(Width, st_binheap[q])
  BY DEF OrderInv, Fits, Idle, Sift

\* A step of an operation on the heap of q, which becomes g.
LEMMA SscdtHeapStep ==
  ASSUME HeapTypeOK, NEW q \in Queues, NEW g \in Seq(Reqs),
         st_binheap' = [st_binheap EXCEPT ![q] = g],
         sift' \in Sifts, Placed(sift', Len(g)),
         sift'.pc # "idle" => sift'.q = q,
         interval' = interval,
         \A p \in Queues \ {q} : steady'[p] => Ordered(Width, st_binheap[p]),
         steady'[q] => Fits(Width, g, sift')
  PROVE  HeapTypeOK' /\ OrderInv'
<1>1. /\ st_binheap' \in [Queues -> Seq(Reqs)]
      /\ st_binheap'[q] = g
      /\ \A p \in Queues \ {q} : st_binheap'[p] = st_binheap[p]
  BY DEF HeapTypeOK
<1>2. Placed(sift', Len(Heap'))
  <2>1. CASE sift'.pc = "idle"
    BY <2>1 DEF Placed
  <2>2. CASE sift'.pc # "idle"
    BY <1>1, <2>2 DEF Heap
  <2> QED BY <2>1, <2>2
<1>3. Idle.pc = "idle" /\ Width' = Width
  BY DEF Idle, Sift, Width
<1>4. ASSUME NEW p \in Queues, steady'[p]
      PROVE  Fits(Width', st_binheap'[p], IF sift'.q = p THEN sift' ELSE Idle)
  <2>1. CASE p = q
    <3>1. Fits(Width, g, sift')
      BY <1>4, <2>1
    <3>2. CASE sift'.q = q
      BY <1>1, <1>3, <2>1, <3>1, <3>2
    <3>3. CASE sift'.q # q
      <4>1. Fits(Width, g, Idle)
        BY <1>3, <3>1, <3>3, FitsIdle
      <4> QED BY <1>1, <1>3, <2>1, <3>3, <4>1
    <3> QED BY <3>2, <3>3
  <2>2. CASE p # q
    <3>1. Ordered(Width, st_binheap[p])
      BY <1>4, <2>2
    <3>2. Fits(Width, st_binheap[p], Idle)
      BY <1>3, <3>1 DEF Fits
    <3>3. CASE sift'.q = p
      <4>1. sift'.pc = "idle"
        BY <2>2, <3>3
      <4>2. Fits(Width, st_binheap[p], sift')
        BY <1>3, <3>2, <4>1, FitsIdle
      <4> QED BY <1>1, <1>3, <2>2, <3>3, <4>2
    <3>4. CASE sift'.q # p
      BY <1>1, <1>3, <2>2, <3>2, <3>4
    <3> QED BY <3>3, <3>4
  <2> QED BY <2>1, <2>2
<1> QED BY <1>1, <1>2, <1>4 DEF HeapTypeOK, OrderInv

\* cfs_binheap_insert leaves the heap in order around the new element.
LEMMA InsertStep ==
  ASSUME SscdtTypeOK, HeapHoldsQueued, OrderInv, sift.pc = "idle",
         NEW q \in Queues, NEW r \in Reqs, where[r] # "queued",
         cfs_binheap_insert(q, r), interval' = interval, steady' = steady
  PROVE  /\ HeapTypeOK' /\ OrderInv'
         /\ st_binheap' = [st_binheap EXCEPT ![q] = Append(st_binheap[q], r)]
<1> DEFINE h == st_binheap[q]
           g == Append(h, r)
<1>1. HeapTypeOK /\ Width \in Nat \ {0} /\ h \in Seq(Reqs)
  BY TypeParts, WidthPositive DEF HeapTypeOK, PlainTypeOK
<1>2. g \in Seq(Reqs) /\ Len(g) = Len(h) + 1 /\ Len(g) \in 1..Len(g)
  BY <1>1
<1>3. /\ st_binheap' = [st_binheap EXCEPT ![q] = g]
      /\ sift' = BubbleAt(q, Len(g), Len(g), FALSE)
  BY <1>2 DEF cfs_binheap_insert
<1>4. steady[q] => OrderedAround(Width, g, Len(g))
  BY <1>1, <1>2, IdleOrdered, AppendedOrder
<1> HIDE DEF g, h
<1>5. /\ sift' \in Sifts /\ Placed(sift', Len(g))
      /\ (sift'.pc # "idle" => sift'.q = q)
      /\ steady[q] => Fits(Width, g, sift')
  BY <1>1, <1>2, <1>3, <1>4, BubbleAtFits
<1>6. \A p \in Queues : steady[p] => Ordered(Width, st_binheap[p])
  BY IdleOrdered
<1>7. HeapTypeOK' /\ OrderInv'
  BY <1>1, <1>2, <1>3, <1>5, <1>6, SscdtHeapStep
<1> QED BY <1>3, <1>7 DEF g, h

\* cfs_binheap_remove leaves the heap in order around the place it filled.
LEMMA RemoveStep ==
  ASSUME SscdtTypeOK, HeapHoldsQueued, OrderInv, sift.pc = "idle",
         NEW q \in Queues, NEW i \in 1..Len(st_binheap[q]),
         cfs_binheap_remove(q, i), interval' = interval
  PROVE  /\ HeapTypeOK' /\ OrderInv' /\ steady' \in [Queues -> BOOLEAN]
         /\ st_binheap' = [st_binheap EXCEPT ![q] = RemovedAt(st_binheap[q], i)]
<1> DEFINE h == st_binheap[q]
           g == RemovedAt(h, i)
<1>1. /\ HeapTypeOK /\ Width \in Nat \ {0} /\ h \in Seq(Reqs)
      /\ steady \in [Queues -> BOOLEAN] /\ Len(h) \in Nat
  BY TypeParts, WidthPositive DEF HeapTypeOK, PlainTypeOK
<1>2. Distinct(h)
  BY <1>1, HeapParts DEF Holds
<1>3. g \in Seq(Reqs) /\ Len(g) = Len(h) - 1
  BY <1>1, <1>2, RemovedHeap
<1>4. /\ st_binheap' = [st_binheap EXCEPT ![q] = g]
      /\ sift' = IF i = Len(h) THEN Idle ELSE BubbleAt(q, Len(g), i, FALSE)
      /\ steady' = [steady EXCEPT ![q] = @ \/ (Len(g) = 0 /\ interval # 0)]
  <2>1. Len(h) = (Len(h) - 1) + 1
    BY <1>1
  <2> QED BY <1>3, <2>1 DEF cfs_binheap_remove, RemovedAt
<1>5. steady[q] => IF i = Len(h) THEN Ordered(Width, g)
                                 ELSE OrderedAround(Width, g, i)
  BY <1>1, IdleOrdered, RemovedOrder
<1>6. \A p \in Queues \ {q} : steady'[p] => Ordered(Width, st_binheap[p])
  BY <1>1, <1>4, IdleOrdered
<1>7. Len(g) = 0 => i = Len(h) /\ Ordered(Width, g)
  <2>1. Len(g) = 0 => i = Len(h)
    BY <1>1, <1>3
  <2>2. Len(g) = 0 => Ordered(Width, g)
    <3> HIDE DEF g
    <3> QED BY DEF Ordered
  <2> QED BY <2>1, <2>2
<1>8. i # Len(h) => i \in 1..Len(g)
  BY <1>1, <1>3
<1>9. steady'[q] => steady[q] \/ Len(g) = 0
  BY <1>1, <1>4
<1> HIDE DEF g, h
<1>10. /\ sift' \in Sifts /\ Placed(sift', Len(g))
       /\ (sift'.pc # "idle" => sift'.q = q)
       /\ steady'[q] => Fits(Width, g, sift')
  <2>1. CASE i = Len(h)
    <3>1. sift' = Idle
      BY <1>4, <2>1
    <3>2. sift' \in Sifts /\ Placed(sift', Len(g)) /\ sift'.pc = "idle"
      BY <3>1 DEF Idle, Sift, Sifts, Placed, Queues, NoWindow
    <3>3. steady'[q] => Ordered(Width, g)
      BY <1>5, <1>7, <1>9, <2>1
    <3> QED BY <3>2, <3>3 DEF Fits
  <2>2. CASE i # Len(h)
    <3>1. steady'[q] => OrderedAround(Width, g, i)
      BY <1>5, <1>7, <1>9, <2>2
    <3> QED BY <1>1, <1>3, <1>4, <1>8, <2>2, <3>1, BubbleAtFits
  <2> QED BY <2>1, <2>2
<1>11. HeapTypeOK' /\ OrderInv'
  BY <1>1, <1>3, <1>4, <1>6, <1>10, SscdtHeapStep
<1> QED BY <1>1, <1>4, <1>11 DEF g, h

\* The indices whose parent is p.
LEMMA Children ==
  ASSUME NEW i \in Nat, NEW p \in Nat, i \div 2 = p
  PROVE  i = 2 * p \/ i = 2 * p + 1
  OBVIOUS

\* What a comparison in a heap that interval was not changed under says.
LEMMA CompareGoes ==
  ASSUME SscdtTypeOK, OrderInv, sift.pc # "idle", Divides
  PROVE  /\ FirstAt(Heap, sift) \in Reqs /\ SecondAt(Heap, sift) \in Reqs
         /\ Window(Width, FirstAt(Heap, sift)) \in Nat
         /\ First = FirstAt(Heap, sift) /\ Second = SecondAt(Heap, sift)
         /\ steady[sift.q] => Fits(Width, Heap, sift)
         /\ steady[sift.q] /\ sift.w # NoWindow =>
              (Compare <=>
                 Goes(Width, FirstAt(Heap, sift), SecondAt(Heap, sift)))
<1>1. /\ Width = interval /\ interval \in Nat \ {0} /\ sift \in Sifts /\ Placed(sift, Len(Heap))
      /\ sift.q \in Queues /\ Heap \in Seq(Reqs) /\ sift.i \in 1..Len(Heap)
      /\ sift.pc \in {"up", "pick", "down"}
  BY TypeParts, WidthPositive
     DEF HeapTypeOK, PlainTypeOK, Heap, Sifts, Placed, Divides
<1>2. FirstAt(Heap, sift) \in Reqs /\ SecondAt(Heap, sift) \in Reqs
  <2>1. CASE sift.pc = "up"
    BY <1>1, <2>1 DEF Placed, FirstAt, SecondAt
  <2>2. CASE sift.pc = "pick"
    BY <1>1, <2>2 DEF Placed, FirstAt, SecondAt
  <2>3. CASE sift.pc = "down"
    BY <1>1, <2>3 DEF Placed, FirstAt, SecondAt
  <2> QED BY <1>1, <2>1, <2>2, <2>3
<1>3. First = FirstAt(Heap, sift) /\ Second = SecondAt(Heap, sift)
  BY DEF First, Second, FirstAt, SecondAt
<1>4. steady[sift.q] => Fits(Width, Heap, sift)
  BY <1>1 DEF OrderInv, Heap
<1>5. ASSUME steady[sift.q], sift.w # NoWindow
      PROVE  Compare <=>
               Goes(Width, FirstAt(Heap, sift), SecondAt(Heap, sift))
  <2>1. sift.w = Window(Width, FirstAt(Heap, sift))
    BY <1>4, <1>5 DEF Fits
  <2> QED BY <1>1, <1>2, <1>3, <2>1, CompareDecides DEF Compare
<1>6. Window(Width, FirstAt(Heap, sift)) \in Nat
  BY <1>1, <1>2, WindowMono
<1> QED BY <1>2, <1>3, <1>4, <1>5, <1>6

\* The heap that an operation does not work on keeps its order.
LEMMA RestOrdered ==
  ASSUME OrderInv, steady' = steady
  PROVE  \A p \in Queues \ {sift.q} :
           steady'[p] => Ordered(Width, st_binheap[p])
  BY OthersOrdered

\* Computing time_window1 changes no heap.
LEMMA WindowStep ==
  ASSUME SscdtTypeOK, OrderInv, TimeWindow1
  PROVE  HeapTypeOK' /\ OrderInv' /\ st_binheap' = st_binheap
<1>1. /\ sift.pc # "idle" /\ sift.w = NoWindow /\ Divides
      /\ sift' = [sift EXCEPT !.w = time_window(First)]
      /\ UNCHANGED <<interval, st_binheap, steady>>
  BY DEF TimeWindow1
<1>2. /\ HeapTypeOK /\ sift \in Sifts /\ sift.q \in Queues
      /\ Heap \in Seq(Reqs) /\ Placed(sift, Len(Heap))
      /\ st_binheap \in [Queues -> Seq(Reqs)]
  BY TypeParts DEF HeapTypeOK, PlainTypeOK, Heap, Sifts
<1>3. time_window(First) = Window(Width, FirstAt(Heap, sift))
  BY <1>1, CompareGoes DEF time_window, Window, Width, Divides
<1>4. Window(Width, FirstAt(Heap, sift)) \in Nat
  BY <1>1, CompareGoes
<1>5. /\ sift' \in Sifts /\ Placed(sift', Len(Heap))
      /\ sift'.q = sift.q /\ sift'.w = Window(Width, FirstAt(Heap, sift))
      /\ sift'.pc = sift.pc /\ sift'.i = sift.i /\ sift'.c = sift.c
      /\ sift'.moved = sift.moved
  <2> HIDE DEF Placed
  <2>1. sift' = [sift EXCEPT !.w = Window(Width, FirstAt(Heap, sift))]
    BY <1>1, <1>3
  <2>2. /\ sift' \in Sifts
        /\ sift'.q = sift.q /\ sift'.w = Window(Width, FirstAt(Heap, sift))
        /\ sift'.pc = sift.pc /\ sift'.i = sift.i /\ sift'.c = sift.c
        /\ sift'.moved = sift.moved
    BY <1>2, <1>4, <2>1 DEF Sifts
  <2> QED BY <1>2, <2>2 DEF Placed
<1>6. FirstAt(Heap, sift') = FirstAt(Heap, sift)
  BY <1>5 DEF FirstAt
<1>7. steady'[sift.q] => Fits(Width, Heap, sift')
  <2>1. steady[sift.q] => Fits(Width, Heap, sift)
    BY <1>1, CompareGoes
  <2> QED BY <1>1, <1>5, <1>6, <2>1 DEF Fits
<1>8. st_binheap' = [st_binheap EXCEPT ![sift.q] = Heap]
  BY <1>1, <1>2 DEF Heap
<1>9. \A p \in Queues \ {sift.q} : steady'[p] => Ordered(Width, st_binheap[p])
  BY <1>1, RestOrdered
<1>10. HeapTypeOK' /\ OrderInv'
  BY <1>1, <1>2, <1>5, <1>7, <1>8, <1>9, SscdtHeapStep
<1> QED BY <1>1, <1>10

\* The choice of the child that goes first.
LEMMA PickStepOK ==
  ASSUME SscdtTypeOK, OrderInv, PickStep
  PROVE  HeapTypeOK' /\ OrderInv' /\ st_binheap' = st_binheap
<1> DEFINE p == sift.i
           c == IF Compare THEN 2 * p + 1 ELSE 2 * p
<1>1. /\ sift.pc = "pick" /\ sift.w # NoWindow /\ Divides
      /\ sift' = Sift("down", sift.q, p, c, FALSE)
      /\ UNCHANGED <<interval, st_binheap, steady>>
  BY DEF PickStep
<1>2. /\ HeapTypeOK /\ Width \in Nat \ {0}
      /\ sift.q \in Queues /\ Heap \in Seq(Reqs)
      /\ st_binheap \in [Queues -> Seq(Reqs)]
      /\ p \in 1..Len(Heap) /\ 2 * p + 1 <= Len(Heap)
  BY <1>1, TypeParts, WidthPositive
     DEF HeapTypeOK, PlainTypeOK, Heap, Sifts, Placed
<1>3. c \in {2 * p, 2 * p + 1} /\ c \in Nat
  BY <1>2
<1>4. /\ sift' \in Sifts /\ Placed(sift', Len(Heap)) /\ sift'.q = sift.q
      /\ sift'.pc = "down" /\ sift'.i = p /\ sift'.c = c /\ sift'.w = NoWindow
  <2> HIDE DEF c, p
  <2> QED BY <1>1, <1>2, <1>3 DEF Sift, Sifts, Placed, NoWindow
<1>5. ASSUME steady'[sift.q]
      PROVE  Fits(Width, Heap, sift')
  <2>1. /\ Fits(Width, Heap, sift)
        /\ Compare <=> Goes(Width, Heap[2 * p + 1], Heap[2 * p])
    BY <1>1, <1>5, CompareGoes DEF FirstAt, SecondAt
  <2>2. Heap[2 * p + 1] \in Reqs /\ Heap[2 * p] \in Reqs
    BY <1>2
  <2>3. ASSUME NEW i \in 2..Len(Heap), i \div 2 = p
        PROVE  ~Goes(Width, Heap[i], Heap[c])
    <3>1. i = 2 * p \/ i = 2 * p + 1
      <4>1. i \in Nat /\ p \in Nat
        BY <1>2
      <4> QED BY <2>3, <4>1, Children
    <3>2. CASE Compare
      BY <1>2, <2>1, <2>2, <3>1, <3>2, GoesOrder
    <3>3. CASE ~Compare
      BY <1>2, <2>1, <2>2, <3>1, <3>3, GoesOrder
    <3> QED BY <3>2, <3>3
  <2>4. OrderedAround(Width, Heap, p) /\ BelowParent(Width, Heap, p)
    BY <1>1, <2>1 DEF Fits
  <2> HIDE DEF c, p
  <2> QED BY <1>4, <2>3, <2>4 DEF Fits
<1>6. st_binheap' = [st_binheap EXCEPT ![sift.q] = Heap]
  BY <1>1, <1>2 DEF Heap
<1>7. \A q \in Queues \ {sift.q} : steady'[q] => Ordered(Width, st_binheap[q])
  BY <1>1, RestOrdered
<1>8. HeapTypeOK' /\ OrderInv'
  BY <1>1, <1>2, <1>4, <1>5, <1>6, <1>7, SscdtHeapStep
<1> QED BY <1>1, <1>8

\* One comparison of cfs_binheap_bubble.
LEMMA BubbleStepOK ==
  ASSUME SscdtTypeOK, OrderInv, BubbleStep
  PROVE  /\ HeapTypeOK' /\ OrderInv'
         /\ \/ st_binheap' = st_binheap
            \/ \E i, j \in 1..Len(Heap) :
                 st_binheap' = [st_binheap EXCEPT ![sift.q] = Swapped(Heap, i, j)]
<1> DEFINE p == sift.i
           o == sift.i \div 2
           q == sift.q
<1>1. /\ sift.pc = "up" /\ sift.w # NoWindow /\ Divides
      /\ UNCHANGED <<interval, steady>>
  BY DEF BubbleStep
<1>2. /\ HeapTypeOK /\ Width \in Nat \ {0}
      /\ q \in Queues /\ Heap \in Seq(Reqs) /\ sift.moved \in BOOLEAN
      /\ st_binheap \in [Queues -> Seq(Reqs)]
      /\ p \in 1..Len(Heap) /\ p > 1
  BY <1>1, TypeParts, WidthPositive
     DEF HeapTypeOK, PlainTypeOK, Heap, Sifts, Placed
<1>3. p \in 2..Len(Heap) /\ o \in 1..Len(Heap)
  BY <1>2
<1>4. steady[q] => /\ OrderedAround(Width, Heap, p)
                   /\ sift.moved => AboveChildren(Width, Heap, p)
                   /\ Compare <=> Goes(Width, Heap[o], Heap[p])
  BY <1>1, CompareGoes DEF FirstAt, SecondAt, Fits
<1>5. \A x \in Queues \ {q} : steady'[x] => Ordered(Width, st_binheap[x])
  BY <1>1, RestOrdered
<1>6. CASE Compare
  <2>1. /\ sift' = IF sift.moved THEN Idle ELSE SinkAt(q, Len(Heap), p)
        /\ st_binheap' = st_binheap
    BY <1>6 DEF BubbleStep
  <2>2. st_binheap' = [st_binheap EXCEPT ![q] = Heap]
    BY <1>2, <2>1 DEF Heap
  <2>3. steady[q] => BelowParent(Width, Heap, p)
    <3>1. Heap[o] \in Reqs /\ Heap[p] \in Reqs
      BY <1>2, <1>3
    <3> QED BY <1>2, <1>4, <1>6, <3>1, GoesOrder DEF BelowParent
  <2>4. /\ sift' \in Sifts /\ Placed(sift', Len(Heap))
        /\ (sift'.pc # "idle" => sift'.q = q)
        /\ steady'[q] => Fits(Width, Heap, sift')
    <3>1. CASE sift.moved
      <4>1. sift' = Idle
        BY <2>1, <3>1
      <4>2. sift' \in Sifts /\ Placed(sift', Len(Heap)) /\ sift'.pc = "idle"
        BY <4>1 DEF Idle, Sift, Sifts, Placed, Queues, NoWindow
      <4>3. steady[q] => Ordered(Width, Heap)
        BY <1>2, <1>4, <2>3, <3>1, OrderComplete
      <4> QED BY <1>1, <4>2, <4>3 DEF Fits
    <3>2. CASE ~sift.moved
      <4>1. sift' = SinkAt(q, Len(Heap), p)
        BY <2>1, <3>2
      <4> HIDE DEF p, q
      <4> QED BY <1>1, <1>2, <1>4, <2>3, <4>1, SinkAtFits
    <3> QED BY <3>1, <3>2
  <2>5. HeapTypeOK' /\ OrderInv'
    <3> HIDE DEF q
    <3> QED BY <1>1, <1>2, <1>5, <2>2, <2>4, SscdtHeapStep
  <2> QED BY <2>1, <2>5
<1>7. CASE ~Compare
  <2> DEFINE g == Swapped(Heap, p, o)
  <2>1. /\ sift' = BubbleAt(q, Len(Heap), o, TRUE)
        /\ st_binheap' = [st_binheap EXCEPT ![q] = g]
    BY <1>7 DEF BubbleStep, Heap
  <2>2. g \in Seq(Reqs) /\ Len(g) = Len(Heap)
    BY <1>2, <1>3, SwappedAt
  <2>3. steady[q] => /\ OrderedAround(Width, g, o)
                     /\ AboveChildren(Width, g, o)
    BY <1>2, <1>3, <1>4, <1>7, BubbleUpOrder
  <2>4. /\ sift' \in Sifts /\ Placed(sift', Len(g))
        /\ (sift'.pc # "idle" => sift'.q = q)
        /\ steady'[q] => Fits(Width, g, sift')
    <3>1. o \in 1..Len(g) /\ sift' = BubbleAt(q, Len(g), o, TRUE)
      BY <1>3, <2>1, <2>2
    <3> HIDE DEF g, o, q
    <3> QED BY <1>1, <1>2, <2>2, <2>3, <3>1, BubbleAtFits
  <2>5. HeapTypeOK' /\ OrderInv'
    <3> HIDE DEF g, q
    <3> QED BY <1>1, <1>2, <1>5, <2>1, <2>2, <2>4, SscdtHeapStep
  <2> QED BY <1>2, <1>3, <2>1, <2>5
<1> QED BY <1>6, <1>7

\* One comparison of cfs_binheap_sink.
LEMMA SinkStepOK ==
  ASSUME SscdtTypeOK, OrderInv, SinkStep
  PROVE  /\ HeapTypeOK' /\ OrderInv'
         /\ \/ st_binheap' = st_binheap
            \/ \E i, j \in 1..Len(Heap) :
                 st_binheap' = [st_binheap EXCEPT ![sift.q] = Swapped(Heap, i, j)]
<1> DEFINE p == sift.i
           c == sift.c
           q == sift.q
<1>1. /\ sift.pc = "down" /\ sift.w # NoWindow /\ Divides
      /\ UNCHANGED <<interval, steady>>
  BY DEF SinkStep
<1>2. /\ HeapTypeOK /\ Width \in Nat \ {0}
      /\ q \in Queues /\ Heap \in Seq(Reqs)
      /\ st_binheap \in [Queues -> Seq(Reqs)]
      /\ p \in 1..Len(Heap) /\ c \in {2 * p, 2 * p + 1} /\ c <= Len(Heap)
  BY <1>1, TypeParts, WidthPositive
     DEF HeapTypeOK, PlainTypeOK, Heap, Sifts, Placed
<1>3. c \in 1..Len(Heap)
  BY <1>2
<1>4. steady[q] => /\ OrderedAround(Width, Heap, p)
                   /\ BelowParent(Width, Heap, p)
                   /\ \A i \in 2..Len(Heap) :
                        i \div 2 = p => ~Goes(Width, Heap[i], Heap[c])
                   /\ Compare <=> Goes(Width, Heap[p], Heap[c])
  BY <1>1, CompareGoes DEF FirstAt, SecondAt, Fits
<1>5. \A x \in Queues \ {q} : steady'[x] => Ordered(Width, st_binheap[x])
  BY <1>1, RestOrdered
<1>6. CASE Compare
  <2>1. sift' = Idle /\ st_binheap' = st_binheap
    BY <1>6 DEF SinkStep
  <2>2. st_binheap' = [st_binheap EXCEPT ![q] = Heap]
    BY <1>2, <2>1 DEF Heap
  <2>3. sift' \in Sifts /\ Placed(sift', Len(Heap)) /\ sift'.pc = "idle"
    BY <2>1 DEF Idle, Sift, Sifts, Placed, Queues, NoWindow
  <2>4. ASSUME steady[q]
        PROVE  Ordered(Width, Heap)
    <3>1. \A x \in 1..Len(Heap) : Heap[x] \in Reqs
      BY <1>2
    <3>2. ~Goes(Width, Heap[c], Heap[p])
      BY <1>2, <1>3, <1>4, <1>6, <2>4, <3>1, GoesOrder
    <3>3. ASSUME NEW i \in 2..Len(Heap), i \div 2 = p
          PROVE  ~Goes(Width, Heap[i], Heap[p])
      <4>1. i \in 1..Len(Heap) /\ ~Goes(Width, Heap[i], Heap[c])
        BY <1>4, <2>4, <3>3
      <4> QED BY <1>2, <1>3, <3>1, <3>2, <4>1, GoesOrder
    <3>4. AboveChildren(Width, Heap, p)
      BY <3>3 DEF AboveChildren
    <3> QED BY <1>2, <1>4, <2>4, <3>4, OrderComplete
  <2>5. steady'[q] => Fits(Width, Heap, sift')
    BY <1>1, <2>3, <2>4 DEF Fits
  <2>6. HeapTypeOK' /\ OrderInv'
    <3> HIDE DEF q
    <3> QED BY <1>1, <1>2, <1>5, <2>2, <2>3, <2>5, SscdtHeapStep
  <2> QED BY <2>1, <2>6
<1>7. CASE ~Compare
  <2> DEFINE g == Swapped(Heap, p, c)
  <2>1. /\ sift' = SinkAt(q, Len(Heap), c)
        /\ st_binheap' = [st_binheap EXCEPT ![q] = g]
    BY <1>7 DEF SinkStep, Heap
  <2>2. g \in Seq(Reqs) /\ Len(g) = Len(Heap)
    BY <1>2, <1>3, SwappedAt
  <2>3. steady[q] => OrderedAround(Width, g, c) /\ BelowParent(Width, g, c)
    <3> HIDE DEF p, c
    <3> QED BY <1>2, <1>4, <1>7, SinkDownOrder
  <2>4. /\ sift' \in Sifts /\ Placed(sift', Len(g))
        /\ (sift'.pc # "idle" => sift'.q = q)
        /\ steady'[q] => Fits(Width, g, sift')
    <3>1. c \in 1..Len(g) /\ sift' = SinkAt(q, Len(g), c)
      BY <1>3, <2>1, <2>2
    <3> HIDE DEF g, c, q
    <3> QED BY <1>1, <1>2, <2>2, <2>3, <3>1, SinkAtFits
  <2>5. HeapTypeOK' /\ OrderInv'
    <3> HIDE DEF g, q
    <3> QED BY <1>1, <1>2, <1>5, <2>1, <2>2, <2>4, SscdtHeapStep
  <2> QED BY <1>2, <1>3, <2>1, <2>5
<1> QED BY <1>6, <1>7

\* The steps of a heap operation only rearrange the heap.
LEMMA SiftingStep ==
  ASSUME SscdtInv, cfs_binheap_step
  PROVE  SscdtInv'
<1>1. SscdtTypeOK /\ HeapHoldsQueued /\ HoldersInv /\ OrderInv /\ WidthInv
  BY DEF SscdtInv
<1>2. UNCHANGED <<interval, pol_state, where, res, extra, steady>>
  BY DEF cfs_binheap_step, TimeWindow1, BubbleStep, PickStep, SinkStep,
         DivideByZero
<1>3. /\ HeapTypeOK' /\ OrderInv'
      /\ \/ st_binheap' = st_binheap
         \/ \E i, j \in 1..Len(Heap) :
              st_binheap' = [st_binheap EXCEPT ![sift.q] = Swapped(Heap, i, j)]
  <2>1. CASE TimeWindow1
    BY <1>1, <2>1, WindowStep
  <2>2. CASE BubbleStep
    BY <1>1, <2>2, BubbleStepOK
  <2>3. CASE PickStep
    BY <1>1, <2>3, PickStepOK
  <2>4. CASE SinkStep
    BY <1>1, <2>4, SinkStepOK
  <2>5. CASE DivideByZero
    <3>1. UNCHANGED <<interval, st_binheap, sift, steady>>
      BY <2>5 DEF DivideByZero
    <3>2. HeapTypeOK'
      BY <1>1, <3>1, TypeParts DEF HeapTypeOK, Heap
    <3>3. OrderInv'
      BY <1>1, <3>1 DEF OrderInv, Width
    <3> QED BY <3>1, <3>2, <3>3
  <2> QED BY <2>1, <2>2, <2>3, <2>4, <2>5 DEF cfs_binheap_step
<1>4. SscdtTypeOK'
  <2>1. oops' \in BOOLEAN
    BY <1>1 DEF SscdtTypeOK, cfs_binheap_step, TimeWindow1, BubbleStep, PickStep,
                SinkStep, DivideByZero
  <2> QED BY <1>1, <1>2, <1>3, <2>1, TypeParts DEF PlainTypeOK
<1>5. HoldersInv'
  BY <1>1, <1>2 DEF HoldersInv, Referrers
<1>6. HeapTypeOK /\ sift.q \in Queues /\ Heap \in Seq(Reqs)
  BY <1>1, TypeParts DEF HeapTypeOK, PlainTypeOK, Heap, Sifts
<1>7. ASSUME NEW q \in Queues
      PROVE  /\ Distinct(st_binheap'[q])
             /\ Elements(st_binheap'[q])
                  = {r \in Reqs : where'[r] = "queued" /\ res'[r] = q}
  <2>1. /\ Distinct(st_binheap[q])
        /\ Elements(st_binheap[q])
             = {r \in Reqs : where'[r] = "queued" /\ res'[r] = q}
    BY <1>1, <1>2, <1>6, HeapParts DEF Holds
  <2>2. CASE st_binheap'[q] = st_binheap[q]
    BY <2>1, <2>2
  <2>3. CASE st_binheap'[q] # st_binheap[q]
    <3>1. PICK i, j \in 1..Len(Heap) :
            st_binheap' = [st_binheap EXCEPT ![sift.q] = Swapped(Heap, i, j)]
      BY <1>3, <2>3
    <3>2. q = sift.q /\ st_binheap'[q] = Swapped(Heap, i, j)
      BY <1>6, <2>3, <3>1 DEF HeapTypeOK
    <3>3. st_binheap[q] = Heap
      BY <3>2 DEF Heap
    <3> QED BY <1>6, <2>1, <3>2, <3>3, SwappedHeap
  <2> QED BY <2>2, <2>3
<1>8. HeapHoldsQueued'
  BY <1>3, <1>7, HeapParts DEF Holds
<1>9. WidthInv'
  BY <1>1, <1>2 DEF WidthInv
<1> QED BY <1>3, <1>4, <1>5, <1>8, <1>9 DEF SscdtInv

\* Without a reference there is nothing in the heap, and nothing works on it.
LEMMA HeapEmpty ==
  ASSUME SscdtTypeOK, HeapHoldsQueued, NEW q \in Queues, Referrers(q) = {}
  PROVE  st_binheap[q] = <<>> /\ ~(sift.pc # "idle" /\ sift.q = q)
<1>1. /\ st_binheap[q] \in Seq(Reqs)
      /\ Elements(st_binheap[q]) = {r \in Reqs : where[r] = "queued" /\ res[r] = q}
  BY TypeParts, HeapParts DEF HeapTypeOK, Holds
<1>2. Elements(st_binheap[q]) = {}
  BY <1>1 DEF Referrers
<1>3. Len(st_binheap[q]) = 0
  <2> SUFFICES ASSUME Len(st_binheap[q]) # 0 PROVE FALSE
    OBVIOUS
  <2>1. 1 \in 1..Len(st_binheap[q])
    BY <1>1
  <2> QED BY <1>2, <2>1 DEF Elements
<1>4. st_binheap[q] = <<>>
  BY <1>1, <1>3
<1> QED BY <1>3, <1>4, TypeParts DEF HeapTypeOK, Heap, Placed

\* The operations that only change who holds what.
LEMMA HolderStep ==
  ASSUME SscdtInv, UNCHANGED <<interval, st_binheap, sift, steady>>,
         PlainTypeOK', HoldersInv',
         \A r \in Reqs, q \in Queues :
           (where'[r] = "queued" /\ res'[r] = q)
             <=> (where[r] = "queued" /\ res[r] = q)
  PROVE  SscdtInv'
<1>1. SscdtTypeOK /\ HeapHoldsQueued /\ OrderInv /\ WidthInv
  BY DEF SscdtInv
<1>2. HeapTypeOK'
  BY <1>1, TypeParts DEF HeapTypeOK, Heap
<1>3. OrderInv' /\ WidthInv'
  BY <1>1 DEF OrderInv, WidthInv, Width
<1>4. HeapHoldsQueued'
  <2>1. Holds(st_binheap, where, res)
    BY <1>1, TypeParts, HeapParts
  <2>2. Holds(st_binheap', where', res')
    BY <2>1 DEF Holds
  <2> QED BY <1>2, <2>2, HeapParts
<1> QED BY <1>2, <1>3, <1>4, TypeParts DEF SscdtInv

\* nrs_sscdt_start creates an empty heap where there was no request.
LEMMA StartStep ==
  ASSUME SscdtInv, NEW q \in Queues, nrs_sscdt_start(q)
  PROVE  SscdtInv'
<1>1. SscdtTypeOK /\ HeapHoldsQueued /\ HoldersInv /\ PlainTypeOK
  BY TypeParts DEF SscdtInv
<1>2. Referrers(q) = {} /\ st_binheap[q] = <<>>
  BY <1>1, HeapEmpty DEF nrs_sscdt_start, HoldersInv
<1>3. st_binheap' = st_binheap
  BY <1>1, <1>2, TypeParts DEF nrs_sscdt_start, HeapTypeOK
<1>4. PlainTypeOK'
  BY <1>1 DEF PlainTypeOK, nrs_sscdt_start
<1>5. HoldersInv'
  BY <1>1, <1>2 DEF HoldersInv, Referrers, nrs_sscdt_start, PlainTypeOK
<1> QED BY <1>3, <1>4, <1>5, HolderStep DEF nrs_sscdt_start

\* Stopping keeps the invariant: no request refers to a stopped policy.
LEMMA LifeCycleStep ==
  ASSUME SscdtInv, NEW q \in Queues, nrs_policy_stop_locked(q) \/ nrs_sscdt_stop(q)
  PROVE  SscdtInv'
<1>1. HoldersInv /\ PlainTypeOK
  BY TypeParts DEF SscdtInv
<1>2. PlainTypeOK'
  BY <1>1 DEF PlainTypeOK, nrs_policy_stop_locked, nrs_sscdt_stop
<1>3. HoldersInv'
  BY <1>1 DEF HoldersInv, Referrers, PlainTypeOK, nrs_policy_stop_locked,
              nrs_sscdt_stop
<1> QED BY <1>2, <1>3, HolderStep DEF nrs_policy_stop_locked, nrs_sscdt_stop

\* Taking and putting resources changes no queued request's.
LEMMA ResourceStep ==
  ASSUME SscdtInv, NEW r \in Reqs,
         nrs_resource_put(r) \/ \E q \in Queues : nrs_sscdt_res_get(r, q)
  PROVE  SscdtInv'
<1>1. HoldersInv /\ PlainTypeOK
  BY TypeParts DEF SscdtInv
<1>2. CASE nrs_resource_put(r)
  <2>1. PlainTypeOK'
    BY <1>1, <1>2 DEF PlainTypeOK, nrs_resource_put, PutOwn
  <2>2. HoldersInv'
    BY <1>1, <1>2 DEF HoldersInv, Referrers, PlainTypeOK, nrs_resource_put,
                      PutOwn, Queues, None
  <2>3. \A s \in Reqs, q \in Queues :
          (where'[s] = "queued" /\ res'[s] = q)
            <=> (where[s] = "queued" /\ res[s] = q)
    BY <1>1, <1>2 DEF PlainTypeOK, nrs_resource_put, PutOwn
  <2> QED BY <1>2, <2>1, <2>2, <2>3, HolderStep DEF nrs_resource_put
<1>3. ASSUME NEW q \in Queues, nrs_sscdt_res_get(r, q)
      PROVE  SscdtInv'
  <2>1. PlainTypeOK'
    BY <1>1, <1>3 DEF PlainTypeOK, nrs_sscdt_res_get
  <2>2. HoldersInv'
    BY <1>1, <1>3 DEF HoldersInv, Referrers, PlainTypeOK, nrs_sscdt_res_get,
                      Queues, None
  <2>3. \A s \in Reqs, p \in Queues :
          (where'[s] = "queued" /\ res'[s] = p)
            <=> (where[s] = "queued" /\ res[s] = p)
    BY <1>1, <1>3 DEF PlainTypeOK, nrs_sscdt_res_get
  <2> QED BY <1>3, <2>1, <2>2, <2>3, HolderStep DEF nrs_sscdt_res_get
<1> QED BY <1>2, <1>3

\* A heap that interval is changed under is no longer steady, or is empty.
LEMMA CtlStep ==
  ASSUME SscdtInv, NEW q \in Queues, NEW opc, NEW arg \in Widths,
         nrs_sscdt_ctl(q, opc, arg)
  PROVE  SscdtInv'
<1>1. /\ SscdtTypeOK /\ HeapHoldsQueued /\ HoldersInv /\ OrderInv
      /\ PlainTypeOK /\ HeapTypeOK
  BY TypeParts DEF SscdtInv
<1>2. arg % U32 \in 0..U32 - 1
  BY IntervalAssumption
<1>3. PlainTypeOK'
  BY <1>1, <1>2 DEF PlainTypeOK, nrs_sscdt_ctl
<1>4. HeapTypeOK'
  BY <1>1 DEF HeapTypeOK, Heap, nrs_sscdt_ctl
<1>5. HeapHoldsQueued'
  BY <1>1, <1>4, HeapParts DEF nrs_sscdt_ctl
<1>6. HoldersInv'
  BY <1>1 DEF HoldersInv, Referrers, nrs_sscdt_ctl
<1>7. ASSUME NEW p \in Queues, steady'[p]
      PROVE  Fits(Width', st_binheap'[p], IF sift'.q = p THEN sift' ELSE Idle)
  <2>1. /\ st_binheap[p] = <<>> \/ (steady[p] /\ interval' = interval)
        /\ st_binheap' = st_binheap /\ sift' = sift
    BY <1>7 DEF nrs_sscdt_ctl
  <2>2. CASE steady[p] /\ interval' = interval
    BY <1>1, <2>1, <2>2 DEF OrderInv, Width
  <2>3. CASE st_binheap[p] = <<>>
    <3>1. Len(st_binheap[p]) = 0
      BY <2>3
    <3>2. (IF sift'.q = p THEN sift' ELSE Idle).pc = "idle"
      BY <1>1, <2>1, <3>1 DEF HeapTypeOK, Heap, Placed, Idle, Sift
    <3>3. Ordered(Width', st_binheap[p])
      BY <3>1 DEF Ordered
    <3> QED BY <2>1, <3>2, <3>3 DEF Fits
  <2> QED BY <2>1, <2>2, <2>3
<1>8. OrderInv' /\ WidthInv'
  BY <1>7 DEF OrderInv, WidthInv, nrs_sscdt_ctl
<1> QED BY <1>3, <1>4, <1>5, <1>6, <1>8, TypeParts DEF SscdtInv

\* nrs_sscdt_req_add, of a new or a moved request, with and without memory.
LEMMA AddStep ==
  ASSUME SscdtInv, NEW r \in Reqs, NEW q \in Queues, nrs_sscdt_req_add(r, q)
  PROVE  SscdtInv'
<1>1. /\ SscdtTypeOK /\ HeapHoldsQueued /\ HoldersInv /\ OrderInv /\ WidthInv
      /\ PlainTypeOK /\ HeapTypeOK
  BY TypeParts DEF SscdtInv
<1>2. /\ sift.pc = "idle" /\ where[r] \in {"out", "moving"}
      /\ UNCHANGED <<interval, pol_state, steady>>
      /\ \A s \in Reqs \ {r} : res'[s] = res[s] /\ extra'[s] = extra[s]
      /\ res'[r] = q
      /\ \A p \in Queues : (res'[r] = p \/ extra'[r] = p)
                          => (res[r] = p \/ extra[r] = p)
  BY <1>1 DEF nrs_sscdt_req_add, Unlocked, PlainTypeOK
<1>3. /\ \A s \in Reqs \ {r} : where'[s] = where[s]
      /\ where'[r] \in {"queued", "away"}
  BY <1>1 DEF nrs_sscdt_req_add, PlainTypeOK
<1>4. PlainTypeOK'
  BY <1>1 DEF nrs_sscdt_req_add, PlainTypeOK
<1>5. HoldersInv'
  BY <1>1, <1>2, <1>3 DEF HoldersInv, Referrers, Queues, None
<1>6. CASE UNCHANGED <<st_binheap, sift>> /\ where'[r] = "away"
  <2>1. \A s \in Reqs, p \in Queues :
          (where'[s] = "queued" /\ res'[s] = p)
            <=> (where[s] = "queued" /\ res[s] = p)
    BY <1>2, <1>3, <1>6
  <2> QED BY <1>2, <1>4, <1>5, <1>6, <2>1, HolderStep
<1>7. CASE cfs_binheap_insert(q, r) /\ where'[r] = "queued"
  <2>1. /\ HeapTypeOK' /\ OrderInv'
        /\ st_binheap' = [st_binheap EXCEPT ![q] = Append(st_binheap[q], r)]
    BY <1>1, <1>2, <1>7, InsertStep
  <2>2. Holds(st_binheap, where, res)
    BY <1>1, HeapParts
  <2>3. ASSUME NEW p \in Queues
        PROVE  /\ Distinct(st_binheap'[p])
               /\ Elements(st_binheap'[p])
                    = {s \in Reqs : where'[s] = "queued" /\ res'[s] = p}
    <3>1. /\ Distinct(st_binheap[p]) /\ st_binheap[p] \in Seq(Reqs)
          /\ Elements(st_binheap[p])
                = {s \in Reqs : where[s] = "queued" /\ res[s] = p}
          /\ r \notin Elements(st_binheap[p])
      BY <1>1, <1>2, <2>2 DEF Holds, HeapTypeOK
    <3>2. CASE p = q
      <4>1. st_binheap'[p] = Append(st_binheap[p], r)
        BY <1>1, <2>1, <3>2 DEF HeapTypeOK
      <4>2. /\ Elements(st_binheap'[p]) = Elements(st_binheap[p]) \union {r}
            /\ Distinct(st_binheap'[p])
        BY <3>1, <4>1, AppendedHeap
      <4> QED BY <1>2, <1>3, <1>7, <3>1, <3>2, <4>2
    <3>3. CASE p # q
      <4>1. st_binheap'[p] = st_binheap[p]
        BY <1>1, <2>1, <3>3 DEF HeapTypeOK
      <4> QED BY <1>2, <1>3, <3>1, <3>3, <4>1
    <3> QED BY <3>2, <3>3
  <2>4. HeapHoldsQueued'
    BY <2>1, <2>3, HeapParts DEF Holds
  <2>5. WidthInv'
    BY <1>1, <1>2 DEF WidthInv
  <2> QED BY <1>4, <1>5, <2>1, <2>4, <2>5, TypeParts DEF SscdtInv
<1>8. \/ UNCHANGED <<st_binheap, sift>> /\ where'[r] = "away"
      \/ cfs_binheap_insert(q, r) /\ where'[r] = "queued"
  BY <1>1 DEF nrs_sscdt_req_add, PlainTypeOK
<1> QED BY <1>6, <1>7, <1>8

\* A request leaves the heap of q, from index i.
LEMMA LeaveStep ==
  ASSUME SscdtInv, NEW q \in Queues, NEW i \in 1..Len(st_binheap[q]),
         NEW place \in {"moving", "away"},
         sift.pc = "idle", cfs_binheap_remove(q, i),
         where' = [where EXCEPT ![st_binheap[q][i]] = place],
         place = "moving" =>
           res[st_binheap[q][i]] = "reg" /\ extra[st_binheap[q][i]] = "hp",
         UNCHANGED <<interval, pol_state, oops, res, extra>>
  PROVE  SscdtInv'
<1> DEFINE r == st_binheap[q][i]
<1>1. /\ SscdtTypeOK /\ HeapHoldsQueued /\ HoldersInv /\ OrderInv /\ WidthInv
      /\ PlainTypeOK /\ HeapTypeOK
  BY TypeParts DEF SscdtInv
<1>2. /\ HeapTypeOK' /\ OrderInv' /\ steady' \in [Queues -> BOOLEAN]
      /\ st_binheap' = [st_binheap EXCEPT ![q] = RemovedAt(st_binheap[q], i)]
  BY <1>1, RemoveStep
<1>3. Holds(st_binheap, where, res)
  BY <1>1, HeapParts
<1>4. r \in Reqs /\ where[r] = "queued" /\ res[r] = q
  <2>1. r \in Elements(st_binheap[q])
    BY DEF Elements
  <2> QED BY <1>3, <2>1 DEF Holds
<1> HIDE DEF r
<1>5. where' = [where EXCEPT ![r] = place]
  BY DEF r
<1>6. PlainTypeOK'
  BY <1>1, <1>2, <1>4, <1>5 DEF PlainTypeOK
<1>7. HoldersInv'
  <2>1. place = "moving" => res[r] = "reg" /\ extra[r] = "hp"
    BY DEF r
  <2> QED BY <1>1, <1>4, <1>5, <2>1 DEF HoldersInv, Referrers, PlainTypeOK
<1>8. ASSUME NEW p \in Queues
      PROVE  /\ Distinct(st_binheap'[p])
             /\ Elements(st_binheap'[p])
                  = {s \in Reqs : where'[s] = "queued" /\ res'[s] = p}
  <2>1. /\ Distinct(st_binheap[p]) /\ st_binheap[p] \in Seq(Reqs)
        /\ Elements(st_binheap[p])
              = {s \in Reqs : where[s] = "queued" /\ res[s] = p}
    BY <1>1, <1>3 DEF Holds, HeapTypeOK
  <2>2. \A s \in Reqs : where'[s] = IF s = r THEN place ELSE where[s]
    BY <1>1, <1>4, <1>5 DEF PlainTypeOK
  <2>3. CASE p = q
    <3>1. st_binheap'[p] = RemovedAt(st_binheap[p], i) /\ r = st_binheap[p][i]
      BY <1>1, <1>2, <2>3 DEF HeapTypeOK, r
    <3>2. /\ Elements(st_binheap'[p]) = Elements(st_binheap[p]) \ {r}
          /\ Distinct(st_binheap'[p])
      BY <2>1, <2>3, <3>1, RemovedHeap
    <3> QED BY <1>4, <2>1, <2>2, <2>3, <3>2
  <2>4. CASE p # q
    <3>1. st_binheap'[p] = st_binheap[p]
      BY <1>1, <1>2, <2>4 DEF HeapTypeOK
    <3> QED BY <1>4, <2>1, <2>2, <2>4, <3>1
  <2> QED BY <2>3, <2>4
<1>9. HeapHoldsQueued'
  BY <1>2, <1>8, HeapParts DEF Holds
<1>10. WidthInv'
  BY <1>1 DEF WidthInv, PlainTypeOK, cfs_binheap_remove
<1> QED BY <1>2, <1>6, <1>7, <1>9, <1>10, TypeParts DEF SscdtInv

\* nrs_sscdt_req_get, peeking or not.
LEMMA GetStep ==
  ASSUME SscdtInv, NEW q \in Queues, NEW peek, nrs_sscdt_req_get(q, peek)
  PROVE  SscdtInv'
<1>1. PlainTypeOK /\ HeapTypeOK /\ HoldersInv
  BY TypeParts DEF SscdtInv
<1>2. CASE peek \/ st_binheap[q] = <<>>
  <2>1. UNCHANGED sscdtVars
    BY <1>2 DEF nrs_sscdt_req_get, sscdtVars
  <2>2. PlainTypeOK' /\ HoldersInv'
    BY <1>1, <2>1 DEF sscdtVars, PlainTypeOK, HoldersInv, Referrers
  <2> QED BY <2>1, <2>2, HolderStep DEF sscdtVars
<1>3. CASE ~(peek \/ st_binheap[q] = <<>>)
  <2>1. 1 \in 1..Len(st_binheap[q])
    BY <1>1, <1>3 DEF HeapTypeOK
  <2>2. /\ sift.pc = "idle" /\ cfs_binheap_remove(q, 1)
        /\ where' = [where EXCEPT ![st_binheap[q][1]] = "away"]
        /\ UNCHANGED <<interval, pol_state, oops, res, extra>>
    BY <1>3 DEF nrs_sscdt_req_get, Unlocked
  <2> QED BY <2>1, <2>2, LeaveStep
<1> QED BY <1>2, <1>3

\* nrs_sscdt_req_del, the first half of a move.
LEMMA DelStep ==
  ASSUME SscdtInv, NEW r \in Reqs, nrs_sscdt_req_del(r)
  PROVE  SscdtInv'
<1>1. HeapTypeOK
  BY TypeParts DEF SscdtInv
<1>2. /\ sift.pc = "idle" /\ res[r] = "reg" /\ extra[r] = "hp"
      /\ where' = [where EXCEPT ![r] = "moving"]
      /\ UNCHANGED <<interval, pol_state, oops, res, extra>>
  BY DEF nrs_sscdt_req_del, Unlocked
<1>3. PICK i \in DOMAIN st_binheap["reg"] :
        st_binheap["reg"][i] = r /\ cfs_binheap_remove("reg", i)
  BY DEF nrs_sscdt_req_del
<1>4. "reg" \in Queues /\ i \in 1..Len(st_binheap["reg"])
  BY <1>1, <1>3 DEF HeapTypeOK, Queues
<1> QED BY <1>2, <1>3, <1>4, LeaveStep

\* The invariant holds at the start.
THEOREM InitInv == SscdtInit => SscdtInv
<1> SUFFICES ASSUME SscdtInit PROVE SscdtInv
  OBVIOUS
<1>1. sift \in Sifts /\ Placed(sift, 0) /\ sift.pc = "idle" /\ sift.q = "reg"
  BY DEF SscdtInit, Idle, Sift, Sifts, Placed, Queues, NoWindow
<1>2. st_binheap \in [Queues -> Seq(Reqs)]
      /\ \A q \in Queues : st_binheap[q] = <<>> /\ Len(st_binheap[q]) = 0
  BY DEF SscdtInit
<1>3. HeapTypeOK
  BY <1>1, <1>2 DEF HeapTypeOK, Heap, Queues, Placed
<1>4. PlainTypeOK
  <2>1. interval \in 0..U32 - 1
    BY IntervalAssumption DEF SscdtInit
  <2> QED BY <2>1 DEF SscdtInit, PlainTypeOK
<1>5. HeapHoldsQueued
  BY <1>2 DEF SscdtInit, HeapHoldsQueued, Content
<1>6. HoldersInv
  BY DEF SscdtInit, HoldersInv, Referrers, Queues, None
<1>7. OrderInv
  <2>1. \A q \in Queues : Ordered(Width, st_binheap[q])
    BY <1>2 DEF Ordered
  <2>2. Idle.pc = "idle"
    BY DEF Idle, Sift
  <2> QED BY <1>1, <2>1, <2>2 DEF OrderInv, Fits
<1>8. WidthInv
  BY IntervalAssumption DEF SscdtInit, WidthInv
<1> QED BY <1>3, <1>4, <1>5, <1>6, <1>7, <1>8, TypeParts DEF SscdtInv

\* Every step of the policy, the NRS core and the heap keeps the invariant.
THEOREM StepInv == SscdtInv /\ [SscdtNext]_sscdtVars => SscdtInv'
<1> SUFFICES ASSUME SscdtInv, [SscdtNext]_sscdtVars PROVE SscdtInv'
  OBVIOUS
<1>1. CASE cfs_binheap_step
  BY <1>1, SiftingStep
<1>2. ASSUME NEW q \in Queues,
             \/ nrs_sscdt_start(q) \/ nrs_policy_stop_locked(q)
             \/ nrs_sscdt_stop(q)
      PROVE  SscdtInv'
  BY <1>2, StartStep, LifeCycleStep
<1>3. ASSUME NEW q \in Queues, NEW opc \in nrs_ctl_sscdt, NEW arg \in Widths,
             nrs_sscdt_ctl(q, opc, arg)
      PROVE  SscdtInv'
  BY <1>3, CtlStep
<1>4. ASSUME NEW q \in Queues, NEW peek \in BOOLEAN, nrs_sscdt_req_get(q, peek)
      PROVE  SscdtInv'
  BY <1>4, GetStep
<1>5. ASSUME NEW q \in Queues, NEW r \in Reqs,
             nrs_sscdt_res_get(r, q) \/ nrs_sscdt_req_add(r, q)
      PROVE  SscdtInv'
  BY <1>5, ResourceStep, AddStep
<1>6. ASSUME NEW r \in Reqs, nrs_resource_put(r) \/ nrs_sscdt_req_del(r)
      PROVE  SscdtInv'
  BY <1>6, ResourceStep, DelStep
<1>7. CASE UNCHANGED sscdtVars
  <2>1. PlainTypeOK /\ HoldersInv
    BY TypeParts DEF SscdtInv
  <2>2. PlainTypeOK' /\ HoldersInv'
    BY <1>7, <2>1 DEF sscdtVars, PlainTypeOK, HoldersInv, Referrers
  <2> QED BY <1>7, <2>2, HolderStep DEF sscdtVars
<1>8. ASSUME NEW r \in Reqs, nrs_sscdt_req_stop(r)
      PROVE  UNCHANGED sscdtVars
  BY <1>8 DEF nrs_sscdt_req_stop
<1> QED BY <1>1, <1>2, <1>3, <1>4, <1>5, <1>6, <1>7, <1>8 DEF SscdtNext

\* The invariant is one of the specification.
THEOREM AlwaysInv == SscdtSpec => []SscdtInv
  BY InitInv, StepInv, PTL DEF SscdtSpec

\* The types of the policy's state: the 32 bits of interval, whatever is written
\* to it, 0 included, and the place that a heap operation has reached.
THEOREM SscdtTypeCorrect == SscdtSpec => []SscdtTypeOK
<1>1. SscdtInv => SscdtTypeOK
  BY DEF SscdtInv
<1> QED BY <1>1, AlwaysInv, PTL

\* No request is lost or kept twice by nrs_sscdt_req_add, nrs_sscdt_req_get and
\* nrs_sscdt_req_del, whatever the comparisons say.
THEOREM NothingLost == SscdtSpec => []HeapHoldsQueued
<1>1. SscdtInv => HeapHoldsQueued
  BY DEF SscdtInv
<1> QED BY <1>1, AlwaysInv, PTL

\* The assertion of nrs_sscdt_stop never fails.
THEOREM StopSafe == SscdtSpec => []StopFindsEmpty
<1>1. SscdtInv => StopFindsEmpty
  BY HeapEmpty DEF SscdtInv, StopFindsEmpty
<1> QED BY <1>1, AlwaysInv, PTL

\* Only nrs_sscdt_req_get takes a queued request away, and it takes the root.
LEMMA TakesRoot ==
  ASSUME SscdtInv, SscdtNext, NEW r \in Reqs, where[r] = "queued", where'[r] = "away"
  PROVE  \E q \in Queues :
           /\ sift.pc = "idle" /\ st_binheap[q] # <<>> /\ r = st_binheap[q][1]
<1>1. PlainTypeOK
  BY TypeParts DEF SscdtInv
<1>2. PICK q \in Queues, peek \in BOOLEAN : nrs_sscdt_req_get(q, peek)
  <2>1. ~cfs_binheap_step
    BY DEF cfs_binheap_step, TimeWindow1, BubbleStep, PickStep, SinkStep,
           DivideByZero
  <2>2. ASSUME NEW q \in Queues
        PROVE  /\ ~nrs_sscdt_start(q) /\ ~nrs_policy_stop_locked(q)
               /\ ~nrs_sscdt_stop(q)
               /\ \A opc \in nrs_ctl_sscdt, arg \in Widths : ~nrs_sscdt_ctl(q, opc, arg)
               /\ \A s \in Reqs : ~nrs_sscdt_res_get(s, q)
    BY DEF nrs_sscdt_start, nrs_policy_stop_locked, nrs_sscdt_stop, nrs_sscdt_ctl,
           nrs_sscdt_res_get
  <2>3. ASSUME NEW q \in Queues, NEW s \in Reqs
        PROVE  ~nrs_sscdt_req_add(s, q)
    BY <1>1 DEF nrs_sscdt_req_add, PlainTypeOK
  <2>4. ASSUME NEW s \in Reqs
        PROVE  /\ ~nrs_resource_put(s) /\ ~nrs_sscdt_req_del(s)
               /\ ~nrs_sscdt_req_stop(s)
    BY <1>1 DEF nrs_resource_put, PutOwn, nrs_sscdt_req_del, nrs_sscdt_req_stop,
                PlainTypeOK, sscdtVars
  <2> QED BY <2>1, <2>2, <2>3, <2>4 DEF SscdtNext
<1>3. ~(peek \/ st_binheap[q] = <<>>)
  BY <1>2 DEF nrs_sscdt_req_get
<1>4. /\ sift.pc = "idle"
      /\ where' = [where EXCEPT ![st_binheap[q][1]] = "away"]
  BY <1>2, <1>3 DEF nrs_sscdt_req_get, Unlocked
<1>5. r = st_binheap[q][1]
  BY <1>1, <1>4 DEF PlainTypeOK
<1> QED BY <1>3, <1>4, <1>5

\* However requests were added, removed and moved, the one that
\* nrs_sscdt_req_get takes is first in the order of sscdt_req_compare, as long
\* as interval is not changed under the heap and is not 0.
THEOREM InOrder == SscdtSpec => ServedInOrder
<1>1. SscdtInv /\ [SscdtNext]_sscdtVars => [TakenFirst]_sscdtVars
  <2> SUFFICES ASSUME SscdtInv, SscdtNext,
                      NEW r \in Reqs, NEW q \in Queues, where[r] = "queued",
                      res[r] = q, where'[r] = "away", steady[q],
                      NEW s \in Content(q)
               PROVE  ~Before(s, r)
    BY DEF TakenFirst
  <2>1. /\ SscdtTypeOK /\ HeapTypeOK /\ PlainTypeOK /\ OrderInv /\ WidthInv
        /\ Holds(st_binheap, where, res)
    BY TypeParts, HeapParts DEF SscdtInv
  <2>2. PICK p \in Queues :
          sift.pc = "idle" /\ st_binheap[p] # <<>> /\ r = st_binheap[p][1]
    BY TakesRoot
  <2>3. st_binheap[p] \in Seq(Reqs) /\ 1 \in 1..Len(st_binheap[p])
    BY <2>1, <2>2 DEF HeapTypeOK
  <2>4. p = q
    <3>1. r \in Elements(st_binheap[p])
      BY <2>2, <2>3 DEF Elements
    <3> QED BY <2>1, <3>1 DEF Holds
  <2>5. Ordered(Width, st_binheap[q])
    BY <2>1, <2>2, IdleOrdered
  <2>6. PICK i \in 1..Len(st_binheap[q]) : s = st_binheap[q][i]
    BY <2>3, <2>4 DEF Content
  <2>7. ~Goes(Width, s, r)
    BY <2>1, <2>2, <2>3, <2>4, <2>5, <2>6, RootFirst, WidthPositive
       DEF PlainTypeOK
  <2>8. Width = interval
    BY <2>1, WidthPositive DEF WidthInv
  <2> QED BY <2>7, <2>8 DEF Before, Goes, time_window, Window
<1> QED BY <1>1, AlwaysInv, PTL DEF SscdtSpec, ServedInOrder
==============================================================================
