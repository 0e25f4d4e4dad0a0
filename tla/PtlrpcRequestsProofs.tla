------------------------- MODULE PtlrpcRequestsProofs ------------------------
(***************************************************************************)
(* Proofs about PtlrpcRequests for every set of requests, whatever their   *)
(* priorities and xids, every number of threads from two on, every ratio   *)
(* of high priority requests, every bound on the intake of a thread and    *)
(* policies that throttle or do not.                                       *)
(***************************************************************************)
EXTENDS PtlrpcRequests, FiniteSetTheorems, SequenceTheorems, TLAPS

Labels == Working \union {"asleep", "wait", "loop", "incoming", "pending",
                          "exit"}

\* Where a thread has no request.
Quiet == {"asleep", "wait", "loop", "incoming", "pending"}

ActiveHigh == {t \in Active : req[t] \in HighPriority}
ActiveNormal == {t \in Active : req[t] \notin HighPriority}

\* Threads between class_export_rpc_inc and class_export_rpc_dec.
Counted == {t \in Threads : pc[t] \in {"handle", "stopped"}}

\* The thread works on the request, which the export lists.
Lists(t, r) == req[t] = r /\ pc[t] \in Working \ {"check"}

Types ==
  /\ RequestTypes
  /\ req \in [Threads -> Requests \union {None}]

\* The counters count.
Counts ==
  /\ scp_nreqs_active = Cardinality(Active)
  /\ scp_nhreqs_active = Cardinality(ActiveHigh)
  /\ exp_rpc_count = Cardinality(Counted)

\* An incoming request is on the list once, and nowhere else.
IncomingInv ==
  /\ \A i, j \in DOMAIN scp_req_incoming :
       scp_req_incoming[i] = scp_req_incoming[j] => i = j
  /\ \A i \in DOMAIN scp_req_incoming :
       /\ scp_req_incoming[i] \notin queued \union exp_rpcs \union done
       /\ \A t \in Threads : req[t] # scp_req_incoming[i]

\* A request that a thread works on is with no other, not queued and not freed.
HeldInv ==
  /\ \A t \in Threads : req[t] # None => req[t] \notin queued \union done
  /\ \A t, u \in Threads : req[t] # None /\ req[t] = req[u] => t = u

\* The export lists what is queued or handled.
ListInv ==
  /\ \A r \in Requests :
       r \in exp_rpcs <=> r \in queued \/ \E t \in Threads : Lists(t, r)
  /\ queued \intersect done = {}

\* All that is queued is with policies that throttle.
Stuck == queued # {} /\ Pending \subseteq Throttles

\* Threads leave only when the service stops, and the purge comes after them.
StopInv ==
  /\ \A t \in Threads : pc[t] = "exit" => srv_is_stopping
  /\ purge # "no" => \A t \in Threads : pc[t] = "exit"
  /\ purge = "done" => scp_req_incoming = <<>> /\ queued = {}
  /\ purge = "oops" => Stuck

\* The inductive invariant.
IInv ==
  /\ Types /\ Counts /\ HpThreadKept /\ IncomingInv /\ HeldInv /\ ListInv
  /\ StopInv

-----------------------------------------------------------------------------
\* Finite sets of threads.
LEMMA SomeThreads ==
  ASSUME NEW S \in SUBSET Threads
  PROVE  /\ IsFiniteSet(S) /\ Cardinality(S) \in Nat
         /\ \A t \in Threads \ S : Cardinality(S \union {t}) = Cardinality(S) + 1
         /\ \A t \in S : Cardinality(S \ {t}) = Cardinality(S) - 1
<1>1. IsFiniteSet(S)
  BY RequestsAssumption, FS_Subset
<1> QED BY <1>1, FS_CardinalityType, FS_AddElement, FS_RemoveElement

\* An active request is of high priority or normal.
LEMMA ActiveSplit ==
  Cardinality(ActiveNormal) = Cardinality(Active) - Cardinality(ActiveHigh)
<1>1. /\ ActiveNormal = Active \ ActiveHigh
      /\ Active \intersect ActiveHigh = ActiveHigh
  BY DEF ActiveNormal, ActiveHigh
<1>2. IsFiniteSet(Active)
  BY SomeThreads DEF Active
<1> QED BY <1>1, <1>2, FS_Difference

\* As long as the service is up, every thread runs.
LEMMA AllRunning ==
  ASSUME StopInv, ~srv_is_stopping
  PROVE  scp_nthrs_running = Cardinality(Threads)
<1>1. {t \in Threads : pc[t] # "exit"} = Threads
  BY DEF StopInv
<1> QED BY <1>1 DEF scp_nthrs_running

\* What wake_up does: at most one thread, which sleeps, runs again.
LEMMA Woken ==
  ASSUME NEW state \in [Threads -> Labels], WakeUp(state)
  PROVE  /\ pc' \in [Threads -> Labels]
         /\ \A t \in Threads : \/ pc'[t] = state[t]
                               \/ state[t] = "asleep" /\ pc'[t] = "wait"
<1>1. CASE \E t \in Threads : state[t] = "asleep"
  <2>1. PICK t \in Threads : /\ state[t] = "asleep"
                             /\ pc' = [state EXCEPT ![t] = "wait"]
    BY <1>1 DEF WakeUp
  <2> QED BY <2>1 DEF Labels
<1>2. CASE ~(\E t \in Threads : state[t] = "asleep")
  BY <1>2 DEF WakeUp
<1> QED BY <1>1, <1>2

\* The first request of a list without repetitions leaves it.
LEMMA TailLeaves ==
  ASSUME NEW s \in Seq(Requests), s # <<>>,
         \A i, j \in DOMAIN s : s[i] = s[j] => i = j
  PROVE  /\ Head(s) \in Requests /\ Tail(s) \in Seq(Requests)
         /\ \E j \in DOMAIN s : Head(s) = s[j]
         /\ \A i \in DOMAIN Tail(s) : /\ \E j \in DOMAIN s : Tail(s)[i] = s[j]
                                      /\ Tail(s)[i] # Head(s)
         /\ \A i, j \in DOMAIN Tail(s) : Tail(s)[i] = Tail(s)[j] => i = j
<1>1. /\ Len(s) \in Nat \ {0} /\ DOMAIN s = 1 .. Len(s)
      /\ Head(s) = s[1] /\ 1 \in DOMAIN s
  BY EmptySeq, LenProperties
<1>2. /\ Tail(s) \in Seq(Requests) /\ DOMAIN Tail(s) = 1 .. (Len(s) - 1)
      /\ \A i \in 1 .. (Len(s) - 1) : Tail(s)[i] = s[i + 1]
  BY HeadTailProperties
<1>3. Head(s) \in Requests
  BY <1>1, ElementOfSeq
<1>4. \A i \in DOMAIN Tail(s) : i + 1 \in DOMAIN s /\ i + 1 # 1 /\ i \in Int
  BY <1>1, <1>2
<1>5. \A i \in DOMAIN Tail(s) : /\ \E j \in DOMAIN s : Tail(s)[i] = s[j]
                                /\ Tail(s)[i] # Head(s)
  BY <1>1, <1>2, <1>4
<1>6. ASSUME NEW i \in DOMAIN Tail(s), NEW j \in DOMAIN Tail(s),
             Tail(s)[i] = Tail(s)[j]
      PROVE  i = j
  <2>1. i + 1 = j + 1
    BY <1>2, <1>4, <1>6
  <2> QED BY <1>4, <2>1
<1> QED BY <1>1, <1>2, <1>3, <1>5, <1>6

\* The intake counter stays within its bound, and a thread goes on to wait or
\* to fetch.
LEMMA IntakeCounted ==
  ASSUME Types, NEW t \in Threads
  PROVE  /\ AfterIncoming(t) \in {"wait", "pending"}
         /\ CountIncoming(t) => counter' \in [Threads -> 0 .. Flood]
<1>1. AfterIncoming(t) \in {"wait", "pending"}
  BY DEF AfterIncoming
<1>2. ASSUME CountIncoming(t) PROVE counter' \in [Threads -> 0 .. Flood]
  <2>1. counter[t] \in 0 .. Flood
    BY DEF Types, RequestTypes
  <2>2. (IF counter[t] < Flood THEN counter[t] + 1 ELSE 0) \in 0 .. Flood
    BY <2>1, RequestsAssumption
  <2> QED BY <1>2, <2>2 DEF CountIncoming, Types, RequestTypes
<1> QED BY <1>1, <1>2

\* A thread that works holds a request, another none; and a thread that has
\* not left knows that the purge has not begun.
LEMMA ThreadFacts ==
  ASSUME IInv, NEW t \in Threads
  PROVE  /\ pc[t] \in Working => req[t] \in Requests /\ req[t] # None
         /\ pc[t] \notin Working => req[t] = None
         /\ pc[t] # "exit" => purge = "no"
<1>1. req[t] \in IF pc[t] \in Working THEN Requests ELSE {None}
  BY DEF IInv, Types, RequestTypes
<1>2. pc[t] # "exit" => purge = "no"
  BY DEF IInv, StopInv
<1> QED BY <1>1, <1>2, RequestsAssumption

LEMMA InitIInv == Init => IInv
<1> SUFFICES ASSUME Init PROVE IInv
  OBVIOUS
<1>1. Types
  <2>1. /\ pc \in [Threads -> Labels] /\ req \in [Threads -> Requests \union {None}]
        /\ \A t \in Threads : pc[t] \notin Working /\ req[t] = None
    BY DEF Init, Labels, Working
  <2>2. counter \in [Threads -> 0 .. Flood]
    BY RequestsAssumption DEF Init
  <2>3. /\ scp_req_incoming \in Seq(Requests) /\ queued \subseteq Requests
        /\ scp_nreqs_active \in Nat /\ scp_nhreqs_active \in Nat
        /\ scp_hreq_count \in Nat /\ exp_rpcs \subseteq Requests
        /\ exp_rpc_count \in Nat /\ done \subseteq Requests
        /\ srv_is_stopping \in BOOLEAN /\ purge \in {"no", "purging", "done", "oops"}
    <3>1. scp_req_incoming \in Seq(Requests)
      BY EmptySeq DEF Init
    <3> QED BY <3>1 DEF Init
  <2> QED BY <2>1, <2>2, <2>3 DEF Types, RequestTypes, Labels
<1>2. Active = {} /\ ActiveHigh = {} /\ ActiveNormal = {} /\ Counted = {}
  BY DEF Init, Active, ActiveHigh, ActiveNormal, Counted
<1>3. Cardinality({}) = 0 /\ Cardinality(Threads) \in Nat
  BY FS_EmptySet, FS_CardinalityType, RequestsAssumption
<1>4. Counts
  BY <1>2, <1>3 DEF Init, Counts
<1>5. HpThreadKept
  BY <1>2, <1>3, RequestsAssumption DEF HpThreadKept, ActiveNormal
<1>6. IncomingInv /\ HeldInv /\ ListInv /\ StopInv
  BY DEF Init, IncomingInv, HeldInv, ListInv, StopInv, Lists, Working
<1> QED BY <1>1, <1>4, <1>5, <1>6 DEF IInv

-----------------------------------------------------------------------------
(* Steps that move no request. *)

LEMMA QuietKeeps ==
  ASSUME IInv, pc' \in [Threads -> Labels],
         \A t \in Threads :
           \/ pc'[t] = pc[t]
           \/ pc[t] \in Quiet /\ pc'[t] \in Quiet
           \/ pc[t] \in Quiet /\ pc'[t] = "exit" /\ srv_is_stopping,
         counter' \in [Threads -> 0 .. Flood],
         srv_is_stopping' \in BOOLEAN, srv_is_stopping => srv_is_stopping',
         purge' \in {"no", "purging", "done", "oops"},
         purge' # "no" => \A t \in Threads : pc'[t] = "exit",
         purge' = "done" => scp_req_incoming = <<>> /\ queued = {},
         purge' = "oops" => Stuck,
         UNCHANGED <<queueVars, activeVars, exportVars, done, req>>
  PROVE  IInv'
<1>u. UNCHANGED <<scp_req_incoming, queued, scp_nreqs_active,
                  scp_nhreqs_active, scp_hreq_count, exp_rpcs, exp_rpc_count,
                  done, req>>
  BY DEF queueVars, activeVars, exportVars
<1>q. \A t \in Threads : /\ pc'[t] \in Working <=> pc[t] \in Working
                         /\ pc[t] \in Working => pc'[t] = pc[t]
  BY DEF Quiet, Working
<1>s. Active' = Active /\ ActiveHigh' = ActiveHigh /\ Counted' = Counted
  BY <1>u, <1>q DEF Active, ActiveHigh, Counted, Working
<1>1. Types'
  <2>1. \A t \in Threads : req'[t] \in IF pc'[t] \in Working THEN Requests ELSE {None}
    BY <1>u, <1>q DEF IInv, Types, RequestTypes
  <2> QED BY <1>u, <2>1 DEF IInv, Types, RequestTypes, Labels
<1>2. Counts'
  BY <1>u, <1>s DEF IInv, Counts
<1>3. HpThreadKept'
  BY <1>u, <1>s DEF IInv, HpThreadKept
<1>4. IncomingInv' /\ HeldInv'
  BY <1>u DEF IInv, IncomingInv, HeldInv
<1>5. ListInv'
  <2>1. \A t \in Threads, r \in Requests : Lists(t, r)' <=> Lists(t, r)
    BY <1>u, <1>q DEF Lists
  <2> QED BY <1>u, <2>1 DEF IInv, ListInv
<1>6. StopInv'
  <2>1. Stuck' <=> Stuck
    BY <1>u DEF Stuck, Pending, Queue
  <2> QED BY <1>u, <2>1 DEF IInv, StopInv, Quiet
<1> QED BY <1>1, <1>2, <1>3, <1>4, <1>5, <1>6 DEF IInv

\* The same for a step of one thread.
LEMMA QuietThreadKeeps ==
  ASSUME IInv, NEW t \in Threads, pc[t] \in Quiet,
         NEW l \in Quiet \union {"exit"}, l = "exit" => srv_is_stopping,
         pc' = [pc EXCEPT ![t] = l],
         counter' \in [Threads -> 0 .. Flood],
         UNCHANGED <<queueVars, activeVars, exportVars, done, req,
                     srv_is_stopping, purge>>
  PROVE  IInv'
<1>1. pc \in [Threads -> Labels] /\ l \in Labels
  BY DEF IInv, Types, RequestTypes, Labels, Quiet
<1>2. pc' \in [Threads -> Labels]
  BY <1>1
<1>3. \A u \in Threads :
        \/ pc'[u] = pc[u]
        \/ pc[u] \in Quiet /\ pc'[u] \in Quiet
        \/ pc[u] \in Quiet /\ pc'[u] = "exit" /\ srv_is_stopping
  BY <1>1
<1>4. purge = "no"
  BY ThreadFacts DEF Quiet
<1>5. srv_is_stopping \in BOOLEAN
  BY DEF IInv, Types, RequestTypes
<1> QED BY <1>2, <1>3, <1>4, <1>5, QuietKeeps

LEMMA QuietStepsKeep ==
  ASSUME IInv, NEW t \in Threads,
         \/ ptlrpc_wait_event(t)
         \/ ptlrpc_server_request_incoming(t)
         \/ ReqInNothing(t)
         \/ RequestGetNothing(t)
  PROVE  IInv'
<1>c. counter \in [Threads -> 0 .. Flood]
  BY DEF IInv, Types, RequestTypes
<1>1. CASE ptlrpc_wait_event(t)
  <2> DEFINE l == IF srv_is_stopping THEN "exit"
                  ELSE IF \/ scp_req_incoming # <<>>
                          \/ ptlrpc_server_high_pending # {}
                          \/ ptlrpc_server_normal_pending # {} THEN "loop"
                  ELSE "asleep"
  <2>1. /\ pc[t] \in Quiet /\ pc' = [pc EXCEPT ![t] = l]
        /\ UNCHANGED <<queueVars, activeVars, exportVars, done, req, counter,
                       srv_is_stopping, purge>>
    BY <1>1 DEF ptlrpc_wait_event, Quiet
  <2>2. l \in Quiet \union {"exit"} /\ (l = "exit" => srv_is_stopping)
    BY DEF Quiet
  <2> HIDE DEF l
  <2> QED BY <1>c, <2>1, <2>2, QuietThreadKeeps
<1>2. CASE ptlrpc_server_request_incoming(t)
  <2> DEFINE l == IF scp_req_incoming # <<>> THEN "incoming" ELSE "pending"
  <2>1. /\ pc[t] \in Quiet /\ pc' = [pc EXCEPT ![t] = l]
        /\ UNCHANGED <<queueVars, activeVars, exportVars, done, req, counter,
                       srv_is_stopping, purge>>
    BY <1>2 DEF ptlrpc_server_request_incoming, Quiet
  <2>2. l \in Quiet \union {"exit"} /\ l # "exit"
    BY DEF Quiet
  <2> HIDE DEF l
  <2> QED BY <1>c, <2>1, <2>2, QuietThreadKeeps
<1>3. CASE ReqInNothing(t)
  <2>1. /\ pc[t] \in Quiet /\ pc' = [pc EXCEPT ![t] = AfterIncoming(t)]
        /\ CountIncoming(t)
        /\ UNCHANGED <<queueVars, activeVars, exportVars, done, req,
                       srv_is_stopping, purge>>
    BY <1>3 DEF ReqInNothing, Quiet
  <2>2. /\ AfterIncoming(t) \in {"wait", "pending"}
        /\ counter' \in [Threads -> 0 .. Flood]
    BY <2>1, IntakeCounted DEF IInv
  <2>3. AfterIncoming(t) \in Quiet \union {"exit"} /\ AfterIncoming(t) # "exit"
    BY <2>2 DEF Quiet
  <2> QED BY <2>1, <2>2, <2>3, QuietThreadKeeps
<1>4. CASE RequestGetNothing(t)
  <2>1. /\ pc[t] \in Quiet /\ pc' = [pc EXCEPT ![t] = "wait"]
        /\ UNCHANGED <<queueVars, activeVars, exportVars, done, req, counter,
                       srv_is_stopping, purge>>
    BY <1>4 DEF RequestGetNothing, Quiet
  <2>2. "wait" \in Quiet \union {"exit"}
    BY DEF Quiet
  <2> QED BY <1>c, <2>1, <2>2, QuietThreadKeeps
<1> QED BY <1>1, <1>2, <1>3, <1>4

LEMMA ServiceStepsKeep ==
  ASSUME IInv, \/ ptlrpc_unregister_service
               \/ PurgeBegin
               \/ PurgeNull
               \/ PurgeEnd
               \/ \E q \in Throttles : nrs_tbf_timer_cb(q)
               \/ UNCHANGED vars
  PROVE  IInv'
<1>t. /\ pc \in [Threads -> Labels] /\ counter \in [Threads -> 0 .. Flood]
      /\ srv_is_stopping \in BOOLEAN /\ purge \in {"no", "purging", "done", "oops"}
      /\ purge # "no" => \A t \in Threads : pc[t] = "exit"
      /\ purge = "done" => scp_req_incoming = <<>> /\ queued = {}
      /\ purge = "oops" => Stuck
  BY DEF IInv, Types, RequestTypes, Labels, StopInv
<1>1. CASE ptlrpc_unregister_service
  <2>1. /\ pc' = [t \in Threads |-> IF pc[t] = "asleep" THEN "wait" ELSE pc[t]]
        /\ srv_is_stopping'
        /\ srv_is_stopping' = TRUE
        /\ UNCHANGED <<queueVars, activeVars, exportVars, done, req, counter,
                       purge>>
    BY <1>1 DEF ptlrpc_unregister_service
  <2>2. /\ pc' \in [Threads -> Labels]
        /\ \A t \in Threads : \/ pc'[t] = pc[t]
                              \/ pc[t] \in Quiet /\ pc'[t] \in Quiet
        /\ \A t \in Threads : pc[t] = "exit" => pc'[t] = "exit"
    BY <1>t, <2>1 DEF Labels, Quiet
  <2> QED BY <1>t, <2>1, <2>2, QuietKeeps
<1>2. CASE \/ PurgeBegin \/ PurgeNull \/ PurgeEnd
           \/ \E q \in Throttles : nrs_tbf_timer_cb(q)
           \/ UNCHANGED vars
  <2>1. UNCHANGED <<queueVars, activeVars, exportVars, done, req, pc, counter,
                    srv_is_stopping>>
    BY <1>2 DEF PurgeBegin, PurgeNull, PurgeEnd, nrs_tbf_timer_cb, threadVars,
                  vars
  <2>2. /\ purge' \in {"no", "purging", "done", "oops"}
        /\ purge' # "no" => \A t \in Threads : pc[t] = "exit"
        /\ purge' = "done" => scp_req_incoming = <<>> /\ queued = {}
        /\ purge' = "oops" => Stuck
    BY <1>2, <1>t DEF PurgeBegin, PurgeNull, PurgeEnd, nrs_tbf_timer_cb,
                      ptlrpc_nrs_req_get_null, Stuck, vars
  <2> QED BY <1>t, <2>1, <2>2, QuietKeeps
<1> QED BY <1>1, <1>2

\* The second half of the timer callback.
LEMMA TimerWakesKeeps ==
  ASSUME IInv, NEW q \in Throttles, TimerWakes(q)
  PROVE  IInv'
<1>1. /\ WakeUp(pc)
      /\ UNCHANGED <<queueVars, activeVars, exportVars, done, req, counter,
                     srv_is_stopping, purge>>
  BY DEF TimerWakes
<1>2. /\ pc \in [Threads -> Labels] /\ counter \in [Threads -> 0 .. Flood]
      /\ srv_is_stopping \in BOOLEAN
      /\ purge \in {"no", "purging", "done", "oops"}
      /\ purge # "no" => \A t \in Threads : pc[t] = "exit"
      /\ purge = "done" => scp_req_incoming = <<>> /\ queued = {}
      /\ purge = "oops" => Stuck
  BY DEF IInv, Types, RequestTypes, Labels, StopInv
<1>3. /\ pc' \in [Threads -> Labels]
      /\ \A t \in Threads : \/ pc'[t] = pc[t]
                            \/ pc[t] = "asleep" /\ pc'[t] = "wait"
  BY <1>1, <1>2, Woken
<1>4. /\ \A t \in Threads : \/ pc'[t] = pc[t]
                            \/ pc[t] \in Quiet /\ pc'[t] \in Quiet
      /\ \A t \in Threads : pc[t] = "exit" => pc'[t] = "exit"
  BY <1>3 DEF Quiet
<1> QED BY <1>1, <1>2, <1>3, <1>4, QuietKeeps

-----------------------------------------------------------------------------
(* The intake. *)

LEMMA ArrivalKeeps ==
  ASSUME IInv, NEW r \in Requests, request_in_callback(r)
  PROVE  IInv'
<1>u. /\ purge = "no" /\ ~Arrived(r)
      /\ scp_req_incoming' = Append(scp_req_incoming, r)
      /\ WakeUp(pc)
      /\ UNCHANGED <<queued, scp_nreqs_active, scp_nhreqs_active,
                     scp_hreq_count, exp_rpcs, exp_rpc_count, done, req,
                     counter, srv_is_stopping, purge>>
  BY DEF request_in_callback, activeVars, exportVars
<1>p. pc \in [Threads -> Labels] /\ scp_req_incoming \in Seq(Requests)
  BY DEF IInv, Types, RequestTypes, Labels
<1>w. /\ pc' \in [Threads -> Labels]
      /\ \A t \in Threads : \/ pc'[t] = pc[t]
                            \/ pc[t] = "asleep" /\ pc'[t] = "wait"
  BY <1>u, <1>p, Woken
<1>q. \A t \in Threads : /\ pc'[t] \in Working <=> pc[t] \in Working
                         /\ pc[t] \in Working => pc'[t] = pc[t]
  BY <1>w DEF Working
<1>a. /\ scp_req_incoming' \in Seq(Requests)
      /\ \A i \in DOMAIN scp_req_incoming' :
           \/ i \in DOMAIN scp_req_incoming /\ scp_req_incoming'[i] = scp_req_incoming[i]
           \/ i = Len(scp_req_incoming) + 1 /\ scp_req_incoming'[i] = r
  <2>1. /\ Append(scp_req_incoming, r) \in Seq(Requests)
        /\ Len(Append(scp_req_incoming, r)) = Len(scp_req_incoming) + 1
        /\ \A i \in 1 .. Len(scp_req_incoming) :
             Append(scp_req_incoming, r)[i] = scp_req_incoming[i]
        /\ Append(scp_req_incoming, r)[Len(scp_req_incoming) + 1] = r
    BY <1>p, AppendProperties
  <2>2. /\ Len(scp_req_incoming) \in Nat
        /\ DOMAIN scp_req_incoming = 1 .. Len(scp_req_incoming)
        /\ DOMAIN Append(scp_req_incoming, r) = 1 .. (Len(scp_req_incoming) + 1)
    BY <1>p, <2>1, LenProperties
  <2> QED BY <1>u, <2>1, <2>2
<1>s. Active' = Active /\ ActiveHigh' = ActiveHigh /\ Counted' = Counted
  BY <1>u, <1>q DEF Active, ActiveHigh, Counted, Working
<1>1. Types'
  <2>1. \A t \in Threads : req'[t] \in IF pc'[t] \in Working THEN Requests ELSE {None}
    BY <1>u, <1>q DEF IInv, Types, RequestTypes
  <2> QED BY <1>u, <1>a, <1>w, <2>1 DEF IInv, Types, RequestTypes, Labels
<1>2. Counts' /\ HpThreadKept'
  BY <1>u, <1>s DEF IInv, Counts, HpThreadKept, ActiveNormal
<1>3. IncomingInv'
  <2>1. /\ r \notin queued \union exp_rpcs \union done
        /\ \A t \in Threads : req[t] # r
        /\ \A i \in DOMAIN scp_req_incoming : scp_req_incoming[i] # r
    BY <1>u DEF Arrived
  <2> QED BY <1>u, <1>a, <2>1 DEF IInv, IncomingInv
<1>4. HeldInv'
  BY <1>u DEF IInv, HeldInv
<1>5. ListInv'
  <2>1. \A t \in Threads, q \in Requests : Lists(t, q)' <=> Lists(t, q)
    BY <1>u, <1>q DEF Lists
  <2> QED BY <1>u, <2>1 DEF IInv, ListInv
<1>6. StopInv'
  BY <1>u, <1>w DEF IInv, StopInv
<1> QED BY <1>1, <1>2, <1>3, <1>4, <1>5, <1>6 DEF IInv

LEMMA ReqInKeeps ==
  ASSUME IInv, NEW t \in Threads, ptlrpc_server_handle_req_in(t)
  PROVE  IInv'
<1>a. /\ pc[t] = "incoming" /\ scp_req_incoming # <<>>
      /\ scp_req_incoming' = Tail(scp_req_incoming)
      /\ req' = [req EXCEPT ![t] = Head(scp_req_incoming)]
      /\ pc' = [pc EXCEPT ![t] = "check"]
      /\ UNCHANGED <<queued, scp_nreqs_active, scp_nhreqs_active,
                     scp_hreq_count, exp_rpcs, exp_rpc_count, done,
                     counter, srv_is_stopping, purge>>
  BY DEF ptlrpc_server_handle_req_in, activeVars, exportVars
<1>b. /\ Head(scp_req_incoming) \in Requests
      /\ scp_req_incoming' \in Seq(Requests)
      /\ \E j \in DOMAIN scp_req_incoming : Head(scp_req_incoming) = scp_req_incoming[j]
      /\ \A i \in DOMAIN scp_req_incoming' :
           /\ \E j \in DOMAIN scp_req_incoming : scp_req_incoming'[i] = scp_req_incoming[j]
           /\ scp_req_incoming'[i] # Head(scp_req_incoming)
      /\ \A i, j \in DOMAIN scp_req_incoming' :
           scp_req_incoming'[i] = scp_req_incoming'[j] => i = j
  <2>1. /\ scp_req_incoming \in Seq(Requests)
        /\ \A i, j \in DOMAIN scp_req_incoming :
             scp_req_incoming[i] = scp_req_incoming[j] => i = j
    BY DEF IInv, Types, RequestTypes, IncomingInv
  <2> QED BY <1>a, <2>1, TailLeaves
<1>r. PICK r \in Requests : r = Head(scp_req_incoming)
  BY <1>b
<1>f. /\ r \notin queued \union exp_rpcs \union done
      /\ \A u \in Threads : req[u] # r
      /\ purge = "no" /\ r # None
  BY <1>a, <1>b, <1>r, ThreadFacts, RequestsAssumption DEF IInv, IncomingInv
<1>o. /\ \A u \in Threads : u # t => pc'[u] = pc[u] /\ req'[u] = req[u]
      /\ pc'[t] = "check" /\ req'[t] = r
  BY <1>a, <1>r DEF IInv, Types, RequestTypes
<1>s. /\ Active' = Active /\ ActiveHigh' = ActiveHigh
      /\ ActiveNormal' = ActiveNormal /\ Counted' = Counted
  BY <1>a, <1>o DEF Active, ActiveHigh, ActiveNormal, Counted
<1>1. Types'
  <2>1. \A u \in Threads : req'[u] \in IF pc'[u] \in Working THEN Requests ELSE {None}
    BY <1>o DEF IInv, Types, RequestTypes, Working
  <2>2. /\ pc' \in [Threads -> Labels] /\ req' \in [Threads -> Requests \union {None}]
    BY <1>a, <1>b DEF IInv, Types, RequestTypes, Labels, Working
  <2> QED BY <1>a, <1>b, <2>1, <2>2 DEF IInv, Types, RequestTypes, Labels
<1>2. Counts' /\ HpThreadKept'
  BY <1>a, <1>s DEF IInv, Counts, HpThreadKept, ActiveNormal
<1>3. IncomingInv'
  BY <1>a, <1>b, <1>r, <1>o DEF IInv, IncomingInv
<1>4. HeldInv'
  BY <1>a, <1>o, <1>f DEF IInv, HeldInv
<1>5. ListInv'
  <2>1. \A u \in Threads, q \in Requests : Lists(u, q)' <=> Lists(u, q)
    BY <1>a, <1>o DEF Lists, Working
  <2> QED BY <1>a, <2>1 DEF IInv, ListInv
<1>6. StopInv'
  BY <1>a, <1>o, <1>f DEF IInv, StopInv
<1> QED BY <1>1, <1>2, <1>3, <1>4, <1>5, <1>6 DEF IInv

\* A thread gives up its request, which is not active any more and freed or
\* queued: what both ends of a request and its way into the queues share.
LEMMA LeaveKeeps ==
  ASSUME IInv, NEW t \in Threads, pc[t] \in {"check", "add", "fini"},
         req' = [req EXCEPT ![t] = None],
         pc' \in [Threads -> Labels], pc'[t] \in {"wait", "pending"},
         \A u \in Threads : \/ u = t
                            \/ pc'[u] = pc[u]
                            \/ pc[u] = "asleep" /\ pc'[u] = "wait",
         counter' \in [Threads -> 0 .. Flood],
         \/ /\ queued' = queued /\ done' = done \union {req[t]}
            /\ exp_rpcs' = exp_rpcs \ {req[t]}
         \/ /\ queued' = queued \union {req[t]} /\ done' = done
            /\ exp_rpcs' = exp_rpcs /\ pc[t] = "add",
         UNCHANGED <<scp_req_incoming, activeVars, exp_rpc_count,
                     srv_is_stopping, purge>>
  PROVE  IInv'
<1>r. PICK r \in Requests : r = req[t]
  BY ThreadFacts DEF Working
<1>u. UNCHANGED <<scp_req_incoming, scp_nreqs_active, scp_nhreqs_active,
                  scp_hreq_count, exp_rpc_count, srv_is_stopping, purge>>
  BY DEF activeVars
<1>f. /\ purge = "no" /\ r # None /\ r \notin queued \union done
      /\ \A u \in Threads : u # t => req[u] # r
      /\ \A i \in DOMAIN scp_req_incoming : scp_req_incoming[i] # r
      /\ pc[t] = "add" => r \in exp_rpcs
  <2>1. purge = "no" /\ r # None
    BY ThreadFacts, RequestsAssumption
  <2>2. /\ r \notin queued \union done
        /\ \A u \in Threads : u # t => req[u] # r
        /\ \A i \in DOMAIN scp_req_incoming : scp_req_incoming[i] # r
    BY <1>r, <2>1 DEF IInv, HeldInv, IncomingInv
  <2>3. pc[t] = "add" => r \in exp_rpcs
    BY <1>r DEF IInv, ListInv, Lists, Working
  <2> QED BY <2>1, <2>2, <2>3
<1>o. /\ \A u \in Threads : u # t =>
           /\ req'[u] = req[u]
           /\ pc'[u] \in Working <=> pc[u] \in Working
           /\ pc[u] \in Working => pc'[u] = pc[u]
      /\ req'[t] = None /\ pc'[t] \notin Working
      /\ req' \in [Threads -> Requests \union {None}]
  BY DEF IInv, Types, RequestTypes, Working
<1>s. /\ Active' = Active /\ ActiveHigh' = ActiveHigh
      /\ ActiveNormal' = ActiveNormal /\ Counted' = Counted
  BY <1>o DEF Active, ActiveHigh, ActiveNormal, Counted, Working
<1>l. \A u \in Threads, q \in Requests : Lists(u, q)' <=> Lists(u, q) /\ u # t
  BY <1>o, RequestsAssumption DEF Lists
<1>q. /\ queued' \subseteq queued \union {r} /\ done' \subseteq done \union {r}
      /\ exp_rpcs' \subseteq exp_rpcs
      /\ queued \union done \subseteq queued' \union done'
  BY <1>r
<1>1. Types'
  <2>1. \A u \in Threads : req'[u] \in IF pc'[u] \in Working THEN Requests ELSE {None}
    BY <1>o DEF IInv, Types, RequestTypes
  <2>2. queued' \subseteq Requests /\ done' \subseteq Requests /\ exp_rpcs' \subseteq Requests
    BY <1>q DEF IInv, Types, RequestTypes
  <2> QED BY <1>u, <1>o, <2>1, <2>2 DEF IInv, Types, RequestTypes, Labels
<1>2. Counts'
  BY <1>u, <1>s DEF IInv, Counts
<1>7. HpThreadKept'
  <2>1. /\ HpThreadKept' <=> (~srv_is_stopping' =>
             /\ Cardinality(Active') <= Cardinality(Threads) - 1
             /\ HasHp => Cardinality(ActiveNormal') <= Cardinality(Threads) - 2)
        /\ HpThreadKept <=> (~srv_is_stopping =>
             /\ Cardinality(Active) <= Cardinality(Threads) - 1
             /\ HasHp => Cardinality(ActiveNormal) <= Cardinality(Threads) - 2)
    BY DEF HpThreadKept, ActiveNormal
  <2> QED BY <1>u, <1>s, <2>1 DEF IInv
<1>3. IncomingInv'
  <2>1. \A i \in DOMAIN scp_req_incoming :
          /\ scp_req_incoming[i] \notin queued' \union exp_rpcs' \union done'
          /\ \A u \in Threads : req'[u] # scp_req_incoming[i]
    <3>1. \A i \in DOMAIN scp_req_incoming : scp_req_incoming[i] # None
      <4>1. scp_req_incoming \in Seq(Requests)
        BY DEF IInv, Types, RequestTypes
      <4>2. \A i \in DOMAIN scp_req_incoming : scp_req_incoming[i] \in Requests
        BY <4>1, ElementOfSeq, LenProperties
      <4> QED BY <4>2, RequestsAssumption
    <3> QED BY <1>f, <1>q, <1>o, <3>1 DEF IInv, IncomingInv
  <2> QED BY <1>u, <2>1 DEF IInv, IncomingInv
<1>4. HeldInv'
  BY <1>f, <1>q, <1>o DEF IInv, HeldInv
<1>5. ListInv'
  <2>1. \A q \in Requests : q # r =>
          /\ q \in exp_rpcs' <=> q \in exp_rpcs
          /\ q \in queued' <=> q \in queued
          /\ \A u \in Threads : Lists(u, q)' <=> Lists(u, q)
    BY <1>r, <1>l DEF Lists
  <2>2. /\ r \in exp_rpcs' <=> r \in queued'
        /\ \A u \in Threads : ~Lists(u, r)'
    BY <1>r, <1>f, <1>l DEF Lists
  <2>3. queued' \intersect done' = {}
    BY <1>r, <1>f DEF IInv, ListInv
  <2> QED BY <2>1, <2>2, <2>3 DEF IInv, ListInv
<1>6. StopInv'
  BY <1>u, <1>f, <1>o DEF IInv, StopInv
<1> QED BY <1>1, <1>2, <1>3, <1>4, <1>5, <1>6, <1>7 DEF IInv

LEMMA DroppedKeeps ==
  ASSUME IInv, NEW t \in Threads, ReqInDropped(t)
  PROVE  IInv'
<1>1. /\ pc[t] = "check" /\ CountIncoming(t)
      /\ req' = [req EXCEPT ![t] = None]
      /\ pc' = [pc EXCEPT ![t] = AfterIncoming(t)]
      /\ queued' = queued /\ done' = done \union {req[t]}
      /\ exp_rpcs' = exp_rpcs \ {req[t]}
      /\ UNCHANGED <<scp_req_incoming, activeVars, exp_rpc_count,
                     srv_is_stopping, purge>>
  BY DEF ReqInDropped, queueVars
<1>2. /\ AfterIncoming(t) \in {"wait", "pending"}
      /\ counter' \in [Threads -> 0 .. Flood]
  BY <1>1, IntakeCounted DEF IInv
<1>3. /\ pc' \in [Threads -> Labels] /\ pc'[t] \in {"wait", "pending"}
      /\ \A u \in Threads : u = t \/ pc'[u] = pc[u]
  BY <1>1, <1>2 DEF IInv, Types, RequestTypes, Labels
<1> QED BY <1>1, <1>2, <1>3, LeaveKeeps

LEMMA NrsAddKeeps ==
  ASSUME IInv, NEW t \in Threads, NrsReqAdd(t)
  PROVE  IInv'
<1>1. /\ pc[t] = "add" /\ CountIncoming(t)
      /\ req' = [req EXCEPT ![t] = None]
      /\ WakeUp([pc EXCEPT ![t] = AfterIncoming(t)])
      /\ queued' = queued \union {req[t]} /\ done' = done
      /\ exp_rpcs' = exp_rpcs
      /\ UNCHANGED <<scp_req_incoming, activeVars, exp_rpc_count,
                     srv_is_stopping, purge>>
  BY DEF NrsReqAdd, exportVars
<1>2. /\ AfterIncoming(t) \in {"wait", "pending"}
      /\ counter' \in [Threads -> 0 .. Flood]
  BY <1>1, IntakeCounted DEF IInv
<1> DEFINE state == [pc EXCEPT ![t] = AfterIncoming(t)]
<1>3. /\ state \in [Threads -> Labels] /\ state[t] \in {"wait", "pending"}
      /\ \A u \in Threads : u = t \/ state[u] = pc[u]
  BY <1>2 DEF IInv, Types, RequestTypes, Labels
<1>4. /\ pc' \in [Threads -> Labels]
      /\ \A u \in Threads : \/ pc'[u] = state[u]
                            \/ state[u] = "asleep" /\ pc'[u] = "wait"
  <2>1. WakeUp(state)
    BY <1>1
  <2> HIDE DEF state
  <2> QED BY <2>1, <1>3, Woken
<1>5. /\ pc'[t] \in {"wait", "pending"}
      /\ \A u \in Threads : \/ u = t
                            \/ pc'[u] = pc[u]
                            \/ pc[u] = "asleep" /\ pc'[u] = "wait"
  <2> HIDE DEF state
  <2> QED BY <1>3, <1>4
<1> HIDE DEF state
<1> QED BY <1>1, <1>2, <1>4, <1>5, LeaveKeeps

LEMMA FinishKeeps ==
  ASSUME IInv, NEW t \in Threads, ptlrpc_server_finish_request(t)
  PROVE  IInv'
<1>1. /\ pc[t] = "fini"
      /\ req' = [req EXCEPT ![t] = None]
      /\ pc' = [pc EXCEPT ![t] = "wait"]
      /\ queued' = queued /\ done' = done \union {req[t]}
      /\ exp_rpcs' = exp_rpcs \ {req[t]}
      /\ UNCHANGED <<scp_req_incoming, activeVars, exp_rpc_count, counter,
                     srv_is_stopping, purge>>
  BY DEF ptlrpc_server_finish_request, queueVars
<1>2. counter' \in [Threads -> 0 .. Flood]
  BY <1>1 DEF IInv, Types, RequestTypes
<1>3. /\ pc' \in [Threads -> Labels] /\ pc'[t] \in {"wait", "pending"}
      /\ \A u \in Threads : u = t \/ pc'[u] = pc[u]
  BY <1>1 DEF IInv, Types, RequestTypes, Labels
<1> QED BY <1>1, <1>2, <1>3, LeaveKeeps

\* A thread goes from one step of its work on a request to the next.
LEMMA WorkKeeps ==
  ASSUME IInv, NEW t \in Threads, pc[t] \in Working,
         NEW l \in Working \ {"check"},
         pc' = [pc EXCEPT ![t] = l],
         exp_rpcs' = exp_rpcs \union {req[t]},
         Counts', HpThreadKept',
         scp_nreqs_active' \in Nat, scp_nhreqs_active' \in Nat, exp_rpc_count' \in Nat,
         UNCHANGED <<queueVars, scp_hreq_count, done, req, counter,
                     srv_is_stopping, purge>>
  PROVE  IInv'
<1>r. PICK r \in Requests : r = req[t]
  BY ThreadFacts
<1>f. purge = "no" /\ r # None
  BY ThreadFacts, RequestsAssumption DEF Working
<1>u. UNCHANGED <<scp_req_incoming, queued, scp_hreq_count, done, req,
                  counter, srv_is_stopping, purge>>
  BY DEF queueVars
<1>o. /\ \A u \in Threads : u # t => pc'[u] = pc[u]
      /\ pc'[t] = l /\ pc' \in [Threads -> Labels]
  BY DEF IInv, Types, RequestTypes, Labels
<1>1. Types'
  <2>1. \A u \in Threads : req'[u] \in IF pc'[u] \in Working THEN Requests ELSE {None}
    BY <1>u, <1>o, <1>r DEF IInv, Types, RequestTypes
  <2>2. exp_rpcs' \subseteq Requests
    BY <1>r DEF IInv, Types, RequestTypes
  <2> QED BY <1>u, <1>o, <2>1, <2>2 DEF IInv, Types, RequestTypes, Labels
<1>3. IncomingInv'
  <2>1. \A i \in DOMAIN scp_req_incoming : scp_req_incoming[i] # r
    BY <1>r DEF IInv, IncomingInv
  <2> QED BY <1>u, <1>r, <2>1 DEF IInv, IncomingInv
<1>4. HeldInv'
  BY <1>u DEF IInv, HeldInv
<1>5. ListInv'
  <2>1. \A u \in Threads, q \in Requests : q # r => (Lists(u, q)' <=> Lists(u, q))
    BY <1>u, <1>o, <1>r DEF Lists
  <2>2. r \in exp_rpcs' /\ Lists(t, r)'
    BY <1>u, <1>o, <1>r DEF Lists
  <2> QED BY <1>u, <1>r, <2>1, <2>2 DEF IInv, ListInv
<1>6. StopInv'
  BY <1>u, <1>f, <1>o DEF IInv, StopInv, Working
<1> QED BY <1>1, <1>3, <1>4, <1>5, <1>6 DEF IInv

LEMMA AddKeeps ==
  ASSUME IInv, NEW t \in Threads, ptlrpc_server_request_add(t)
  PROVE  IInv'
<1>1. /\ pc[t] = "check" /\ pc' = [pc EXCEPT ![t] = "add"]
      /\ exp_rpcs' = exp_rpcs \union {req[t]}
      /\ UNCHANGED <<queueVars, scp_nreqs_active, scp_nhreqs_active,
                     scp_hreq_count, exp_rpc_count, done, req, counter,
                     srv_is_stopping, purge>>
  BY DEF ptlrpc_server_request_add, activeVars
<1>2. /\ Active' = Active /\ ActiveHigh' = ActiveHigh
      /\ ActiveNormal' = ActiveNormal /\ Counted' = Counted
  BY <1>1 DEF IInv, Types, RequestTypes, Active, ActiveHigh, ActiveNormal, Counted
<1>3. Counts' /\ HpThreadKept'
  BY <1>1, <1>2 DEF IInv, Counts, HpThreadKept, ActiveNormal
<1>4. /\ pc[t] \in Working /\ "add" \in Working \ {"check"}
      /\ scp_nreqs_active' \in Nat /\ scp_nhreqs_active' \in Nat
      /\ exp_rpc_count' \in Nat
  BY <1>1 DEF IInv, Types, RequestTypes, Working
<1> QED BY <1>1, <1>3, <1>4, WorkKeeps

-----------------------------------------------------------------------------
(* Handling. *)

\* A request that is handled is on the export's list.
LEMMA Listed ==
  ASSUME IInv, NEW t \in Threads, pc[t] \in Working \ {"check"}
  PROVE  exp_rpcs = exp_rpcs \union {req[t]}
<1>1. req[t] \in Requests
  BY ThreadFacts
<1>2. Lists(t, req[t])
  BY DEF Lists
<1> QED BY <1>1, <1>2 DEF IInv, ListInv

LEMMA RpcIncKeeps ==
  ASSUME IInv, NEW t \in Threads, class_export_rpc_inc(t)
  PROVE  IInv'
<1>1. /\ pc[t] = "got" /\ pc' = [pc EXCEPT ![t] = "handle"]
      /\ exp_rpc_count' = exp_rpc_count + 1
      /\ UNCHANGED <<queueVars, scp_nreqs_active, scp_nhreqs_active,
                     scp_hreq_count, exp_rpcs, done, req, counter,
                     srv_is_stopping, purge>>
  BY DEF class_export_rpc_inc, activeVars
<1>2. /\ Active' = Active /\ ActiveHigh' = ActiveHigh
      /\ ActiveNormal' = ActiveNormal
      /\ t \notin Counted /\ Counted' = Counted \union {t}
  BY <1>1 DEF IInv, Types, RequestTypes, Active, ActiveHigh, ActiveNormal, Counted
<1>3. Cardinality(Counted') = Cardinality(Counted) + 1
  BY <1>2, SomeThreads DEF Counted
<1>4. Counts' /\ HpThreadKept'
  BY <1>1, <1>2, <1>3 DEF IInv, Counts, HpThreadKept, ActiveNormal
<1>5. /\ pc[t] \in Working \ {"check"} /\ "handle" \in Working \ {"check"}
      /\ scp_nreqs_active' \in Nat /\ scp_nhreqs_active' \in Nat
      /\ exp_rpc_count' \in Nat
  BY <1>1 DEF IInv, Types, RequestTypes, Working
<1>6. exp_rpcs' = exp_rpcs \union {req[t]}
  BY <1>1, <1>5, Listed
<1> QED BY <1>1, <1>4, <1>5, <1>6, WorkKeeps

LEMMA RpcDecKeeps ==
  ASSUME IInv, NEW t \in Threads, class_export_rpc_dec(t)
  PROVE  IInv'
<1>1. /\ pc[t] = "stopped" /\ pc' = [pc EXCEPT ![t] = "fini"]
      /\ exp_rpc_count' = exp_rpc_count - 1
      /\ UNCHANGED <<queueVars, scp_nreqs_active, scp_nhreqs_active,
                     scp_hreq_count, exp_rpcs, done, req, counter,
                     srv_is_stopping, purge>>
  BY DEF class_export_rpc_dec, activeVars
<1>2. /\ Active' = Active /\ ActiveHigh' = ActiveHigh
      /\ ActiveNormal' = ActiveNormal
      /\ t \in Counted /\ Counted' = Counted \ {t}
  BY <1>1 DEF IInv, Types, RequestTypes, Active, ActiveHigh, ActiveNormal, Counted
<1>3. /\ Cardinality(Counted') = Cardinality(Counted) - 1
      /\ Cardinality(Counted') \in Nat
  BY <1>2, SomeThreads DEF Counted
<1>4. Counts' /\ HpThreadKept' /\ exp_rpc_count' \in Nat
  BY <1>1, <1>2, <1>3 DEF IInv, Counts, HpThreadKept, ActiveNormal
<1>5. /\ pc[t] \in Working \ {"check"} /\ "fini" \in Working \ {"check"}
      /\ scp_nreqs_active' \in Nat /\ scp_nhreqs_active' \in Nat
  BY <1>1 DEF IInv, Types, RequestTypes, Working
<1>6. exp_rpcs' = exp_rpcs \union {req[t]}
  BY <1>1, <1>5, Listed
<1> QED BY <1>1, <1>4, <1>5, <1>6, WorkKeeps

LEMMA FinishActiveKeeps ==
  ASSUME IInv, NEW t \in Threads, ptlrpc_server_finish_active_request(t)
  PROVE  IInv'
<1>1. /\ pc[t] = "handle" /\ pc' = [pc EXCEPT ![t] = "stopped"]
      /\ scp_nreqs_active' = scp_nreqs_active - 1
      /\ scp_nhreqs_active' = scp_nhreqs_active
                                - (IF req[t] \in HighPriority THEN 1 ELSE 0)
      /\ UNCHANGED <<queueVars, scp_hreq_count, exp_rpcs, exp_rpc_count, done,
                     req, counter, srv_is_stopping, purge>>
  BY DEF ptlrpc_server_finish_active_request, exportVars
<1>2. /\ t \in Active /\ Active' = Active \ {t} /\ Counted' = Counted
  BY <1>1 DEF IInv, Types, RequestTypes, Active, Counted
<1>3. /\ ActiveHigh' = ActiveHigh \ {t} /\ ActiveNormal' = ActiveNormal \ {t}
      /\ req[t] \in HighPriority <=> t \in ActiveHigh
      /\ req[t] \notin HighPriority <=> t \in ActiveNormal
  BY <1>1, <1>2 DEF ActiveHigh, ActiveNormal
<1>4. /\ Cardinality(Active') = Cardinality(Active) - 1
      /\ Cardinality(Active) \in Nat /\ Cardinality(Active') \in Nat
  BY <1>2, SomeThreads DEF Active
<1>5. /\ Cardinality(ActiveHigh') = Cardinality(ActiveHigh)
                                      - (IF req[t] \in HighPriority THEN 1 ELSE 0)
      /\ Cardinality(ActiveHigh) \in Nat /\ Cardinality(ActiveHigh') \in Nat
  <2>1. ActiveHigh \in SUBSET Threads
    BY DEF ActiveHigh, Active
  <2>2. Cardinality(ActiveHigh) \in Nat /\ Cardinality(ActiveHigh \ {t}) \in Nat
    BY <2>1, SomeThreads
  <2>3. CASE t \in ActiveHigh
    BY <1>3, <2>1, <2>2, <2>3, SomeThreads
  <2>4. CASE t \notin ActiveHigh
    <3>1. ActiveHigh \ {t} = ActiveHigh
      BY <2>4
    <3>2. Cardinality(ActiveHigh') = Cardinality(ActiveHigh)
      BY <1>3, <3>1
    <3>3. req[t] \notin HighPriority
      BY <1>3, <2>4
    <3> QED BY <2>2, <3>2, <3>3
  <2> QED BY <2>3, <2>4
<1>6. /\ Cardinality(ActiveNormal') <= Cardinality(ActiveNormal)
      /\ Cardinality(ActiveNormal) \in Nat /\ Cardinality(ActiveNormal') \in Nat
  <2>1. ActiveNormal \in SUBSET Threads
    BY DEF ActiveNormal, Active
  <2>2. Cardinality(ActiveNormal) \in Nat /\ Cardinality(ActiveNormal \ {t}) \in Nat
    BY <2>1, SomeThreads
  <2>3. CASE t \in ActiveNormal
    BY <1>3, <2>1, <2>2, <2>3, SomeThreads
  <2>4. CASE t \notin ActiveNormal
    <3>1. ActiveNormal \ {t} = ActiveNormal
      BY <2>4
    <3> QED BY <1>3, <2>2, <2>4, <3>1
  <2> QED BY <2>3, <2>4
<1>7. Counts' /\ scp_nreqs_active' \in Nat /\ scp_nhreqs_active' \in Nat
  BY <1>1, <1>2, <1>4, <1>5 DEF IInv, Counts
<1>8. HpThreadKept'
  <2>1. Cardinality(Threads) \in Nat
    BY SomeThreads
  <2>2. /\ HpThreadKept' <=> (~srv_is_stopping' =>
             /\ Cardinality(Active') <= Cardinality(Threads) - 1
             /\ HasHp => Cardinality(ActiveNormal') <= Cardinality(Threads) - 2)
        /\ HpThreadKept <=> (~srv_is_stopping =>
             /\ Cardinality(Active) <= Cardinality(Threads) - 1
             /\ HasHp => Cardinality(ActiveNormal) <= Cardinality(Threads) - 2)
    BY DEF HpThreadKept, ActiveNormal
  <2>3. /\ Cardinality(Active) <= Cardinality(Threads) - 1 =>
             Cardinality(Active') <= Cardinality(Threads) - 1
        /\ Cardinality(ActiveNormal) <= Cardinality(Threads) - 2 =>
             Cardinality(ActiveNormal') <= Cardinality(Threads) - 2
    BY <1>4, <1>6, <2>1
  <2> QED BY <1>1, <2>2, <2>3 DEF IInv
<1>9. /\ pc[t] \in Working \ {"check"} /\ "stopped" \in Working \ {"check"}
      /\ exp_rpc_count' \in Nat
  BY <1>1 DEF IInv, Types, RequestTypes, Working
<1>10. exp_rpcs' = exp_rpcs \union {req[t]}
  BY <1>1, <1>9, Listed
<1> QED BY <1>1, <1>7, <1>8, <1>9, <1>10, WorkKeeps

\* A fetch leaves the threads that are to be left.
LEMMA FetchLeavesThreads ==
  ASSUME IInv, NEW r \in queued,
         \/ r \in ptlrpc_server_high_pending
         \/ r \in ptlrpc_server_normal_pending,
         ~srv_is_stopping
  PROVE  /\ Cardinality(Active) + 1 <= Cardinality(Threads) - 1
         /\ HasHp => Cardinality(Active) + 1 - Cardinality(ActiveHigh)
                       - (IF r \in HighPriority THEN 1 ELSE 0)
                       <= Cardinality(Threads) - 2
<1> DEFINE N == Cardinality(Threads)
           A == Cardinality(Active)
           H == Cardinality(ActiveHigh)
<1>1. N \in Nat /\ A \in Nat /\ H \in Nat /\ N >= 2
  <2>1. Active \in SUBSET Threads /\ ActiveHigh \in SUBSET Threads
    BY DEF Active, ActiveHigh
  <2> QED BY <2>1, SomeThreads, RequestsAssumption
<1>2. scp_nthrs_running = N /\ scp_nreqs_active = A /\ scp_nhreqs_active = H
  BY AllRunning DEF IInv, Counts
<1>3. HasHp => A - H <= N - 2
  <2>1. HasHp => Cardinality(ActiveNormal) <= N - 2
    BY DEF IInv, HpThreadKept, ActiveNormal
  <2> QED BY <2>1, ActiveSplit
<1>4. CASE r \in ptlrpc_server_high_pending
  <2>1. r \in HighPriority /\ A < N - 1
    BY <1>2, <1>4 DEF ptlrpc_server_high_pending, ptlrpc_server_allow_high
  <2> HIDE DEF N, A, H
  <2> QED BY <1>1, <1>3, <2>1 DEF N, A, H
<1>5. CASE r \in ptlrpc_server_normal_pending
  <2>1. /\ r \notin HighPriority
        /\ \/ A < N - 2
           \/ A < N - 1 /\ (H > 0 \/ ~HasHp)
    BY <1>2, <1>5 DEF ptlrpc_server_normal_pending, ptlrpc_server_allow_normal
  <2> HIDE DEF N, A, H
  <2>2. A + 1 <= N - 1 /\ (HasHp => A + 1 - H <= N - 2)
    BY <1>1, <2>1
  <2> QED BY <1>1, <2>1, <2>2 DEF N, A, H
<1> QED BY <1>4, <1>5

LEMMA GetKeeps ==
  ASSUME IInv, NEW t \in Threads, NEW r \in Requests,
         ptlrpc_server_request_get(t, r)
  PROVE  IInv'
<1>u. /\ pc[t] = "pending"
      /\ \/ r \in ptlrpc_server_high_pending
         \/ r \in ptlrpc_server_normal_pending
      /\ queued' = queued \ {r}
      /\ scp_hreq_count' = (IF r \in HighPriority THEN scp_hreq_count + 1 ELSE 0)
      /\ scp_nreqs_active' = scp_nreqs_active + 1
      /\ scp_nhreqs_active' = scp_nhreqs_active
                                + (IF r \in HighPriority THEN 1 ELSE 0)
      /\ req' = [req EXCEPT ![t] = r]
      /\ pc' = [pc EXCEPT ![t] = "got"]
      /\ UNCHANGED <<scp_req_incoming, exp_rpcs, exp_rpc_count, done, counter,
                     srv_is_stopping, purge>>
  BY DEF ptlrpc_server_request_get, Fetched, exportVars
<1>f. /\ r \in queued /\ r \in exp_rpcs /\ r \notin done
      /\ r # None /\ purge = "no" /\ req[t] = None
      /\ \A u \in Threads : req[u] # r
      /\ \A i \in DOMAIN scp_req_incoming : scp_req_incoming[i] # r
  <2>1. r \in queued
    BY <1>u DEF ptlrpc_server_high_pending, ptlrpc_server_normal_pending
  <2>2. r # None /\ purge = "no" /\ req[t] = None
    BY <1>u, ThreadFacts, RequestsAssumption DEF Working
  <2>3. r \in exp_rpcs /\ r \notin done
    BY <2>1 DEF IInv, ListInv
  <2> QED BY <2>1, <2>2, <2>3 DEF IInv, HeldInv, IncomingInv
<1>o. /\ \A u \in Threads : u # t => pc'[u] = pc[u] /\ req'[u] = req[u]
      /\ pc'[t] = "got" /\ req'[t] = r
      /\ pc' \in [Threads -> Labels] /\ req' \in [Threads -> Requests \union {None}]
  BY <1>u DEF IInv, Types, RequestTypes, Labels, Working
<1>s. /\ Active' = Active \union {t} /\ t \in Threads \ Active
      /\ Active \subseteq Threads /\ Counted' = Counted
  BY <1>u, <1>o DEF Active, Counted
<1>h. /\ ActiveHigh' = (IF r \in HighPriority THEN ActiveHigh \union {t} ELSE ActiveHigh)
      /\ t \notin ActiveHigh
  <2>1. t \notin ActiveHigh
    BY <1>s DEF ActiveHigh
  <2>2. CASE r \in HighPriority
    <3>1. ActiveHigh' = ActiveHigh \union {t}
      BY <1>o, <1>s, <2>2 DEF ActiveHigh
    <3> QED BY <2>1, <2>2, <3>1
  <2>3. CASE r \notin HighPriority
    <3>1. ActiveHigh' = ActiveHigh
      BY <1>o, <1>s, <2>3 DEF ActiveHigh
    <3> QED BY <2>1, <2>3, <3>1
  <2> QED BY <2>2, <2>3
<1>k. /\ Cardinality(Active') = Cardinality(Active) + 1
      /\ Cardinality(ActiveHigh') = Cardinality(ActiveHigh)
                                      + (IF r \in HighPriority THEN 1 ELSE 0)
      /\ Cardinality(Active) \in Nat /\ Cardinality(ActiveHigh) \in Nat
  <2>1. Active \in SUBSET Threads /\ ActiveHigh \in SUBSET Threads
    BY DEF Active, ActiveHigh
  <2>2. /\ Cardinality(Active') = Cardinality(Active) + 1
        /\ Cardinality(Active) \in Nat /\ Cardinality(ActiveHigh) \in Nat
    BY <1>s, <2>1, SomeThreads
  <2>3. CASE r \in HighPriority
    <3>1. Cardinality(ActiveHigh') = Cardinality(ActiveHigh) + 1
      BY <1>h, <2>1, <2>3, SomeThreads
    <3> QED BY <2>2, <2>3, <3>1
  <2>4. CASE r \notin HighPriority
    <3>1. ActiveHigh' = ActiveHigh
      BY <1>h, <2>4
    <3> QED BY <2>2, <2>4, <3>1
  <2> QED BY <2>3, <2>4
<1>2. Counts' /\ scp_nreqs_active' \in Nat /\ scp_nhreqs_active' \in Nat
  BY <1>u, <1>s, <1>k DEF IInv, Counts
<1>1. Types'
  <2>1. \A u \in Threads : req'[u] \in IF pc'[u] \in Working THEN Requests ELSE {None}
    BY <1>o DEF IInv, Types, RequestTypes, Working
  <2>2. scp_hreq_count' \in Nat /\ queued' \subseteq Requests
    BY <1>u DEF IInv, Types, RequestTypes
  <2> QED BY <1>u, <1>o, <1>2, <2>1, <2>2 DEF IInv, Types, RequestTypes, Labels
<1>7. HpThreadKept'
  <2> SUFFICES ASSUME ~srv_is_stopping'
               PROVE  /\ Cardinality(Active') <= Cardinality(Threads) - 1
                      /\ HasHp => Cardinality(ActiveNormal') <= Cardinality(Threads) - 2
    BY DEF HpThreadKept, ActiveNormal
  <2>1. /\ Cardinality(Active) + 1 <= Cardinality(Threads) - 1
        /\ HasHp => Cardinality(Active) + 1 - Cardinality(ActiveHigh)
                      - (IF r \in HighPriority THEN 1 ELSE 0)
                      <= Cardinality(Threads) - 2
    BY <1>u, <1>f, FetchLeavesThreads
  <2>2. Cardinality(ActiveNormal') = Cardinality(Active') - Cardinality(ActiveHigh')
    <3>1. /\ ActiveNormal' = Active' \ ActiveHigh'
          /\ Active' \intersect ActiveHigh' = ActiveHigh'
      BY DEF ActiveNormal, ActiveHigh
    <3>2. IsFiniteSet(Active')
      <4>1. Active' \in SUBSET Threads
        BY DEF Active
      <4> QED BY <4>1, SomeThreads
    <3>3. Cardinality(Active' \ ActiveHigh')
            = Cardinality(Active') - Cardinality(Active' \intersect ActiveHigh')
      BY <3>2, FS_Difference
    <3> QED BY <3>1, <3>3
  <2>3. Cardinality(Threads) \in Nat
    BY SomeThreads
  <2> QED BY <1>k, <2>1, <2>2, <2>3
<1>3. IncomingInv'
  BY <1>u, <1>o, <1>f DEF IInv, IncomingInv
<1>4. HeldInv'
  BY <1>u, <1>o, <1>f DEF IInv, HeldInv
<1>5. ListInv'
  <2>1. /\ \A u \in Threads, q \in Requests : q # r => (Lists(u, q)' <=> Lists(u, q))
        /\ Lists(t, r)'
    BY <1>u, <1>f, <1>o, RequestsAssumption DEF Lists, Working
  <2> QED BY <1>u, <1>f, <2>1 DEF IInv, ListInv
<1>6. StopInv'
  BY <1>u, <1>o, <1>f DEF IInv, StopInv
<1> QED BY <1>1, <1>2, <1>3, <1>4, <1>5, <1>6, <1>7 DEF IInv

-----------------------------------------------------------------------------
(* The purge. *)

\* The purge frees a request that no thread has.
LEMMA PurgeKeeps ==
  ASSUME IInv, NEW r \in Requests, purge = "purging",
         queued' = queued \ {r}, exp_rpcs' = exp_rpcs \ {r},
         done' = done \union {r},
         scp_req_incoming' \in Seq(Requests),
         \A i \in DOMAIN scp_req_incoming' :
           /\ \E j \in DOMAIN scp_req_incoming :
                scp_req_incoming'[i] = scp_req_incoming[j]
           /\ scp_req_incoming'[i] # r,
         \A i, j \in DOMAIN scp_req_incoming' :
           scp_req_incoming'[i] = scp_req_incoming'[j] => i = j,
         scp_hreq_count' \in Nat,
         UNCHANGED <<scp_nreqs_active, scp_nhreqs_active, exp_rpc_count,
                     threadVars, srv_is_stopping, purge>>
  PROVE  IInv'
<1>u. UNCHANGED <<scp_nreqs_active, scp_nhreqs_active, exp_rpc_count, pc, req,
                  counter, srv_is_stopping, purge>>
  BY DEF threadVars
<1>f. \A u \in Threads : pc[u] = "exit" /\ req[u] = None /\ req[u] # r
  <2>1. \A u \in Threads : pc[u] = "exit"
    BY DEF IInv, StopInv
  <2> QED BY <2>1, ThreadFacts, RequestsAssumption DEF Working
<1>s. Active' = Active /\ ActiveHigh' = ActiveHigh /\ Counted' = Counted
  BY <1>u DEF Active, ActiveHigh, Counted
<1>1. Types'
  BY <1>u DEF IInv, Types, RequestTypes
<1>2. Counts' /\ HpThreadKept'
  BY <1>u, <1>s DEF IInv, Counts, HpThreadKept
<1>3. IncomingInv'
  BY <1>u, <1>f DEF IInv, IncomingInv
<1>4. HeldInv'
  BY <1>u, <1>f DEF IInv, HeldInv
<1>5. ListInv'
  <2>1. \A u \in Threads, q \in Requests : ~Lists(u, q) /\ ~Lists(u, q)'
    BY <1>u, <1>f DEF Lists, Working
  <2> QED BY <2>1 DEF IInv, ListInv
<1>6. StopInv'
  BY <1>u DEF IInv, StopInv
<1> QED BY <1>1, <1>2, <1>3, <1>4, <1>5, <1>6 DEF IInv

LEMMA PurgeIncomingKeeps ==
  ASSUME IInv, PurgeIncoming
  PROVE  IInv'
<1>1. /\ purge = "purging" /\ scp_req_incoming # <<>>
      /\ done' = done \union {Head(scp_req_incoming)}
      /\ exp_rpcs' = exp_rpcs \ {Head(scp_req_incoming)}
      /\ scp_req_incoming' = Tail(scp_req_incoming)
      /\ UNCHANGED <<queued, scp_nreqs_active, scp_nhreqs_active,
                     scp_hreq_count, exp_rpc_count, threadVars,
                     srv_is_stopping, purge>>
  BY DEF PurgeIncoming, activeVars
<1>2. /\ Head(scp_req_incoming) \in Requests
      /\ scp_req_incoming' \in Seq(Requests)
      /\ \E j \in DOMAIN scp_req_incoming : Head(scp_req_incoming) = scp_req_incoming[j]
      /\ \A i \in DOMAIN scp_req_incoming' :
           /\ \E j \in DOMAIN scp_req_incoming : scp_req_incoming'[i] = scp_req_incoming[j]
           /\ scp_req_incoming'[i] # Head(scp_req_incoming)
      /\ \A i, j \in DOMAIN scp_req_incoming' :
           scp_req_incoming'[i] = scp_req_incoming'[j] => i = j
  <2>1. /\ scp_req_incoming \in Seq(Requests)
        /\ \A i, j \in DOMAIN scp_req_incoming :
             scp_req_incoming[i] = scp_req_incoming[j] => i = j
    BY DEF IInv, Types, RequestTypes, IncomingInv
  <2> QED BY <1>1, <2>1, TailLeaves
<1>3. queued' = queued \ {Head(scp_req_incoming)} /\ scp_hreq_count' \in Nat
  BY <1>1, <1>2 DEF IInv, IncomingInv, Types, RequestTypes
<1> QED BY <1>1, <1>2, <1>3, PurgeKeeps

LEMMA PurgeQueuedKeeps ==
  ASSUME IInv, NEW r \in Requests, PurgeQueued(r)
  PROVE  IInv'
<1>1. /\ purge = "purging" /\ r \in queued
      /\ done' = done \union {r} /\ exp_rpcs' = exp_rpcs \ {r}
      /\ queued' = queued \ {r}
      /\ scp_hreq_count' = (IF r \in HighPriority THEN scp_hreq_count + 1 ELSE 0)
      /\ UNCHANGED <<scp_req_incoming, scp_nreqs_active, scp_nhreqs_active,
                     exp_rpc_count, threadVars, srv_is_stopping, purge>>
  BY DEF PurgeQueued
<1>2. /\ scp_hreq_count' \in Nat /\ scp_req_incoming' \in Seq(Requests)
      /\ \A i \in DOMAIN scp_req_incoming : scp_req_incoming[i] # r
      /\ \A i, j \in DOMAIN scp_req_incoming' :
           scp_req_incoming'[i] = scp_req_incoming'[j] => i = j
  BY <1>1 DEF IInv, IncomingInv, Types, RequestTypes
<1>3. \A i \in DOMAIN scp_req_incoming' :
        /\ \E j \in DOMAIN scp_req_incoming :
             scp_req_incoming'[i] = scp_req_incoming[j]
        /\ scp_req_incoming'[i] # r
  BY <1>1, <1>2
<1> QED BY <1>1, <1>2, <1>3, PurgeKeeps

-----------------------------------------------------------------------------
\* IInv is an invariant of every behaviour.
LEMMA Inductive == Spec => []IInv
<1>1. IInv /\ [Next]_vars => IInv'
  <2> SUFFICES ASSUME IInv, [Next]_vars PROVE IInv'
    OBVIOUS
  <2>1. ASSUME NEW r \in Requests, request_in_callback(r) PROVE IInv'
    BY <2>1, ArrivalKeeps
  <2>2. ASSUME NEW t \in Threads, ThreadStep(t) PROVE IInv'
    <3>1. CASE \/ ptlrpc_wait_event(t)
               \/ ptlrpc_server_request_incoming(t)
               \/ ReqInNothing(t)
               \/ RequestGetNothing(t)
      BY <3>1, QuietStepsKeep
    <3>2. CASE \/ ptlrpc_server_handle_req_in(t)
               \/ ReqInDropped(t)
               \/ ptlrpc_server_request_add(t)
               \/ NrsReqAdd(t)
      BY <3>2, ReqInKeeps, DroppedKeeps, AddKeeps, NrsAddKeeps
    <3>3. ASSUME NEW r \in Requests, ptlrpc_server_request_get(t, r) PROVE IInv'
      BY <3>3, GetKeeps
    <3>4. CASE \/ class_export_rpc_inc(t)
               \/ ptlrpc_server_finish_active_request(t)
               \/ class_export_rpc_dec(t)
               \/ ptlrpc_server_finish_request(t)
      BY <3>4, RpcIncKeeps, FinishActiveKeeps, RpcDecKeeps, FinishKeeps
    <3> QED BY <2>2, <3>1, <3>2, <3>3, <3>4 DEF ThreadStep
  <2>3. CASE \/ ptlrpc_unregister_service
             \/ PurgeBegin
             \/ PurgeNull
             \/ PurgeEnd
             \/ \E q \in Throttles : nrs_tbf_timer_cb(q)
             \/ UNCHANGED vars
    BY <2>3, ServiceStepsKeep
  <2>4. CASE PurgeIncoming
    BY <2>4, PurgeIncomingKeeps
  <2>5. ASSUME NEW r \in Requests, PurgeQueued(r) PROVE IInv'
    BY <2>5, PurgeQueuedKeeps
  <2>6. ASSUME NEW q \in Throttles, TimerWakes(q) PROVE IInv'
    BY <2>6, TimerWakesKeeps
  <2> QED BY <2>1, <2>2, <2>3, <2>4, <2>5, <2>6 DEF Next, PurgeStep, TimerStep
<1> QED BY <1>1, InitIInv, PTL DEF Spec

\* Only queues of policies that throttle are ever throttling.
ThrottleTypes == nrs_throttling \subseteq Throttles /\ waking \subseteq Throttles

LEMMA ThrottleTyped == Spec => []ThrottleTypes
<1>1. Init => ThrottleTypes
  BY DEF Init, ThrottleTypes
<1>2. ThrottleTypes /\ [Next]_vars => ThrottleTypes'
  <2> SUFFICES ASSUME ThrottleTypes, [Next]_vars PROVE ThrottleTypes'
    OBVIOUS
  <2>1. ASSUME NEW qs, ptlrpc_nrs_req_get_null(qs) PROVE ThrottleTypes'
    BY <2>1 DEF ptlrpc_nrs_req_get_null, ThrottleTypes
  <2>2. CASE UNCHANGED throttleVars
    BY <2>2 DEF throttleVars, ThrottleTypes
  <2>3. ASSUME NEW r \in Requests, request_in_callback(r) PROVE ThrottleTypes'
    BY <2>2, <2>3 DEF request_in_callback
  <2>4. ASSUME NEW q \in Throttles, TimerStep(q) PROVE ThrottleTypes'
    BY <2>4 DEF TimerStep, nrs_tbf_timer_cb, TimerWakes, ThrottleTypes
  <2>5. ASSUME NEW t \in Threads, ThreadStep(t) PROVE ThrottleTypes'
    <3>1. ASSUME NEW r \in Requests, ptlrpc_server_request_get(t, r)
          PROVE  ThrottleTypes'
      BY <2>1, <2>2, <3>1 DEF ptlrpc_server_request_get
    <3>2. CASE RequestGetNothing(t)
      BY <2>1, <3>2 DEF RequestGetNothing
    <3>3. CASE \/ ptlrpc_wait_event(t) \/ ptlrpc_server_request_incoming(t)
               \/ ReqInNothing(t) \/ ptlrpc_server_handle_req_in(t)
               \/ ReqInDropped(t) \/ ptlrpc_server_request_add(t)
               \/ NrsReqAdd(t) \/ class_export_rpc_inc(t)
               \/ ptlrpc_server_finish_active_request(t)
               \/ class_export_rpc_dec(t) \/ ptlrpc_server_finish_request(t)
      BY <2>2, <3>3 DEF ptlrpc_wait_event, ptlrpc_server_request_incoming,
           ReqInNothing, ptlrpc_server_handle_req_in, ReqInDropped,
           ptlrpc_server_request_add, NrsReqAdd, class_export_rpc_inc,
           ptlrpc_server_finish_active_request, class_export_rpc_dec,
           ptlrpc_server_finish_request
    <3> QED BY <2>5, <3>1, <3>2, <3>3 DEF ThreadStep
  <2>6. CASE ptlrpc_unregister_service
    BY <2>2, <2>6 DEF ptlrpc_unregister_service
  <2>7. CASE PurgeStep
    <3>1. ASSUME NEW r \in Requests, PurgeQueued(r) PROVE ThrottleTypes'
      BY <2>1, <2>2, <3>1 DEF PurgeQueued
    <3>2. CASE PurgeBegin \/ PurgeIncoming \/ PurgeNull \/ PurgeEnd
      BY <2>1, <2>2, <3>2 DEF PurgeBegin, PurgeIncoming, PurgeNull, PurgeEnd
    <3> QED BY <2>7, <3>1, <3>2 DEF PurgeStep
  <2>8. CASE UNCHANGED vars
    BY <2>2, <2>8 DEF vars
  <2> QED BY <2>3, <2>4, <2>5, <2>6, <2>7, <2>8 DEF Next
<1> QED BY <1>1, <1>2, PTL DEF Spec

\* ptlrpc_server_allow_high and _allow_normal keep what the comment of the
\* latter promises, for any number of threads and any mix of priorities: one
\* thread always takes requests in, and one more is left to a high priority
\* request.
THEOREM HighPriorityThreadKept == Spec => []HpThreadKept
<1>1. IInv => HpThreadKept
  BY DEF IInv
<1> QED BY <1>1, Inductive, PTL

\* A freed request is on no list and with no thread, the export lists exactly
\* what is queued or worked on, and a request is in one place only, whatever
\* the order of arrival, resend check, fetch, finish and purge.
THEOREM NoRequestDangles == Spec => []NoDanglingRequest
<1>1. IInv /\ ThrottleTypes => NoDanglingRequest
  <2> SUFFICES ASSUME IInv, ThrottleTypes PROVE NoDanglingRequest
    OBVIOUS
  <2>1. ASSUME NEW r \in done
        PROVE  /\ r \notin queued \union exp_rpcs
               /\ \A i \in DOMAIN scp_req_incoming : scp_req_incoming[i] # r
               /\ \A t \in Threads : req[t] # r
    <3>1. r \in Requests /\ r # None
      BY RequestsAssumption DEF IInv, Types, RequestTypes
    <3>2. r \notin queued /\ \A t \in Threads : req[t] # r
      BY <3>1 DEF IInv, ListInv, HeldInv
    <3>3. r \notin exp_rpcs
      BY <3>1, <3>2 DEF IInv, ListInv, Lists
    <3> QED BY <3>2, <3>3 DEF IInv, IncomingInv
  <2>2. exp_rpcs = queued \union {req[t] : t \in {u \in Threads :
                                     pc[u] \in Working \ {"check"}}}
    <3>1. /\ exp_rpcs \subseteq Requests /\ queued \subseteq Requests
          /\ \A t \in Threads : pc[t] \in Working => req[t] \in Requests
      BY DEF IInv, Types, RequestTypes
    <3>2. \A r \in Requests : r \in exp_rpcs <=>
            \/ r \in queued
            \/ \E t \in Threads : req[t] = r /\ pc[t] \in Working \ {"check"}
      BY DEF IInv, ListInv, Lists
    <3> QED BY <3>1, <3>2
  <2>3. TypeOK
    BY DEF IInv, Types, ThrottleTypes, TypeOK
  <2> QED BY <2>1, <2>2, <2>3 DEF NoDanglingRequest, IInv, HeldInv
<1> QED BY <1>1, Inductive, ThrottleTyped, PTL

\* When ptlrpc_service_purge_all is through, no request is queued, active or
\* in the export's books: its assertions hold however the threads stopped.  It
\* follows a NULL instead only if all that is left is with policies that
\* throttle, and so never if no policy does.
THEOREM PurgeIsClean == Spec => []PurgedClean
<1>1. IInv => PurgedClean
  <2> SUFFICES ASSUME IInv PROVE PurgedClean
    OBVIOUS
  <2>1. ASSUME purge = "done"
        PROVE  /\ scp_nreqs_active = 0 /\ scp_nhreqs_active = 0
               /\ scp_req_incoming = <<>> /\ queued = {}
               /\ exp_rpcs = {} /\ exp_rpc_count = 0
    <3>1. /\ \A t \in Threads : pc[t] = "exit"
          /\ scp_req_incoming = <<>> /\ queued = {}
      BY <2>1 DEF IInv, StopInv
    <3>2. Active = {} /\ ActiveHigh = {} /\ Counted = {}
      BY <3>1 DEF Active, ActiveHigh, Counted
    <3>3. scp_nreqs_active = 0 /\ scp_nhreqs_active = 0 /\ exp_rpc_count = 0
      BY <3>2, FS_EmptySet DEF IInv, Counts
    <3>4. exp_rpcs = {}
      BY <3>1 DEF IInv, ListInv, Lists, Types, RequestTypes, Working
    <3> QED BY <3>1, <3>3, <3>4
  <2>2. purge = "oops" => queued # {} /\ Pending \subseteq Throttles
    BY DEF IInv, StopInv, Stuck
  <2> QED BY <2>1, <2>2 DEF PurgedClean
<1> QED BY <1>1, Inductive, PTL
==============================================================================
