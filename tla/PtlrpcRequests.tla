--------------------------- MODULE PtlrpcRequests ----------------------------
(***************************************************************************)
(* The requests of one partition of a ptlrpc service                       *)
(* (source/build/metric/service.c).  The network puts requests on          *)
(* scp_req_incoming; service threads move them to the queues of the NRS,   *)
(* one for normal and one for high priority requests, fetch them from      *)
(* there under the rules of ptlrpc_server_allow_high and _allow_normal,    *)
(* and handle them.  The export keeps a list of the requests it has in the *)
(* service, which a resent request is compared with.                       *)
(*                                                                         *)
(* A step is one critical section, or the code between two of them.  Which *)
(* request of a queue comes next is up to the NRS policy: the queues are   *)
(* sets.  A policy that throttles, as TBF does, may also return nothing,   *)
(* and nothing is asked of it then until its timer has fired.  All         *)
(* requests belong to one export.                                          *)
(***************************************************************************)
EXTENDS Integers, Sequences, FiniteSets

CONSTANTS
  Requests,
  Threads,          \* the threads that run when the model starts
  None,
  HighPriority,     \* the requests that hpreq_check finds urgent
  rq_xid,           \* per request: its xid
  Resent,           \* the requests with MSG_RESENT
  Bulk,             \* the requests with rq_bulk_write or rq_bulk_read
  Throttles,        \* the queues, "high" or "normal", whose policy throttles
  HasHp,            \* nrs_svcpt_has_hp
  srv_hpreq_ratio,
  Flood             \* requests that a thread takes in before it handles one

ASSUME RequestsAssumption ==
  /\ None \notin Requests \union Threads
  /\ HighPriority \subseteq Requests /\ Resent \subseteq Requests
  /\ Bulk \subseteq Requests /\ Throttles \subseteq {"high", "normal"}
  /\ DOMAIN rq_xid = Requests
  /\ HasHp \in BOOLEAN /\ (HighPriority # {} => HasHp)
  /\ srv_hpreq_ratio \in Nat /\ Flood \in Nat
  /\ IsFiniteSet(Threads) /\ IsFiniteSet(Requests)
  /\ Cardinality(Threads) >= 2  \* PTLRPC_NTHRS_INIT

VARIABLES
  scp_req_incoming,
  queued,            \* requests in the queues of the NRS
  nrs_throttling,    \* the queues that are throttling
  waking,            \* the queues whose timer callback is to wake a thread
  scp_nreqs_active, scp_nhreqs_active, scp_hreq_count,
  exp_rpcs,          \* exp_reg_rpcs and exp_hp_rpcs
  exp_rpc_count,
  done,              \* requests that are finished and freed
  pc, req,           \* per thread: where it is, and the request it works on
  counter,           \* per thread: the flood counter of ptlrpc_main
  srv_is_stopping,
  purge              \* "no", "purging", "done", or "oops" on a NULL request

queueVars == <<scp_req_incoming, queued>>
throttleVars == <<nrs_throttling, waking>>
activeVars == <<scp_nreqs_active, scp_nhreqs_active, scp_hreq_count>>
exportVars == <<exp_rpcs, exp_rpc_count>>
threadVars == <<pc, req, counter>>
vars == <<queueVars, throttleVars, activeVars, exportVars, done, threadVars,
          srv_is_stopping, purge>>

\* Is one request an incarnation of the other?
SameXid(q, r) == q # r /\ rq_xid[q] = rq_xid[r]

scp_nthrs_running == Cardinality({t \in Threads : pc[t] # "exit"})

Init ==
  /\ scp_req_incoming = <<>> /\ queued = {}
  /\ nrs_throttling = {} /\ waking = {}
  /\ scp_nreqs_active = 0 /\ scp_nhreqs_active = 0 /\ scp_hreq_count = 0
  /\ exp_rpcs = {} /\ exp_rpc_count = 0
  /\ done = {}
  /\ pc = [t \in Threads |-> "asleep"]
  /\ req = [t \in Threads |-> None]
  /\ counter = [t \in Threads |-> 0]
  /\ srv_is_stopping = FALSE
  /\ purge = "no"

Arrived(r) ==
  \/ r \in queued \union exp_rpcs \union done
  \/ \E i \in DOMAIN scp_req_incoming : scp_req_incoming[i] = r
  \/ \E t \in Threads : req[t] = r

NormalPending == queued \ HighPriority # {}
HighPending == queued \intersect HighPriority # {}

\* The queue of a request, and the queues in which there is something.
Queue(r) == IF r \in HighPriority THEN "high" ELSE "normal"
Pending == {Queue(r) : r \in queued}

ptlrpc_server_allow_high ==
  /\ HasHp
  /\ "high" \notin nrs_throttling
  /\ scp_nreqs_active < scp_nthrs_running - 1
  /\ \/ scp_nhreqs_active = 0
     \/ ~NormalPending
     \/ scp_hreq_count < srv_hpreq_ratio

\* Mutant of ptlrpc_server_allow_normal: no thread is kept for high priority.
AllowNormalGreedy ==
  "normal" \notin nrs_throttling /\ scp_nreqs_active < scp_nthrs_running - 1

\* Mutant of ptlrpc_server_allow_normal: a third thread is kept.
AllowNormalStingy ==
  "normal" \notin nrs_throttling /\ scp_nreqs_active < scp_nthrs_running - 3

ptlrpc_server_allow_normal ==
  /\ "normal" \notin nrs_throttling
  /\ \/ scp_nreqs_active < scp_nthrs_running - 2
     \/ /\ scp_nreqs_active < scp_nthrs_running - 1
        /\ scp_nhreqs_active > 0 \/ ~HasHp

\* The requests that may be fetched now.
ptlrpc_server_high_pending ==
  IF ptlrpc_server_allow_high THEN queued \intersect HighPriority ELSE {}

ptlrpc_server_normal_pending ==
  IF ptlrpc_server_allow_normal THEN queued \ HighPriority ELSE {}

\* wake_up(&svcpt->scp_waitq): one sleeping thread runs again.
WakeUp(state) ==
  IF \E t \in Threads : state[t] = "asleep"
  THEN \E t \in Threads : /\ state[t] = "asleep"
                           /\ pc' = [state EXCEPT ![t] = "wait"]
  ELSE pc' = state

\* request_in_callback: a message arrives.
request_in_callback(r) ==
  /\ purge = "no" /\ ~Arrived(r)
  /\ \A q \in Requests : SameXid(q, r) /\ r \in Resent => Arrived(q)
  /\ scp_req_incoming' = Append(scp_req_incoming, r)
  /\ WakeUp(pc)
  /\ UNCHANGED <<queued, throttleVars, activeVars, exportVars, done, req,
                 counter, srv_is_stopping, purge>>

(***************************************************************************)
(* ptlrpc_main.                                                            *)
(***************************************************************************)
\* ptlrpc_wait_event: stop, go on or sleep.
ptlrpc_wait_event(t) ==
  /\ pc[t] = "wait"
  /\ pc' = [pc EXCEPT ![t] =
              IF srv_is_stopping THEN "exit"
              ELSE IF \/ scp_req_incoming # <<>>
                      \/ ptlrpc_server_high_pending # {}
                      \/ ptlrpc_server_normal_pending # {} THEN "loop"
              ELSE "asleep"]
  /\ UNCHANGED <<queueVars, throttleVars, activeVars, exportVars, done, req,
                 counter, srv_is_stopping, purge>>

\* ptlrpc_server_request_incoming, looked at without a lock.
ptlrpc_server_request_incoming(t) ==
  /\ pc[t] = "loop"
  /\ pc' = [pc EXCEPT ![t] = IF scp_req_incoming # <<>> THEN "incoming"
                             ELSE "pending"]
  /\ UNCHANGED <<queueVars, throttleVars, activeVars, exportVars, done, req,
                 counter, srv_is_stopping, purge>>

\* Incoming requests come first, but a thread does not take them in for ever.
AfterIncoming(t) ==
  IF counter[t] < Flood THEN "wait" ELSE "pending"

CountIncoming(t) ==
  counter' = [counter EXCEPT ![t] = IF @ < Flood THEN @ + 1 ELSE 0]

\* ptlrpc_server_handle_req_in finds nothing any more.
ReqInNothing(t) ==
  /\ pc[t] = "incoming" /\ scp_req_incoming = <<>>
  /\ pc' = [pc EXCEPT ![t] = AfterIncoming(t)]
  /\ CountIncoming(t)
  /\ UNCHANGED <<queueVars, throttleVars, activeVars, exportVars, done, req,
                 srv_is_stopping, purge>>

\* ptlrpc_server_handle_req_in takes the first incoming request.
ptlrpc_server_handle_req_in(t) ==
  /\ pc[t] = "incoming" /\ scp_req_incoming # <<>>
  /\ req' = [req EXCEPT ![t] = Head(scp_req_incoming)]
  /\ scp_req_incoming' = Tail(scp_req_incoming)
  /\ pc' = [pc EXCEPT ![t] = "check"]
  /\ UNCHANGED <<queued, throttleVars, activeVars, exportVars, done, counter,
                 srv_is_stopping, purge>>

\* ptlrpc_server_check_resend_in_progress
check_resend_in_progress(r) ==
  /\ r \in Resent \ Bulk /\ exp_rpc_count # 0
  /\ \E q \in exp_rpcs : SameXid(q, r)

\* The request is malformed, not allowed or already being handled: it is
\* finished.
ReqInDropped(t) ==
  /\ pc[t] = "check"
  /\ done' = done \union {req[t]}
  /\ exp_rpcs' = exp_rpcs \ {req[t]}
  /\ req' = [req EXCEPT ![t] = None]
  /\ pc' = [pc EXCEPT ![t] = AfterIncoming(t)]
  /\ CountIncoming(t)
  /\ UNCHANGED <<queueVars, throttleVars, activeVars, exp_rpc_count,
                 srv_is_stopping, purge>>

\* ptlrpc_server_request_add, under exp_rpc_lock: the request is new and is
\* put on the export's list.
ptlrpc_server_request_add(t) ==
  /\ pc[t] = "check"
  /\ ~check_resend_in_progress(req[t])
  /\ exp_rpcs' = exp_rpcs \union {req[t]}
  /\ pc' = [pc EXCEPT ![t] = "add"]
  /\ UNCHANGED <<queueVars, throttleVars, activeVars, exp_rpc_count, done, req,
                 counter, srv_is_stopping, purge>>

\* ptlrpc_nrs_req_add, and a thread is woken for the request.
NrsReqAdd(t) ==
  /\ pc[t] = "add"
  /\ queued' = queued \union {req[t]}
  /\ req' = [req EXCEPT ![t] = None]
  /\ WakeUp([pc EXCEPT ![t] = AfterIncoming(t)])
  /\ CountIncoming(t)
  /\ UNCHANGED <<scp_req_incoming, throttleVars, activeVars, exportVars, done,
                 srv_is_stopping, purge>>

\* What may be fetched is of high priority or normal: the queues that
\* ptlrpc_server_request_get asks, the first one first.
ptlrpc_server_request_pending ==
  {Queue(r) : r \in ptlrpc_server_high_pending
                       \union ptlrpc_server_normal_pending}

\* ptlrpc_nrs_req_get_nolock returns NULL from each of the queues qs, whose
\* policy begins to throttle.
ptlrpc_nrs_req_get_null(qs) ==
  /\ qs \subseteq Throttles
  /\ nrs_throttling' = nrs_throttling \union qs
  /\ UNCHANGED waking

\* ptlrpc_server_request_get, under scp_req_lock: a request of high priority
\* if one may be fetched and the policy returns one, else a normal one.
Fetched(r, high) ==
  /\ queued' = queued \ {r}
  /\ scp_hreq_count' = IF high THEN scp_hreq_count + 1 ELSE 0
  /\ scp_nreqs_active' = scp_nreqs_active + 1
  /\ scp_nhreqs_active' = scp_nhreqs_active
                            + (IF r \in HighPriority THEN 1 ELSE 0)

ptlrpc_server_request_get(t, r) ==
  /\ pc[t] = "pending"
  /\ \/ r \in ptlrpc_server_high_pending /\ UNCHANGED throttleVars
     \/ /\ r \in ptlrpc_server_normal_pending
        /\ ptlrpc_nrs_req_get_null(ptlrpc_server_request_pending \ {"normal"})
  /\ Fetched(r, r \in HighPriority)
  /\ req' = [req EXCEPT ![t] = r]
  /\ pc' = [pc EXCEPT ![t] = "got"]
  /\ UNCHANGED <<scp_req_incoming, exportVars, done, counter, srv_is_stopping,
                 purge>>

\* There is nothing that may be fetched, or nothing is returned.
RequestGetNothing(t) ==
  /\ pc[t] = "pending"
  /\ ptlrpc_nrs_req_get_null(ptlrpc_server_request_pending)
  /\ pc' = [pc EXCEPT ![t] = "wait"]
  /\ UNCHANGED <<queueVars, activeVars, exportVars, done, req, counter,
                 srv_is_stopping, purge>>

\* nrs_tbf_timer_cb, which takes no lock: the queue q is open again ...
nrs_tbf_timer_cb(q) ==
  /\ q \in nrs_throttling \ waking
  /\ nrs_throttling' = nrs_throttling \ {q}
  /\ waking' = waking \union {q}
  /\ UNCHANGED <<queueVars, activeVars, exportVars, done, threadVars,
                 srv_is_stopping, purge>>

\* ... and a thread is woken for what it holds.
TimerWakes(q) ==
  /\ q \in waking
  /\ waking' = waking \ {q}
  /\ WakeUp(pc)
  /\ UNCHANGED <<queueVars, nrs_throttling, activeVars, exportVars, done, req,
                 counter, srv_is_stopping, purge>>

\* class_export_rpc_inc
class_export_rpc_inc(t) ==
  /\ pc[t] = "got"
  /\ exp_rpc_count' = exp_rpc_count + 1
  /\ pc' = [pc EXCEPT ![t] = "handle"]
  /\ UNCHANGED <<queueVars, throttleVars, activeVars, exp_rpcs, done, req,
                 counter, srv_is_stopping, purge>>

\* The request is handled, or dropped because it is too old; then, under
\* scp_req_lock, it stops being active.
ptlrpc_server_finish_active_request(t) ==
  /\ pc[t] = "handle"
  /\ scp_nreqs_active' = scp_nreqs_active - 1
  /\ scp_nhreqs_active' = scp_nhreqs_active
                            - (IF req[t] \in HighPriority THEN 1 ELSE 0)
  /\ pc' = [pc EXCEPT ![t] = "stopped"]
  /\ UNCHANGED <<queueVars, throttleVars, scp_hreq_count, exportVars, done,
                 req, counter, srv_is_stopping, purge>>

\* Mutant of class_export_rpc_dec: the count is not given back.
RpcDecForgotten(t) ==
  /\ pc[t] = "stopped"
  /\ pc' = [pc EXCEPT ![t] = "fini"]
  /\ UNCHANGED <<queueVars, throttleVars, activeVars, exportVars, done, req,
                 counter, srv_is_stopping, purge>>

\* class_export_rpc_dec
class_export_rpc_dec(t) ==
  /\ pc[t] = "stopped"
  /\ exp_rpc_count' = exp_rpc_count - 1
  /\ pc' = [pc EXCEPT ![t] = "fini"]
  /\ UNCHANGED <<queueVars, throttleVars, activeVars, exp_rpcs, done, req,
                 counter, srv_is_stopping, purge>>

\* Mutant of ptlrpc_server_finish_request: the export keeps the request.
FinishListed(t) ==
  /\ pc[t] = "fini"
  /\ done' = done \union {req[t]}
  /\ req' = [req EXCEPT ![t] = None]
  /\ pc' = [pc EXCEPT ![t] = "wait"]
  /\ UNCHANGED <<queueVars, throttleVars, activeVars, exportVars, counter,
                 srv_is_stopping, purge>>

\* Off the export's list (ptlrpc_server_hpreq_fini) and freed.
ptlrpc_server_finish_request(t) ==
  /\ pc[t] = "fini"
  /\ exp_rpcs' = exp_rpcs \ {req[t]}
  /\ done' = done \union {req[t]}
  /\ req' = [req EXCEPT ![t] = None]
  /\ pc' = [pc EXCEPT ![t] = "wait"]
  /\ UNCHANGED <<queueVars, throttleVars, activeVars, exp_rpc_count, counter,
                 srv_is_stopping, purge>>

(***************************************************************************)
(* ptlrpc_unregister_service.                                              *)
(***************************************************************************)
\* The threads are told to stop and all woken.
ptlrpc_unregister_service ==
  /\ ~srv_is_stopping
  /\ srv_is_stopping' = TRUE
  /\ pc' = [t \in Threads |-> IF pc[t] = "asleep" THEN "wait" ELSE pc[t]]
  /\ UNCHANGED <<queueVars, throttleVars, activeVars, exportVars, done, req,
                 counter, purge>>

\* The threads are gone and the request buffers unlinked.
PurgeBegin ==
  /\ srv_is_stopping /\ purge = "no"
  /\ \A t \in Threads : pc[t] = "exit"
  /\ purge' = "purging"
  /\ UNCHANGED <<queueVars, throttleVars, activeVars, exportVars, done,
                 threadVars, srv_is_stopping>>

\* ptlrpc_service_purge_all: what came in is finished ...
PurgeIncoming ==
  /\ purge = "purging" /\ scp_req_incoming # <<>>
  /\ done' = done \union {Head(scp_req_incoming)}
  /\ exp_rpcs' = exp_rpcs \ {Head(scp_req_incoming)}
  /\ scp_req_incoming' = Tail(scp_req_incoming)
  /\ UNCHANGED <<queued, throttleVars, activeVars, exp_rpc_count, threadVars,
                 srv_is_stopping, purge>>

\* ... and what is queued is fetched, by force, and finished.  TBF does not
\* know of force: while it throttles it returns nothing, and may begin to.
PurgeQueued(r) ==
  /\ purge = "purging" /\ scp_req_incoming = <<>>
  /\ r \in queued /\ Queue(r) \notin nrs_throttling
  /\ \/ r \in HighPriority /\ UNCHANGED throttleVars
     \/ r \notin HighPriority /\ ptlrpc_nrs_req_get_null(Pending \ {"normal"})
  /\ queued' = queued \ {r}
  /\ scp_hreq_count' = IF r \in HighPriority THEN scp_hreq_count + 1 ELSE 0
  /\ exp_rpcs' = exp_rpcs \ {r}
  /\ done' = done \union {r}
  /\ UNCHANGED <<scp_req_incoming, scp_nreqs_active, scp_nhreqs_active,
                 exp_rpc_count, threadVars, srv_is_stopping, purge>>

\* Requests are pending and none is returned: ptlrpc_service_purge_all finishes
\* the request NULL.
PurgeNull ==
  /\ purge = "purging" /\ scp_req_incoming = <<>>
  /\ queued # {}
  /\ ptlrpc_nrs_req_get_null(Pending)
  /\ purge' = "oops"
  /\ UNCHANGED <<queueVars, activeVars, exportVars, done, threadVars,
                 srv_is_stopping>>

PurgeEnd ==
  /\ purge = "purging" /\ scp_req_incoming = <<>> /\ queued = {}
  /\ purge' = "done"
  /\ UNCHANGED <<queueVars, throttleVars, activeVars, exportVars, done,
                 threadVars, srv_is_stopping>>

ThreadStep(t) ==
  \/ ptlrpc_wait_event(t) \/ ptlrpc_server_request_incoming(t)
  \/ ReqInNothing(t) \/ ptlrpc_server_handle_req_in(t) \/ ReqInDropped(t)
  \/ ptlrpc_server_request_add(t) \/ NrsReqAdd(t)
  \/ \E r \in Requests : ptlrpc_server_request_get(t, r)
  \/ RequestGetNothing(t)
  \/ class_export_rpc_inc(t)
  \/ ptlrpc_server_finish_active_request(t)
  \/ class_export_rpc_dec(t) \/ ptlrpc_server_finish_request(t)

PurgeStep ==
  \/ PurgeBegin \/ PurgeIncoming
  \/ \E r \in Requests : PurgeQueued(r)
  \/ PurgeNull
  \/ PurgeEnd

TimerStep(q) == nrs_tbf_timer_cb(q) \/ TimerWakes(q)

Next ==
  \/ \E r \in Requests : request_in_callback(r)
  \/ \E q \in Throttles : TimerStep(q)
  \/ \E t \in Threads : ThreadStep(t)
  \/ ptlrpc_unregister_service
  \/ PurgeStep

Spec == Init /\ [][Next]_vars

\* A queue returns a request.
Serve == \E t \in Threads, r \in Requests : ptlrpc_server_request_get(t, r)

\* Threads that can run do, the handler of a request returns, timers fire, and
\* whoever tears the service down goes on.  Policies that are asked again and
\* again return a request in the end: that is what NrsTbfSched shows of TBF.
FairSpec ==
  /\ Spec
  /\ \A t \in Threads : WF_vars(ThreadStep(t))
  /\ WF_vars(\E q \in Throttles : TimerStep(q))
  /\ SF_vars(Serve)
  /\ WF_vars(PurgeStep)

(***************************************************************************)
(* Properties.                                                             *)
(***************************************************************************)
Active == {t \in Threads : pc[t] \in {"got", "handle"}}
Working == {"check", "add", "got", "handle", "stopped", "fini"}

\* The types of the state.
RequestTypes ==
  /\ scp_req_incoming \in Seq(Requests)
  /\ queued \subseteq Requests
  /\ scp_nreqs_active \in Nat /\ scp_nhreqs_active \in Nat
  /\ scp_hreq_count \in Nat
  /\ exp_rpcs \subseteq Requests /\ exp_rpc_count \in Nat
  /\ done \subseteq Requests
  /\ pc \in [Threads -> Working \union {"asleep", "wait", "loop", "incoming",
                                        "pending", "exit"}]
  /\ \A t \in Threads :
       req[t] \in IF pc[t] \in Working THEN Requests ELSE {None}
  /\ counter \in [Threads -> 0 .. Flood]
  /\ srv_is_stopping \in BOOLEAN
  /\ purge \in {"no", "purging", "done", "oops"}

TypeOK ==
  /\ RequestTypes
  /\ nrs_throttling \subseteq Throttles /\ waking \subseteq Throttles

\* The comment of ptlrpc_server_allow_normal: while the service is up, normal
\* requests leave two threads, one to take requests in and one that a high
\* priority request gets, and all requests together leave one.
HpThreadKept ==
  ~srv_is_stopping =>
    /\ Cardinality(Active) <= Cardinality(Threads) - 1
    /\ HasHp => Cardinality({t \in Active : req[t] \notin HighPriority})
                  <= Cardinality(Threads) - 2

\* A request that is freed is on no list and with no thread; the export lists
\* exactly the requests that are queued or that a thread works on since
\* ptlrpc_server_request_add; and a request is in one place only.
NoDanglingRequest ==
  /\ TypeOK
  /\ \A r \in done :
       /\ r \notin queued \union exp_rpcs
       /\ \A i \in DOMAIN scp_req_incoming : scp_req_incoming[i] # r
       /\ \A t \in Threads : req[t] # r
  /\ exp_rpcs = queued \union {req[t] : t \in {u \in Threads :
                                   pc[u] \in Working \ {"check"}}}
  /\ \A t \in Threads : req[t] # None => req[t] \notin queued
  /\ \A t, u \in Threads : req[t] # None /\ req[t] = req[u] => t = u

\* LASSERT(svcpt->scp_nreqs_active == 0) and its neighbours in
\* ptlrpc_service_purge_all: when the service is gone so are its requests, in
\* the export's books too.  The purge gets stuck on a NULL request only if all
\* that is left is with policies that throttle.
PurgedClean ==
  /\ purge = "done" =>
       /\ scp_nreqs_active = 0 /\ scp_nhreqs_active = 0
       /\ scp_req_incoming = <<>> /\ queued = {}
       /\ exp_rpcs = {} /\ exp_rpc_count = 0
  /\ purge = "oops" => queued # {} /\ Pending \subseteq Throttles

\* Every request that arrives is handled, refused or purged, whatever the
\* order in which threads sleep and are woken and queues begin and cease to
\* throttle, unless the purge follows a NULL.
EveryRequestEnds ==
  \A r \in Requests : Arrived(r) ~> r \in done \/ purge = "oops"
==============================================================================
