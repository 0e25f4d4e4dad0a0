---------------------------- MODULE PtlrpcBuffers ----------------------------
(***************************************************************************)
(* The request buffers of one partition of a ptlrpc service, and how long  *)
(* a request lives (source/build/metric/service.c, lproc_ptlrpc.c).        *)
(*                                                                         *)
(* A buffer goes from the idle list to the network, which fills it with    *)
(* messages; every message becomes a request that holds a reference on the *)
(* buffer, and the last one takes over the network's reference and is      *)
(* embedded in the buffer's descriptor.  When the last reference goes, the *)
(* buffer enters the history with its requests; the oldest buffers of a    *)
(* history that is too long are emptied and go back to the idle list.      *)
(* Meanwhile early replies take references on requests from the timed      *)
(* list, and a reader of the history keeps a pointer to a request.         *)
(*                                                                         *)
(* A step is one critical section, or the code between two of them.  A     *)
(* request is named by its rq_history_seq.  Whether a deadline is near is  *)
(* left open.  What happens to a request between its arrival and its end   *)
(* is in PtlrpcRequests.                                                   *)
(***************************************************************************)
EXTENDS Integers, Sequences, FiniteSets, FiniteSetsExt, SequencesExt

CONSTANTS
  Buffers,             \* the descriptors that memory has room for
  Threads,
  Unregister,          \* the thread that unregisters the service
  None,
  srv_nbuf_per_group,
  HistMaxes,           \* what the administrator sets the history's length to
  MaxMessages          \* messages that arrive

ASSUME BuffersAssumption ==
  /\ IsFiniteSet(Buffers) /\ None \notin Buffers /\ IsFiniteSet(Threads)
  /\ Unregister \notin Threads
  /\ srv_nbuf_per_group \in 1..Cardinality(Buffers)
  /\ HistMaxes \subseteq Nat /\ MaxMessages \in Nat

Procs == Threads \union {Unregister}

\* Beside the messages, unlinking a buffer makes a request as well.
Requests == 1..(MaxMessages + Cardinality(Buffers))

VARIABLES
  scp_rqbd_idle, scp_rqbd_posted, scp_hist_rqbds,  \* lists of buffers
  scp_nrqbds_posted, scp_nrqbds_total,
  scp_rqbd_allocating, scp_rqbd_timeout,
  i,                         \* of the thread in ptlrpc_grow_req_bufs
  rqbd_refcount, rqbd_reqs,  \* per buffer: references, finished requests
  attached,                  \* the buffers that the network may fill
  srv_hist_nrqbds_cpt_max,
  scp_hist_seq,              \* the last sequence number given out
  scp_hist_seq_culled,
  scp_hist_reqs,             \* the requests of the history
  rq_rqbd, rq_refcount,      \* per request
  embedded,                  \* requests that are their buffer's rqbd_req
  live,                      \* requests not freed yet
  waiting, queued,           \* requests: just arrived; in the NRS's queues
  timed,                     \* requests in scp_at_array
  pc, rqbd, req, work, back, \* per process: locals, and where to return to
  lwi,                       \* per thread: does it sleep with a timeout?
  at,                        \* per process: what it does to the timed list
  rq,                        \* per process: the rq of ptlrpc_at_check_timed
  stop                       \* how far ptlrpc_unregister_service has come

listVars == <<scp_rqbd_idle, scp_rqbd_posted>>
countVars == <<scp_nrqbds_posted, scp_nrqbds_total, scp_rqbd_allocating,
               scp_rqbd_timeout, i>>
bufVars == <<rqbd_refcount, rqbd_reqs, attached>>
histVars == <<scp_hist_rqbds, scp_hist_reqs, scp_hist_seq_culled>>
reqVars == <<scp_hist_seq, rq_rqbd, rq_refcount, embedded, live>>
queueVars == <<waiting, queued>>
bufferVars == <<listVars, countVars, bufVars, histVars,
                srv_hist_nrqbds_cpt_max>>
atVars == <<at, rq>>
localVars == <<rqbd, req, work, back, lwi>>
vars == <<bufferVars, reqVars, queueVars, timed, pc, localVars, atVars, stop>>

Goto(p, label) == pc' = [pc EXCEPT ![p] = label]

\* A call of a function that is several steps long ends.
Return(p) == Goto(p, back[p]) /\ back' = [back EXCEPT ![p] = "none"]

srv_is_stopping == stop # "no"

\* The first group of buffers is allocated and posted, the threads run.
Init ==
  LET group == CHOOSE g \in kSubset(srv_nbuf_per_group, Buffers) : TRUE
  IN
    /\ scp_rqbd_idle = <<>> /\ scp_rqbd_posted = group
    /\ scp_hist_rqbds = <<>>
    /\ scp_nrqbds_posted = srv_nbuf_per_group
    /\ scp_nrqbds_total = srv_nbuf_per_group
    /\ scp_rqbd_allocating = 0 /\ scp_rqbd_timeout = FALSE /\ i = 0
    /\ rqbd_refcount = [b \in Buffers |-> IF b \in group THEN 1 ELSE 0]
    /\ rqbd_reqs = [b \in Buffers |-> {}]
    /\ attached = group
    /\ srv_hist_nrqbds_cpt_max = 0
    /\ scp_hist_seq = 0 /\ scp_hist_seq_culled = 0 /\ scp_hist_reqs = {}
    /\ rq_rqbd = [s \in Requests |-> None]
    /\ rq_refcount = [s \in Requests |-> 0]
    /\ embedded = {} /\ live = {}
    /\ waiting = {} /\ queued = {} /\ timed = {}
    /\ pc = [p \in Procs |-> IF p \in Threads THEN "wait" ELSE "none"]
    /\ rqbd = [p \in Procs |-> None]
    /\ req = [p \in Procs |-> 0]
    /\ work = [p \in Procs |-> {}]
    /\ back = [p \in Procs |-> "none"]
    /\ lwi = [t \in Threads |-> FALSE]
    /\ at = [p \in Procs |-> "none"]
    /\ rq = [p \in Procs |-> 0]
    /\ stop = "no"

\* Nobody holds scp_at_lock across a step.
AtLockFree == \A p \in Procs : at[p] \notin {"check", "peek", "lost"}

\* The buffers that exist: on a list, or in the hands of who empties them.
Allocated ==
  ToSet(scp_rqbd_idle) \union scp_rqbd_posted \union ToSet(scp_hist_rqbds)
    \union {rqbd[p] : p \in {q \in Procs : rqbd[q] # None}}

\* wake_up(&svcpt->scp_waitq): one sleeping thread runs again.
WakeUp(labels) ==
  IF \E t \in Threads : pc[t] = "asleep"
  THEN \E t \in Threads : /\ pc[t] = "asleep"
                           /\ pc' = [labels EXCEPT ![t] = "wait"]
                           /\ lwi' = [lwi EXCEPT ![t] = FALSE]
  ELSE pc' = labels /\ UNCHANGED lwi

(***************************************************************************)
(* The network and the administrator.                                      *)
(***************************************************************************)
\* request_in_callback: a request takes a reference on its buffer, or the
\* network's reference when the buffer is unlinked by this event.
request_in_callback(b, unlinked) ==
  /\ b \in attached
  /\ scp_hist_seq < MaxMessages \/ (unlinked /\ stop = "unlink")
  /\ LET s == scp_hist_seq + 1
     IN /\ scp_hist_seq' = s
        /\ scp_hist_reqs' = scp_hist_reqs \union {s}
        /\ rq_rqbd' = [rq_rqbd EXCEPT ![s] = b]
        /\ rq_refcount' = [rq_refcount EXCEPT ![s] = 1]
        /\ live' = live \union {s}
        /\ waiting' = waiting \union {s}
        /\ IF unlinked
           THEN /\ embedded' = embedded \union {s}
                /\ attached' = attached \ {b}
                /\ scp_nrqbds_posted' = scp_nrqbds_posted - 1
                /\ UNCHANGED rqbd_refcount
           ELSE /\ rqbd_refcount' = [rqbd_refcount EXCEPT ![b] = @ + 1]
                /\ UNCHANGED <<embedded, attached, scp_nrqbds_posted>>
  /\ WakeUp(pc)
  /\ UNCHANGED <<atVars, listVars, scp_nrqbds_total, scp_rqbd_allocating,
                 scp_rqbd_timeout, i, rqbd_reqs, scp_hist_rqbds,
                 scp_hist_seq_culled, srv_hist_nrqbds_cpt_max, queued, timed,
                 rqbd, req, work, back, stop>>

\* The length of the history is written.  The file stays until the service is
\* purged.
req_history_max_seq_write(max) ==
  /\ stop \notin {"lbug", "freed"} /\ max # srv_hist_nrqbds_cpt_max
  /\ srv_hist_nrqbds_cpt_max' = max
  /\ UNCHANGED <<atVars, listVars, countVars, bufVars, histVars, reqVars,
                 queueVars, timed, pc, localVars, stop>>

(***************************************************************************)
(* ptlrpc_main.                                                            *)
(***************************************************************************)
ptlrpc_rqbd_pending == scp_rqbd_idle # <<>> /\ ~scp_rqbd_timeout

\* ptlrpc_check_rqbd_pool, and the beginning of ptlrpc_grow_req_bufs: one
\* thread at a time allocates.
ptlrpc_check_rqbd_pool(t) ==
  IF scp_nrqbds_posted <= srv_nbuf_per_group \div 2
  THEN /\ scp_rqbd_allocating' = 1
       /\ Goto(t, IF scp_rqbd_allocating = 1 THEN "post" ELSE "alloc")
       /\ back' = [back EXCEPT ![t] = "requests"]
  ELSE Goto(t, "requests") /\ UNCHANGED <<scp_rqbd_allocating, back>>

\* ptlrpc_wait_event: a thread sleeps ...
WaitSleep(t) ==
  /\ pc[t] = "wait"
  /\ ~srv_is_stopping /\ waiting = {} /\ ~ptlrpc_rqbd_pending
  /\ Goto(t, "asleep")
  /\ lwi' = [lwi EXCEPT ![t] = scp_rqbd_timeout]
  /\ UNCHANGED <<atVars, bufferVars, reqVars, queueVars, timed, rqbd, req,
                 work, back, stop>>

\* ... stops ...
WaitStop(t) ==
  /\ pc[t] = "wait" /\ srv_is_stopping
  /\ Goto(t, "exit")
  /\ UNCHANGED <<atVars, bufferVars, reqVars, queueVars, timed, localVars,
                 stop>>

\* ... or goes on.  Whether a queued request may be fetched now is left open.
ptlrpc_wait_event(t) ==
  /\ pc[t] = "wait" /\ ~srv_is_stopping
  /\ waiting \union queued # {} \/ ptlrpc_rqbd_pending
  /\ ptlrpc_check_rqbd_pool(t)
  /\ UNCHANGED <<atVars, listVars, scp_nrqbds_posted, scp_nrqbds_total,
                 scp_rqbd_timeout, i, bufVars, histVars,
                 srv_hist_nrqbds_cpt_max, reqVars, queueVars, timed, rqbd, req,
                 work, lwi, stop>>

\* Mutant of ptlrpc_retry_rqbds: the timeout is not cleared.
RetryForgets(t) ==
  /\ pc[t] = "asleep" /\ lwi[t] /\ ~srv_is_stopping
  /\ lwi' = [lwi EXCEPT ![t] = FALSE]
  /\ ptlrpc_check_rqbd_pool(t)
  /\ UNCHANGED <<atVars, listVars, scp_nrqbds_posted, scp_nrqbds_total,
                 scp_rqbd_timeout, i, bufVars, histVars,
                 srv_hist_nrqbds_cpt_max, reqVars, queueVars, timed, rqbd, req,
                 work, stop>>

\* Nothing happened within the timeout: posting may be tried again.
ptlrpc_retry_rqbds(t) ==
  /\ pc[t] = "asleep" /\ lwi[t] /\ ~srv_is_stopping
  /\ scp_rqbd_timeout' = FALSE
  /\ lwi' = [lwi EXCEPT ![t] = FALSE]
  /\ ptlrpc_check_rqbd_pool(t)
  /\ UNCHANGED <<atVars, listVars, scp_nrqbds_posted, scp_nrqbds_total, i,
                 bufVars, histVars, srv_hist_nrqbds_cpt_max, reqVars,
                 queueVars, timed, rqbd, req, work, stop>>

\* A deadline is near: a thread is woken to see to it.
ptlrpc_at_timer(t) ==
  /\ timed # {} /\ pc[t] = "asleep"
  /\ lwi' = [lwi EXCEPT ![t] = FALSE]
  /\ ptlrpc_check_rqbd_pool(t)
  /\ UNCHANGED <<atVars, listVars, scp_nrqbds_posted, scp_nrqbds_total,
                 scp_rqbd_timeout, i, bufVars, histVars,
                 srv_hist_nrqbds_cpt_max, reqVars, queueVars, timed, rqbd, req,
                 work, stop>>

\* ptlrpc_grow_req_bufs allocates another buffer ...
ptlrpc_alloc_rqbd(t, b) ==
  /\ pc[t] = "alloc"
  /\ i < srv_nbuf_per_group /\ scp_nrqbds_posted < srv_nbuf_per_group
  /\ b \notin Allocated
  /\ scp_rqbd_idle' = <<b>> \o scp_rqbd_idle
  /\ scp_nrqbds_total' = scp_nrqbds_total + 1
  /\ i' = i + 1
  /\ UNCHANGED <<atVars, scp_rqbd_posted, scp_nrqbds_posted,
                 scp_rqbd_allocating, scp_rqbd_timeout, bufVars, histVars,
                 srv_hist_nrqbds_cpt_max, reqVars, queueVars, timed, pc,
                 localVars, stop>>

\* ... and is done, because there are enough or for want of memory.
ptlrpc_grow_req_bufs(t, enomem) ==
  /\ pc[t] = "alloc"
  /\ enomem = (i < srv_nbuf_per_group
                 /\ scp_nrqbds_posted < srv_nbuf_per_group)
  /\ scp_rqbd_allocating' = 0 /\ i' = 0
  /\ IF enomem THEN Return(t) ELSE Goto(t, "post") /\ UNCHANGED back
  /\ UNCHANGED <<atVars, listVars, scp_nrqbds_posted, scp_nrqbds_total,
                 scp_rqbd_timeout, bufVars, histVars, srv_hist_nrqbds_cpt_max,
                 reqVars, queueVars, timed, rqbd, req, work, lwi, stop>>

\* ptlrpc_server_post_idle_rqbds: the first idle buffer is counted as posted
\* before the network has it.
ptlrpc_server_post_idle_rqbds(t) ==
  /\ pc[t] = "post"
  /\ IF scp_rqbd_idle = <<>>
     THEN /\ Return(t)
          /\ UNCHANGED <<listVars, scp_nrqbds_posted, rqbd>>
     ELSE LET b == Head(scp_rqbd_idle)
          IN /\ scp_rqbd_idle' = Tail(scp_rqbd_idle)
             /\ scp_rqbd_posted' = scp_rqbd_posted \union {b}
             /\ scp_nrqbds_posted' = scp_nrqbds_posted + 1
             /\ rqbd' = [rqbd EXCEPT ![t] = b]
             /\ Goto(t, "register") /\ UNCHANGED back
  /\ UNCHANGED <<atVars, scp_nrqbds_total, scp_rqbd_allocating,
                 scp_rqbd_timeout, i, bufVars, histVars,
                 srv_hist_nrqbds_cpt_max, reqVars, queueVars, timed, req, work,
                 lwi, stop>>

\* ptlrpc_register_rqbd: the network takes the buffer, with a reference ...
ptlrpc_register_rqbd(t) ==
  /\ pc[t] = "register"
  /\ attached' = attached \union {rqbd[t]}
  /\ rqbd_refcount' = [rqbd_refcount EXCEPT ![rqbd[t]] = 1]
  /\ rqbd' = [rqbd EXCEPT ![t] = None]
  /\ Goto(t, "post")
  /\ UNCHANGED <<atVars, listVars, countVars, rqbd_reqs, histVars,
                 srv_hist_nrqbds_cpt_max, reqVars, queueVars, timed, req, work,
                 back, lwi, stop>>

\* Mutant of PostFails: the buffer still counts as posted.
PostFailsCounted(t) ==
  /\ pc[t] = "register"
  /\ scp_rqbd_idle' = Append(scp_rqbd_idle, rqbd[t])
  /\ scp_rqbd_posted' = scp_rqbd_posted \ {rqbd[t]}
  /\ rqbd' = [rqbd EXCEPT ![t] = None]
  /\ IF back[t] = "wait" THEN Goto(t, "failed") /\ UNCHANGED back
                         ELSE Return(t)
  /\ UNCHANGED <<atVars, scp_nrqbds_posted, scp_nrqbds_total,
                 scp_rqbd_allocating, scp_rqbd_timeout, i, bufVars, histVars,
                 srv_hist_nrqbds_cpt_max, reqVars, queueVars, timed, req, work,
                 lwi, stop>>

\* ... or not, and the buffer goes back to the end of the idle list.
PostFails(t) ==
  /\ pc[t] = "register"
  /\ scp_rqbd_idle' = Append(scp_rqbd_idle, rqbd[t])
  /\ scp_rqbd_posted' = scp_rqbd_posted \ {rqbd[t]}
  /\ scp_nrqbds_posted' = scp_nrqbds_posted - 1
  /\ rqbd' = [rqbd EXCEPT ![t] = None]
  /\ IF back[t] = "wait" THEN Goto(t, "failed") /\ UNCHANGED back
                         ELSE Return(t)
  /\ UNCHANGED <<atVars, scp_nrqbds_total, scp_rqbd_allocating,
                 scp_rqbd_timeout, i, bufVars, histVars,
                 srv_hist_nrqbds_cpt_max, reqVars, queueVars, timed, req, work,
                 lwi, stop>>

\* ptlrpc_main waits for a while before it tries to post again.
SetTimeout(t) ==
  /\ pc[t] = "failed"
  /\ scp_rqbd_timeout' = TRUE
  /\ Return(t)
  /\ UNCHANGED <<atVars, listVars, scp_nrqbds_posted, scp_nrqbds_total,
                 scp_rqbd_allocating, i, bufVars, histVars,
                 srv_hist_nrqbds_cpt_max, reqVars, queueVars, timed, rqbd, req,
                 work, lwi, stop>>

\* ptlrpc_server_handle_req_in takes the first request that arrived, and may
\* put it on the timed list ...
ptlrpc_server_handle_req_in(t) ==
  /\ pc[t] = "requests" /\ waiting # {}
  /\ req' = [req EXCEPT ![t] = Min(waiting)]
  /\ waiting' = waiting \ {Min(waiting)}
  /\ \/ UNCHANGED timed
     \/ AtLockFree /\ timed' = timed \union {Min(waiting)}
  /\ Goto(t, "taken")
  /\ UNCHANGED <<atVars, bufferVars, reqVars, queued, rqbd, work, back, lwi,
                 stop>>

\* ... and queues it for some thread.  After that a thread waits again, unless
\* it has taken in many requests.
ptlrpc_server_request_add(t) ==
  /\ pc[t] = "taken"
  /\ queued' = queued \union {req[t]}
  /\ req' = [req EXCEPT ![t] = 0]
  /\ \E next \in {"wait", "serve"} : WakeUp([pc EXCEPT ![t] = next])
  /\ UNCHANGED <<atVars, bufferVars, reqVars, waiting, timed, rqbd, work, back,
                 stop>>

\* Or it finds the request wrong or already in progress.
ReqInError(t) ==
  /\ pc[t] = "taken"
  /\ \E next \in {"wait", "serve"} : back' = [back EXCEPT ![t] = next]
  /\ Goto(t, "drop")
  /\ UNCHANGED <<atVars, bufferVars, reqVars, queueVars, timed, rqbd, req,
                 work, lwi, stop>>

Serving(t) == pc[t] = "serve" \/ (pc[t] = "requests" /\ waiting = {})

\* ptlrpc_at_check_timed takes scp_at_lock ...
ptlrpc_at_check_timed(t) ==
  /\ Serving(t) /\ AtLockFree /\ timed # {}
  /\ at' = [at EXCEPT ![t] = "check"]
  /\ Goto(t, "early")
  /\ UNCHANGED <<bufferVars, reqVars, queueVars, timed, localVars, rq, stop>>

\* ... takes a request that is due off the list, which clears rq_at_linked ...
ptlrpc_at_remove_timed(t, s) ==
  /\ at[t] = "check" /\ s \in timed
  /\ timed' = timed \ {s}
  /\ rq' = [rq EXCEPT ![t] = s]
  /\ at' = [at EXCEPT ![t] = "peek"]
  /\ UNCHANGED <<bufferVars, reqVars, queueVars, pc, localVars, stop>>

\* Mutant of atomic_inc_not_zero: a lost last reference is not noticed.
IncAnyway(t) ==
  /\ at[t] = "peek"
  /\ rq_refcount' = [rq_refcount EXCEPT ![rq[t]] = @ + 1]
  /\ work' = [work EXCEPT ![t] = @ \union {rq[t]}]
  /\ at' = [at EXCEPT ![t] = "check"]
  /\ rq' = [rq EXCEPT ![t] = 0]
  /\ UNCHANGED <<bufferVars, scp_hist_seq, rq_rqbd, embedded, live, queueVars,
                 timed, pc, rqbd, req, back, lwi, stop>>

\* ... and a reference to it, unless it has lost the last one.  Since nothing
\* but scp_at_lock keeps it, and ptlrpc_server_drop_request does not take that
\* lock any more, it may be freed by now: the freed memory may still hold the
\* count 0, or something else, and then all is lost.
atomic_inc_not_zero(t) ==
  /\ at[t] = "peek"
  /\ LET held == IF rq_refcount[rq[t]] > 0 THEN {rq[t]} ELSE {}
     IN /\ rq_refcount' = [s \in Requests |-> IF s \in held
                             THEN rq_refcount[s] + 1 ELSE rq_refcount[s]]
        /\ work' = [work EXCEPT ![t] = @ \union held]
  /\ \/ at' = [at EXCEPT ![t] = "check"]
     \/ rq[t] \notin live /\ at' = [at EXCEPT ![t] = "lost"]
  /\ rq' = [rq EXCEPT ![t] = 0]
  /\ UNCHANGED <<bufferVars, scp_hist_seq, rq_rqbd, embedded, live, queueVars,
                 timed, pc, rqbd, req, back, lwi, stop>>

\* ... and gives the lock back.
CheckTimedEnd(t) ==
  /\ at[t] = "check"
  /\ at' = [at EXCEPT ![t] = "none"]
  /\ UNCHANGED <<bufferVars, reqVars, queueVars, timed, pc, localVars, rq,
                 stop>>

\* The early replies, if any, are sent.
Replying(t) == pc[t] = "early" /\ at[t] = "none"

\* ptlrpc_at_send_early_reply, which does nothing for a request that nobody
\* else holds any more, or fails.
ptlrpc_at_send_early_reply(t, s) ==
  /\ Replying(t) /\ s \in work[t]
  /\ work' = [work EXCEPT ![t] = @ \ {s}]
  /\ req' = [req EXCEPT ![t] = s]
  /\ back' = [back EXCEPT ![t] = IF work'[t] = {} THEN "handle" ELSE "early"]
  /\ \/ rq_refcount[s] # 1 /\ Goto(t, "sent")
     \/ Goto(t, "drop")
  /\ UNCHANGED <<atVars, bufferVars, reqVars, queueVars, timed, rqbd, lwi,
                 stop>>

\* The early reply is sent: the request waits for its new deadline.
ptlrpc_at_add_timed(t) ==
  /\ pc[t] = "sent" /\ AtLockFree
  /\ timed' = timed \union {req[t]}
  /\ Goto(t, "drop")
  /\ UNCHANGED <<atVars, bufferVars, reqVars, queueVars, localVars, stop>>

\* A request is fetched and handled; then it is dropped.
ptlrpc_server_handle_request(t, s) ==
  /\ Serving(t) \/ pc[t] = "handle" \/ (Replying(t) /\ work[t] = {})
  /\ s \in queued
  /\ queued' = queued \ {s}
  /\ req' = [req EXCEPT ![t] = s]
  /\ back' = [back EXCEPT ![t] = "last"]
  /\ Goto(t, "drop")
  /\ UNCHANGED <<atVars, bufferVars, reqVars, waiting, timed, rqbd, work, lwi,
                 stop>>

\* The end of a round: idle buffers are posted.
PostAtEnd(t) ==
  /\ \/ Serving(t) \/ pc[t] \in {"handle", "last"}
     \/ Replying(t) /\ work[t] = {}
  /\ Goto(t, IF ptlrpc_rqbd_pending THEN "post" ELSE "wait")
  /\ back' = [back EXCEPT ![t] = IF ptlrpc_rqbd_pending THEN "wait" ELSE @]
  /\ UNCHANGED <<atVars, bufferVars, reqVars, queueVars, timed, rqbd, req,
                 work, lwi, stop>>

(***************************************************************************)
(* ptlrpc_server_drop_request.                                             *)
(***************************************************************************)
\* A reference goes; the last one finishes the request.
ptlrpc_server_drop_request(p) ==
  /\ pc[p] = "drop"
  /\ rq_refcount' = [rq_refcount EXCEPT ![req[p]] = @ - 1]
  /\ IF rq_refcount[req[p]] = 1
     THEN Goto(p, "dropped") /\ UNCHANGED <<req, back>>
     ELSE Return(p) /\ req' = [req EXCEPT ![p] = 0]
  /\ UNCHANGED <<atVars, bufferVars, scp_hist_seq, rq_rqbd, embedded, live,
                 queueVars, timed, rqbd, work, lwi, stop>>

\* rq_at_linked is looked at without a lock.
TestLinked(p) ==
  /\ pc[p] = "dropped" /\ at[p] = "none"
  /\ at' = [at EXCEPT ![p] = IF req[p] \in timed THEN "linked" ELSE "unlinked"]
  /\ UNCHANGED <<bufferVars, reqVars, queueVars, timed, pc, localVars, rq,
                 stop>>

\* It was set: under scp_at_lock the request leaves the timed list, unless
\* ptlrpc_at_check_timed was faster.
DropTimed(p) ==
  /\ at[p] = "linked" /\ AtLockFree
  /\ timed' = timed \ {req[p]}
  /\ at' = [at EXCEPT ![p] = "unlinked"]
  /\ UNCHANGED <<bufferVars, reqVars, queueVars, pc, localVars, rq, stop>>

\* Mutant of LeaveBuffer: the buffer's reference is not given back.
LeaveBufferHeld(p) ==
  /\ at[p] = "unlinked"
  /\ at' = [at EXCEPT ![p] = "none"]
  /\ req' = [req EXCEPT ![p] = 0]
  /\ UNCHANGED <<rqbd_refcount, timed, rq>>

\* Under scp_lock the request lets go of its buffer.
LeaveBuffer(p) ==
  /\ at[p] = "unlinked"
  /\ at' = [at EXCEPT ![p] = "none"]
  /\ req' = [req EXCEPT ![p] = 0]
  /\ rqbd_refcount' = [rqbd_refcount EXCEPT ![rq_rqbd[req[p]]] = @ - 1]
  /\ UNCHANGED <<timed, rq>>

\* Requests are freed.
Free(reqs) ==
  /\ live' = live \ reqs
  /\ embedded' = embedded \ reqs
  /\ rq_rqbd' = [s \in Requests |-> IF s \in reqs THEN None ELSE rq_rqbd[s]]

\* Mutant of Culled: scp_hist_seq_culled is not raised.
CulledUntracked(reqs) ==
  /\ scp_hist_reqs' = scp_hist_reqs \ reqs
  /\ UNCHANGED scp_hist_seq_culled

\* Requests leave the history for good.
Culled(reqs) ==
  /\ scp_hist_reqs' = scp_hist_reqs \ reqs
  /\ scp_hist_seq_culled' = Max({scp_hist_seq_culled} \union reqs)

\* The loop that culls the history, under scp_lock: the oldest buffer of a
\* history that is too long is taken out.
CullLoop(p, hist, reqs) ==
  IF Len(hist) > srv_hist_nrqbds_cpt_max
  THEN /\ scp_hist_rqbds' = Tail(hist)
       /\ Culled(reqs[Head(hist)])
       /\ rqbd' = [rqbd EXCEPT ![p] = Head(hist)]
       /\ Goto(p, "cull") /\ UNCHANGED back
  ELSE /\ scp_hist_rqbds' = hist
       /\ rqbd' = [rqbd EXCEPT ![p] = None]
       /\ Return(p)
       /\ UNCHANGED <<scp_hist_reqs, scp_hist_seq_culled>>

\* The last reference to the buffer is gone: it enters the history.
BufferDone(p) ==
  /\ LeaveBuffer(p)
  /\ LET b == rq_rqbd[req[p]]
     IN /\ rqbd_refcount[b] = 1
        /\ rqbd_reqs' = [rqbd_reqs EXCEPT ![b] = @ \union {req[p]}]
        /\ scp_rqbd_posted' = scp_rqbd_posted \ {b}
        /\ CullLoop(p, Append(scp_hist_rqbds, b), rqbd_reqs')
  /\ UNCHANGED <<scp_rqbd_idle, countVars, attached, srv_hist_nrqbds_cpt_max,
                 reqVars, queueVars, work, lwi, stop>>

\* The buffer is still in use: the request waits there for its end.
RequestKept(p) ==
  /\ LeaveBuffer(p)
  /\ LET b == rq_rqbd[req[p]]
     IN /\ rqbd_refcount[b] # 1
        /\ rqbd_reqs' = [rqbd_reqs EXCEPT ![b] = @ \union {req[p]}]
  /\ Return(p)
  /\ UNCHANGED <<listVars, countVars, attached, histVars,
                 srv_hist_nrqbds_cpt_max, reqVars, queueVars, rqbd, work, lwi,
                 stop>>

\* Memory was short when the reply was made (rs_prealloc): no history.
RequestNotKept(p) ==
  /\ LeaveBuffer(p)
  /\ rqbd_refcount[rq_rqbd[req[p]]] # 1
  /\ Culled({req[p]})
  /\ Free({req[p]})
  /\ Return(p)
  /\ UNCHANGED <<listVars, countVars, rqbd_reqs, attached, scp_hist_rqbds,
                 srv_hist_nrqbds_cpt_max, scp_hist_seq, rq_refcount, queueVars,
                 rqbd, work, lwi, stop>>

\* The requests of a culled buffer are freed, the buffer is idle, and the
\* loop goes on.
ptlrpc_server_free_request(p) ==
  /\ pc[p] = "cull"
  /\ Free(rqbd_reqs[rqbd[p]])
  /\ rqbd_reqs' = [rqbd_reqs EXCEPT ![rqbd[p]] = {}]
  /\ scp_rqbd_idle' = Append(scp_rqbd_idle, rqbd[p])
  /\ CullLoop(p, scp_hist_rqbds, rqbd_reqs)
  /\ UNCHANGED <<atVars, scp_rqbd_posted, countVars, rqbd_refcount, attached,
                 srv_hist_nrqbds_cpt_max, scp_hist_seq, rq_refcount, queueVars,
                 timed, req, work, lwi, stop>>

(***************************************************************************)
(* ptlrpc_unregister_service.                                              *)
(***************************************************************************)
\* The threads are told to stop and all woken.
ptlrpc_unregister_service ==
  /\ stop = "no" /\ stop' = "threads"
  /\ lwi' = [t \in Threads |-> FALSE]
  /\ pc' = [p \in Procs |-> IF pc[p] = "asleep" THEN "wait" ELSE pc[p]]
  /\ UNCHANGED <<atVars, bufferVars, reqVars, queueVars, timed, rqbd, req,
                 work, back>>

\* ptlrpc_service_unlink_rqbd: no history is wanted any more, and the network
\* is asked to give the buffers back.
ptlrpc_service_unlink_rqbd ==
  /\ stop = "threads" /\ \A t \in Threads : pc[t] = "exit"
  /\ stop' = "unlink"
  /\ srv_hist_nrqbds_cpt_max' = 0
  /\ UNCHANGED <<atVars, listVars, countVars, bufVars, histVars, reqVars,
                 queueVars, timed, pc, localVars>>

\* Mutant of BuffersUnlinked: the network is not waited for.
UnlinkedEarly ==
  /\ stop = "unlink"
  /\ stop' = "purge"
  /\ Goto(Unregister, "purge")
  /\ UNCHANGED <<bufferVars, reqVars, queueVars, timed, localVars, atVars>>

\* It has: the purge begins.
BuffersUnlinked ==
  /\ stop = "unlink" /\ scp_nrqbds_posted = 0
  /\ stop' = "purge"
  /\ Goto(Unregister, "purge")
  /\ UNCHANGED <<atVars, bufferVars, reqVars, queueVars, timed, localVars>>

\* ptlrpc_service_purge_all: what has arrived is dropped, then what is queued.
PurgeRequest(s) ==
  /\ pc[Unregister] = "purge"
  /\ s \in waiting \/ (waiting = {} /\ s \in queued)
  /\ waiting' = waiting \ {s} /\ queued' = queued \ {s}
  /\ req' = [req EXCEPT ![Unregister] = s]
  /\ back' = [back EXCEPT ![Unregister] = "purge"]
  /\ Goto(Unregister, "drop")
  /\ stop' = "purging"
  /\ UNCHANGED <<atVars, bufferVars, reqVars, timed, rqbd, work, lwi>>

\* LASSERT(svcpt->scp_hist_nrqbds == 0) and others.
PurgeAsserts ==
  /\ pc[Unregister] = "purge" /\ waiting \union queued = {}
  /\ IF scp_rqbd_posted = {} /\ scp_hist_rqbds = <<>>
     THEN Goto(Unregister, "free") /\ UNCHANGED stop
     ELSE Goto(Unregister, "none") /\ stop' = "lbug"
  /\ UNCHANGED <<atVars, bufferVars, reqVars, queueVars, timed, localVars>>

\* The idle buffers are freed, which are all there are.
ptlrpc_free_rqbd ==
  /\ pc[Unregister] = "free"
  /\ IF scp_rqbd_idle = <<>>
     THEN /\ Goto(Unregister, "none") /\ stop' = "freed"
          /\ UNCHANGED <<scp_rqbd_idle, scp_nrqbds_total>>
     ELSE /\ scp_rqbd_idle' = Tail(scp_rqbd_idle)
          /\ scp_nrqbds_total' = scp_nrqbds_total - 1
          /\ UNCHANGED <<pc, stop>>
  /\ UNCHANGED <<atVars, scp_rqbd_posted, scp_nrqbds_posted,
                 scp_rqbd_allocating, scp_rqbd_timeout, i, bufVars, histVars,
                 srv_hist_nrqbds_cpt_max, reqVars, queueVars, timed,
                 localVars>>

DropStep(p) ==
  \/ ptlrpc_server_drop_request(p) \/ TestLinked(p) \/ DropTimed(p)
  \/ BufferDone(p) \/ RequestKept(p) \/ RequestNotKept(p)
  \/ ptlrpc_server_free_request(p)

PostStep(t) ==
  \/ \E b \in Buffers : ptlrpc_alloc_rqbd(t, b)
  \/ \E enomem \in BOOLEAN : ptlrpc_grow_req_bufs(t, enomem)
  \/ ptlrpc_server_post_idle_rqbds(t)
  \/ ptlrpc_register_rqbd(t) \/ PostFails(t) \/ SetTimeout(t)

EarlyStep(t) ==
  \/ ptlrpc_at_check_timed(t)
  \/ \E s \in timed : ptlrpc_at_remove_timed(t, s)
  \/ atomic_inc_not_zero(t) \/ CheckTimedEnd(t)
  \/ \E s \in work[t] : ptlrpc_at_send_early_reply(t, s)
  \/ ptlrpc_at_add_timed(t)

ThreadStep(t) ==
  \/ WaitSleep(t) \/ WaitStop(t)
  \/ ptlrpc_wait_event(t) \/ ptlrpc_retry_rqbds(t)
  \/ PostStep(t)
  \/ ptlrpc_server_handle_req_in(t)
  \/ ptlrpc_server_request_add(t) \/ ReqInError(t)
  \/ EarlyStep(t)
  \/ \E s \in queued : ptlrpc_server_handle_request(t, s)
  \/ PostAtEnd(t)
  \/ DropStep(t)

UnregisterStep ==
  \/ ptlrpc_service_unlink_rqbd \/ BuffersUnlinked
  \/ \E s \in waiting \union queued : PurgeRequest(s)
  \/ PurgeAsserts \/ ptlrpc_free_rqbd
  \/ DropStep(Unregister)

Next ==
  \/ \E b \in Buffers, unlinked \in BOOLEAN : request_in_callback(b, unlinked)
  \/ \E max \in HistMaxes : req_history_max_seq_write(max)
  \/ \E t \in Threads : ptlrpc_at_timer(t) \/ ThreadStep(t)
  \/ ptlrpc_unregister_service \/ UnregisterStep

Spec == Init /\ [][Next]_vars

\* Threads that can run do.  Requests do not stay queued for ever (see
\* PtlrpcRequests).  Among the sleeps of the threads is one that outlasts its
\* timeout: deadlines are seconds apart.  The network does not for ever
\* refuse the buffers it is offered.
FairSpec ==
  /\ Spec
  /\ \A t \in Threads : WF_vars(ThreadStep(t))
  /\ SF_vars(\E t \in Threads : ptlrpc_register_rqbd(t))
  /\ SF_vars(\E t \in Threads : ptlrpc_retry_rqbds(t))
  /\ SF_vars(\E t \in Threads, s \in queued :
               ptlrpc_server_handle_request(t, s))

(***************************************************************************)
(* Properties.                                                             *)
(***************************************************************************)
Labels == {"wait", "asleep", "exit", "alloc", "post", "register",
           "failed", "requests", "taken", "serve", "early", "sent",
           "handle", "last", "drop", "dropped", "cull", "purge",
           "free", "none"}

\* The types of the state.
BufferTypes ==
  /\ scp_rqbd_idle \in Seq(Buffers) /\ scp_rqbd_posted \subseteq Buffers
  /\ scp_hist_rqbds \in Seq(Buffers)
  /\ scp_nrqbds_posted \in Nat /\ scp_nrqbds_total \in Nat
  /\ scp_rqbd_allocating \in {0, 1} /\ scp_rqbd_timeout \in BOOLEAN
  /\ i \in 0..srv_nbuf_per_group
  /\ rqbd_refcount \in [Buffers -> Nat]
  /\ rqbd_reqs \in [Buffers -> SUBSET Requests]
  /\ attached \subseteq Buffers
  /\ srv_hist_nrqbds_cpt_max \in HistMaxes \union {0}
  /\ scp_hist_seq \in {0} \union Requests
  /\ scp_hist_seq_culled \in {0} \union Requests
  /\ scp_hist_reqs \subseteq Requests
  /\ rq_rqbd \in [Requests -> Buffers \union {None}]
  /\ rq_refcount \in [Requests -> Nat]
  /\ embedded \subseteq Requests /\ live \subseteq Requests
  /\ waiting \subseteq Requests /\ queued \subseteq Requests
  /\ timed \subseteq Requests
  /\ pc \in [Procs -> Labels] /\ back \in [Procs -> Labels]
  /\ rqbd \in [Procs -> Buffers \union {None}]
  /\ req \in [Procs -> {0} \union Requests]
  /\ work \in [Procs -> SUBSET Requests]
  /\ lwi \in [Threads -> BOOLEAN]
  /\ stop \in {"no", "threads", "unlink", "purge", "purging", "lbug", "freed"}

TypeOK ==
  /\ BufferTypes
  /\ at \in [Procs -> {"none", "check", "peek", "lost", "linked", "unlinked"}]
  /\ rq \in [Procs -> {0} \union Requests]

Registering == {t \in Threads : pc[t] = "register"}
Culling == {p \in Procs : pc[p] = "cull"}

\* Every buffer is in one place only (the idle list, the posted list, the
\* history, or with the one who empties it), scp_nrqbds_total counts them
\* all, and scp_nrqbds_posted those that the network has or is being offered,
\* although the list of posted buffers is longer.
BuffersAccounted ==
  /\ TypeOK
  /\ scp_nrqbds_total = Cardinality(Allocated)
  /\ scp_nrqbds_total = Len(scp_rqbd_idle) + Cardinality(scp_rqbd_posted)
                          + Len(scp_hist_rqbds) + Cardinality(Culling)
  /\ scp_nrqbds_posted = Cardinality(attached) + Cardinality(Registering)
  /\ attached \subseteq scp_rqbd_posted
  /\ \A t \in Registering : rqbd[t] \in scp_rqbd_posted \ attached

\* Requests that still hold their buffer.
Holding(b) ==
  {s \in live : rq_rqbd[s] = b /\ s \notin rqbd_reqs[b]}

\* A buffer has a reference for each request that is not finished and one for
\* the network: it is never offered to the network, emptied or freed while a
\* request in it is in use, and its embedded request is never overwritten.
BufferHeld ==
  \A b \in Buffers :
    /\ rqbd_refcount[b] = Cardinality(Holding(b))
                            + (IF b \in attached THEN 1 ELSE 0)
    /\ Cardinality({s \in live \intersect embedded : rq_rqbd[s] = b}) <= 1
    /\ b \in attached => \A s \in live \intersect embedded : rq_rqbd[s] # b

\* Nobody can reach a request that is freed: no queue, no thread, not the
\* timed list or an early reply in the making, nor the history.  The one
\* exception is the request that ptlrpc_at_check_timed has just taken off the
\* timed list and is about to take a reference to: it may be freed, with a
\* count of 0 that is still there as long as the memory is not used again.
NoDangling ==
  /\ waiting \union queued \union timed \union scp_hist_reqs \subseteq live
  /\ \A p \in Procs : work[p] \union ({req[p]} \ {0}) \subseteq live
  /\ \A p \in Procs : rq[p] # 0 /\ rq[p] \notin live => rq_refcount[rq[p]] = 0
  /\ \A b \in Buffers : rqbd_reqs[b] \subseteq live
                          /\ rqbd_reqs[b] \intersect timed = {}

\* A reader of the history keeps a pointer to a request, and follows it only
\* if its sequence number is above scp_hist_seq_culled: the request is then
\* still listed.
CursorSafe ==
  \A s \in 1..scp_hist_seq : s > scp_hist_seq_culled => s \in scp_hist_reqs

\* LASSERT(list_empty(&svcpt->scp_rqbd_posted)) of ptlrpc_service_purge_all:
\* with the last request the last buffer leaves the posted list, for the
\* history or the idle list.  A purge that ends has freed every buffer.  (That
\* the history is empty, the LASSERT next to it, is not claimed: see 3.3 of the
\* README.)
PurgeFrees ==
  /\ pc[Unregister] = "purge" /\ waiting \union queued = {} =>
       scp_rqbd_posted = {}
  /\ stop = "freed" => scp_nrqbds_total = 0

\* A service with idle buffers and none at the network, where no message can
\* arrive to wake anybody, has the network take one: failures to post are
\* retried.  (A thread that followed a freed request is excepted: it holds
\* scp_at_lock for ever.)
PostedAgain ==
  (attached = {} /\ scp_rqbd_idle # <<>>)
    ~> (attached # {} \/ srv_is_stopping \/ \E t \in Threads : at[t] = "lost")
==============================================================================
