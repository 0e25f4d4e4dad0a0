----------------------------- MODULE NrsTbfSched -----------------------------
(***************************************************************************)
(* The scheduling half of the TBF policy (source/build/metric/nrs_tbf.c):  *)
(* the per-client token buckets, the heap of clients that have queued      *)
(* requests, the throttling flag of the NRS head, the high-resolution      *)
(* timer that lifts it, and the service threads that fetch requests.       *)
(*                                                                         *)
(* scp_req_lock serialises res_get's reset, req_add, req_get and req_del.  *)
(* The timer callback takes no lock, so its two effects (clear             *)
(* nrs_throttling, wake the wait queue) are two actions that everything    *)
(* else may come between; and req_add, which tests nrs_throttling first    *)
(* and restarts the timer afterwards, is two actions for the same reason.  *)
(***************************************************************************)
EXTENDS Integers, FiniteSets, TLC

CONSTANTS
  Clients,        \* keys (NIDs or job ids) that requests come from
  Threads,        \* service threads of the service partition
  Rates,          \* RPC rates a rule may give a client (tr_rpc_rate)
  Offered,        \* the rates of the rules that match a client
  Depth,          \* tbf_depth
  NSEC_PER_SEC,   \* clock units in a second
  WORD,           \* modulus of a __u64
  Observed,       \* the client, any one of them, whose throughput is measured
  Horizon,        \* bound: after it the environment is quiet
  MaxQueue,       \* bound: requests queued at one client
  MaxBuckets      \* bound: buckets of Observed within one window

ASSUME RatesAssumption == /\ Rates \subseteq Nat \ {0}
                          /\ Offered \in [Clients -> SUBSET Rates]
ASSUME DepthAssumption == Depth \in Nat \ {0}
ASSUME ClockAssumption == /\ NSEC_PER_SEC \in Nat \ {0}
                          /\ WORD \in Nat \ {0}
ASSUME ObservedAssumption == Observed \in Clients
ASSUME BoundAssumption == Horizon \in Nat /\ MaxQueue \in Nat /\ MaxBuckets \in Nat

VARIABLES
  now,            \* ktime_get()
  started,        \* the policy is between nrs_tbf_start and nrs_tbf_stop
  th_cli_hash,    \* keys for which a struct nrs_tbf_client exists
  tc_rpc_rate, tc_nsecs, tc_ntoken, tc_check_time,   \* the token buckets
  tc_list,        \* number of requests on cli->tc_list
  adding,         \* the client whose req_add, holding scp_req_lock, found
                  \* nrs_throttling set: {} or a set of one
  th_binheap,     \* clients in head->th_binheap (tc_in_heap of each)
  order,          \* of the heap: "tbf", "sscdt", or "mixed" if hop_compare was
                  \* set back while clients were in the heap
  nrs_throttling, \* nrs->nrs_throttling
  th_deadline,    \* head->th_deadline, the expiry of th_timer
  th_timer,       \* "idle", or "armed" for th_deadline
  timer_cb,       \* "idle", or the next step of the running callback
  thread,         \* "run" or "sleep" (on scp_waitq) for each thread
  win_start,      \* observer: start of a measuring window
  win_sent,       \* observer: Observed's requests started in that window
  win_buckets     \* observer: full buckets Observed had in that window: the one
                  \* it began with, and one for each time it was created anew

clientVars == <<tc_rpc_rate, tc_nsecs, tc_ntoken, tc_check_time>>
timerVars == <<nrs_throttling, th_deadline, th_timer, timer_cb>>
winVars == <<win_start, win_sent, win_buckets>>
vars == <<now, started, th_cli_hash, clientVars, tc_list, adding, th_binheap,
          order, timerVars, thread, winVars>>

(***************************************************************************)
(* Arithmetic of the bucket.                                               *)
(***************************************************************************)
\* rule->tr_nsecs of a rule with rate r.
Nsecs(r) == NSEC_PER_SEC \div r

\* The key the heap sorts by: the moment the next token is due.
Deadline(c) == tc_check_time[c] + tc_nsecs[c]

\* The tokens nrs_tbf_req_get finds in c's bucket.  The product is a __u64.
Ntoken(c) ==
  LET accrued == (((now - tc_check_time[c]) * tc_rpc_rate[c]) % WORD)
                   \div NSEC_PER_SEC
      sum     == accrued + tc_ntoken[c]
  IN  IF sum > Depth THEN Depth ELSE sum

\* tbf_cli_compare: earlier deadline first, then the longer-untouched client.
tbf_cli_compare(c, d) ==
  \/ Deadline(c) < Deadline(d)
  \/ /\ Deadline(c) = Deadline(d)
     /\ tc_check_time[c] <= tc_check_time[d]

\* What cfs_binheap_root may return.  The heap keeps a least element at its
\* root, and tbf_cli_compare leaves the choice between equal ones open.  The
\* SSCDT comparison takes the nodes of clients for those of requests and reads
\* what lies around them, so it says anything.
Roots == IF order = "tbf"
         THEN {c \in th_binheap : \A d \in th_binheap : tbf_cli_compare(c, d)}
         ELSE th_binheap

(***************************************************************************)
(* Waking and waiting on scp_waitq.                                        *)
(***************************************************************************)
\* wake_up: the waiters are exclusive, so at most one of them runs.
WakeUp ==
  IF \E t \in Threads : thread[t] = "sleep"
  THEN \E t \in Threads : /\ thread[t] = "sleep"
                          /\ thread' = [thread EXCEPT ![t] = "run"]
  ELSE UNCHANGED thread

\* The condition of ptlrpc_wait_event, as far as this policy decides it.
RequestPending == th_binheap # {} /\ ~nrs_throttling

Init ==
  /\ now = 0
  /\ started = FALSE
  /\ th_cli_hash = {}
  /\ tc_rpc_rate \in {f \in [Clients -> Rates] : \A c \in Clients : f[c] \in Offered[c]}
  /\ tc_nsecs = [c \in Clients |-> Nsecs(tc_rpc_rate[c])]
  /\ tc_ntoken = [c \in Clients |-> Depth]
  /\ tc_check_time = [c \in Clients |-> 0]
  /\ tc_list = [c \in Clients |-> 0]
  /\ th_binheap = {}
  /\ order = "tbf"
  /\ nrs_throttling = FALSE
  /\ th_deadline = 0
  /\ th_timer = "idle"
  /\ timer_cb = "idle"
  /\ thread = [t \in Threads |-> "run"]
  /\ win_start = 0
  /\ win_sent = 0
  /\ win_buckets = 0
  /\ adding = {}

(***************************************************************************)
(* The policy's operations.                                                *)
(***************************************************************************)
nrs_tbf_start ==
  /\ ~started /\ now < Horizon
  /\ started' = TRUE
  /\ UNCHANGED <<now, th_cli_hash, clientVars, tc_list, adding, th_binheap, order, timerVars,
                 thread, winVars>>

\* nrs_tbf_stop.  hrtimer_cancel waits for a running callback; the NRS core
\* stops a policy only when none of its requests is queued (the LASSERT on
\* cfs_binheap_is_empty).
nrs_tbf_stop ==
  /\ started /\ now < Horizon
  /\ th_binheap = {}
  /\ timer_cb = "idle"
  /\ started' = FALSE
  /\ th_cli_hash' = {}
  /\ th_timer' = "idle"
  /\ nrs_throttling' = FALSE
  /\ WakeUp
  /\ UNCHANGED <<now, clientVars, tc_list, adding, th_binheap, order, th_deadline, timer_cb,
                 winVars>>

\* A full bucket for c, with a rule of rate r, that starts now.
Refill(c, r) ==
  /\ tc_rpc_rate' = [tc_rpc_rate EXCEPT ![c] = r]
  /\ tc_nsecs' = [tc_nsecs EXCEPT ![c] = Nsecs(r)]
  /\ tc_ntoken' = [tc_ntoken EXCEPT ![c] = Depth]
  /\ tc_check_time' = [tc_check_time EXCEPT ![c] = now]

\* The window of Observed starts over, with one full bucket.
NewWindow(c) ==
  IF c = Observed THEN win_start' = now /\ win_sent' = 0 /\ win_buckets' = 1
                  ELSE UNCHANGED winVars

\* nrs_tbf_cli_reset_value on a client in use whose rule, or the rate of whose
\* rule, has changed: the bucket is refilled, and the client's place in the heap
\* brought up to date.  The change ends the window.
nrs_tbf_cli_reset_value(c, r) ==
  /\ c \in th_cli_hash /\ now < Horizon
  /\ adding = {}
  /\ Refill(c, r)
  /\ NewWindow(c)
  /\ UNCHANGED <<now, started, th_cli_hash, tc_list, adding, th_binheap, order,
                 timerVars, thread>>

\* nrs_tbf_cli_init, for a key that has no client: never had one, or it was
\* purged, or the policy was restarted.  Without a lock.  The window of a key
\* whose rule has remained the same goes on, with one bucket more.
nrs_tbf_cli_init(c, r) ==
  /\ started /\ now < Horizon
  /\ c \notin th_cli_hash
  /\ c = Observed => win_buckets < MaxBuckets
  /\ th_cli_hash' = th_cli_hash \union {c}
  /\ Refill(c, r)
  /\ IF c = Observed /\ r = tc_rpc_rate[c]
     THEN win_buckets' = win_buckets + 1 /\ UNCHANGED <<win_start, win_sent>>
     ELSE NewWindow(c)
  /\ UNCHANGED <<now, started, tc_list, adding, th_binheap, order, timerVars, thread>>

\* nrs_tbf_cli_fini: an unused client is freed (the purge of the job id LRU).
nrs_tbf_cli_fini(c) ==
  /\ now < Horizon
  /\ c \in th_cli_hash /\ tc_list[c] = 0
  /\ th_cli_hash' = th_cli_hash \ {c}
  /\ UNCHANGED <<now, started, clientVars, tc_list, adding, th_binheap, order, timerVars,
                 thread, winVars>>

\* nrs_tbf_sscdt_start and nrs_tbf_sscdt_stop: the command of any TBF instance
\* exchanges the comparison function of all heaps, and leaves what is in them.
\* tbf_tw_interval, which they set too, only the SSCDT comparison reads.
nrs_tbf_sscdt_start ==
  /\ now < Horizon
  /\ order' = "sscdt"
  /\ UNCHANGED <<now, started, th_cli_hash, clientVars, tc_list, adding, th_binheap,
                 timerVars, thread, winVars>>

nrs_tbf_sscdt_stop ==
  /\ now < Horizon
  /\ order' = IF order = "sscdt" /\ th_binheap # {} THEN "mixed"
              ELSE IF order = "sscdt" THEN "tbf" ELSE order
  /\ UNCHANGED <<now, started, th_cli_hash, clientVars, tc_list, adding, th_binheap,
                 timerVars, thread, winVars>>

\* nrs_tbf_req_add: c goes to the heap with its first request.  If the head is
\* throttled, the timer is looked at next; else the operation is over, and
\* ptlrpc_server_handle_req_in wakes a thread.
nrs_tbf_req_add(c) ==
  /\ c \in th_cli_hash /\ now < Horizon
  /\ adding = {}
  /\ tc_list[c] < MaxQueue
  /\ th_binheap' = th_binheap \union {c}
  /\ tc_list' = [tc_list EXCEPT ![c] = @ + 1]
  /\ IF tc_list[c] = 0 /\ nrs_throttling THEN adding' = {c} /\ UNCHANGED thread
                                         ELSE WakeUp /\ UNCHANGED adding
  /\ UNCHANGED <<now, started, th_cli_hash, clientVars, order, timerVars, winVars>>

\* Mutant of RearmEarlier: the timer is cancelled and not started again.
RearmForgotten(c) ==
  /\ adding = {c}
  /\ adding' = {}
  /\ IF th_deadline > Deadline(c) /\ timer_cb = "idle"
     THEN th_deadline' = Deadline(c) /\ th_timer' = "idle"
     ELSE UNCHANGED <<th_deadline, th_timer>>
  /\ WakeUp
  /\ UNCHANGED <<now, started, th_cli_hash, clientVars, tc_list, th_binheap, order,
                 nrs_throttling, timer_cb, winVars>>

\* The rest of nrs_tbf_req_add: a timer set for later than c's next token is
\* restarted, unless hrtimer_try_to_cancel finds the callback running.  By now
\* the callback may have cleared nrs_throttling: then the timer runs for nothing.
RearmEarlier(c) ==
  /\ adding = {c}
  /\ adding' = {}
  /\ IF th_deadline > Deadline(c) /\ timer_cb = "idle"
     THEN th_deadline' = Deadline(c) /\ th_timer' = "armed"
     ELSE UNCHANGED <<th_deadline, th_timer>>
  /\ WakeUp
  /\ UNCHANGED <<now, started, th_cli_hash, clientVars, tc_list, th_binheap, order,
                 nrs_throttling, timer_cb, winVars>>

\* nrs_tbf_req_add, and cfs_binheap_insert cannot grow the heap: the request
\* goes to the fallback policy, for which a thread is woken.
InsertFails(c) ==
  /\ c \in th_cli_hash /\ now < Horizon
  /\ adding = {} /\ tc_list[c] = 0
  /\ WakeUp
  /\ UNCHANGED <<now, started, th_cli_hash, clientVars, tc_list, adding, th_binheap,
                 order, timerVars, winVars>>

\* An empty heap has no order to repair.
Settle == order' = IF th_binheap' = {} /\ order = "mixed" THEN "tbf" ELSE order

\* Mutant of Unlink: a client leaves the heap with requests still queued.
UnlinkEarly(c) ==
  /\ tc_list' = [tc_list EXCEPT ![c] = @ - 1]
  /\ th_binheap' = th_binheap \ {c}
  /\ Settle

\* Taking one request off c's list; the last one takes c out of the heap.
Unlink(c) ==
  /\ tc_list' = [tc_list EXCEPT ![c] = @ - 1]
  /\ th_binheap' = IF tc_list[c] = 1 THEN th_binheap \ {c} ELSE th_binheap
  /\ Settle

\* nrs_tbf_req_del: a queued request leaves the policy without being started.
nrs_tbf_req_del(c) ==
  /\ now < Horizon /\ adding = {}
  /\ tc_list[c] > 0
  /\ Unlink(c)
  /\ UNCHANGED <<now, started, th_cli_hash, clientVars, adding, timerVars, thread,
                 winVars>>

\* Mutant of Dispatch: the bucket's check time is left alone, so the same time
\* pays for tokens again and again.
DispatchStaleTime(c) ==
  /\ Ntoken(c) > 0
  /\ tc_ntoken' = [tc_ntoken EXCEPT ![c] = Ntoken(c) - 1]
  /\ Unlink(c)
  /\ win_sent' = IF c = Observed THEN win_sent + 1 ELSE win_sent
  /\ UNCHANGED <<tc_rpc_rate, tc_nsecs, tc_check_time, timerVars, win_start,
                 win_buckets>>

\* Mutant of Dispatch: the token is not taken.
DispatchFree(c) ==
  /\ Ntoken(c) > 0
  /\ tc_ntoken' = [tc_ntoken EXCEPT ![c] = Ntoken(c)]
  /\ tc_check_time' = [tc_check_time EXCEPT ![c] = now]
  /\ Unlink(c)
  /\ win_sent' = IF c = Observed THEN win_sent + 1 ELSE win_sent
  /\ UNCHANGED <<tc_rpc_rate, tc_nsecs, timerVars, win_start,
                 win_buckets>>

\* Mutant of Dispatch: the test for a token is off by one.
DispatchEmpty(c) ==
  /\ Ntoken(c) >= 0
  /\ tc_ntoken' = [tc_ntoken EXCEPT ![c] = Ntoken(c) - 1]
  /\ tc_check_time' = [tc_check_time EXCEPT ![c] = now]
  /\ Unlink(c)
  /\ win_sent' = IF c = Observed THEN win_sent + 1 ELSE win_sent
  /\ UNCHANGED <<tc_rpc_rate, tc_nsecs, timerVars, win_start,
                 win_buckets>>

\* nrs_tbf_req_get, root c has a token: its first request is started.
Dispatch(c) ==
  /\ Ntoken(c) > 0
  /\ tc_ntoken' = [tc_ntoken EXCEPT ![c] = Ntoken(c) - 1]
  /\ tc_check_time' = [tc_check_time EXCEPT ![c] = now]
  /\ Unlink(c)
  /\ win_sent' = IF c = Observed THEN win_sent + 1 ELSE win_sent
  /\ UNCHANGED <<tc_rpc_rate, tc_nsecs, timerVars, win_start,
                 win_buckets>>

\* nrs_tbf_req_get, root c has no token: the whole NRS head is throttled
\* until c's next token is due.
Throttle(c) ==
  /\ Ntoken(c) <= 0
  /\ nrs_throttling' = TRUE
  /\ th_deadline' = Deadline(c)
  /\ th_timer' = "armed"
  /\ UNCHANGED <<clientVars, tc_list, th_binheap, order, timer_cb, winVars>>

\* A running thread fetches: ptlrpc_server_request_get calls nrs_tbf_req_get.
nrs_tbf_req_get(t) ==
  /\ thread[t] = "run"
  /\ RequestPending /\ adding = {}
  /\ \E c \in Roots : Dispatch(c) \/ Throttle(c)
  /\ UNCHANGED <<now, started, th_cli_hash, adding, thread>>

\* ptlrpc_wait_event: a thread that finds nothing pending sleeps.
ptlrpc_wait_event(t) ==
  /\ thread[t] = "run"
  /\ ~RequestPending
  /\ thread' = [thread EXCEPT ![t] = "sleep"]
  /\ UNCHANGED <<now, started, th_cli_hash, clientVars, tc_list, adding, th_binheap, order,
                 timerVars, winVars>>

(***************************************************************************)
(* The timer and the clock.                                                *)
(***************************************************************************)
TimerExpires ==
  /\ th_timer = "armed" /\ timer_cb = "idle"
  /\ now >= th_deadline
  /\ th_timer' = "idle"
  /\ timer_cb' = "clear"
  /\ UNCHANGED <<now, started, th_cli_hash, clientVars, tc_list, adding, th_binheap, order,
                 nrs_throttling, th_deadline, thread, winVars>>

\* nrs_tbf_timer_cb: nrs->nrs_throttling = 0.
TimerCbClear ==
  /\ timer_cb = "clear"
  /\ nrs_throttling' = FALSE
  /\ timer_cb' = "wake"
  /\ UNCHANGED <<now, started, th_cli_hash, clientVars, tc_list, adding, th_binheap, order,
                 th_deadline, th_timer, thread, winVars>>

\* Mutant of TimerCbWake: the sleepers are not woken.
TimerCbSilent ==
  /\ timer_cb = "wake"
  /\ timer_cb' = "idle"
  /\ UNCHANGED <<now, started, th_cli_hash, clientVars, tc_list, adding, th_binheap, order,
                 nrs_throttling, th_deadline, th_timer, thread, winVars>>

\* nrs_tbf_timer_cb: wake_up(&svcpt->scp_waitq), then HRTIMER_NORESTART.
TimerCbWake ==
  /\ timer_cb = "wake"
  /\ WakeUp
  /\ timer_cb' = "idle"
  /\ UNCHANGED <<now, started, th_cli_hash, clientVars, tc_list, adding, th_binheap, order,
                 nrs_throttling, th_deadline, th_timer, winVars>>

\* The clock.  After the horizon it moves only while the next client in line
\* of a heap in TBF order still lacks its token or the timer still runs, so that
\* the bounded model can drain its queues.
Tick ==
  /\ \/ now < Horizon
     \/ order = "tbf" /\ \E c \in Roots : Ntoken(c) = 0
     \/ th_timer = "armed" /\ now < th_deadline
  /\ now' = now + 1
  /\ UNCHANGED <<started, th_cli_hash, clientVars, tc_list, adding, th_binheap, order,
                 timerVars, thread, winVars>>

\* The observer starts a new measuring window at an arbitrary moment.
OpenWindow ==
  /\ now < Horizon
  /\ win_start' = now
  /\ win_sent' = 0
  /\ win_buckets' = IF Observed \in th_cli_hash THEN 1 ELSE 0
  /\ UNCHANGED <<now, started, th_cli_hash, clientVars, tc_list, adding, th_binheap, order,
                 timerVars, thread>>

TimerCb == TimerExpires \/ TimerCbClear \/ TimerCbWake

ThreadStep(t) == nrs_tbf_req_get(t) \/ ptlrpc_wait_event(t)

Next ==
  \/ nrs_tbf_start
  \/ nrs_tbf_stop
  \/ \E c \in Clients : \E r \in Offered[c] :
       nrs_tbf_cli_init(c, r) \/ nrs_tbf_cli_reset_value(c, r)
  \/ \E c \in Clients : nrs_tbf_cli_fini(c)
  \/ nrs_tbf_sscdt_start
  \/ nrs_tbf_sscdt_stop
  \/ \E c \in Clients : nrs_tbf_req_add(c) \/ RearmEarlier(c) \/ InsertFails(c)
  \/ \E c \in Clients : nrs_tbf_req_del(c)
  \/ \E t \in Threads : ThreadStep(t)
  \/ TimerCb
  \/ Tick
  \/ OpenWindow

Spec == Init /\ [][Next]_vars

\* The kernel schedules every runnable service thread, the one in req_add too,
\* the clock advances and an expired timer runs its callback.
FairSpec ==
  /\ Spec
  /\ WF_vars(\E c \in Clients : RearmEarlier(c))
  /\ \A t \in Threads : WF_vars(ThreadStep(t))
  /\ WF_vars(TimerCb)
  /\ WF_vars(Tick)

(***************************************************************************)
(* Properties.                                                             *)
(***************************************************************************)
\* The types of the state; a bucket holds at most Depth tokens
\* (nrs_tbf_req_get caps what has accrued at tc_depth).
TypeOK ==
  /\ now \in Nat
  /\ started \in BOOLEAN
  /\ th_cli_hash \subseteq Clients
  /\ tc_rpc_rate \in [Clients -> Rates]
  /\ tc_nsecs \in [Clients -> Nat]
  /\ tc_ntoken \in [Clients -> 0..Depth]
  /\ tc_check_time \in [Clients -> Nat]
  /\ tc_list \in [Clients -> Nat]
  /\ th_binheap \subseteq Clients
  /\ order \in {"tbf", "sscdt", "mixed"}
  /\ nrs_throttling \in BOOLEAN
  /\ th_deadline \in Nat
  /\ th_timer \in {"idle", "armed"}
  /\ timer_cb \in {"idle", "clear", "wake"}
  /\ thread \in [Threads -> {"run", "sleep"}]
  /\ win_start \in Nat
  /\ win_sent \in Nat
  /\ win_buckets \in Nat
  /\ adding \subseteq Clients

\* The rate limit (nrs_tbf_req_get): in whatever window one looks, a client
\* (Observed is any of them) whose rule has not changed gets at most the full
\* buckets it had plus its rate times the length of the window, however late
\* threads and timer run.  That is one bucket, of Depth requests, as long as the
\* client stays in the hash; each time it is created anew, after a purge of the
\* job id LRU or a restart of the policy, adds another.
RateBound ==
  win_sent * NSEC_PER_SEC
    <= win_buckets * Depth * NSEC_PER_SEC
         + (now - win_start) * tc_rpc_rate[Observed]

\* The bucket invariant behind RateBound: what has been started in the window
\* and what is left in the bucket were both paid for.
BucketBound ==
  /\ win_start <= now
  /\ Observed \in th_cli_hash => win_buckets > 0
  /\ win_sent > 0 =>
       /\ win_start <= tc_check_time[Observed]
       /\ (win_sent + tc_ntoken[Observed]) * NSEC_PER_SEC
            <= win_buckets * Depth * NSEC_PER_SEC
                 + (tc_check_time[Observed] - win_start)
                     * tc_rpc_rate[Observed]

\* nrs_throttling is never left set without somebody who will clear it: the
\* timer is armed or its callback is on its way; and neither survives
\* nrs_tbf_stop, which frees the head the timer lives in.  (The converse fails:
\* a timer that RearmEarlier restarts too late runs with the flag clear.)
ThrottleHasOwner ==
  /\ nrs_throttling => th_timer = "armed" \/ timer_cb = "clear"
  /\ ~started => ~nrs_throttling /\ th_timer = "idle" /\ timer_cb = "idle"

\* The heap holds exactly the clients with queued requests (the LASSERTs on
\* tc_in_heap in req_add and req_get), each of them a client that has not been
\* freed by a policy that has not been stopped, and no bucket is dated in the
\* future (LASSERT(now >= cli->tc_check_time)).
HeapMatchesQueues ==
  /\ \A c \in Clients : c \in th_binheap <=> tc_list[c] > 0
  /\ th_binheap \subseteq th_cli_hash
  /\ th_cli_hash # {} => started
  /\ adding \subseteq th_binheap
  /\ \A c \in Clients : tc_check_time[c] <= now

\* The policy implements the rate limiter's promise to Observed: every request
\* that nrs_tbf_req_get starts fits in the window, whatever the window is.
Limiter == INSTANCE RateLimiter WITH known <- Observed \in th_cli_hash,
                                     rate <- tc_rpc_rate[Observed],
                                     queued <- tc_list[Observed]
ImplementsRateLimiter == Limiter!Spec

\* A request that is queued is eventually started (or removed): throttling,
\* an early timer and exclusive wake-ups never strand it, while the heap is in
\* the order of tbf_cli_compare.
QueuesDrain ==
  \A c \in Clients : tc_list[c] > 0 ~> (tc_list[c] = 0 \/ order # "tbf")
==============================================================================
