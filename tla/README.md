# Specifications of LustreTools

LustreTools changes Lustre 2.8: it adds two request scheduling policies (SSCDT, and an extended TBF), client-side QoS
rules that steer the number of RPCs in flight, a server-side bandwidth limit (lfz), and shell scripts that build,
deploy and test a cluster. The repository keeps the changed kernel files whole, so the machinery that these additions
sit in (the ptlrpc service with its threads, requests and replies) is part of it.

This directory holds TLA+ modules for the parts whose correctness depends on interleaving, ordering and arithmetic,
the TLC configurations that check them, and TLAPS proofs: the safety properties of both scheduling policies, of the
QoS rules and of the service's threads, requests, replies and request buffers, for every size of the system. Only the
bandwidth limit and the walk of the rule list, whose runs show violations, have none.
File names below are relative to `src/source/build/metric/` unless they start with another directory.

## 1. The system

### 1.1 Components, their state and operations

| component | state | operations | source |
|---|---|---|---|
| TBF scheduling | per client: token bucket (`tc_ntoken`, `tc_check_time`, rate, depth) and queue; heap of clients with requests; `nrs_throttling`; hrtimer | start, stop, add, get, del, timer callback | `nrs_tbf.c`, `lustre_nrs_tbf.h` |
| TBF rules | rule list, sequence number, generations, reference counts; each client's cached rule | start, change, stop a rule; match in `nrs_tbf_res_get` | `nrs_tbf.c` |
| TBF client cache | hash of clients with reference counts; LRU for job ids | find, findadd, put, purge, destroy | `nrs_tbf.c` |
| SSCDT order in TBF | comparison of the heap and interval, both global | start and stop sscdt | `nrs_tbf.c` |
| TBF commands | parsed command | parse, control | `nrs_tbf.c` |
| SSCDT policy | binary heap of requests per queue; the global `interval` | start, stop, ctl, res_get, res_put, add, get, del, req_stop | `code/nrs_sscdt.c`, `code/lustre_nrs_sscdt.h` |
| ptlrpc threads | thread list, flags, counters starting/running, limit | register, start on demand, stop | `service.c` |
| ptlrpc requests | incoming list, NRS queues, active counters, export's list | receive, take in, fetch, handle, finish, purge | `service.c` |
| ptlrpc difficult replies | reply state flags, lists per export and partition, handler queues | send, ack, commit, schedule, handle, purge | `service.c` |
| ptlrpc request buffers, adaptive timeouts | lists of idle, posted and past buffers with reference counts; requests in them; history; timed array | allocate, post, fill, drop a request, cull, early reply, unlink, purge | `service.c`, `lproc_ptlrpc.c` |
| QoS rules | rule array, `max_rpc_in_flight100`, `cl_max_rpcs_in_flight`, request pool | write, show, adjust, administrator's write | `qos_rules.c`, `osc_request.c`, `lproc_osc.c` |
| QoS throttling | `last_rpc_time`, `min_usec_between_rpcs` | `qos_throttle`, set the gap | `metric.h` |
| lfz limit | budget of the current second | `throttle_bandwidth` | `../lfz/lfz.c` |
| OSC cache and requests, OBD devices, targets, wire format, proc files | upstream Lustre with small changes | | `osc_cache.c`, `genops.c`, `tgt_handler.c`, `pack_generic.c`, ... |
| cluster scripts | signal files on the nodes | run, poll, wait | `batch/` |

### 1.2 Interaction

The network fills a posted buffer with a message and puts a request on a partition's incoming list. A service thread takes it in, asks the NRS policy for the
request's resources (TBF: looks its client up, matches it with a rule) and queues it. A thread that finds a request it may
start fetches it from the policy, handles it, and sends a reply. A policy that holds requests back
sets `nrs_throttling` and arms a timer, whose callback clears the flag and wakes threads. A reply that saved locks is
filed with the export; network, journal, disconnect and shutdown each may hand it to the reply handling threads.
A request that is done leaves its buffer, which enters the history with its requests and is posted again when the history
is culled. Administrators change rules, limits, the length of the history and the width of time windows through proc files at any time. On the client, every completed bulk RPC may
change the number of RPCs in flight, and every RPC to be sent passes `qos_throttle`.

### 1.3 What is hard

* Locks cover less than the data they are thought to cover: rule commands hold `nrs_lock`, lookups `scp_req_lock`, and
  only the list search shares `th_rule_lock`; `qos_adjust` drops its lock before it applies what it computed; thread
  creation is decided without a lock; `ptlrpc_handle_rs` drops `rs_lock` in the middle, the culling of the history drops
  `scp_lock`; `interval` of SSCDT is written under `nrs_lock` while heaps compare under `scp_req_lock`.
* Callbacks take no lock: the hrtimer callback clears the flag and wakes threads in two steps, and `nrs_tbf_req_add` tests
  the flag before it restarts the timer.
* Waiting: exclusive wake-ups, threads kept back for high priority requests, a timer that may fire a little early,
  shutdown waiting for replies and threads.
* Arithmetic: token counts rounded down and capped in unsigned 64 bits, a budget that is unsigned where a negative value is tested for, a
  wall clock that may be set back.
* Reference counts of rules, clients, policies, requests and buffers across all of that.
* Half-done work: failed allocation, `kthread_run`, registration or parsing.

The hazards are listed one by one, with source lines and the properties that cover them, in `PROJECT.json`.

## 2. Modules

State variables and actions carry the names of the fields and functions they stand for; `PROJECT.json` ("map") gives
the source lines of every definition. Definitions whose comment begins with "Mutant of" are wrong
variants of the code, used to see that the properties notice.

| module | models | grain of a step |
|---|---|---|
| `NrsTbfSched` | buckets, heap, throttling, timer, fetching threads | one section of `scp_req_lock`, `nrs_tbf_req_add` in two steps; the timer callback in two steps |
| `RateLimiter` | abstract: what the policy promises to a client | |
| `NrsTbfRules` | rule commands and lookups | each read or write of a field both sides use |
| `NrsTbfRulesProofs` | proofs about `NrsTbfRules` | |
| `NrsTbfRuleWalk` | list walk against unlink | each pointer and flag |
| `NrsTbfClients` | client hash, counts, LRU; both variants | one section of the bucket lock |
| `NrsTbfClientsProofs` | proofs about `NrsTbfClients` | |
| `NrsSscdt` | SSCDT policy on both queues, the array heap under it, and the references that keep a policy | one comparison of a heap operation, and one read of `interval` in it; one call of the core under `nrs_lock` |
| `NrsPolicyProofs` | proofs about `NrsTbfSched` and `NrsSscdt` | |
| `Qos` | rules, limit, request pool | sections of `qos->lock` and the steps after it |
| `QosThrottle` | gap between RPCs | section of `qos->lock`, sleep, send within a slack |
| `QosProofs` | proofs about `Qos` and `QosThrottle` | |
| `LfzThrottle` | budget per second | one call |
| `PtlrpcThreads` | start and stop of threads, the number of threads | sections of `scp_lock` and the code between |
| `PtlrpcThreadsProofs` | proofs about `PtlrpcThreads` | |
| `PtlrpcRequests` | requests from arrival to the end | sections of `scp_lock`, `scp_req_lock`, `exp_rpc_lock` and the code between |
| `PtlrpcRequestsProofs` | proofs about `PtlrpcRequests` | |
| `PtlrpcReplies` | difficult replies | sections of the reply locks |
| `PtlrpcRepliesProofs` | proofs about `PtlrpcReplies` | |
| `PtlrpcBuffers` | request buffers, history, references of requests, early replies | sections of `scp_lock` and `scp_at_lock` and the code between |
| `PtlrpcBuffersProofs` | proofs about `PtlrpcBuffers` | |

An `MC` module of the same name instantiates each component for TLC.

Notes on the abstraction:

* `NrsTbfSched` leaves the order of clients with equal deadlines, and the content of requests, open. A client's rate may be reset to any
  rate whenever the code could (`nrs_tbf_cli_reset_value`); which rule is behind it is the business of `NrsTbfRules`.
  Time is discrete, with `NSEC_PER_SEC` units in a second, and products wrap at `WORD`.
  While the SSCDT comparison is installed (`order` is "sscdt"), the heap may have any client on top after each operation:
  that comparison is given clients and reads them as requests, so what it reads is not a client's deadline.
* The window in which `NrsTbfSched` measures a client ends when its rule changes (`nrs_tbf_cli_reset_value`). It goes on when the client
  is freed and created anew under the same rate, with `win_buckets` counting the full buckets it was given.
* `NrsTbfRules` gives every client one lookup at a time: `scp_req_lock` serialises lookups of a hashed client. The walk of
  the list and the reference to the rule it found are two steps, since `nrs_tbf_rule_stop` unlinks, flags and puts the rule without
  the walk's lock; that the walk itself may step on the unlinked rule is in `NrsTbfRuleWalk`. A lookup that takes its
  reference on a rule freed meanwhile ends up "lost", and what the memory does then is not followed up.
* In `NrsSscdt` the heap is libcfs's (external), modelled with its array and its moves up and down, because what goes
  wrong when the order changes under it is a property of that algorithm. The heap operations of the two queues exclude
  each other (`scp_req_lock`); `nrs_sscdt_ctl` excludes neither and runs between any two comparisons, and between the two
  divisions of one. Names of objects and of clients are small numbers, and `interval` keeps its width (`U32`).
  Any value may be written, and a comparison that meets an interval of 0 is an oops that keeps `scp_req_lock` for ever.
* `PtlrpcBuffers` and `PtlrpcRequests` model one life of a request from two sides: here what it holds, there how it is
  scheduled. `PtlrpcBuffers` lets any queued request be fetched by any thread, and any request of the timed list be due.
* `Qos` leaves the measurements open: any rule, or none, may match. Products and sums wrap at the width of an int (`IntLimit`),
  divisions drop the fraction towards 0, and `rules_per_sec` may be negative as `parse_qos_rules` lets it be. It begins after `osc_setup`, with any part of the pool
  allocated and the tracked limit that `init_qos` left: 0, since `class_newdev` calls it before a limit is chosen. The import may
  go away at any time (`client_obd_cleanup`, external), which `LPROCFS_CLIMP_CHECK` looks at.
* `QosThrottle` bounds a sleep from both sides: it lasts at least what `udelay`, `usleep_range` or `msleep` guarantee, and the
  sleeper runs again within `Slack` of the longest sleep it asked for (timers and scheduling; external).
* `PtlrpcRequests` leaves the choice of the next request to the policy: the queues are sets. One export. A policy named in
  `Throttles` may return nothing from a queue that is not empty; the queue then counts as throttled, and `ptlrpc_server_allow_high`
  and `_allow_normal` refuse it until the timer callback, in two steps and without a lock, has cleared the flag. When the
  policy does so, and for how long, is the business of `NrsTbfSched`.
* `PtlrpcBuffers` follows `scp_at_lock` step by step (`at`, `rq`): `ptlrpc_at_check_timed` takes a request off the timed list in
  one step and a reference to it in the next, and `ptlrpc_server_drop_request` tests `rq_at_linked` without the lock, takes the lock if it
  was set, and leaves the buffer under `scp_lock`, in three steps. A process that
  reads the count of a freed request goes on if the memory still holds the 0, or is "lost".
* `PtlrpcReplies` models sending, network callback and disconnect from what `service.c` expects of them (external).

## 3. Runs

### 3.1 Runs that pass

| run | instance | shows |
|---|---|---|
| `tbf_sched` | two clients, two threads, rates 2 and 3 (one client changes between them) of 4 clock units (so that rounding makes the timer early), depth 1, words of 8 values, the comparison of the heap exchanged at any time | `RateBound`: no window sees more than rate x length and one depth for each time the client was created in it, the bucket it began with included; `ThrottleHasOwner`: a set flag has a timer or callback to clear it, and none survives stop; `HeapMatchesQueues`: what the LASSERTs on the heap say; every step is a step of `RateLimiter`; `QueuesDrain`: in the order of deadlines every queued request is started or removed |
| `tbf_rules` | two clients, three rule objects | `RefcountExact`: counts are exact over the overlaps of commands and lookups, step by step, until a lookup is left with a freed rule (3.3); `StopTakesEffect`: of clients whose lookup no command overlapped |
| `tbf_clients` | three keys, three threads, five objects, LRU of one, both variants | one bucket per key, exact counts and LRU, bounded cache |
| `sscdt` | five requests, both queues, a request that is moved to the other one, failing growth of the heap, writes of `interval`, 0 included | `HeapHoldsQueued`: no request is lost or in a heap twice, whatever is written during a heap operation; `StopFindsEmpty`: the LASSERT of `nrs_sscdt_stop`; `ServedInOrder`: requests leave in the order of the comparison unless `interval` changed under the heap; `StopEnds`: a policy that is asked to stop does, when its requests are done, unless a comparison divided by 0 |
| `qos` | two threads, administrator, ints of 16 bits so that a factor of 2 overflows, `rules_per_sec` of -1, 1 and 2, an import that goes away | the loop over rules stays in the array; the pool's overshoot is bounded, however little of it was allocated at first; the limit keeps its range even if the product wraps; an update that overlaps no other leaves the tracked limit in force |
| `qos_throttle` | two threads, the three kinds of sleep, a slack of one, clock steps | a thread is in `qos_throttle` for at most a gap and the slack; gap kept from the previous call |
| `replies` | two replies, two handlers, commit, disconnect, shutdown | one owner; freed clean; locks kept until safe; unregistering ends |
| `threads` | four thread structures, three configurations, all failures | one start at a time; limit kept; no thread outlives its structure or the service; unregistering ends |
| `buffers` | two buffers in groups of one, two messages, two threads, a history of none or one buffer, failing allocation and posting, shutdown | `BuffersAccounted`: every buffer is in one place, and the two counters are right; `BufferHeld`: no buffer is offered to the network or emptied while a request in it is in use; `NoDangling`: a freed request is out of everybody's reach, early replies included, but for one moment of `ptlrpc_at_check_timed` (3.3); `CursorSafe`: the test a reader of the history makes before it follows its pointer is enough; `PurgeFrees`: after the last request no buffer is on the posted list, and a purge that ends has freed all of them; `PostedAgain`: the network of a service with idle buffers and none attached takes one in the end, failures to post do not leave it deaf |
| `requests` | a request, its resend, one of high priority, three threads, both queues throttling, shutdown | threads kept back are kept; nothing dangles; a purge that ends leaves nothing; every request ends, unless the purge meets a NULL (3.3) |

In the modules whose type invariant is not stated on its own, it is a conjunct of the invariant on counts or owners. Each property of these runs is broken by a mutant in `PROJECT.json`.

### 3.2 Runs that show a disagreement

Each of them checks one statement that a comment or an assertion in the repository makes, and TLC finds a behaviour of
the code that contradicts it. `PROJECT.json` ("findings") quotes the lines.

| run | statement | what happens |
|---|---|---|
| `tbf_rule_walk` | the walk meets no stopping rule (LASSERT) | unlink and flag are not under the walk's lock |
| `lfz_limit` | there is an upper limit | the unsigned budget is never negative and wraps |

### 3.3 Disagreements that no run is kept for

The modules contain these behaviours, apart from two on `nrs_tbf_parse_cmd` and `nrs_tbf_start`, which concern code that is not
modelled; the properties of the runs above are stated so that they allow for them, and for nothing else.

* `nrs_tbf_res_get` (`nrs_tbf.c:1508`): when the sequence number has moved and the rule matched is the one the client has,
  nothing is refreshed. The client's sequence number stays behind, so this branch is taken in all later lookups and a
  changed rate never arrives, although `tc_rule_generation` is documented as "Generation of the rule matched"
  (`lustre_nrs_tbf.h:67`).
* `ptlrpc_lprocfs_nrs_tbf_rule_seq_write` and `nrs_tbf_parse_cmd` (`nrs_tbf.c:1883`) keep the command in static pointers
  that are assigned outside `nrs_mutex`: of two writers at the same time one may carry out and free the other's command.
* `nrs_tbf_start` (`nrs_tbf.c:1329`) frees heap and head when the start of the default rule fails; the hash that
  `nrs_tbf_nid_startup` created before is not destroyed.
* `nrs_tbf_cli_reset_value` (`nrs_tbf.c:153`) reads the sequence number after the list was searched. A rule started in
  between counts as seen, and the client keeps the older rule until the next command.
* `nrs_tbf_rule_stop` (`nrs_tbf.c:387`) takes no `th_rule_lock`. Besides the assertion of 3.2, a lookup that found the rule and has
  not yet referenced it (`nrs_tbf.c:260`) may do so when both puts of the stop have freed it: `rule_match_lost` in
  `NrsTbfRules`, and the exception of `RefcountExact`.
* `nrs_tbf_req_add` (`nrs_tbf.c:1687`) tests `nrs_throttling` and restarts the timer a few instructions later; the callback, which
  takes no lock, may have run in between. The timer is then armed with the flag clear, and wakes a thread for nothing; a flag without a
  timer does not come about (`ThrottleHasOwner`).
* A client that leaves the hash through the LRU and comes back gets a full bucket (`nrs_tbf.c:783`, `nrs_tbf.c:1524`), so that under one unchanged rule
  it may exceed depth + rate x length by a depth for each time.
* `nrs_sscdt_ctl` (`code/nrs_sscdt.c:234`) changes the order under a heap that is not rebuilt (`steady` in `NrsSscdt`),
  for all partitions and services at once, and stores the low 32 bits of what is written. A value whose low word is 0
  makes the next comparison divide by 0 under `scp_req_lock` (`code/nrs_sscdt.c:103`; `oops` in the module). The comparison groups requests by `rq_sent`, which no file of the
  repository assigns on the server's side: if it is equal everywhere, there is one window. The header gives the
  default as 1000000 ns (`code/lustre_nrs_sscdt.h:84`), `code/nrs_sscdt.c:63` as 1000 ms, which is what the code uses.
* `ptlrpc_service_purge_all` asserts an empty history because "history should have been culled by
  ptlrpc_server_finish_request" (`service.c:3098`). If the history is not empty and no request is left to be finished,
  nothing culls it and the assertion fails: every buffer was used up and finished, and allocating or posting another
  one failed or had not begun. The default length is 0, so that an administrator must have asked for a history.
  It also fails if somebody writes a length between `ptlrpc_service_unlink_rqbd` and the end of the purge, since the proc
  file is removed only then (`service.c:3180`). Both end in "lbug" in `PtlrpcBuffers`; `PurgeFrees` makes no claim about the history.
* `ptlrpc_at_check_timed` (`service.c:1470`) clears `rq_at_linked` before `atomic_inc_not_zero`, and
  `ptlrpc_server_drop_request` tests that flag without `scp_at_lock` (`service.c:877`). A thread that drops the last reference in between finds
  the flag clear and may free the request, whose count is read afterwards: `NoDangling` excepts this moment, `PostedAgain` a thread
  that is lost there with the lock held.
* `ptlrpc_service_purge_all` (`service.c:3091`) passes on what the forced fetch returns. TBF ignores force and returns NULL while it
  throttles (`nrs_tbf.c:1590`) or when it begins to (`nrs_tbf.c:1646`), and the NULL is dereferenced: "oops" in `PtlrpcRequests`, which
  `PurgedClean` allows only if all that is queued is with throttling policies, and `EveryRequestEnds` excepts.
* `ptlrpc_grow_req_bufs` (`service.c:152`): an allocation that fails sets no timeout. If no buffer is posted and none is idle,
  all threads may sleep with nothing left to wake them; `PostedAgain` speaks of services with idle buffers.
* `qos_adjust` (`osc_request.c:1599`) applies a limit after it dropped the lock it computed it under; an overlapping
  write of `max_rpcs_in_flight` leaves the limit in force different from the tracked one (`alone` in `Qos`). So does an import that goes away before
  `LPROCFS_CLIMP_CHECK` (`osc_request.c:1601`), and the time before the first update: `init_qos` copies the limit in `class_newdev`
  (`genops.c:376`), before `osc_setup` has chosen it, and a first rule that multiplies starts from 0.
* `qos_adjust` (`osc_request.c:1571`) multiplies two ints before it divides: a large factor wraps, and the new limit is any between 1 and
  the largest. `parse_qos_rules` rejects only 0 for `rules_per_sec` (`qos_rules.c:86`); a negative one gives a negative gap, which is no gap.
* `parse_qos_rules` says "On error, qos->rules is NULL and qos->rule_no is 0" (`qos_rules.c:58`); an unreadable header
  leaves the old rules in force, a failed allocation leaves `rule_no` as the header gave it.
* `qos_throttle` (`metric.h:166`) records the time of the call, not of the RPC: two callers in one gap leave together.
* `ptlrpc_start_threads` (`service.c:2779`) stops the threads of a failed registration with `srv_is_stopping` unset; a
  thread that a running one starts at that moment is never told to stop, and is waited for.
* `ptlrpc_start_thread` (`service.c:2870`) frees a thread that was linked after `SVC_STOPPING` was set on the list and
  whose `kthread_run` fails, while `ptlrpc_svcpt_stop_threads` may wait on it (`UnregisterStops` names this case).
* `ptlrpc_server_nthreads_check` (`service.c:584`) raises the limit to `tc_nthrs_init` only, so that a service with a high
  priority handler may be left with two threads, which `ptlrpc_server_allow_normal` never gives a normal request.
* `ptlrpc_server_check_resend_in_progress` (`service.c:1528`) looks at nothing when no request is being handled: a
  resend of a request that is only queued passes, and both are handled.

### 3.4 Bounds

Time (`Horizon`, `Duration`), queue lengths (`MaxQueue`), rules ever started (`MaxSequence`), rate changes (`MaxGeneration`),
transaction numbers (`MaxTransno`), messages (`MaxMessages`), thread structures, buffers and seconds are capped in guards or by the size of constants of
those names. They are chosen so that the case a property is about happens several times: two rates and
windows that outlast a refill (a depth above one is left to the proofs, which hold for every depth); as many rule objects as needed for one to be freed and reused; more job ids than the
LRU keeps; as many requests as give the heap three levels; as many messages as give a buffer a request of its own and an embedded one; a limit of threads that is reached and defended, with a
structure to spare for a racing start; a thread that is free and one that is kept back. `MaxBuckets` is the number of
times the observed client of `NrsTbfSched` may be created within one window: two, so that the LRU forgets it and it comes
back. `Offered` gives a client its rates, two to the observed one and one to the other. The ints of `Qos` end at
`IntLimit` = 32768, so that a factor of 2 on a tracked limit of 400 overflows (the C ints are of 32 bits); `PerSec` has a negative rate, and the
pool starts with anything up to `PoolMax`. `Slack` is how much later than asked for a sleep of `QosThrottle` may end.
`Flood` of `PtlrpcRequests` is the number of requests a thread takes in before it must handle one: 0 in the run, for the size of the state
space, arbitrary in the proofs. Its two requests with one xid are bulk requests (`Bulk`), whose resend passes; a resend that is refused is one
of the ways a message is dropped (`ReqInDropped`), which the run has for every message. The clock is coarse and words are
short so that rounding and wrap-around happen within a few steps. After the horizon the clock of `NrsTbfSched` runs on
only as long as somebody waits for it. `CHECK_DEADLOCK FALSE` stands where the system may come to rest: the policy or
service stopped, all requests done, or the horizon reached. Symmetry is used for interchangeable threads and objects,
and never in a run with a liveness property; `PtlrpcThreads` takes the structures of threads in a fixed order, since
one is as good as another.

### 3.5 Fairness

What can run, and goes on being able to, runs (weak fairness); strong fairness is assumed in `PtlrpcBuffers` and, of one
action, in `PtlrpcRequests`.

* `NrsTbfSched`: every service thread, the second half of an addition that restarts the timer (`RearmEarlier`), the timer
  and the clock. Nothing is assumed of clients and administrators.
* `PtlrpcReplies`: handlers, the commit callback once it has begun, the unregistering thread, and the network callback of
  an unlinked buffer. Nothing is assumed of clients or journal.
* `PtlrpcThreads`: the creators, the threads and the stopping side; work may never come.
* `PtlrpcRequests`: threads (handlers return), the timers of throttling policies, and the purge. Strong fairness of
  `Serve`: a policy that is asked again and again returns a request in the end. A throttling policy may return NULL, so
  the fetch alone is not enough; that TBF does not return NULL for ever is what `QueuesDrain` shows in `NrsTbfSched`.
* `NrsSscdt`: heap operations that have begun, fetching, a move or an addition whose resource is taken, the end of a
  request that is being handled, and the stop of a policy without references. Nothing is assumed of administrators.
* `PtlrpcBuffers`: the threads; and strong fairness of three things that other steps may disable again and again: a
  registration with the network that succeeds (it does not refuse for ever), a sleep that lasts its 0.1 s (what else
  wakes threads is a message or a deadline, and deadlines are seconds apart), and the fetching of what is queued, which
  `PtlrpcRequests` shows.

The kernel's scheduler gives that much to runnable threads; spin locks are held for finitely many steps.

## 4. Proofs

### 4.1 TBF scheduling

`NrsPolicyProofs` proves, for every set of clients and threads, every set of positive rates, every positive depth,
clock resolution and word size (the ASSUMEs of `NrsTbfSched`):

| theorem | statement |
|---|---|
| `TypeCorrect` | `Spec => []TypeOK`; a bucket never holds more than `Depth` |
| `ThrottleOwned` | `Spec => []ThrottleHasOwner` |
| `HeapConsistent` | `Spec => []HeapMatchesQueues` |
| `RateLimited` | `Spec => []RateBound` |
| `ImplementsLimiter` | `Spec => ImplementsRateLimiter`, the refinement of `RateLimiter` |
| `Invariance` | `Spec => []IInv`, which the others follow from |

The argument. `RateBound` speaks about the present moment and is not inductive: it says nothing of what is left in the bucket. `BucketBound` does: as soon
as a request of the window has been started, the bucket was refilled inside the window, and what was started plus what is left is at most one depth for
each bucket the client had in the window (`win_buckets`, at least one for a client in the hash) plus
what accrued between the window's start and the bucket's date, `tc_check_time`. It is kept by
a dispatch because the division that computes tokens rounds down (`NtokenBound`: tokens times the nanoseconds of a second are at most the
elapsed time times the rate, whatever the cap and the unsigned wrap do) and because one of the tokens counted
pays for the request (`DispatchPaid`). It needs `HeapMatchesQueues` for "no bucket is dated in the future", and that one needs
`TypeOK`. `IInv` is the conjunction of `TypeOK`, `HeapMatchesQueues`, `ThrottleHasOwner` and `BucketBound`; there is one lemma per conjunct, with one
step per action. An addition that restarts the timer is two steps, the test and the restart, with `scp_req_lock` held in between;
the callback, which takes no lock, may run between them, and the invariant covers that moment: a flag that the test saw set may be
clear at the restart, but a flag that is set has a timer armed or a callback that is about to clear it. The refinement maps `queued` and `rate` to those of one
client and `known` to its being in the hash: a client that the LRU drops is forgotten, and one that comes back is renewed, which starts another bucket
and no new window. It uses `RateBound` in the next state for the guard of the abstract start.

The order of the heap plays no part in the argument beyond `HeapMatchesQueues`, so all of it covers the SSCDT order as well.

### 4.2 SSCDT

The same module proves, for every set of requests, wherever and whenever they were sent, and every set of values written to `interval` (the ASSUMEs
of `NrsSscdt`):

| theorem | statement |
|---|---|
| `SscdtTypeCorrect` | `SscdtSpec => []SscdtTypeOK` |
| `NothingLost` | `SscdtSpec => []HeapHoldsQueued` |
| `StopSafe` | `SscdtSpec => []StopFindsEmpty`, the LASSERT of `nrs_sscdt_stop` |
| `InOrder` | `SscdtSpec => ServedInOrder` |
| `AlwaysInv` | `SscdtSpec => []SscdtInv`, which the others follow from |

The argument. `SscdtInv` is the conjunction of `SscdtTypeOK`, `HeapHoldsQueued`, `HoldersInv`, `OrderInv` and `WidthInv`. `HoldersInv` says which resources a
request holds where it is, and that nobody refers to a stopped policy; with
`HeapHoldsQueued` it gives the empty heap at the stop. `OrderInv` describes the heap in the middle of an
operation: while `interval` is left alone, every element comes before its children, except at the one place where
the element being moved stands, and there the parent of that place still comes before the children. The root then comes before all
others, along the path of parents: the proof
takes the smallest place whose element goes before the root (`RootFirst`), for want of induction over data.
`WidthInv` says that the windows of a heap whose order has not been disturbed have a width other than 0; 0 may be written at any time, and that disturbs the order.
That the order is a strict weak one is proved from its three keys, window, NID and pid, and that the comparison decides it from
`rq_sent` being ordered like the windows (`CompareDecides`).

### 4.3 Rules and clients of TBF

For every finite set of clients and every set of rules, names, network ids and rates, and however many commands are
given (`NrsTbfRulesProofs`); for every finite set of clients and threads, every set of keys and every high water mark, in
both variants of the cache (`NrsTbfClientsProofs`):

| theorem | statement |
|---|---|
| `NrsTbfRulesProofs!RefcountsExact` | `Spec => []RefcountExact` |
| `NrsTbfRulesProofs!StoppedRulesLeft` | `Spec => []StopTakesEffect` |
| `NrsTbfClientsProofs!OneBucket` | `Spec => []OneBucketPerKey` |
| `NrsTbfClientsProofs!RefcountsExact` | `Spec => []RefcountExact` |
| `NrsTbfClientsProofs!LruIsExact` | `Spec => []LruExact` |

The argument for rules. A count that agrees with the holders does not keep agreeing unless the holders are known to be
what the next step takes them for: `CmdInv` says which rule a command has and whether it is on the list, `LookupInv` which rules a lookup has at each
of its steps. With them each step adds or removes one holder and one reference. A stop is three steps, unlinking, marking and putting, and a
lookup has found its rule one step before it takes the reference ("found", with the rule in `walked`), since the two share no lock. If the stop has freed the rule by
then, the lookup is "lost": from there on the counts are not claimed, and everything else is proved on. `StopTakesEffect` is about clients
at rest; `QuietInv` carries it through the steps of the lookup: a lookup that no command has overlapped so far has matched
a rule of the list. `StoppingInv` is the converse of the test in the lookup: what is allocated and not on the list is
marked, but for the moment between the two writes of `nrs_tbf_rule_stop`, and in that moment no lookup is quiet. The default
rule ends every search (`ListInv`); that the first match exists is proved from the smallest index, for want of induction.

The argument for clients. `NewInv` is the point: a client that is allocated and not yet inserted is known to its thread alone, so that
the thread that loses the race to insert may free it. `ThreadInv` ties the place in `nrs_tbf_res_get` to what is held. The LRU
is a sequence; the lemmas on `RemoveFirst` and appending show that it stays without repetitions and holds exactly the hashed clients that nobody uses.

### 4.4 QoS

For every finite set of threads, every set of rules that may be written, every limit, pool, initial part of it that could be allocated, size of the ints and
time (`QosProofs`, on `Qos`);
for every set of threads, gaps, clock steps, slack and limits between the kinds of sleep (the same module, on `QosThrottle`):

| theorem | statement |
|---|---|
| `TypeCorrect` | `Spec => []TypeOK`, which has the range of the limit in it |
| `RulesSafe` | `Spec => []RulesAllocated` |
| `PoolBounded` | `Spec => []PoolOvershootBounded` |
| `TrackedInForce` | `Spec => []TrackedLimitInForce` |
| `DelayIsBounded` | `ThrottleSpec => []BoundedDelay` |
| `GapIsKept` | `ThrottleSpec => []GapFromPreviousCall` |

The argument. The bound on the pool is not inductive, since it leaves out what the setters that have read the pool will still add. `PoolInv` counts them in, and names one setter, the last that
found room, whose addition fits; each of the others adds at most a whole room, `PoolMax`, since the pool may have started empty. The product may wrap; the limit keeps its range because it is
clamped afterwards. `TrackInv` says of a setter that nobody has overlapped
that it is the only one, that it has an import once it is past `LPROCFS_CLIMP_CHECK`, and what it is about to store. `ThrottleInv` adds to the two properties of `QosThrottle` that, as long as the clock has not been set,
`last_rpc_time` is not in the future. `BoundedDelay` is about the whole stay in `qos_throttle`: a gap and the slack of the sleep, at any moment. `GapIsKept` needs more than one microsecond in a
millisecond: `usleep_range` may cut off one, and for `Msec` = 1 the property is false. The code has 1000;
`ThrottleAssumption` asks for two.

### 4.5 ptlrpc service

For every finite set of thread structures and every configuration (`PtlrpcThreadsProofs`); for every finite set of
requests, whatever their priorities and xids, every finite set of two or more threads and every ratio of high priority requests
(`PtlrpcRequestsProofs`); for every finite set of replies, every set of handling threads, every assignment of transactions and every size
of a batch (`PtlrpcRepliesProofs`); for every finite set of buffers and threads, every number of messages, size of a group of buffers
and length of the history (`PtlrpcBuffersProofs`):

| theorem | statement |
|---|---|
| `PtlrpcThreadsProofs!StartingIsSerialised` | `Spec => []StartSerialised`, the LASSERTs on `scp_nthrs_starting` |
| `PtlrpcThreadsProofs!LimitHolds` | `Spec => []WithinLimit` |
| `PtlrpcThreadsProofs!ThreadsAreGone` | `Spec => []ThreadsGoneWhenStopped` |
| `PtlrpcRequestsProofs!HighPriorityThreadKept` | `Spec => []HpThreadKept` |
| `PtlrpcRequestsProofs!NoRequestDangles` | `Spec => []NoDanglingRequest` |
| `PtlrpcRequestsProofs!PurgeIsClean` | `Spec => []PurgedClean`: the assertions of `ptlrpc_service_purge_all`, and that it meets a NULL only if all that is queued is with throttling policies |
| `PtlrpcRepliesProofs!RepliesHaveOneOwner` | `Spec => []OneOwner` |
| `PtlrpcRepliesProofs!FreedRepliesClean` | `Spec => []FreedIsClean`, the assertions of `lustre_free_reply_state` |
| `PtlrpcRepliesProofs!LocksAreKept` | `Spec => []LocksKeptUntilSafe` |
| `PtlrpcBuffersProofs!BuffersCounted` | `Spec => []BuffersAccounted` |
| `PtlrpcBuffersProofs!BuffersHeld` | `Spec => []BufferHeld` |
| `PtlrpcBuffersProofs!NothingDangles` | `Spec => []NoDangling` |
| `PtlrpcBuffersProofs!CursorsSafe` | `Spec => []CursorSafe` |
| `PtlrpcBuffersProofs!PurgeIsComplete` | `Spec => []PurgeFrees` |

The argument for threads. The limit is tested twice, without the lock and under it; only the second test counts, and with it `WithinLimit` is kept
by the step that raises `scp_nthrs_starting`. That the counters are right needs to know which flags a thread has wherever it and its creator
are: `CreatorInv` (no two creators have the same structure) and `ThreadInv` (the flags of a thread at each label of
`ptlrpc_main`). Stopping sets flags on all of the list at once, a thread that is linked after that included or not, so
neither speaks of `SVC_STOPPING`. `ThreadsGoneWhenStopped` follows from what is on the list being allocated, and what runs being on the list.

The argument for requests. `Counts` says which threads the three counters count. `HpThreadKept` is inductive with it: the tests of
`ptlrpc_server_allow_high` and `ptlrpc_server_allow_normal` are made in the section that raises the counters. `IncomingInv`, `HeldInv` and `ListInv` give every request its one place
(incoming, queued, with a thread, or gone) and say in which of them the export lists it; `StopInv` that the purge finds no thread, and that where a forced fetch has returned NULL something is queued, and with throttling policies only.

The argument for replies. A reply moves between the export's lists, the commit callback, a batch, the queues of the threads, a
thread, and `scp_rep_active`, under several locks. `OwnerInv` says that it is in one of the last four at most, and that `rs_scheduled` guards it:
every dispatcher tests the flag first. `SendInv` covers replies that are still being sent, which are marked scheduled so that nobody
takes them. `HandleInv` is what a thread knows when `ptlrpc_handle_rs` has dropped `rs_lock`: the reply is
off the lists, so the commit callback cannot come across it again. `SafeInv` carries `LocksKeptUntilSafe` back to
the moment of dispatch: whoever takes a reply off the uncommitted list has one of the three reasons, and none of them is undone (`Safe` is stable). `RefInv` counts references by where the
reply is in sending and whether it still has its export, which is the count of `scp_nreps_difficult` as well.

The argument for buffers. None of the five is inductive, and they need one invariant together. `LocalInv` says what a process has in hand at
each of its labels. `RefInv` makes `rq_refcount` the number of a request's holders, and says that a request that lost its last reference is known
to one process only: that is what allows `ptlrpc_server_drop_request` to go on without a lock. `PostedInv`, with `HeldInv`, follows
a buffer from the network to the history: it is with the network, or in use, or just being offered, and as long as one of
its requests is in use it is not in the history; `BufferHeld` is kept because of it. `PlaceInv` gives
each buffer one place, in lists without repetitions; `CountInv` then counts them as disjoint unions, the buffers that culling processes have taken out
being as many as those processes. `LiveInv` says that the requests not freed are the ones in use and the ones of the history, so that a culled
buffer leaves nothing behind; `CursorSafe` is kept because culling raises `scp_hist_seq_culled` to the largest number it takes off the list. `StopInv` and `UnregInv` record how far unregistering has come: a dropped request that does not empty
its buffer leaves another one queued, so that after the last one the posted list is empty; and the loop that frees buffers is
reached only with an empty posted list and an empty history, as its assertions have been passed. Nothing is claimed of the length of the history, which may be
written until the proc file is removed. `AtInv` is about the steps under `scp_at_lock` and the test of `rq_at_linked` without it: a process that found its request unlinked
has one that is not timed and cannot become so, and `ptlrpc_at_check_timed` looks at a request once, after it has taken it off the timed list. It is proved beside
`IInv` (`Inductive`: `Spec => [](IInv /\ AtInv)`). The one request that may be reached when it is freed is the one `ptlrpc_at_check_timed` has unlinked and
not yet referenced, and then its count is 0, as `NoDangling` says.

### 4.6 Assumptions

They are the ASSUMEs of the component modules, and TLC evaluates each of them. Beyond types they ask for: finitely many
threads, clients, requests, replies and buffers, where something counts them; two threads at least in `PtlrpcRequests`
(`PTLRPC_NTHRS_INIT`, and the LASSERT of `service.c:2760`); `LimitAssumption` of `PtlrpcThreads`, the limit of threads is a natural
number (it is a sum over cores, whose type for all configurations takes an induction); `Msec` of at least two; and
`RifMax * 100 < IntLimit`, a limit in hundredths fits an int (256 and 2^31 in the code). The values written to `interval` are any, 0 included.
The bounds that the guards name (`Horizon`, `Duration`, `MaxSequence`, `MaxMessages`, ...) are arbitrary in the proofs.

Each inductive invariant was checked as an invariant of its run by TLC before it was proved.

### 4.7 Model-checked only

The liveness properties (`QueuesDrain`, `StopEnds`, `PostedAgain` and those on unregistering and on the end of requests), since
fairness and ENABLED are beyond the prover; the values that
`LimitThreads` computes, which are sums. The two runs of section 3.2 show violations, so there is nothing to prove.

## 5. Not modelled

* TBF command parsing and proc files: text; the commands themselves are actions.
* Of the adaptive timeouts, the deadlines, estimates, the array of deadlines and the timers of exports.
* Of the metrics of QoS, how they are computed: averages, and a round-trip time divided by the smallest seen
  (`osc_request.c:1541`). A rule may match at any time.
* In `NrsSscdt`: `st_sequence`, which is only printed, and the proc file, which calls `nrs_sscdt_ctl`.
* `osc_cache.c`, `genops.c`, `tgt_handler.c`: mostly upstream code; the parts with a protocol of their own are planned.
* `pack_generic.c`, `lustre_idl.h`, wire tests, `lprocfs_*.c`: packing, declarations, formatting and statistics, with no
  behaviour over time.
* The scripts under `batch/` other than the signalling: sequences of commands on one node.
* Reading of lfz's configuration file; the proc files that change thread limits at run time; failing branches of
  `nrs_tbf_start`.

## 6. Plan

Done, in this order: `NrsTbfSched` with `RateLimiter` and proofs, `NrsTbfRules`, `NrsTbfRuleWalk`, `NrsTbfClients`, `NrsSscdt`, `Qos`,
`QosThrottle`, `LfzThrottle`, `PtlrpcReplies`, `PtlrpcThreads`, `PtlrpcRequests`, the proofs about `NrsSscdt`, the SSCDT order in `NrsTbfSched`, `PtlrpcBuffers`,
the other seven modules of proofs, `PtlrpcBuffersProofs` last.

Next modules:

1. policy life cycle: start, switch and stop of policies with requests inside, and the NRS composed of a policy and `PtlrpcRequests`;
2. deadlines: the timed array with its wrap-around, estimates and the timers of exports;
3. target dispatch (`tgt_handler.c`): recovery checks, reconstruct, transaction numbers;
4. OSC extents (`osc_cache.c`): extent states, waiting and grants;
5. exports and devices (`genops.c`): references, zombies, `max_rpcs_in_flight` slots;
6. cluster signalling (`batch/ctrl`): signal files polled by a controller that waits without limit (`multexu_lib.sh:299`).

Next theorems: every safety property of the runs that pass is proved. What remains is what the next modules bring, and
abstract specifications of the service (what a client sees of threads, requests and buffers together) with their refinements, once the
modules of the service are composed.
