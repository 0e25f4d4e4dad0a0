------------------------------ MODULE NrsSscdt -------------------------------
(***************************************************************************)
(* The SSCDT policy (code/nrs_sscdt.c) on the regular and the high         *)
(* priority queue of a service partition.  Requests wait in a binary heap  *)
(* per queue, ordered by time window, then client NID, then pid.           *)
(*                                                                         *)
(* Heap operations run under scp_req_lock.  interval, the width of the     *)
(* window, is one global of all instances, written under nrs_lock: it may  *)
(* change between two comparisons, and between the two divisions of one.   *)
(* So a heap operation is a sequence of steps, sift being where it is.     *)
(* Nothing keeps interval from being 0, by which a comparison then divides:*)
(* that is an oops, and its thread keeps scp_req_lock for ever.            *)
(*                                                                         *)
(* The heap (libcfs), the life cycle and reference count of a policy, and  *)
(* the move of a request to the high priority queue (NRS core) are outside *)
(* the repository.  st_sequence is only printed, st_priority never used.   *)
(***************************************************************************)
EXTENDS Integers, Sequences

CONSTANTS
  Reqs,      \* requests
  rq_sent,   \* the second in which each request was sent
  nid, pid,  \* its peer
  rq_hp,     \* whether it arrives with high priority
  Movable,   \* requests that may be given high priority while they wait
  Widths,    \* the 64 bit values that are written to interval, in ms
  U32,       \* interval has 32 bits
  Default    \* its value at start-up

ASSUME ReqAssumption == /\ rq_sent \in [Reqs -> Nat]
                        /\ nid \in [Reqs -> Nat] /\ pid \in [Reqs -> Nat]
                        /\ rq_hp \in [Reqs -> BOOLEAN]
                        /\ Movable \subseteq Reqs
ASSUME IntervalAssumption == /\ U32 \in Nat /\ Default \in 1..U32 - 1
                             /\ Widths \subseteq Nat

VARIABLES
  interval,
  pol_state,  \* per queue: "stopped", "started" or "stopping"
  st_binheap, \* per queue: the array of the heap, the root first
  sift,       \* the heap operation in progress
  oops,       \* it has divided by 0
  where,      \* per request: "out", "queued", "moving" (between the queues),
              \* "away" (being handled, or with the fallback policy), "done"
  res,        \* per request: the queue whose resource it holds
  extra,      \* per request: the resource that a move to hp still holds
  steady      \* observer, per queue: interval is the one that every request
              \* in the heap was placed under, and is not 0

sscdtVars == <<interval, pol_state, st_binheap, sift, oops, where, res, extra,
               steady>>

Queues == {"reg", "hp"}
None == "none"

time_window(r) == (rq_sent[r] * 1000) \div interval

\* Mutant of sscdt_req_compare: the pids are compared with strcmp, which is
\* nonzero in both directions.
CompareStrcmp(w, r, s) ==
  IF w # time_window(s) THEN rq_sent[r] < rq_sent[s]
  ELSE IF nid[r] = nid[s] THEN pid[r] # pid[s] ELSE nid[r] < nid[s]

\* Does request r, whose time window was computed as w, go before s?
sscdt_req_compare(w, r, s) ==
  IF w # time_window(s) THEN rq_sent[r] < rq_sent[s]
  ELSE IF nid[r] = nid[s] THEN pid[r] < pid[s] ELSE nid[r] < nid[s]

-----------------------------------------------------------------------------
(* The heap of libcfs.  An element at index i that is out of place goes "up"
   past its parent or, if it did not move, "down" past child c, the one that
   "pick" found to go first.  w is the time window of the first request of a
   comparison, once it is computed. *)
NoWindow == -1
Sift(pc, q, i, c, moved) ==
  [pc |-> pc, q |-> q, i |-> i, c |-> c, moved |-> moved, w |-> NoWindow]
Idle == Sift("idle", "reg", 0, 0, FALSE)

\* cfs_binheap_sink, at index i of n.
SinkAt(q, n, i) ==
  IF 2 * i > n THEN Idle
  ELSE IF 2 * i = n THEN Sift("down", q, i, n, FALSE)
  ELSE Sift("pick", q, i, 0, FALSE)

\* cfs_binheap_bubble, at index i of n, then cfs_binheap_sink if nothing moved.
BubbleAt(q, n, i, moved) ==
  IF i > 1 THEN Sift("up", q, i, 0, moved)
  ELSE IF moved THEN Idle ELSE SinkAt(q, n, i)

Heap == st_binheap[sift.q]
Swapped(h, i, j) == [h EXCEPT ![i] = h[j], ![j] = h[i]]

cfs_binheap_insert(q, r) ==
  LET n == Len(st_binheap[q]) + 1
  IN  /\ st_binheap' = [st_binheap EXCEPT ![q] = Append(@, r)]
      /\ sift' = BubbleAt(q, n, n, FALSE)

\* The last element takes the place of the one removed.
cfs_binheap_remove(q, i) ==
  LET h == st_binheap[q]
      n == Len(h) - 1
  IN  /\ st_binheap' = [st_binheap EXCEPT
           ![q] = [j \in 1..n |-> IF j = i THEN h[n + 1] ELSE h[j]]]
      /\ sift' = IF i = n + 1 THEN Idle ELSE BubbleAt(q, n, i, FALSE)
      /\ steady' = [steady EXCEPT ![q] = @ \/ (n = 0 /\ interval # 0)]

\* The requests that hop_compare is called with.
First == Heap[IF sift.pc = "up" THEN sift.i \div 2
              ELSE IF sift.pc = "pick" THEN 2 * sift.i + 1 ELSE sift.i]
Second == Heap[IF sift.pc = "up" THEN sift.i
               ELSE IF sift.pc = "pick" THEN 2 * sift.i ELSE sift.c]
Compare == sscdt_req_compare(sift.w, First, Second)

\* A window can be computed.
Divides == interval # 0 /\ ~oops

\* time_window1 is computed; time_window2 follows, with what interval is then.
TimeWindow1 ==
  /\ sift.pc # "idle" /\ sift.w = NoWindow /\ Divides
  /\ sift' = [sift EXCEPT !.w = time_window(First)]
  /\ UNCHANGED <<interval, pol_state, st_binheap, oops, where, res, extra,
                 steady>>

BubbleStep ==
  /\ sift.pc = "up" /\ sift.w # NoWindow /\ Divides
  /\ IF Compare
     THEN /\ sift' = IF sift.moved THEN Idle
                                   ELSE SinkAt(sift.q, Len(Heap), sift.i)
          /\ UNCHANGED st_binheap
     ELSE /\ sift' = BubbleAt(sift.q, Len(Heap), sift.i \div 2, TRUE)
          /\ st_binheap' = [st_binheap EXCEPT
               ![sift.q] = Swapped(@, sift.i, sift.i \div 2)]
  /\ UNCHANGED <<interval, pol_state, oops, where, res, extra, steady>>

PickStep ==
  /\ sift.pc = "pick" /\ sift.w # NoWindow /\ Divides
  /\ sift' = Sift("down", sift.q, sift.i,
                  IF Compare THEN 2 * sift.i + 1 ELSE 2 * sift.i, FALSE)
  /\ UNCHANGED <<interval, pol_state, st_binheap, oops, where, res, extra,
                 steady>>

SinkStep ==
  /\ sift.pc = "down" /\ sift.w # NoWindow /\ Divides
  /\ IF Compare
     THEN sift' = Idle /\ UNCHANGED st_binheap
     ELSE /\ sift' = SinkAt(sift.q, Len(Heap), sift.c)
          /\ st_binheap' = [st_binheap EXCEPT
               ![sift.q] = Swapped(@, sift.i, sift.c)]
  /\ UNCHANGED <<interval, pol_state, oops, where, res, extra, steady>>

\* Either division may find that interval is 0.
DivideByZero ==
  /\ sift.pc # "idle" /\ interval = 0
  /\ oops' = TRUE
  /\ UNCHANGED <<interval, pol_state, st_binheap, sift, where, res, extra,
                 steady>>

\* scp_req_lock is free.
Unlocked == sift.pc = "idle" /\ \A r \in Reqs : where[r] # "moving"
-----------------------------------------------------------------------------
SscdtInit ==
  /\ interval = Default
  /\ pol_state = [q \in Queues |-> "stopped"]
  /\ st_binheap = [q \in Queues |-> <<>>]
  /\ sift = Idle
  /\ oops = FALSE
  /\ where = [r \in Reqs |-> "out"]
  /\ res = [r \in Reqs |-> None]
  /\ extra = [r \in Reqs |-> None]
  /\ steady = [q \in Queues |-> TRUE]

\* Either allocation may fail, which leaves the policy stopped.
nrs_sscdt_start(q) ==
  /\ pol_state[q] = "stopped"
  /\ \E allocated \in BOOLEAN :
       pol_state' = [pol_state EXCEPT ![q] = IF allocated THEN "started" ELSE @]
  /\ st_binheap' = [st_binheap EXCEPT ![q] = <<>>]
  /\ UNCHANGED <<interval, sift, oops, where, res, extra, steady>>

\* Another policy takes over: no new references.
nrs_policy_stop_locked(q) ==
  /\ pol_state[q] = "started"
  /\ pol_state' = [pol_state EXCEPT ![q] = "stopping"]
  /\ UNCHANGED <<interval, st_binheap, sift, oops, where, res, extra, steady>>

\* The requests that hold a reference on the policy of q.
Referrers(q) == {r \in Reqs : res[r] = q \/ extra[r] = q}

\* Called when the last reference is gone.
nrs_sscdt_stop(q) ==
  /\ pol_state[q] = "stopping"
  /\ Referrers(q) = {}
  /\ pol_state' = [pol_state EXCEPT ![q] = "stopped"]
  /\ UNCHANGED <<interval, st_binheap, sift, oops, where, res, extra, steady>>

\* Mutant of nrs_sscdt_ctl: the 64 bit value is kept as it is.
CtlWhole(q, opc, arg) ==
  /\ pol_state[q] # "stopped"
  /\ interval' = IF opc = "WR_INTERVAL" THEN arg ELSE interval
  /\ steady' = [p \in Queues |->
       /\ interval' # 0
       /\ st_binheap[p] = <<>> \/ (steady[p] /\ interval' = interval)]
  /\ UNCHANGED <<pol_state, st_binheap, sift, oops, where, res, extra>>

\* NRS_CTL_SSCDT_RD_INTERVAL and unknown opcodes change nothing;
\* NRS_CTL_SSCDT_WR_INTERVAL stores the low word.
nrs_ctl_sscdt == {"RD_INTERVAL", "WR_INTERVAL", "unknown"}
nrs_sscdt_ctl(q, opc, arg) ==
  /\ pol_state[q] # "stopped"
  /\ interval' = IF opc = "WR_INTERVAL" THEN arg % U32 ELSE interval
  /\ steady' = [p \in Queues |->
       /\ interval' # 0
       /\ st_binheap[p] = <<>> \/ (steady[p] /\ interval' = interval)]
  /\ UNCHANGED <<pol_state, st_binheap, sift, oops, where, res, extra>>

\* A new request takes the resource of its queue; a move takes that of hp in
\* addition.
nrs_sscdt_res_get(r, q) ==
  /\ pol_state[q] = "started"
  /\ \/ /\ where[r] = "out" /\ res[r] = None
        /\ q = IF rq_hp[r] THEN "hp" ELSE "reg"
        /\ res' = [res EXCEPT ![r] = q]
        /\ UNCHANGED extra
     \/ /\ r \in Movable /\ q = "hp"
        /\ where[r] = "queued" /\ res[r] = "reg" /\ extra[r] = None
        /\ extra' = [extra EXCEPT ![r] = q]
        /\ UNCHANGED res
  /\ UNCHANGED <<interval, pol_state, st_binheap, sift, oops, where, steady>>

\* What a request does when it is finished with its resource.
PutOwn(r) ==
  /\ where[r] = "away"
  /\ where' = [where EXCEPT ![r] = "done"]
  /\ res' = [res EXCEPT ![r] = None]
  /\ UNCHANGED extra

\* A finished request puts its resource.  A move puts the one that is left
\* over: the old one, or that of hp if the request was taken meanwhile.  The
\* policy's nrs_sscdt_res_put, which this calls, does nothing.
nrs_resource_put(r) ==
  /\ \/ PutOwn(r)
     \/ /\ extra[r] # None /\ where[r] # "moving"
        /\ ~(where[r] = "queued" /\ res[r] = "reg")
        /\ extra' = [extra EXCEPT ![r] = None]
        /\ UNCHANGED <<where, res>>
  /\ UNCHANGED <<interval, pol_state, st_binheap, sift, oops, steady>>

\* Only the move's second half enters hp under the lock that the first half
\* took.  If the heap cannot grow, the fallback policy gets the request.
nrs_sscdt_req_add(r, q) ==
  /\ \/ /\ Unlocked
        /\ where[r] = "out" /\ res[r] = q
        /\ UNCHANGED <<res, extra>>
     \/ /\ sift.pc = "idle"
        /\ where[r] = "moving" /\ extra[r] = q
        /\ res' = [res EXCEPT ![r] = q]
        /\ extra' = [extra EXCEPT ![r] = res[r]]
  /\ \/ /\ cfs_binheap_insert(q, r)
        /\ where' = [where EXCEPT ![r] = "queued"]
     \/ /\ where' = [where EXCEPT ![r] = "away"]
        /\ UNCHANGED <<st_binheap, sift>>
  /\ UNCHANGED <<interval, pol_state, oops, steady>>

\* Mutant of nrs_sscdt_req_get: a heap with one request counts as empty.
GetNotLast(q, peek) ==
  /\ Unlocked
  /\ pol_state[q] # "stopped"
  /\ IF peek \/ Len(st_binheap[q]) <= 1
     THEN UNCHANGED <<st_binheap, sift, where, steady>>
     ELSE /\ cfs_binheap_remove(q, 1)
          /\ where' = [where EXCEPT ![st_binheap[q][1]] = "away"]
  /\ UNCHANGED <<interval, pol_state, oops, res, extra>>

\* Peeking and an empty heap change nothing.
nrs_sscdt_req_get(q, peek) ==
  /\ Unlocked
  /\ pol_state[q] # "stopped"
  /\ IF peek \/ st_binheap[q] = <<>>
     THEN UNCHANGED <<st_binheap, sift, where, steady>>
     ELSE /\ cfs_binheap_remove(q, 1)
          /\ where' = [where EXCEPT ![st_binheap[q][1]] = "away"]
  /\ UNCHANGED <<interval, pol_state, oops, res, extra>>

\* Mutant of nrs_sscdt_req_del: the root is removed, whichever request it is.
DelRoot(r) ==
  /\ Unlocked
  /\ where[r] = "queued" /\ res[r] = "reg" /\ extra[r] = "hp"
  /\ cfs_binheap_remove("reg", 1)
  /\ where' = [where EXCEPT ![r] = "moving"]
  /\ UNCHANGED <<interval, pol_state, oops, res, extra>>

\* Mutant of nrs_sscdt_req_del: the request stays in the heap.
DelNothing(r) ==
  /\ Unlocked
  /\ where[r] = "queued" /\ res[r] = "reg" /\ extra[r] = "hp"
  /\ where' = [where EXCEPT ![r] = "moving"]
  /\ UNCHANGED <<interval, pol_state, st_binheap, sift, oops, res, extra,
                 steady>>

\* The first half of a move, from wherever the request stands in the heap.
nrs_sscdt_req_del(r) ==
  /\ Unlocked
  /\ where[r] = "queued" /\ res[r] = "reg" /\ extra[r] = "hp"
  /\ \E i \in DOMAIN st_binheap["reg"] :
       /\ st_binheap["reg"][i] = r
       /\ cfs_binheap_remove("reg", i)
  /\ where' = [where EXCEPT ![r] = "moving"]
  /\ UNCHANGED <<interval, pol_state, oops, res, extra>>

\* Only prints.
nrs_sscdt_req_stop(r) ==
  /\ Unlocked
  /\ where[r] = "away"
  /\ UNCHANGED sscdtVars

cfs_binheap_step ==
  TimeWindow1 \/ BubbleStep \/ PickStep \/ SinkStep \/ DivideByZero

\* The operations in nrs_sscdt_ops, as the NRS core calls them.
SscdtNext ==
  \/ cfs_binheap_step
  \/ \E q \in Queues :
       \/ nrs_sscdt_start(q)
       \/ nrs_policy_stop_locked(q)
       \/ nrs_sscdt_stop(q)
       \/ \E opc \in nrs_ctl_sscdt, arg \in Widths : nrs_sscdt_ctl(q, opc, arg)
       \/ \E peek \in BOOLEAN : nrs_sscdt_req_get(q, peek)
       \/ \E r \in Reqs : nrs_sscdt_res_get(r, q) \/ nrs_sscdt_req_add(r, q)
  \/ \E r \in Reqs :
       \/ nrs_resource_put(r)
       \/ nrs_sscdt_req_del(r)
       \/ nrs_sscdt_req_stop(r)

\* Whoever works on a request goes on; nobody need start or stop a policy,
\* write the interval or move a request.
Fairness ==
  /\ WF_sscdtVars(cfs_binheap_step)
  /\ \A q \in Queues : /\ WF_sscdtVars(nrs_sscdt_stop(q))
                       /\ WF_sscdtVars(nrs_sscdt_req_get(q, FALSE))
                       /\ \A r \in Reqs : WF_sscdtVars(nrs_sscdt_req_add(r, q))
  /\ \A r \in Reqs : /\ WF_sscdtVars(nrs_resource_put(r))
                     /\ WF_sscdtVars(nrs_sscdt_req_del(r))

SscdtSpec == SscdtInit /\ [][SscdtNext]_sscdtVars /\ Fairness

(***************************************************************************)
(* Properties.                                                             *)
(***************************************************************************)
Content(q) == {st_binheap[q][i] : i \in DOMAIN st_binheap[q]}

\* The types of the policy's state: interval keeps to its 32 bits, whatever 64
\* bit value is written, and a heap operation is inside the heap, at an element
\* with the relatives it is compared with.
SscdtTypeOK ==
  /\ interval \in 0..U32 - 1
  /\ pol_state \in [Queues -> {"stopped", "started", "stopping"}]
  /\ st_binheap \in [Queues -> Seq(Reqs)]
  /\ where \in [Reqs -> {"out", "queued", "moving", "away", "done"}]
  /\ res \in [Reqs -> Queues \union {None}]
  /\ extra \in [Reqs -> Queues \union {None}]
  /\ steady \in [Queues -> BOOLEAN]
  /\ oops \in BOOLEAN
  /\ sift \in [pc : {"idle", "up", "pick", "down"}, q : Queues, i : Nat,
               c : Nat, moved : BOOLEAN, w : Nat \union {NoWindow}]
  /\ sift.pc # "idle" => sift.i \in 1..Len(Heap)
  /\ sift.pc = "up" => sift.i > 1
  /\ sift.pc = "pick" => 2 * sift.i + 1 <= Len(Heap)
  /\ sift.pc = "down" => /\ sift.c \in {2 * sift.i, 2 * sift.i + 1}
                         /\ sift.c <= Len(Heap)

\* A heap holds exactly the requests queued with it, each once, whatever the
\* comparisons said while interval was written; so no request is lost or
\* served twice.
HeapHoldsQueued ==
  \A q \in Queues :
    /\ \A i, j \in DOMAIN st_binheap[q] :
         st_binheap[q][i] = st_binheap[q][j] => i = j
    /\ Content(q) = {r \in Reqs : where[r] = "queued" /\ res[r] = q}

\* nrs_sscdt_stop finds an empty heap (its LASSERT), which no operation is
\* still working on, and no request is on its way to it.
StopFindsEmpty ==
  \A q \in Queues :
    pol_state[q] = "stopping" /\ Referrers(q) = {} =>
      st_binheap[q] = <<>> /\ ~(sift.pc # "idle" /\ sift.q = q)

\* The order that the comments promise: by time window, NID and pid.
Before(r, s) ==
  \/ time_window(r) < time_window(s)
  \/ /\ time_window(r) = time_window(s)
     /\ nid[r] < nid[s] \/ (nid[r] = nid[s] /\ pid[r] < pid[s])

\* A request that is taken from a heap goes after none that waits there.
TakenFirst ==
  \A r \in Reqs, q \in Queues :
    /\ where[r] = "queued" /\ res[r] = q
    /\ where'[r] = "away"
    /\ steady[q]
    => \A s \in Content(q) : ~Before(s, r)

\* "The smaller the priority number a request gets, the earlier it would be
\* scheduled" (lustre_nrs_sscdt.h:68): however requests were added, removed and
\* moved, nrs_sscdt_req_get takes one that no waiting request goes before, unless
\* interval was changed under the heap, or was 0, since it was last empty.
ServedInOrder == [][TakenFirst]_sscdtVars

\* A policy that is being replaced is stopped in the end: its requests are all
\* served, whatever order they are in, and every reference on it, that of a move
\* that came too late too, is put.  Only a comparison that divided by 0 keeps it
\* from that: its thread never drops scp_req_lock.
StopEnds ==
  \A q \in Queues :
    pol_state[q] = "stopping" ~> pol_state[q] = "stopped" \/ oops
==============================================================================
