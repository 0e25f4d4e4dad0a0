---------------------------- MODULE PtlrpcThreads ----------------------------
(***************************************************************************)
(* The threads of one partition of a ptlrpc service                        *)
(* (source/build/metric/service.c): ptlrpc_start_threads starts the first  *)
(* ones while the service is registered, running threads start more of     *)
(* them under load, and ptlrpc_svcpt_stop_threads stops and frees them,    *)
(* when registration fails or the service is unregistered.                 *)
(*                                                                         *)
(* A step is one critical section of scp_lock, or the code between two of  *)
(* them.  The load (ptlrpc_threads_enough) is left open.                   *)
(***************************************************************************)
EXTENDS Integers, Sequences, FiniteSets, SequencesExt

CONSTANTS
  Threads,          \* bound: the thread structures that are ever allocated
  Starter,          \* whoever registers and unregisters the service
  None,
  Conf              \* [hp, ncpts, init, base, max, user, factor, weight, ht]:
                    \* what ptlrpc_server_nthreads_check works from; weight is
                    \* the number of cores, ht whether they are hyperthreads

PTLRPC_NTHRS_INIT == 2

ASSUME ThreadsAssumption ==
  /\ None \notin Threads \union {Starter} /\ Starter \notin Threads
  /\ IsFiniteSet(Threads)
  /\ \A c \in Conf : c.ncpts > 0 /\ c.max > 0 /\ c.weight >= c.ncpts

Creators == Threads \union {Starter}

Larger(a, b) == IF a > b THEN a ELSE b
Smaller(a, b) == IF a < b THEN a ELSE b

\* ptlrpc_server_nthreads_check: the threads to start on each partition.
InitThreads(c) ==
  LET init == Larger(PTLRPC_NTHRS_INIT + (IF c.hp THEN 1 ELSE 0), c.init)
  IN  IF c.user = 0 THEN init
      ELSE Larger(init, Smaller(c.max * 8, c.user) \div c.ncpts)

\* On a single partition the base grows with the cores (base >> i is added as
\* long as weight >> (i + 1) is not zero) ...
BaseThreads(c) ==
  IF c.ncpts # 1 THEN c.base
  ELSE c.base + MapThenSumSet(LAMBDA i : IF c.weight \div 2 ^ (i + 1) = 0 THEN 0
                                         ELSE c.base \div 2 ^ i, 1 .. c.weight)

\* ... and every four cores add threads, by a factor that fades.
FactorThreads(c) ==
  LET factor == IF c.ht THEN c.factor - (c.factor \div 2) + (c.factor \div 8)
                ELSE c.factor
      weight == c.weight \div c.ncpts
  IN  MapThenSumSet(LAMBDA k : IF weight <= 4 * k THEN 0
                               ELSE Smaller(weight - 4 * k, 4) * (factor - k),
                    0 .. factor - 1)

\* ptlrpc_server_nthreads_check: the most threads on each partition.
LimitThreads(c) ==
  LET grown == BaseThreads(c) + FactorThreads(c)
      nthrs == IF c.user # 0 THEN Smaller(c.max * 8, c.user) \div c.ncpts
               ELSE IF c.base = 0 THEN c.max \div c.ncpts
               ELSE IF grown * c.ncpts > c.max
               THEN Larger(c.base, c.max \div c.ncpts)
               ELSE grown
  IN  Larger(nthrs, c.init)

\* The limit is a number of threads.  (It is a sum over the cores, whose value
\* for every configuration only an induction over them would give.)
ASSUME LimitAssumption == \A c \in Conf : LimitThreads(c) \in Nat

VARIABLES
  conf,
  t_flags,            \* per thread: SVC_* flags
  mem,                \* per thread: "unused", "live" or "freed"
  scp_threads,        \* the list of threads, newest first
  scp_nthrs_starting, scp_nthrs_running,
  main,               \* per thread: where it is in ptlrpc_main
  create,             \* per creator: where it is in ptlrpc_start_thread
  create_thr,         \* per creator: the thread it starts
  srv_is_stopping,
  started,            \* threads that ptlrpc_start_threads has started
  service,            \* "starting", "failed", "registered", "unregister", "gone"
  stop, stop_thr      \* where ptlrpc_svcpt_stop_threads is, and the thread
                      \* that it waits for

countVars == <<scp_nthrs_starting, scp_nthrs_running>>
createVars == <<create, create_thr>>
serviceVars == <<conf, srv_is_stopping, started, service>>
stopVars == <<stop, stop_thr>>
vars == <<t_flags, mem, scp_threads, countVars, main, createVars, serviceVars,
          stopVars>>

srv_nthrs_cpt_init == InitThreads(conf)
srv_nthrs_cpt_limit == LimitThreads(conf)

Init ==
  /\ conf \in Conf
  /\ t_flags = [t \in Threads |-> {}]
  /\ mem = [t \in Threads |-> "unused"]
  /\ scp_threads = <<>>
  /\ scp_nthrs_starting = 0 /\ scp_nthrs_running = 0
  /\ main = [t \in Threads |-> "none"]
  /\ create = [c \in Creators |-> IF c = Starter THEN "check" ELSE "idle"]
  /\ create_thr = [c \in Creators |-> None]
  /\ srv_is_stopping = FALSE
  /\ started = 0
  /\ service = "starting"
  /\ stop = "no" /\ stop_thr = None

Stopped(t) == "SVC_STOPPED" \in t_flags[t]

ptlrpc_threads_increasable ==
  scp_nthrs_running + scp_nthrs_starting < srv_nthrs_cpt_limit

\* Mutant of ptlrpc_thread_stopping: the service is not looked at.
ThreadFlagged(t) == "SVC_STOPPING" \in t_flags[t]

ptlrpc_thread_stopping(t) ==
  "SVC_STOPPING" \in t_flags[t] \/ srv_is_stopping

(***************************************************************************)
(* ptlrpc_start_thread.                                                    *)
(***************************************************************************)
\* The call returns rc.  ptlrpc_start_threads goes on while it is 0, is
\* content with -EMFILE and gives up otherwise; a service thread does not look
\* at rc.
Return(c, rc) ==
  /\ create_thr' = [create_thr EXCEPT ![c] = None]
  /\ IF c # Starter
     THEN /\ create' = [create EXCEPT ![c] = "idle"]
          /\ UNCHANGED <<started, service>>
     ELSE LET n == IF rc = "0" THEN started + 1 ELSE started
              more == rc = "0" /\ n < srv_nthrs_cpt_init
          IN  /\ started' = n
              /\ create' = [create EXCEPT ![c] = IF more THEN "check" ELSE "idle"]
              /\ service' = CASE more -> service
                              [] ~more /\ rc \in {"0", "EMFILE"} -> "registered"
                              [] OTHER -> "failed"

\* Turned away before the lock is taken: the service stops, there are enough
\* threads, or no memory.
StartRefused(c) ==
  /\ create[c] = "check"
  /\ \/ srv_is_stopping /\ Return(c, "ESRCH")
     \/ ~srv_is_stopping /\ ~ptlrpc_threads_increasable /\ Return(c, "EMFILE")
     \/ /\ ~srv_is_stopping /\ ptlrpc_threads_increasable
        /\ Return(c, "ENOMEM")
  /\ UNCHANGED <<t_flags, mem, scp_threads, countVars, main, conf,
                 srv_is_stopping, stopVars>>

\* The checks pass and a structure is allocated, whichever.
StartAlloc(c) ==
  /\ create[c] = "check"
  /\ ~srv_is_stopping /\ ptlrpc_threads_increasable
  /\ \E t \in Threads : mem[t] = "unused"
  /\ LET t == CHOOSE t \in Threads : mem[t] = "unused"
     IN  /\ mem' = [mem EXCEPT ![t] = "live"]
         /\ create_thr' = [create_thr EXCEPT ![c] = t]
  /\ create' = [create EXCEPT ![c] = "lock"]
  /\ UNCHANGED <<t_flags, scp_threads, countVars, main, serviceVars, stopVars>>

\* Under scp_lock: enough threads by now, or one is being started already;
\* ptlrpc_start_threads then tries again.
StartRaced(c) ==
  /\ create[c] = "lock"
  /\ ~ptlrpc_threads_increasable \/ scp_nthrs_starting # 0
  /\ mem' = [mem EXCEPT ![create_thr[c]] = "unused"]
  /\ IF ~ptlrpc_threads_increasable THEN Return(c, "EMFILE")
     ELSE IF c = Starter
     THEN /\ create' = [create EXCEPT ![c] = "check"]
          /\ create_thr' = [create_thr EXCEPT ![c] = None]
          /\ UNCHANGED <<started, service>>
     ELSE Return(c, "EAGAIN")
  /\ UNCHANGED <<t_flags, scp_threads, countVars, main, conf, srv_is_stopping,
                 stopVars>>

\* Mutant of StartLink: starting is not serialised.
StartLinkRacing(c) ==
  LET t == create_thr[c]
  IN  /\ create[c] = "lock"
      /\ ptlrpc_threads_increasable
      /\ scp_nthrs_starting' = scp_nthrs_starting + 1
      /\ t_flags' = [t_flags EXCEPT ![t] = @ \union {"SVC_STARTING"}]
      /\ scp_threads' = <<t>> \o scp_threads
      /\ create' = [create EXCEPT ![c] = "run"]
      /\ UNCHANGED <<mem, scp_nthrs_running, main, create_thr, serviceVars,
                     stopVars>>

\* Mutant of StartLink: the limit is not looked at again under the lock.
StartLinkUnchecked(c) ==
  LET t == create_thr[c]
  IN  /\ create[c] = "lock"
      /\ scp_nthrs_starting = 0
      /\ scp_nthrs_starting' = scp_nthrs_starting + 1
      /\ t_flags' = [t_flags EXCEPT ![t] = @ \union {"SVC_STARTING"}]
      /\ scp_threads' = <<t>> \o scp_threads
      /\ create' = [create EXCEPT ![c] = "run"]
      /\ UNCHANGED <<mem, scp_nthrs_running, main, create_thr, serviceVars,
                     stopVars>>

\* Under scp_lock: the thread is counted as starting and put on the list.
StartLink(c) ==
  LET t == create_thr[c]
  IN  /\ create[c] = "lock"
      /\ ptlrpc_threads_increasable /\ scp_nthrs_starting = 0
      /\ scp_nthrs_starting' = scp_nthrs_starting + 1
      /\ t_flags' = [t_flags EXCEPT ![t] = @ \union {"SVC_STARTING"}]
      /\ scp_threads' = <<t>> \o scp_threads
      /\ create' = [create EXCEPT ![c] = "run"]
      /\ UNCHANGED <<mem, scp_nthrs_running, main, create_thr, serviceVars,
                     stopVars>>

\* kthread_run: a service thread returns at once, ptlrpc_start_threads waits.
StartRun(c) ==
  /\ create[c] = "run"
  /\ main' = [main EXCEPT ![create_thr[c]] = "init"]
  /\ IF c = Starter
     THEN /\ create' = [create EXCEPT ![c] = "wait"]
          /\ UNCHANGED <<create_thr, started, service>>
     ELSE Return(c, "0")
  /\ UNCHANGED <<t_flags, mem, scp_threads, countVars, conf, srv_is_stopping,
                 stopVars>>

\* kthread_run fails: the structure is left to ptlrpc_svcpt_stop_threads if
\* that has flagged it, and freed otherwise.
StartRunFailed(c) ==
  LET t == create_thr[c]
  IN  /\ create[c] = "run"
      /\ scp_nthrs_starting' = scp_nthrs_starting - 1
      /\ IF "SVC_STOPPING" \in t_flags[t]
         THEN /\ t_flags' = [t_flags EXCEPT ![t] = @ \union {"SVC_STOPPED"}]
              /\ UNCHANGED <<mem, scp_threads>>
         ELSE /\ scp_threads' = RemoveFirst(scp_threads, t)
              /\ mem' = [mem EXCEPT ![t] = "freed"]
              /\ UNCHANGED t_flags
      /\ Return(c, "ENOMEM")
      /\ UNCHANGED <<scp_nthrs_running, main, conf, srv_is_stopping, stopVars>>

\* The wait for the new thread ends.
StartWaited(c) ==
  LET flags == t_flags[create_thr[c]]
  IN  /\ create[c] = "wait"
      /\ {"SVC_RUNNING", "SVC_STOPPED"} \intersect flags # {}
      /\ Return(c, IF "SVC_STOPPED" \in flags THEN "failed" ELSE "0")
      /\ UNCHANGED <<t_flags, mem, scp_threads, countVars, main, conf,
                     srv_is_stopping, stopVars>>

(***************************************************************************)
(* ptlrpc_main.                                                            *)
(***************************************************************************)
\* Set up, the thread is running.
MainRunning(t) ==
  /\ main[t] = "init"
  /\ t_flags' = [t_flags EXCEPT ![t] = (@ \ {"SVC_STARTING"}) \union {"SVC_RUNNING"}]
  /\ scp_nthrs_starting' = scp_nthrs_starting - 1
  /\ scp_nthrs_running' = scp_nthrs_running + 1
  /\ main' = [main EXCEPT ![t] = "loop"]
  /\ UNCHANGED <<mem, scp_threads, createVars, serviceVars, stopVars>>

\* No memory, or so_thr_init or the buffers fail.
MainInitFailed(t) ==
  /\ main[t] = "init"
  /\ main' = [main EXCEPT ![t] = "out"]
  /\ UNCHANGED <<t_flags, mem, scp_threads, countVars, createVars, serviceVars,
                 stopVars>>

\* ptlrpc_wait_event finds something to do.
MainWork(t) ==
  /\ main[t] = "loop" /\ ~ptlrpc_thread_stopping(t)
  /\ main' = [main EXCEPT ![t] = "work"]
  /\ UNCHANGED <<t_flags, mem, scp_threads, countVars, createVars, serviceVars,
                 stopVars>>

\* Busy, the thread starts another one (ptlrpc_threads_need_create) ...
MainCreate(t) ==
  /\ main[t] = "work" /\ ptlrpc_threads_increasable
  /\ main' = [main EXCEPT ![t] = "requests"]
  /\ create' = [create EXCEPT ![t] = "check"]
  /\ UNCHANGED <<t_flags, mem, scp_threads, countVars, create_thr, serviceVars,
                 stopVars>>

\* ... and, without or after that, does its work.
MainRequests(t) ==
  /\ \/ main[t] = "work"
     \/ main[t] = "requests" /\ create[t] = "idle"
  /\ main' = [main EXCEPT ![t] = "loop"]
  /\ UNCHANGED <<t_flags, mem, scp_threads, countVars, createVars, serviceVars,
                 stopVars>>

\* The thread notices that it should stop.
MainLeave(t) ==
  /\ main[t] = "loop" /\ ptlrpc_thread_stopping(t)
  /\ main' = [main EXCEPT ![t] = "out"]
  /\ UNCHANGED <<t_flags, mem, scp_threads, countVars, createVars, serviceVars,
                 stopVars>>

\* Mutant of MainOut: the thread says that it has stopped and then goes on.
MainOutEarly(t) ==
  LET flags == t_flags[t]
  IN  /\ main[t] = "out"
      /\ t_flags' = [t_flags EXCEPT ![t] = (@ \ {"SVC_STARTING", "SVC_RUNNING"})
                                             \union {"SVC_STOPPED"}]
      /\ scp_nthrs_starting' = scp_nthrs_starting
                                 - (IF "SVC_STARTING" \in flags THEN 1 ELSE 0)
      /\ scp_nthrs_running' = scp_nthrs_running
                                - (IF "SVC_RUNNING" \in flags THEN 1 ELSE 0)
      /\ main' = [main EXCEPT ![t] = IF "SVC_STOPPED" \in flags THEN "gone" ELSE "out"]
      /\ UNCHANGED <<mem, scp_threads, createVars, serviceVars, stopVars>>

\* The end of ptlrpc_main; the waiter is woken before scp_lock is dropped.
MainOut(t) ==
  LET flags == t_flags[t]
  IN  /\ main[t] = "out"
      /\ t_flags' = [t_flags EXCEPT ![t] = (@ \ {"SVC_STARTING", "SVC_RUNNING"})
                                             \union {"SVC_STOPPED"}]
      /\ scp_nthrs_starting' = scp_nthrs_starting
                                 - (IF "SVC_STARTING" \in flags THEN 1 ELSE 0)
      /\ scp_nthrs_running' = scp_nthrs_running
                                - (IF "SVC_RUNNING" \in flags THEN 1 ELSE 0)
      /\ main' = [main EXCEPT ![t] = "gone"]
      /\ UNCHANGED <<mem, scp_threads, createVars, serviceVars, stopVars>>

(***************************************************************************)
(* ptlrpc_svcpt_stop_threads and its two callers.                          *)
(***************************************************************************)
\* The stopped threads at the head of the list are taken off and freed.  The
\* scan ends at a thread that has not stopped, or with an empty list.
Scan ==
  LET alive == SelectInSeq(scp_threads, LAMBDA t : ~Stopped(t))
      zombie == IF alive = 0 THEN ToSet(scp_threads)
                ELSE ToSet(SubSeq(scp_threads, 1, alive - 1))
  IN  /\ mem' = [t \in Threads |-> IF t \in zombie THEN "freed" ELSE mem[t]]
      /\ scp_threads' = IF alive = 0 THEN <<>>
                        ELSE SubSeq(scp_threads, alive, Len(scp_threads))
      /\ stop_thr' = IF alive = 0 THEN None ELSE scp_threads[alive]
      /\ stop' = IF alive = 0 THEN "done" ELSE "wait"

\* The service is up and is unregistered, or what a failed registration did
\* start has been stopped.
ptlrpc_unregister_service ==
  /\ \/ service = "registered"
     \/ service = "failed" /\ stop = "done"
  /\ service' = "unregister"
  /\ srv_is_stopping' = TRUE
  /\ stop' = "no"
  /\ UNCHANGED <<t_flags, mem, scp_threads, countVars, main, createVars, conf,
                 started, stop_thr>>

\* All threads on the list are told to stop; then the list is scanned.
StopFlag ==
  /\ service \in {"failed", "unregister"} /\ stop = "no"
  /\ t_flags' = [t \in Threads |-> IF t \in ToSet(scp_threads)
                                   THEN t_flags[t] \union {"SVC_STOPPING"}
                                   ELSE t_flags[t]]
  /\ Scan
  /\ UNCHANGED <<countVars, main, createVars, serviceVars>>

\* The thread waited for has stopped (or its memory, freed, reads like that).
StopScan ==
  /\ stop = "wait"
  /\ Stopped(stop_thr) \/ mem[stop_thr] = "freed"
  /\ Scan
  /\ UNCHANGED <<t_flags, countVars, main, createVars, serviceVars>>

\* What follows the threads' end in ptlrpc_unregister_service.
Unregistered ==
  /\ service = "unregister" /\ stop = "done"
  /\ service' = "gone"
  /\ UNCHANGED <<t_flags, mem, scp_threads, countVars, main, createVars, conf,
                 srv_is_stopping, started, stopVars>>

CreatorStep(c) ==
  \/ StartRefused(c)
  \/ StartAlloc(c)
  \/ StartRaced(c)
  \/ StartLink(c)
  \/ StartRun(c) \/ StartRunFailed(c)
  \/ StartWaited(c)

ThreadStep(t) ==
  \/ MainRunning(t) \/ MainInitFailed(t)
  \/ MainCreate(t) \/ MainRequests(t)
  \/ MainLeave(t) \/ MainOut(t)
  \/ CreatorStep(t)

StopStep == StopFlag \/ StopScan \/ Unregistered

Next ==
  \/ CreatorStep(Starter)
  \/ \E t \in Threads : ThreadStep(t) \/ MainWork(t)
  \/ ptlrpc_unregister_service
  \/ StopStep

Spec == Init /\ [][Next]_vars

\* Threads that can run do, and so does whoever stops them; work (MainWork)
\* may or may not come.
FairSpec ==
  /\ Spec
  /\ WF_vars(CreatorStep(Starter))
  /\ \A t \in Threads : WF_vars(ThreadStep(t))
  /\ WF_vars(StopStep)

(***************************************************************************)
(* Properties.                                                             *)
(***************************************************************************)
\* The types of the state.
TypeOK ==
  /\ t_flags \in [Threads -> SUBSET {"SVC_STARTING", "SVC_RUNNING",
                                     "SVC_STOPPING", "SVC_STOPPED"}]
  /\ mem \in [Threads -> {"unused", "live", "freed"}]
  /\ ToSet(scp_threads) \subseteq Threads
  /\ scp_nthrs_starting \in Nat /\ scp_nthrs_running \in Nat
  /\ create_thr \in [Creators -> Threads \union {None}]
  /\ stop_thr \in Threads \union {None}

\* LASSERT(svcpt->scp_nthrs_starting == 1) in ptlrpc_main and in
\* ptlrpc_start_thread: at most one thread is being started, whoever starts it
\* and however that ends, and the counters count the threads that are there.
StartSerialised ==
  /\ TypeOK
  /\ scp_nthrs_starting <= 1
  /\ scp_nthrs_starting =
       Cardinality({t \in Threads : /\ mem[t] = "live" /\ ~Stopped(t)
                                    /\ "SVC_STARTING" \in t_flags[t]})
  /\ scp_nthrs_running =
       Cardinality({t \in Threads : "SVC_RUNNING" \in t_flags[t]})

\* srv_nthrs_cpt_limit holds although ptlrpc_threads_need_create looks without
\* a lock and several threads may decide at once to start another one.
WithinLimit == scp_nthrs_running + scp_nthrs_starting <= srv_nthrs_cpt_limit

\* A kernel thread outlives neither its structure, which it writes to the very
\* end of ptlrpc_main, nor the service, although running threads start others
\* while ptlrpc_svcpt_stop_threads is at work; and no creator and no list is
\* left with a freed thread.
ThreadsGoneWhenStopped ==
  /\ \A t \in Threads : mem[t] = "freed" =>
       /\ main[t] \in {"none", "gone"}
       /\ t \notin ToSet(scp_threads)
       /\ \A c \in Creators : create_thr[c] # t
  /\ service = "gone" =>
       \A t \in Threads : main[t] \in {"none", "gone"} /\ create[t] = "idle"

\* An unregistered service gets rid of its threads, although running threads
\* may start others meanwhile, unless ptlrpc_svcpt_stop_threads waits for a
\* thread whose creator freed it because kthread_run failed.
UnregisterStops ==
  service = "unregister" ~>
    \/ service = "gone"
    \/ stop = "wait" /\ mem[stop_thr] = "freed"
==============================================================================
