---------------------------- MODULE PtlrpcReplies ----------------------------
(***************************************************************************)
(* Difficult replies of a ptlrpc service (source/build/metric/service.c).  *)
(* A reply that saved locks keeps them until the client has acknowledged   *)
(* it or its transaction is on disk.  Five parties touch a reply state:    *)
(* the service thread that sends it, the network callback, the commit      *)
(* callback (ptlrpc_commit_replies), the reply handling threads            *)
(* (ptlrpc_hr_main, ptlrpc_handle_rs) and whoever tears the export or the  *)
(* service down.                                                           *)
(*                                                                         *)
(* Every step is one critical section; between two sections of one party   *)
(* the others may run.  Sending (target_send_reply), the network callback  *)
(* (reply_out_callback) and the disconnect of an export live outside this  *)
(* repository and are modelled from what service.c expects of them.        *)
(***************************************************************************)
EXTENDS Integers, FiniteSets

CONSTANTS
  Replies,    \* reply states
  Hrts,       \* reply handling threads
  None,
  MAX_SCHEDULED, \* replies that a batch takes before it is dispatched
  MaxTransno, \* bound: transaction numbers
  rs_transno  \* per reply: the transaction it is for

ASSUME RepliesAssumption == None \notin Replies /\ MaxTransno \in Nat
                              /\ IsFiniteSet(Replies)
                              /\ rs_transno \in [Replies -> 1 .. MaxTransno]
                              /\ MAX_SCHEDULED \in Nat \ {0}

VARIABLES
  rs_no_ack,
  rs_scheduled, rs_handled, rs_on_net, rs_committed,
  rs_nlocks,         \* are the locks still with the reply?
  rs_export,         \* does the reply hold a reference on its export?
  rs_refcount,
  live,              \* reply states that are allocated
  send,              \* per reply: the next step of target_send_reply
  exp_outstanding_replies, exp_uncommitted_replies,
  exp_last_committed,
  scp_rep_active,
  scp_nreps_difficult,
  hrt_queue,         \* per thread: replies dispatched to it
  hrt_pc, hrt_rs,    \* per thread: where it is in ptlrpc_handle_rs, with what
  commit,            \* "idle", "loop" (over exp_uncommitted_replies) or "fini"
  commit_rs,         \* the reply that the loop is at
  batch,             \* rsb_replies
  scp_rep_lock,      \* "batch" or "purge" when held over several steps
  srv_stopping,      \* "no", "purge", "wait" or "done"
  wanted             \* observer: replies that a disconnect, the shutdown or
                     \* a failed send gave up waiting for

flagVars == <<rs_scheduled, rs_handled, rs_on_net, rs_committed>>
listVars == <<exp_outstanding_replies, exp_uncommitted_replies,
              scp_rep_active, hrt_queue, batch>>
hrVars == <<hrt_pc, hrt_rs>>
memVars == <<rs_nlocks, rs_export, rs_refcount, live, scp_nreps_difficult>>
commitVars == <<exp_last_committed, commit, commit_rs, scp_rep_lock>>
vars == <<rs_no_ack, flagVars, listVars, hrVars, memVars, commitVars, send,
          srv_stopping, wanted>>

\* The locks that a party holds over several steps.  A batch holds
\* scp_rep_lock from its first reply on (rsb_svcpt).
RepLockFree == scp_rep_lock = "free"
UncommittedLockFree == commit # "loop"

Committed(rs) == rs_transno[rs] <= exp_last_committed

Init ==
  /\ rs_no_ack \in [Replies -> BOOLEAN]
  /\ rs_scheduled = [rs \in Replies |-> FALSE]
  /\ rs_handled = [rs \in Replies |-> FALSE]
  /\ rs_on_net = [rs \in Replies |-> FALSE]
  /\ rs_committed = [rs \in Replies |-> FALSE]
  /\ rs_nlocks = [rs \in Replies |-> TRUE]
  /\ rs_export = [rs \in Replies |-> FALSE]
  /\ rs_refcount = [rs \in Replies |-> 1]
  /\ live = Replies
  /\ send = [rs \in Replies |-> "setup"]
  /\ exp_outstanding_replies = {} /\ exp_uncommitted_replies = {}
  /\ exp_last_committed = 0
  /\ scp_rep_active = {}
  /\ scp_nreps_difficult = 0
  /\ hrt_queue = [h \in Hrts |-> {}]
  /\ hrt_pc = [h \in Hrts |-> "idle"]
  /\ hrt_rs = [h \in Hrts |-> None]
  /\ commit = "idle" /\ commit_rs = None
  /\ batch = {} /\ scp_rep_lock = "free"
  /\ srv_stopping = "no"
  /\ wanted = {}

\* A reference goes; the last one frees the reply state.
Decref(rs) ==
  /\ rs_refcount' = [rs_refcount EXCEPT ![rs] = @ - 1]
  /\ live' = IF rs_refcount[rs] = 1 THEN live \ {rs} ELSE live

\* ptlrpc_hr_select picks a thread by its rotors.
ptlrpc_dispatch_difficult_reply(rs) ==
  \E h \in Hrts : hrt_queue' = [hrt_queue EXCEPT ![h] = @ \union {rs}]

\* Mutant of ptlrpc_schedule_difficult_reply: a reply that is being set up or
\* handled is dispatched all the same.
ScheduleAlways(rs) ==
  /\ rs_scheduled' = [rs_scheduled EXCEPT ![rs] = TRUE]
  /\ scp_rep_active' = scp_rep_active \ {rs}
  /\ ptlrpc_dispatch_difficult_reply(rs)

ptlrpc_schedule_difficult_reply(rs) ==
  IF rs_scheduled[rs] THEN UNCHANGED <<rs_scheduled, scp_rep_active, hrt_queue>>
  ELSE /\ rs_scheduled' = [rs_scheduled EXCEPT ![rs] = TRUE]
       /\ scp_rep_active' = scp_rep_active \ {rs}
       /\ ptlrpc_dispatch_difficult_reply(rs)

(***************************************************************************)
(* The service thread.                                                     *)
(***************************************************************************)
\* The reply is set up; it is filed as uncommitted unless it is committed.
SendSetup(rs) ==
  /\ send[rs] = "setup" /\ srv_stopping = "no"
  /\ UncommittedLockFree
  /\ rs_scheduled' = [rs_scheduled EXCEPT ![rs] = TRUE]
  /\ rs_on_net' = [rs_on_net EXCEPT ![rs] = TRUE]
  /\ rs_export' = [rs_export EXCEPT ![rs] = TRUE]
  /\ exp_uncommitted_replies' = IF Committed(rs) THEN exp_uncommitted_replies
                                ELSE exp_uncommitted_replies \union {rs}
  /\ exp_outstanding_replies' = exp_outstanding_replies \union {rs}
  /\ send' = [send EXCEPT ![rs] = "msg"]
  /\ UNCHANGED <<rs_no_ack, rs_handled, rs_committed, scp_rep_active,
                 hrt_queue, batch, hrVars, rs_nlocks, rs_refcount, live,
                 scp_nreps_difficult, commitVars, srv_stopping, wanted>>

\* The message goes out, and the network holds a reference.
SendMsg(rs) ==
  /\ send[rs] = "msg"
  /\ rs_refcount' = [rs_refcount EXCEPT ![rs] = @ + 1]
  /\ send' = [send EXCEPT ![rs] = "sent"]
  /\ UNCHANGED <<rs_no_ack, flagVars, listVars, hrVars, rs_nlocks, rs_export,
                 live, scp_nreps_difficult, commitVars, srv_stopping, wanted>>

\* Dispatch at once, or file the reply as active and let others schedule it.
SendFile(rs, on_net) ==
  IF \/ Committed(rs)
     \/ ~on_net /\ ~rs_no_ack[rs]
     \/ rs \notin exp_outstanding_replies
     \/ rs \notin exp_uncommitted_replies
  THEN /\ ptlrpc_dispatch_difficult_reply(rs)
       /\ UNCHANGED <<rs_scheduled, scp_rep_active>>
  ELSE /\ scp_rep_active' = scp_rep_active \union {rs}
       /\ rs_scheduled' = [rs_scheduled EXCEPT ![rs] = FALSE]
       /\ UNCHANGED hrt_queue

\* The message went out.
SendDone(rs) ==
  /\ send[rs] = "sent" /\ RepLockFree
  /\ scp_nreps_difficult' = scp_nreps_difficult + 1
  /\ SendFile(rs, rs_on_net[rs])
  /\ send' = [send EXCEPT ![rs] = "done"]
  /\ UNCHANGED <<rs_no_ack, rs_handled, rs_on_net, rs_committed,
                 exp_outstanding_replies, exp_uncommitted_replies, batch,
                 hrVars, rs_nlocks, rs_export, rs_refcount, live, commitVars,
                 srv_stopping, wanted>>

\* The message could not be sent: the reply is off the net, and a reference is
\* taken in place of the network's.
SendFailed(rs) ==
  /\ send[rs] = "msg" /\ RepLockFree
  /\ scp_nreps_difficult' = scp_nreps_difficult + 1
  /\ rs_on_net' = [rs_on_net EXCEPT ![rs] = FALSE]
  /\ rs_refcount' = [rs_refcount EXCEPT ![rs] = @ + 1]
  /\ SendFile(rs, FALSE)
  /\ wanted' = wanted \union {rs}
  /\ send' = [send EXCEPT ![rs] = "done"]
  /\ UNCHANGED <<rs_no_ack, rs_handled, rs_committed, exp_outstanding_replies,
                 exp_uncommitted_replies, batch, hrVars, rs_nlocks, rs_export,
                 live, commitVars, srv_stopping>>

\* The request is finished and drops its reply (ptlrpc_req_drop_rs).
ptlrpc_req_drop_rs(rs) ==
  /\ send[rs] = "done"
  /\ Decref(rs)
  /\ send' = [send EXCEPT ![rs] = "dropped"]
  /\ UNCHANGED <<rs_no_ack, flagVars, listVars, hrVars, rs_nlocks, rs_export,
                 scp_nreps_difficult, commitVars, srv_stopping, wanted>>

(***************************************************************************)
(* The network, the export and the journal.                                *)
(***************************************************************************)
\* The last network event of the reply: an ACK, or its MD was unlinked.
reply_out_callback(rs) ==
  /\ rs_on_net[rs] /\ send[rs] \in {"sent", "done", "dropped"}
  /\ RepLockFree
  /\ rs_on_net' = [rs_on_net EXCEPT ![rs] = FALSE]
  /\ IF ~rs_no_ack[rs] \/ Committed(rs) \/ rs \notin exp_uncommitted_replies
     THEN ptlrpc_schedule_difficult_reply(rs)
     ELSE UNCHANGED <<rs_scheduled, scp_rep_active, hrt_queue>>
  /\ UNCHANGED <<rs_no_ack, rs_handled, rs_committed, exp_outstanding_replies,
                 exp_uncommitted_replies, batch, hrVars, memVars, commitVars,
                 send, srv_stopping, wanted>>

\* The export is disconnected: its outstanding replies are completed.
server_disconnect_export(rs) ==
  /\ rs \in exp_outstanding_replies
  /\ RepLockFree
  /\ exp_outstanding_replies' = exp_outstanding_replies \ {rs}
  /\ ptlrpc_schedule_difficult_reply(rs)
  /\ wanted' = wanted \union {rs}
  /\ UNCHANGED <<rs_no_ack, rs_handled, rs_on_net, rs_committed,
                 exp_uncommitted_replies, batch, hrVars, memVars, commitVars,
                 send, srv_stopping>>

\* ptlrpc_commit_replies: one or several transactions are on disk, and
\* exp_uncommitted_replies_lock is taken.
ptlrpc_commit_replies ==
  /\ commit = "idle"
  /\ exp_last_committed' \in exp_last_committed + 1 .. MaxTransno
  /\ commit' = "loop"
  /\ UNCHANGED <<rs_no_ack, flagVars, listVars, hrVars, memVars, commit_rs,
                 scp_rep_lock, send, srv_stopping, wanted>>

\* Mutant of CommitNext: the transaction number is not looked at.
CommitAny(rs) ==
  /\ commit = "loop" /\ commit_rs = None
  /\ rs \in exp_uncommitted_replies
  /\ exp_uncommitted_replies' = exp_uncommitted_replies \ {rs}
  /\ commit_rs' = rs
  /\ UNCHANGED <<rs_no_ack, flagVars, exp_outstanding_replies, scp_rep_active,
                 hrt_queue, batch, hrVars, memVars, exp_last_committed, commit,
                 scp_rep_lock, send, srv_stopping, wanted>>

\* The loop comes to a committed reply and takes it off the list.
CommitNext(rs) ==
  /\ commit = "loop" /\ commit_rs = None
  /\ rs \in exp_uncommitted_replies /\ Committed(rs)
  /\ exp_uncommitted_replies' = exp_uncommitted_replies \ {rs}
  /\ commit_rs' = rs
  /\ UNCHANGED <<rs_no_ack, flagVars, exp_outstanding_replies, scp_rep_active,
                 hrt_queue, batch, hrVars, memVars, exp_last_committed, commit,
                 scp_rep_lock, send, srv_stopping, wanted>>

\* rs_batch_dispatch hands the whole batch to one thread.
rs_batch_dispatch ==
  /\ \E h \in Hrts : hrt_queue' = [hrt_queue EXCEPT ![h] = @ \union batch]
  /\ batch' = {}

\* rs_batch_add finds the batch full: it is dispatched and the lock dropped.
BatchFull ==
  /\ commit_rs # None /\ scp_rep_lock = "batch"
  /\ Cardinality(batch) >= MAX_SCHEDULED
  /\ rs_batch_dispatch
  /\ scp_rep_lock' = "free"
  /\ UNCHANGED <<rs_no_ack, flagVars, exp_outstanding_replies,
                 exp_uncommitted_replies, scp_rep_active, hrVars, memVars,
                 exp_last_committed, commit, commit_rs, send, srv_stopping,
                 wanted>>

\* A reply that nobody has scheduled moves from the active list to the batch.
BatchMove(rs) ==
  IF rs_scheduled[rs] THEN UNCHANGED <<batch, scp_rep_active>>
  ELSE /\ batch' = batch \union {rs}
       /\ scp_rep_active' = scp_rep_active \ {rs}

\* rs_batch_add, under scp_rep_lock and rs_lock.
rs_batch_add ==
  /\ commit_rs # None
  /\ \/ RepLockFree
     \/ scp_rep_lock = "batch" /\ Cardinality(batch) < MAX_SCHEDULED
  /\ scp_rep_lock' = "batch"
  /\ BatchMove(commit_rs)
  /\ rs_scheduled' = [rs_scheduled EXCEPT ![commit_rs] = TRUE]
  /\ rs_committed' = [rs_committed EXCEPT ![commit_rs] = TRUE]
  /\ commit_rs' = None
  /\ UNCHANGED <<rs_no_ack, rs_handled, rs_on_net, exp_outstanding_replies,
                 exp_uncommitted_replies, hrt_queue, hrVars, memVars,
                 exp_last_committed, commit, send, srv_stopping, wanted>>

\* The loop is over: exp_uncommitted_replies_lock is dropped.
CommitLoopEnd ==
  /\ commit = "loop" /\ commit_rs = None
  /\ \A rs \in exp_uncommitted_replies : ~Committed(rs)
  /\ commit' = "fini"
  /\ UNCHANGED <<rs_no_ack, flagVars, listVars, hrVars, memVars,
                 exp_last_committed, commit_rs, scp_rep_lock, send,
                 srv_stopping, wanted>>

\* rs_batch_fini dispatches the batch and drops scp_rep_lock, if it is held.
rs_batch_fini ==
  /\ commit = "fini"
  /\ commit' = "idle"
  /\ IF scp_rep_lock = "batch"
     THEN rs_batch_dispatch /\ scp_rep_lock' = "free"
     ELSE UNCHANGED <<hrt_queue, batch, scp_rep_lock>>
  /\ UNCHANGED <<rs_no_ack, flagVars, exp_outstanding_replies,
                 exp_uncommitted_replies, scp_rep_active, hrVars, memVars,
                 exp_last_committed, commit_rs, send, srv_stopping, wanted>>

(***************************************************************************)
(* ptlrpc_hr_main and ptlrpc_handle_rs.                                    *)
(***************************************************************************)
\* The thread takes a reply from its queue; the reply leaves the export's
\* list of outstanding replies.
ptlrpc_hr_main(h) ==
  /\ hrt_pc[h] = "idle"
  /\ \E rs \in hrt_queue[h] :
       /\ hrt_queue' = [hrt_queue EXCEPT ![h] = @ \ {rs}]
       /\ exp_outstanding_replies' = exp_outstanding_replies \ {rs}
       /\ hrt_rs' = [hrt_rs EXCEPT ![h] = rs]
       /\ hrt_pc' = [hrt_pc EXCEPT ![h] =
                       IF rs_committed[rs] THEN "steal" ELSE "unfile"]
  /\ UNCHANGED <<rs_no_ack, flagVars, exp_uncommitted_replies, scp_rep_active,
                 batch, memVars, commitVars, send, srv_stopping, wanted>>

\* Mutant of HandleUnfile: the list of uncommitted replies is left alone.
HandleKeepFiled(h) ==
  /\ hrt_pc[h] = "unfile" /\ UncommittedLockFree
  /\ hrt_pc' = [hrt_pc EXCEPT ![h] = "steal"]
  /\ UNCHANGED <<rs_no_ack, flagVars, listVars, hrt_rs, memVars,
                 commitVars, send, srv_stopping, wanted>>

\* rs_committed was clear: off the list of uncommitted replies.
HandleUnfile(h) ==
  /\ hrt_pc[h] = "unfile" /\ UncommittedLockFree
  /\ exp_uncommitted_replies' = exp_uncommitted_replies \ {hrt_rs[h]}
  /\ hrt_pc' = [hrt_pc EXCEPT ![h] = "steal"]
  /\ UNCHANGED <<rs_no_ack, flagVars, exp_outstanding_replies, scp_rep_active,
                 hrt_queue, batch, hrt_rs, memVars, commitVars,
                 send, srv_stopping, wanted>>

\* The thread is through with the reply: if it is off the net, it will be
\* put; if not, reply_out_callback will schedule it again.
Unschedule(h, rs) ==
  /\ rs_scheduled' = [rs_scheduled EXCEPT ![rs] = FALSE]
  /\ hrt_pc' = [hrt_pc EXCEPT ![h] = IF rs_on_net[rs] THEN "idle" ELSE "put"]
  /\ hrt_rs' = [hrt_rs EXCEPT ![h] = IF rs_on_net[rs] THEN None ELSE rs]

\* Under rs_lock the locks are stolen.  When there are some, or the reply is
\* on the net for the first time, rs_lock is dropped to release them.
HandleSteal(h) ==
  LET rs == hrt_rs[h]
  IN  /\ hrt_pc[h] = "steal"
      /\ rs_handled' = [rs_handled EXCEPT ![rs] = TRUE]
      /\ rs_nlocks' = [rs_nlocks EXCEPT ![rs] = FALSE]
      /\ IF rs_nlocks[rs] \/ (~rs_handled[rs] /\ rs_on_net[rs])
         THEN /\ hrt_pc' = [hrt_pc EXCEPT ![h] = "release"]
              /\ UNCHANGED <<rs_scheduled, hrt_rs>>
         ELSE Unschedule(h, rs)
      /\ UNCHANGED <<rs_no_ack, rs_on_net, rs_committed, listVars, rs_export,
                     rs_refcount, live, scp_nreps_difficult, commitVars, send,
                     srv_stopping, wanted>>

\* The reply's MD is unlinked and the locks are released without rs_lock;
\* then rs_lock is taken again.
HandleRelease(h) ==
  /\ hrt_pc[h] = "release"
  /\ Unschedule(h, hrt_rs[h])
  /\ UNCHANGED <<rs_no_ack, rs_handled, rs_on_net, rs_committed, listVars,
                 memVars, commitVars, send, srv_stopping, wanted>>

\* Off the net: export, reference and count are given back.
HandlePut(h) ==
  LET rs == hrt_rs[h]
  IN  /\ hrt_pc[h] = "put"
      /\ rs_export' = [rs_export EXCEPT ![rs] = FALSE]
      /\ Decref(rs)
      /\ scp_nreps_difficult' = scp_nreps_difficult - 1
      /\ hrt_pc' = [hrt_pc EXCEPT ![h] = "idle"]
      /\ hrt_rs' = [hrt_rs EXCEPT ![h] = None]
      /\ UNCHANGED <<rs_no_ack, flagVars, listVars, rs_nlocks,
                     commitVars, send, srv_stopping, wanted>>

(***************************************************************************)
(* ptlrpc_unregister_service.                                              *)
(***************************************************************************)
\* The service threads have stopped, so every reply they began is sent.
ptlrpc_unregister_service ==
  /\ srv_stopping = "no"
  /\ \A rs \in Replies : send[rs] \in {"setup", "dropped"}
  /\ srv_stopping' = "purge"
  /\ UNCHANGED <<rs_no_ack, flagVars, listVars, hrVars, memVars, commitVars,
                 send, wanted>>

\* ptlrpc_service_purge_all takes scp_rep_lock ...
PurgeLock ==
  /\ srv_stopping = "purge" /\ RepLockFree
  /\ scp_rep_lock' = "purge"
  /\ UNCHANGED <<rs_no_ack, flagVars, listVars, hrVars, memVars,
                 exp_last_committed, commit, commit_rs, send, srv_stopping,
                 wanted>>

\* ... schedules the active replies one after the other ...
PurgeActive(rs) ==
  /\ scp_rep_lock = "purge"
  /\ rs \in scp_rep_active
  /\ ptlrpc_schedule_difficult_reply(rs)
  /\ wanted' = wanted \union {rs}
  /\ UNCHANGED <<rs_no_ack, rs_handled, rs_on_net, rs_committed,
                 exp_outstanding_replies, exp_uncommitted_replies, batch,
                 hrVars, memVars, commitVars, send, srv_stopping>>

\* Mutant of PurgeDone: active replies are left to the callbacks.
PurgeNothing ==
  /\ scp_rep_lock = "purge"
  /\ scp_rep_lock' = "free"
  /\ srv_stopping' = "wait"
  /\ UNCHANGED <<rs_no_ack, flagVars, listVars, hrVars, memVars,
                 exp_last_committed, commit, commit_rs, send, wanted>>

\* ... and drops the lock when none is left.
PurgeDone ==
  /\ scp_rep_lock = "purge"
  /\ scp_rep_active = {}
  /\ scp_rep_lock' = "free"
  /\ srv_stopping' = "wait"
  /\ UNCHANGED <<rs_no_ack, flagVars, listVars, hrVars, memVars,
                 exp_last_committed, commit, commit_rs, send, wanted>>

\* ptlrpc_wait_replies: the service is freed when no difficult reply is left.
ptlrpc_wait_replies ==
  /\ srv_stopping = "wait"
  /\ scp_nreps_difficult = 0
  /\ srv_stopping' = "done"
  /\ UNCHANGED <<rs_no_ack, flagVars, listVars, hrVars, memVars, commitVars,
                 send, wanted>>

CommitStep ==
  \/ \E rs \in Replies : CommitNext(rs)
  \/ BatchFull
  \/ rs_batch_add
  \/ CommitLoopEnd
  \/ rs_batch_fini

Handle(h) ==
  \/ ptlrpc_hr_main(h)
  \/ HandleUnfile(h)
  \/ HandleSteal(h)
  \/ HandleRelease(h)
  \/ HandlePut(h)

UnregisterStep ==
  \/ PurgeLock
  \/ \E rs \in Replies : PurgeActive(rs)
  \/ PurgeDone
  \/ ptlrpc_wait_replies

Next ==
  \/ \E rs \in Replies :
       \/ SendSetup(rs) \/ SendMsg(rs) \/ SendDone(rs) \/ SendFailed(rs)
       \/ ptlrpc_req_drop_rs(rs)
       \/ reply_out_callback(rs)
       \/ server_disconnect_export(rs)
  \/ ptlrpc_commit_replies \/ CommitStep
  \/ \E h \in Hrts : Handle(h)
  \/ ptlrpc_unregister_service \/ UnregisterStep

Spec == Init /\ [][Next]_vars

\* Handlers, committing and unregistering threads that can run on do; and
\* LNetMDUnlink makes the network call back, so a reply that was handled does
\* not stay on the net.  Nothing is assumed of service threads, clients and
\* journal.
FairSpec ==
  /\ Spec
  /\ \A rs \in Replies : WF_vars(rs_handled[rs] /\ reply_out_callback(rs))
  /\ \A h \in Hrts : WF_vars(Handle(h))
  /\ WF_vars(CommitStep)
  /\ WF_vars(UnregisterStep)

(***************************************************************************)
(* Properties.                                                             *)
(***************************************************************************)
\* The types of the state; scp_nreps_difficult never goes below zero.
TypeOK ==
  /\ exp_last_committed \in 0 .. MaxTransno
  /\ rs_refcount \in [Replies -> 0 .. 2]
  /\ scp_nreps_difficult \in Nat
  /\ send \in [Replies -> {"setup", "msg", "sent", "done", "dropped"}]
  /\ hrt_queue \in [Hrts -> SUBSET Replies]
  /\ hrt_pc \in [Hrts -> {"idle", "unfile", "steal", "release", "put"}]
  /\ hrt_rs \in [Hrts -> Replies \union {None}]
  /\ commit_rs \in Replies \union {None}
  /\ scp_rep_lock \in {"free", "batch", "purge"}

\* A reply is with one party at a time (LASSERT(list_empty(&rs->rs_list)) in
\* ptlrpc_dispatch_difficult_reply and ptlrpc_handle_rs): it is on at most one
\* of the active list, the batch and the queues, no two threads handle it, and
\* whatever a thread has taken or will take is marked scheduled until it is
\* done with.
OneOwner ==
  /\ TypeOK
  /\ \A rs \in Replies :
       LET owners == {h \in Hrts : rs \in hrt_queue[h] \/ hrt_rs[h] = rs}
       IN  /\ Cardinality(owners)
                + (IF rs \in scp_rep_active THEN 1 ELSE 0)
                + (IF rs \in batch THEN 1 ELSE 0) <= 1
           /\ \A h \in owners : ~(rs \in hrt_queue[h] /\ hrt_rs[h] = rs)
           /\ (\E h \in owners : hrt_pc[h] # "put" \/ rs \in hrt_queue[h])
                => rs_scheduled[rs]

\* What lustre_free_reply_state asserts, and no party still knows the reply:
\* a freed reply is handled, off the net, not scheduled, without export and
\* locks, and on no list.
FreedIsClean ==
  \A rs \in Replies \ live :
    /\ rs_handled[rs] /\ ~rs_on_net[rs] /\ ~rs_scheduled[rs]
    /\ ~rs_export[rs] /\ ~rs_nlocks[rs]
    /\ rs \notin exp_outstanding_replies \union exp_uncommitted_replies
                   \union scp_rep_active \union batch
    /\ \A h \in Hrts : rs \notin hrt_queue[h] /\ hrt_rs[h] # rs
    /\ commit_rs # rs

\* Locks are kept as long as the client or a crash could still need them
\* (Rep-Ack logic): they go only when the transaction is committed, when the
\* client has acknowledged a reply that asks for it, or when somebody gave up
\* on the reply.
LocksKeptUntilSafe ==
  \A rs \in Replies : ~rs_nlocks[rs] =>
    \/ Committed(rs)
    \/ rs \in wanted
    \/ ~rs_on_net[rs] /\ ~rs_no_ack[rs]

\* ptlrpc_wait_replies ends: a service that is being unregistered gets rid of
\* its difficult replies, with no help from clients or journal.
UnregisterEnds == srv_stopping = "purge" ~> srv_stopping = "done"
==============================================================================
