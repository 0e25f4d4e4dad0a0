------------------------- MODULE PtlrpcRepliesProofs -------------------------
(***************************************************************************)
(* Proofs about PtlrpcReplies for every set of replies and of reply        *)
(* handling threads, every assignment of transactions and every size of a  *)
(* batch.                                                                  *)
(***************************************************************************)
EXTENDS PtlrpcReplies, FiniteSetTheorems, TLAPS

\* Is the reply with a reply handling thread?
WithThread(rs, h) == rs \in hrt_queue[h] \/ hrt_rs[h] = rs
NoThread(rs) == \A h \in Hrts : ~WithThread(rs, h)

\* Nobody but who has the reply can come across it.
Off(rs) ==
  /\ rs \notin exp_outstanding_replies
  /\ rs \notin exp_uncommitted_replies
  /\ commit_rs # rs

\* May the locks of the reply go?
Safe(rs) ==
  \/ Committed(rs)
  \/ rs \in wanted
  \/ ~rs_on_net[rs] /\ ~rs_no_ack[rs]

\* The replies that scp_nreps_difficult counts.
Difficult ==
  {rs \in Replies : send[rs] \in {"done", "dropped"} /\ rs_export[rs]}

Types ==
  /\ TypeOK
  /\ rs_no_ack \in [Replies -> BOOLEAN] /\ rs_scheduled \in [Replies -> BOOLEAN]
  /\ rs_handled \in [Replies -> BOOLEAN] /\ rs_on_net \in [Replies -> BOOLEAN]
  /\ rs_committed \in [Replies -> BOOLEAN] /\ rs_nlocks \in [Replies -> BOOLEAN]
  /\ rs_export \in [Replies -> BOOLEAN]
  /\ exp_outstanding_replies \subseteq Replies
  /\ exp_uncommitted_replies \subseteq Replies
  /\ scp_rep_active \subseteq Replies /\ batch \subseteq Replies
  /\ live \subseteq Replies

\* The loop of ptlrpc_commit_replies is at a reply that it took off the list,
\* and who fills a batch holds scp_rep_lock.
CommitInv ==
  /\ commit_rs # None => /\ commit = "loop" /\ Committed(commit_rs)
                         /\ commit_rs \notin exp_uncommitted_replies
  /\ batch # {} => scp_rep_lock = "batch"
  /\ \A rs \in Replies : rs_committed[rs] =>
       rs \notin exp_uncommitted_replies /\ commit_rs # rs

\* A reply that is not set up is nowhere; one that is being sent is scheduled,
\* so that nobody dispatches it.
SendInv ==
  \A rs \in Replies :
    /\ send[rs] = "setup" =>
         /\ Off(rs) /\ NoThread(rs) /\ rs \notin scp_rep_active \union batch
         /\ ~rs_scheduled[rs] /\ ~rs_handled[rs] /\ ~rs_on_net[rs] /\ ~rs_export[rs]
         /\ ~rs_committed[rs]
    /\ send[rs] \in {"msg", "sent"} =>
         /\ NoThread(rs) /\ rs \notin scp_rep_active \union batch
         /\ rs_scheduled[rs] /\ ~rs_handled[rs] /\ rs_export[rs]
         /\ rs \notin exp_outstanding_replies => rs \in wanted

\* A reply that a party has is scheduled, and no other party has it.
OwnerInv ==
  /\ \A h \in Hrts : hrt_pc[h] = "idle" <=> hrt_rs[h] = None
  /\ \A rs \in Replies, h \in Hrts :
       /\ WithThread(rs, h) =>
            /\ rs \notin scp_rep_active \union batch
            /\ \A g \in Hrts : WithThread(rs, g) => g = h
       /\ rs \in hrt_queue[h] => rs_scheduled[rs] /\ hrt_rs[h] # rs
  /\ \A rs \in scp_rep_active : ~rs_scheduled[rs] /\ rs \notin batch
  /\ \A rs \in batch : rs_scheduled[rs]

\* What a thread has found out about the reply that it handles.
HandleInv ==
  \A rs \in Replies, h \in Hrts : hrt_rs[h] = rs =>
    /\ rs \notin exp_outstanding_replies
    /\ hrt_pc[h] # "unfile" => Off(rs)
    /\ hrt_pc[h] # "put" => rs_scheduled[rs]
    /\ hrt_pc[h] \in {"release", "put"} => rs_handled[rs]
    /\ hrt_pc[h] = "put" => ~rs_scheduled[rs] /\ ~rs_on_net[rs]

\* A reply was handled when its locks are gone.  A reply whose export was put
\* is through with everything.
HandledInv ==
  \A rs \in Replies :
    /\ rs_handled[rs] <=> ~rs_nlocks[rs]
    /\ rs_handled[rs] => Off(rs)
    /\ send[rs] # "setup" /\ ~rs_export[rs] =>
         /\ rs_handled[rs] /\ ~rs_on_net[rs] /\ ~rs_scheduled[rs]
         /\ NoThread(rs) /\ rs \notin scp_rep_active \union batch

\* Whoever dispatched the reply, it was safe to.
SafeInv ==
  \A rs \in Replies :
    /\ send[rs] # "setup" /\ rs \notin exp_uncommitted_replies => Safe(rs)
    /\ rs \in batch \/ ~NoThread(rs) \/ rs_handled[rs] => Safe(rs)

\* References: one of the request and one of the network or of who is to put
\* the reply.
RefInv ==
  /\ \A rs \in Replies :
       /\ rs_refcount[rs] = (IF send[rs] # "dropped" THEN 1 ELSE 0)
                              + (IF /\ send[rs] \in {"sent", "done", "dropped"}
                                    /\ rs_export[rs] THEN 1 ELSE 0)
       /\ rs \in live <=> rs_refcount[rs] > 0
  /\ scp_nreps_difficult = Cardinality(Difficult)

\* The inductive invariant.
IInv ==
  /\ Types /\ CommitInv /\ SendInv /\ OwnerInv /\ HandleInv /\ HandledInv
  /\ SafeInv /\ RefInv

-----------------------------------------------------------------------------
\* What is safe stays safe: commits and those who give up are not undone, and
\* a reply comes on the net only when it is set up.
LEMMA SafeKept ==
  ASSUME Types, NEW rs \in Replies, Safe(rs), UNCHANGED rs_no_ack,
         exp_last_committed' \in exp_last_committed .. MaxTransno,
         wanted \subseteq wanted', rs_on_net'[rs] => rs_on_net[rs]
  PROVE  Safe(rs)'
<1>1. Committed(rs) => Committed(rs)'
  BY RepliesAssumption DEF Types, TypeOK, Committed
<1> QED BY <1>1 DEF Safe, Types

\* Finite sets of replies.
LEMMA SomeReplies ==
  ASSUME NEW S \in SUBSET Replies
  PROVE  /\ IsFiniteSet(S) /\ Cardinality(S) \in Nat
         /\ \A rs \in Replies \ S : Cardinality(S \union {rs}) = Cardinality(S) + 1
         /\ \A rs \in S : Cardinality(S \ {rs}) = Cardinality(S) - 1
<1>1. IsFiniteSet(S)
  BY RepliesAssumption, FS_Subset
<1> QED BY <1>1, FS_CardinalityType, FS_AddElement, FS_RemoveElement

LEMMA InitIInv == Init => IInv
<1> SUFFICES ASSUME Init PROVE IInv
  OBVIOUS
<1>1. Types
  BY RepliesAssumption DEF Init, Types, TypeOK
<1>2. CommitInv
  BY DEF Init, CommitInv
<1>3. SendInv
  BY RepliesAssumption DEF Init, SendInv, Off, NoThread, WithThread
<1>4. OwnerInv /\ HandleInv
  BY RepliesAssumption DEF Init, OwnerInv, HandleInv, WithThread
<1>5. HandledInv
  BY DEF Init, HandledInv
<1>6. SafeInv
  BY RepliesAssumption DEF Init, SafeInv, NoThread, WithThread
<1>7. RefInv
  <2>1. Difficult = {}
    BY DEF Init, Difficult
  <2>2. Cardinality(Difficult) = 0
    BY <2>1, FS_EmptySet
  <2> QED BY <2>2 DEF Init, RefInv
<1> QED BY <1>1, <1>2, <1>3, <1>4, <1>5, <1>6, <1>7 DEF IInv

-----------------------------------------------------------------------------
(* The service thread. *)

LEMMA SetupKeeps ==
  ASSUME IInv, NEW rs \in Replies, SendSetup(rs)
  PROVE  IInv'
<1>u. /\ send[rs] = "setup" /\ commit # "loop"
      /\ rs_scheduled' = [rs_scheduled EXCEPT ![rs] = TRUE]
      /\ rs_on_net' = [rs_on_net EXCEPT ![rs] = TRUE]
      /\ rs_export' = [rs_export EXCEPT ![rs] = TRUE]
      /\ exp_uncommitted_replies' = (IF Committed(rs) THEN exp_uncommitted_replies
                                     ELSE exp_uncommitted_replies \union {rs})
      /\ exp_outstanding_replies' = exp_outstanding_replies \union {rs}
      /\ send' = [send EXCEPT ![rs] = "msg"]
      /\ UNCHANGED <<rs_no_ack, rs_handled, rs_committed, scp_rep_active,
                     hrt_queue, batch, hrt_pc, hrt_rs, rs_nlocks, rs_refcount,
                     live, scp_nreps_difficult, exp_last_committed, commit,
                     commit_rs, scp_rep_lock, wanted>>
  BY DEF SendSetup, UncommittedLockFree, hrVars, commitVars
<1>1. Types'
  BY <1>u DEF IInv, Types, TypeOK
<1>o. \A r \in Replies : r # rs =>
        /\ rs_scheduled'[r] = rs_scheduled[r] /\ rs_on_net'[r] = rs_on_net[r]
        /\ rs_export'[r] = rs_export[r] /\ send'[r] = send[r]
        /\ r \in exp_uncommitted_replies' <=> r \in exp_uncommitted_replies
        /\ r \in exp_outstanding_replies' <=> r \in exp_outstanding_replies
  BY <1>u DEF IInv, Types, TypeOK
<1>r. /\ rs_scheduled'[rs] /\ rs_on_net'[rs] /\ rs_export'[rs] /\ send'[rs] = "msg"
      /\ rs \in exp_outstanding_replies'
      /\ rs \notin exp_uncommitted_replies' => Committed(rs)
  BY <1>u DEF IInv, Types, TypeOK
<1>s. /\ NoThread(rs) /\ rs \notin scp_rep_active \union batch /\ ~rs_handled[rs]
      /\ commit_rs = None
  BY <1>u DEF IInv, SendInv, CommitInv
<1>n. \A r \in Replies : NoThread(r)' <=> NoThread(r)
  BY <1>u DEF NoThread, WithThread
<1>c. \A r \in Replies : r # rs => (Off(r)' <=> Off(r))
  BY <1>u, <1>o DEF Off
<1>2. CommitInv'
  <2>1. ~rs_committed[rs]
    BY <1>u DEF IInv, SendInv
  <2> QED BY <1>u, <1>o, <1>s, <2>1 DEF IInv, CommitInv, Committed, Types, TypeOK
<1>3. SendInv'
  BY <1>u, <1>o, <1>r, <1>s, <1>n, <1>c DEF IInv, SendInv
<1>4. OwnerInv'
  BY <1>u, <1>o, <1>r, <1>s, <1>n DEF IInv, OwnerInv, WithThread, NoThread, Types
<1>5. HandleInv'
  BY <1>u, <1>o, <1>s, <1>c DEF IInv, HandleInv, NoThread, WithThread
<1>6. HandledInv'
  BY <1>u, <1>o, <1>r, <1>s, <1>n, <1>c DEF IInv, HandledInv
<1>7. SafeInv'
  <2>1. \A r \in Replies : r # rs => (Safe(r)' <=> Safe(r))
    BY <1>u, <1>o DEF Safe, Committed
  <2>2. rs \notin exp_uncommitted_replies' => Safe(rs)'
    BY <1>u, <1>r DEF Safe, Committed
  <2> QED BY <1>u, <1>o, <1>s, <1>n, <2>1, <2>2 DEF IInv, SafeInv
<1>8. RefInv'
  <2>1. Difficult' = Difficult
    BY <1>u, <1>o, <1>r DEF Difficult
  <2> QED BY <1>u, <1>o, <1>r, <2>1 DEF IInv, RefInv
<1> QED BY <1>1, <1>2, <1>3, <1>4, <1>5, <1>6, <1>7, <1>8 DEF IInv

LEMMA SendMsgKeeps ==
  ASSUME IInv, NEW rs \in Replies, SendMsg(rs)
  PROVE  IInv'
<1>u. /\ send[rs] = "msg"
      /\ rs_refcount' = [rs_refcount EXCEPT ![rs] = @ + 1]
      /\ send' = [send EXCEPT ![rs] = "sent"]
      /\ UNCHANGED <<rs_no_ack, rs_scheduled, rs_handled, rs_on_net,
                     rs_committed, exp_outstanding_replies,
                     exp_uncommitted_replies, scp_rep_active, hrt_queue, batch,
                     hrt_pc, hrt_rs, rs_nlocks, rs_export, live,
                     scp_nreps_difficult, exp_last_committed, commit,
                     commit_rs, scp_rep_lock, wanted>>
  BY DEF SendMsg, flagVars, listVars, hrVars, commitVars
<1>o. /\ \A r \in Replies : r # rs =>
           rs_refcount'[r] = rs_refcount[r] /\ send'[r] = send[r]
      /\ rs_refcount'[rs] = rs_refcount[rs] + 1 /\ send'[rs] = "sent"
      /\ rs_refcount[rs] = 1 /\ rs \in live /\ rs_export[rs]
  BY <1>u DEF IInv, Types, TypeOK, SendInv, RefInv
<1>1. Types'
  BY <1>u, <1>o DEF IInv, Types, TypeOK
<1>n. \A r \in Replies : /\ NoThread(r)' <=> NoThread(r)
                         /\ Off(r)' <=> Off(r)
                         /\ Safe(r)' <=> Safe(r)
  BY <1>u DEF NoThread, WithThread, Off, Safe, Committed
<1>2. CommitInv'
  BY <1>u DEF IInv, CommitInv, Committed
<1>3. SendInv'
  BY <1>u, <1>o, <1>n DEF IInv, SendInv
<1>4. OwnerInv' /\ HandleInv'
  BY <1>u DEF IInv, OwnerInv, HandleInv, WithThread, Off
<1>6. HandledInv'
  BY <1>u, <1>o, <1>n DEF IInv, HandledInv
<1>7. SafeInv'
  BY <1>u, <1>o, <1>n DEF IInv, SafeInv
<1>8. RefInv'
  <2>1. Difficult' = Difficult
    BY <1>u, <1>o DEF Difficult
  <2> QED BY <1>u, <1>o, <2>1 DEF IInv, RefInv
<1> QED BY <1>1, <1>2, <1>3, <1>4, <1>6, <1>7, <1>8 DEF IInv

\* Both ends of target_send_reply: the reply is dispatched or filed as active.
LEMMA FileKeeps ==
  ASSUME IInv, NEW rs \in Replies, NEW on_net \in BOOLEAN,
         SendFile(rs, on_net),
         send[rs] \in {"msg", "sent"},
         on_net => rs_on_net[rs],
         rs_on_net' = [rs_on_net EXCEPT ![rs] = on_net],
         rs_refcount' = [rs_refcount EXCEPT ![rs] =
                           @ + (IF send[rs] = "msg" THEN 1 ELSE 0)],
         scp_nreps_difficult' = scp_nreps_difficult + 1,
         send' = [send EXCEPT ![rs] = "done"],
         wanted \subseteq wanted',
         UNCHANGED <<rs_no_ack, rs_handled, rs_committed,
                     exp_outstanding_replies, exp_uncommitted_replies, batch,
                     hrt_pc, hrt_rs, rs_nlocks, rs_export, live,
                     exp_last_committed, commit, commit_rs, scp_rep_lock>>
  PROVE  IInv'
<1>s. /\ NoThread(rs) /\ rs \notin scp_rep_active \union batch
      /\ rs_scheduled[rs] /\ ~rs_handled[rs] /\ rs_export[rs] /\ rs_nlocks[rs]
      /\ rs \notin exp_outstanding_replies => rs \in wanted
      /\ rs_refcount[rs] = (IF send[rs] = "msg" THEN 1 ELSE 2) /\ rs \in live
  BY DEF IInv, SendInv, HandledInv, RefInv, Types, TypeOK
<1>p. /\ \A r \in Replies : r # rs =>
           /\ rs_refcount'[r] = rs_refcount[r] /\ send'[r] = send[r]
           /\ rs_on_net'[r] = rs_on_net[r]
      /\ rs_refcount'[rs] = 2 /\ send'[rs] = "done" /\ rs_on_net'[rs] = on_net
  BY <1>s DEF IInv, Types, TypeOK
<1>c. \A r \in Replies : /\ Off(r)' <=> Off(r)
                         /\ Safe(r) => Safe(r)'
  <2>1. exp_last_committed' \in exp_last_committed .. MaxTransno
    BY RepliesAssumption DEF IInv, Types, TypeOK
  <2> QED BY <1>p, <2>1, SafeKept DEF Off, IInv
<1>8. RefInv'
  <2>1. Difficult' = Difficult \union {rs} /\ rs \notin Difficult
    BY <1>s, <1>p DEF Difficult
  <2>2. Cardinality(Difficult') = Cardinality(Difficult) + 1
    BY <2>1, SomeReplies DEF Difficult
  <2>3. \A r \in Replies :
          /\ rs_refcount'[r] = (IF send'[r] # "dropped" THEN 1 ELSE 0)
                              + (IF /\ send'[r] \in {"sent", "done", "dropped"}
                                    /\ rs_export'[r] THEN 1 ELSE 0)
          /\ r \in live' <=> rs_refcount'[r] > 0
    BY <1>s, <1>p DEF IInv, RefInv
  <2> QED BY <2>2, <2>3 DEF IInv, RefInv
<1>2. CommitInv'
  BY DEF IInv, CommitInv, Committed
<1>a. CASE /\ ptlrpc_dispatch_difficult_reply(rs)
           /\ UNCHANGED <<rs_scheduled, scp_rep_active>>
           /\ \/ Committed(rs)
              \/ ~on_net /\ ~rs_no_ack[rs]
              \/ rs \notin exp_outstanding_replies
              \/ rs \notin exp_uncommitted_replies
  <2>1. PICK h \in Hrts : hrt_queue' = [hrt_queue EXCEPT ![h] = @ \union {rs}]
    BY <1>a DEF ptlrpc_dispatch_difficult_reply
  <2>2. \A r \in Replies, g \in Hrts :
          r \in hrt_queue'[g] <=> r \in hrt_queue[g] \/ (r = rs /\ g = h)
    BY <2>1 DEF IInv, Types, TypeOK
  <2>n. \A r \in Replies : r # rs => (NoThread(r)' <=> NoThread(r))
    BY <2>2 DEF NoThread, WithThread
  <2>s. Safe(rs)'
    <3>1. CASE Committed(rs) \/ (~on_net /\ ~rs_no_ack[rs])
      BY <3>1, <1>p DEF Safe, Committed
    <3>2. CASE rs \notin exp_outstanding_replies
      BY <3>2, <1>s DEF Safe
    <3>3. CASE rs \notin exp_uncommitted_replies
      BY <3>3, <1>c DEF IInv, SafeInv
    <3> QED BY <1>a, <3>1, <3>2, <3>3
  <2>3. Types'
    BY <1>p, <1>a, <2>1 DEF IInv, Types, TypeOK
  <2>4. SendInv'
    BY <1>p, <1>a, <1>c, <2>n DEF IInv, SendInv
  <2>5. OwnerInv'
    BY <1>s, <1>a, <2>2 DEF IInv, OwnerInv, WithThread, NoThread
  <2>6. HandleInv'
    BY <1>s, <1>p, <1>a, <1>c DEF IInv, HandleInv, NoThread, WithThread
  <2>7. HandledInv'
    BY <1>s, <1>p, <1>a, <1>c, <2>n DEF IInv, HandledInv
  <2>8. SafeInv'
    BY <1>s, <1>p, <1>a, <1>c, <2>n, <2>s DEF IInv, SafeInv
  <2> QED BY <1>2, <1>8, <2>3, <2>4, <2>5, <2>6, <2>7, <2>8 DEF IInv
<1>b. CASE /\ scp_rep_active' = scp_rep_active \union {rs}
           /\ rs_scheduled' = [rs_scheduled EXCEPT ![rs] = FALSE]
           /\ UNCHANGED hrt_queue
           /\ rs \in exp_uncommitted_replies
  <2>1. /\ \A r \in Replies : r # rs =>
             /\ rs_scheduled'[r] = rs_scheduled[r]
             /\ r \in scp_rep_active' <=> r \in scp_rep_active
        /\ ~rs_scheduled'[rs] /\ rs \in scp_rep_active'
    BY <1>b DEF IInv, Types
  <2>n. \A r \in Replies : NoThread(r)' <=> NoThread(r)
    BY <1>b DEF NoThread, WithThread
  <2>3. Types'
    BY <1>p, <1>b DEF IInv, Types, TypeOK
  <2>4. SendInv'
    BY <1>p, <1>b, <1>c, <2>1, <2>n DEF IInv, SendInv
  <2>5. OwnerInv'
    BY <1>s, <1>b, <2>1 DEF IInv, OwnerInv, WithThread, NoThread, Types
  <2>6. HandleInv'
    BY <1>s, <1>p, <1>b, <1>c, <2>1 DEF IInv, HandleInv, NoThread, WithThread
  <2>7. HandledInv'
    BY <1>s, <1>p, <1>b, <1>c, <2>1, <2>n DEF IInv, HandledInv
  <2>8. SafeInv'
    BY <1>s, <1>p, <1>b, <1>c, <2>n DEF IInv, SafeInv
  <2> QED BY <1>2, <1>8, <2>3, <2>4, <2>5, <2>6, <2>7, <2>8 DEF IInv
<1> QED BY <1>a, <1>b DEF SendFile

LEMMA SendDoneKeeps ==
  ASSUME IInv, NEW rs \in Replies, SendDone(rs)
  PROVE  IInv'
<1>1. /\ rs_on_net' = [rs_on_net EXCEPT ![rs] = rs_on_net[rs]]
      /\ rs_on_net[rs] \in BOOLEAN
      /\ rs_refcount' = [rs_refcount EXCEPT ![rs] =
                           @ + (IF send[rs] = "msg" THEN 1 ELSE 0)]
  BY DEF SendDone, IInv, Types, TypeOK
<1>2. SendFile(rs, rs_on_net[rs])
  BY DEF SendDone
<1>3. /\ send[rs] \in {"msg", "sent"}
      /\ scp_nreps_difficult' = scp_nreps_difficult + 1
      /\ send' = [send EXCEPT ![rs] = "done"]
      /\ wanted \subseteq wanted'
      /\ UNCHANGED <<rs_no_ack, rs_handled, rs_committed,
                     exp_outstanding_replies, exp_uncommitted_replies, batch,
                     hrt_pc, hrt_rs, rs_nlocks, rs_export, live,
                     exp_last_committed, commit, commit_rs, scp_rep_lock>>
  BY DEF SendDone, hrVars, commitVars
<1> QED BY <1>1, <1>2, <1>3, FileKeeps

LEMMA SendFailedKeeps ==
  ASSUME IInv, NEW rs \in Replies, SendFailed(rs)
  PROVE  IInv'
<1>1. /\ rs_on_net' = [rs_on_net EXCEPT ![rs] = FALSE]
      /\ rs_refcount' = [rs_refcount EXCEPT ![rs] =
                           @ + (IF send[rs] = "msg" THEN 1 ELSE 0)]
  BY DEF SendFailed
<1>2. SendFile(rs, FALSE)
  BY DEF SendFailed
<1>3. /\ send[rs] \in {"msg", "sent"}
      /\ scp_nreps_difficult' = scp_nreps_difficult + 1
      /\ send' = [send EXCEPT ![rs] = "done"]
      /\ wanted \subseteq wanted'
      /\ UNCHANGED <<rs_no_ack, rs_handled, rs_committed,
                     exp_outstanding_replies, exp_uncommitted_replies, batch,
                     hrt_pc, hrt_rs, rs_nlocks, rs_export, live,
                     exp_last_committed, commit, commit_rs, scp_rep_lock>>
  BY DEF SendFailed, hrVars, commitVars
<1> QED BY <1>1, <1>2, <1>3, FileKeeps

\* A reply handling thread, or the request, gives a reference back.
LEMMA DropKeeps ==
  ASSUME IInv, NEW rs \in Replies, ptlrpc_req_drop_rs(rs)
  PROVE  IInv'
<1>u. /\ send[rs] = "done"
      /\ rs_refcount' = [rs_refcount EXCEPT ![rs] = @ - 1]
      /\ live' = (IF rs_refcount[rs] = 1 THEN live \ {rs} ELSE live)
      /\ send' = [send EXCEPT ![rs] = "dropped"]
      /\ UNCHANGED <<rs_no_ack, rs_scheduled, rs_handled, rs_on_net,
                     rs_committed, exp_outstanding_replies,
                     exp_uncommitted_replies, scp_rep_active, hrt_queue, batch,
                     hrt_pc, hrt_rs, rs_nlocks, rs_export,
                     scp_nreps_difficult, exp_last_committed, commit,
                     commit_rs, scp_rep_lock, wanted>>
  BY DEF ptlrpc_req_drop_rs, Decref, flagVars, listVars, hrVars, commitVars
<1>o. /\ \A r \in Replies : r # rs =>
           /\ rs_refcount'[r] = rs_refcount[r] /\ send'[r] = send[r]
           /\ r \in live' <=> r \in live
      /\ rs_refcount'[rs] = rs_refcount[rs] - 1 /\ send'[rs] = "dropped"
      /\ rs_refcount[rs] = (IF rs_export[rs] THEN 2 ELSE 1)
      /\ rs \in live' <=> rs_export[rs]
  BY <1>u DEF IInv, Types, TypeOK, RefInv
<1>1. Types'
  BY <1>u, <1>o DEF IInv, Types, TypeOK
<1>n. \A r \in Replies : /\ NoThread(r)' <=> NoThread(r)
                         /\ Off(r)' <=> Off(r)
                         /\ Safe(r)' <=> Safe(r)
  BY <1>u DEF NoThread, WithThread, Off, Safe, Committed
<1>2. CommitInv'
  BY <1>u DEF IInv, CommitInv, Committed
<1>3. SendInv'
  BY <1>u, <1>o, <1>n DEF IInv, SendInv
<1>4. OwnerInv' /\ HandleInv'
  BY <1>u DEF IInv, OwnerInv, HandleInv, WithThread, Off
<1>6. HandledInv'
  BY <1>u, <1>o, <1>n DEF IInv, HandledInv
<1>7. SafeInv'
  BY <1>u, <1>o, <1>n DEF IInv, SafeInv
<1>8. RefInv'
  <2>1. Difficult' = Difficult
    BY <1>u, <1>o DEF Difficult
  <2> QED BY <1>u, <1>o, <2>1 DEF IInv, RefInv
<1> QED BY <1>1, <1>2, <1>3, <1>4, <1>6, <1>7, <1>8 DEF IInv

-----------------------------------------------------------------------------
(* The network, the export and the shutdown. *)

\* Whoever schedules a reply finds it scheduled already, or with nobody: the
\* reply is on the net, outstanding or active, so no thread is about to put it.
LEMMA ScheduleKeeps ==
  ASSUME IInv, NEW rs \in Replies,
         rs_on_net[rs] \/ rs \in exp_outstanding_replies \/ rs \in scp_rep_active,
         send[rs] # "setup",
         \/ ptlrpc_schedule_difficult_reply(rs) /\ Safe(rs)'
         \/ UNCHANGED <<rs_scheduled, scp_rep_active, hrt_queue>>,
         rs_on_net' \in {rs_on_net, [rs_on_net EXCEPT ![rs] = FALSE]},
         exp_outstanding_replies' \in {exp_outstanding_replies,
                                       exp_outstanding_replies \ {rs}},
         wanted \subseteq wanted',
         rs \in exp_outstanding_replies \ exp_outstanding_replies' => rs \in wanted',
         UNCHANGED <<rs_no_ack, rs_handled, rs_committed,
                     exp_uncommitted_replies, batch, hrt_pc, hrt_rs, rs_nlocks,
                     rs_export, rs_refcount, live, scp_nreps_difficult,
                     exp_last_committed, commit, commit_rs, scp_rep_lock, send>>
  PROVE  IInv'
<1>o. /\ \A r \in Replies : r # rs =>
           /\ rs_on_net'[r] = rs_on_net[r]
           /\ r \in exp_outstanding_replies' <=> r \in exp_outstanding_replies
      /\ rs_on_net'[rs] => rs_on_net[rs]
      /\ rs \in exp_outstanding_replies' => rs \in exp_outstanding_replies
      /\ rs_on_net' \in [Replies -> BOOLEAN]
  BY DEF IInv, Types
<1>s. rs_export[rs]
  BY DEF IInv, HandledInv, Off
<1>c. \A r \in Replies : /\ Off(r) => Off(r)'
                         /\ Safe(r) => Safe(r)'
  <2>1. exp_last_committed' \in exp_last_committed .. MaxTransno
    BY RepliesAssumption DEF IInv, Types, TypeOK
  <2>2. \A r \in Replies : Off(r) => Off(r)'
    BY <1>o DEF Off
  <2> QED BY <1>o, <2>1, <2>2, SafeKept DEF IInv
<1>2. CommitInv'
  BY DEF IInv, CommitInv, Committed
<1>8. RefInv'
  <2>1. Difficult' = Difficult
    BY DEF Difficult
  <2> QED BY <2>1 DEF IInv, RefInv
<1>a. CASE UNCHANGED <<rs_scheduled, scp_rep_active, hrt_queue>>
  <2>n. \A r \in Replies : NoThread(r)' <=> NoThread(r)
    BY <1>a DEF NoThread, WithThread
  <2>3. Types'
    BY <1>a, <1>o DEF IInv, Types, TypeOK
  <2>4. SendInv'
    BY <1>a, <1>o, <1>c, <2>n DEF IInv, SendInv
  <2>5. OwnerInv'
    BY <1>a DEF IInv, OwnerInv, WithThread
  <2>6. HandleInv'
    BY <1>a, <1>o, <1>c DEF IInv, HandleInv
  <2>7. HandledInv'
    BY <1>a, <1>o, <1>c, <1>s, <2>n DEF IInv, HandledInv
  <2>8. SafeInv'
    BY <1>a, <1>c, <2>n DEF IInv, SafeInv
  <2> QED BY <1>2, <1>8, <2>3, <2>4, <2>5, <2>6, <2>7, <2>8 DEF IInv
<1>b. CASE ~rs_scheduled[rs] /\ ptlrpc_schedule_difficult_reply(rs) /\ Safe(rs)'
  <2>1. PICK h \in Hrts : hrt_queue' = [hrt_queue EXCEPT ![h] = @ \union {rs}]
    BY <1>b DEF ptlrpc_schedule_difficult_reply, ptlrpc_dispatch_difficult_reply
  <2>2. \A r \in Replies, g \in Hrts :
          r \in hrt_queue'[g] <=> r \in hrt_queue[g] \/ (r = rs /\ g = h)
    BY <2>1 DEF IInv, Types, TypeOK
  <2>n. \A r \in Replies : r # rs => (NoThread(r)' <=> NoThread(r))
    BY <2>2 DEF NoThread, WithThread
  <2>e. /\ rs_scheduled' = [rs_scheduled EXCEPT ![rs] = TRUE]
        /\ scp_rep_active' = scp_rep_active \ {rs}
    BY <1>b DEF ptlrpc_schedule_difficult_reply
  <2>o. /\ \A r \in Replies : r # rs =>
             /\ rs_scheduled'[r] = rs_scheduled[r]
             /\ r \in scp_rep_active' <=> r \in scp_rep_active
        /\ rs_scheduled'[rs] /\ rs \notin scp_rep_active'
    BY <2>e DEF IInv, Types
  <2>s. NoThread(rs) /\ rs \notin batch /\ send[rs] \notin {"msg", "sent"}
    <3>1. rs \notin batch /\ send[rs] \notin {"msg", "sent"}
      BY <1>b DEF IInv, OwnerInv, SendInv
    <3>2. ASSUME NEW g \in Hrts, WithThread(rs, g) PROVE FALSE
      BY <1>b, <3>2 DEF IInv, OwnerInv, HandleInv, WithThread
    <3> QED BY <3>1, <3>2 DEF NoThread
  <2>3. Types'
    <3>1. hrt_queue' \in [Hrts -> SUBSET Replies]
      BY <2>1 DEF IInv, Types, TypeOK
    <3>2. /\ rs_scheduled' \in [Replies -> BOOLEAN]
          /\ scp_rep_active' \subseteq Replies
      BY <2>e DEF IInv, Types
    <3> QED BY <1>o, <3>1, <3>2 DEF IInv, Types, TypeOK
  <2>4. SendInv'
    BY <1>o, <1>c, <2>n, <2>o, <2>s DEF IInv, SendInv
  <2>5. OwnerInv'
    <3>2. ASSUME NEW r \in Replies, NEW g \in Hrts
          PROVE  /\ WithThread(r, g)' =>
                      /\ r \notin scp_rep_active' \union batch'
                      /\ \A k \in Hrts : WithThread(r, k)' => k = g
                 /\ r \in hrt_queue'[g] => rs_scheduled'[r] /\ hrt_rs'[g] # r
      BY <2>2, <2>o, <2>s DEF IInv, OwnerInv, WithThread, NoThread
    <3>3. \A r \in scp_rep_active' : ~rs_scheduled'[r] /\ r \notin batch'
      BY <2>o, <2>3 DEF IInv, OwnerInv, Types
    <3>4. \A r \in batch' : rs_scheduled'[r]
      BY <2>o DEF IInv, OwnerInv, Types
    <3>5. \A g \in Hrts : hrt_pc'[g] = "idle" <=> hrt_rs'[g] = None
      BY DEF IInv, OwnerInv
    <3> QED BY <3>2, <3>3, <3>4, <3>5 DEF OwnerInv
  <2>6. HandleInv'
    BY <1>o, <1>c, <2>o, <2>s DEF IInv, HandleInv, NoThread, WithThread
  <2>7. HandledInv'
    BY <1>o, <1>c, <1>s, <2>n, <2>o DEF IInv, HandledInv
  <2>8. SafeInv'
    BY <1>b, <1>c, <2>n DEF IInv, SafeInv
  <2> QED BY <1>2, <1>8, <2>3, <2>4, <2>5, <2>6, <2>7, <2>8 DEF IInv
<1> QED BY <1>a, <1>b DEF ptlrpc_schedule_difficult_reply

LEMMA CallbackKeeps ==
  ASSUME IInv, NEW rs \in Replies, reply_out_callback(rs)
  PROVE  IInv'
<1>1. /\ rs_on_net[rs] /\ send[rs] # "setup"
      /\ rs_on_net' = [rs_on_net EXCEPT ![rs] = FALSE]
      /\ UNCHANGED <<rs_no_ack, rs_handled, rs_committed,
                     exp_uncommitted_replies, batch, hrt_pc, hrt_rs, rs_nlocks,
                     rs_export, rs_refcount, live, scp_nreps_difficult,
                     exp_last_committed, commit, commit_rs, scp_rep_lock, send,
                     exp_outstanding_replies, wanted>>
  BY DEF reply_out_callback, hrVars, memVars, commitVars
<1>2. ~rs_on_net'[rs]
  BY <1>1 DEF IInv, Types
<1>3. ASSUME ~rs_no_ack[rs] \/ Committed(rs) \/ rs \notin exp_uncommitted_replies
      PROVE  Safe(rs)'
  BY <1>1, <1>2, <1>3 DEF IInv, SafeInv, Safe, Committed
<1>4. \/ ptlrpc_schedule_difficult_reply(rs) /\ Safe(rs)'
      \/ UNCHANGED <<rs_scheduled, scp_rep_active, hrt_queue>>
  BY <1>3 DEF reply_out_callback
<1> QED BY <1>1, <1>4, ScheduleKeeps

LEMMA DisconnectKeeps ==
  ASSUME IInv, NEW rs \in Replies, server_disconnect_export(rs)
  PROVE  IInv'
<1>1. /\ rs \in exp_outstanding_replies
      /\ exp_outstanding_replies' = exp_outstanding_replies \ {rs}
      /\ wanted \subseteq wanted' /\ rs \in wanted'
      /\ ptlrpc_schedule_difficult_reply(rs)
      /\ UNCHANGED <<rs_no_ack, rs_handled, rs_committed,
                     exp_uncommitted_replies, batch, hrt_pc, hrt_rs, rs_nlocks,
                     rs_export, rs_refcount, live, scp_nreps_difficult,
                     exp_last_committed, commit, commit_rs, scp_rep_lock, send,
                     rs_on_net>>
  BY DEF server_disconnect_export, hrVars, memVars, commitVars
<1>2. Safe(rs)' /\ send[rs] # "setup"
  BY <1>1 DEF Safe, IInv, SendInv, Off
<1> QED BY <1>1, <1>2, ScheduleKeeps

LEMMA PurgeActiveKeeps ==
  ASSUME IInv, NEW rs \in Replies, PurgeActive(rs)
  PROVE  IInv'
<1>1. /\ rs \in scp_rep_active
      /\ wanted \subseteq wanted' /\ rs \in wanted'
      /\ ptlrpc_schedule_difficult_reply(rs)
      /\ UNCHANGED <<rs_no_ack, rs_handled, rs_committed,
                     exp_uncommitted_replies, batch, hrt_pc, hrt_rs, rs_nlocks,
                     rs_export, rs_refcount, live, scp_nreps_difficult,
                     exp_last_committed, commit, commit_rs, scp_rep_lock, send,
                     rs_on_net, exp_outstanding_replies>>
  BY DEF PurgeActive, hrVars, memVars, commitVars
<1>2. Safe(rs)' /\ send[rs] # "setup"
  BY <1>1 DEF Safe, IInv, SendInv
<1> QED BY <1>1, <1>2, ScheduleKeeps

\* Steps that take or drop scp_rep_lock, move the commit on, or change the
\* state of the service, and touch no reply.
LEMMA ControlKeeps ==
  ASSUME IInv,
         exp_last_committed' \in exp_last_committed .. MaxTransno,
         commit_rs # None => commit' = "loop",
         batch # {} => scp_rep_lock' = "batch",
         scp_rep_lock' \in {"free", "batch", "purge"},
         UNCHANGED <<rs_no_ack, flagVars, listVars, hrVars, memVars, commit_rs,
                     send, wanted>>
  PROVE  IInv'
<1>u. UNCHANGED <<rs_no_ack, rs_scheduled, rs_handled, rs_on_net,
                  rs_committed, exp_outstanding_replies,
                  exp_uncommitted_replies, scp_rep_active, hrt_queue, batch,
                  hrt_pc, hrt_rs, rs_nlocks, rs_export, rs_refcount, live,
                  scp_nreps_difficult, commit_rs, send, wanted>>
  BY DEF flagVars, listVars, hrVars, memVars
<1>0. exp_last_committed' \in 0 .. MaxTransno
  BY RepliesAssumption DEF IInv, Types, TypeOK
<1>1. Types'
  BY <1>u, <1>0 DEF IInv, Types, TypeOK
<1>n. \A r \in Replies : /\ NoThread(r)' <=> NoThread(r)
                         /\ Off(r)' <=> Off(r)
                         /\ Safe(r) => Safe(r)'
  <2>1. \A r \in Replies : Safe(r) => Safe(r)'
    BY <1>u, SafeKept DEF IInv
  <2> QED BY <1>u, <2>1 DEF NoThread, WithThread, Off
<1>2. CommitInv'
  <2>1. commit_rs # None => Committed(commit_rs)'
    <3>1. \A r \in Replies : Committed(r) => rs_transno[r] <= exp_last_committed'
      BY <1>0, RepliesAssumption DEF Committed, IInv, Types, TypeOK
    <3> QED BY <1>u, <3>1 DEF IInv, CommitInv, Committed, Types, TypeOK
  <2> QED BY <1>u, <2>1 DEF IInv, CommitInv
<1>3. SendInv'
  BY <1>u, <1>n DEF IInv, SendInv
<1>4. OwnerInv' /\ HandleInv'
  BY <1>u DEF IInv, OwnerInv, HandleInv, WithThread, Off
<1>6. HandledInv'
  BY <1>u, <1>n DEF IInv, HandledInv
<1>7. SafeInv'
  BY <1>u, <1>n DEF IInv, SafeInv
<1>8. RefInv'
  <2>1. Difficult' = Difficult
    BY <1>u DEF Difficult
  <2> QED BY <1>u, <2>1 DEF IInv, RefInv
<1> QED BY <1>1, <1>2, <1>3, <1>4, <1>6, <1>7, <1>8 DEF IInv

-----------------------------------------------------------------------------
(* ptlrpc_commit_replies. *)

LEMMA CommitNextKeeps ==
  ASSUME IInv, NEW rs \in Replies, CommitNext(rs)
  PROVE  IInv'
<1>u. /\ commit = "loop" /\ commit_rs = None
      /\ rs \in exp_uncommitted_replies /\ Committed(rs)
      /\ exp_uncommitted_replies' = exp_uncommitted_replies \ {rs}
      /\ commit_rs' = rs
      /\ UNCHANGED <<rs_no_ack, rs_scheduled, rs_handled, rs_on_net,
                     rs_committed, exp_outstanding_replies,
                     scp_rep_active, hrt_queue, batch, hrt_pc, hrt_rs,
                     rs_nlocks, rs_export, rs_refcount, live,
                     scp_nreps_difficult, exp_last_committed, commit,
                     scp_rep_lock, send, wanted>>
  BY DEF CommitNext, flagVars, hrVars, memVars
<1>1. Types'
  BY <1>u DEF IInv, Types, TypeOK
<1>n. \A r \in Replies : /\ NoThread(r)' <=> NoThread(r)
                         /\ Off(r)' <=> Off(r)
                         /\ Safe(r)' <=> Safe(r)
  BY <1>u, RepliesAssumption DEF NoThread, WithThread, Off, Safe, Committed
<1>2. CommitInv'
  BY <1>u DEF IInv, CommitInv, Committed
<1>3. SendInv'
  BY <1>u, <1>n DEF IInv, SendInv
<1>4. OwnerInv'
  BY <1>u DEF IInv, OwnerInv, WithThread
<1>5. HandleInv'
  BY <1>u, <1>n DEF IInv, HandleInv
<1>6. HandledInv'
  BY <1>u, <1>n DEF IInv, HandledInv
<1>7. SafeInv'
  <2>1. Safe(rs)
    BY <1>u DEF Safe
  <2> QED BY <1>u, <1>n, <2>1 DEF IInv, SafeInv
<1>8. RefInv'
  <2>1. Difficult' = Difficult
    BY <1>u DEF Difficult
  <2> QED BY <1>u, <2>1 DEF IInv, RefInv
<1> QED BY <1>1, <1>2, <1>3, <1>4, <1>5, <1>6, <1>7, <1>8 DEF IInv

\* A thread gets the whole batch.
LEMMA BatchDispatchKeeps ==
  ASSUME IInv, rs_batch_dispatch,
         commit_rs # None => commit' = "loop",
         scp_rep_lock' = "free",
         UNCHANGED <<rs_no_ack, flagVars, exp_outstanding_replies,
                     exp_uncommitted_replies, scp_rep_active, hrVars, memVars,
                     exp_last_committed, commit_rs, send, wanted>>
  PROVE  IInv'
<1>u. UNCHANGED <<rs_no_ack, rs_scheduled, rs_handled, rs_on_net,
                  rs_committed, exp_outstanding_replies,
                  exp_uncommitted_replies, scp_rep_active, hrt_pc, hrt_rs,
                  rs_nlocks, rs_export, rs_refcount, live,
                  scp_nreps_difficult, exp_last_committed, commit_rs, send,
                  wanted>>
  BY DEF flagVars, hrVars, memVars
<1>h. PICK h \in Hrts : hrt_queue' = [hrt_queue EXCEPT ![h] = @ \union batch]
  BY DEF rs_batch_dispatch
<1>q. \A r \in Replies, g \in Hrts :
        r \in hrt_queue'[g] <=> r \in hrt_queue[g] \/ (r \in batch /\ g = h)
  BY <1>h DEF IInv, Types, TypeOK
<1>b. batch' = {}
  BY DEF rs_batch_dispatch
<1>1. Types'
  BY <1>u, <1>h, <1>b DEF IInv, Types, TypeOK
<1>n. \A r \in Replies : /\ NoThread(r)' <=> NoThread(r) /\ r \notin batch
                         /\ Off(r)' <=> Off(r)
                         /\ Safe(r)' <=> Safe(r)
  BY <1>u, <1>q DEF NoThread, WithThread, Off, Safe, Committed
<1>2. CommitInv'
  BY <1>u, <1>b DEF IInv, CommitInv, Committed
<1>3. SendInv'
  BY <1>u, <1>b, <1>n DEF IInv, SendInv
<1>4. OwnerInv'
  BY <1>u, <1>b, <1>q DEF IInv, OwnerInv, WithThread, Types
<1>5. HandleInv'
  BY <1>u, <1>n DEF IInv, HandleInv
<1>6. HandledInv'
  BY <1>u, <1>b, <1>n DEF IInv, HandledInv
<1>7. SafeInv'
  BY <1>u, <1>b, <1>n DEF IInv, SafeInv
<1>8. RefInv'
  <2>1. Difficult' = Difficult
    BY <1>u DEF Difficult
  <2> QED BY <1>u, <2>1 DEF IInv, RefInv
<1> QED BY <1>1, <1>2, <1>3, <1>4, <1>5, <1>6, <1>7, <1>8 DEF IInv

LEMMA BatchAddKeeps ==
  ASSUME IInv, rs_batch_add
  PROVE  IInv'
<1>p. PICK rs \in Replies : rs = commit_rs
  BY DEF IInv, Types, TypeOK, rs_batch_add
<1>u. /\ commit_rs = rs /\ commit_rs' = None /\ scp_rep_lock' = "batch"
      /\ BatchMove(rs)
      /\ rs_scheduled' = [rs_scheduled EXCEPT ![rs] = TRUE]
      /\ rs_committed' = [rs_committed EXCEPT ![rs] = TRUE]
      /\ UNCHANGED <<rs_no_ack, rs_handled, rs_on_net,
                     exp_outstanding_replies, exp_uncommitted_replies,
                     hrt_queue, hrt_pc, hrt_rs, rs_nlocks, rs_export,
                     rs_refcount, live, scp_nreps_difficult,
                     exp_last_committed, commit, send, wanted>>
  BY <1>p DEF rs_batch_add, hrVars, memVars
<1>o. /\ \A r \in Replies : r # rs =>
           /\ rs_scheduled'[r] = rs_scheduled[r]
           /\ rs_committed'[r] = rs_committed[r]
           /\ r \in scp_rep_active' <=> r \in scp_rep_active
           /\ r \in batch' <=> r \in batch
      /\ rs_scheduled'[rs] /\ rs_committed'[rs]
      /\ rs \in scp_rep_active' => rs \in scp_rep_active /\ rs_scheduled[rs]
      /\ rs \in batch' => rs \in batch \/ ~rs_scheduled[rs]
      /\ scp_rep_active' \subseteq Replies /\ batch' \subseteq Replies
      /\ ~rs_scheduled[rs] => rs \notin scp_rep_active'
  BY <1>u DEF IInv, Types, BatchMove
<1>s. /\ Committed(rs) /\ rs \notin exp_uncommitted_replies
      /\ send[rs] # "setup" /\ rs_export[rs] /\ ~rs_handled[rs]
      /\ ~rs_scheduled[rs] => NoThread(rs) /\ send[rs] \notin {"msg", "sent"}
  <2>1. /\ Committed(rs) /\ rs \notin exp_uncommitted_replies
        /\ send[rs] # "setup" /\ ~rs_handled[rs]
    BY <1>u, RepliesAssumption DEF IInv, CommitInv, SendInv, HandledInv, Off
  <2>2. rs_export[rs]
    BY <2>1 DEF IInv, HandledInv
  <2>3. ASSUME ~rs_scheduled[rs], NEW h \in Hrts, WithThread(rs, h) PROVE FALSE
    BY <1>u, <2>3 DEF IInv, OwnerInv, HandleInv, WithThread, Off
  <2>4. ~rs_scheduled[rs] => send[rs] \notin {"msg", "sent"}
    BY DEF IInv, SendInv
  <2> QED BY <2>1, <2>2, <2>3, <2>4 DEF NoThread
<1>1. Types'
  BY <1>u, <1>o DEF IInv, Types, TypeOK
<1>n. \A r \in Replies : /\ NoThread(r)' <=> NoThread(r)
                         /\ Off(r) => Off(r)'
                         /\ Safe(r)' <=> Safe(r)
  BY <1>u, RepliesAssumption DEF NoThread, WithThread, Off, Safe, Committed
<1>2. CommitInv'
  BY <1>u, <1>o, <1>s, RepliesAssumption DEF IInv, CommitInv, Committed
<1>3. SendInv'
  BY <1>u, <1>o, <1>s, <1>n DEF IInv, SendInv
<1>4. OwnerInv'
  <2>1. \A h \in Hrts : hrt_pc'[h] = "idle" <=> hrt_rs'[h] = None
    BY <1>u DEF IInv, OwnerInv
  <2>2. ASSUME NEW r \in Replies, NEW h \in Hrts
        PROVE  /\ WithThread(r, h)' =>
                    /\ r \notin scp_rep_active' \union batch'
                    /\ \A g \in Hrts : WithThread(r, g)' => g = h
               /\ r \in hrt_queue'[h] => rs_scheduled'[r] /\ hrt_rs'[h] # r
    BY <1>u, <1>o, <1>s DEF IInv, OwnerInv, WithThread, NoThread
  <2>3. \A r \in scp_rep_active' : ~rs_scheduled'[r] /\ r \notin batch'
    BY <1>o DEF IInv, OwnerInv, Types
  <2>4. \A r \in batch' : rs_scheduled'[r]
    BY <1>o DEF IInv, OwnerInv, Types
  <2> QED BY <2>1, <2>2, <2>3, <2>4 DEF OwnerInv
<1>5. HandleInv'
  <2>1. ASSUME NEW r \in Replies, NEW h \in Hrts, hrt_rs[h] = r, hrt_pc[h] = "put"
        PROVE  r # rs
    BY <1>u, <2>1 DEF IInv, HandleInv, Off
  <2> QED BY <1>u, <1>o, <1>n, <2>1 DEF IInv, HandleInv
<1>6. HandledInv'
  BY <1>u, <1>o, <1>s, <1>n DEF IInv, HandledInv
<1>7. SafeInv'
  <2>1. Safe(rs)
    BY <1>s DEF Safe
  <2> QED BY <1>u, <1>o, <1>n, <2>1 DEF IInv, SafeInv
<1>8. RefInv'
  <2>1. Difficult' = Difficult
    BY <1>u DEF Difficult
  <2> QED BY <1>u, <2>1 DEF IInv, RefInv
<1> QED BY <1>1, <1>2, <1>3, <1>4, <1>5, <1>6, <1>7, <1>8 DEF IInv

-----------------------------------------------------------------------------
(* ptlrpc_hr_main and ptlrpc_handle_rs. *)

LEMMA HrMainKeeps ==
  ASSUME IInv, NEW h \in Hrts, ptlrpc_hr_main(h)
  PROVE  IInv'
<1>p. PICK rs \in hrt_queue[h] :
        /\ hrt_queue' = [hrt_queue EXCEPT ![h] = @ \ {rs}]
        /\ exp_outstanding_replies' = exp_outstanding_replies \ {rs}
        /\ hrt_rs' = [hrt_rs EXCEPT ![h] = rs]
        /\ hrt_pc' = [hrt_pc EXCEPT ![h] =
                        IF rs_committed[rs] THEN "steal" ELSE "unfile"]
  BY DEF ptlrpc_hr_main
<1>u. /\ hrt_pc[h] = "idle"
      /\ UNCHANGED <<rs_no_ack, rs_scheduled, rs_handled, rs_on_net,
                     rs_committed, exp_uncommitted_replies, scp_rep_active,
                     batch, rs_nlocks, rs_export, rs_refcount, live,
                     scp_nreps_difficult, exp_last_committed, commit,
                     commit_rs, scp_rep_lock, send, wanted>>
  BY DEF ptlrpc_hr_main, flagVars, memVars, commitVars
<1>m. rs \in Replies
  BY <1>p DEF IInv, Types, TypeOK
<1>1. Types'
  BY <1>u, <1>p, <1>m DEF IInv, Types, TypeOK
<1>o. /\ \A g \in Hrts : g # h => /\ hrt_queue'[g] = hrt_queue[g]
                                  /\ hrt_rs'[g] = hrt_rs[g]
                                  /\ hrt_pc'[g] = hrt_pc[g]
      /\ hrt_rs'[h] = rs /\ hrt_queue'[h] = hrt_queue[h] \ {rs}
      /\ hrt_pc'[h] = (IF rs_committed[rs] THEN "steal" ELSE "unfile")
      /\ hrt_rs[h] = None
  BY <1>u, <1>p DEF IInv, Types, TypeOK, OwnerInv
<1>w. \A r \in Replies, g \in Hrts : WithThread(r, g)' <=> WithThread(r, g)
  BY <1>o, <1>p, <1>m, RepliesAssumption DEF WithThread
<1>s. /\ rs_scheduled[rs] /\ ~NoThread(rs)
      /\ rs_committed[rs] => /\ rs \notin exp_uncommitted_replies
                             /\ commit_rs # rs
  BY <1>p, <1>m DEF IInv, OwnerInv, CommitInv, NoThread, WithThread
<1>n. \A r \in Replies : /\ NoThread(r)' <=> NoThread(r)
                         /\ Off(r) => Off(r)'
                         /\ Safe(r)' <=> Safe(r)
  BY <1>u, <1>p, <1>w DEF NoThread, Off, Safe, Committed
<1>2. CommitInv'
  BY <1>u DEF IInv, CommitInv, Committed
<1>3. SendInv'
  BY <1>u, <1>p, <1>s, <1>n DEF IInv, SendInv
<1>4. OwnerInv'
  <2>1. \A g \in Hrts : hrt_pc'[g] = "idle" <=> hrt_rs'[g] = None
    BY <1>o, <1>m, RepliesAssumption DEF IInv, OwnerInv
  <2>2. ASSUME NEW r \in Replies, NEW g \in Hrts
        PROVE  /\ WithThread(r, g)' =>
                    /\ r \notin scp_rep_active' \union batch'
                    /\ \A k \in Hrts : WithThread(r, k)' => k = g
               /\ r \in hrt_queue'[g] => rs_scheduled'[r] /\ hrt_rs'[g] # r
    <3>1. WithThread(r, g)' =>
            /\ r \notin scp_rep_active' \union batch'
            /\ \A k \in Hrts : WithThread(r, k)' => k = g
      BY <1>u, <1>w DEF IInv, OwnerInv
    <3>2. r \in hrt_queue'[g] => rs_scheduled'[r] /\ hrt_rs'[g] # r
      BY <1>u, <1>o DEF IInv, OwnerInv
    <3> QED BY <3>1, <3>2
  <2> QED BY <1>u, <2>1, <2>2 DEF IInv, OwnerInv
<1>5. HandleInv'
  <2>1. ASSUME NEW g \in Hrts, g # h, hrt_rs[g] = rs PROVE FALSE
    BY <1>p, <1>m, <2>1 DEF IInv, OwnerInv, WithThread
  <2>2. ASSUME NEW r \in Replies, NEW g \in Hrts, hrt_rs'[g] = r, g # h
        PROVE  /\ r \notin exp_outstanding_replies'
               /\ hrt_pc'[g] # "unfile" => Off(r)'
               /\ hrt_pc'[g] # "put" => rs_scheduled'[r]
               /\ hrt_pc'[g] \in {"release", "put"} => rs_handled'[r]
               /\ hrt_pc'[g] = "put" => ~rs_scheduled'[r] /\ ~rs_on_net'[r]
    BY <1>u, <1>o, <1>n, <1>p, <2>2 DEF IInv, HandleInv
  <2>3. /\ rs \notin exp_outstanding_replies'
        /\ hrt_pc'[h] # "unfile" => Off(rs)'
        /\ hrt_pc'[h] \in {"steal", "unfile"}
        /\ rs_scheduled'[rs]
    BY <1>u, <1>o, <1>p, <1>s DEF Off
  <2> QED BY <1>o, <2>2, <2>3 DEF HandleInv
<1>6. HandledInv'
  BY <1>u, <1>n DEF IInv, HandledInv
<1>7. SafeInv'
  BY <1>u, <1>n DEF IInv, SafeInv
<1>8. RefInv'
  <2>1. Difficult' = Difficult
    BY <1>u DEF Difficult
  <2> QED BY <1>u, <2>1 DEF IInv, RefInv
<1> QED BY <1>1, <1>2, <1>3, <1>4, <1>5, <1>6, <1>7, <1>8 DEF IInv

\* What the invariant says of a reply that a thread handles.
LEMMA Handled ==
  ASSUME IInv, NEW h \in Hrts, hrt_pc[h] # "idle"
  PROVE  /\ hrt_rs[h] \in Replies
         /\ \A g \in Hrts : /\ hrt_rs[h] \notin hrt_queue[g]
                            /\ g # h => hrt_rs[g] # hrt_rs[h]
         /\ hrt_rs[h] \notin scp_rep_active \union batch
         /\ send[hrt_rs[h]] \in {"done", "dropped"} /\ rs_export[hrt_rs[h]]
         /\ Safe(hrt_rs[h])
<1>1. hrt_rs[h] \in Replies
  BY DEF IInv, OwnerInv, Types, TypeOK
<1>2. PICK rs \in Replies : rs = hrt_rs[h]
  BY <1>1
<1>3. WithThread(rs, h) /\ ~NoThread(rs)
  BY <1>2 DEF WithThread, NoThread
<1>4. /\ \A g \in Hrts : rs \notin hrt_queue[g] /\ (g # h => hrt_rs[g] # rs)
      /\ rs \notin scp_rep_active \union batch
  BY <1>2, <1>3 DEF IInv, OwnerInv, WithThread
<1>5. send[rs] \in {"done", "dropped"}
  BY <1>3 DEF IInv, SendInv, Types, TypeOK
<1>6. rs_export[rs] /\ Safe(rs)
  BY <1>3, <1>5 DEF IInv, HandledInv, SafeInv
<1> QED BY <1>2, <1>4, <1>5, <1>6

LEMMA UnfileKeeps ==
  ASSUME IInv, NEW h \in Hrts, HandleUnfile(h)
  PROVE  IInv'
<1>p. hrt_pc[h] = "unfile" /\ hrt_rs[h] \in Replies
  BY Handled DEF HandleUnfile
<1>q. PICK rs \in Replies : rs = hrt_rs[h]
  BY <1>p
<1>u. /\ commit # "loop"
      /\ exp_uncommitted_replies' = exp_uncommitted_replies \ {rs}
      /\ hrt_pc' = [hrt_pc EXCEPT ![h] = "steal"]
      /\ UNCHANGED <<rs_no_ack, rs_scheduled, rs_handled, rs_on_net,
                     rs_committed, exp_outstanding_replies, scp_rep_active,
                     hrt_queue, batch, hrt_rs, rs_nlocks, rs_export,
                     rs_refcount, live, scp_nreps_difficult,
                     exp_last_committed, commit, commit_rs, scp_rep_lock, send,
                     wanted>>
  BY <1>q DEF HandleUnfile, UncommittedLockFree, flagVars, memVars, commitVars
<1>s. /\ commit_rs = None /\ Safe(rs) /\ rs \notin exp_outstanding_replies
      /\ \A g \in Hrts : g # h => hrt_rs[g] # rs
      /\ rs_scheduled[rs]
  BY <1>p, <1>q, <1>u, Handled DEF IInv, CommitInv, HandleInv
<1>1. Types'
  BY <1>u DEF IInv, Types, TypeOK
<1>o. /\ \A g \in Hrts : g # h => hrt_pc'[g] = hrt_pc[g]
      /\ hrt_pc'[h] = "steal"
  BY <1>u DEF IInv, Types, TypeOK
<1>n. \A r \in Replies : /\ NoThread(r)' <=> NoThread(r)
                         /\ Off(r) => Off(r)'
                         /\ Safe(r)' <=> Safe(r)
  BY <1>u DEF NoThread, WithThread, Off, Safe, Committed
<1>2. CommitInv'
  BY <1>u, <1>s DEF IInv, CommitInv, Committed
<1>3. SendInv'
  BY <1>u, <1>n DEF IInv, SendInv
<1>4. OwnerInv'
  BY <1>u, <1>o, <1>p DEF IInv, OwnerInv, WithThread
<1>5. HandleInv'
  <2>1. Off(rs)'
    BY <1>u, <1>s, RepliesAssumption DEF Off
  <2> QED BY <1>u, <1>o, <1>q, <1>s, <1>n, <2>1 DEF IInv, HandleInv
<1>6. HandledInv'
  BY <1>u, <1>n DEF IInv, HandledInv
<1>7. SafeInv'
  BY <1>u, <1>s, <1>n DEF IInv, SafeInv
<1>8. RefInv'
  <2>1. Difficult' = Difficult
    BY <1>u DEF Difficult
  <2> QED BY <1>u, <2>1 DEF IInv, RefInv
<1> QED BY <1>1, <1>2, <1>3, <1>4, <1>5, <1>6, <1>7, <1>8 DEF IInv

\* The thread marks the reply handled and goes on to release its locks, or
\* (then or later) is through with it.
LEMMA HandledKeeps ==
  ASSUME IInv, NEW h \in Hrts, hrt_pc[h] \in {"steal", "release"},
         rs_handled' = [rs_handled EXCEPT ![hrt_rs[h]] = TRUE],
         rs_nlocks' = [rs_nlocks EXCEPT ![hrt_rs[h]] = FALSE],
         \/ /\ hrt_pc' = [hrt_pc EXCEPT ![h] = "release"]
            /\ UNCHANGED <<rs_scheduled, hrt_rs>>
         \/ Unschedule(h, hrt_rs[h]),
         UNCHANGED <<rs_no_ack, rs_on_net, rs_committed, listVars, rs_export,
                     rs_refcount, live, scp_nreps_difficult, commitVars, send,
                     wanted>>
  PROVE  IInv'
<1>q. PICK rs \in Replies : rs = hrt_rs[h]
  BY Handled
<1>u. UNCHANGED <<rs_no_ack, rs_on_net, rs_committed,
                  exp_outstanding_replies, exp_uncommitted_replies,
                  scp_rep_active, hrt_queue, batch, rs_export, rs_refcount,
                  live, scp_nreps_difficult, exp_last_committed, commit,
                  commit_rs, scp_rep_lock, send, wanted>>
  BY DEF listVars, commitVars
<1>s. /\ Safe(rs) /\ Off(rs) /\ rs_scheduled[rs]
      /\ \A g \in Hrts : rs \notin hrt_queue[g] /\ (g # h => hrt_rs[g] # rs)
      /\ rs \notin scp_rep_active \union batch
      /\ send[rs] \in {"done", "dropped"} /\ rs_export[rs]
  BY <1>q, Handled DEF IInv, HandleInv
<1>o. /\ \A r \in Replies : r # rs => /\ rs_handled'[r] = rs_handled[r]
                                      /\ rs_nlocks'[r] = rs_nlocks[r]
      /\ rs_handled'[rs] /\ ~rs_nlocks'[rs]
      /\ rs_handled' \in [Replies -> BOOLEAN] /\ rs_nlocks' \in [Replies -> BOOLEAN]
  BY <1>q DEF IInv, Types
<1>c. \A r \in Replies : (Off(r)' <=> Off(r)) /\ (Safe(r)' <=> Safe(r))
  BY <1>u DEF Off, Safe, Committed
<1>2. CommitInv'
  BY <1>u DEF IInv, CommitInv, Committed
<1>8. RefInv'
  <2>1. Difficult' = Difficult
    BY <1>u DEF Difficult
  <2> QED BY <1>u, <2>1 DEF IInv, RefInv
<1>a. CASE /\ hrt_pc' = [hrt_pc EXCEPT ![h] = "release"]
           /\ UNCHANGED <<rs_scheduled, hrt_rs>>
  <2>o. /\ \A g \in Hrts : g # h => hrt_pc'[g] = hrt_pc[g]
        /\ hrt_pc'[h] = "release"
    BY <1>a DEF IInv, Types, TypeOK
  <2>n. \A r \in Replies : NoThread(r)' <=> NoThread(r)
    BY <1>a, <1>u DEF NoThread, WithThread
  <2>3. Types'
    BY <1>a, <1>u, <1>o DEF IInv, Types, TypeOK
  <2>4. SendInv'
    <3>1. send'[rs] \in {"done", "dropped"}
      BY <1>u, <1>s
    <3>2. \A r \in Replies : r # rs =>
            /\ NoThread(r)' <=> NoThread(r)
            /\ rs_scheduled'[r] = rs_scheduled[r]
            /\ rs_handled'[r] = rs_handled[r]
      BY <1>a, <1>o, <2>n
    <3> QED BY <1>u, <1>c, <3>1, <3>2 DEF IInv, SendInv
  <2>5. OwnerInv'
    BY <1>a, <1>u, <2>o DEF IInv, OwnerInv, WithThread
  <2>6. HandleInv'
    BY <1>a, <1>u, <1>o, <1>q, <1>s, <1>c, <2>o DEF IInv, HandleInv
  <2>7. HandledInv'
    <3>1. rs_export'[rs] /\ rs_handled'[rs] /\ ~rs_nlocks'[rs] /\ Off(rs)'
      BY <1>u, <1>o, <1>s, <1>c
    <3>2. \A r \in Replies : r # rs =>
            /\ NoThread(r)' <=> NoThread(r)
            /\ rs_handled'[r] = rs_handled[r] /\ rs_nlocks'[r] = rs_nlocks[r]
      BY <1>o, <2>n
    <3> QED BY <1>a, <1>u, <1>c, <3>1, <3>2 DEF IInv, HandledInv
  <2>8. SafeInv'
    BY <1>u, <1>o, <1>s, <1>c, <2>n DEF IInv, SafeInv
  <2> QED BY <1>2, <1>8, <2>3, <2>4, <2>5, <2>6, <2>7, <2>8 DEF IInv
<1>b. CASE Unschedule(h, rs)
  <2>o. /\ \A g \in Hrts : g # h => /\ hrt_pc'[g] = hrt_pc[g]
                                    /\ hrt_rs'[g] = hrt_rs[g]
        /\ hrt_pc'[h] = (IF rs_on_net[rs] THEN "idle" ELSE "put")
        /\ hrt_rs'[h] = (IF rs_on_net[rs] THEN None ELSE rs)
        /\ \A r \in Replies : r # rs => rs_scheduled'[r] = rs_scheduled[r]
        /\ ~rs_scheduled'[rs]
    BY <1>b DEF Unschedule, IInv, Types, TypeOK
  <2>n. \A r \in Replies : r # rs => (NoThread(r)' <=> NoThread(r))
    BY <1>u, <1>q, <2>o, RepliesAssumption DEF NoThread, WithThread
  <2>3. Types'
    <3>1. /\ hrt_pc' \in [Hrts -> {"idle", "unfile", "steal", "release", "put"}]
          /\ hrt_rs' \in [Hrts -> Replies \union {None}]
          /\ rs_scheduled' \in [Replies -> BOOLEAN]
      BY <1>b DEF Unschedule, IInv, Types, TypeOK
    <3> QED BY <1>u, <1>o, <3>1 DEF IInv, Types, TypeOK
  <2>k. /\ \A r \in Replies : r # rs => rs_scheduled'[r] = rs_scheduled[r]
        /\ ~rs_scheduled'[rs]
    BY <2>o
  <2>4. SendInv'
    <3>1. send'[rs] \in {"done", "dropped"}
      BY <1>u, <1>s
    <3>2. \A r \in Replies : r # rs =>
            /\ NoThread(r)' <=> NoThread(r)
            /\ rs_scheduled'[r] = rs_scheduled[r]
            /\ rs_handled'[r] = rs_handled[r]
      BY <1>o, <2>k, <2>n
    <3> QED BY <1>u, <1>c, <3>1, <3>2 DEF IInv, SendInv
  <2>5. OwnerInv'
    <3>1. \A g \in Hrts : hrt_pc'[g] = "idle" <=> hrt_rs'[g] = None
      BY <2>o, RepliesAssumption DEF IInv, OwnerInv
    <3>2. ASSUME NEW r \in Replies, NEW g \in Hrts
          PROVE  /\ WithThread(r, g)' =>
                      /\ r \notin scp_rep_active' \union batch'
                      /\ \A k \in Hrts : WithThread(r, k)' => k = g
                 /\ r \in hrt_queue'[g] => rs_scheduled'[r] /\ hrt_rs'[g] # r
      <4>1. \A k \in Hrts : WithThread(r, k)' => WithThread(r, k)
        BY <1>q, <1>u, <2>o, RepliesAssumption DEF WithThread
      <4>2. WithThread(r, g)' =>
              /\ r \notin scp_rep_active' \union batch'
              /\ \A k \in Hrts : WithThread(r, k)' => k = g
        BY <1>u, <4>1 DEF IInv, OwnerInv
      <4>3. r \in hrt_queue'[g] => rs_scheduled'[r] /\ hrt_rs'[g] # r
        BY <1>u, <1>s, <2>o, RepliesAssumption DEF IInv, OwnerInv
      <4> QED BY <4>2, <4>3
    <3>3. \A r \in scp_rep_active' : ~rs_scheduled'[r] /\ r \notin batch'
      BY <1>u, <1>s, <2>o DEF IInv, OwnerInv, Types
    <3>4. \A r \in batch' : rs_scheduled'[r]
      BY <1>u, <1>s, <2>o DEF IInv, OwnerInv, Types
    <3> QED BY <3>1, <3>2, <3>3, <3>4 DEF OwnerInv
  <2>6. HandleInv'
    <3>1. ASSUME NEW r \in Replies, NEW g \in Hrts, g # h, hrt_rs'[g] = r
          PROVE  r # rs /\ hrt_rs[g] = r /\ hrt_pc'[g] = hrt_pc[g]
      BY <1>s, <2>o, <3>1
    <3>2. ASSUME NEW r \in Replies, hrt_rs'[h] = r
          PROVE  r = rs /\ hrt_pc'[h] = "put" /\ ~rs_on_net[rs]
      BY <2>o, <3>2, RepliesAssumption
    <3>3. rs \notin exp_outstanding_replies
      BY <1>s DEF Off
    <3> QED BY <1>u, <1>o, <1>s, <1>c, <2>o, <3>1, <3>2, <3>3 DEF IInv, HandleInv
  <2>7. HandledInv'
    <3>1. rs_export'[rs] /\ rs_handled'[rs] /\ ~rs_nlocks'[rs] /\ Off(rs)'
      BY <1>u, <1>o, <1>s, <1>c
    <3>2. \A r \in Replies : r # rs =>
            /\ NoThread(r)' <=> NoThread(r)
            /\ rs_scheduled'[r] = rs_scheduled[r]
            /\ rs_handled'[r] = rs_handled[r] /\ rs_nlocks'[r] = rs_nlocks[r]
      BY <1>o, <2>k, <2>n
    <3> QED BY <1>u, <1>c, <3>1, <3>2 DEF IInv, HandledInv
  <2>8. SafeInv'
    BY <1>u, <1>o, <1>s, <1>c, <2>n DEF IInv, SafeInv
  <2> QED BY <1>2, <1>8, <2>3, <2>4, <2>5, <2>6, <2>7, <2>8 DEF IInv
<1> QED BY <1>a, <1>b, <1>q

LEMMA StealKeeps ==
  ASSUME IInv, NEW h \in Hrts, HandleSteal(h)
  PROVE  IInv'
<1>1. /\ hrt_pc[h] \in {"steal", "release"}
      /\ rs_handled' = [rs_handled EXCEPT ![hrt_rs[h]] = TRUE]
      /\ rs_nlocks' = [rs_nlocks EXCEPT ![hrt_rs[h]] = FALSE]
      /\ UNCHANGED <<rs_no_ack, rs_on_net, rs_committed, listVars, rs_export,
                     rs_refcount, live, scp_nreps_difficult, commitVars, send,
                     wanted>>
  BY DEF HandleSteal
<1>2. \/ /\ hrt_pc' = [hrt_pc EXCEPT ![h] = "release"]
         /\ UNCHANGED <<rs_scheduled, hrt_rs>>
      \/ Unschedule(h, hrt_rs[h])
  BY DEF HandleSteal
<1> QED BY <1>1, <1>2, HandledKeeps

LEMMA ReleaseKeeps ==
  ASSUME IInv, NEW h \in Hrts, HandleRelease(h)
  PROVE  IInv'
<1>1. /\ hrt_pc[h] = "release" /\ Unschedule(h, hrt_rs[h])
      /\ UNCHANGED <<rs_no_ack, rs_on_net, rs_committed, listVars, rs_export,
                     rs_refcount, live, scp_nreps_difficult, commitVars, send,
                     wanted, rs_handled, rs_nlocks>>
  BY DEF HandleRelease, memVars
<1>2. hrt_rs[h] \in Replies
  BY <1>1, Handled
<1>3. rs_handled[hrt_rs[h]] /\ ~rs_nlocks[hrt_rs[h]]
  BY <1>1, <1>2 DEF IInv, HandleInv, HandledInv
<1>4. /\ rs_handled' = [rs_handled EXCEPT ![hrt_rs[h]] = TRUE]
      /\ rs_nlocks' = [rs_nlocks EXCEPT ![hrt_rs[h]] = FALSE]
  BY <1>1, <1>2, <1>3 DEF IInv, Types
<1> QED BY <1>1, <1>4, HandledKeeps

LEMMA PutKeeps ==
  ASSUME IInv, NEW h \in Hrts, HandlePut(h)
  PROVE  IInv'
<1>p. hrt_pc[h] = "put"
  BY DEF HandlePut
<1>q. PICK rs \in Replies : rs = hrt_rs[h]
  BY <1>p, Handled
<1>u. /\ rs_export' = [rs_export EXCEPT ![rs] = FALSE]
      /\ rs_refcount' = [rs_refcount EXCEPT ![rs] = @ - 1]
      /\ live' = (IF rs_refcount[rs] = 1 THEN live \ {rs} ELSE live)
      /\ scp_nreps_difficult' = scp_nreps_difficult - 1
      /\ hrt_pc' = [hrt_pc EXCEPT ![h] = "idle"]
      /\ hrt_rs' = [hrt_rs EXCEPT ![h] = None]
      /\ UNCHANGED <<rs_no_ack, rs_scheduled, rs_handled, rs_on_net,
                     rs_committed, exp_outstanding_replies,
                     exp_uncommitted_replies, scp_rep_active, hrt_queue, batch,
                     rs_nlocks, exp_last_committed, commit, commit_rs,
                     scp_rep_lock, send, wanted>>
  BY <1>q DEF HandlePut, Decref, flagVars, listVars, commitVars
<1>s. /\ Off(rs) /\ ~rs_scheduled[rs] /\ rs_handled[rs] /\ ~rs_on_net[rs]
      /\ \A g \in Hrts : rs \notin hrt_queue[g] /\ (g # h => hrt_rs[g] # rs)
      /\ rs \notin scp_rep_active \union batch
      /\ send[rs] \in {"done", "dropped"} /\ rs_export[rs]
  BY <1>p, <1>q, Handled DEF IInv, HandleInv
<1>o. /\ \A g \in Hrts : g # h => /\ hrt_pc'[g] = hrt_pc[g]
                                  /\ hrt_rs'[g] = hrt_rs[g]
      /\ hrt_pc'[h] = "idle" /\ hrt_rs'[h] = None
      /\ \A r \in Replies : r # rs => /\ rs_export'[r] = rs_export[r]
                                      /\ rs_refcount'[r] = rs_refcount[r]
                                      /\ r \in live' <=> r \in live
      /\ ~rs_export'[rs] /\ rs_refcount'[rs] = rs_refcount[rs] - 1
      /\ rs_refcount[rs] = (IF send[rs] = "done" THEN 2 ELSE 1)
      /\ rs \in live' <=> send[rs] = "done"
  BY <1>u, <1>s DEF IInv, Types, TypeOK, RefInv
<1>w. \A r \in Replies, g \in Hrts :
        WithThread(r, g)' <=> WithThread(r, g) /\ r # rs
  BY <1>u, <1>o, <1>q, <1>s, RepliesAssumption DEF WithThread
<1>n. /\ \A r \in Replies : r # rs => (NoThread(r)' <=> NoThread(r))
      /\ NoThread(rs)'
  BY <1>w DEF NoThread
<1>c. \A r \in Replies : (Off(r)' <=> Off(r)) /\ (Safe(r)' <=> Safe(r))
  BY <1>u DEF Off, Safe, Committed
<1>8. RefInv' /\ scp_nreps_difficult' \in Nat
  <2>1. Difficult' = Difficult \ {rs} /\ rs \in Difficult
    BY <1>u, <1>o, <1>s DEF Difficult
  <2>2. /\ Cardinality(Difficult') = Cardinality(Difficult) - 1
        /\ Cardinality(Difficult') \in Nat
    BY <2>1, SomeReplies DEF Difficult
  <2>3. \A r \in Replies :
          /\ rs_refcount'[r] = (IF send'[r] # "dropped" THEN 1 ELSE 0)
                              + (IF /\ send'[r] \in {"sent", "done", "dropped"}
                                    /\ rs_export'[r] THEN 1 ELSE 0)
          /\ r \in live' <=> rs_refcount'[r] > 0
    BY <1>u, <1>s, <1>o DEF IInv, RefInv
  <2> QED BY <1>u, <2>2, <2>3 DEF IInv, RefInv
<1>1. Types'
  BY <1>u, <1>o, <1>8 DEF IInv, Types, TypeOK
<1>2. CommitInv'
  BY <1>u DEF IInv, CommitInv, Committed
<1>3. SendInv'
  BY <1>u, <1>o, <1>s, <1>n, <1>c DEF IInv, SendInv
<1>4. OwnerInv'
  <2>1. \A g \in Hrts : hrt_pc'[g] = "idle" <=> hrt_rs'[g] = None
    BY <1>o DEF IInv, OwnerInv
  <2>2. \A r \in Replies, g \in Hrts :
          /\ WithThread(r, g)' =>
               /\ r \notin scp_rep_active' \union batch'
               /\ \A k \in Hrts : WithThread(r, k)' => k = g
          /\ r \in hrt_queue'[g] => rs_scheduled'[r] /\ hrt_rs'[g] # r
    BY <1>u, <1>o, <1>w, RepliesAssumption DEF IInv, OwnerInv
  <2> QED BY <1>u, <2>1, <2>2 DEF IInv, OwnerInv
<1>5. HandleInv'
  BY <1>u, <1>o, <1>c, RepliesAssumption DEF IInv, HandleInv
<1>6. HandledInv'
  BY <1>u, <1>o, <1>s, <1>n, <1>c DEF IInv, HandledInv
<1>7. SafeInv'
  BY <1>u, <1>n, <1>c DEF IInv, SafeInv
<1> QED BY <1>1, <1>2, <1>3, <1>4, <1>5, <1>6, <1>7, <1>8 DEF IInv

-----------------------------------------------------------------------------
(* The steps together. *)

LEMMA CommitStepKeeps ==
  ASSUME IInv, CommitStep
  PROVE  IInv'
<1>t. exp_last_committed \in exp_last_committed .. MaxTransno
  BY RepliesAssumption DEF IInv, Types, TypeOK
<1>1. ASSUME NEW rs \in Replies, CommitNext(rs) PROVE IInv'
  BY <1>1, CommitNextKeeps
<1>2. CASE BatchFull
  <2>1. commit_rs # None => commit = "loop"
    BY DEF IInv, CommitInv
  <2> QED BY <1>2, <2>1, BatchDispatchKeeps DEF BatchFull
<1>3. CASE rs_batch_add
  BY <1>3, BatchAddKeeps
<1>4. CASE CommitLoopEnd
  <2>1. /\ commit_rs = None
        /\ UNCHANGED <<rs_no_ack, flagVars, listVars, hrVars, memVars,
                       commit_rs, send, wanted, exp_last_committed,
                       scp_rep_lock>>
    BY <1>4 DEF CommitLoopEnd
  <2>2. /\ batch # {} => scp_rep_lock = "batch"
        /\ scp_rep_lock \in {"free", "batch", "purge"}
    BY DEF IInv, CommitInv, Types, TypeOK
  <2> QED BY <1>t, <2>1, <2>2, ControlKeeps
<1>5. CASE rs_batch_fini
  <2>1. commit_rs = None
    BY <1>5 DEF IInv, CommitInv, rs_batch_fini
  <2>2. CASE scp_rep_lock = "batch"
    BY <1>5, <2>1, <2>2, BatchDispatchKeeps DEF rs_batch_fini
  <2>3. CASE scp_rep_lock # "batch"
    <3>1. UNCHANGED <<rs_no_ack, flagVars, listVars, hrVars, memVars,
                      commit_rs, send, wanted, exp_last_committed,
                      scp_rep_lock>>
      BY <1>5, <2>3 DEF rs_batch_fini, listVars
    <3>2. /\ batch # {} => scp_rep_lock = "batch"
          /\ scp_rep_lock \in {"free", "batch", "purge"}
      BY DEF IInv, CommitInv, Types, TypeOK
    <3> QED BY <1>t, <2>1, <3>1, <3>2, ControlKeeps
  <2> QED BY <2>2, <2>3
<1> QED BY <1>1, <1>2, <1>3, <1>4, <1>5 DEF CommitStep

LEMMA ServiceStepKeeps ==
  ASSUME IInv, \/ ptlrpc_unregister_service
               \/ PurgeLock
               \/ PurgeDone
               \/ ptlrpc_wait_replies
               \/ ptlrpc_commit_replies
               \/ UNCHANGED vars
  PROVE  IInv'
<1>t. /\ exp_last_committed \in exp_last_committed .. MaxTransno
      /\ commit_rs # None => commit = "loop"
      /\ batch # {} => scp_rep_lock = "batch"
      /\ scp_rep_lock \in {"free", "batch", "purge"}
  BY RepliesAssumption DEF IInv, Types, TypeOK, CommitInv
<1>1. CASE ptlrpc_unregister_service \/ ptlrpc_wait_replies \/ UNCHANGED vars
  <2>1. UNCHANGED <<rs_no_ack, flagVars, listVars, hrVars, memVars, commitVars,
                    send, wanted>>
    BY <1>1 DEF ptlrpc_unregister_service, ptlrpc_wait_replies, vars
  <2>2. /\ UNCHANGED <<exp_last_committed, commit, scp_rep_lock>>
        /\ UNCHANGED <<rs_no_ack, flagVars, listVars, hrVars, memVars,
                       commit_rs, send, wanted>>
    BY <2>1 DEF commitVars
  <2> QED BY <1>t, <2>2, ControlKeeps
<1>2. CASE PurgeLock \/ PurgeDone
  <2>1. /\ scp_rep_lock # "batch" /\ scp_rep_lock' \in {"free", "purge"}
        /\ UNCHANGED <<rs_no_ack, flagVars, listVars, hrVars, memVars,
                       commit_rs, send, wanted, exp_last_committed, commit>>
    BY <1>2 DEF PurgeLock, PurgeDone, RepLockFree
  <2> QED BY <1>t, <2>1, ControlKeeps
<1>3. CASE ptlrpc_commit_replies
  <2>1. /\ exp_last_committed' \in exp_last_committed + 1 .. MaxTransno
        /\ commit' = "loop"
        /\ UNCHANGED <<rs_no_ack, flagVars, listVars, hrVars, memVars,
                       commit_rs, scp_rep_lock, send, wanted>>
    BY <1>3 DEF ptlrpc_commit_replies
  <2>2. exp_last_committed' \in exp_last_committed .. MaxTransno
    BY <2>1, RepliesAssumption DEF IInv, Types, TypeOK
  <2> QED BY <1>t, <2>1, <2>2, ControlKeeps
<1> QED BY <1>1, <1>2, <1>3

\* IInv is an invariant of every behaviour.
LEMMA Inductive == Spec => []IInv
<1>1. IInv /\ [Next]_vars => IInv'
  <2> SUFFICES ASSUME IInv, [Next]_vars PROVE IInv'
    OBVIOUS
  <2>1. ASSUME NEW rs \in Replies,
               \/ SendSetup(rs)
               \/ SendMsg(rs)
               \/ SendDone(rs)
               \/ SendFailed(rs)
               \/ ptlrpc_req_drop_rs(rs)
        PROVE  IInv'
    BY <2>1, SetupKeeps, SendMsgKeeps, SendDoneKeeps, SendFailedKeeps, DropKeeps
  <2>2. ASSUME NEW rs \in Replies,
               \/ reply_out_callback(rs)
               \/ server_disconnect_export(rs)
               \/ PurgeActive(rs)
        PROVE  IInv'
    BY <2>2, CallbackKeeps, DisconnectKeeps, PurgeActiveKeeps
  <2>3. CASE CommitStep
    BY <2>3, CommitStepKeeps
  <2>4. ASSUME NEW h \in Hrts, Handle(h) PROVE IInv'
    BY <2>4, HrMainKeeps, UnfileKeeps, StealKeeps, ReleaseKeeps, PutKeeps DEF Handle
  <2>5. CASE \/ ptlrpc_commit_replies
             \/ ptlrpc_unregister_service
             \/ PurgeLock
             \/ PurgeDone
             \/ ptlrpc_wait_replies
             \/ UNCHANGED vars
    BY <2>5, ServiceStepKeeps
  <2> QED BY <2>1, <2>2, <2>3, <2>4, <2>5 DEF Next, UnregisterStep
<1> QED BY <1>1, InitIInv, PTL DEF Spec

-----------------------------------------------------------------------------
\* A difficult reply is with one party at a time, and scheduled as long as a
\* thread has it or will take it: the assertions of
\* ptlrpc_dispatch_difficult_reply and ptlrpc_handle_rs on rs_list hold for
\* any number of replies and of threads.
THEOREM RepliesHaveOneOwner == Spec => []OneOwner
<1>1. IInv => OneOwner
  <2> SUFFICES ASSUME IInv, NEW rs \in Replies
               PROVE  LET owners == {h \in Hrts : rs \in hrt_queue[h] \/ hrt_rs[h] = rs}
                      IN  /\ Cardinality(owners)
                               + (IF rs \in scp_rep_active THEN 1 ELSE 0)
                               + (IF rs \in batch THEN 1 ELSE 0) <= 1
                          /\ \A h \in owners : ~(rs \in hrt_queue[h] /\ hrt_rs[h] = rs)
                          /\ (\E h \in owners : hrt_pc[h] # "put" \/ rs \in hrt_queue[h])
                               => rs_scheduled[rs]
    BY DEF OneOwner, IInv, Types
  <2> DEFINE owners == {h \in Hrts : rs \in hrt_queue[h] \/ hrt_rs[h] = rs}
  <2>1. /\ \A h \in owners : ~(rs \in hrt_queue[h] /\ hrt_rs[h] = rs)
        /\ (\E h \in owners : hrt_pc[h] # "put" \/ rs \in hrt_queue[h])
             => rs_scheduled[rs]
    BY DEF IInv, OwnerInv, HandleInv
  <2>2. /\ owners # {} => /\ \E h \in owners : owners = {h}
                          /\ rs \notin scp_rep_active /\ rs \notin batch
        /\ rs \in scp_rep_active => rs \notin batch
    BY DEF IInv, OwnerInv, WithThread
  <2>3. Cardinality(owners) \in {0, 1} /\ (owners = {} => Cardinality(owners) = 0)
    <3>1. CASE owners = {}
      BY <3>1, FS_EmptySet
    <3>2. CASE owners # {}
      <4>1. PICK h \in owners : owners = {h}
        BY <2>2, <3>2
      <4>2. Cardinality({h}) = 1
        BY FS_Singleton
      <4> QED BY <3>2, <4>1, <4>2
    <3> QED BY <3>1, <3>2
  <2>4. Cardinality(owners) + (IF rs \in scp_rep_active THEN 1 ELSE 0)
          + (IF rs \in batch THEN 1 ELSE 0) <= 1
    <3> HIDE DEF owners
    <3> QED BY <2>2, <2>3
  <2> QED BY <2>1, <2>4
<1> QED BY <1>1, Inductive, PTL

\* A reply state is freed only when it is handled, off the net, not scheduled,
\* without export and locks, and nobody can come across it any more: what
\* lustre_free_reply_state asserts.
THEOREM FreedRepliesClean == Spec => []FreedIsClean
<1>1. IInv => FreedIsClean
  <2> SUFFICES ASSUME IInv, NEW rs \in Replies, rs \notin live
               PROVE  /\ rs_handled[rs] /\ ~rs_on_net[rs] /\ ~rs_scheduled[rs]
                      /\ ~rs_export[rs] /\ ~rs_nlocks[rs]
                      /\ Off(rs) /\ NoThread(rs)
                      /\ rs \notin scp_rep_active \union batch
    BY DEF FreedIsClean, Off, NoThread, WithThread
  <2>1. send[rs] = "dropped" /\ ~rs_export[rs]
    BY DEF IInv, RefInv, Types, TypeOK
  <2> QED BY <2>1 DEF IInv, HandledInv
<1> QED BY <1>1, Inductive, PTL

\* The locks of a reply go only when its transaction is committed, when the
\* client has acknowledged a reply that asks for it, or when somebody gave up
\* on the reply (Rep-Ack): no interleaving of the network, the journal, the
\* handling threads and the shutdown releases them sooner.
THEOREM LocksAreKept == Spec => []LocksKeptUntilSafe
<1>1. IInv => LocksKeptUntilSafe
  BY DEF IInv, HandledInv, SafeInv, Safe, LocksKeptUntilSafe
<1> QED BY <1>1, Inductive, PTL

==============================================================================
