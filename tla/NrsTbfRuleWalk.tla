--------------------------- MODULE NrsTbfRuleWalk ----------------------------
(***************************************************************************)
(* nrs_tbf_rule_match walks th_list under th_rule_lock; nrs_tbf_rule_stop  *)
(* finds its rule under that lock but unlinks it afterwards, holding only  *)
(* nrs_lock.  This module takes both apart into the steps the other side   *)
(* can see: the pointers of the list, the flag and the reference count.    *)
(***************************************************************************)
EXTENDS Integers, Sequences, SequencesExt

CONSTANTS
  InitList, \* the rules on th_list when the walk starts, in order
  Fits,     \* the rules that fit the client (o_rule_match)
  ListHead  \* &head->th_list

Rules == ToSet(InitList)

VARIABLES
  next,         \* the forward pointers of the list
  tr_stopping, tr_ref,
  th_rule_lock, \* "free" or held by the "walker"
  tmp_rule,     \* the walker's cursor, ListHead when it is not walking
  stop,         \* the next step of nrs_tbf_rule_stop, or "none"
  stop_rule     \* the rule that it stops

vars == <<next, tr_stopping, tr_ref, th_rule_lock, tmp_rule, stop, stop_rule>>

Init ==
  /\ next = [x \in Rules \union {ListHead} |->
               LET i == IF x = ListHead THEN 0 ELSE
                        CHOOSE j \in DOMAIN InitList : InitList[j] = x
               IN  IF i = Len(InitList) THEN ListHead ELSE InitList[i + 1]]
  /\ tr_stopping = [r \in Rules |-> FALSE]
  /\ tr_ref = [r \in Rules |-> 1]
  /\ th_rule_lock = "free"
  /\ tmp_rule = ListHead
  /\ stop = "none"
  /\ stop_rule = ListHead

\* spin_lock(&head->th_rule_lock) and the first step of the walk.
WalkBegin ==
  /\ th_rule_lock = "free"
  /\ next[ListHead] # ListHead
  /\ th_rule_lock' = "walker"
  /\ tmp_rule' = next[ListHead]
  /\ UNCHANGED <<next, tr_stopping, tr_ref, stop, stop_rule>>

\* o_rule_match fails: on to the next rule, or out at the end of the list.
WalkNext ==
  /\ tmp_rule # ListHead
  /\ tmp_rule \notin Fits
  /\ tmp_rule' = next[tmp_rule]
  /\ th_rule_lock' = IF next[tmp_rule] = ListHead THEN "free" ELSE "walker"
  /\ UNCHANGED <<next, tr_stopping, tr_ref, stop, stop_rule>>

\* o_rule_match succeeds: a reference is taken and the lock dropped.
WalkFound ==
  /\ tmp_rule \in Fits
  /\ tr_ref' = [tr_ref EXCEPT ![tmp_rule] = @ + 1]
  /\ tmp_rule' = ListHead
  /\ th_rule_lock' = "free"
  /\ UNCHANGED <<next, tr_stopping, stop, stop_rule>>

\* nrs_tbf_rule_stop: nrs_tbf_rule_find takes and drops th_rule_lock.
StopFind(r) ==
  /\ stop = "none" /\ th_rule_lock = "free"
  /\ \E x \in DOMAIN next : x # r /\ next[x] = r
  /\ tr_ref' = [tr_ref EXCEPT ![r] = @ + 1]
  /\ stop' = "unlink" /\ stop_rule' = r
  /\ UNCHANGED <<next, tr_stopping, th_rule_lock, tmp_rule>>

\* list_del_init: the rule's own pointer comes to point at itself.
StopUnlink ==
  /\ stop = "unlink"
  /\ next' = [x \in DOMAIN next |->
                IF x = stop_rule THEN stop_rule
                ELSE IF next[x] = stop_rule THEN next[stop_rule] ELSE next[x]]
  /\ stop' = "flag"
  /\ UNCHANGED <<tr_stopping, tr_ref, th_rule_lock, tmp_rule, stop_rule>>

\* tr_flags |= NTRS_STOPPING.
StopFlag ==
  /\ stop = "flag"
  /\ tr_stopping' = [tr_stopping EXCEPT ![stop_rule] = TRUE]
  /\ stop' = "put"
  /\ UNCHANGED <<next, tr_ref, th_rule_lock, tmp_rule, stop_rule>>

\* Both references are put; at zero the rule is freed.
StopPut ==
  /\ stop = "put"
  /\ tr_ref' = [tr_ref EXCEPT ![stop_rule] = @ - 2]
  /\ stop' = "none" /\ stop_rule' = ListHead
  /\ UNCHANGED <<next, tr_stopping, th_rule_lock, tmp_rule>>

Next ==
  \/ WalkBegin \/ WalkNext \/ WalkFound
  \/ \E r \in Rules : StopFind(r)
  \/ StopUnlink \/ StopFlag \/ StopPut

Spec == Init /\ [][Next]_vars

\* LASSERT((tmp_rule->tr_flags & NTRS_STOPPING) == 0) in nrs_tbf_rule_match
\* (nrs_tbf.c:250): the walk never stands on a rule that is being stopped.
WalkSeesNoStopping == tmp_rule # ListHead => ~tr_stopping[tmp_rule]
==============================================================================
