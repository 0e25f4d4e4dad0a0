----------------------------- MODULE NrsTbfRules -----------------------------
(***************************************************************************)
(* The rules of the TBF policy (source/build/metric/nrs_tbf.c) and the     *)
(* clients that cache what they say.  An administrator starts, changes and *)
(* stops rules (one command at a time, under nrs_mutex) while request      *)
(* threads look their client up in nrs_tbf_res_get, match it with a rule   *)
(* and copy the rule's values.                                             *)
(*                                                                         *)
(* The two sides share no lock: commands run under nrs_lock, res_get under *)
(* scp_req_lock (or no lock, for a client being created), and only the     *)
(* insertion of a rule and the searches for one exclude each other, with   *)
(* th_rule_lock.  So a command and a res_get are sequences of steps that   *)
(* interleave at every read or write of a shared field.                    *)
(*                                                                         *)
(* nrs_tbf_rule_stop unlinks, marks and puts its rule without th_rule_lock,*)
(* so it may come between the walk of a lookup, which finds a rule, and    *)
(* nrs_tbf_rule_get, and even free the rule.  A lookup overtaken that way  *)
(* counts in freed memory; it is "lost" and not followed any further.      *)
(* Inside the walk NrsTbfRuleWalk takes the pointers of the list apart.    *)
(***************************************************************************)
EXTENDS Integers, Sequences, FiniteSets, SequencesExt

CONSTANTS
  Clis,        \* clients, one per key (NID or job id)
  Rules,       \* struct nrs_tbf_rule objects, reused after they are freed
  DefaultRule, \* the object of the default rule
  Names,       \* names of rules other than "default"
  Rates,       \* RPC rates
  None,        \* the NULL pointer to a rule
  MaxSequence, \* bound: rules ever started
  MaxGeneration\* bound: rate changes of one rule

ASSUME RuleAssumption == DefaultRule \in Rules /\ None \notin Rules
                           /\ IsFiniteSet(Clis)
ASSUME BoundAssumption == MaxSequence \in Nat /\ MaxGeneration \in Nat

VARIABLES
  started,          \* between nrs_tbf_start and nrs_tbf_stop
  th_list,          \* head->th_list, newest rule first
  th_rule_sequence, \* head->th_rule_sequence
  live,             \* rules that are allocated and not freed
  tr_name, tr_nids, tr_rpc_rate, tr_generation, tr_stopping, tr_ref,
  tc_hashed,        \* clients in th_cli_hash
  tc_rule, tc_rpc_rate, tc_rule_sequence, tc_rule_generation,
  res_get,          \* per client: the next step of nrs_tbf_res_get, or "out"
  walked,           \* per client: the rule that the walk of nrs_tbf_rule_match
                    \* ended at, before it has a reference
  matched,          \* per client: the rule that nrs_tbf_rule_match returned
  scp_req_lock,     \* clients whose res_get holds the lock: at most one
  cmd,              \* the administrator's next step, or "none"
  cmd_rule,         \* the rule that the command is about
  quiet             \* observer: clients no command has disturbed since their
                    \* last res_get began

ruleVars == <<tr_name, tr_nids, tr_rpc_rate, tr_generation, tr_stopping>>
valueVars == <<tc_rpc_rate, tc_rule_sequence, tc_rule_generation>>
vars == <<started, th_list, th_rule_sequence, live, ruleVars, tr_ref,
          tc_hashed, tc_rule, valueVars, res_get, walked, matched, scp_req_lock,
          cmd, cmd_rule, quiet>>

(***************************************************************************)
(* Helpers.                                                                *)
(***************************************************************************)
\* The rule called n on th_list, if there is one (nrs_tbf_rule_find).
Named(n) == {r \in ToSet(th_list) : tr_name[r] = n}

\* nrs_tbf_rule_match: the newest rule on the list that fits, else th_rule.
Match(c) ==
  LET fits == SelectInSeq(th_list, LAMBDA r : c \in tr_nids[r])
  IN  IF fits = 0 THEN DefaultRule ELSE th_list[fits]

\* nrs_tbf_rule_put: n references go, the last one frees the rule.
Put(r, n) ==
  /\ tr_ref' = [tr_ref EXCEPT ![r] = @ - n]
  /\ live' = IF tr_ref[r] = n THEN live \ {r} ELSE live

Get(r) == tr_ref' = [tr_ref EXCEPT ![r] = @ + 1]

\* Nobody is between the walk of the list and the reference that ends it.
ThRuleLockFree == \A c \in Clis : res_get[c] # "found"

\* A command begins: no res_get before this moment counts as undisturbed.
BeginCmd == cmd = "none" /\ quiet' = {}

Init ==
  /\ started = TRUE
  /\ th_list = <<DefaultRule>>
  /\ th_rule_sequence = 1
  /\ live = {DefaultRule}
  /\ tr_name = [r \in Rules |-> "default"]
  /\ tr_nids = [r \in Rules |-> {}]
  /\ \E rate \in Rates : tr_rpc_rate = [r \in Rules |-> rate]
  /\ tr_generation = [r \in Rules |-> 0]
  /\ tr_stopping = [r \in Rules |-> FALSE]
  /\ tr_ref = [r \in Rules |-> IF r = DefaultRule THEN 1 ELSE 0]
  /\ tc_hashed = {}
  /\ tc_rule = [c \in Clis |-> None]
  /\ tc_rpc_rate = [c \in Clis |-> 0]
  /\ tc_rule_sequence = [c \in Clis |-> 0]
  /\ tc_rule_generation = [c \in Clis |-> 0]
  /\ res_get = [c \in Clis |-> "out"]
  /\ walked = [c \in Clis |-> None]
  /\ matched = [c \in Clis |-> None]
  /\ scp_req_lock = {}
  /\ cmd = "none"
  /\ cmd_rule = None
  /\ quiet = {}

(***************************************************************************)
(* The administrator's commands.                                           *)
(***************************************************************************)
\* nrs_tbf_rule_start: no rule has the name, so a new object is set up and
\* becomes the newest rule of the list.
nrs_tbf_rule_start(n, nids, rate) ==
  /\ started /\ BeginCmd /\ ThRuleLockFree
  /\ th_rule_sequence < MaxSequence
  /\ Named(n) = {}
  /\ \E r \in Rules \ live :
       /\ live' = live \union {r}
       /\ tr_name' = [tr_name EXCEPT ![r] = n]
       /\ tr_nids' = [tr_nids EXCEPT ![r] = nids]
       /\ tr_rpc_rate' = [tr_rpc_rate EXCEPT ![r] = rate]
       /\ tr_generation' = [tr_generation EXCEPT ![r] = 0]
       /\ tr_stopping' = [tr_stopping EXCEPT ![r] = FALSE]
       /\ tr_ref' = [tr_ref EXCEPT ![r] = 1]
       /\ th_list' = <<r>> \o th_list
       /\ cmd_rule' = r
  /\ cmd' = "start_sequence"
  /\ UNCHANGED <<started, th_rule_sequence, tc_hashed, tc_rule, valueVars,
                 res_get, walked, matched, scp_req_lock>>

\* nrs_tbf_rule_start, after th_rule_lock is dropped: the new sequence is
\* published.
rule_start_sequence ==
  /\ cmd = "start_sequence"
  /\ th_rule_sequence' = th_rule_sequence + 1
  /\ cmd' = "none" /\ cmd_rule' = None
  /\ UNCHANGED <<started, th_list, live, ruleVars, tr_ref, tc_hashed, tc_rule,
                 valueVars, res_get, walked, matched, scp_req_lock, quiet>>

\* nrs_tbf_rule_change: the rate is written ...
nrs_tbf_rule_change(n, rate) ==
  /\ started /\ BeginCmd /\ ThRuleLockFree
  /\ \E r \in Named(n) :
       /\ tr_generation[r] < MaxGeneration
       /\ Get(r)
       /\ tr_rpc_rate' = [tr_rpc_rate EXCEPT ![r] = rate]
       /\ cmd_rule' = r
  /\ cmd' = "change_generation"
  /\ UNCHANGED <<started, th_list, th_rule_sequence, live, tr_name, tr_nids,
                 tr_generation, tr_stopping, tc_hashed, tc_rule, valueVars,
                 res_get, walked, matched, scp_req_lock>>

\* ... and then the generation, and the reference of the search is dropped.
rule_change_generation ==
  /\ cmd = "change_generation"
  /\ tr_generation' = [tr_generation EXCEPT ![cmd_rule] = @ + 1]
  /\ Put(cmd_rule, 1)
  /\ cmd' = "none" /\ cmd_rule' = None
  /\ UNCHANGED <<started, th_list, th_rule_sequence, tr_name, tr_nids,
                 tr_rpc_rate, tr_stopping, tc_hashed, tc_rule, valueVars,
                 res_get, walked, matched, scp_req_lock, quiet>>

\* nrs_tbf_rule_stop: the rule is searched for ("default" is not stopped) ...
nrs_tbf_rule_stop(n) ==
  /\ started /\ BeginCmd /\ ThRuleLockFree
  /\ n # "default"
  /\ \E r \in Named(n) : Get(r) /\ cmd_rule' = r
  /\ cmd' = "stop_unlink"
  /\ UNCHANGED <<started, th_list, th_rule_sequence, live, ruleVars, tc_hashed,
                 tc_rule, valueVars, res_get, walked, matched, scp_req_lock>>

\* ... leaves the list, with th_rule_lock dropped ...
rule_stop_unlink ==
  /\ cmd = "stop_unlink"
  /\ th_list' = RemoveFirst(th_list, cmd_rule)
  /\ cmd' = "stop_flag"
  /\ UNCHANGED <<started, th_rule_sequence, live, ruleVars, tr_ref, tc_hashed,
                 tc_rule, valueVars, res_get, walked, matched, scp_req_lock,
                 cmd_rule, quiet>>

\* ... is marked NTRS_STOPPING ...
rule_stop_flag ==
  /\ cmd = "stop_flag"
  /\ tr_stopping' = [tr_stopping EXCEPT ![cmd_rule] = TRUE]
  /\ cmd' = "stop_put"
  /\ UNCHANGED <<started, th_list, th_rule_sequence, live, tr_name, tr_nids,
                 tr_rpc_rate, tr_generation, tr_ref, tc_hashed, tc_rule,
                 valueVars, res_get, walked, matched, scp_req_lock, cmd_rule,
                 quiet>>

\* ... and loses the reference of the search and that of the list.
rule_stop_put ==
  /\ cmd = "stop_put"
  /\ Put(cmd_rule, 2)
  /\ cmd' = "none" /\ cmd_rule' = None
  /\ UNCHANGED <<started, th_list, th_rule_sequence, ruleVars, tc_hashed,
                 tc_rule, valueVars, res_get, walked, matched, scp_req_lock,
                 quiet>>

(***************************************************************************)
(* nrs_tbf_res_get.                                                        *)
(***************************************************************************)
\* Leaving nrs_tbf_res_get.
ResGetOut(c) ==
  /\ res_get' = [res_get EXCEPT ![c] = "out"]
  /\ scp_req_lock' = scp_req_lock \ {c}
  /\ tc_hashed' = tc_hashed \union {c}

\* o_cli_find finds the client and scp_req_lock is taken, or there is no such
\* client and a new one is set up (nrs_tbf_cli_init) without the lock.
nrs_tbf_res_get(c) ==
  /\ started
  /\ res_get[c] = "out"
  /\ IF c \in tc_hashed
     THEN /\ scp_req_lock = {}
          /\ scp_req_lock' = {c}
          /\ res_get' = [res_get EXCEPT ![c] = "check"]
     ELSE /\ res_get' = [res_get EXCEPT ![c] = "match"]
          /\ UNCHANGED scp_req_lock
  /\ quiet' = IF cmd = "none" THEN quiet \union {c} ELSE quiet \ {c}
  /\ UNCHANGED <<started, th_list, th_rule_sequence, live, ruleVars, tr_ref,
                 tc_hashed, tc_rule, valueVars, walked, matched, cmd, cmd_rule>>

\* Mutant of res_get_check: NTRS_STOPPING is not looked at.
CheckSequenceOnly(c) ==
  /\ res_get[c] = "check"
  /\ IF tc_rule_sequence[c] # th_rule_sequence
     THEN /\ res_get' = [res_get EXCEPT ![c] = "match"]
          /\ UNCHANGED <<scp_req_lock, tc_hashed>>
     ELSE ResGetOut(c)
  /\ UNCHANGED <<started, th_list, th_rule_sequence, live, ruleVars, tr_ref,
                 tc_rule, valueVars, walked, matched, cmd, cmd_rule, quiet>>

\* Is what the client has cached still current?
res_get_check(c) ==
  /\ res_get[c] = "check"
  /\ \/ /\ \/ tc_rule_sequence[c] # th_rule_sequence
           \/ tr_stopping[tc_rule[c]]
        /\ res_get' = [res_get EXCEPT ![c] = "match"]
        /\ UNCHANGED <<scp_req_lock, tc_hashed>>
     \/ /\ tc_rule_sequence[c] = th_rule_sequence
        /\ ~tr_stopping[tc_rule[c]]
        /\ IF tc_rule_generation[c] # tr_generation[tc_rule[c]]
           THEN /\ res_get' = [res_get EXCEPT ![c] = "rate"]
                /\ UNCHANGED <<scp_req_lock, tc_hashed>>
           ELSE ResGetOut(c)
  /\ UNCHANGED <<started, th_list, th_rule_sequence, live, ruleVars, tr_ref,
                 tc_rule, valueVars, walked, matched, cmd, cmd_rule, quiet>>

\* nrs_tbf_rule_match: th_rule_lock is taken and the list walked ...
nrs_tbf_rule_match(c) ==
  /\ res_get[c] = "match" /\ ThRuleLockFree
  /\ walked' = [walked EXCEPT ![c] = Match(c)]
  /\ res_get' = [res_get EXCEPT ![c] = "found"]
  /\ UNCHANGED <<started, th_list, th_rule_sequence, live, ruleVars, tr_ref,
                 tc_hashed, tc_rule, valueVars, matched, scp_req_lock, cmd,
                 cmd_rule, quiet>>

\* ... a reference is taken on the rule found, and the lock dropped.  The
\* reference is given back when the client has that rule already.
rule_match_get(c) ==
  /\ res_get[c] = "found"
  /\ walked[c] \in live
  /\ walked' = [walked EXCEPT ![c] = None]
  /\ IF walked[c] = tc_rule[c]
     THEN /\ ResGetOut(c)
          /\ UNCHANGED <<tr_ref, matched>>
     ELSE /\ Get(walked[c])
          /\ matched' = [matched EXCEPT ![c] = walked[c]]
          /\ res_get' = [res_get EXCEPT ![c] = "reset"]
          /\ UNCHANGED <<scp_req_lock, tc_hashed>>
  /\ UNCHANGED <<started, th_list, th_rule_sequence, live, ruleVars,
                 tc_rule, valueVars, cmd, cmd_rule, quiet>>

\* The rule was freed under the walker: nrs_tbf_rule_get writes to freed memory.
rule_match_lost(c) ==
  /\ res_get[c] = "found"
  /\ walked[c] \notin live
  /\ res_get' = [res_get EXCEPT ![c] = "lost"]
  /\ UNCHANGED <<started, th_list, th_rule_sequence, live, ruleVars, tr_ref,
                 tc_hashed, tc_rule, valueVars, walked, matched, scp_req_lock,
                 cmd, cmd_rule, quiet>>

\* Mutant of nrs_tbf_cli_reset: the old rule's reference is kept.
CliResetKeepsOld(c) ==
  /\ res_get[c] = "reset"
  /\ tc_rule' = [tc_rule EXCEPT ![c] = matched[c]]
  /\ matched' = [matched EXCEPT ![c] = None]
  /\ res_get' = [res_get EXCEPT ![c] = "rate"]
  /\ UNCHANGED <<started, th_list, th_rule_sequence, live, ruleVars, tr_ref,
                 tc_hashed, valueVars, walked, scp_req_lock, cmd, cmd_rule,
                 quiet>>

\* nrs_tbf_cli_reset: the client leaves its old rule and joins the new one,
\* taking over the reference of the match.
nrs_tbf_cli_reset(c) ==
  /\ res_get[c] = "reset"
  /\ IF tc_rule[c] = None THEN UNCHANGED <<tr_ref, live>>
                          ELSE Put(tc_rule[c], 1)
  /\ tc_rule' = [tc_rule EXCEPT ![c] = matched[c]]
  /\ matched' = [matched EXCEPT ![c] = None]
  /\ res_get' = [res_get EXCEPT ![c] = "rate"]
  /\ UNCHANGED <<started, th_list, th_rule_sequence, ruleVars, tc_hashed,
                 valueVars, walked, scp_req_lock, cmd, cmd_rule, quiet>>

\* nrs_tbf_cli_reset_value reads the rule's rate, then the sequence, then the
\* rule's generation.
reset_value_rate(c) ==
  /\ res_get[c] = "rate"
  /\ tc_rpc_rate' = [tc_rpc_rate EXCEPT ![c] = tr_rpc_rate[tc_rule[c]]]
  /\ res_get' = [res_get EXCEPT ![c] = "sequence"]
  /\ UNCHANGED <<started, th_list, th_rule_sequence, live, ruleVars, tr_ref,
                 tc_hashed, tc_rule, tc_rule_sequence, tc_rule_generation,
                 walked, matched, scp_req_lock, cmd, cmd_rule, quiet>>

reset_value_sequence(c) ==
  /\ res_get[c] = "sequence"
  /\ tc_rule_sequence' = [tc_rule_sequence EXCEPT ![c] = th_rule_sequence]
  /\ res_get' = [res_get EXCEPT ![c] = "generation"]
  /\ UNCHANGED <<started, th_list, th_rule_sequence, live, ruleVars, tr_ref,
                 tc_hashed, tc_rule, tc_rpc_rate, tc_rule_generation, walked,
                 matched, scp_req_lock, cmd, cmd_rule, quiet>>

reset_value_generation(c) ==
  /\ res_get[c] = "generation"
  /\ tc_rule_generation' =
       [tc_rule_generation EXCEPT ![c] = tr_generation[tc_rule[c]]]
  /\ ResGetOut(c)
  /\ UNCHANGED <<started, th_list, th_rule_sequence, live, ruleVars, tr_ref,
                 tc_rule, tc_rpc_rate, tc_rule_sequence, walked, matched, cmd,
                 cmd_rule, quiet>>

\* nrs_tbf_cli_fini: an unused client is freed and leaves its rule.
nrs_tbf_cli_fini(c) ==
  /\ started
  /\ c \in tc_hashed /\ res_get[c] = "out"
  /\ tc_hashed' = tc_hashed \ {c}
  /\ Put(tc_rule[c], 1)
  /\ tc_rule' = [tc_rule EXCEPT ![c] = None]
  /\ quiet' = quiet \ {c}
  /\ UNCHANGED <<started, th_list, th_rule_sequence, ruleVars, valueVars,
                 res_get, walked, matched, scp_req_lock, cmd, cmd_rule>>

\* nrs_tbf_stop: with no request or command left, the clients are freed and
\* then the rules of the list are put.
nrs_tbf_stop ==
  /\ started
  /\ cmd = "none"
  /\ \A c \in Clis : res_get[c] = "out"
  /\ started' = FALSE
  /\ tc_hashed' = {}
  /\ th_list' = <<>>
  /\ LET left(r) == tr_ref[r]
                      - Cardinality({c \in tc_hashed : tc_rule[c] = r})
                      - (IF r \in ToSet(th_list) THEN 1 ELSE 0)
     IN  /\ tr_ref' = [r \in Rules |-> left(r)]
         /\ live' = {r \in live : left(r) # 0}
  /\ tc_rule' = [c \in Clis |-> None]
  /\ quiet' = {}
  /\ UNCHANGED <<th_rule_sequence, ruleVars, valueVars, res_get, walked,
                 matched, scp_req_lock, cmd, cmd_rule>>

ResGet(c) ==
  \/ nrs_tbf_res_get(c)
  \/ res_get_check(c)
  \/ nrs_tbf_rule_match(c)
  \/ rule_match_get(c)
  \/ rule_match_lost(c)
  \/ nrs_tbf_cli_reset(c)
  \/ reset_value_rate(c)
  \/ reset_value_sequence(c)
  \/ reset_value_generation(c)

Command ==
  \/ \E n \in Names, nids \in SUBSET Clis \ {{}}, rate \in Rates :
       nrs_tbf_rule_start(n, nids, rate)
  \/ rule_start_sequence
  \/ \E n \in Names \union {"default"}, rate \in Rates :
       nrs_tbf_rule_change(n, rate)
  \/ rule_change_generation
  \/ \E n \in Names \union {"default"} : nrs_tbf_rule_stop(n)
  \/ rule_stop_unlink
  \/ rule_stop_flag
  \/ rule_stop_put

Next ==
  \/ Command
  \/ \E c \in Clis : ResGet(c) \/ nrs_tbf_cli_fini(c)
  \/ nrs_tbf_stop

Spec == Init /\ [][Next]_vars

(***************************************************************************)
(* Properties.                                                             *)
(***************************************************************************)
\* The types of the rules' and the clients' state; no reference count goes
\* below zero, whatever nrs_tbf_rule_get and nrs_tbf_rule_put calls overlap.
TypeOK ==
  /\ started \in BOOLEAN
  /\ th_list \in Seq(Rules)
  /\ th_rule_sequence \in Nat
  /\ live \subseteq Rules
  /\ tr_name \in [Rules -> Names \union {"default"}]
  /\ tr_nids \in [Rules -> SUBSET Clis]
  /\ tr_rpc_rate \in [Rules -> Rates]
  /\ tr_generation \in [Rules -> Nat]
  /\ tr_stopping \in [Rules -> BOOLEAN]
  /\ tr_ref \in [Rules -> Nat]
  /\ tc_hashed \subseteq Clis
  /\ tc_rule \in [Clis -> Rules \union {None}]
  /\ tc_rpc_rate \in [Clis -> Rates \union {0}]
  /\ tc_rule_sequence \in [Clis -> Nat]
  /\ tc_rule_generation \in [Clis -> Nat]
  /\ res_get \in [Clis -> {"out", "check", "match", "found", "lost", "reset",
                           "rate", "sequence", "generation"}]
  /\ walked \in [Clis -> Rules \union {None}]
  /\ matched \in [Clis -> Rules \union {None}]
  /\ scp_req_lock \subseteq Clis
  /\ cmd \in {"none", "start_sequence", "change_generation", "stop_unlink",
              "stop_flag", "stop_put"}
  /\ cmd_rule \in Rules \union {None}
  /\ quiet \subseteq Clis

\* References held on rule r: by the list, by the clients that use it, by a
\* res_get between get and reset, and by the command that searched for it.
\* A stop keeps the list's reference until it puts both of its own.
Holders(r) ==
  (IF r \in ToSet(th_list) \/ (cmd \in {"stop_flag", "stop_put"}
                                 /\ cmd_rule = r) THEN 1 ELSE 0)
    + Cardinality({c \in Clis : tc_rule[c] = r})
    + Cardinality({c \in Clis : matched[c] = r})
    + (IF cmd_rule = r /\ cmd # "start_sequence" THEN 1 ELSE 0)

\* Reference counting is exact (nrs_tbf_rule_get, nrs_tbf_rule_put): whatever
\* commands and lookups overlap, a rule's count is the number of its holders,
\* and it is freed precisely when the last of them lets go.  In particular
\* nrs_tbf_rule_fini's LASSERTs hold and nrs_tbf_stop leaks no rule.  The one
\* exception is a lookup that nrs_tbf_rule_stop overtakes between its walk and
\* nrs_tbf_rule_get: it may be left with a rule that is freed, and when it
\* counts itself there nothing is claimed any more.
RefcountExact ==
  /\ TypeOK
  /\ \/ \E c \in Clis : res_get[c] = "lost"
     \/ \A r \in Rules : /\ tr_ref[r] = Holders(r)
                         /\ r \in live <=> Holders(r) > 0

\* Stopping a rule takes effect (nrs_tbf_rule_stop): a client whose lookup
\* overlapped no command is not left on a rule that is being stopped, and its
\* rule is on the list.
StopTakesEffect ==
  \A c \in tc_hashed \intersect quiet :
    res_get[c] = "out" => /\ ~tr_stopping[tc_rule[c]]
                          /\ tc_rule[c] \in ToSet(th_list)
==============================================================================
