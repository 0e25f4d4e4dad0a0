--------------------------------- MODULE Qos ---------------------------------
(***************************************************************************)
(* Client-side QoS of the metric patch: rules written through              *)
(* /proc/.../qos_rules (qos_rules.c, lproc_osc.c) steer                    *)
(* cl_max_rpcs_in_flight after every bulk reply (qos_adjust,               *)
(* osc_request.c), while an administrator may write the same limit         *)
(* (max_rpcs_in_flight, lproc_osc.c).                                      *)
(*                                                                         *)
(* qos_adjust computes the new limit under qos->lock but reads the request *)
(* pool, grows it and stores the limit after the lock is dropped; so does  *)
(* the administrator's write, which tells qos_data_t last.  The steps of   *)
(* all of them interleave.  Both give up when the import is gone, which    *)
(* qos_adjust finds out when it has changed the tracked limit already.     *)
(* The measurements (moving averages, round-trip ratio) decide only which  *)
(* rule applies: any rule may.                                             *)
(***************************************************************************)
EXTENDS Integers, Sequences, FiniteSets

CONSTANTS
  Threads,     \* ptlrpcd threads that run brw_interpret
  Admin,       \* the administrator's write of max_rpcs_in_flight
  RuleChoices, \* sequences of rules [m100, b100] that are ever written
  BadCounts,   \* rule counts whose allocation fails
  Second,      \* microseconds in a second (1000000)
  PerSec,      \* values of rules_per_sec, which may be negative
  Null,        \* the NULL pointer
  Limits,      \* limits the administrator writes, in 1 .. OSC_MAX_RIF_MAX
  RifMax,      \* OSC_MAX_RIF_MAX
  MrifUpper,   \* mrif_upper_limit
  PoolMax,     \* osc_reqpool_maxreqcount
  IntLimit,    \* ints are in -IntLimit .. IntLimit - 1 (2^31)
  Horizon      \* bound: time that passes

ASSUME QosAssumption ==
  /\ Admin \notin Threads /\ IsFiniteSet(Threads)
  /\ RuleChoices \subseteq Seq([m100 : Int, b100 : Int])
  /\ BadCounts \subseteq Int /\ PerSec \subseteq Int \ {0} /\ Second \in Nat
  /\ PoolMax \in Nat /\ Horizon \in Nat
  /\ IntLimit \in Nat /\ RifMax * 100 < IntLimit
  /\ RifMax \in Nat /\ MrifUpper \in 1 .. RifMax
  /\ Limits \subseteq 1 .. RifMax

Setters == Threads \union {Admin}

VARIABLES
  now,
  rules,                \* qos->rules: Null, or what is allocated there
  rule_no,              \* qos->rule_no
  min_gap,              \* qos->min_gap_between_updating_mrif
  max_rpc_in_flight100, \* the limit QoS tracks, in hundredths
  last_update,          \* qos->last_mrif_update_time
  cl_import,            \* cli->cl_import is not NULL
  cl_mrif,              \* cli->cl_max_rpcs_in_flight
  pool,                 \* osc_pool_req_count
  pc,                   \* per setter: "idle", "read", "populate", "store", for
                        \* a thread "check", for the administrator "track"
  new_mrif,             \* per setter: the limit it is about to store
  adding,               \* per setter: requests it is about to add to the pool
  alone                 \* observer: no setter overlapped the last one

qosVars == <<rules, rule_no, min_gap>>
vars == <<now, qosVars, max_rpc_in_flight100, last_update, cl_import, cl_mrif,
          pool, pc, new_mrif, adding, alone>>

Lesser(a, b) == IF a < b THEN a ELSE b
Greater(a, b) == IF a > b THEN a ELSE b

\* An int keeps the low bits of what is computed (the kernel is built with
\* wrapping arithmetic), and division drops the fraction.
Wrapped(x) == ((x + IntLimit) % (2 * IntLimit)) - IntLimit
Magnitude(a) == IF a < 0 THEN -a ELSE a
Quotient(a, b) ==
  LET q == Magnitude(a) \div Magnitude(b)
  IN  IF (a < 0) = (b < 0) THEN q ELSE -q

\* What osc_setup left behind: a limit, and as much of the pool as could be
\* allocated.  init_qos copied the limit before osc_setup chose it: 0.
Init ==
  /\ now = 0
  /\ rules = Null /\ rule_no = 0 /\ min_gap = 0 /\ alone = FALSE
  /\ cl_import = TRUE
  /\ cl_mrif \in Limits
  /\ max_rpc_in_flight100 = 0
  /\ last_update = -Second
  /\ pool \in 0 .. Lesser(cl_mrif + 2, PoolMax)
  /\ pc = [s \in Setters |-> "idle"]
  /\ new_mrif = [s \in Setters |-> 0]
  /\ adding = [s \in Setters |-> 0]

(***************************************************************************)
(* osc_qos_rules_seq_write and osc_qos_rules_seq_show, under qos->lock.    *)
(***************************************************************************)
\* parse_qos_rules of "0", or of a header with a zero in it: no rules.
parse_zero ==
  /\ rules' = Null /\ rule_no' = 0
  /\ UNCHANGED min_gap

\* The header cannot be read: -EINVAL, nothing is touched.
parse_bad_header == UNCHANGED <<rules, rule_no, min_gap>>

\* The old rules are gone, the new array cannot be allocated: -ENOMEM.
parse_no_memory(n, per_sec) ==
  /\ rules' = Null /\ rule_no' = n
  /\ min_gap' = Quotient(Second, per_sec)

\* A rule cannot be read: the new array is freed again, -EINVAL.
parse_bad_rule(per_sec) ==
  /\ rules' = Null /\ rule_no' = 0
  /\ min_gap' = Quotient(Second, per_sec)

\* Mutant of parse_rules: the number of rules is that of the old array until
\* the new one is complete, and stays when the new one is shorter.
ParseKeepsLonger(rs, per_sec) ==
  /\ rules' = rs /\ rule_no' = Greater(rule_no, Len(rs))
  /\ min_gap' = Quotient(Second, per_sec)

\* All rules are read.
parse_rules(rs, per_sec) ==
  /\ rules' = rs /\ rule_no' = Len(rs)
  /\ min_gap' = Quotient(Second, per_sec)

osc_qos_rules_seq_write ==
  /\ \/ parse_zero
     \/ parse_bad_header
     \/ \E n \in BadCounts, p \in PerSec : parse_no_memory(n, p)
     \/ \E p \in PerSec : parse_bad_rule(p)
     \/ \E rs \in RuleChoices, p \in PerSec : parse_rules(rs, p)
  /\ UNCHANGED <<now, max_rpc_in_flight100, last_update, cl_import, cl_mrif,
                 pool, pc, new_mrif, adding, alone>>

\* Showing the rules clears the count when there is nothing to show.
osc_qos_rules_seq_show ==
  /\ rule_no = 0 \/ rules = Null \/ min_gap = 0
  /\ rule_no' = 0
  /\ UNCHANGED <<now, rules, min_gap, max_rpc_in_flight100, last_update,
                 cl_import, cl_mrif, pool, pc, new_mrif, adding, alone>>

(***************************************************************************)
(* qos_adjust and osc_max_rpcs_in_flight_seq_write.                        *)
(***************************************************************************)
\* Mutant of Adjusted: the result is not held to the limits.
AdjustedUnbounded(r) ==
  LET scaled == IF r.m100 >= 0
                THEN Quotient(Wrapped(max_rpc_in_flight100 * r.m100), 100)
                ELSE max_rpc_in_flight100
  IN  Wrapped(scaled + r.b100)

\* What rule r makes of the tracked limit (a negative m100 is disabled), in the
\* 32 bits of an int.
Adjusted(r) ==
  LET scaled == IF r.m100 >= 0
                THEN Quotient(Wrapped(max_rpc_in_flight100 * r.m100), 100)
                ELSE max_rpc_in_flight100
  IN  Lesser(Greater(Wrapped(scaled + r.b100), 0), MrifUpper * 100)

\* The observer sees setter s begin.
Observe(s) == alone' = \A o \in Setters \ {s} : pc[o] = "idle"

\* Rule i matches, and the last update is a gap ago: under qos->lock a new
\* limit is computed.  (No match, or too early: nothing changes.)
qos_adjust(t) ==
  /\ pc[t] = "idle"
  /\ rules # Null /\ cl_import
  /\ \E i \in 1 .. rule_no :
       LET v == Adjusted(rules[i])
       IN  /\ max_rpc_in_flight100' = v
           /\ new_mrif' = [new_mrif EXCEPT ![t] = Greater(v \div 100, 1)]
  /\ now - last_update > 0 /\ now - last_update >= min_gap
  /\ last_update' = now
  /\ pc' = [pc EXCEPT ![t] = "check"]
  /\ Observe(t)
  /\ UNCHANGED <<now, qosVars, cl_import, cl_mrif, pool, adding>>

\* LPROCFS_CLIMP_CHECK, without qos->lock: with no import qos_adjust returns,
\* and the limit it computed is never stored.  Otherwise cl_sem is held, and
\* keeps the import, until the limit is stored.
LPROCFS_CLIMP_CHECK(t) ==
  /\ pc[t] = "check"
  /\ pc' = [pc EXCEPT ![t] = IF cl_import THEN "read" ELSE "idle"]
  /\ new_mrif' = [new_mrif EXCEPT ![t] = IF cl_import THEN @ ELSE 0]
  /\ UNCHANGED <<now, qosVars, max_rpc_in_flight100, last_update, cl_import,
                 cl_mrif, pool, adding, alone>>

\* The device is cleaned up: the import goes, under cl_sem.
client_obd_cleanup ==
  /\ cl_import
  /\ \A s \in Setters : pc[s] \notin {"read", "populate", "store"}
  /\ cl_import' = FALSE
  /\ UNCHANGED <<now, qosVars, max_rpc_in_flight100, last_update, cl_mrif,
                 pool, pc, new_mrif, adding, alone>>

\* The administrator writes v (with no import: -ENODEV, and nothing happens).
osc_max_rpcs_in_flight_seq_write(v) ==
  /\ pc[Admin] = "idle"
  /\ cl_import
  /\ new_mrif' = [new_mrif EXCEPT ![Admin] = v]
  /\ pc' = [pc EXCEPT ![Admin] = "read"]
  /\ Observe(Admin)
  /\ UNCHANGED <<now, qosVars, max_rpc_in_flight100, last_update, cl_import,
                 cl_mrif, pool, adding>>

\* Mutant of ReadPool: the room left in the pool is not looked at.
ReadPoolNoClip(s) ==
  /\ pc[s] = "read"
  /\ adding' = [adding EXCEPT ![s] = Greater(new_mrif[s] - cl_mrif, 0)]
  /\ pc' = [pc EXCEPT ![s] = "populate"]
  /\ UNCHANGED <<now, qosVars, max_rpc_in_flight100, last_update, cl_import,
                 cl_mrif, pool, new_mrif, alone>>

\* Both: how many requests the larger limit needs, within what the pool may
\* still take.
ReadPool(s) ==
  /\ pc[s] = "read"
  /\ adding' = [adding EXCEPT ![s] =
       IF pool >= PoolMax THEN 0
       ELSE Greater(Lesser(new_mrif[s] - cl_mrif, PoolMax - pool), 0)]
  /\ pc' = [pc EXCEPT ![s] = "populate"]
  /\ UNCHANGED <<now, qosVars, max_rpc_in_flight100, last_update, cl_import,
                 cl_mrif, pool, new_mrif, alone>>

\* Both: prp_populate adds as many as it can allocate.
Populate(s) ==
  /\ pc[s] = "populate"
  /\ \E added \in 0 .. adding[s] : pool' = pool + added
  /\ adding' = [adding EXCEPT ![s] = 0]
  /\ pc' = [pc EXCEPT ![s] = "store"]
  /\ UNCHANGED <<now, qosVars, max_rpc_in_flight100, last_update, cl_import,
                 cl_mrif, new_mrif, alone>>

\* Both: the limit is stored under cl_loi_list_lock.
Store(s) ==
  /\ pc[s] = "store"
  /\ cl_mrif' = new_mrif[s]
  /\ pc' = [pc EXCEPT ![s] = IF s = Admin THEN "track" ELSE "idle"]
  /\ new_mrif' = [new_mrif EXCEPT ![s] = IF s = Admin THEN @ ELSE 0]
  /\ UNCHANGED <<now, qosVars, max_rpc_in_flight100, last_update, cl_import,
                 pool, adding, alone>>

\* Mutant of Track: the limit is tracked in units, not in hundredths.
TrackUnits ==
  /\ pc[Admin] = "track"
  /\ max_rpc_in_flight100' = new_mrif[Admin]
  /\ new_mrif' = [new_mrif EXCEPT ![Admin] = 0]
  /\ pc' = [pc EXCEPT ![Admin] = "idle"]
  /\ UNCHANGED <<now, qosVars, last_update, cl_import, cl_mrif, pool, adding,
                 alone>>

\* The administrator's limit becomes the tracked one.
Track ==
  /\ pc[Admin] = "track"
  /\ max_rpc_in_flight100' = new_mrif[Admin] * 100
  /\ new_mrif' = [new_mrif EXCEPT ![Admin] = 0]
  /\ pc' = [pc EXCEPT ![Admin] = "idle"]
  /\ UNCHANGED <<now, qosVars, last_update, cl_import, cl_mrif, pool, adding,
                 alone>>

Tick ==
  /\ now < Horizon
  /\ now' = now + 1
  /\ UNCHANGED <<qosVars, max_rpc_in_flight100, last_update, cl_import,
                 cl_mrif, pool, pc, new_mrif, adding, alone>>

Next ==
  \/ osc_qos_rules_seq_write
  \/ osc_qos_rules_seq_show
  \/ \E t \in Threads : qos_adjust(t) \/ LPROCFS_CLIMP_CHECK(t)
  \/ client_obd_cleanup
  \/ \E v \in Limits : osc_max_rpcs_in_flight_seq_write(v)
  \/ \E s \in Setters : ReadPool(s) \/ Populate(s) \/ Store(s)
  \/ Track
  \/ Tick

Spec == Init /\ [][Next]_vars

(***************************************************************************)
(* Properties.                                                             *)
(***************************************************************************)
\* The types of the state.  The limits keep their ranges whatever m100 and
\* b100 a rule has, and even if the product overflows: cl_max_rpcs_in_flight is
\* never 0, which would stop the client, nor above OSC_MAX_RIF_MAX.
TypeOK ==
  /\ now \in 0 .. Horizon
  /\ rule_no \in Int /\ min_gap \in Int
  /\ alone \in BOOLEAN /\ cl_import \in BOOLEAN
  /\ max_rpc_in_flight100 \in 0 .. RifMax * 100
  /\ cl_mrif \in 1 .. RifMax
  /\ pool \in Nat
  /\ pc \in [Setters -> {"idle", "check", "read", "populate", "store",
                        "track"}]
  /\ new_mrif \in [Setters -> 0 .. RifMax]
  /\ adding \in [Setters -> Nat]

\* The loop of qos_adjust stays inside the array: whatever sequence of good
\* and bad writes and of shows came before, rule_no counts no rule that is
\* not allocated.
RulesAllocated == rules # Null => rule_no <= Len(rules)

\* "There might be some race which will cause over-limit allocation, but it
\* is fine" (osc_request.c:1607): the race is bounded.  Each setter beyond the
\* first can exceed osc_reqpool_maxreqcount by as much again, however their
\* steps interleave, however often they come and however little osc_setup had
\* been able to allocate.
PoolOvershootBounded ==
  pool <= PoolMax + (Cardinality(Setters) - 1) * PoolMax

\* "Update the value tracked by QoS routines too" (lproc_osc.c:130): after an
\* update of the limit that no other one overlapped, whatever happened before
\* it, the limit in force is the tracked one, unless the import went away.
\* (Before the first update it need not be: init_qos came too early.)
TrackedLimitInForce ==
  alone /\ cl_import /\ (\A s \in Setters : pc[s] = "idle") =>
    cl_mrif = Greater(max_rpc_in_flight100 \div 100, 1)
==============================================================================
