----------------------------- MODULE LfzThrottle -----------------------------
(***************************************************************************)
(* The server-side bandwidth limit of the lfz patch                        *)
(* (source/build/lfz/lfz.c): every bulk read or write of a target calls    *)
(* throttle_bandwidth, which takes its bytes from the budget of the        *)
(* current second and, when the budget does not suffice, delays the caller *)
(* to the end of the second.  The budget is an unsigned integer.           *)
(***************************************************************************)
EXTENDS Integers

CONSTANTS
  Threads,  \* target threads
  Rate,     \* total_tbf_rate, bytes per second
  Sizes,    \* bytes of one bulk transfer
  Width,    \* bits of __u64, reduced
  Seconds   \* bound: seconds that pass

U(x) == x % (2 ^ Width)

VARIABLES
  now,       \* tv_sec
  last_time, \* tbf_counter.last_time.tv_sec
  resid_tbf, \* bytes left of this second's budget
  delayed,   \* threads in udelay, until the second is over
  passed     \* observer: bytes let through in this second without a delay

vars == <<now, last_time, resid_tbf, delayed, passed>>

\* total_tbf_rate_init.
Init ==
  /\ now = 0 /\ last_time = 0
  /\ resid_tbf = Rate
  /\ delayed = {}
  /\ passed = 0

\* The budget that throttle_bandwidth finds, refilled in a new second.
Budget == IF now > last_time THEN Rate ELSE resid_tbf

throttle_bandwidth(t, bytes) ==
  /\ t \notin delayed
  /\ last_time' = now
  /\ IF U(Budget - bytes) < 0
     THEN /\ delayed' = delayed \union {t}
          /\ resid_tbf' = Budget
          /\ UNCHANGED passed
     ELSE /\ resid_tbf' = U(Budget - bytes)
          /\ passed' = passed + bytes
          /\ UNCHANGED delayed
  /\ UNCHANGED now

\* A second passes; the delays end with it.
NextSecond ==
  /\ now < Seconds
  /\ now' = now + 1
  /\ delayed' = {}
  /\ passed' = 0
  /\ UNCHANGED <<last_time, resid_tbf>>

Next ==
  \/ \E t \in Threads, b \in Sizes : throttle_bandwidth(t, b)
  \/ NextSecond

Spec == Init /\ [][Next]_vars

\* "upper limit:%lld bytes/sec" (lfz.c:64): within one second no more bytes
\* pass undelayed than the limit.
UpperLimit == passed <= Rate
==============================================================================
