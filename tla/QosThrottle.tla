----------------------------- MODULE QosThrottle -----------------------------
(***************************************************************************)
(* qos_throttle (source/build/metric/metric.h): a thread about to send a   *)
(* bulk RPC looks at the wall clock under qos->lock, notes the time, and   *)
(* sleeps without the lock if the last RPC was less than                   *)
(* min_usec_between_rpcs ago.  Several threads send for one client_obd.    *)
(* A sleeper is late by at most Slack: what the kernel's timers and its    *)
(* scheduler take to have it run again.                                    *)
(***************************************************************************)
EXTENDS Integers

CONSTANTS
  Senders,   \* threads that send bulk RPCs
  Gaps,      \* values of min_usec_between_rpcs
  UdelayMax, \* sleeps below this are udelay (1000 in the code)
  UsleepMax, \* sleeps below this are usleep_range (20000), others msleep
  Msec,      \* microseconds in a millisecond (1000)
  Slack,     \* by how much a sleeper may run later than it asked to
  Steps,     \* by how much the wall clock may be set back or forth
  Duration   \* bound: time that passes

ASSUME ThrottleAssumption ==
  /\ Gaps \subseteq Nat /\ 0 \in Gaps
  /\ Msec \in Nat \ {0, 1} /\ UdelayMax \in Nat /\ UsleepMax \in Nat
  /\ Duration \in Nat /\ Slack \in Nat /\ Steps \subseteq Int

VARIABLES
  mono,                  \* time, as sleeping threads see it
  wall,                  \* do_gettimeofday
  min_usec_between_rpcs,
  last_rpc_time,
  steady,                \* observer: no clock step since last_rpc_time
  wake,                  \* per thread: when its sleep may end, -1 if awake
  latest,                \* per sleeper: the latest end it asked for
  gap,                   \* observer, per sleeper: the gap it sleeps for
  arrival,               \* observer, per sleeper: when it called qos_throttle
  due                    \* observer, per sleeper: a gap after the call before

throttleVars == <<mono, wall, min_usec_between_rpcs, last_rpc_time, steady,
                  wake, latest, gap, arrival, due>>

ThrottleInit ==
  /\ mono = 0
  /\ wall = 100
  /\ min_usec_between_rpcs = 0
  /\ last_rpc_time = 0
  /\ steady = TRUE
  /\ wake = [t \in Senders |-> -1]
  /\ latest = [t \in Senders |-> 0]
  /\ gap = [t \in Senders |-> 0]
  /\ arrival = [t \in Senders |-> 0]
  /\ due = [t \in Senders |-> 0]

\* Mutant of NeedSleep: a clock that went back is not noticed.
NeedSleepNegative ==
  LET since == wall - last_rpc_time
  IN  IF since < min_usec_between_rpcs
      THEN min_usec_between_rpcs - since ELSE 0

\* How long the caller must sleep.
NeedSleep ==
  LET since == IF wall < last_rpc_time THEN 0 ELSE wall - last_rpc_time
  IN  IF since < min_usec_between_rpcs
      THEN min_usec_between_rpcs - since ELSE 0

\* Mutant of SleepAtLeast: the argument of msleep is taken for microseconds.
SleepUnits(need) ==
  IF need < UdelayMax THEN need
  ELSE IF need < UsleepMax THEN need - 1
  ELSE need \div Msec

\* The shortest sleep that udelay, usleep_range or msleep make of it.
SleepAtLeast(need) ==
  IF need < UdelayMax THEN need
  ELSE IF need < UsleepMax THEN need - 1
  ELSE (need \div Msec) * Msec

\* The longest sleep that they are asked for.
SleepAtMost(need) ==
  IF need < UsleepMax THEN need ELSE (need \div Msec) * Msec

\* qos_throttle.  A thread that need not sleep sends at once.
qos_throttle(t) ==
  /\ wake[t] = -1
  /\ IF min_usec_between_rpcs = 0 THEN UNCHANGED <<last_rpc_time, steady>>
     ELSE last_rpc_time' = wall /\ steady' = TRUE
  /\ IF min_usec_between_rpcs = 0 \/ NeedSleep = 0
     THEN UNCHANGED <<wake, latest, gap, arrival, due>>
     ELSE /\ wake' = [wake EXCEPT ![t] = mono + SleepAtLeast(NeedSleep)]
          /\ latest' = [latest EXCEPT ![t] = mono + SleepAtMost(NeedSleep)]
          /\ gap' = [gap EXCEPT ![t] = min_usec_between_rpcs]
          /\ arrival' = [arrival EXCEPT ![t] = mono]
          /\ due' = [due EXCEPT ![t] =
                       IF steady THEN mono - (wall - last_rpc_time)
                                        + min_usec_between_rpcs
                                 ELSE 0]
  /\ UNCHANGED <<mono, wall, min_usec_between_rpcs>>

\* The sleep ends and the RPC is handed to ptlrpcd.
Send(t) ==
  /\ wake[t] # -1
  /\ mono >= wake[t]
  /\ wake' = [wake EXCEPT ![t] = -1]
  /\ latest' = [latest EXCEPT ![t] = 0]
  /\ gap' = [gap EXCEPT ![t] = 0]
  /\ arrival' = [arrival EXCEPT ![t] = 0]
  /\ due' = [due EXCEPT ![t] = 0]
  /\ UNCHANGED <<mono, wall, min_usec_between_rpcs, last_rpc_time, steady>>

\* qos_adjust (a rule's tau) or osc_min_brw_rpc_gap_seq_write.
SetGap(v) ==
  /\ min_usec_between_rpcs' = v
  /\ UNCHANGED <<mono, wall, last_rpc_time, steady, wake, latest, gap,
                 arrival, due>>

\* Time passes, but not past the moment by which a sleeper runs again.
ClockTick ==
  /\ mono < Duration
  /\ \A t \in Senders : wake[t] # -1 => mono < latest[t] + Slack
  /\ mono' = mono + 1 /\ wall' = wall + 1
  /\ UNCHANGED <<min_usec_between_rpcs, last_rpc_time, steady, wake, latest,
                 gap, arrival, due>>

\* The wall clock is set.
ClockStep(d) ==
  /\ wall + d \in 98 .. 100 + Duration
  /\ wall' = wall + d
  /\ steady' = FALSE
  /\ UNCHANGED <<mono, min_usec_between_rpcs, last_rpc_time, wake, latest,
                 gap, arrival, due>>

ThrottleNext ==
  \/ \E t \in Senders : qos_throttle(t) \/ Send(t)
  \/ \E v \in Gaps : SetGap(v)
  \/ ClockTick
  \/ \E d \in Steps : ClockStep(d)

ThrottleSpec == ThrottleInit /\ [][ThrottleNext]_throttleVars

(***************************************************************************)
(* Properties.                                                             *)
(***************************************************************************)
\* No RPC is held back for longer than a gap and the slack: a thread that is
\* still in qos_throttle came at most that long ago, even when the wall clock
\* was set back (qos_throttle replaces a negative distance by 0).
BoundedDelay ==
  \A t \in Senders : wake[t] # -1 => mono <= arrival[t] + gap[t] + Slack

\* A throttled RPC leaves no earlier than a gap after the previous call of
\* qos_throttle, less what usleep_range and msleep may cut off: one
\* microsecond, or the rest of a millisecond.
GapFromPreviousCall ==
  \A t \in Senders : wake[t] # -1 => wake[t] > due[t] - Msec
==============================================================================
