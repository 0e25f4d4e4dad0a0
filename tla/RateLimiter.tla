----------------------------- MODULE RateLimiter -----------------------------
(***************************************************************************)
(* What the TBF policy promises about one client, with no bucket, heap,    *)
(* timer or thread in sight: over any window of time during which the      *)
(* client's rule stays the same, at most Depth requests plus the rate      *)
(* times the length of the window are started, as long as the policy knows *)
(* the client; each time it forgets the client and learns of it again, it  *)
(* grants another Depth.                                                   *)
(***************************************************************************)
EXTENDS Integers

CONSTANTS Rates, Depth, NSEC_PER_SEC

VARIABLES now, known, rate, queued, win_start, win_sent, win_buckets

window == <<win_start, win_sent, win_buckets>>
vars == <<now, known, rate, queued, window>>

Init ==
  /\ now = 0
  /\ known = FALSE
  /\ rate \in Rates
  /\ queued = 0
  /\ win_start = 0
  /\ win_sent = 0
  /\ win_buckets = 0

\* A request is queued.
Arrive ==
  /\ known
  /\ queued' = queued + 1
  /\ UNCHANGED <<now, known, rate, window>>

\* A queued request is taken back.
Cancel ==
  /\ queued > 0
  /\ queued' = queued - 1
  /\ UNCHANGED <<now, known, rate, window>>

\* A queued request is started, if the window has room for one more.
Start ==
  /\ queued > 0
  /\ (win_sent + 1) * NSEC_PER_SEC
       <= win_buckets * Depth * NSEC_PER_SEC + (now - win_start) * rate
  /\ queued' = queued - 1
  /\ win_sent' = win_sent + 1
  /\ UNCHANGED <<now, known, rate, win_start, win_buckets>>

\* The client, with nothing queued, is forgotten.
Forget ==
  /\ known /\ queued = 0
  /\ known' = FALSE
  /\ UNCHANGED <<now, rate, queued, window>>

\* It is known again, under the rule that it had: the window goes on.
Renew ==
  /\ ~known
  /\ known' = TRUE
  /\ win_buckets' = win_buckets + 1
  /\ UNCHANGED <<now, rate, queued, win_start, win_sent>>

\* The client's rule changes, which starts a new window.
NewRate(r) ==
  /\ known' = TRUE
  /\ rate' = r
  /\ win_start' = now
  /\ win_sent' = 0
  /\ win_buckets' = 1
  /\ UNCHANGED <<now, queued>>

\* The observer starts a new window.
OpenWindow ==
  /\ win_start' = now
  /\ win_sent' = 0
  /\ win_buckets' = IF known THEN 1 ELSE 0
  /\ UNCHANGED <<now, known, rate, queued>>

Tick ==
  /\ now' = now + 1
  /\ UNCHANGED <<known, rate, queued, window>>

Next ==
  \/ Arrive
  \/ Cancel
  \/ Start
  \/ Forget
  \/ Renew
  \/ \E r \in Rates : NewRate(r)
  \/ OpenWindow
  \/ Tick

Spec == Init /\ [][Next]_vars
==============================================================================
