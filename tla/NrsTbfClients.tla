---------------------------- MODULE NrsTbfClients ----------------------------
(***************************************************************************)
(* The client cache of the TBF policy (source/build/metric/nrs_tbf.c):     *)
(* th_cli_hash, the reference counts of its clients and, for job ids, the  *)
(* LRU list from which unused clients are purged.  One hash bucket is      *)
(* modelled; the bucket lock makes each lookup, insertion and put that     *)
(* reaches zero one step.  Between a failed lookup and the insertion no    *)
(* lock is held, so two threads may create a client for the same key.      *)
(***************************************************************************)
EXTENDS Integers, Sequences, FiniteSets, SequencesExt

CONSTANTS
  Keys,        \* job ids, or NIDs, of one hash bucket
  Clis,        \* struct nrs_tbf_client objects, reused after they are freed
  Threads,     \* threads that run nrs_tbf_res_get and nrs_tbf_res_put
  None,        \* no object
  HighWater    \* tbf_jobid_cache_size >> (hs_cur_bits - hs_bkt_bits)

ASSUME CacheAssumption ==
  /\ HighWater \in Nat /\ None \notin Clis
  /\ IsFiniteSet(Clis) /\ IsFiniteSet(Threads)

VARIABLES
  started,     \* th_cli_hash exists
  th_type,     \* "nid" or "jobid", the argument of nrs_tbf_start
  hash,        \* the object hashed under each key, or None
  live,        \* objects allocated and not freed
  tc_key, tc_ref,
  ntb_lru,     \* the bucket's LRU list, oldest first
  res,         \* per thread: where its nrs_tbf_res_get is
  res_key,     \* per thread: the key of its request
  res_cli      \* per thread: the client it has looked up or allocated

vars == <<started, th_type, hash, live, tc_key, tc_ref, ntb_lru, res, res_key,
          res_cli>>

\* CFS_HASH_NO_ITEMREF: a job id hash takes no reference of its own.
ItemRef == IF th_type = "jobid" THEN 0 ELSE 1

Hashed == {hash[k] : k \in Keys} \ {None}

Init ==
  /\ started = FALSE
  /\ th_type = "nid"
  /\ hash = [k \in Keys |-> None]
  /\ live = {}
  /\ tc_key = [c \in Clis |-> None]
  /\ tc_ref = [c \in Clis |-> 0]
  /\ ntb_lru = <<>>
  /\ res = [t \in Threads |-> "out"]
  /\ res_key = [t \in Threads |-> None]
  /\ res_cli = [t \in Threads |-> None]

\* nrs_tbf_start: o_startup of the variant asked for creates the hash.
nrs_tbf_start(type) ==
  /\ ~started
  /\ started' = TRUE
  /\ th_type' = type
  /\ UNCHANGED <<hash, live, tc_key, tc_ref, ntb_lru, res, res_key, res_cli>>

\* Mutant of Take: the client stays on the LRU while it is in use.
TakeKeepsLru(t, k) ==
  /\ tc_ref' = [tc_ref EXCEPT ![hash[k]] = @ + 1]
  /\ res' = [res EXCEPT ![t] = "held"]
  /\ res_cli' = [res_cli EXCEPT ![t] = hash[k]]
  /\ UNCHANGED ntb_lru

\* Thread t comes to hold the hashed client of k: a reference is taken and
\* the client leaves the LRU.
Take(t, k) ==
  /\ tc_ref' = [tc_ref EXCEPT ![hash[k]] = @ + 1]
  /\ ntb_lru' = RemoveFirst(ntb_lru, hash[k])
  /\ res' = [res EXCEPT ![t] = "held"]
  /\ res_cli' = [res_cli EXCEPT ![t] = hash[k]]

\* o_cli_find, for a request with key k.
cli_find(t, k) ==
  /\ started
  /\ res[t] = "out"
  /\ res_key' = [res_key EXCEPT ![t] = k]
  /\ IF hash[k] # None THEN Take(t, k)
     ELSE /\ res' = [res EXCEPT ![t] = "absent"]
          /\ UNCHANGED <<tc_ref, ntb_lru, res_cli>>
  /\ UNCHANGED <<started, th_type, hash, live, tc_key>>

\* No such client: one is allocated and nrs_tbf_cli_init sets it up.
nrs_tbf_cli_init(t) ==
  /\ res[t] = "absent"
  /\ \E c \in Clis \ live :
       /\ live' = live \union {c}
       /\ tc_key' = [tc_key EXCEPT ![c] = res_key[t]]
       /\ tc_ref' = [tc_ref EXCEPT ![c] = 1]
       /\ res_cli' = [res_cli EXCEPT ![t] = c]
  /\ res' = [res EXCEPT ![t] = "new"]
  /\ UNCHANGED <<started, th_type, hash, ntb_lru, res_key>>

\* The allocation fails (-ENOMEM): the policy gets no resource.
cli_alloc_fails(t) ==
  /\ res[t] = "absent"
  /\ res' = [res EXCEPT ![t] = "out"]
  /\ res_key' = [res_key EXCEPT ![t] = None]
  /\ UNCHANGED <<started, th_type, hash, live, tc_key, tc_ref, ntb_lru, res_cli>>

\* Mutant of cli_findadd: the new client is inserted without looking again.
FindaddBlind(t) ==
  LET k == res_key[t]
      c == res_cli[t]
  IN  /\ res[t] = "new"
      /\ res' = [res EXCEPT ![t] = "held"]
      /\ hash' = [hash EXCEPT ![k] = c]
      /\ tc_ref' = [tc_ref EXCEPT ![c] = @ + ItemRef]
      /\ UNCHANGED <<started, th_type, live, tc_key, ntb_lru, res_key, res_cli>>

\* o_cli_findadd: the new client is inserted, or somebody else's is found and
\* the new one is freed.
cli_findadd(t) ==
  LET k == res_key[t]
      c == res_cli[t]
  IN  /\ res[t] = "new"
      /\ res' = [res EXCEPT ![t] = "held"]
      /\ IF hash[k] = None
         THEN /\ hash' = [hash EXCEPT ![k] = c]
              /\ tc_ref' = [tc_ref EXCEPT ![c] = @ + ItemRef]
              /\ UNCHANGED <<live, ntb_lru, res_cli>>
         ELSE /\ tc_ref' = [tc_ref EXCEPT ![hash[k]] = @ + 1, ![c] = @ - 1]
              /\ ntb_lru' = RemoveFirst(ntb_lru, hash[k])
              /\ res_cli' = [res_cli EXCEPT ![t] = hash[k]]
              /\ live' = live \ {c}
              /\ UNCHANGED hash
      /\ UNCHANGED <<started, th_type, tc_key, res_key>>

\* Number of clients that the put of one more LRU entry purges: the oldest
\* ones, while the bucket counts more than HighWater.
Purged(lru) ==
  LET over == Cardinality(Hashed) - HighWater
  IN  IF over <= 0 THEN 0 ELSE IF over < Len(lru) THEN over ELSE Len(lru)

\* The last reference to a job id client is put: it joins the LRU, and the
\* oldest clients beyond the high-water mark are unhashed and freed.
LastPut(c) ==
  LET lru  == Append(ntb_lru, c)
      n    == Purged(lru)
      dead == ToSet(SubSeq(lru, 1, n))
  IN  /\ ntb_lru' = SubSeq(lru, n + 1, Len(lru))
      /\ hash' = [k \in Keys |-> IF hash[k] \in dead THEN None ELSE hash[k]]
      /\ live' = live \ dead

\* nrs_tbf_res_put calls o_cli_put.
cli_put(t) ==
  LET c == res_cli[t]
  IN  /\ res[t] = "held"
      /\ tc_ref' = [tc_ref EXCEPT ![c] = @ - 1]
      /\ IF th_type = "jobid" /\ tc_ref[c] = 1
           THEN LastPut(c)
           ELSE UNCHANGED <<ntb_lru, hash, live>>
      /\ res' = [res EXCEPT ![t] = "out"]
      /\ res_key' = [res_key EXCEPT ![t] = None]
      /\ res_cli' = [res_cli EXCEPT ![t] = None]
      /\ UNCHANGED <<started, th_type, tc_key>>

\* Mutant of hash_putref: requests in flight are not waited for.
PutrefEarly ==
  /\ started
  /\ started' = FALSE
  /\ live' = live \ Hashed
  /\ tc_ref' = [c \in Clis |-> IF c \in Hashed THEN tc_ref[c] - ItemRef
                                               ELSE tc_ref[c]]
  /\ hash' = [k \in Keys |-> None]
  /\ ntb_lru' = <<>>
  /\ UNCHANGED <<th_type, tc_key, res, res_key, res_cli>>

\* nrs_tbf_stop, when no request is left: cfs_hash_putref destroys the hash,
\* dropping its references and freeing what it holds.
hash_putref ==
  /\ started
  /\ \A t \in Threads : res[t] = "out"
  /\ started' = FALSE
  /\ live' = live \ Hashed
  /\ tc_ref' = [c \in Clis |-> IF c \in Hashed THEN tc_ref[c] - ItemRef
                                               ELSE tc_ref[c]]
  /\ hash' = [k \in Keys |-> None]
  /\ ntb_lru' = <<>>
  /\ UNCHANGED <<th_type, tc_key, res, res_key, res_cli>>

Next ==
  \/ \E type \in {"nid", "jobid"} : nrs_tbf_start(type)
  \/ \E t \in Threads :
       \/ \E k \in Keys : cli_find(t, k)
       \/ nrs_tbf_cli_init(t)
       \/ cli_alloc_fails(t)
       \/ cli_findadd(t)
       \/ cli_put(t)
  \/ hash_putref

Spec == Init /\ [][Next]_vars

(***************************************************************************)
(* Properties.                                                             *)
(***************************************************************************)
\* The types of the cache's state; no reference count goes below zero, in
\* whatever order threads look clients up and put them.
TypeOK ==
  /\ started \in BOOLEAN
  /\ th_type \in {"nid", "jobid"}
  /\ hash \in [Keys -> Clis \union {None}]
  /\ live \subseteq Clis
  /\ tc_key \in [Clis -> Keys \union {None}]
  /\ tc_ref \in [Clis -> Nat]
  /\ ntb_lru \in Seq(Clis)
  /\ res \in [Threads -> {"out", "absent", "new", "held"}]
  /\ res_key \in [Threads -> Keys \union {None}]
  /\ res_cli \in [Threads -> Clis \union {None}]

\* All requests of one key share one token bucket: two threads that hold a
\* client for the same key hold the same object, and it is the hashed one.
\* Otherwise the key would be served at twice its rate.
OneBucketPerKey ==
  \A t \in Threads :
    res[t] = "held" => /\ res_cli[t] \in live
                       /\ tc_key[res_cli[t]] = res_key[t]
                       /\ hash[res_key[t]] = res_cli[t]

\* Reference counts are exact, a hashed client is allocated and filed under
\* its own key, an object nobody holds is freed (nrs_tbf_cli_fini's LASSERT
\* on tc_ref), and the destroyed hash leaves nothing behind.
RefcountExact ==
  /\ TypeOK
  /\ \A c \in live :
       tc_ref[c] = Cardinality({t \in Threads : res_cli[t] = c})
                     + (IF c \in Hashed THEN ItemRef ELSE 0)
  /\ \A c \in Clis \ live : tc_ref[c] = 0
  /\ \A k \in Keys : hash[k] # None => hash[k] \in live /\ tc_key[hash[k]] = k
  /\ live = Hashed \union {res_cli[t] : t \in {u \in Threads :
                                                 res[u] = "new"}}

\* The LRU holds exactly the hashed job id clients that are not in use, each
\* once (the LASSERTs on tc_lru and tc_ref in nrs_tbf_jobid_cli_put), so that
\* a client in use is never purged.  It keeps its size (tbf_jobid_cache_size),
\* although clients enter the bucket without a look at the high-water mark and
\* leave it only when somebody puts a last reference: the bucket holds at most
\* HighWater clients beyond those that requests use.
LruExact ==
  /\ IsInjective(ntb_lru)
  /\ ToSet(ntb_lru) =
       {c \in Hashed : th_type = "jobid" /\ tc_ref[c] = 0}
  /\ Len(ntb_lru) <= HighWater
==============================================================================
