------------------------- MODULE NrsTbfClientsProofs -------------------------
(***************************************************************************)
(* Proofs about NrsTbfClients for every set of keys, clients and threads   *)
(* and every size of the cache.                                            *)
(***************************************************************************)
EXTENDS NrsTbfClients, FiniteSetTheorems, SequenceTheorems, TLAPS

\* The threads that hold a reference to c.
Holders(c) == {t \in Threads : res_cli[t] = c}

\* The parts of RefcountExact.
Refs ==
  \A c \in live : tc_ref[c] = Cardinality(Holders(c))
                               + (IF c \in Hashed THEN ItemRef ELSE 0)
FreedRefs == \A c \in Clis \ live : tc_ref[c] = 0
Filed == \A k \in Keys : hash[k] # None => hash[k] \in live /\ tc_key[hash[k]] = k
LiveExact ==
  live = Hashed \union {res_cli[t] : t \in {u \in Threads : res[u] = "new"}}

\* Where a thread is in nrs_tbf_res_get says what it has.
ThreadInv ==
  \A t \in Threads :
    /\ res[t] \in {"out", "absent"} <=> res_cli[t] = None
    /\ res[t] # "out" => started /\ res_key[t] \in Keys

\* A client that is allocated and not yet inserted is known to its thread only.
NewInv ==
  \A t \in Threads : res[t] = "new" =>
    /\ res_cli[t] \in live \ Hashed
    /\ tc_key[res_cli[t]] = res_key[t]
    /\ Holders(res_cli[t]) = {t}

\* Without a hash nothing is hashed.
StoppedInv == ~started => Hashed = {}

\* The inductive invariant.
IInv ==
  /\ RefcountExact /\ OneBucketPerKey /\ LruExact
  /\ ThreadInv /\ NewInv /\ StoppedInv

-----------------------------------------------------------------------------
\* Removing a client from a list without repetitions.
LEMMA RemoveAtFacts ==
  ASSUME NEW s \in Seq(Clis), NEW i \in 1 .. Len(s), IsInjective(s)
  PROVE  /\ RemoveAt(s, i) \in Seq(Clis)
         /\ Len(RemoveAt(s, i)) = Len(s) - 1
         /\ IsInjective(RemoveAt(s, i))
         /\ ToSet(RemoveAt(s, i)) = ToSet(s) \ {s[i]}
<1> DEFINE a == SubSeq(s, 1, i - 1)
           b == SubSeq(s, i + 1, Len(s))
           r == RemoveAt(s, i)
<1>1. Len(s) \in Nat /\ DOMAIN s = 1 .. Len(s)
  BY LenProperties
<1>2. a \in Seq(Clis) /\ Len(a) = i - 1 /\ \A j \in 1 .. i - 1 : a[j] = s[j]
  BY <1>1, SubSeqProperties
<1>3. /\ b \in Seq(Clis) /\ Len(b) = Len(s) - i
      /\ \A j \in 1 .. Len(s) - i : b[j] = s[i + j]
  <2>1. \A j \in i + 1 .. Len(s) : s[j] \in Clis
    BY <1>1, ElementOfSeq
  <2>2. i + 1 \in Int /\ Len(s) \in Int
    BY <1>1
  <2>3. /\ b \in Seq(Clis)
        /\ Len(b) = IF i + 1 <= Len(s) THEN Len(s) - (i + 1) + 1 ELSE 0
        /\ \A j \in 1 .. Len(s) - (i + 1) + 1 : b[j] = s[i + 1 + j - 1]
    BY <2>1, <2>2, SubSeqProperties
  <2>4. Len(b) = Len(s) - i
    <3>1. Len(b) = IF i + 1 <= Len(s) THEN Len(s) - (i + 1) + 1 ELSE 0
      BY <2>3
    <3>2. i \in Int /\ Len(s) \in Int /\ i <= Len(s)
      BY <1>1
    <3> HIDE DEF b
    <3> QED BY <3>1, <3>2
  <2>5. ASSUME NEW j \in 1 .. Len(s) - i PROVE b[j] = s[i + j]
    <3>1. j \in 1 .. Len(s) - (i + 1) + 1 /\ i + 1 + j - 1 = i + j
      BY <1>1
    <3> QED BY <2>3, <3>1
  <2> QED BY <2>3, <2>4, <2>5
<1>4. r = a \o b
  BY DEF RemoveAt
<1> HIDE DEF a, b, r
<1>5. r \in Seq(Clis) /\ Len(r) = Len(s) - 1
  <2>1. r \in Seq(Clis) /\ Len(r) = Len(a) + Len(b)
    BY <1>2, <1>3, <1>4, ConcatProperties
  <2> QED BY <1>1, <1>2, <1>3, <2>1
<1>6. \A j \in 1 .. Len(s) - 1 : r[j] = IF j < i THEN s[j] ELSE s[j + 1]
  <2> TAKE j \in 1 .. Len(s) - 1
  <2>1. r[j] = IF j <= Len(a) THEN a[j] ELSE b[j - Len(a)]
    BY <1>1, <1>2, <1>3, <1>4, ConcatProperties
  <2> QED BY <1>1, <1>2, <1>3, <2>1
<1>7. DOMAIN r = 1 .. Len(s) - 1
  BY <1>1, <1>5, LenProperties
<1>8. IsInjective(r)
  <2> SUFFICES ASSUME NEW j \in 1 .. Len(s) - 1, NEW k \in 1 .. Len(s) - 1,
                      r[j] = r[k]
               PROVE  j = k
    BY <1>7 DEF IsInjective
  <2>1. \A m, n \in 1 .. Len(s) : s[m] = s[n] => m = n
    BY <1>1 DEF IsInjective
  <2> DEFINE up(m) == IF m < i THEN m ELSE m + 1
  <2>2. up(j) \in 1 .. Len(s) /\ up(k) \in 1 .. Len(s)
    BY <1>1
  <2>3. r[j] = s[up(j)] /\ r[k] = s[up(k)]
    BY <1>6
  <2>4. up(j) = up(k)
    <3> HIDE DEF up
    <3> QED BY <2>1, <2>2, <2>3
  <2> QED BY <1>1, <2>4
<1>9. ToSet(r) = ToSet(s) \ {s[i]}
  <2>1. ASSUME NEW j \in 1 .. Len(s) - 1 PROVE r[j] \in ToSet(s) \ {s[i]}
    BY <1>1, <1>6 DEF ToSet, IsInjective
  <2>2. ASSUME NEW j \in 1 .. Len(s), s[j] # s[i] PROVE s[j] \in ToSet(r)
    <3>1. CASE j < i
      BY <1>1, <1>6, <1>7, <3>1 DEF ToSet
    <3>2. CASE j > i
      <4>1. j - 1 \in 1 .. Len(s) - 1 /\ r[j - 1] = s[j]
        BY <1>1, <1>6, <3>2
      <4> QED BY <1>7, <4>1 DEF ToSet
    <3> QED BY <1>1, <2>2, <3>1, <3>2
  <2> QED BY <1>1, <1>7, <2>1, <2>2 DEF ToSet
<1> QED BY <1>5, <1>8, <1>9 DEF r

\* list_del_init takes exactly its client from the list.
LEMMA DelFacts ==
  ASSUME NEW s \in Seq(Clis), NEW c, IsInjective(s)
  PROVE  /\ RemoveFirst(s, c) \in Seq(Clis)
         /\ Len(RemoveFirst(s, c)) <= Len(s)
         /\ IsInjective(RemoveFirst(s, c))
         /\ ToSet(RemoveFirst(s, c)) = ToSet(s) \ {c}
<1>1. Len(s) \in Nat /\ DOMAIN s = 1 .. Len(s)
  BY LenProperties
<1>2. CASE \A i \in 1 .. Len(s) : s[i] # c
  <2>1. RemoveFirst(s, c) = s
    BY <1>2 DEF RemoveFirst
  <2>2. c \notin ToSet(s)
    BY <1>1, <1>2 DEF ToSet
  <2> QED BY <1>1, <2>1, <2>2
<1>3. ASSUME NEW i \in 1 .. Len(s), s[i] = c
      PROVE  RemoveFirst(s, c) = RemoveAt(s, i)
  <2> DEFINE at == {j \in 1 .. Len(s) : s[j] = c}
  <2>1. at = {i}
    BY <1>1, <1>3 DEF IsInjective
  <2>2. Min(at) = i
    BY <1>1, <2>1 DEF Min
  <2>3. RemoveFirst(s, c) = RemoveAt(s, Min(at))
    BY <1>3, <2>1 DEF RemoveFirst, SelectInSeq
  <2> HIDE DEF at
  <2> QED BY <2>2, <2>3
<1>4. ASSUME NEW i \in 1 .. Len(s), s[i] = c
      PROVE  /\ RemoveFirst(s, c) \in Seq(Clis)
             /\ Len(RemoveFirst(s, c)) <= Len(s)
             /\ IsInjective(RemoveFirst(s, c))
             /\ ToSet(RemoveFirst(s, c)) = ToSet(s) \ {c}
  BY <1>1, <1>3, <1>4, RemoveAtFacts
<1> QED BY <1>2, <1>4

\* A list without repetitions is as long as the set of its elements is large.
LEMMA LenIsCardinality ==
  ASSUME NEW s \in Seq(Clis), IsInjective(s)
  PROVE  IsFiniteSet(ToSet(s)) /\ Cardinality(ToSet(s)) = Len(s)
<1>1. Len(s) \in Nat /\ DOMAIN s = 1 .. Len(s)
  BY LenProperties
<1>2. IsFiniteSet(1 .. Len(s)) /\ Cardinality(1 .. Len(s)) = Len(s)
  BY <1>1, FS_Interval
<1>3. s \in Bijection(1 .. Len(s), ToSet(s))
  <2>1. s \in [1 .. Len(s) -> ToSet(s)]
    BY <1>1 DEF ToSet
  <2>2. \A a, b \in 1 .. Len(s) : s[a] = s[b] => a = b
    BY <1>1 DEF IsInjective
  <2>3. \A c \in ToSet(s) : \E i \in 1 .. Len(s) : s[i] = c
    BY <1>1 DEF ToSet
  <2> QED BY <2>1, <2>2, <2>3 DEF Bijection, Injection, Surjection, IsInjective
<1>4. ExistsBijection(1 .. Len(s), ToSet(s))
  BY <1>3 DEF ExistsBijection
<1> QED BY <1>2, <1>4, FS_Bijection

-----------------------------------------------------------------------------
LEMMA RefSplit ==
  /\ RefcountExact <=> TypeOK /\ Refs /\ FreedRefs /\ Filed /\ LiveExact
  /\ RefcountExact' <=> TypeOK' /\ Refs' /\ FreedRefs' /\ Filed' /\ LiveExact'
  BY DEF RefcountExact, Refs, FreedRefs, Filed, LiveExact, Holders

\* What the invariant says about clients and the threads that use them.
LEMMA Base ==
  ASSUME IInv
  PROVE  /\ Hashed \subseteq live /\ live \subseteq Clis /\ None \notin live
         /\ \A k \in Keys : hash[k] # None => hash[k] \in Hashed
         /\ \A c \in Hashed : \E k \in Keys : hash[k] = c /\ tc_key[c] = k
         /\ \A c : IsFiniteSet(Holders(c)) /\ Cardinality(Holders(c)) \in Nat
         /\ \A t \in Threads : res_cli[t] # None =>
              res_cli[t] \in live /\ tc_ref[res_cli[t]] >= 1
         /\ \A t \in Threads : res[t] = "held" => res_cli[t] \in Hashed
<1>r. TypeOK /\ Refs /\ FreedRefs /\ Filed /\ LiveExact
  BY RefSplit DEF IInv
<1>1. \A k \in Keys : hash[k] # None => hash[k] \in Hashed
  BY DEF Hashed
<1>2. \A c \in Hashed : \E k \in Keys : hash[k] = c /\ tc_key[c] = k /\ c \in live
  BY <1>r DEF Hashed, Filed
<1>3. Hashed \subseteq live /\ live \subseteq Clis /\ None \notin live
  BY <1>r, <1>2, CacheAssumption DEF TypeOK
<1>4. ASSUME NEW c PROVE IsFiniteSet(Holders(c)) /\ Cardinality(Holders(c)) \in Nat
  <2>1. Holders(c) \subseteq Threads
    BY DEF Holders
  <2> QED BY <2>1, CacheAssumption, FS_Subset, FS_CardinalityType
<1>5. ASSUME NEW t \in Threads, res[t] = "held" PROVE res_cli[t] \in Hashed
  <2>1. /\ hash[res_key[t]] = res_cli[t] /\ res_key[t] \in Keys
        /\ res_cli[t] \in live
    BY <1>5 DEF IInv, OneBucketPerKey, ThreadInv
  <2> QED BY <1>1, <1>3, <2>1
<1>6. ASSUME NEW t \in Threads, res_cli[t] # None
      PROVE  res_cli[t] \in live /\ tc_ref[res_cli[t]] >= 1
  <2> DEFINE c == res_cli[t]
  <2>1. res[t] = "held" \/ res[t] = "new"
    BY <1>6, <1>r DEF IInv, ThreadInv, TypeOK
  <2>2. c \in live
    BY <2>1, <1>3, <1>5 DEF IInv, NewInv
  <2>3. t \in Holders(c)
    BY DEF Holders
  <2>4. Cardinality(Holders(c)) >= 1
    <3> HIDE DEF c
    <3>1. Cardinality(Holders(c)) # 0
      BY <1>4, <2>3, FS_EmptySet
    <3> QED BY <1>4, <3>1
  <2>5. (IF c \in Hashed THEN ItemRef ELSE 0) \in Nat
    BY DEF ItemRef
  <2>6. tc_ref[c] = Cardinality(Holders(c)) + (IF c \in Hashed THEN ItemRef ELSE 0)
    BY <1>r, <2>2 DEF Refs
  <2> HIDE DEF c
  <2>7. tc_ref[c] >= 1
    BY <1>4, <2>4, <2>5, <2>6
  <2> QED BY <2>2, <2>7 DEF c
<1> QED BY <1>1, <1>2, <1>3, <1>4, <1>5, <1>6

\* Thread t comes to hold c instead of what it held, if anything.
LEMMA HoldersMove ==
  ASSUME res_cli \in [Threads -> Clis \union {None}],
         NEW t \in Threads, NEW c, res_cli[t] # c,
         res_cli' = [res_cli EXCEPT ![t] = c]
  PROVE  /\ Cardinality(Holders(c)') = Cardinality(Holders(c)) + 1
         /\ \A d : d = res_cli[t] =>
                    Cardinality(Holders(d)') = Cardinality(Holders(d)) - 1
         /\ \A d : d # c /\ d # res_cli[t] => Holders(d)' = Holders(d)
<1>1. \A u \in Threads : res_cli'[u] = IF u = t THEN c ELSE res_cli[u]
  OBVIOUS
<1>2. \A d : IsFiniteSet(Holders(d))
  <2>1. \A d : Holders(d) \subseteq Threads
    BY DEF Holders
  <2> QED BY <2>1, CacheAssumption, FS_Subset
<1>3. Holders(c)' = Holders(c) \union {t} /\ t \notin Holders(c)
  BY <1>1 DEF Holders
<1>4. Cardinality(Holders(c)') = Cardinality(Holders(c)) + 1
  BY <1>2, <1>3, FS_AddElement
<1>5. ASSUME NEW d, d = res_cli[t]
      PROVE  Cardinality(Holders(d)') = Cardinality(Holders(d)) - 1
  <2>1. Holders(d)' = Holders(d) \ {t} /\ t \in Holders(d)
    BY <1>1, <1>5 DEF Holders
  <2> QED BY <1>2, <2>1, FS_RemoveElement
<1>6. \A d : d # c /\ d # res_cli[t] => Holders(d)' = Holders(d)
  BY <1>1 DEF Holders
<1> QED BY <1>4, <1>5, <1>6

-----------------------------------------------------------------------------
LEMMA InitIInv == Init => IInv
<1> SUFFICES ASSUME Init PROVE IInv
  OBVIOUS
<1>1. TypeOK
  <2>1. ntb_lru \in Seq(Clis)
    BY DEF Init
  <2>2. started \in BOOLEAN /\ th_type \in {"nid", "jobid"}
    BY DEF Init
  <2> QED BY <2>1, <2>2 DEF Init, TypeOK
<1>2. Hashed = {}
  BY DEF Init, Hashed
<1>3. RefcountExact
  BY <1>1, <1>2 DEF Init, RefcountExact
<1>4. LruExact
  <2>1. Len(ntb_lru) = 0 /\ DOMAIN ntb_lru = {}
    BY DEF Init
  <2> QED BY <1>2, <2>1, CacheAssumption DEF LruExact, IsInjective, ToSet
<1> QED BY <1>2, <1>3, <1>4
        DEF Init, IInv, OneBucketPerKey, ThreadInv, NewInv, StoppedInv

\* Starting the policy: there is no client and no request.
LEMMA StartStep ==
  ASSUME IInv, NEW type \in {"nid", "jobid"}, nrs_tbf_start(type)
  PROVE  IInv'
<1>r. TypeOK /\ Refs /\ FreedRefs /\ Filed /\ LiveExact
  BY RefSplit DEF IInv
<1>u. /\ ~started /\ started' = TRUE /\ th_type' = type
      /\ UNCHANGED <<hash, live, tc_key, tc_ref, ntb_lru, res, res_key, res_cli>>
  BY DEF nrs_tbf_start
<1>1. Hashed = {} /\ Hashed' = {}
  BY <1>u DEF IInv, StoppedInv, Hashed
<1>2. \A t \in Threads : res[t] = "out" /\ res_cli[t] = None
  BY <1>u DEF IInv, ThreadInv
<1>3. live = {}
  BY <1>r, <1>1, <1>2 DEF LiveExact
<1>4. RefcountExact'
  <2>1. TypeOK'
    BY <1>r, <1>u DEF TypeOK
  <2> QED BY <1>r, <1>u, <1>1, <1>2, <1>3, <2>1, RefSplit
          DEF Refs, FreedRefs, Filed, LiveExact
<1>5. LruExact'
  <2>1. ToSet(ntb_lru) = {}
    BY <1>1 DEF IInv, LruExact
  <2>2. ToSet(ntb_lru') = {}
    BY <1>u, <2>1
  <2> QED BY <1>u, <1>1, <2>2 DEF IInv, LruExact
<1>6. OneBucketPerKey' /\ ThreadInv' /\ NewInv' /\ StoppedInv'
  BY <1>u, <1>1, <1>2 DEF OneBucketPerKey, ThreadInv, NewInv, StoppedInv
<1> QED BY <1>4, <1>5, <1>6 DEF IInv

\* A request of thread t comes to hold the hashed client d, which was not in
\* use by t: the client leaves the LRU.
LEMMA LruTake ==
  ASSUME IInv, NEW d \in Hashed, UNCHANGED <<hash, th_type>>,
         tc_ref' \in [Clis -> Nat], tc_ref'[d] > 0,
         \A c \in Hashed : c # d => tc_ref'[c] = tc_ref[c],
         ntb_lru' = RemoveFirst(ntb_lru, d)
  PROVE  LruExact' /\ ntb_lru' \in Seq(Clis)
<1>1. ntb_lru \in Seq(Clis) /\ IsInjective(ntb_lru)
  BY RefSplit DEF IInv, LruExact, TypeOK
<1>2. /\ ntb_lru' \in Seq(Clis) /\ IsInjective(ntb_lru')
      /\ Len(ntb_lru') <= Len(ntb_lru)
      /\ ToSet(ntb_lru') = ToSet(ntb_lru) \ {d}
  BY <1>1, DelFacts
<1>3. Len(ntb_lru) \in Nat /\ Len(ntb_lru') \in Nat
  BY <1>1, <1>2, LenProperties
<1>4. Len(ntb_lru') <= HighWater
  BY <1>2, <1>3, CacheAssumption DEF IInv, LruExact
<1>5. Hashed' = Hashed
  BY DEF Hashed
<1>6. ToSet(ntb_lru') = {c \in Hashed' : th_type' = "jobid" /\ tc_ref'[c] = 0}
  <2>1. ToSet(ntb_lru) = {c \in Hashed : th_type = "jobid" /\ tc_ref[c] = 0}
    BY DEF IInv, LruExact
  <2>2. tc_ref'[d] # 0
    BY RefSplit, Base DEF IInv
  <2> QED BY <1>2, <1>5, <2>1, <2>2
<1> QED BY <1>2, <1>4, <1>6 DEF LruExact

\* A lookup.
LEMMA FindStep ==
  ASSUME IInv, NEW t \in Threads, NEW k \in Keys, cli_find(t, k)
  PROVE  IInv'
<1>r. TypeOK /\ Refs /\ FreedRefs /\ Filed /\ LiveExact
  BY RefSplit DEF IInv
<1>u. /\ started /\ res[t] = "out"
      /\ res_key' = [res_key EXCEPT ![t] = k]
      /\ UNCHANGED <<started, th_type, hash, live, tc_key>>
  BY DEF cli_find
<1>h. Hashed' = Hashed /\ ItemRef' = ItemRef
  BY <1>u DEF Hashed, ItemRef
<1>n. res_cli[t] = None
  BY <1>u DEF IInv, ThreadInv
<1>1. CASE hash[k] = None
  <2>1. /\ res' = [res EXCEPT ![t] = "absent"]
        /\ UNCHANGED <<tc_ref, ntb_lru, res_cli>>
    BY <1>1 DEF cli_find
  <2>2. TypeOK'
    BY <1>r, <1>u, <2>1 DEF TypeOK
  <2>3. /\ res'[t] = "absent" /\ res_key'[t] = k
        /\ \A u \in Threads : u # t => res'[u] = res[u] /\ res_key'[u] = res_key[u]
    BY <1>r, <1>u, <2>1 DEF TypeOK
  <2>4. Refs' /\ FreedRefs' /\ Filed'
    BY <1>r, <1>u, <1>h, <2>1 DEF Refs, FreedRefs, Filed, Holders
  <2>5. LiveExact'
    BY <1>r, <1>u, <1>h, <2>1, <2>3 DEF LiveExact
  <2>6. LruExact'
    BY <1>u, <1>h, <2>1 DEF IInv, LruExact
  <2>7. OneBucketPerKey' /\ ThreadInv' /\ StoppedInv'
    BY <1>u, <1>h, <1>n, <2>1, <2>3
       DEF IInv, OneBucketPerKey, ThreadInv, StoppedInv
  <2>8. NewInv'
    <3>1. \A c : Holders(c)' = Holders(c)
      BY <2>1 DEF Holders
    <3> QED BY <1>u, <1>h, <2>1, <2>3, <3>1 DEF IInv, NewInv, Holders
  <2> QED BY <2>2, <2>4, <2>5, <2>6, <2>7, <2>8, RefSplit DEF IInv
<1>2. CASE hash[k] # None
  <2> PICK d : d = hash[k]
    OBVIOUS
  <2>1. /\ tc_ref' = [tc_ref EXCEPT ![d] = @ + 1]
        /\ ntb_lru' = RemoveFirst(ntb_lru, d)
        /\ res' = [res EXCEPT ![t] = "held"]
        /\ res_cli' = [res_cli EXCEPT ![t] = d]
    BY <1>2 DEF cli_find, Take
  <2>2. d \in Hashed /\ d \in live /\ d \in Clis /\ d # None /\ tc_key[d] = k
    BY <1>r, <1>2, Base DEF Filed
  <2>3. /\ res'[t] = "held" /\ res_key'[t] = k /\ res_cli'[t] = d
        /\ \A u \in Threads : u # t => /\ res'[u] = res[u]
                                       /\ res_key'[u] = res_key[u]
                                       /\ res_cli'[u] = res_cli[u]
    BY <1>r, <1>u, <2>1 DEF TypeOK
  <2>4. /\ tc_ref' \in [Clis -> Nat] /\ tc_ref'[d] = tc_ref[d] + 1
        /\ \A c \in Clis : c # d => tc_ref'[c] = tc_ref[c]
    BY <1>r, <2>1, <2>2 DEF TypeOK
  <2>5. LruExact' /\ ntb_lru' \in Seq(Clis)
    <3>1. tc_ref'[d] > 0
      BY <1>r, <2>2, <2>4 DEF TypeOK
    <3>2. \A c \in Hashed : c # d => tc_ref'[c] = tc_ref[c]
      BY <2>4, Base
    <3> QED BY <1>u, <2>1, <2>2, <2>4, <3>1, <3>2, LruTake
  <2>6. TypeOK'
    BY <1>r, <1>u, <2>1, <2>2, <2>4, <2>5 DEF TypeOK
  <2>7. /\ Cardinality(Holders(d)') = Cardinality(Holders(d)) + 1
        /\ \A c \in Clis : c # d => Holders(c)' = Holders(c)
    <3>1. res_cli \in [Threads -> Clis \union {None}]
      BY <1>r DEF TypeOK
    <3>2. /\ Cardinality(Holders(d)') = Cardinality(Holders(d)) + 1
          /\ \A c : c # d /\ c # None => Holders(c)' = Holders(c)
      BY <1>n, <2>1, <2>2, <3>1, HoldersMove
    <3> QED BY <3>2, CacheAssumption
  <2>8. Refs'
    <3> SUFFICES ASSUME NEW c \in live
                 PROVE  tc_ref'[c] = Cardinality(Holders(c)')
                                       + (IF c \in Hashed THEN ItemRef ELSE 0)
      BY <1>u, <1>h DEF Refs
    <3>1. tc_ref[c] = Cardinality(Holders(c))
                        + (IF c \in Hashed THEN ItemRef ELSE 0)
      BY <1>r DEF Refs
    <3>2. /\ c \in Clis /\ Cardinality(Holders(c)) \in Nat
          /\ (IF c \in Hashed THEN ItemRef ELSE 0) \in Nat
      BY Base DEF ItemRef
    <3>3. CASE c = d
      <4>1. tc_ref'[c] = tc_ref[c] + 1
            /\ Cardinality(Holders(c)') = Cardinality(Holders(c)) + 1
        BY <2>4, <2>7, <3>3
      <4> QED BY <3>1, <3>2, <4>1
    <3>4. CASE c # d
      <4>1. tc_ref'[c] = tc_ref[c] /\ Holders(c)' = Holders(c)
        BY <2>4, <2>7, <3>2, <3>4
      <4> QED BY <3>1, <4>1
    <3> QED BY <3>3, <3>4
  <2>9. FreedRefs' /\ Filed'
    BY <1>r, <1>u, <2>2, <2>4 DEF FreedRefs, Filed
  <2>10. LiveExact'
    BY <1>r, <1>u, <1>h, <2>3 DEF LiveExact
  <2>11. OneBucketPerKey' /\ ThreadInv' /\ StoppedInv'
    BY <1>u, <1>h, <2>2, <2>3 DEF IInv, OneBucketPerKey, ThreadInv, StoppedInv
  <2>12. NewInv'
    <3> SUFFICES ASSUME NEW u \in Threads, res'[u] = "new"
                 PROVE  /\ res_cli'[u] \in live' \ Hashed'
                        /\ tc_key'[res_cli'[u]] = res_key'[u]
                        /\ {v \in Threads : res_cli'[v] = res_cli'[u]} = {u}
      BY DEF NewInv, Holders
    <3>1. u # t /\ res[u] = "new"
      BY <2>3
    <3>2. res_cli[u] # d
      BY <2>2, <3>1 DEF IInv, NewInv
    <3> QED BY <1>u, <1>h, <2>3, <3>1, <3>2 DEF IInv, NewInv, Holders
  <2> QED BY <2>5, <2>6, <2>8, <2>9, <2>10, <2>11, <2>12, RefSplit DEF IInv
<1> QED BY <1>1, <1>2

\* A failed allocation.
LEMMA AllocFailsStep ==
  ASSUME IInv, NEW t \in Threads, cli_alloc_fails(t)
  PROVE  IInv'
<1>r. TypeOK /\ Refs /\ FreedRefs /\ Filed /\ LiveExact
  BY RefSplit DEF IInv
<1>u. /\ res[t] = "absent" /\ res' = [res EXCEPT ![t] = "out"]
      /\ res_key' = [res_key EXCEPT ![t] = None]
      /\ UNCHANGED <<started, th_type, hash, live, tc_key, tc_ref, ntb_lru, res_cli>>
  BY DEF cli_alloc_fails
<1>h. Hashed' = Hashed /\ ItemRef' = ItemRef /\ \A c : Holders(c)' = Holders(c)
  BY <1>u DEF Hashed, ItemRef, Holders
<1>1. /\ res'[t] = "out"
      /\ \A u \in Threads : u # t => res'[u] = res[u] /\ res_key'[u] = res_key[u]
  BY <1>r, <1>u DEF TypeOK
<1>2. TypeOK' /\ Refs' /\ FreedRefs' /\ Filed' /\ LiveExact'
  <2>1. TypeOK'
    BY <1>r, <1>u DEF TypeOK
  <2>2. Refs' /\ FreedRefs' /\ Filed'
    BY <1>r, <1>u, <1>h DEF Refs, FreedRefs, Filed
  <2>3. LiveExact'
    BY <1>r, <1>u, <1>h, <1>1 DEF LiveExact
  <2> QED BY <2>1, <2>2, <2>3
<1>3. LruExact'
  BY <1>u, <1>h DEF IInv, LruExact
<1>4. OneBucketPerKey' /\ ThreadInv' /\ StoppedInv'
  BY <1>u, <1>h, <1>1 DEF IInv, OneBucketPerKey, ThreadInv, StoppedInv
<1>5. NewInv'
  BY <1>u, <1>h, <1>1 DEF IInv, NewInv, Holders
<1> QED BY <1>2, <1>3, <1>4, <1>5, RefSplit DEF IInv

\* A new client is known to its thread only.
LEMMA CliInitStep ==
  ASSUME IInv, NEW t \in Threads, nrs_tbf_cli_init(t)
  PROVE  IInv'
<1>r. TypeOK /\ Refs /\ FreedRefs /\ Filed /\ LiveExact
  BY RefSplit DEF IInv
<1> PICK c \in Clis \ live :
      /\ live' = live \union {c}
      /\ tc_key' = [tc_key EXCEPT ![c] = res_key[t]]
      /\ tc_ref' = [tc_ref EXCEPT ![c] = 1]
      /\ res_cli' = [res_cli EXCEPT ![t] = c]
  BY DEF nrs_tbf_cli_init
<1>u. /\ res[t] = "absent" /\ res' = [res EXCEPT ![t] = "new"]
      /\ UNCHANGED <<started, th_type, hash, ntb_lru, res_key>>
  BY DEF nrs_tbf_cli_init
<1>h. Hashed' = Hashed /\ ItemRef' = ItemRef
  BY <1>u DEF Hashed, ItemRef
<1>k. res_cli[t] = None /\ res_key[t] \in Keys /\ started /\ c # None
  BY <1>u, CacheAssumption DEF IInv, ThreadInv
<1>1. /\ res'[t] = "new" /\ res_cli'[t] = c
      /\ \A u \in Threads : u # t => res'[u] = res[u] /\ res_cli'[u] = res_cli[u]
  BY <1>r, <1>u DEF TypeOK
<1>2. /\ tc_ref' \in [Clis -> Nat] /\ tc_ref'[c] = 1 /\ tc_key'[c] = res_key[t]
      /\ \A d \in Clis : d # c => tc_ref'[d] = tc_ref[d] /\ tc_key'[d] = tc_key[d]
  BY <1>r DEF TypeOK
<1>3. \A u \in Threads : res_cli[u] # c
  BY Base, <1>k
<1>4. /\ Holders(c)' = {t}
      /\ \A d : d # c /\ d # None => Holders(d)' = Holders(d)
  BY <1>1, <1>3, <1>k DEF Holders
<1>5. c \notin Hashed
  BY Base
<1>6. TypeOK'
  BY <1>r, <1>u, <1>k, <1>2 DEF TypeOK
<1>7. Refs'
  <2> SUFFICES ASSUME NEW d \in live'
               PROVE  tc_ref'[d] = Cardinality(Holders(d)')
                                     + (IF d \in Hashed THEN ItemRef ELSE 0)
    BY <1>h DEF Refs
  <2>1. CASE d = c
    <3>1. Cardinality(Holders(d)') = 1
      BY <1>4, <2>1, FS_Singleton
    <3> QED BY <1>2, <1>5, <2>1, <3>1
  <2>2. CASE d # c
    BY <1>r, <1>2, <1>4, <2>2, Base DEF Refs
  <2> QED BY <2>1, <2>2
<1>8. FreedRefs' /\ Filed'
  <2>1. FreedRefs'
    BY <1>r, <1>2 DEF FreedRefs
  <2>2. Filed'
    <3> SUFFICES ASSUME NEW k \in Keys, hash[k] # None
                 PROVE  hash[k] \in live' /\ tc_key'[hash[k]] = k
      BY <1>u DEF Filed
    <3>1. hash[k] \in live /\ tc_key[hash[k]] = k
      BY <1>r DEF Filed
    <3> QED BY <1>2, <3>1, Base
  <2> QED BY <2>1, <2>2
<1>9. LiveExact'
  <2>1. {res_cli'[v] : v \in {u \in Threads : res'[u] = "new"}}
          = {res_cli[v] : v \in {u \in Threads : res[u] = "new"}} \union {c}
    BY <1>u, <1>1
  <2> QED BY <1>r, <1>h, <2>1 DEF LiveExact
<1>10. LruExact'
  <2>1. \A d \in Hashed : tc_ref'[d] = tc_ref[d]
    BY <1>2, <1>5, Base
  <2> QED BY <1>u, <1>h, <2>1 DEF IInv, LruExact
<1>11. OneBucketPerKey'
  <2> SUFFICES ASSUME NEW u \in Threads, res'[u] = "held"
               PROVE  /\ res_cli'[u] \in live' /\ hash[res_key[u]] = res_cli'[u]
                      /\ tc_key'[res_cli'[u]] = res_key[u]
    BY <1>u DEF OneBucketPerKey
  <2>1. u # t /\ res[u] = "held" /\ res_cli'[u] = res_cli[u]
    BY <1>1
  <2>2. /\ res_cli[u] \in live /\ hash[res_key[u]] = res_cli[u]
        /\ tc_key[res_cli[u]] = res_key[u]
    BY <2>1 DEF IInv, OneBucketPerKey
  <2> QED BY <1>2, <2>1, <2>2, Base
<1>12. ThreadInv' /\ StoppedInv'
  BY <1>u, <1>h, <1>k, <1>1 DEF IInv, ThreadInv, StoppedInv
<1>13. NewInv'
  <2> SUFFICES ASSUME NEW u \in Threads, res'[u] = "new"
               PROVE  /\ res_cli'[u] \in live' \ Hashed
                      /\ tc_key'[res_cli'[u]] = res_key[u]
                      /\ {v \in Threads : res_cli'[v] = res_cli'[u]} = {u}
    BY <1>u, <1>h DEF NewInv, Holders
  <2>1. CASE u = t
    BY <1>1, <1>2, <1>3, <1>5, <2>1
  <2>2. CASE u # t
    <3>1. /\ res_cli'[u] = res_cli[u]
          /\ res_cli[u] \in live \ Hashed /\ tc_key[res_cli[u]] = res_key[u]
          /\ {v \in Threads : res_cli[v] = res_cli[u]} = {u}
      BY <1>1, <2>2 DEF IInv, NewInv, Holders
    <3>2. res_cli[u] \in Clis /\ res_cli[u] # c
      BY <3>1, Base
    <3> QED BY <1>1, <1>2, <3>1, <3>2
  <2> QED BY <2>1, <2>2
<1> QED BY <1>6, <1>7, <1>8, <1>9, <1>10, <1>11, <1>12, <1>13, RefSplit DEF IInv

\* The new client is inserted: nobody else came in between.
LEMMA InsertStep ==
  ASSUME IInv, NEW t \in Threads, cli_findadd(t), hash[res_key[t]] = None
  PROVE  IInv'
<1>r. TypeOK /\ Refs /\ FreedRefs /\ Filed /\ LiveExact
  BY RefSplit DEF IInv
<1> PICK k : k = res_key[t]
  OBVIOUS
<1> PICK c : c = res_cli[t]
  OBVIOUS
<1>u. /\ res[t] = "new" /\ res' = [res EXCEPT ![t] = "held"]
      /\ hash' = [hash EXCEPT ![k] = c]
      /\ tc_ref' = [tc_ref EXCEPT ![c] = @ + ItemRef]
      /\ UNCHANGED <<started, th_type, live, tc_key, ntb_lru, res_key, res_cli>>
  BY DEF cli_findadd
<1>n. /\ c \in live /\ c \notin Hashed /\ tc_key[c] = k /\ Holders(c) = {t}
      /\ k \in Keys /\ started /\ c \in Clis /\ c # None
  <2>1. /\ res_cli[t] \in live \ Hashed /\ tc_key[res_cli[t]] = res_key[t]
        /\ Holders(res_cli[t]) = {t}
    BY <1>u DEF IInv, NewInv
  <2>2. Holders(c) = {t}
    BY <2>1 DEF Holders
  <2> QED BY <1>u, <2>1, <2>2, Base DEF IInv, ThreadInv
<1>h. /\ ItemRef' = ItemRef /\ ItemRef \in Nat
      /\ \A d : Holders(d)' = Holders(d)
  BY <1>u DEF ItemRef, Holders
<1>1. /\ res'[t] = "held" /\ \A u \in Threads : u # t => res'[u] = res[u]
      /\ hash'[k] = c /\ \A j \in Keys : j # k => hash'[j] = hash[j]
  BY <1>r, <1>u, <1>n DEF TypeOK
<1>2. Hashed' = Hashed \union {c}
  BY <1>1, <1>n, hash[k] = None DEF Hashed
<1>3. /\ tc_ref' \in [Clis -> Nat] /\ tc_ref'[c] = tc_ref[c] + ItemRef
      /\ \A d \in Clis : d # c => tc_ref'[d] = tc_ref[d]
  BY <1>r, <1>u, <1>n, <1>h DEF TypeOK
<1>4. tc_ref[c] = 1
  <2>1. Cardinality(Holders(c)) = 1
    BY <1>n, FS_Singleton
  <2>2. tc_ref[c] = Cardinality(Holders(c)) + 0
    BY <1>r, <1>n DEF Refs
  <2> QED BY <2>1, <2>2
<1>5. TypeOK'
  BY <1>r, <1>u, <1>n, <1>3 DEF TypeOK
<1>6. Refs'
  <2> SUFFICES ASSUME NEW d \in live
               PROVE  tc_ref'[d] = Cardinality(Holders(d))
                                     + (IF d \in Hashed' THEN ItemRef ELSE 0)
    BY <1>u, <1>h DEF Refs
  <2>1. CASE d = c
    <3>1. Cardinality(Holders(d)) = 1
      BY <1>n, <2>1, FS_Singleton
    <3> QED BY <1>2, <1>3, <1>4, <1>h, <2>1, <3>1
  <2>2. CASE d # c
    BY <1>r, <1>2, <1>3, <2>2, Base DEF Refs
  <2> QED BY <2>1, <2>2
<1>7. FreedRefs' /\ Filed'
  <2>1. FreedRefs'
    BY <1>r, <1>u, <1>n, <1>3 DEF FreedRefs
  <2>2. Filed'
    BY <1>r, <1>u, <1>n, <1>1 DEF Filed
  <2> QED BY <2>1, <2>2
<1>8. LiveExact'
  <2>1. {res_cli[v] : v \in {u \in Threads : res[u] = "new"}}
          = {res_cli[v] : v \in {u \in Threads : res'[u] = "new"}} \union {c}
    BY <1>u, <1>1
  <2> QED BY <1>r, <1>u, <1>2, <2>1 DEF LiveExact
<1>9. LruExact'
  <2>1. \A d \in Hashed : tc_ref'[d] = tc_ref[d]
    BY <1>3, <1>n, Base
  <2>2. tc_ref'[c] # 0
    BY <1>3, <1>4, <1>h
  <2> QED BY <1>u, <1>2, <2>1, <2>2 DEF IInv, LruExact
<1>10. OneBucketPerKey'
  <2> SUFFICES ASSUME NEW u \in Threads, res'[u] = "held"
               PROVE  /\ res_cli[u] \in live /\ hash'[res_key[u]] = res_cli[u]
                      /\ tc_key[res_cli[u]] = res_key[u]
    BY <1>u DEF OneBucketPerKey
  <2>1. CASE u = t
    BY <1>1, <1>n, <2>1
  <2>2. CASE u # t
    <3>1. /\ res_cli[u] \in live /\ hash[res_key[u]] = res_cli[u]
          /\ tc_key[res_cli[u]] = res_key[u] /\ res_key[u] \in Keys
      BY <1>1, <2>2 DEF IInv, OneBucketPerKey, ThreadInv
    <3>2. res_key[u] # k
      BY <3>1, Base
    <3> QED BY <1>1, <3>1, <3>2
  <2> QED BY <2>1, <2>2
<1>11. ThreadInv' /\ StoppedInv'
  BY <1>u, <1>n, <1>1 DEF IInv, ThreadInv, StoppedInv
<1>12. NewInv'
  <2> SUFFICES ASSUME NEW u \in Threads, res'[u] = "new"
               PROVE  /\ res_cli[u] \in live \ Hashed'
                      /\ tc_key[res_cli[u]] = res_key[u]
                      /\ {v \in Threads : res_cli[v] = res_cli[u]} = {u}
    BY <1>u DEF NewInv, Holders
  <2>1. u # t /\ res[u] = "new"
    BY <1>1
  <2>2. res_cli[u] # c
    BY <1>n, <2>1 DEF Holders
  <2> QED BY <1>2, <2>1, <2>2 DEF IInv, NewInv, Holders
<1> QED BY <1>5, <1>6, <1>7, <1>8, <1>9, <1>10, <1>11, <1>12, RefSplit DEF IInv

\* Somebody else inserted a client for the key: the new one is freed.
LEMMA LoseRaceStep ==
  ASSUME IInv, NEW t \in Threads, cli_findadd(t), hash[res_key[t]] # None
  PROVE  IInv'
<1>r. TypeOK /\ Refs /\ FreedRefs /\ Filed /\ LiveExact
  BY RefSplit DEF IInv
<1> PICK k : k = res_key[t]
  OBVIOUS
<1> PICK c : c = res_cli[t]
  OBVIOUS
<1> PICK d : d = hash[k]
  OBVIOUS
<1>u. /\ res[t] = "new" /\ res' = [res EXCEPT ![t] = "held"]
      /\ tc_ref' = [tc_ref EXCEPT ![d] = @ + 1, ![c] = @ - 1]
      /\ ntb_lru' = RemoveFirst(ntb_lru, d)
      /\ res_cli' = [res_cli EXCEPT ![t] = d]
      /\ live' = live \ {c}
      /\ UNCHANGED <<started, th_type, hash, tc_key, res_key>>
  BY DEF cli_findadd
<1>n. /\ c \in live /\ c \notin Hashed /\ tc_key[c] = k /\ Holders(c) = {t}
      /\ k \in Keys /\ started /\ c \in Clis /\ c # None
  <2>1. /\ res_cli[t] \in live \ Hashed /\ tc_key[res_cli[t]] = res_key[t]
        /\ Holders(res_cli[t]) = {t}
    BY <1>u DEF IInv, NewInv
  <2>2. Holders(c) = {t}
    BY <2>1 DEF Holders
  <2> QED BY <1>u, <2>1, <2>2, Base DEF IInv, ThreadInv
<1>d. /\ d \in Hashed /\ d \in live /\ d \in Clis /\ d # None /\ tc_key[d] = k
      /\ d # c
  BY <1>r, <1>n, Base DEF Filed
<1>h. ItemRef' = ItemRef /\ ItemRef \in Nat /\ Hashed' = Hashed
  BY <1>u DEF ItemRef, Hashed
<1>1. /\ res'[t] = "held" /\ res_cli'[t] = d
      /\ \A u \in Threads : u # t => res'[u] = res[u] /\ res_cli'[u] = res_cli[u]
  BY <1>r, <1>u DEF TypeOK
<1>2. tc_ref[c] = 1
  <2>1. Cardinality(Holders(c)) = 1
    BY <1>n, FS_Singleton
  <2>2. tc_ref[c] = Cardinality(Holders(c)) + 0
    BY <1>r, <1>n DEF Refs
  <2> QED BY <2>1, <2>2
<1>3. /\ tc_ref' \in [Clis -> Nat] /\ tc_ref'[c] = 0 /\ tc_ref'[d] = tc_ref[d] + 1
      /\ \A e \in Clis : e # c /\ e # d => tc_ref'[e] = tc_ref[e]
  <2>1. tc_ref \in [Clis -> Nat]
    BY <1>r DEF TypeOK
  <2> QED BY <1>u, <1>n, <1>d, <1>2, <2>1
<1>4. /\ Cardinality(Holders(d)') = Cardinality(Holders(d)) + 1
      /\ \A e \in Clis : e # c /\ e # d => Holders(e)' = Holders(e)
  <2>1. res_cli \in [Threads -> Clis \union {None}]
    BY <1>r DEF TypeOK
  <2> QED BY <1>u, <1>d, <2>1, HoldersMove
<1>5. LruExact' /\ ntb_lru' \in Seq(Clis)
  <2>1. tc_ref'[d] > 0
    BY <1>r, <1>d, <1>3 DEF TypeOK
  <2>2. \A e \in Hashed : e # d => tc_ref'[e] = tc_ref[e]
    BY <1>n, <1>3, Base
  <2> QED BY <1>u, <1>d, <1>3, <2>1, <2>2, LruTake
<1>6. TypeOK'
  <2>1. res' \in [Threads -> {"out", "absent", "new", "held"}]
        /\ res_cli' \in [Threads -> Clis \union {None}]
    BY <1>r, <1>u, <1>d DEF TypeOK
  <2> QED BY <1>r, <1>u, <1>3, <1>5, <2>1 DEF TypeOK
<1>7. Refs'
  <2> SUFFICES ASSUME NEW e \in live, e # c
               PROVE  tc_ref'[e] = Cardinality(Holders(e)')
                                     + (IF e \in Hashed THEN ItemRef ELSE 0)
    BY <1>u, <1>h DEF Refs
  <2>1. tc_ref[e] = Cardinality(Holders(e)) + (IF e \in Hashed THEN ItemRef ELSE 0)
    BY <1>r DEF Refs
  <2>2. /\ e \in Clis /\ Cardinality(Holders(e)) \in Nat
        /\ (IF e \in Hashed THEN ItemRef ELSE 0) \in Nat
    BY <1>h, Base
  <2>3. CASE e = d
    <3>1. /\ tc_ref'[e] = tc_ref[e] + 1
          /\ Cardinality(Holders(e)') = Cardinality(Holders(e)) + 1
      BY <1>3, <1>4, <2>3
    <3> QED BY <2>1, <2>2, <3>1
  <2>4. CASE e # d
    <3>1. tc_ref'[e] = tc_ref[e] /\ Holders(e)' = Holders(e)
      BY <1>3, <1>4, <2>2, <2>4
    <3> QED BY <2>1, <3>1
  <2> QED BY <2>3, <2>4
<1>8. FreedRefs' /\ Filed'
  <2>1. FreedRefs'
    BY <1>r, <1>u, <1>d, <1>3 DEF FreedRefs
  <2>2. Filed'
    BY <1>r, <1>u, <1>n, Base DEF Filed
  <2> QED BY <2>1, <2>2
<1>9. LiveExact'
  <2>1. ASSUME NEW e, e # c
        PROVE  e \in {res_cli[v] : v \in {u \in Threads : res[u] = "new"}}
          <=> e \in {res_cli'[v] : v \in {u \in Threads : res'[u] = "new"}}
    BY <1>u, <1>1, <2>1
  <2>2. c \notin {res_cli'[v] : v \in {u \in Threads : res'[u] = "new"}}
    BY <1>1, <1>n DEF Holders
  <2> QED BY <1>r, <1>u, <1>h, <1>n, <2>1, <2>2 DEF LiveExact
<1>10. OneBucketPerKey'
  <2> SUFFICES ASSUME NEW u \in Threads, res'[u] = "held"
               PROVE  /\ res_cli'[u] \in live' /\ hash[res_key[u]] = res_cli'[u]
                      /\ tc_key[res_cli'[u]] = res_key[u]
    BY <1>u DEF OneBucketPerKey
  <2>1. CASE u = t
    BY <1>1, <1>u, <1>d, <2>1
  <2>2. CASE u # t
    <3>1. /\ res_cli[u] \in live /\ hash[res_key[u]] = res_cli[u]
          /\ tc_key[res_cli[u]] = res_key[u] /\ res_cli[u] \in Hashed
      BY <1>1, <2>2, Base DEF IInv, OneBucketPerKey
    <3> QED BY <1>1, <1>u, <1>n, <2>2, <3>1
  <2> QED BY <2>1, <2>2
<1>11. ThreadInv' /\ StoppedInv'
  BY <1>u, <1>n, <1>h, <1>d, <1>1 DEF IInv, ThreadInv, StoppedInv
<1>12. NewInv'
  <2> SUFFICES ASSUME NEW u \in Threads, res'[u] = "new"
               PROVE  /\ res_cli'[u] \in live' \ Hashed
                      /\ tc_key[res_cli'[u]] = res_key[u]
                      /\ {v \in Threads : res_cli'[v] = res_cli'[u]} = {u}
    BY <1>u, <1>h DEF NewInv, Holders
  <2>1. u # t /\ res[u] = "new" /\ res_cli'[u] = res_cli[u]
    BY <1>1
  <2>2. /\ res_cli[u] \in live \ Hashed /\ tc_key[res_cli[u]] = res_key[u]
        /\ {v \in Threads : res_cli[v] = res_cli[u]} = {u}
    BY <2>1 DEF IInv, NewInv, Holders
  <2>3. res_cli[u] # c /\ res_cli[u] # d
    BY <1>n, <1>d, <2>1, <2>2 DEF Holders
  <2> QED BY <1>u, <1>1, <2>1, <2>2, <2>3
<1> QED BY <1>5, <1>6, <1>7, <1>8, <1>9, <1>10, <1>11, <1>12, RefSplit DEF IInv

\* The hash goes away when no request is left.
LEMMA PutrefStep ==
  ASSUME IInv, hash_putref
  PROVE  IInv'
<1>r. TypeOK /\ Refs /\ FreedRefs /\ Filed /\ LiveExact
  BY RefSplit DEF IInv
<1>u. /\ \A t \in Threads : res[t] = "out"
      /\ started' = FALSE /\ live' = live \ Hashed
      /\ tc_ref' = [c \in Clis |-> IF c \in Hashed THEN tc_ref[c] - ItemRef
                                                    ELSE tc_ref[c]]
      /\ hash' = [k \in Keys |-> None] /\ ntb_lru' = <<>>
      /\ UNCHANGED <<th_type, tc_key, res, res_key, res_cli>>
  BY DEF hash_putref
<1>1. Hashed' = {}
  BY <1>u DEF Hashed
<1>2. live = Hashed /\ live' = {}
  BY <1>r, <1>u DEF LiveExact
<1>3. \A c \in Clis : tc_ref'[c] = 0
  <2> TAKE c \in Clis
  <2>1. CASE c \in Hashed
    <3>1. Holders(c) = {}
      <4>1. \A t \in Threads : res_cli[t] = None
        BY <1>u DEF IInv, ThreadInv
      <4> QED BY <4>1, <2>1, CacheAssumption DEF Holders
    <3>2. Cardinality(Holders(c)) = 0
      BY <3>1, FS_EmptySet
    <3>3. tc_ref[c] = 0 + ItemRef
      BY <1>r, <1>2, <2>1, <3>2 DEF Refs
    <3>4. ItemRef \in Int
      BY DEF ItemRef
    <3>5. tc_ref'[c] = tc_ref[c] - ItemRef
      BY <1>u, <2>1
    <3> QED BY <3>3, <3>4, <3>5
  <2>2. CASE c \notin Hashed
    BY <1>r, <1>u, <1>2, <2>2 DEF FreedRefs
  <2> QED BY <2>1, <2>2
<1>4. RefcountExact'
  <2>1. TypeOK'
    <3>1. tc_ref' \in [Clis -> Nat]
      BY <1>u, <1>3
    <3>2. ntb_lru' \in Seq(Clis)
      BY <1>u
    <3> QED BY <1>r, <1>u, <1>2, <3>1, <3>2 DEF TypeOK
  <2>2. LiveExact'
    BY <1>u, <1>1, <1>2 DEF LiveExact
  <2> QED BY <1>u, <1>2, <1>3, <2>1, <2>2, RefSplit DEF Refs, FreedRefs, Filed
<1>5. LruExact'
  <2>1. DOMAIN ntb_lru' = {} /\ Len(ntb_lru') = 0
    BY <1>u
  <2> QED BY <1>1, <2>1, CacheAssumption DEF LruExact, IsInjective, ToSet
<1>6. OneBucketPerKey' /\ ThreadInv' /\ NewInv' /\ StoppedInv'
  BY <1>u, <1>1 DEF IInv, OneBucketPerKey, ThreadInv, NewInv, StoppedInv
<1> QED BY <1>4, <1>5, <1>6 DEF IInv

\* A put that frees the hashed clients in dead, which are unused after it,
\* keeps everything but the LRU.
LEMMA PutCore ==
  ASSUME IInv, NEW t \in Threads, cli_put(t), NEW dead \in SUBSET Hashed,
         hash' = [k \in Keys |-> IF hash[k] \in dead THEN None ELSE hash[k]],
         live' = live \ dead, \A d \in dead : tc_ref'[d] = 0,
         ntb_lru' \in Seq(Clis)
  PROVE  /\ RefcountExact' /\ OneBucketPerKey' /\ ThreadInv' /\ NewInv' /\ StoppedInv'
         /\ Hashed' = Hashed \ dead
<1>r. TypeOK /\ Refs /\ FreedRefs /\ Filed /\ LiveExact
  BY RefSplit DEF IInv
<1> PICK c : c = res_cli[t]
  OBVIOUS
<1>u. /\ res[t] = "held" /\ res' = [res EXCEPT ![t] = "out"]
      /\ res_key' = [res_key EXCEPT ![t] = None]
      /\ res_cli' = [res_cli EXCEPT ![t] = None]
      /\ tc_ref' = [tc_ref EXCEPT ![c] = @ - 1]
      /\ UNCHANGED <<started, th_type, tc_key>>
  BY DEF cli_put
<1>c. c \in Hashed /\ c \in live /\ c \in Clis /\ c # None /\ tc_ref[c] >= 1
  BY <1>u, Base DEF IInv, ThreadInv
<1>h. ItemRef' = ItemRef /\ ItemRef \in Nat
  BY <1>u DEF ItemRef
<1>1. /\ res'[t] = "out" /\ res_cli'[t] = None
      /\ \A u \in Threads : u # t => /\ res'[u] = res[u]
                                     /\ res_cli'[u] = res_cli[u]
                                     /\ res_key'[u] = res_key[u]
  BY <1>r, <1>u DEF TypeOK
<1>2. /\ tc_ref' \in [Clis -> Nat] /\ tc_ref'[c] = tc_ref[c] - 1
      /\ \A e \in Clis : e # c => tc_ref'[e] = tc_ref[e]
  <2>1. tc_ref \in [Clis -> Nat]
    BY <1>r DEF TypeOK
  <2>2. tc_ref[c] - 1 \in Nat
    BY <1>c, <2>1
  <2> QED BY <1>u, <1>c, <2>1, <2>2
<1>3. /\ Cardinality(Holders(c)') = Cardinality(Holders(c)) - 1
      /\ \A e \in Clis : e # c => Holders(e)' = Holders(e)
  <2>1. res_cli \in [Threads -> Clis \union {None}]
    BY <1>r DEF TypeOK
  <2>2. /\ Cardinality(Holders(c)') = Cardinality(Holders(c)) - 1
        /\ \A e : e # c /\ e # None => Holders(e)' = Holders(e)
    BY <1>u, <1>c, <2>1, HoldersMove
  <2> QED BY <2>2, CacheAssumption
<1>4. \A e \in live : tc_ref'[e] = Cardinality(Holders(e)')
                                    + (IF e \in Hashed THEN ItemRef ELSE 0)
  <2> TAKE e \in live
  <2>1. tc_ref[e] = Cardinality(Holders(e)) + (IF e \in Hashed THEN ItemRef ELSE 0)
    BY <1>r DEF Refs
  <2>2. /\ e \in Clis /\ Cardinality(Holders(e)) \in Nat
        /\ (IF e \in Hashed THEN ItemRef ELSE 0) \in Nat
    BY <1>h, Base
  <2>3. CASE e = c
    <3>1. /\ tc_ref'[e] = tc_ref[e] - 1
          /\ Cardinality(Holders(e)') = Cardinality(Holders(e)) - 1
      BY <1>2, <1>3, <2>3
    <3> QED BY <2>1, <2>2, <3>1
  <2>4. CASE e # c
    <3>1. tc_ref'[e] = tc_ref[e] /\ Holders(e)' = Holders(e)
      BY <1>2, <1>3, <2>2, <2>4
    <3> QED BY <2>1, <3>1
  <2> QED BY <2>3, <2>4
<1>5. \A e : IsFiniteSet(Holders(e)') /\ Cardinality(Holders(e)') \in Nat
  <2>1. \A e : Holders(e)' \subseteq Threads
    BY DEF Holders
  <2> QED BY <2>1, CacheAssumption, FS_Subset, FS_CardinalityType
<1>6. \A u \in Threads : res_cli'[u] \notin dead
  <2> SUFFICES ASSUME NEW u \in Threads, NEW e \in dead, res_cli'[u] = e
               PROVE  FALSE
    OBVIOUS
  <2>1. e \in live /\ tc_ref'[e] = 0
    BY Base
  <2>2. Cardinality(Holders(e)') = 0
    BY <1>4, <1>5, <1>h, <2>1
  <2>3. Holders(e)' = {}
    BY <1>5, <2>2, FS_EmptySet
  <2> QED BY <2>3 DEF Holders
<1>7. Hashed' = Hashed \ dead
  BY DEF Hashed
<1>8. None \notin dead /\ dead \subseteq live
  BY Base
<1>9. TypeOK'
  <2>1. /\ res' \in [Threads -> {"out", "absent", "new", "held"}]
        /\ res_key' \in [Threads -> Keys \union {None}]
        /\ res_cli' \in [Threads -> Clis \union {None}]
    BY <1>r, <1>u DEF TypeOK
  <2>2. hash' \in [Keys -> Clis \union {None}]
    BY <1>r DEF TypeOK
  <2> QED BY <1>r, <1>u, <1>2, <2>1, <2>2 DEF TypeOK
<1>10. Refs'
  BY <1>4, <1>7, <1>h DEF Refs
<1>11. FreedRefs'
  <2> SUFFICES ASSUME NEW e \in Clis, e \notin live \/ e \in dead
               PROVE  tc_ref'[e] = 0
    BY DEF FreedRefs
  <2> QED BY <1>r, <1>2, <1>c DEF FreedRefs
<1>12. Filed'
  BY <1>r, <1>u DEF Filed
<1>13. LiveExact'
  <2>1. {res_cli'[v] : v \in {u \in Threads : res'[u] = "new"}}
          = {res_cli[v] : v \in {u \in Threads : res[u] = "new"}}
    BY <1>u, <1>1
  <2>2. \A v \in Threads : res[v] = "new" => res_cli[v] \notin dead
    BY DEF IInv, NewInv
  <2> QED BY <1>r, <1>7, <2>1, <2>2 DEF LiveExact
<1>14. OneBucketPerKey'
  <2> SUFFICES ASSUME NEW u \in Threads, res'[u] = "held"
               PROVE  /\ res_cli'[u] \in live' /\ hash'[res_key'[u]] = res_cli'[u]
                      /\ tc_key'[res_cli'[u]] = res_key'[u]
    BY DEF OneBucketPerKey
  <2>1. u # t
    BY <1>1
  <2>2. /\ res_cli[u] \in live /\ hash[res_key[u]] = res_cli[u]
        /\ tc_key[res_cli[u]] = res_key[u] /\ res_key[u] \in Keys
    BY <1>1, <2>1 DEF IInv, OneBucketPerKey, ThreadInv
  <2>3. res_cli[u] \notin dead
    BY <1>1, <1>6, <2>1
  <2> QED BY <1>1, <1>u, <2>1, <2>2, <2>3
<1>15. ThreadInv' /\ StoppedInv'
  BY <1>u, <1>1, <1>7 DEF IInv, ThreadInv, StoppedInv
<1>16. NewInv'
  <2> SUFFICES ASSUME NEW u \in Threads, res'[u] = "new"
               PROVE  /\ res_cli'[u] \in live' \ Hashed'
                      /\ tc_key'[res_cli'[u]] = res_key'[u]
                      /\ {v \in Threads : res_cli'[v] = res_cli'[u]} = {u}
    BY DEF NewInv, Holders
  <2>1. u # t /\ res[u] = "new" /\ res_cli'[u] = res_cli[u]
        /\ res_key'[u] = res_key[u]
    BY <1>1
  <2>2. /\ res_cli[u] \in live \ Hashed /\ tc_key[res_cli[u]] = res_key[u]
        /\ {v \in Threads : res_cli[v] = res_cli[u]} = {u} /\ res_cli[u] # None
    BY <2>1, Base DEF IInv, NewInv, Holders
  <2>3. {v \in Threads : res_cli'[v] = res_cli'[u]} = {u}
    BY <1>1, <2>1, <2>2
  <2> QED BY <1>u, <1>7, <2>1, <2>2, <2>3
<1> QED BY <1>7, <1>9, <1>10, <1>11, <1>12, <1>13, <1>14, <1>15, <1>16, RefSplit

-----------------------------------------------------------------------------
\* Cutting the first n clients off a list without repetitions.
LEMMA CutFacts ==
  ASSUME NEW s \in Seq(Clis), IsInjective(s), NEW n \in 0 .. Len(s)
  PROVE  /\ SubSeq(s, n + 1, Len(s)) \in Seq(Clis)
         /\ Len(SubSeq(s, n + 1, Len(s))) = Len(s) - n
         /\ IsInjective(SubSeq(s, n + 1, Len(s)))
         /\ ToSet(SubSeq(s, 1, n)) \subseteq ToSet(s)
         /\ ToSet(SubSeq(s, n + 1, Len(s))) = ToSet(s) \ ToSet(SubSeq(s, 1, n))
<1> DEFINE a == SubSeq(s, 1, n)
           b == SubSeq(s, n + 1, Len(s))
<1>1. Len(s) \in Nat /\ DOMAIN s = 1 .. Len(s)
  BY LenProperties
<1>2. /\ a \in Seq(Clis) /\ Len(a) = n /\ \A i \in 1 .. n : a[i] = s[i]
  BY <1>1, SubSeqProperties
<1>3. /\ b \in Seq(Clis) /\ Len(b) = Len(s) - n
      /\ \A i \in 1 .. Len(s) - n : b[i] = s[n + i]
  <2>1. \A i \in n + 1 .. Len(s) : s[i] \in Clis
    BY <1>1, ElementOfSeq
  <2>2. n + 1 \in Int /\ Len(s) \in Int
    BY <1>1
  <2>3. /\ b \in Seq(Clis)
        /\ Len(b) = IF n + 1 <= Len(s) THEN Len(s) - (n + 1) + 1 ELSE 0
        /\ \A i \in 1 .. Len(s) - (n + 1) + 1 : b[i] = s[n + 1 + i - 1]
    BY <2>1, <2>2, SubSeqProperties
  <2>4. Len(b) = Len(s) - n
    <3>1. Len(b) = IF n + 1 <= Len(s) THEN Len(s) - (n + 1) + 1 ELSE 0
      BY <2>3
    <3>2. n \in Int /\ Len(s) \in Int /\ n <= Len(s)
      BY <1>1
    <3> HIDE DEF b
    <3> QED BY <3>1, <3>2
  <2>5. ASSUME NEW i \in 1 .. Len(s) - n PROVE b[i] = s[n + i]
    <3>1. i \in 1 .. Len(s) - (n + 1) + 1 /\ n + 1 + i - 1 = n + i
      BY <1>1
    <3> QED BY <2>3, <3>1
  <2> QED BY <2>3, <2>4, <2>5
<1> HIDE DEF a, b
<1>4. DOMAIN a = 1 .. n /\ DOMAIN b = 1 .. Len(s) - n
  BY <1>2, <1>3, LenProperties
<1>5. \A i, j \in 1 .. Len(s) : s[i] = s[j] => i = j
  BY <1>1 DEF IsInjective
<1>6. IsInjective(b)
  <2> SUFFICES ASSUME NEW i \in 1 .. Len(s) - n, NEW j \in 1 .. Len(s) - n,
                      b[i] = b[j]
               PROVE  i = j
    BY <1>4 DEF IsInjective
  <2>1. n + i \in 1 .. Len(s) /\ n + j \in 1 .. Len(s)
    BY <1>1
  <2>2. n + i = n + j
    BY <1>3, <1>5, <2>1
  <2> QED BY <1>1, <2>2
<1>7. ToSet(a) \subseteq ToSet(s)
  BY <1>1, <1>2, <1>4 DEF ToSet
<1>8. ToSet(b) = ToSet(s) \ ToSet(a)
  <2>1. ASSUME NEW i \in 1 .. Len(s) - n PROVE b[i] \in ToSet(s) \ ToSet(a)
    <3>1. n + i \in 1 .. Len(s) /\ b[i] = s[n + i]
      BY <1>1, <1>3
    <3>2. ASSUME NEW j \in 1 .. n PROVE a[j] # b[i]
      <4>1. j \in 1 .. Len(s) /\ a[j] = s[j] /\ j # n + i
        BY <1>1, <1>2
      <4> QED BY <1>5, <3>1, <4>1
    <3> QED BY <1>1, <1>4, <3>1, <3>2 DEF ToSet
  <2>2. ASSUME NEW i \in 1 .. Len(s), s[i] \notin ToSet(a) PROVE s[i] \in ToSet(b)
    <3>1. i \notin 1 .. n
      BY <1>2, <1>4, <2>2 DEF ToSet
    <3>2. i - n \in 1 .. Len(s) - n /\ n + (i - n) = i
      BY <1>1, <3>1
    <3>3. b[i - n] = s[i]
      BY <1>3, <3>2
    <3> QED BY <1>4, <3>2, <3>3 DEF ToSet
  <2> QED BY <1>1, <1>4, <2>1, <2>2 DEF ToSet
<1> QED BY <1>3, <1>6, <1>7, <1>8 DEF a, b

\* Adding a client that is not on the list.
LEMMA AppendFacts ==
  ASSUME NEW s \in Seq(Clis), IsInjective(s), NEW c \in Clis, c \notin ToSet(s)
  PROVE  /\ Append(s, c) \in Seq(Clis) /\ Len(Append(s, c)) \in Nat
         /\ IsInjective(Append(s, c)) /\ ToSet(Append(s, c)) = ToSet(s) \union {c}
<1> DEFINE a == Append(s, c)
<1>1. Len(s) \in Nat /\ DOMAIN s = 1 .. Len(s)
  BY LenProperties
<1>2. /\ a \in Seq(Clis) /\ Len(a) = Len(s) + 1
      /\ \A i \in 1 .. Len(s) : a[i] = s[i]
      /\ a[Len(s) + 1] = c
  BY AppendProperties
<1> HIDE DEF a
<1>3. DOMAIN a = 1 .. Len(s) + 1
  BY <1>2, LenProperties
<1>4. \A i \in 1 .. Len(s) + 1 : i \in 1 .. Len(s) \/ i = Len(s) + 1
  BY <1>1
<1>5. \A i \in 1 .. Len(s) : i \in 1 .. Len(s) + 1 /\ a[i] # c
  BY <1>1, <1>2 DEF ToSet
<1>6. IsInjective(a)
  <2>1. \A i, j \in 1 .. Len(s) : s[i] = s[j] => i = j
    BY <1>1 DEF IsInjective
  <2> QED BY <1>2, <1>3, <1>4, <1>5, <2>1 DEF IsInjective
<1>7. ToSet(a) = ToSet(s) \union {c}
  <2>1. Len(s) + 1 \in 1 .. Len(s) + 1
    BY <1>1
  <2> QED BY <1>1, <1>2, <1>3, <1>4, <1>5, <2>1 DEF ToSet
<1> QED BY <1>1, <1>2, <1>6, <1>7 DEF a

\* A put that is not the last one, or of a NID client: nothing is freed.
LEMMA PutStep ==
  ASSUME IInv, NEW t \in Threads, cli_put(t),
         ~(th_type = "jobid" /\ tc_ref[res_cli[t]] = 1)
  PROVE  IInv'
<1>r. TypeOK /\ Refs /\ FreedRefs /\ Filed /\ LiveExact
  BY RefSplit DEF IInv
<1> PICK c : c = res_cli[t]
  OBVIOUS
<1>u. /\ res[t] = "held" /\ tc_ref' = [tc_ref EXCEPT ![c] = @ - 1]
      /\ UNCHANGED <<ntb_lru, hash, live, th_type>>
  BY DEF cli_put
<1>c. c \in Hashed /\ c \in Clis /\ tc_ref[c] >= 1 /\ tc_ref[c] \in Nat
  BY <1>u, <1>r, Base DEF IInv, ThreadInv, TypeOK
<1>1. hash' = [k \in Keys |-> IF hash[k] \in {} THEN None ELSE hash[k]]
  BY <1>r, <1>u DEF TypeOK
<1>2. /\ RefcountExact' /\ OneBucketPerKey' /\ ThreadInv' /\ NewInv' /\ StoppedInv'
      /\ Hashed' = Hashed \ {}
  <2>1. {} \in SUBSET Hashed /\ live' = live \ {} /\ ntb_lru' \in Seq(Clis)
    BY <1>r, <1>u DEF TypeOK
  <2>2. \A d \in {} : tc_ref'[d] = 0
    OBVIOUS
  <2> QED BY <1>1, <2>1, <2>2, PutCore
<1>3. LruExact'
  <2>1. /\ tc_ref'[c] = tc_ref[c] - 1
        /\ \A d \in Clis : d # c => tc_ref'[d] = tc_ref[d]
    BY <1>r, <1>u, <1>c DEF TypeOK
  <2>2. th_type = "jobid" => tc_ref[c] # 0 /\ tc_ref'[c] # 0
    BY <1>c, <2>1
  <2>3. \A d \in Hashed : d \in Clis
    BY Base
  <2>4. {d \in Hashed' : th_type' = "jobid" /\ tc_ref'[d] = 0}
          = {d \in Hashed : th_type = "jobid" /\ tc_ref[d] = 0}
    BY <1>u, <1>2, <2>1, <2>2, <2>3
  <2> QED BY <1>u, <2>4 DEF IInv, LruExact
<1> QED BY <1>2, <1>3 DEF IInv

\* The last put of a job id client: the LRU keeps its size, and only clients
\* that nobody uses are purged.
LEMMA LastPutStep ==
  ASSUME IInv, NEW t \in Threads, cli_put(t),
         th_type = "jobid", tc_ref[res_cli[t]] = 1
  PROVE  IInv'
<1>r. TypeOK /\ Refs /\ FreedRefs /\ Filed /\ LiveExact
  BY RefSplit DEF IInv
<1> PICK c : c = res_cli[t]
  OBVIOUS
<1> PICK lru : lru = Append(ntb_lru, c)
  OBVIOUS
<1> PICK n : n = Purged(lru)
  OBVIOUS
<1> PICK dead : dead = ToSet(SubSeq(lru, 1, n))
  OBVIOUS
<1>u. /\ res[t] = "held" /\ tc_ref' = [tc_ref EXCEPT ![c] = @ - 1]
      /\ ntb_lru' = SubSeq(lru, n + 1, Len(lru))
      /\ hash' = [k \in Keys |-> IF hash[k] \in dead THEN None ELSE hash[k]]
      /\ live' = live \ dead
      /\ UNCHANGED th_type
  BY DEF cli_put, LastPut
<1>c. c \in Hashed /\ c \in Clis /\ tc_ref[c] = 1
  BY <1>u, Base
<1>1. /\ tc_ref'[c] = 0
      /\ \A d \in Clis : d # c => tc_ref'[d] = tc_ref[d]
  BY <1>r, <1>u, <1>c DEF TypeOK
<1>2. /\ ntb_lru \in Seq(Clis) /\ IsInjective(ntb_lru)
      /\ ToSet(ntb_lru) = {d \in Hashed : tc_ref[d] = 0}
  BY <1>r DEF IInv, LruExact, TypeOK
<1>3. /\ lru \in Seq(Clis) /\ Len(lru) \in Nat /\ IsInjective(lru)
      /\ ToSet(lru) = ToSet(ntb_lru) \union {c}
  <2>1. c \notin ToSet(ntb_lru)
    BY <1>c, <1>2
  <2> QED BY <1>c, <1>2, <2>1, AppendFacts
<1>4. ToSet(lru) = {d \in Hashed : tc_ref'[d] = 0}
  BY <1>c, <1>1, <1>2, <1>3, Base
<1>5. IsFiniteSet(Hashed) /\ Cardinality(Hashed) \in Nat
      /\ Len(lru) <= Cardinality(Hashed)
  <2>1. IsFiniteSet(Hashed) /\ Cardinality(Hashed) \in Nat
    BY Base, CacheAssumption, FS_Subset, FS_CardinalityType
  <2>2. ToSet(lru) \subseteq Hashed
    BY <1>4
  <2>3. Cardinality(ToSet(lru)) <= Cardinality(Hashed)
    BY <2>1, <2>2, FS_Subset
  <2>4. Cardinality(ToSet(lru)) = Len(lru)
    BY <1>3, LenIsCardinality
  <2> QED BY <2>1, <2>3, <2>4
<1>6. n \in 0 .. Len(lru) /\ Len(lru) - n <= HighWater
  BY <1>3, <1>5, CacheAssumption DEF Purged
<1>7. /\ ntb_lru' \in Seq(Clis) /\ Len(ntb_lru') = Len(lru) - n
      /\ IsInjective(ntb_lru') /\ dead \subseteq ToSet(lru)
      /\ ToSet(ntb_lru') = ToSet(lru) \ dead
  BY <1>u, <1>3, <1>6, CutFacts
<1>8. /\ RefcountExact' /\ OneBucketPerKey' /\ ThreadInv' /\ NewInv' /\ StoppedInv'
      /\ Hashed' = Hashed \ dead
  <2>1. dead \in SUBSET Hashed /\ \A d \in dead : tc_ref'[d] = 0
    BY <1>4, <1>7
  <2>2. /\ hash' = [k \in Keys |-> IF hash[k] \in dead THEN None ELSE hash[k]]
        /\ live' = live \ dead /\ ntb_lru' \in Seq(Clis)
    BY <1>u, <1>7
  <2> QED BY <2>1, <2>2, PutCore
<1>9. LruExact'
  <2>1. ToSet(ntb_lru') = {d \in Hashed' : th_type' = "jobid" /\ tc_ref'[d] = 0}
    BY <1>u, <1>4, <1>7, <1>8
  <2> QED BY <1>6, <1>7, <2>1 DEF LruExact
<1> QED BY <1>8, <1>9 DEF IInv

-----------------------------------------------------------------------------
\* The invariant is inductive.
LEMMA Inductive == Spec => []IInv
<1>1. IInv /\ [Next]_vars => IInv'
  <2> SUFFICES ASSUME IInv, [Next]_vars PROVE IInv'
    OBVIOUS
  <2>1. ASSUME NEW t \in Threads, cli_findadd(t) PROVE IInv'
    BY <2>1, InsertStep, LoseRaceStep
  <2>2. ASSUME NEW t \in Threads, cli_put(t) PROVE IInv'
    BY <2>2, PutStep, LastPutStep
  <2>3. CASE UNCHANGED vars
    <3>1. Hashed' = Hashed /\ ItemRef' = ItemRef
      BY <2>3 DEF vars, Hashed, ItemRef
    <3>2. TypeOK' /\ Refs' /\ FreedRefs' /\ Filed' /\ LiveExact'
      <4>1. TypeOK /\ Refs /\ FreedRefs /\ Filed /\ LiveExact
        BY RefSplit DEF IInv
      <4>2. TypeOK'
        BY <2>3, <4>1 DEF vars, TypeOK
      <4>3. Refs'
        BY <2>3, <3>1, <4>1 DEF vars, Refs, Holders
      <4>4. FreedRefs' /\ Filed' /\ LiveExact'
        BY <2>3, <3>1, <4>1 DEF vars, FreedRefs, Filed, LiveExact
      <4> QED BY <4>2, <4>3, <4>4
    <3>3. LruExact'
      BY <2>3, <3>1 DEF vars, IInv, LruExact
    <3>4. OneBucketPerKey' /\ ThreadInv' /\ StoppedInv'
      BY <2>3, <3>1 DEF vars, IInv, OneBucketPerKey, ThreadInv, StoppedInv
    <3>5. NewInv'
      BY <2>3, <3>1 DEF vars, IInv, NewInv, Holders
    <3> QED BY <3>2, <3>3, <3>4, <3>5, RefSplit DEF IInv
  <2> QED BY <2>1, <2>2, <2>3, StartStep, FindStep, CliInitStep, AllocFailsStep,
             PutrefStep DEF Next
<1> QED BY InitIInv, <1>1, PTL DEF Spec

\* All requests of a key share one bucket, the hashed one, although two threads
\* may create clients for it at the same time.
THEOREM OneBucket == Spec => []OneBucketPerKey
<1>1. IInv => OneBucketPerKey
  BY DEF IInv
<1> QED BY <1>1, Inductive, PTL

\* Reference counts are exact, what is hashed is allocated, and nothing leaks.
THEOREM RefcountsExact == Spec => []RefcountExact
<1>1. IInv => RefcountExact
  BY DEF IInv
<1> QED BY <1>1, Inductive, PTL

\* The LRU holds exactly the unused clients, and at most HighWater of them.
THEOREM LruIsExact == Spec => []LruExact
<1>1. IInv => LruExact
  BY DEF IInv
<1> QED BY <1>1, Inductive, PTL
==============================================================================
