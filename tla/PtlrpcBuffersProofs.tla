------------------------- MODULE PtlrpcBuffersProofs -------------------------
(***************************************************************************)
(* Proofs about PtlrpcBuffers for every set of buffers and threads, every  *)
(* history length and every number of messages.                            *)
(***************************************************************************)
EXTENDS PtlrpcBuffers, FiniteSetTheorems, SequenceTheorems,
        WellFoundedInduction, TLAPS

\* Where a call of a function that is several steps long returns to.
Backs == {"none", "requests", "wait", "serve", "early", "handle", "last",
          "purge"}

\* The processes that hold a reference to request s.
Holders(s) ==
  {p \in Procs : s \in work[p] \/ (req[p] = s /\ pc[p] # "dropped")}

\* The requests that somebody may still reach for their own sake.
InUse ==
  {s \in Requests : \/ s \in waiting \union queued
                    \/ \E p \in Procs : s \in work[p] \/ req[p] = s}

\* Where a process is says what it has.
LocalInv ==
  \A p \in Procs :
    /\ req[p] # 0 <=> pc[p] \in {"taken", "sent", "drop", "dropped"}
    /\ rqbd[p] # None <=> pc[p] \in {"register", "cull"}
    /\ work[p] # {} => \/ pc[p] = "early"
                       \/ /\ pc[p] \in {"sent", "drop", "dropped", "cull"}
                          /\ back[p] = "early"
    /\ req[p] \notin work[p]
    /\ back[p] \in Backs

\* The thread that unregisters the service only drops requests.
UnregInv ==
  /\ pc[Unregister] \in {"none", "purge", "drop", "dropped", "cull", "free"}
  /\ back[Unregister] \in {"none", "purge"}

\* A request has a reference for each process that holds it and one for the
\* queue that it is in.  One that is taken in is in no queue, one that lost
\* its last reference is known to one process only.
RefInv ==
  /\ waiting \intersect queued = {}
  /\ \A s \in Requests :
       rq_refcount[s] = Cardinality(Holders(s))
                          + (IF s \in waiting \union queued THEN 1 ELSE 0)
  /\ \A p \in Procs :
       /\ pc[p] = "taken" => req[p] \notin waiting \union queued
       /\ pc[p] = "dropped" => rq_refcount[req[p]] = 0
       /\ \A q \in Procs :
            req[p] = req[q] /\ pc[p] = pc[q] /\ pc[p] \in {"taken", "dropped"}
              => p = q

\* The requests that are not freed: those in use, and the finished ones of the
\* buffers.  A request of a buffer that is being emptied is not listed.
LiveInv ==
  /\ \A s \in live : s <= scp_hist_seq /\ rq_rqbd[s] \in Buffers
  /\ \A s \in Requests :
       s \in InUse <=> s \in live /\ s \notin rqbd_reqs[rq_rqbd[s]]
  /\ timed \subseteq InUse
  /\ \A b \in Buffers : \A s \in rqbd_reqs[b] : s \in live /\ rq_rqbd[s] = b
  /\ scp_hist_reqs \subseteq live
  /\ \A p \in Culling : rqbd_reqs[rqbd[p]] \intersect scp_hist_reqs = {}
  /\ CursorSafe

\* The buffers that are being emptied.
Emptied == {rqbd[p] : p \in Culling}

\* Every buffer is in one place only.
PlaceInv ==
  /\ IsInjective(scp_rqbd_idle) /\ IsInjective(scp_hist_rqbds)
  /\ ToSet(scp_rqbd_idle) \intersect scp_rqbd_posted = {}
  /\ ToSet(scp_rqbd_idle) \intersect ToSet(scp_hist_rqbds) = {}
  /\ scp_rqbd_posted \intersect ToSet(scp_hist_rqbds) = {}
  /\ Emptied \intersect (ToSet(scp_rqbd_idle) \union scp_rqbd_posted
                           \union ToSet(scp_hist_rqbds)) = {}
  /\ \A p, q \in Culling \union Registering : rqbd[p] = rqbd[q] => p = q

\* A posted buffer is with the network or in use, or being offered.
PostedInv ==
  /\ attached \subseteq scp_rqbd_posted
  /\ \A t \in Registering :
       rqbd[t] \in scp_rqbd_posted \ attached /\ Holding(rqbd[t]) = {}
                                              /\ rqbd_reqs[rqbd[t]] = {}
  /\ \A b \in Buffers :
       /\ Holding(b) # {} => b \in scp_rqbd_posted
       /\ b \in scp_rqbd_posted => \/ b \in attached \/ Holding(b) # {}
                                   \/ \E t \in Registering : rqbd[t] = b
       /\ rqbd_reqs[b] # {} =>
            b \in scp_rqbd_posted \union ToSet(scp_hist_rqbds) \union Emptied

\* The references of the buffers and the requests embedded in them.
HeldInv ==
  /\ \A b \in Buffers :
       rqbd_refcount[b] = Cardinality(Holding(b))
                            + (IF b \in attached THEN 1 ELSE 0)
  /\ embedded \subseteq live
  /\ \A s \in live \intersect embedded :
       /\ rq_rqbd[s] \notin attached
       /\ \A u \in live \intersect embedded : rq_rqbd[s] = rq_rqbd[u] => s = u

CountInv ==
  /\ scp_nrqbds_total = Len(scp_rqbd_idle) + Cardinality(scp_rqbd_posted)
                          + Len(scp_hist_rqbds) + Cardinality(Culling)
  /\ scp_nrqbds_posted = Cardinality(attached) + Cardinality(Registering)

\* What is true as ptlrpc_unregister_service proceeds.
StopInv ==
  /\ stop \notin {"no", "threads"} =>
       \A t \in Threads : pc[t] = "exit"
  /\ stop \in {"no", "threads", "unlink"} => pc[Unregister] = "none"
  /\ stop \in {"purge", "purging", "lbug", "freed"} => scp_nrqbds_posted = 0
  /\ pc[Unregister] \in {"drop", "dropped", "cull"} => stop = "purging"
  /\ pc[Unregister] = "free" => scp_rqbd_posted = {} /\ scp_hist_rqbds = <<>>
  /\ stop = "freed" => scp_nrqbds_total = 0
  /\ \/ scp_hist_seq <= MaxMessages
     \/ /\ stop \notin {"no", "threads"}
        /\ scp_hist_seq + Cardinality(attached)
             <= MaxMessages + Cardinality(Buffers)

\* The inductive invariant.
IInv ==
  /\ BufferTypes /\ LocalInv /\ UnregInv /\ RefInv /\ LiveInv /\ PlaceInv
  /\ PostedInv /\ HeldInv /\ CountInv /\ StopInv

\* What the steps under scp_at_lock, and the unlocked test of rq_at_linked,
\* rely on: a request that is about to leave its buffer is not timed any more
\* and cannot become so, and ptlrpc_at_check_timed meets a request only once.
AtInv ==
  /\ at \in [Procs -> {"none", "check", "peek", "lost", "linked", "unlinked"}]
  /\ rq \in [Procs -> {0} \union Requests]
  /\ \A p \in Procs :
       /\ at[p] \in {"check", "peek", "lost"} => pc[p] = "early"
       /\ at[p] \in {"linked", "unlinked"} => pc[p] = "dropped"
       /\ at[p] = "unlinked" => req[p] \notin timed
       /\ at[p] = "peek" <=> rq[p] # 0
       /\ at[p] \in {"check", "peek"} => work[p] \intersect timed = {}
       /\ at[p] = "peek" => rq[p] \notin work[p] \union timed

-----------------------------------------------------------------------------
\* Facts about sets of numbers, cardinalities and lists of buffers.

\* A set of naturals that is not empty has a smallest element.
LEMMA MinFacts ==
  ASSUME NEW S \in SUBSET Nat, S # {}
  PROVE  Min(S) \in S /\ \A y \in S : Min(S) <= y
<1>1. PICK x \in S : \A y \in S : ~(<<y, x>> \in OpToRel(<, Nat))
  <2>1. IsWellFoundedOn(OpToRel(<, Nat), Nat)
    BY NatLessThanWellFounded
  <2> QED BY <2>1, WFMin
<1>2. \A y \in S : x <= y
  <2>1. \A a, b \in Nat : a < b => <<a, b>> \in OpToRel(<, Nat)
    BY DEF OpToRel
  <2> TAKE y \in S
  <2>2. x \in Nat /\ y \in Nat
    OBVIOUS
  <2>3. ~(y < x)
    BY <1>1, <2>1, <2>2
  <2> QED BY <2>2, <2>3
<1> QED BY <1>2 DEF Min

\* A bounded set of naturals that is not empty has a largest element.
LEMMA MaxFacts ==
  ASSUME NEW S \in SUBSET Nat, S # {}, NEW n \in Nat, \A x \in S : x <= n
  PROVE  Max(S) \in S /\ \A x \in S : x <= Max(S)
<1> DEFINE U == {y \in Nat : \A x \in S : x <= y}
           m == Min(U)
<1>1. m \in U /\ \A y \in U : m <= y
  <2>1. n \in U /\ U \in SUBSET Nat
    OBVIOUS
  <2> HIDE DEF U
  <2> QED BY <2>1, MinFacts
<1>2. m \in S
  <2>1. m \in Nat /\ \A x \in S : x <= m
    BY <1>1
  <2> HIDE DEF m
  <2>2. SUFFICES ASSUME m \notin S PROVE FALSE
    OBVIOUS
  <2>3. \A x \in S : x <= m - 1 /\ m - 1 \in Nat
    BY <2>1, <2>2
  <2>4. m - 1 \in U
    BY <2>3
  <2>5. m <= m - 1
    BY <1>1, <2>4
  <2> QED BY <2>1, <2>5
<1>3. \A x \in S : x <= m
  BY <1>1
<1> HIDE DEF m
<1>4. \A x \in S : m >= x
  BY <1>2, <1>3
<1>5. Max(S) \in S /\ \A x \in S : Max(S) >= x
  BY <1>2, <1>4 DEF Max
<1> QED BY <1>5

\* Two sets that differ in one element at most.
LEMMA CardMove ==
  ASSUME NEW S, IsFiniteSet(S), NEW T, NEW p, S \ {p} = T \ {p}
  PROVE  /\ IsFiniteSet(T) /\ Cardinality(S) \in Nat /\ Cardinality(T) \in Nat
         /\ Cardinality(T) + (IF p \in S THEN 1 ELSE 0)
              = Cardinality(S) + (IF p \in T THEN 1 ELSE 0)
<1> DEFINE R == S \ {p}
<1>1. IsFiniteSet(R) /\ p \notin R
  BY FS_RemoveElement
<1>2. S = (IF p \in S THEN R \union {p} ELSE R)
  OBVIOUS
<1>3. T = (IF p \in T THEN R \union {p} ELSE R)
  OBVIOUS
<1>4. Cardinality(R) \in Nat /\ Cardinality(R \union {p}) = Cardinality(R) + 1
      /\ IsFiniteSet(R \union {p})
  BY <1>1, FS_AddElement, FS_CardinalityType
<1> HIDE DEF R
<1>5. Cardinality(S) = Cardinality(R) + (IF p \in S THEN 1 ELSE 0)
  <2>1. CASE p \in S
    BY <1>2, <1>4, <2>1
  <2>2. CASE p \notin S
    <3>1. S = R
      BY <1>2, <2>2
    <3> QED BY <1>4, <2>2, <3>1
  <2> QED BY <2>1, <2>2
<1>6. Cardinality(T) = Cardinality(R) + (IF p \in T THEN 1 ELSE 0)
      /\ IsFiniteSet(T)
  <2>1. CASE p \in T
    BY <1>3, <1>4, <2>1
  <2>2. CASE p \notin T
    <3>1. T = R
      BY <1>3, <2>2
    <3> QED BY <1>1, <1>4, <2>2, <3>1
  <2> QED BY <2>1, <2>2
<1> QED BY <1>4, <1>5, <1>6

\* Only the empty set has no elements.
LEMMA CardZero ==
  ASSUME NEW S, IsFiniteSet(S)
  PROVE  /\ Cardinality(S) \in Nat
         /\ Cardinality(S) = 0 <=> S = {}
         /\ Cardinality({}) = 0
         /\ \A x : S = {x} => Cardinality(S) = 1
         /\ Cardinality(S) = 1 => \E x : S = {x}
  BY FS_CardinalityType, FS_EmptySet, FS_Singleton

\* A finite set has a subset of every smaller size.
LEMMA KSubsets ==
  ASSUME NEW S, IsFiniteSet(S), NEW k \in 0 .. Cardinality(S)
  PROVE  \E g \in SUBSET S : Cardinality(g) = k
<1>1. PICK f \in Bijection(1 .. Cardinality(S), S) : TRUE
  BY FS_CardinalityType DEF ExistsBijection
<1>2. Cardinality(S) \in Nat
  BY FS_CardinalityType
<1>3. 1 .. k \subseteq 1 .. Cardinality(S)
  BY <1>2
<1> DEFINE g == {f[n] : n \in 1 .. k}
           h == [n \in 1 .. k |-> f[n]]
<1>4. f \in [1 .. Cardinality(S) -> S]
      /\ \A a, b \in 1 .. Cardinality(S) : f[a] = f[b] => a = b
  BY <1>1 DEF Bijection, Injection, IsInjective
<1>5. g \in SUBSET S
  BY <1>3, <1>4
<1>6. h \in Bijection(1 .. k, g)
  <2>1. h \in [1 .. k -> g] /\ \A a, b \in 1 .. k : h[a] = h[b] => a = b
    BY <1>3, <1>4
  <2>2. \A x \in g : \E n \in 1 .. k : h[n] = x
    OBVIOUS
  <2> QED BY <2>1, <2>2 DEF Bijection, Injection, Surjection, IsInjective
<1>7. IsFiniteSet(1 .. k) /\ Cardinality(1 .. k) = k
  BY <1>2, FS_Interval
<1>8. Cardinality(g) = k
  BY <1>6, <1>7, FS_Bijection DEF ExistsBijection
<1> QED BY <1>5, <1>8

\* A buffer that is not on the list goes to its end.
LEMMA AppendFacts ==
  ASSUME NEW s \in Seq(Buffers), IsInjective(s), NEW c \in Buffers,
         c \notin ToSet(s)
  PROVE  /\ Append(s, c) \in Seq(Buffers) /\ Len(Append(s, c)) = Len(s) + 1
         /\ IsInjective(Append(s, c))
         /\ ToSet(Append(s, c)) = ToSet(s) \union {c}
<1> DEFINE a == Append(s, c)
<1>1. Len(s) \in Nat /\ DOMAIN s = 1 .. Len(s)
  BY LenProperties
<1>2. /\ a \in Seq(Buffers) /\ Len(a) = Len(s) + 1
      /\ \A j \in 1 .. Len(s) : a[j] = s[j]
      /\ a[Len(s) + 1] = c
  BY AppendProperties
<1> HIDE DEF a
<1>3. DOMAIN a = 1 .. Len(s) + 1
  BY <1>2, LenProperties
<1>4. \A j \in 1 .. Len(s) + 1 : j \in 1 .. Len(s) \/ j = Len(s) + 1
  BY <1>1
<1>5. \A j \in 1 .. Len(s) : j \in 1 .. Len(s) + 1 /\ a[j] # c
  BY <1>1, <1>2 DEF ToSet
<1>6. IsInjective(a)
  <2>1. \A j, k \in 1 .. Len(s) : s[j] = s[k] => j = k
    BY <1>1 DEF IsInjective
  <2> QED BY <1>2, <1>3, <1>4, <1>5, <2>1 DEF IsInjective
<1>7. ToSet(a) = ToSet(s) \union {c}
  <2>1. Len(s) + 1 \in 1 .. Len(s) + 1
    BY <1>1
  <2> QED BY <1>1, <1>2, <1>3, <1>4, <1>5, <2>1 DEF ToSet
<1> QED BY <1>2, <1>6, <1>7 DEF a

\* A buffer that is not on the list goes to its front.
LEMMA PushFacts ==
  ASSUME NEW s \in Seq(Buffers), IsInjective(s), NEW c \in Buffers,
         c \notin ToSet(s)
  PROVE  /\ <<c>> \o s \in Seq(Buffers) /\ Len(<<c>> \o s) = Len(s) + 1
         /\ IsInjective(<<c>> \o s)
         /\ ToSet(<<c>> \o s) = ToSet(s) \union {c}
<1> DEFINE a == <<c>> \o s
<1>1. Len(s) \in Nat /\ DOMAIN s = 1 .. Len(s)
  BY LenProperties
<1>2. /\ a \in Seq(Buffers) /\ Len(a) = Len(s) + 1
      /\ a[1] = c
      /\ \A j \in 1 .. Len(s) : a[j + 1] = s[j]
  <2>1. <<c>> \in Seq(Buffers) /\ Len(<<c>>) = 1 /\ <<c>>[1] = c
    OBVIOUS
  <2>2. /\ a \in Seq(Buffers) /\ Len(a) = 1 + Len(s)
        /\ \A j \in 1 .. 1 + Len(s) : a[j] = IF j <= 1 THEN <<c>>[j] ELSE s[j - 1]
    BY <2>1, ConcatProperties
  <2>3. \A j \in 1 .. Len(s) : j + 1 \in 1 .. 1 + Len(s) /\ ~(j + 1 <= 1)
                                 /\ j + 1 - 1 = j
    BY <1>1
  <2>4. 1 \in 1 .. 1 + Len(s) /\ 1 + Len(s) = Len(s) + 1
    BY <1>1
  <2> HIDE DEF a
  <2> QED BY <2>1, <2>2, <2>3, <2>4
<1> HIDE DEF a
<1>3. DOMAIN a = 1 .. Len(s) + 1
  BY <1>2, LenProperties
<1>4. \A j \in 1 .. Len(s) + 1 :
        j = 1 \/ (j - 1 \in 1 .. Len(s) /\ a[j] = s[j - 1] /\ a[j] # c)
  <2> TAKE j \in 1 .. Len(s) + 1
  <2>1. j = 1 \/ (j - 1 \in 1 .. Len(s) /\ (j - 1) + 1 = j)
    BY <1>1
  <2> QED BY <1>1, <1>2, <2>1 DEF ToSet
<1>5. IsInjective(a)
  <2>1. \A j, k \in 1 .. Len(s) : s[j] = s[k] => j = k
    BY <1>1 DEF IsInjective
  <2> SUFFICES ASSUME NEW j \in 1 .. Len(s) + 1, NEW k \in 1 .. Len(s) + 1,
                      a[j] = a[k]
               PROVE  j = k
    BY <1>3 DEF IsInjective
  <2>2. CASE j = 1 \/ k = 1
    BY <1>2, <1>4, <2>2
  <2>3. CASE j # 1 /\ k # 1
    <3>1. j - 1 = k - 1
      BY <1>4, <2>1, <2>3
    <3> QED BY <1>1, <3>1
  <2> QED BY <2>2, <2>3
<1>6. ToSet(a) = ToSet(s) \union {c}
  <2>1. \A j \in 1 .. Len(s) : j + 1 \in 1 .. Len(s) + 1
    BY <1>1
  <2>2. 1 \in 1 .. Len(s) + 1
    BY <1>1
  <2>3. ASSUME NEW x \in ToSet(a) PROVE x \in ToSet(s) \union {c}
    BY <1>1, <1>2, <1>3, <1>4 DEF ToSet
  <2>4. ASSUME NEW x \in ToSet(s) PROVE x \in ToSet(a)
    BY <1>1, <1>2, <1>3, <2>1 DEF ToSet
  <2>5. c \in ToSet(a)
    BY <1>2, <1>3, <2>2 DEF ToSet
  <2> QED BY <2>3, <2>4, <2>5
<1> QED BY <1>2, <1>5, <1>6 DEF a

\* The first buffer of a list is taken.
LEMMA TailFacts ==
  ASSUME NEW s \in Seq(Buffers), IsInjective(s), s # <<>>
  PROVE  /\ Tail(s) \in Seq(Buffers) /\ Len(Tail(s)) = Len(s) - 1
         /\ IsInjective(Tail(s))
         /\ Head(s) \in ToSet(s) /\ Head(s) \in Buffers
         /\ ToSet(Tail(s)) = ToSet(s) \ {Head(s)}
         /\ Len(s) > 0
<1> DEFINE a == Tail(s)
<1>1. Len(s) \in Nat /\ DOMAIN s = 1 .. Len(s) /\ Len(s) # 0
  BY LenProperties, EmptySeq
<1>2. /\ a \in Seq(Buffers) /\ Len(a) = Len(s) - 1
      /\ \A j \in 1 .. Len(s) - 1 : a[j] = s[j + 1]
      /\ Head(s) = s[1] /\ s[1] \in Buffers
  BY <1>1, HeadTailProperties, ElementOfSeq
<1> HIDE DEF a
<1>3. DOMAIN a = 1 .. Len(s) - 1
  BY <1>2, LenProperties
<1>4. \A j, k \in 1 .. Len(s) : s[j] = s[k] => j = k
  BY <1>1 DEF IsInjective
<1>5. \A j \in 1 .. Len(s) - 1 : j + 1 \in 1 .. Len(s) /\ j + 1 # 1
  BY <1>1
<1>6. 1 \in 1 .. Len(s)
  BY <1>1
<1>7. IsInjective(a)
  <2> SUFFICES ASSUME NEW j \in 1 .. Len(s) - 1, NEW k \in 1 .. Len(s) - 1,
                      a[j] = a[k]
               PROVE  j = k
    BY <1>3 DEF IsInjective
  <2>1. j + 1 = k + 1
    BY <1>2, <1>4, <1>5
  <2> QED BY <1>1, <2>1
<1>8. ToSet(a) = ToSet(s) \ {s[1]}
  <2>1. ASSUME NEW x \in ToSet(a) PROVE x \in ToSet(s) \ {s[1]}
    <3>1. PICK j \in 1 .. Len(s) - 1 : x = a[j]
      BY <1>3 DEF ToSet
    <3>2. x = s[j + 1] /\ j + 1 \in 1 .. Len(s) /\ j + 1 # 1
      BY <1>2, <1>5, <3>1
    <3>3. x # s[1]
      BY <1>4, <1>6, <3>2
    <3>4. x \in ToSet(s)
      BY <1>1, <3>2 DEF ToSet
    <3> QED BY <3>3, <3>4
  <2>2. ASSUME NEW x \in ToSet(s), x # s[1] PROVE x \in ToSet(a)
    <3>1. PICK j \in 1 .. Len(s) : x = s[j]
      BY <1>1 DEF ToSet
    <3>2. j - 1 \in 1 .. Len(s) - 1 /\ (j - 1) + 1 = j
      BY <1>1, <2>2, <3>1
    <3>3. x = a[j - 1]
      BY <1>2, <3>1, <3>2
    <3> QED BY <1>3, <3>2, <3>3 DEF ToSet
  <2> QED BY <2>1, <2>2
<1>9. s[1] \in ToSet(s)
  BY <1>1, <1>6 DEF ToSet
<1> QED BY <1>1, <1>2, <1>7, <1>8, <1>9 DEF a

\* A list without repetitions is as long as the set of its elements is large.
LEMMA LenIsCardinality ==
  ASSUME NEW s \in Seq(Buffers), IsInjective(s)
  PROVE  IsFiniteSet(ToSet(s)) /\ Cardinality(ToSet(s)) = Len(s)
<1>1. Len(s) \in Nat /\ DOMAIN s = 1 .. Len(s)
  BY LenProperties
<1>2. IsFiniteSet(1 .. Len(s)) /\ Cardinality(1 .. Len(s)) = Len(s)
  BY <1>1, FS_Interval
<1>3. s \in Bijection(1 .. Len(s), ToSet(s))
  <2>1. s \in [1 .. Len(s) -> ToSet(s)]
    BY <1>1 DEF ToSet
  <2>2. \A a, b \in 1 .. Len(s) : s[a] = s[b] => a = b
    BY <1>1 DEF IsInjective
  <2>3. \A c \in ToSet(s) : \E j \in 1 .. Len(s) : s[j] = c
    BY <1>1 DEF ToSet
  <2> QED BY <2>1, <2>2, <2>3 DEF Bijection, Injection, Surjection, IsInjective
<1>4. ExistsBijection(1 .. Len(s), ToSet(s))
  BY <1>3 DEF ExistsBijection
<1> QED BY <1>2, <1>4, FS_Bijection

LEMMA EmptyList == ToSet(<<>>) = {} /\ IsInjective(<<>>) /\ <<>> \in Seq(Buffers)
                   /\ Len(<<>>) = 0
  BY DEF ToSet, IsInjective

-----------------------------------------------------------------------------
LEMMA Constants ==
  /\ IsFiniteSet(Procs) /\ Threads \subseteq Procs /\ Unregister \in Procs
  /\ Unregister \notin Threads
  /\ Cardinality(Buffers) \in Nat /\ MaxMessages \in Nat
  /\ Requests \subseteq Nat /\ 0 \notin Requests /\ IsFiniteSet(Requests)
  /\ \A s \in Requests : s <= MaxMessages + Cardinality(Buffers)
  /\ None \notin Buffers /\ IsFiniteSet(Buffers)
  /\ srv_nbuf_per_group \in Nat
<1>1. IsFiniteSet(Procs) /\ Threads \subseteq Procs /\ Unregister \in Procs
  BY BuffersAssumption, FS_AddElement DEF Procs
<1>2. Cardinality(Buffers) \in Nat /\ MaxMessages \in Nat
  BY BuffersAssumption, FS_CardinalityType
<1>3. /\ Requests \subseteq Nat /\ 0 \notin Requests
      /\ \A s \in Requests : s <= MaxMessages + Cardinality(Buffers)
  BY <1>2 DEF Requests
<1>4. IsFiniteSet(Requests)
  BY <1>2, FS_Interval DEF Requests
<1> QED BY <1>1, <1>2, <1>3, <1>4, BuffersAssumption

\* The sets that are counted are finite.
LEMMA Finite ==
  ASSUME BufferTypes
  PROVE  /\ IsFiniteSet(Culling) /\ IsFiniteSet(Registering)
         /\ IsFiniteSet(attached) /\ IsFiniteSet(scp_rqbd_posted)
         /\ \A b : IsFiniteSet(Holding(b))
         /\ \A s : IsFiniteSet(Holders(s))
<1>1. Culling \in SUBSET Procs /\ Registering \in SUBSET Procs
  BY Constants DEF Culling, Registering
<1>2. attached \in SUBSET Buffers /\ scp_rqbd_posted \in SUBSET Buffers
  BY DEF BufferTypes
<1>3. ASSUME NEW b PROVE IsFiniteSet(Holding(b))
  <2>1. Holding(b) \in SUBSET Requests
    BY DEF Holding, BufferTypes
  <2> QED BY <2>1, Constants, FS_Subset
<1>4. ASSUME NEW s PROVE IsFiniteSet(Holders(s))
  <2>1. Holders(s) \in SUBSET Procs
    BY DEF Holders
  <2> QED BY <2>1, Constants, FS_Subset
<1> QED BY <1>1, <1>2, <1>3, <1>4, Constants, FS_Subset

\* What a buffer's requests in use are.
LEMMA HoldingInUse ==
  ASSUME BufferTypes, LiveInv
  PROVE  \A b \in Buffers : Holding(b) = {s \in InUse : rq_rqbd[s] = b}
<1>1. InUse \subseteq Requests /\ live \subseteq Requests
  BY DEF InUse, BufferTypes
<1> QED BY <1>1 DEF LiveInv, Holding

\* Initially the first group of buffers is with the network.
LEMMA InitIInv == Init => IInv
<1> SUFFICES ASSUME Init PROVE IInv
  OBVIOUS
<1> DEFINE group == CHOOSE g \in kSubset(srv_nbuf_per_group, Buffers) : TRUE
<1>1. group \in SUBSET Buffers /\ Cardinality(group) = srv_nbuf_per_group
  <2>1. \E g \in SUBSET Buffers : Cardinality(g) = srv_nbuf_per_group
    <3>1. srv_nbuf_per_group \in 0 .. Cardinality(Buffers)
      BY BuffersAssumption, Constants
    <3> QED BY <3>1, Constants, KSubsets
  <2>2. \E g \in kSubset(srv_nbuf_per_group, Buffers) : TRUE
    BY <2>1 DEF kSubset
  <2>3. group \in kSubset(srv_nbuf_per_group, Buffers)
    BY <2>2
  <2> HIDE DEF group
  <2> QED BY <2>3 DEF kSubset
<1>2. /\ scp_rqbd_idle = <<>> /\ scp_rqbd_posted = group
      /\ scp_hist_rqbds = <<>>
      /\ scp_nrqbds_posted = srv_nbuf_per_group
      /\ scp_nrqbds_total = srv_nbuf_per_group
      /\ scp_rqbd_allocating = 0 /\ scp_rqbd_timeout = FALSE /\ i = 0
      /\ rqbd_refcount = [b \in Buffers |-> IF b \in group THEN 1 ELSE 0]
      /\ rqbd_reqs = [b \in Buffers |-> {}]
      /\ attached = group
      /\ srv_hist_nrqbds_cpt_max = 0
      /\ scp_hist_seq = 0 /\ scp_hist_seq_culled = 0 /\ scp_hist_reqs = {}
      /\ rq_rqbd = [s \in Requests |-> None]
      /\ rq_refcount = [s \in Requests |-> 0]
      /\ embedded = {} /\ live = {}
      /\ waiting = {} /\ queued = {} /\ timed = {}
      /\ pc = [p \in Procs |-> IF p \in Threads THEN "wait" ELSE "none"]
      /\ rqbd = [p \in Procs |-> None]
      /\ req = [p \in Procs |-> 0]
      /\ work = [p \in Procs |-> {}]
      /\ back = [p \in Procs |-> "none"]
      /\ lwi = [t \in Threads |-> FALSE]
      /\ stop = "no"
  BY DEF Init
<1> HIDE DEF group, Init
<1>3. Registering = {} /\ Culling = {} /\ Emptied = {}
  BY <1>2, Constants DEF Registering, Culling, Emptied
<1>4. \A s \in Requests : Holders(s) = {} /\ s \notin InUse
  BY <1>2, Constants DEF Holders, InUse
<1>5. \A b \in Buffers : Holding(b) = {}
  BY <1>2 DEF Holding
<1>6. Cardinality({}) = 0
  BY FS_EmptySet
<1>7. BufferTypes
  <2>1. srv_nbuf_per_group \in Nat /\ 0 \in 0 .. srv_nbuf_per_group
    BY Constants
  <2>2. <<>> \in Seq(Buffers)
    OBVIOUS
  <2> QED BY <1>1, <1>2, <2>1, <2>2 DEF BufferTypes, Labels
<1>8. LocalInv /\ UnregInv
  BY <1>2, Constants DEF LocalInv, UnregInv, Backs
<1>9. RefInv
  <2>1. \A s \in Requests : Cardinality(Holders(s)) = 0 /\ rq_refcount[s] = 0
    BY <1>2, <1>4, <1>6
  <2>2. \A p \in Procs : pc[p] \notin {"taken", "dropped"}
    BY <1>2
  <2> QED BY <1>2, <2>1, <2>2 DEF RefInv
<1>10. LiveInv
  <2>1. CursorSafe
    BY <1>2 DEF CursorSafe
  <2> QED BY <1>2, <1>3, <1>4, <2>1 DEF LiveInv
<1>11. PlaceInv
  BY <1>2, <1>3, EmptyList DEF PlaceInv
<1>12. PostedInv
  BY <1>2, <1>3, <1>5 DEF PostedInv
<1>13. HeldInv
  <2>1. \A b \in Buffers : Cardinality(Holding(b)) = 0
    BY <1>5, <1>6
  <2> QED BY <1>2, <2>1 DEF HeldInv
<1>14. CountInv
  BY <1>1, <1>2, <1>3, <1>6, Constants, EmptyList DEF CountInv
<1>15. StopInv
  BY <1>2, Constants DEF StopInv
<1> QED BY <1>7, <1>8, <1>9, <1>10, <1>11, <1>12, <1>13, <1>14, <1>15 DEF IInv

-----------------------------------------------------------------------------
\* Steps that leave the buffers alone.

\* The state of the buffers.
placeVars == <<scp_rqbd_idle, scp_rqbd_posted, scp_hist_rqbds, attached, rqbd>>
countedVars == <<scp_nrqbds_posted, scp_nrqbds_total>>
holdVars == <<rqbd_refcount, rqbd_reqs, rq_rqbd, embedded, live>>
readVars == <<scp_hist_seq, scp_hist_seq_culled, scp_hist_reqs>>
storeVars == <<placeVars, countedVars, holdVars, readVars>>

\* A step that only passes requests on keeps what is known of the buffers.
LEMMA StoreKept ==
  ASSUME IInv, UNCHANGED storeVars,
         Registering' = Registering, Culling' = Culling, InUse' = InUse,
         timed' \subseteq InUse
  PROVE  /\ LiveInv' /\ PlaceInv' /\ PostedInv' /\ HeldInv' /\ CountInv'
<1>1. UNCHANGED placeVars /\ UNCHANGED countedVars /\ UNCHANGED holdVars
      /\ UNCHANGED readVars
  BY DEF storeVars
<1>2. Emptied' = Emptied
  BY <1>1 DEF Emptied, placeVars
<1>3. \A b : Holding(b)' = Holding(b)
  BY <1>1 DEF Holding, holdVars
<1>4. LiveInv'
  <2>1. CursorSafe'
    BY <1>1 DEF CursorSafe, IInv, LiveInv, readVars
  <2> QED BY <1>1, <2>1 DEF IInv, LiveInv, readVars, holdVars, placeVars
<1>5. PlaceInv'
  BY <1>1, <1>2 DEF IInv, PlaceInv, placeVars
<1>6. PostedInv'
  <2>1. UNCHANGED <<scp_rqbd_posted, scp_hist_rqbds, attached, rqbd, rqbd_reqs>>
    BY <1>1 DEF placeVars, holdVars
  <2> QED BY <1>2, <1>3, <2>1 DEF IInv, PostedInv
<1>7. HeldInv'
  BY <1>1, <1>3 DEF IInv, HeldInv, placeVars, holdVars
<1>8. CountInv'
  BY <1>1 DEF IInv, CountInv, placeVars, countedVars
<1> QED BY <1>4, <1>5, <1>6, <1>7, <1>8

\* The processes that have a buffer are the same if nobody begins or ends.
LEMMA SameHands ==
  ASSUME \A p \in Procs : /\ pc'[p] = "register" <=> pc[p] = "register"
                          /\ pc'[p] = "cull" <=> pc[p] = "cull"
  PROVE  Registering' = Registering /\ Culling' = Culling
<1>1. Threads \subseteq Procs
  BY Constants
<1> QED BY <1>1 DEF Registering, Culling

\* Places where a process has neither a request nor a buffer.
Light == Labels \ {"taken", "sent", "drop", "dropped", "register", "cull"}

controlVars == <<storeVars, req, work, waiting, queued, rq_refcount>>

\* A step that only moves processes which have nothing.
LEMMA ControlKept ==
  ASSUME IInv, UNCHANGED controlVars, timed' \subseteq timed,
         \A p \in Procs :
           \/ pc'[p] = pc[p] /\ back'[p] = back[p]
           \/ /\ pc[p] \in Light /\ pc'[p] \in Light
              /\ work[p] = {} /\ back'[p] \in Backs
  PROVE  /\ LocalInv' /\ RefInv' /\ LiveInv' /\ PlaceInv' /\ PostedInv'
         /\ HeldInv' /\ CountInv'
<1>1. UNCHANGED storeVars /\ UNCHANGED <<req, work, waiting, queued, rq_refcount>>
  BY DEF controlVars
<1>2. UNCHANGED rqbd
  BY <1>1 DEF storeVars, placeVars
<1>3. LocalInv'
  BY <1>1, <1>2 DEF IInv, LocalInv, Light
<1>4. \A s \in Requests : Holders(s)' = Holders(s)
  <2>1. \A p \in Procs : pc'[p] = "dropped" <=> pc[p] = "dropped"
    BY DEF Light
  <2> QED BY <1>1, <2>1 DEF Holders
<1>5. RefInv'
  <2>1. \A p \in Procs : /\ pc'[p] = "dropped" <=> pc[p] = "dropped"
                         /\ pc'[p] = "taken" <=> pc[p] = "taken"
    BY DEF Light
  <2> QED BY <1>1, <1>4, <2>1 DEF IInv, RefInv
<1>6. InUse' = InUse
  BY <1>1 DEF InUse
<1>7. Registering' = Registering /\ Culling' = Culling
  BY SameHands DEF Light
<1>8. timed' \subseteq InUse
  BY DEF IInv, LiveInv
<1> QED BY <1>1, <1>3, <1>5, <1>6, <1>7, <1>8, StoreKept

\* A thread that runs has not stopped: the purge has not begun.
LEMMA ThreadRuns ==
  ASSUME IInv, NEW t \in Threads, pc[t] # "exit"
  PROVE  stop \in {"no", "threads"} /\ pc[Unregister] = "none"
  BY DEF IInv, StopInv

\* What ptlrpc_unregister_service relies on is not touched by a thread.
LEMMA ThreadKeepsStop ==
  ASSUME IInv, NEW t \in Threads, pc[t] # "exit", UNCHANGED <<stop, scp_hist_seq>>,
         pc'[Unregister] = pc[Unregister], back'[Unregister] = back[Unregister]
  PROVE  UnregInv' /\ StopInv'
<1>1. stop \in {"no", "threads"} /\ pc[Unregister] = "none"
  BY ThreadRuns
<1>2. UnregInv'
  BY DEF IInv, UnregInv
<1>3. StopInv'
  BY <1>1 DEF IInv, StopInv
<1> QED BY <1>2, <1>3

\* A sleeping thread is woken, or none.
LEMMA Woken ==
  ASSUME IInv, NEW labels \in [Procs -> Labels], WakeUp(labels)
  PROVE  /\ pc' \in [Procs -> Labels] /\ lwi' \in [Threads -> BOOLEAN]
         /\ \A p \in Procs :
              \/ pc'[p] = labels[p]
              \/ p \in Threads /\ pc[p] = "asleep" /\ pc'[p] = "wait"
<1>1. lwi \in [Threads -> BOOLEAN] /\ Threads \subseteq Procs /\ "wait" \in Labels
  BY Constants DEF IInv, BufferTypes, Labels
<1>2. CASE \E t \in Threads : pc[t] = "asleep"
  <2>1. PICK t \in Threads : /\ pc[t] = "asleep"
                             /\ pc' = [labels EXCEPT ![t] = "wait"]
                             /\ lwi' = [lwi EXCEPT ![t] = FALSE]
    BY <1>2 DEF WakeUp
  <2> QED BY <1>1, <2>1
<1>3. CASE ~ \E t \in Threads : pc[t] = "asleep"
  BY <1>1, <1>3 DEF WakeUp
<1> QED BY <1>2, <1>3

-----------------------------------------------------------------------------
\* A thread that has nothing goes on.
LEMMA ThreadMoves ==
  ASSUME IInv, NEW t \in Threads, NEW l \in Light, NEW k \in Backs,
         pc[t] \in Light \ {"exit"}, work[t] = {},
         pc' = [pc EXCEPT ![t] = l],
         back' = back \/ back' = [back EXCEPT ![t] = k],
         UNCHANGED <<controlVars, timed, stop, srv_hist_nrqbds_cpt_max>>,
         scp_rqbd_allocating' \in {0, 1}, scp_rqbd_timeout' \in BOOLEAN,
         i' \in 0 .. srv_nbuf_per_group, lwi' \in [Threads -> BOOLEAN]
  PROVE  IInv'
<1>1. Threads \subseteq Procs /\ Unregister \in Procs \ Threads
  BY Constants
<1>2. /\ UNCHANGED storeVars
      /\ UNCHANGED <<placeVars, countedVars, holdVars, readVars>>
      /\ UNCHANGED <<req, work, waiting, queued, rq_refcount>>
  BY DEF controlVars, storeVars
<1>3. /\ pc \in [Procs -> Labels] /\ back \in [Procs -> Labels]
      /\ \A p \in Procs : back[p] \in Backs
  BY DEF IInv, BufferTypes, LocalInv
<1>4. BufferTypes'
  <2>1. pc' \in [Procs -> Labels] /\ back' \in [Procs -> Labels]
    <3>1. l \in Labels /\ k \in Labels
      BY DEF Light, Backs, Labels
    <3> QED BY <1>1, <1>3, <3>1
  <2> QED BY <1>2, <2>1 DEF IInv, BufferTypes, placeVars, countedVars, holdVars,
             readVars
<1>5. \A p \in Procs :
        \/ pc'[p] = pc[p] /\ back'[p] = back[p]
        \/ /\ pc[p] \in Light /\ pc'[p] \in Light
           /\ work[p] = {} /\ back'[p] \in Backs
  BY <1>1, <1>3
<1>6. /\ LocalInv' /\ RefInv' /\ LiveInv' /\ PlaceInv' /\ PostedInv'
      /\ HeldInv' /\ CountInv'
  BY <1>5, ControlKept
<1>7. UnregInv' /\ StopInv'
  <2>1. pc'[Unregister] = pc[Unregister] /\ back'[Unregister] = back[Unregister]
    BY <1>1, <1>3
  <2>2. UNCHANGED <<stop, scp_hist_seq>> /\ pc[t] # "exit"
    BY <1>2 DEF readVars
  <2> QED BY <2>1, <2>2, ThreadKeepsStop
<1> QED BY <1>4, <1>6, <1>7 DEF IInv

LEMMA WaitSleepKeeps ==
  ASSUME IInv, NEW t \in Threads, WaitSleep(t) PROVE IInv'
<1>1. t \in Procs
  BY Constants
<1>2. /\ pc[t] = "wait" /\ pc' = [pc EXCEPT ![t] = "asleep"]
      /\ lwi' = [lwi EXCEPT ![t] = scp_rqbd_timeout] /\ back' = back
      /\ UNCHANGED <<controlVars, timed, stop, srv_hist_nrqbds_cpt_max>>
      /\ UNCHANGED <<scp_rqbd_allocating, scp_rqbd_timeout, i>>
  BY DEF WaitSleep, Goto, bufferVars, listVars, countVars, bufVars, histVars,
         reqVars, queueVars, controlVars, storeVars, placeVars, countedVars,
         holdVars, readVars
<1>3. work[t] = {} /\ "asleep" \in Light /\ "wait" \in Light \ {"exit"}
      /\ "none" \in Backs
  BY <1>1, <1>2 DEF IInv, LocalInv, Light, Labels, Backs
<1>4. lwi' \in [Threads -> BOOLEAN] /\ scp_rqbd_allocating \in {0, 1}
      /\ scp_rqbd_timeout \in BOOLEAN /\ i \in 0 .. srv_nbuf_per_group
  BY <1>2 DEF IInv, BufferTypes
<1> QED BY <1>2, <1>3, <1>4, ThreadMoves

LEMMA WaitStopKeeps ==
  ASSUME IInv, NEW t \in Threads, WaitStop(t) PROVE IInv'
<1>1. t \in Procs
  BY Constants
<1>2. /\ pc[t] = "wait" /\ pc' = [pc EXCEPT ![t] = "exit"]
      /\ lwi' = lwi /\ back' = back
      /\ UNCHANGED <<controlVars, timed, stop, srv_hist_nrqbds_cpt_max>>
      /\ UNCHANGED <<scp_rqbd_allocating, scp_rqbd_timeout, i>>
  BY DEF WaitStop, Goto, bufferVars, listVars, countVars, bufVars, histVars,
         reqVars, queueVars, localVars, controlVars, storeVars, placeVars,
         countedVars, holdVars, readVars
<1>3. work[t] = {} /\ "exit" \in Light /\ "wait" \in Light \ {"exit"}
      /\ "none" \in Backs
  BY <1>1, <1>2 DEF IInv, LocalInv, Light, Labels, Backs
<1>4. lwi' \in [Threads -> BOOLEAN] /\ scp_rqbd_allocating \in {0, 1}
      /\ scp_rqbd_timeout \in BOOLEAN /\ i \in 0 .. srv_nbuf_per_group
  BY <1>2 DEF IInv, BufferTypes
<1> QED BY <1>2, <1>3, <1>4, ThreadMoves

\* ptlrpc_check_rqbd_pool, which all three ways to leave the wait end with.
LEMMA CheckPoolKeeps ==
  ASSUME IInv, NEW t \in Threads, pc[t] \in {"wait", "asleep"},
         ptlrpc_check_rqbd_pool(t),
         UNCHANGED <<controlVars, timed, stop, srv_hist_nrqbds_cpt_max, i>>,
         scp_rqbd_timeout' \in BOOLEAN, lwi' \in [Threads -> BOOLEAN]
  PROVE  IInv'
<1>1. t \in Procs
  BY Constants
<1>2. /\ work[t] = {} /\ pc[t] \in Light \ {"exit"} /\ "requests" \in Backs
      /\ scp_rqbd_allocating \in {0, 1} /\ i' \in 0 .. srv_nbuf_per_group
  BY <1>1 DEF IInv, BufferTypes, LocalInv, Light, Labels, Backs
<1>3. \E l \in Light : pc' = [pc EXCEPT ![t] = l]
  BY DEF ptlrpc_check_rqbd_pool, Goto, Light, Labels
<1>4. back' = back \/ back' = [back EXCEPT ![t] = "requests"]
  BY DEF ptlrpc_check_rqbd_pool
<1>5. scp_rqbd_allocating' \in {0, 1}
  BY <1>2 DEF ptlrpc_check_rqbd_pool
<1> QED BY <1>2, <1>3, <1>4, <1>5, ThreadMoves

LEMMA WaitEventKeeps ==
  ASSUME IInv, NEW t \in Threads, ptlrpc_wait_event(t) PROVE IInv'
<1>1. /\ pc[t] = "wait" /\ ptlrpc_check_rqbd_pool(t)
      /\ UNCHANGED <<controlVars, timed, stop, srv_hist_nrqbds_cpt_max, i>>
      /\ UNCHANGED <<scp_rqbd_timeout, lwi>>
  BY DEF ptlrpc_wait_event, listVars, bufVars, histVars, reqVars, queueVars,
         controlVars, storeVars, placeVars, countedVars, holdVars, readVars
<1>2. scp_rqbd_timeout \in BOOLEAN /\ lwi \in [Threads -> BOOLEAN]
  BY DEF IInv, BufferTypes
<1> QED BY <1>1, <1>2, CheckPoolKeeps

LEMMA RetryKeeps ==
  ASSUME IInv, NEW t \in Threads, ptlrpc_retry_rqbds(t) PROVE IInv'
<1>1. /\ pc[t] = "asleep" /\ ptlrpc_check_rqbd_pool(t)
      /\ UNCHANGED <<controlVars, timed, stop, srv_hist_nrqbds_cpt_max, i>>
      /\ scp_rqbd_timeout' = FALSE /\ lwi' = [lwi EXCEPT ![t] = FALSE]
  BY DEF ptlrpc_retry_rqbds, listVars, bufVars, histVars, reqVars, queueVars,
         controlVars, storeVars, placeVars, countedVars, holdVars, readVars
<1>2. lwi \in [Threads -> BOOLEAN]
  BY DEF IInv, BufferTypes
<1> QED BY <1>1, <1>2, CheckPoolKeeps

LEMMA AtTimerKeeps ==
  ASSUME IInv, NEW t \in Threads, ptlrpc_at_timer(t) PROVE IInv'
<1>1. /\ pc[t] = "asleep" /\ ptlrpc_check_rqbd_pool(t)
      /\ UNCHANGED <<controlVars, timed, stop, srv_hist_nrqbds_cpt_max, i>>
      /\ UNCHANGED scp_rqbd_timeout /\ lwi' = [lwi EXCEPT ![t] = FALSE]
  BY DEF ptlrpc_at_timer, listVars, bufVars, histVars, reqVars, queueVars,
         controlVars, storeVars, placeVars, countedVars, holdVars, readVars
<1>2. scp_rqbd_timeout \in BOOLEAN /\ lwi \in [Threads -> BOOLEAN]
  BY DEF IInv, BufferTypes
<1> QED BY <1>1, <1>2, CheckPoolKeeps

LEMMA GrowKeeps ==
  ASSUME IInv, NEW t \in Threads, NEW enomem \in BOOLEAN,
         ptlrpc_grow_req_bufs(t, enomem)
  PROVE  IInv'
<1>1. t \in Procs
  BY Constants
<1>2. /\ pc[t] = "alloc" /\ scp_rqbd_allocating' = 0 /\ i' = 0 /\ lwi' = lwi
      /\ UNCHANGED scp_rqbd_timeout
      /\ UNCHANGED <<controlVars, timed, stop, srv_hist_nrqbds_cpt_max>>
  BY DEF ptlrpc_grow_req_bufs, listVars, bufVars, histVars, reqVars, queueVars,
         controlVars, storeVars, placeVars, countedVars, holdVars, readVars
<1>3. /\ work[t] = {} /\ pc[t] \in Light \ {"exit"} /\ back[t] \in Backs
  BY <1>1, <1>2 DEF IInv, LocalInv, Light, Labels
<1>4. \E l \in Light : pc' = [pc EXCEPT ![t] = l]
  <2>1. back[t] \in Light /\ "post" \in Light
    BY <1>3 DEF Backs, Light, Labels
  <2> QED BY <2>1 DEF ptlrpc_grow_req_bufs, Return, Goto
<1>5. "none" \in Backs /\ (back' = back \/ back' = [back EXCEPT ![t] = "none"])
  BY DEF ptlrpc_grow_req_bufs, Return, Backs
<1>6. /\ scp_rqbd_allocating' \in {0, 1} /\ i' \in 0 .. srv_nbuf_per_group
      /\ scp_rqbd_timeout' \in BOOLEAN /\ lwi' \in [Threads -> BOOLEAN]
  BY <1>2, Constants DEF IInv, BufferTypes
<1> QED BY <1>2, <1>3, <1>4, <1>5, <1>6, ThreadMoves

LEMMA SetTimeoutKeeps ==
  ASSUME IInv, NEW t \in Threads, SetTimeout(t) PROVE IInv'
<1>1. t \in Procs
  BY Constants
<1>2. /\ pc[t] = "failed" /\ scp_rqbd_timeout' = TRUE
      /\ UNCHANGED <<lwi, scp_rqbd_allocating, i>>
      /\ UNCHANGED <<controlVars, timed, stop, srv_hist_nrqbds_cpt_max>>
      /\ pc' = [pc EXCEPT ![t] = back[t]] /\ back' = [back EXCEPT ![t] = "none"]
  BY DEF SetTimeout, Return, Goto, listVars, bufVars, histVars, reqVars,
         queueVars, controlVars, storeVars, placeVars, countedVars, holdVars,
         readVars
<1>3. /\ work[t] = {} /\ pc[t] \in Light \ {"exit"}
      /\ back[t] \in Light /\ "none" \in Backs
  <2>1. back[t] \in Backs
    BY <1>1 DEF IInv, LocalInv
  <2> QED BY <1>1, <1>2, <2>1 DEF IInv, LocalInv, Light, Labels, Backs
<1>4. /\ scp_rqbd_allocating' \in {0, 1} /\ i' \in 0 .. srv_nbuf_per_group
      /\ scp_rqbd_timeout' \in BOOLEAN /\ lwi' \in [Threads -> BOOLEAN]
  BY <1>2 DEF IInv, BufferTypes
<1> QED BY <1>2, <1>3, <1>4, ThreadMoves

LEMMA PostAtEndKeeps ==
  ASSUME IInv, NEW t \in Threads, PostAtEnd(t) PROVE IInv'
<1>1. t \in Procs
  BY Constants
<1>2. /\ \/ pc[t] \in {"serve", "requests", "handle", "last"}
         \/ pc[t] = "early" /\ work[t] = {}
      /\ UNCHANGED <<lwi, scp_rqbd_allocating, scp_rqbd_timeout, i>>
      /\ UNCHANGED <<controlVars, timed, stop, srv_hist_nrqbds_cpt_max>>
      /\ pc' = [pc EXCEPT ![t] = IF ptlrpc_rqbd_pending THEN "post" ELSE "wait"]
      /\ back' = [back EXCEPT ![t] = IF ptlrpc_rqbd_pending THEN "wait" ELSE @]
  BY DEF PostAtEnd, Serving, Replying, Goto, bufferVars, listVars, countVars, bufVars,
         histVars, reqVars, queueVars, controlVars, storeVars, placeVars,
         countedVars, holdVars, readVars
<1>3. /\ work[t] = {} /\ pc[t] \in Light \ {"exit"}
      /\ back[t] \in Backs /\ "wait" \in Backs
      /\ "wait" \in Light /\ "post" \in Light
  BY <1>1, <1>2 DEF IInv, LocalInv, Light, Labels, Backs
<1>4. /\ scp_rqbd_allocating' \in {0, 1} /\ i' \in 0 .. srv_nbuf_per_group
      /\ scp_rqbd_timeout' \in BOOLEAN /\ lwi' \in [Threads -> BOOLEAN]
  BY <1>2 DEF IInv, BufferTypes
<1>5. CASE ptlrpc_rqbd_pending
  <2>1. pc' = [pc EXCEPT ![t] = "post"] /\ back' = [back EXCEPT ![t] = "wait"]
    BY <1>2, <1>5
  <2> QED BY <1>2, <1>3, <1>4, <2>1, ThreadMoves
<1>6. CASE ~ptlrpc_rqbd_pending
  <2>1. pc' = [pc EXCEPT ![t] = "wait"] /\ back' = [back EXCEPT ![t] = back[t]]
    BY <1>2, <1>6
  <2> QED BY <1>2, <1>3, <1>4, <2>1, ThreadMoves
<1> QED BY <1>5, <1>6

LEMMA PostNoneKeeps ==
  ASSUME IInv, NEW t \in Threads, ptlrpc_server_post_idle_rqbds(t),
         scp_rqbd_idle = <<>>
  PROVE  IInv'
<1>1. t \in Procs
  BY Constants
<1>2. /\ pc[t] = "post"
      /\ UNCHANGED <<lwi, scp_rqbd_allocating, scp_rqbd_timeout, i>>
      /\ UNCHANGED <<controlVars, timed, stop, srv_hist_nrqbds_cpt_max>>
      /\ pc' = [pc EXCEPT ![t] = back[t]] /\ back' = [back EXCEPT ![t] = "none"]
  BY DEF ptlrpc_server_post_idle_rqbds, Return, Goto, listVars, bufVars,
         histVars, reqVars, queueVars, controlVars, storeVars, placeVars,
         countedVars, holdVars, readVars
<1>3. /\ work[t] = {} /\ pc[t] \in Light \ {"exit"}
      /\ back[t] \in Light /\ "none" \in Backs
  <2>1. back[t] \in Backs
    BY <1>1 DEF IInv, LocalInv
  <2> QED BY <1>1, <1>2, <2>1 DEF IInv, LocalInv, Light, Labels, Backs
<1>4. /\ scp_rqbd_allocating' \in {0, 1} /\ i' \in 0 .. srv_nbuf_per_group
      /\ scp_rqbd_timeout' \in BOOLEAN /\ lwi' \in [Threads -> BOOLEAN]
  BY <1>2 DEF IInv, BufferTypes
<1> QED BY <1>2, <1>3, <1>4, ThreadMoves

LEMMA HistoryLengthKeeps ==
  ASSUME IInv, NEW max \in HistMaxes, req_history_max_seq_write(max)
  PROVE  IInv'
<1>1. /\ srv_hist_nrqbds_cpt_max' = max
      /\ UNCHANGED <<pc, back, stop, timed, controlVars>>
      /\ UNCHANGED <<scp_rqbd_allocating, scp_rqbd_timeout, i, lwi>>
      /\ UNCHANGED <<placeVars, countedVars, holdVars, readVars>>
      /\ UNCHANGED <<req, work, waiting, queued, rq_refcount>>
  BY DEF req_history_max_seq_write, listVars, countVars, bufVars, histVars,
         reqVars, queueVars, localVars, controlVars, storeVars, placeVars,
         countedVars, holdVars, readVars
<1>2. BufferTypes'
  BY <1>1 DEF IInv, BufferTypes, placeVars, countedVars, holdVars, readVars
<1>3. /\ LocalInv' /\ RefInv' /\ LiveInv' /\ PlaceInv' /\ PostedInv'
      /\ HeldInv' /\ CountInv'
  BY <1>1, ControlKept
<1>4. UnregInv' /\ StopInv'
  BY <1>1 DEF IInv, UnregInv, StopInv, readVars, placeVars, countedVars
<1> QED BY <1>2, <1>3, <1>4 DEF IInv

LEMMA UnregisterKeeps ==
  ASSUME IInv, ptlrpc_unregister_service PROVE IInv'
<1>1. /\ stop = "no" /\ stop' = "threads"
      /\ lwi' = [t \in Threads |-> FALSE]
      /\ pc' = [p \in Procs |-> IF pc[p] = "asleep" THEN "wait" ELSE pc[p]]
      /\ UNCHANGED <<back, timed, controlVars>>
      /\ UNCHANGED <<scp_rqbd_allocating, scp_rqbd_timeout, i,
                     srv_hist_nrqbds_cpt_max>>
      /\ UNCHANGED <<placeVars, countedVars, holdVars, readVars>>
      /\ UNCHANGED <<req, work, waiting, queued, rq_refcount>>
  BY DEF ptlrpc_unregister_service, bufferVars, listVars, countVars, bufVars,
         histVars, reqVars, queueVars, controlVars, storeVars, placeVars,
         countedVars, holdVars, readVars
<1>2. \A p \in Procs : pc[p] \in Labels /\ back[p] \in Backs
  BY DEF IInv, BufferTypes, LocalInv
<1>3. BufferTypes'
  <2>1. pc' \in [Procs -> Labels] /\ lwi' \in [Threads -> BOOLEAN]
    BY <1>1, <1>2 DEF Labels
  <2> QED BY <1>1, <2>1 DEF IInv, BufferTypes, placeVars, countedVars, holdVars,
             readVars
<1>4. \A p \in Procs :
        \/ pc'[p] = pc[p] /\ back'[p] = back[p]
        \/ /\ pc[p] \in Light /\ pc'[p] \in Light
           /\ work[p] = {} /\ back'[p] \in Backs
  BY <1>1, <1>2 DEF IInv, LocalInv, Light, Labels
<1>5. /\ LocalInv' /\ RefInv' /\ LiveInv' /\ PlaceInv' /\ PostedInv'
      /\ HeldInv' /\ CountInv'
  BY <1>1, <1>4, ControlKept
<1>6. UnregInv' /\ StopInv'
  <2>1. pc[Unregister] = "none" /\ pc'[Unregister] = "none"
    BY <1>1, Constants DEF IInv, StopInv
  <2> QED BY <1>1, <2>1 DEF IInv, UnregInv, StopInv, readVars
<1> QED BY <1>3, <1>5, <1>6 DEF IInv

LEMMA UnlinkKeeps ==
  ASSUME IInv, ptlrpc_service_unlink_rqbd PROVE IInv'
<1>1. /\ stop = "threads" /\ \A t \in Threads : pc[t] = "exit"
      /\ stop' = "unlink" /\ srv_hist_nrqbds_cpt_max' = 0
      /\ UNCHANGED <<pc, back, timed, controlVars>>
      /\ UNCHANGED <<scp_rqbd_allocating, scp_rqbd_timeout, i, lwi>>
      /\ UNCHANGED <<placeVars, countedVars, holdVars, readVars>>
      /\ UNCHANGED <<req, work, waiting, queued, rq_refcount>>
  BY DEF ptlrpc_service_unlink_rqbd, listVars, countVars, bufVars, histVars,
         reqVars, queueVars, localVars, controlVars, storeVars, placeVars,
         countedVars, holdVars, readVars
<1>2. BufferTypes'
  BY <1>1 DEF IInv, BufferTypes, placeVars, countedVars, holdVars, readVars
<1>3. /\ LocalInv' /\ RefInv' /\ LiveInv' /\ PlaceInv' /\ PostedInv'
      /\ HeldInv' /\ CountInv'
  BY <1>1, ControlKept
<1>4. UnregInv' /\ StopInv'
  BY <1>1 DEF IInv, UnregInv, StopInv, readVars, placeVars, countedVars
<1> QED BY <1>2, <1>3, <1>4 DEF IInv

LEMMA UnlinkedKeeps ==
  ASSUME IInv, BuffersUnlinked PROVE IInv'
<1>1. /\ stop = "unlink" /\ scp_nrqbds_posted = 0 /\ stop' = "purge"
      /\ pc' = [pc EXCEPT ![Unregister] = "purge"]
      /\ UNCHANGED <<back, timed, controlVars, srv_hist_nrqbds_cpt_max>>
      /\ UNCHANGED <<scp_rqbd_allocating, scp_rqbd_timeout, i, lwi>>
      /\ UNCHANGED <<placeVars, countedVars, holdVars, readVars>>
      /\ UNCHANGED <<req, work, waiting, queued, rq_refcount>>
  BY DEF BuffersUnlinked, Goto, bufferVars, listVars, countVars, bufVars,
         histVars, reqVars, queueVars, localVars, controlVars, storeVars,
         placeVars, countedVars, holdVars, readVars
<1>2. pc[Unregister] = "none" /\ pc \in [Procs -> Labels]
      /\ "purge" \in Light /\ "none" \in Light /\ "purge" \in Labels
      /\ \A p \in Procs : back[p] \in Backs
  BY <1>1 DEF IInv, StopInv, BufferTypes, LocalInv, Light, Labels
<1>3. BufferTypes'
  <2>1. pc' \in [Procs -> Labels]
    BY <1>1, <1>2, Constants
  <2> QED BY <1>1, <2>1 DEF IInv, BufferTypes, placeVars, countedVars, holdVars,
             readVars
<1>4. work[Unregister] = {}
  BY <1>2, Constants DEF IInv, LocalInv
<1>5. \A p \in Procs :
        \/ pc'[p] = pc[p] /\ back'[p] = back[p]
        \/ /\ pc[p] \in Light /\ pc'[p] \in Light
           /\ work[p] = {} /\ back'[p] \in Backs
  BY <1>1, <1>2, <1>4
<1>6. /\ LocalInv' /\ RefInv' /\ LiveInv' /\ PlaceInv' /\ PostedInv'
      /\ HeldInv' /\ CountInv'
  BY <1>1, <1>5, ControlKept
<1>7. UnregInv' /\ StopInv'
  <2>1. pc'[Unregister] = "purge" /\ \A t \in Threads : pc'[t] = pc[t]
    BY <1>1, <1>2, Constants
  <2> QED BY <1>1, <2>1 DEF IInv, UnregInv, StopInv, readVars, placeVars,
             countedVars
<1> QED BY <1>3, <1>6, <1>7 DEF IInv

\* While requests are purged or buffers freed, nothing is posted.
LEMMA Purging ==
  ASSUME IInv, pc[Unregister] # "none"
  PROVE  /\ stop \in {"purge", "purging", "lbug", "freed"}
         /\ scp_nrqbds_posted = 0
         /\ attached = {} /\ Registering = {}
         /\ \A t \in Threads : /\ pc[t] = "exit" /\ req[t] = 0 /\ work[t] = {}
                               /\ rqbd[t] = None
<1>1. /\ stop \in {"purge", "purging", "lbug", "freed"}
      /\ scp_nrqbds_posted = 0
      /\ \A t \in Threads : pc[t] = "exit"
  BY DEF IInv, BufferTypes, StopInv
<1>2. attached = {} /\ Registering = {}
  <2>1. /\ Cardinality(attached) \in Nat /\ Cardinality(Registering) \in Nat
        /\ Cardinality(attached) + Cardinality(Registering) = 0
        /\ IsFiniteSet(attached) /\ IsFiniteSet(Registering)
    BY <1>1, Finite, CardZero DEF IInv, CountInv
  <2>2. Cardinality(attached) = 0 /\ Cardinality(Registering) = 0
    BY <2>1
  <2> QED BY <2>1, <2>2, CardZero
<1>3. \A t \in Threads : req[t] = 0 /\ work[t] = {} /\ rqbd[t] = None
  BY <1>1, Constants DEF IInv, LocalInv
<1> QED BY <1>1, <1>2, <1>3

LEMMA PurgeAssertsKeeps ==
  ASSUME IInv, PurgeAsserts PROVE IInv'
<1>1. /\ pc[Unregister] = "purge"
      /\ UNCHANGED <<back, timed, controlVars, srv_hist_nrqbds_cpt_max>>
      /\ UNCHANGED <<scp_rqbd_allocating, scp_rqbd_timeout, i, lwi>>
      /\ UNCHANGED <<placeVars, countedVars, holdVars, readVars>>
      /\ UNCHANGED <<req, work, waiting, queued, rq_refcount>>
      /\ \/ /\ scp_rqbd_posted = {} /\ scp_hist_rqbds = <<>>
            /\ pc' = [pc EXCEPT ![Unregister] = "free"] /\ stop' = stop
         \/ pc' = [pc EXCEPT ![Unregister] = "none"] /\ stop' = "lbug"
  BY DEF PurgeAsserts, Goto, bufferVars, listVars, countVars, bufVars,
         histVars, reqVars, queueVars, localVars, controlVars, storeVars,
         placeVars, countedVars, holdVars, readVars
<1>2. /\ pc \in [Procs -> Labels] /\ Unregister \in Procs \ Threads
      /\ Threads \subseteq Procs
      /\ {"purge", "none", "free"} \subseteq Light /\ Light \subseteq Labels
      /\ \A p \in Procs : back[p] \in Backs
  BY Constants DEF IInv, BufferTypes, LocalInv, Light, Labels
<1>3. PICK l \in {"none", "free"} : pc' = [pc EXCEPT ![Unregister] = l]
  BY <1>1
<1>4. BufferTypes'
  <2>1. pc' \in [Procs -> Labels]
    BY <1>2, <1>3
  <2> QED BY <1>1, <2>1 DEF IInv, BufferTypes, placeVars, countedVars, holdVars,
             readVars
<1>5. work[Unregister] = {}
  BY <1>1, <1>2 DEF IInv, LocalInv
<1>6. \A p \in Procs :
        \/ pc'[p] = pc[p] /\ back'[p] = back[p]
        \/ /\ pc[p] \in Light /\ pc'[p] \in Light
           /\ work[p] = {} /\ back'[p] \in Backs
  BY <1>1, <1>2, <1>3, <1>5
<1>7. /\ LocalInv' /\ RefInv' /\ LiveInv' /\ PlaceInv' /\ PostedInv'
      /\ HeldInv' /\ CountInv'
  BY <1>1, <1>6, ControlKept
<1>8. UnregInv' /\ StopInv'
  <2>1. pc'[Unregister] = l /\ \A t \in Threads : pc'[t] = pc[t]
    BY <1>2, <1>3
  <2>2. stop \in {"purge", "purging", "lbug", "freed"} /\ scp_nrqbds_posted = 0
    BY <1>1, Purging
  <2>3. UNCHANGED <<scp_nrqbds_posted, scp_nrqbds_total, scp_hist_seq, attached,
                    scp_rqbd_posted, scp_hist_rqbds>>
    BY <1>1 DEF readVars, placeVars, countedVars
  <2>4. UnregInv'
    BY <1>1, <2>1 DEF IInv, UnregInv
  <2>5. stop' \in {"purge", "purging", "lbug", "freed"}
    BY <1>1, <2>2
  <2>6. pc'[Unregister] = "free" => scp_rqbd_posted = {} /\ scp_hist_rqbds = <<>>
    BY <1>1, <1>2
  <2>7. stop' = "freed" => stop = "freed"
    BY <1>1
  <2>8. StopInv'
    BY <1>1, <2>1, <2>2, <2>3, <2>5, <2>6, <2>7 DEF IInv, StopInv
  <2> QED BY <2>4, <2>8
<1> QED BY <1>4, <1>7, <1>8 DEF IInv

-----------------------------------------------------------------------------
\* Steps that pass a request on.

\* Does process p hold request s, is s in a queue: as numbers.
Has(p, s) == IF s \in work[p] \/ (req[p] = s /\ pc[p] # "dropped") THEN 1 ELSE 0
InQueue(s) == IF s \in waiting \union queued THEN 1 ELSE 0

\* If only p takes or gives up references, the counts stay exact as long as
\* they change by what p and the queues gain and lose.
LEMMA RefsBalance ==
  ASSUME IInv, NEW p \in Procs, rq_refcount' \in [Requests -> Nat],
         \A q \in Procs \ {p} : /\ req'[q] = req[q] /\ work'[q] = work[q]
                                /\ pc'[q] = "dropped" <=> pc[q] = "dropped",
         \A s \in Requests :
           rq_refcount'[s] + Has(p, s) + InQueue(s)
             = rq_refcount[s] + Has(p, s)' + InQueue(s)'
  PROVE  \A s \in Requests :
           rq_refcount'[s] = Cardinality(Holders(s)')
                               + (IF s \in waiting' \union queued' THEN 1 ELSE 0)
<1> TAKE s \in Requests
<1>1. Holders(s) \ {p} = Holders(s)' \ {p}
  BY DEF Holders
<1>2. IsFiniteSet(Holders(s))
  BY Finite DEF IInv
<1>3. /\ Cardinality(Holders(s)) \in Nat /\ Cardinality(Holders(s)') \in Nat
      /\ Cardinality(Holders(s)') + (IF p \in Holders(s) THEN 1 ELSE 0)
           = Cardinality(Holders(s)) + (IF p \in Holders(s)' THEN 1 ELSE 0)
  BY <1>1, <1>2, CardMove
<1>4. /\ Has(p, s) = (IF p \in Holders(s) THEN 1 ELSE 0)
      /\ Has(p, s)' = (IF p \in Holders(s)' THEN 1 ELSE 0)
  BY DEF Has, Holders
<1>5. rq_refcount[s] = Cardinality(Holders(s)) + InQueue(s)
  BY DEF IInv, RefInv, InQueue
<1>6. /\ InQueue(s) \in {0, 1} /\ InQueue(s)' \in {0, 1}
      /\ Has(p, s) \in {0, 1} /\ Has(p, s)' \in {0, 1}
      /\ InQueue(s)' = IF s \in waiting' \union queued' THEN 1 ELSE 0
  BY DEF InQueue, Has
<1>7. /\ rq_refcount'[s] + Has(p, s) + InQueue(s)
           = rq_refcount[s] + Has(p, s)' + InQueue(s)'
      /\ rq_refcount'[s] \in Nat /\ rq_refcount[s] \in Nat
  BY DEF IInv, BufferTypes
<1>8. rq_refcount'[s] = Cardinality(Holders(s)') + InQueue(s)'
  <2> DEFINE h == Cardinality(Holders(s)) hn == Cardinality(Holders(s)')
             a == Has(p, s) an == Has(p, s)' q == InQueue(s) qn == InQueue(s)'
             r == rq_refcount[s] rn == rq_refcount'[s]
  <2>1. /\ h \in Nat /\ hn \in Nat /\ a \in {0, 1} /\ an \in {0, 1}
        /\ q \in {0, 1} /\ qn \in {0, 1} /\ r \in Nat /\ rn \in Nat
        /\ hn + a = h + an /\ r = h + q /\ rn + a + q = r + an + qn
    BY <1>3, <1>4, <1>5, <1>6, <1>7
  <2> HIDE DEF h, hn, a, an, q, qn, r, rn
  <2>2. rn = hn + qn
    BY <2>1
  <2> QED BY <2>2 DEF rn, hn, qn
<1> QED BY <1>6, <1>8

\* If p and the queues have the same requests between them, the same
\* requests are in use.
LEMMA SameInUse ==
  ASSUME NEW p \in Procs,
         \A q \in Procs \ {p} : req'[q] = req[q] /\ work'[q] = work[q],
         \A u \in Requests :
           u \in waiting \union queued \/ u \in work[p] \/ req[p] = u
             <=> u \in waiting' \union queued' \/ u \in work'[p] \/ req'[p] = u
  PROVE  InUse' = InUse
<1> DEFINE Other(u) == \E q \in Procs \ {p} : u \in work[q] \/ req[q] = u
<1>1. ASSUME NEW u \in Requests
      PROVE  /\ u \in InUse <=> \/ u \in waiting \union queued \/ u \in work[p]
                                \/ req[p] = u \/ Other(u)
             /\ u \in InUse' <=> \/ u \in waiting' \union queued' \/ u \in work'[p]
                                 \/ req'[p] = u \/ Other(u)
  BY <1>1 DEF InUse
<1> HIDE DEF Other
<1>2. \A u \in Requests : u \in InUse' <=> u \in InUse
  BY <1>1
<1>3. InUse \subseteq Requests /\ InUse' \subseteq Requests
  BY DEF InUse
<1> QED BY <1>2, <1>3

\* What holds after p passed a request on.
LEMMA Passes ==
  ASSUME IInv, NEW p \in Procs, pc[p] \notin {"register", "cull"},
         pc'[p] \notin {"register", "cull"},
         \A q \in Procs \ {p} :
           /\ req'[q] = req[q] /\ work'[q] = work[q] /\ back'[q] = back[q]
           /\ pc'[q] = pc[q] \/ (pc[q] = "asleep" /\ pc'[q] = "wait"),
         req'[p] # 0 <=> pc'[p] \in {"taken", "sent", "drop", "dropped"},
         work'[p] # {} => \/ pc'[p] = "early"
                          \/ pc'[p] \in {"sent", "drop", "dropped"}
                               /\ back'[p] = "early",
         req'[p] \notin work'[p], back'[p] \in Backs,
         UNCHANGED storeVars, InUse' = InUse, timed' \subseteq InUse
  PROVE  /\ LocalInv' /\ LiveInv' /\ PlaceInv' /\ PostedInv' /\ HeldInv'
         /\ CountInv'
<1>1. UNCHANGED rqbd
  BY DEF storeVars, placeVars
<1>2. LocalInv'
  <2> SUFFICES ASSUME NEW q \in Procs
               PROVE  (/\ req[q] # 0 <=> pc[q] \in {"taken", "sent", "drop", "dropped"}
                       /\ rqbd[q] # None <=> pc[q] \in {"register", "cull"}
                       /\ work[q] # {} =>
                            \/ pc[q] = "early"
                            \/ /\ pc[q] \in {"sent", "drop", "dropped", "cull"}
                               /\ back[q] = "early"
                       /\ req[q] \notin work[q]
                       /\ back[q] \in Backs)'
    BY DEF LocalInv
  <2>1. CASE q = p
    BY <1>1, <2>1 DEF IInv, LocalInv
  <2>2. CASE q # p
    BY <1>1, <2>2 DEF IInv, LocalInv
  <2> QED BY <2>1, <2>2
<1>3. Registering' = Registering /\ Culling' = Culling
  BY SameHands
<1>4. /\ LiveInv' /\ PlaceInv' /\ PostedInv' /\ HeldInv' /\ CountInv'
  BY <1>3, StoreKept
<1> QED BY <1>2, <1>4

passVars == <<storeVars, scp_rqbd_allocating, scp_rqbd_timeout, i,
              srv_hist_nrqbds_cpt_max>>

LEMMA PassTypes ==
  ASSUME IInv, UNCHANGED passVars,
         rq_refcount' \in [Requests -> Nat],
         waiting' \subseteq Requests, queued' \subseteq Requests,
         timed' \subseteq Requests,
         pc' \in [Procs -> Labels], back' \in [Procs -> Labels],
         req' \in [Procs -> {0} \union Requests],
         work' \in [Procs -> SUBSET Requests],
         lwi' \in [Threads -> BOOLEAN],
         stop' \in {"no", "threads", "unlink", "purge", "purging", "lbug", "freed"}
  PROVE  BufferTypes'
  BY DEF IInv, BufferTypes, passVars, storeVars, placeVars, countedVars, holdVars,
         readVars

\* ptlrpc_server_handle_req_in: a thread takes the queue's reference over.
LEMMA HandleReqInKeeps ==
  ASSUME IInv, NEW t \in Threads, ptlrpc_server_handle_req_in(t)
  PROVE  IInv'
<1> DEFINE s == Min(waiting)
<1>1. t \in Procs /\ Unregister \in Procs /\ Unregister # t
  BY Constants
<1>2. /\ pc[t] = "requests" /\ waiting # {}
      /\ req' = [req EXCEPT ![t] = s]
      /\ waiting' = waiting \ {s} /\ queued' = queued
      /\ timed' = timed \/ timed' = timed \union {s}
      /\ pc' = [pc EXCEPT ![t] = "taken"]
      /\ UNCHANGED <<passVars, rq_refcount, work, back, lwi, stop>>
      /\ UNCHANGED storeVars /\ UNCHANGED scp_hist_seq
  BY DEF ptlrpc_server_handle_req_in, Goto, bufferVars, listVars, countVars,
         bufVars, histVars, reqVars, passVars, storeVars, placeVars,
         countedVars, holdVars, readVars
<1>3. /\ pc \in [Procs -> Labels] /\ back \in [Procs -> Labels]
      /\ req \in [Procs -> {0} \union Requests]
      /\ work \in [Procs -> SUBSET Requests]
      /\ rq_refcount \in [Requests -> Nat]
      /\ waiting \subseteq Requests /\ queued \subseteq Requests
      /\ timed \subseteq Requests /\ lwi \in [Threads -> BOOLEAN]
      /\ stop \in {"no", "threads", "unlink", "purge", "purging", "lbug", "freed"}
  BY DEF IInv, BufferTypes
<1>4. s \in waiting /\ s \in Requests /\ s # 0 /\ s \notin queued
  <2>1. waiting \in SUBSET Nat
    BY <1>3, Constants
  <2>2. s \in waiting
    BY <1>2, <2>1, MinFacts
  <2> QED BY <1>3, <2>2, Constants DEF IInv, RefInv
<1> HIDE DEF s
<1>5. req[t] = 0 /\ work[t] = {} /\ back[t] \in Backs
  BY <1>1, <1>2 DEF IInv, LocalInv
<1>6. BufferTypes'
  <2>1. pc' \in [Procs -> Labels] /\ req' \in [Procs -> {0} \union Requests]
    BY <1>1, <1>2, <1>3, <1>4 DEF Labels
  <2>2. waiting' \subseteq Requests /\ timed' \subseteq Requests
    BY <1>2, <1>3, <1>4
  <2> QED BY <1>2, <1>3, <2>1, <2>2, PassTypes
<1>7. /\ req'[t] = s /\ work'[t] = {} /\ pc'[t] = "taken" /\ back'[t] = back[t]
      /\ \A q \in Procs \ {t} : /\ req'[q] = req[q] /\ work'[q] = work[q]
                                /\ pc'[q] = pc[q] /\ back'[q] = back[q]
  BY <1>1, <1>2, <1>3, <1>5
<1>8. InUse' = InUse
  <2>1. \A u \in Requests :
          u \in waiting \union queued \/ u \in work[t] \/ req[t] = u
            <=> u \in waiting' \union queued' \/ u \in work'[t] \/ req'[t] = u
    BY <1>2, <1>4, <1>5, <1>7, Constants
  <2> QED BY <1>1, <1>7, <2>1, SameInUse
<1>9. timed' \subseteq InUse
  BY <1>2, <1>4 DEF IInv, LiveInv, InUse
<1>10. RefInv'
  <2>1. ASSUME NEW u \in Requests
        PROVE  rq_refcount'[u] + Has(t, u) + InQueue(u)
                 = rq_refcount[u] + Has(t, u)' + InQueue(u)'
    <3>1. Has(t, u) = 0 /\ Has(t, u)' = IF u = s THEN 1 ELSE 0
      BY <1>4, <1>5, <1>7, Constants DEF Has
    <3>2. u # s => InQueue(u)' = InQueue(u)
      BY <1>2 DEF InQueue
    <3>3. u = s => InQueue(u) = 1 /\ InQueue(u)' = 0
      BY <1>2, <1>4 DEF InQueue
    <3>4. InQueue(u) \in {0, 1} /\ rq_refcount'[u] = rq_refcount[u]
          /\ rq_refcount[u] \in Nat
      BY <1>2, <1>3 DEF InQueue
    <3> QED BY <3>1, <3>2, <3>3, <3>4
  <2>2. \A u \in Requests :
          rq_refcount'[u] = Cardinality(Holders(u)')
                              + (IF u \in waiting' \union queued' THEN 1 ELSE 0)
    BY <1>1, <1>2, <1>3, <1>7, <2>1, RefsBalance
  <2>3. waiting' \intersect queued' = {}
    BY <1>2 DEF IInv, RefInv
  <2>4. \A p \in Procs : p # t /\ pc[p] = "taken" => req[p] # s
    BY <1>4 DEF IInv, RefInv
  <2>5. ASSUME NEW p \in Procs
        PROVE  /\ pc'[p] = "taken" => req'[p] \notin waiting' \union queued'
               /\ pc'[p] = "dropped" => rq_refcount'[req'[p]] = 0
               /\ \A q \in Procs :
                    req'[p] = req'[q] /\ pc'[p] = pc'[q]
                      /\ pc'[p] \in {"taken", "dropped"} => p = q
    BY <1>1, <1>2, <1>4, <1>7, <2>4 DEF IInv, RefInv
  <2> QED BY <2>2, <2>3, <2>5 DEF RefInv
<1>11. /\ LocalInv' /\ LiveInv' /\ PlaceInv' /\ PostedInv' /\ HeldInv'
       /\ CountInv'
  BY <1>1, <1>2, <1>4, <1>5, <1>7, <1>8, <1>9, Passes
<1>12. UnregInv' /\ StopInv'
  BY <1>1, <1>2, <1>7, ThreadKeepsStop
<1> QED BY <1>6, <1>10, <1>11, <1>12 DEF IInv

\* The types of the variables that such steps change.
LEMMA PassVarTypes ==
  ASSUME IInv
  PROVE  /\ pc \in [Procs -> Labels] /\ back \in [Procs -> Labels]
         /\ req \in [Procs -> {0} \union Requests]
         /\ work \in [Procs -> SUBSET Requests]
         /\ rq_refcount \in [Requests -> Nat]
         /\ waiting \subseteq Requests /\ queued \subseteq Requests
         /\ timed \subseteq Requests /\ lwi \in [Threads -> BOOLEAN]
         /\ stop \in {"no", "threads", "unlink", "purge", "purging", "lbug",
                      "freed"}
  BY DEF IInv, BufferTypes

\* ptlrpc_server_request_add: the queue gets the reference.
LEMMA RequestAddKeeps ==
  ASSUME IInv, NEW t \in Threads, ptlrpc_server_request_add(t)
  PROVE  IInv'
<1> DEFINE s == req[t]
<1>1. t \in Procs /\ Unregister \in Procs /\ Unregister # t
  BY Constants
<1>2. PICK next \in {"wait", "serve"} : WakeUp([pc EXCEPT ![t] = next])
  BY DEF ptlrpc_server_request_add
<1>3. /\ pc[t] = "taken" /\ queued' = queued \union {s} /\ waiting' = waiting
      /\ req' = [req EXCEPT ![t] = 0]
      /\ UNCHANGED <<passVars, rq_refcount, work, back, timed, stop>>
      /\ UNCHANGED storeVars /\ UNCHANGED scp_hist_seq
  BY DEF ptlrpc_server_request_add, bufferVars, listVars, countVars,
         bufVars, histVars, reqVars, passVars, storeVars, placeVars,
         countedVars, holdVars, readVars
<1>4. /\ pc' \in [Procs -> Labels] /\ lwi' \in [Threads -> BOOLEAN]
      /\ pc'[t] = next
      /\ \A q \in Procs \ {t} :
           pc'[q] = pc[q] \/ (pc[q] = "asleep" /\ pc'[q] = "wait")
  <2>1. [pc EXCEPT ![t] = next] \in [Procs -> Labels]
    BY <1>1, PassVarTypes DEF Labels
  <2>2. /\ pc' \in [Procs -> Labels] /\ lwi' \in [Threads -> BOOLEAN]
        /\ \A q \in Procs :
             \/ pc'[q] = [pc EXCEPT ![t] = next][q]
             \/ q \in Threads /\ pc[q] = "asleep" /\ pc'[q] = "wait"
    BY <1>2, <2>1, Woken
  <2> QED BY <1>1, <1>3, <2>2, PassVarTypes
<1>5. /\ s \in Requests /\ s # 0 /\ s \notin waiting \union queued
      /\ work[t] = {} /\ back[t] \in Backs
  BY <1>1, <1>3, PassVarTypes DEF IInv, LocalInv, RefInv
<1> HIDE DEF s
<1>6. BufferTypes'
  <2>1. req' \in [Procs -> {0} \union Requests]
    BY <1>1, <1>3, PassVarTypes
  <2>2. queued' \subseteq Requests
    BY <1>3, <1>5, PassVarTypes
  <2> QED BY <1>3, <1>4, <2>1, <2>2, PassTypes, PassVarTypes
<1>7. /\ req'[t] = 0 /\ work'[t] = {} /\ back'[t] = back[t]
      /\ \A q \in Procs \ {t} : /\ req'[q] = req[q] /\ work'[q] = work[q]
                                /\ back'[q] = back[q]
  BY <1>1, <1>3, <1>5, PassVarTypes
<1>8. InUse' = InUse
  <2>1. \A u \in Requests :
          u \in waiting \union queued \/ u \in work[t] \/ req[t] = u
            <=> u \in waiting' \union queued' \/ u \in work'[t] \/ req'[t] = u
    BY <1>3, <1>5, <1>7, Constants DEF s
  <2> QED BY <1>1, <1>7, <2>1, SameInUse
<1>9. timed' \subseteq InUse
  BY <1>3 DEF IInv, LiveInv
<1>10. RefInv'
  <2>1. ASSUME NEW u \in Requests
        PROVE  rq_refcount'[u] + Has(t, u) + InQueue(u)
                 = rq_refcount[u] + Has(t, u)' + InQueue(u)'
    <3>1. Has(t, u)' = 0 /\ Has(t, u) = IF u = s THEN 1 ELSE 0
      BY <1>3, <1>5, <1>7, Constants DEF Has, s
    <3>2. u # s => InQueue(u)' = InQueue(u)
      BY <1>3 DEF InQueue
    <3>3. u = s => InQueue(u) = 0 /\ InQueue(u)' = 1
      BY <1>3, <1>5 DEF InQueue
    <3>4. InQueue(u) \in {0, 1} /\ rq_refcount'[u] = rq_refcount[u]
          /\ rq_refcount[u] \in Nat
      BY <1>3, PassVarTypes DEF InQueue
    <3> QED BY <3>1, <3>2, <3>3, <3>4
  <2>2. \A u \in Requests :
          rq_refcount'[u] = Cardinality(Holders(u)')
                              + (IF u \in waiting' \union queued' THEN 1 ELSE 0)
    <3>1. \A q \in Procs \ {t} : /\ req'[q] = req[q] /\ work'[q] = work[q]
                                 /\ pc'[q] = "dropped" <=> pc[q] = "dropped"
      BY <1>4, <1>7
    <3> QED BY <1>1, <1>3, PassVarTypes, <2>1, <3>1, RefsBalance
  <2>3. waiting' \intersect queued' = {}
    BY <1>3, <1>5 DEF IInv, RefInv
  <2>4. \A p \in Procs \ {t} : pc[p] = "taken" => req[p] # s
    BY <1>1, <1>3 DEF IInv, RefInv, s
  <2>5. ASSUME NEW p \in Procs
        PROVE  /\ pc'[p] = "taken" => req'[p] \notin waiting' \union queued'
               /\ pc'[p] = "dropped" => rq_refcount'[req'[p]] = 0
               /\ \A q \in Procs :
                    req'[p] = req'[q] /\ pc'[p] = pc'[q]
                      /\ pc'[p] \in {"taken", "dropped"} => p = q
    <3>1. ASSUME NEW q \in Procs, pc'[q] \in {"taken", "dropped"}
          PROVE  q # t /\ pc'[q] = pc[q] /\ req'[q] = req[q]
      BY <1>4, <1>7, <3>1
    <3> QED BY <1>3, <2>4, <3>1 DEF IInv, RefInv
  <2> QED BY <2>2, <2>3, <2>5 DEF RefInv
<1>11. /\ LocalInv' /\ LiveInv' /\ PlaceInv' /\ PostedInv' /\ HeldInv'
       /\ CountInv'
  BY <1>1, <1>3, <1>4, <1>5, <1>7, <1>8, <1>9, Passes
<1>12. UnregInv' /\ StopInv'
  <2>1. pc[Unregister] = "none"
    BY <1>3, ThreadRuns
  <2> QED BY <1>1, <1>3, <1>4, <1>7, <2>1, ThreadKeepsStop
<1> QED BY <1>6, <1>10, <1>11, <1>12 DEF IInv

\* A thread that has a request keeps it.
LEMMA ThreadKeepsRequest ==
  ASSUME IInv, NEW t \in Threads, pc[t] \in {"taken", "sent"},
         work[t] # {} => back' = back,
         pc' = [pc EXCEPT ![t] = "drop"],
         NEW k \in Backs, back' = back \/ back' = [back EXCEPT ![t] = k],
         UNCHANGED <<controlVars, passVars, lwi, stop>>,
         timed' = timed \/ timed' = timed \union {req[t]}
  PROVE  IInv'
<1>1. t \in Procs /\ Unregister \in Procs /\ Unregister # t
  BY Constants
<1>2. /\ UNCHANGED <<req, work, waiting, queued, rq_refcount>>
      /\ UNCHANGED storeVars /\ UNCHANGED passVars /\ UNCHANGED scp_hist_seq
  BY DEF controlVars, storeVars, readVars
<1>3. /\ req[t] \in Requests /\ req[t] # 0 /\ req[t] \notin work[t]
      /\ work[t] # {} => back[t] = "early"
      /\ \A q \in Procs : back[q] \in Backs
  BY <1>1, PassVarTypes DEF IInv, LocalInv
<1>4. /\ pc' \in [Procs -> Labels] /\ back' \in [Procs -> Labels]
      /\ pc'[t] = "drop" /\ back'[t] \in Backs
      /\ work[t] # {} => back'[t] = "early"
      /\ \A q \in Procs \ {t} : pc'[q] = pc[q] /\ back'[q] = back[q]
  BY <1>1, <1>3, PassVarTypes DEF Labels, Backs
<1>5. BufferTypes'
  <2>1. timed' \subseteq Requests
    BY <1>3, PassVarTypes
  <2> QED BY <1>2, <1>4, <2>1, PassTypes, PassVarTypes
<1>6. InUse' = InUse
  BY <1>2 DEF InUse
<1>7. timed' \subseteq InUse
  BY <1>1, <1>3 DEF IInv, LiveInv, InUse
<1>8. RefInv'
  <2>1. \A q \in Procs : pc'[q] = "dropped" <=> pc[q] = "dropped"
    BY <1>4
  <2>2. \A u : Holders(u)' = Holders(u)
    BY <1>2, <2>1 DEF Holders
  <2>3. \A q \in Procs : pc'[q] \in {"taken", "dropped"} => pc'[q] = pc[q]
    BY <1>4
  <2> QED BY <1>2, <2>2, <2>3 DEF IInv, RefInv
<1>9. /\ LocalInv' /\ LiveInv' /\ PlaceInv' /\ PostedInv' /\ HeldInv'
      /\ CountInv'
  BY <1>1, <1>2, <1>3, <1>4, <1>6, <1>7, Passes
<1>10. UnregInv' /\ StopInv'
  BY <1>1, <1>2, <1>4, ThreadKeepsStop
<1> QED BY <1>5, <1>8, <1>9, <1>10 DEF IInv

LEMMA ReqInErrorKeeps ==
  ASSUME IInv, NEW t \in Threads, ReqInError(t) PROVE IInv'
<1>1. PICK next \in {"wait", "serve"} : back' = [back EXCEPT ![t] = next]
  BY DEF ReqInError
<1>2. /\ pc[t] = "taken" /\ pc' = [pc EXCEPT ![t] = "drop"] /\ timed' = timed
      /\ UNCHANGED <<controlVars, passVars, lwi, stop>>
  BY DEF ReqInError, Goto, bufferVars, listVars, countVars, bufVars, histVars,
         reqVars, queueVars, controlVars, passVars, storeVars, placeVars,
         countedVars, holdVars, readVars
<1>3. next \in Backs
  BY DEF Backs
<1>4. work[t] = {}
  BY <1>2, Constants DEF IInv, LocalInv
<1> QED BY <1>1, <1>2, <1>3, <1>4, ThreadKeepsRequest

LEMMA AddTimedKeeps ==
  ASSUME IInv, NEW t \in Threads, ptlrpc_at_add_timed(t) PROVE IInv'
<1>1. /\ pc[t] = "sent" /\ pc' = [pc EXCEPT ![t] = "drop"]
      /\ timed' = timed \union {req[t]} /\ back' = back
      /\ UNCHANGED <<controlVars, passVars, lwi, stop>>
  BY DEF ptlrpc_at_add_timed, Goto, bufferVars, listVars, countVars, bufVars,
         histVars, reqVars, queueVars, localVars, controlVars, passVars,
         storeVars, placeVars, countedVars, holdVars, readVars
<1>2. "none" \in Backs
  BY DEF Backs
<1> QED BY <1>1, <1>2, ThreadKeepsRequest

\* ptlrpc_at_check_timed begins.
LEMMA CheckTimedKeeps ==
  ASSUME IInv, NEW t \in Threads, ptlrpc_at_check_timed(t) PROVE IInv'
<1>1. t \in Procs
  BY Constants
<1>2. /\ pc[t] \in {"serve", "requests"} /\ pc' = [pc EXCEPT ![t] = "early"]
      /\ UNCHANGED <<lwi, back, scp_rqbd_allocating, scp_rqbd_timeout, i>>
      /\ UNCHANGED <<controlVars, timed, stop, srv_hist_nrqbds_cpt_max>>
  BY DEF ptlrpc_at_check_timed, Serving, Goto, bufferVars, listVars, countVars,
         bufVars, histVars, reqVars, queueVars, localVars, controlVars,
         storeVars, placeVars, countedVars, holdVars, readVars
<1>3. /\ work[t] = {} /\ pc[t] \in Light \ {"exit"} /\ "early" \in Light
      /\ "none" \in Backs
  BY <1>1, <1>2 DEF IInv, LocalInv, Light, Labels, Backs
<1>4. /\ scp_rqbd_allocating' \in {0, 1} /\ i' \in 0 .. srv_nbuf_per_group
      /\ scp_rqbd_timeout' \in BOOLEAN /\ lwi' \in [Threads -> BOOLEAN]
  BY <1>2 DEF IInv, BufferTypes
<1> QED BY <1>2, <1>3, <1>4, ThreadMoves

\* A step that at most takes requests off the timed list.
LEMMA AtStepKeeps ==
  ASSUME IInv, timed' \subseteq timed,
         UNCHANGED <<bufferVars, reqVars, queueVars, pc, localVars, stop>>
  PROVE  IInv'
<1>1. /\ UNCHANGED <<pc, back, rqbd, lwi, stop, srv_hist_nrqbds_cpt_max>>
      /\ UNCHANGED controlVars /\ UNCHANGED storeVars
      /\ UNCHANGED <<scp_rqbd_allocating, scp_rqbd_timeout, i>>
      /\ UNCHANGED <<placeVars, countedVars, holdVars, readVars>>
      /\ UNCHANGED <<req, work, waiting, queued, rq_refcount>>
  BY DEF bufferVars, listVars, countVars, bufVars, histVars, reqVars,
         queueVars, localVars, controlVars, storeVars, placeVars, countedVars,
         holdVars, readVars
<1>2. BufferTypes'
  BY <1>1 DEF IInv, BufferTypes, placeVars, countedVars, holdVars, readVars
<1>3. /\ LocalInv' /\ RefInv' /\ LiveInv' /\ PlaceInv' /\ PostedInv'
      /\ HeldInv' /\ CountInv'
  BY <1>1, ControlKept
<1>4. UnregInv' /\ StopInv'
  BY <1>1 DEF IInv, UnregInv, StopInv, placeVars, countedVars, readVars
<1> QED BY <1>2, <1>3, <1>4 DEF IInv

\* A request that has references is in use.
LEMMA ReferencedInUse ==
  ASSUME IInv, NEW s \in Requests, rq_refcount[s] # 0 PROVE s \in InUse
<1>1. IsFiniteSet(Holders(s))
  BY Finite DEF IInv
<1>2. rq_refcount[s] = Cardinality(Holders(s))
                         + (IF s \in waiting \union queued THEN 1 ELSE 0)
  BY DEF IInv, RefInv
<1>3. s \in waiting \union queued \/ Cardinality(Holders(s)) # 0
  BY <1>2
<1>4. s \in waiting \union queued \/ Holders(s) # {}
  BY <1>3, FS_EmptySet
<1> QED BY <1>4 DEF Holders, InUse

\* atomic_inc_not_zero: a reference to a request that still has one.  The
\* others are left alone.
LEMMA IncNotZeroKeeps ==
  ASSUME IInv, AtInv, NEW t \in Threads, atomic_inc_not_zero(t) PROVE IInv'
<1> DEFINE held == IF rq_refcount[rq[t]] > 0 THEN {rq[t]} ELSE {}
<1>1. t \in Procs /\ Unregister \in Procs /\ Unregister # t
  BY Constants
<1>2. /\ at[t] = "peek" /\ timed' = timed
      /\ rq_refcount' = [s \in Requests |-> IF s \in held
                           THEN rq_refcount[s] + 1 ELSE rq_refcount[s]]
      /\ work' = [work EXCEPT ![t] = @ \union held]
      /\ pc' = pc
      /\ UNCHANGED <<waiting, queued, req, back, lwi, stop>>
      /\ UNCHANGED passVars /\ UNCHANGED storeVars /\ UNCHANGED scp_hist_seq
  BY DEF atomic_inc_not_zero, bufferVars, listVars, countVars,
         bufVars, histVars, queueVars, passVars, storeVars, placeVars,
         countedVars, holdVars, readVars
<1>3. /\ pc[t] = "early" /\ rq[t] \in Requests /\ rq[t] \notin work[t]
  BY <1>1, <1>2 DEF AtInv
<1>4. held \subseteq InUse /\ held \subseteq Requests
      /\ held \intersect work[t] = {} /\ \A s \in held : rq_refcount[s] # 0
  BY <1>3, ReferencedInUse, PassVarTypes
<1> HIDE DEF held
<1>5. req[t] = 0 /\ back[t] \in Backs
  BY <1>1, <1>3 DEF IInv, LocalInv
<1>6. BufferTypes'
  <2>1. work' \in [Procs -> SUBSET Requests]
    BY <1>1, <1>2, <1>4, PassVarTypes
  <2>2. rq_refcount' \in [Requests -> Nat]
    BY <1>2, PassVarTypes
  <2> QED BY <1>2, <2>1, <2>2, PassTypes, PassVarTypes
<1>7. /\ req'[t] = 0 /\ work'[t] = work[t] \union held /\ pc'[t] = "early"
      /\ back'[t] = back[t]
      /\ \A q \in Procs \ {t} : /\ req'[q] = req[q] /\ work'[q] = work[q]
                                /\ pc'[q] = pc[q] /\ back'[q] = back[q]
  BY <1>1, <1>2, <1>3, <1>5, PassVarTypes
<1>8. InUse' = InUse
  <2>1. ASSUME NEW u \in InUse PROVE u \in InUse'
    <3>1. \/ u \in waiting \union queued
          \/ \E q \in Procs : u \in work[q] \/ req[q] = u
      BY DEF InUse
    <3>2. u \in Requests /\ u # 0
      BY Constants DEF InUse
    <3> QED BY <1>1, <1>2, <1>5, <1>7, <3>1, <3>2 DEF InUse
  <2>2. ASSUME NEW u \in InUse' PROVE u \in InUse
    <3>1. \/ u \in waiting \union queued
          \/ \E q \in Procs : u \in work'[q] \/ req'[q] = u
      BY <1>2 DEF InUse
    <3>2. u \in Requests /\ u # 0
      BY Constants DEF InUse
    <3> QED BY <1>1, <1>4, <1>7, <3>1, <3>2 DEF InUse
  <2> QED BY <2>1, <2>2
<1>9. timed' \subseteq InUse
  BY <1>2 DEF IInv, LiveInv
<1>10. RefInv'
  <2>1. ASSUME NEW u \in Requests
        PROVE  rq_refcount'[u] + Has(t, u) + InQueue(u)
                 = rq_refcount[u] + Has(t, u)' + InQueue(u)'
    <3>1. /\ Has(t, u) = IF u \in work[t] THEN 1 ELSE 0
          /\ Has(t, u)' = IF u \in work[t] \union held THEN 1 ELSE 0
      BY <1>5, <1>7, Constants DEF Has
    <3>2. InQueue(u)' = InQueue(u) /\ InQueue(u) \in {0, 1}
      BY <1>2 DEF InQueue
    <3>3. rq_refcount[u] \in Nat
          /\ rq_refcount'[u] = IF u \in held THEN rq_refcount[u] + 1
                                             ELSE rq_refcount[u]
      BY <1>2, PassVarTypes
    <3>4. u \in held => u \notin work[t]
      BY <1>4
    <3> QED BY <3>1, <3>2, <3>3, <3>4
  <2>2. \A u \in Requests :
          rq_refcount'[u] = Cardinality(Holders(u)')
                              + (IF u \in waiting' \union queued' THEN 1 ELSE 0)
    <3>1. rq_refcount' \in [Requests -> Nat]
      BY <1>6 DEF BufferTypes
    <3> QED BY <1>1, <1>7, <2>1, <3>1, RefsBalance
  <2>3. ASSUME NEW p \in Procs
        PROVE  /\ pc'[p] = "taken" => req'[p] \notin waiting' \union queued'
               /\ pc'[p] = "dropped" => rq_refcount'[req'[p]] = 0
               /\ \A q \in Procs :
                    req'[p] = req'[q] /\ pc'[p] = pc'[q]
                      /\ pc'[p] \in {"taken", "dropped"} => p = q
    <3>1. ASSUME NEW q \in Procs, pc'[q] \in {"taken", "dropped"}
          PROVE  /\ q # t /\ pc'[q] = pc[q] /\ req'[q] = req[q]
                 /\ req[q] \in Requests
      <4>1. q # t /\ pc'[q] = pc[q] /\ req'[q] = req[q]
        BY <1>7, <3>1
      <4> QED BY <3>1, <4>1, PassVarTypes DEF IInv, LocalInv
    <3>2. pc'[p] = "dropped" => rq_refcount[req[p]] = 0
      BY <3>1 DEF IInv, RefInv
    <3>3. pc'[p] = "dropped" => rq_refcount'[req'[p]] = 0
      BY <1>2, <1>4, <3>1, <3>2
    <3> QED BY <1>2, <3>1, <3>3 DEF IInv, RefInv
  <2>4. waiting' \intersect queued' = {}
    BY <1>2 DEF IInv, RefInv
  <2> QED BY <2>2, <2>3, <2>4 DEF RefInv
<1>11. /\ LocalInv' /\ LiveInv' /\ PlaceInv' /\ PostedInv' /\ HeldInv'
       /\ CountInv'
  <2>1. req'[t] \notin work'[t]
    BY <1>6, <1>7, Constants DEF BufferTypes
  <2> QED BY <1>1, <1>2, <1>3, <1>5, <1>7, <1>8, <1>9, <2>1, Passes
<1>12. UnregInv' /\ StopInv'
  BY <1>1, <1>2, <1>3, <1>7, ThreadKeepsStop
<1> QED BY <1>6, <1>10, <1>11, <1>12 DEF IInv

\* ptlrpc_at_send_early_reply: the thread has the request's reference already.
LEMMA SendEarlyKeeps ==
  ASSUME IInv, NEW t \in Threads, NEW s \in work[t],
         ptlrpc_at_send_early_reply(t, s)
  PROVE  IInv'
<1>1. t \in Procs /\ Unregister \in Procs /\ Unregister # t
  BY Constants
<1>2. /\ pc[t] = "early" /\ work' = [work EXCEPT ![t] = @ \ {s}]
      /\ req' = [req EXCEPT ![t] = s]
      /\ back' = [back EXCEPT ![t] = IF work'[t] = {} THEN "handle" ELSE "early"]
      /\ \E l \in {"sent", "drop"} : pc' = [pc EXCEPT ![t] = l]
      /\ UNCHANGED <<waiting, queued, rq_refcount, timed, lwi, stop>>
      /\ UNCHANGED passVars /\ UNCHANGED storeVars /\ UNCHANGED scp_hist_seq
  BY DEF ptlrpc_at_send_early_reply, Replying, Goto, bufferVars, listVars, countVars,
         bufVars, histVars, reqVars, queueVars, passVars, storeVars, placeVars,
         countedVars, holdVars, readVars
<1>3. PICK l \in {"sent", "drop"} : pc' = [pc EXCEPT ![t] = l]
  BY <1>2
<1>4. req[t] = 0 /\ s \in Requests /\ s # 0
  BY <1>1, <1>2, PassVarTypes, Constants DEF IInv, LocalInv
<1>5. /\ req'[t] = s /\ work'[t] = work[t] \ {s} /\ pc'[t] = l
      /\ back'[t] = (IF work'[t] = {} THEN "handle" ELSE "early")
      /\ \A q \in Procs \ {t} : /\ req'[q] = req[q] /\ work'[q] = work[q]
                                /\ pc'[q] = pc[q] /\ back'[q] = back[q]
  BY <1>1, <1>2, <1>3, PassVarTypes
<1>6. BufferTypes'
  <2>1. pc' \in [Procs -> Labels] /\ back' \in [Procs -> Labels]
    BY <1>1, <1>2, <1>3, PassVarTypes DEF Labels
  <2>2. work' \in [Procs -> SUBSET Requests]
        /\ req' \in [Procs -> {0} \union Requests]
    BY <1>1, <1>2, <1>4, PassVarTypes
  <2> QED BY <1>2, <2>1, <2>2, PassTypes, PassVarTypes
<1>7. InUse' = InUse
  <2>1. \A u \in Requests :
          u \in waiting \union queued \/ u \in work[t] \/ req[t] = u
            <=> u \in waiting' \union queued' \/ u \in work'[t] \/ req'[t] = u
    BY <1>2, <1>4, <1>5, Constants
  <2> QED BY <1>1, <1>5, <2>1, SameInUse
<1>8. timed' \subseteq InUse
  BY <1>2 DEF IInv, LiveInv
<1>9. RefInv'
  <2>1. ASSUME NEW u \in Requests PROVE Holders(u)' = Holders(u)
    <3>1. u # 0
      BY Constants
    <3>2. \A q \in Procs : q \in Holders(u)' <=> q \in Holders(u)
      BY <1>2, <1>4, <1>5, <3>1 DEF Holders
    <3> QED BY <3>2 DEF Holders
  <2>2. ASSUME NEW q \in Procs, pc'[q] \in {"taken", "dropped"}
        PROVE  q # t /\ pc'[q] = pc[q] /\ req'[q] = req[q]
    BY <1>5, <2>2
  <2> QED BY <1>2, <2>1, <2>2 DEF IInv, RefInv
<1>10. /\ LocalInv' /\ LiveInv' /\ PlaceInv' /\ PostedInv' /\ HeldInv'
       /\ CountInv'
  <2>1. back'[t] \in Backs /\ req'[t] \notin work'[t]
        /\ (work'[t] # {} => back'[t] = "early")
    BY <1>5 DEF Backs
  <2> QED BY <1>1, <1>2, <1>4, <1>5, <1>7, <1>8, <2>1, Passes
<1>11. UnregInv' /\ StopInv'
  BY <1>1, <1>2, <1>5, ThreadKeepsStop
<1> QED BY <1>6, <1>9, <1>10, <1>11 DEF IInv

\* A process takes a request from a queue, with its reference, to drop it.
LEMMA FetchKeeps ==
  ASSUME IInv, NEW p \in Procs, NEW s \in waiting \union queued,
         pc[p] \in Light, work[p] = {}, NEW k \in Backs,
         waiting' = waiting \ {s}, queued' = queued \ {s},
         req' = [req EXCEPT ![p] = s], back' = [back EXCEPT ![p] = k],
         pc' = [pc EXCEPT ![p] = "drop"],
         UNCHANGED <<rq_refcount, timed, work, lwi, passVars, storeVars>>,
         stop' \in {stop, "purging"}
  PROVE  /\ BufferTypes' /\ LocalInv' /\ RefInv' /\ LiveInv' /\ PlaceInv'
         /\ PostedInv' /\ HeldInv' /\ CountInv'
<1>1. UNCHANGED <<rq_refcount, timed, work, lwi>> /\ UNCHANGED passVars
      /\ UNCHANGED storeVars
  OBVIOUS
<1>2. req[p] = 0 /\ s \in Requests /\ s # 0
  BY PassVarTypes, Constants DEF IInv, LocalInv, Light
<1>3. /\ req'[p] = s /\ work'[p] = {} /\ pc'[p] = "drop" /\ back'[p] = k
      /\ \A q \in Procs \ {p} : /\ req'[q] = req[q] /\ work'[q] = work[q]
                                /\ pc'[q] = pc[q] /\ back'[q] = back[q]
  BY <1>1, PassVarTypes
<1>4. BufferTypes'
  <2>1. pc' \in [Procs -> Labels] /\ back' \in [Procs -> Labels]
    BY PassVarTypes DEF Labels, Backs
  <2>2. req' \in [Procs -> {0} \union Requests]
    BY <1>2, PassVarTypes
  <2>3. waiting' \subseteq Requests /\ queued' \subseteq Requests
    BY PassVarTypes
  <2>4. stop' \in {"no", "threads", "unlink", "purge", "purging", "lbug", "freed"}
    BY PassVarTypes
  <2> QED BY <1>1, <2>1, <2>2, <2>3, <2>4, PassTypes, PassVarTypes
<1>5. InUse' = InUse
  <2>1. \A u \in Requests :
          u \in waiting \union queued \/ u \in work[p] \/ req[p] = u
            <=> u \in waiting' \union queued' \/ u \in work'[p] \/ req'[p] = u
    BY <1>2, <1>3, Constants
  <2> QED BY <1>3, <2>1, SameInUse
<1>6. timed' \subseteq InUse
  BY <1>1 DEF IInv, LiveInv
<1>7. RefInv'
  <2>1. ASSUME NEW u \in Requests
        PROVE  rq_refcount'[u] + Has(p, u) + InQueue(u)
                 = rq_refcount[u] + Has(p, u)' + InQueue(u)'
    <3>1. Has(p, u) = 0 /\ Has(p, u)' = IF u = s THEN 1 ELSE 0
      BY <1>2, <1>3, Constants DEF Has
    <3>2. u # s => InQueue(u)' = InQueue(u)
      BY DEF InQueue
    <3>3. u = s => InQueue(u) = 1 /\ InQueue(u)' = 0
      BY DEF InQueue
    <3>4. InQueue(u) \in {0, 1} /\ rq_refcount'[u] = rq_refcount[u]
          /\ rq_refcount[u] \in Nat
      BY <1>1, PassVarTypes DEF InQueue
    <3> QED BY <3>1, <3>2, <3>3, <3>4
  <2>2. \A u \in Requests :
          rq_refcount'[u] = Cardinality(Holders(u)')
                              + (IF u \in waiting' \union queued' THEN 1 ELSE 0)
    <3>1. rq_refcount' \in [Requests -> Nat]
      BY <1>4 DEF BufferTypes
    <3> QED BY <1>3, <2>1, <3>1, RefsBalance
  <2>3. ASSUME NEW q \in Procs, pc'[q] \in {"taken", "dropped"}
        PROVE  q # p /\ pc'[q] = pc[q] /\ req'[q] = req[q]
    BY <1>3, <2>3
  <2>4. waiting' \intersect queued' = {}
    BY DEF IInv, RefInv
  <2>5. waiting' \union queued' \subseteq waiting \union queued
    OBVIOUS
  <2>6. ASSUME NEW r \in Procs
        PROVE  /\ pc'[r] = "taken" => req'[r] \notin waiting' \union queued'
               /\ pc'[r] = "dropped" => rq_refcount'[req'[r]] = 0
               /\ \A q \in Procs :
                    req'[r] = req'[q] /\ pc'[r] = pc'[q]
                      /\ pc'[r] \in {"taken", "dropped"} => r = q
    BY <1>1, <2>3, <2>5 DEF IInv, RefInv
  <2> QED BY <2>2, <2>4, <2>6 DEF RefInv
<1>8. /\ LocalInv' /\ LiveInv' /\ PlaceInv' /\ PostedInv' /\ HeldInv'
      /\ CountInv'
  <2>1. pc[p] \notin {"register", "cull"} /\ req'[p] \notin work'[p]
    BY <1>3 DEF Light
  <2> QED BY <1>1, <1>2, <1>3, <1>5, <1>6, <2>1, Passes
<1> QED BY <1>4, <1>7, <1>8

LEMMA HandleRequestKeeps ==
  ASSUME IInv, NEW t \in Threads, NEW s \in queued,
         ptlrpc_server_handle_request(t, s)
  PROVE  IInv'
<1>1. t \in Procs /\ Unregister \in Procs /\ Unregister # t
  BY Constants
<1>2. /\ \/ pc[t] \in {"serve", "requests", "handle"}
         \/ pc[t] = "early" /\ work[t] = {}
      /\ queued' = queued \ {s} /\ waiting' = waiting
      /\ req' = [req EXCEPT ![t] = s] /\ back' = [back EXCEPT ![t] = "last"]
      /\ pc' = [pc EXCEPT ![t] = "drop"]
      /\ UNCHANGED <<rq_refcount, timed, work, lwi, passVars, storeVars>>
      /\ UNCHANGED <<stop, scp_hist_seq>>
  BY DEF ptlrpc_server_handle_request, Serving, Replying, Goto, bufferVars, listVars,
         countVars, bufVars, histVars, reqVars, passVars, storeVars, placeVars,
         countedVars, holdVars, readVars
<1>3. waiting' = waiting \ {s}
  BY <1>2 DEF IInv, RefInv
<1>4. pc[t] \in Light /\ work[t] = {} /\ "last" \in Backs /\ pc[t] # "exit"
  BY <1>1, <1>2 DEF IInv, LocalInv, Light, Labels, Backs
<1>5. /\ BufferTypes' /\ LocalInv' /\ RefInv' /\ LiveInv' /\ PlaceInv'
      /\ PostedInv' /\ HeldInv' /\ CountInv'
  BY <1>1, <1>2, <1>3, <1>4, FetchKeeps
<1>6. UnregInv' /\ StopInv'
  <2>1. pc'[Unregister] = pc[Unregister] /\ back'[Unregister] = back[Unregister]
    BY <1>1, <1>2, PassVarTypes
  <2> QED BY <1>2, <1>4, <2>1, ThreadKeepsStop
<1> QED BY <1>5, <1>6 DEF IInv

\* ptlrpc_service_purge_all takes a request.
LEMMA PurgeRequestKeeps ==
  ASSUME IInv, NEW s \in waiting \union queued, PurgeRequest(s)
  PROVE  IInv'
<1>1. Unregister \in Procs /\ Threads \subseteq Procs /\ Unregister \notin Threads
  BY Constants
<1>2. /\ pc[Unregister] = "purge"
      /\ waiting' = waiting \ {s} /\ queued' = queued \ {s}
      /\ req' = [req EXCEPT ![Unregister] = s]
      /\ back' = [back EXCEPT ![Unregister] = "purge"]
      /\ pc' = [pc EXCEPT ![Unregister] = "drop"] /\ stop' = "purging"
      /\ UNCHANGED <<rq_refcount, timed, work, lwi, passVars, storeVars>>
      /\ UNCHANGED <<srv_hist_nrqbds_cpt_max, scp_nrqbds_posted, scp_hist_seq,
                     attached>>
  BY DEF PurgeRequest, Goto, bufferVars, listVars, countVars, bufVars,
         histVars, reqVars, passVars, storeVars, placeVars, countedVars,
         holdVars, readVars
<1>3. pc[Unregister] \in Light /\ work[Unregister] = {} /\ "purge" \in Backs
  BY <1>1, <1>2 DEF IInv, LocalInv, Light, Labels, Backs
<1>4. /\ BufferTypes' /\ LocalInv' /\ RefInv' /\ LiveInv' /\ PlaceInv'
      /\ PostedInv' /\ HeldInv' /\ CountInv'
  BY <1>1, <1>2, <1>3, FetchKeeps
<1>5. UnregInv' /\ StopInv'
  <2>1. /\ pc'[Unregister] = "drop" /\ back'[Unregister] = "purge"
        /\ \A t \in Threads : pc'[t] = pc[t]
    BY <1>1, <1>2, PassVarTypes
  <2>2. /\ stop \in {"purge", "purging", "lbug", "freed"}
        /\ scp_nrqbds_posted = 0
        /\ \A t \in Threads : pc[t] = "exit"
    BY <1>2, Purging
  <2>3. UnregInv'
    BY <2>1 DEF UnregInv
  <2>4. \/ scp_hist_seq <= MaxMessages
        \/ scp_hist_seq + Cardinality(attached)
             <= MaxMessages + Cardinality(Buffers)
    BY DEF IInv, StopInv
  <2>5. StopInv'
    BY <1>2, <2>1, <2>2, <2>4 DEF StopInv
  <2> QED BY <2>3, <2>5
<1> QED BY <1>4, <1>5 DEF IInv

\* A request with more than one reference is held by another process or
\* queued.
LEMMA OtherHolder ==
  ASSUME IInv, NEW p \in Procs, req[p] \in Requests, pc[p] # "dropped"
  PROVE  /\ rq_refcount[req[p]] \in Nat \ {0}
         /\ rq_refcount[req[p]] # 1 =>
              \/ req[p] \in waiting \union queued
              \/ \E q \in Procs \ {p} : req[p] \in work[q] \/ req[q] = req[p]
<1> DEFINE s == req[p]
           h == Cardinality(Holders(s))
<1>1. p \in Holders(s) /\ IsFiniteSet(Holders(s))
  BY Finite DEF Holders, IInv
<1>2. h \in Nat /\ h # 0
  BY <1>1, CardZero
<1>3. rq_refcount[s] = h + (IF s \in waiting \union queued THEN 1 ELSE 0)
  BY DEF IInv, RefInv
<1>4. ASSUME rq_refcount[s] # 1, s \notin waiting \union queued
      PROVE  \E q \in Procs \ {p} : s \in work[q] \/ req[q] = s
  <2>1. h # 1
    BY <1>2, <1>3, <1>4
  <2>2. Holders(s) # {p}
    BY <1>1, <2>1, CardZero
  <2>3. PICK q \in Holders(s) : q # p
    BY <1>1, <2>2
  <2> QED BY <2>3 DEF Holders
<1> HIDE DEF h
<1>5. rq_refcount[s] \in Nat \ {0}
  BY <1>2, <1>3
<1> QED BY <1>4, <1>5

\* ptlrpc_server_drop_request.
LEMMA DropRequestKeeps ==
  ASSUME IInv, NEW p \in Procs, ptlrpc_server_drop_request(p)
  PROVE  IInv'
<1> DEFINE s == req[p]
           last == rq_refcount[s] = 1
<1>1. Unregister \in Procs /\ Threads \subseteq Procs /\ Unregister \notin Threads
      /\ p \in Threads \union {Unregister}
  BY Constants DEF Procs
<1>2. /\ pc[p] = "drop" /\ rq_refcount' = [rq_refcount EXCEPT ![s] = @ - 1]
      /\ last => /\ pc' = [pc EXCEPT ![p] = "dropped"] /\ req' = req
                 /\ back' = back
      /\ ~last => /\ pc' = [pc EXCEPT ![p] = back[p]]
                  /\ back' = [back EXCEPT ![p] = "none"]
                  /\ req' = [req EXCEPT ![p] = 0]
      /\ UNCHANGED <<waiting, queued, timed, work, lwi, stop>>
      /\ UNCHANGED passVars /\ UNCHANGED storeVars
      /\ UNCHANGED <<scp_hist_seq, srv_hist_nrqbds_cpt_max, scp_nrqbds_posted,
                     scp_nrqbds_total, attached, scp_rqbd_posted, scp_hist_rqbds>>
  BY DEF ptlrpc_server_drop_request, Return, Goto, bufferVars, listVars,
         countVars, bufVars, histVars, queueVars, passVars, storeVars,
         placeVars, countedVars, holdVars, readVars
<1>3. /\ s \in Requests /\ s # 0 /\ s \notin work[p]
      /\ work[p] # {} => back[p] = "early"
      /\ back[p] \in Backs
  BY <1>2, PassVarTypes DEF IInv, LocalInv
<1>4. /\ rq_refcount[s] \in Nat \ {0}
      /\ ~last => \/ s \in waiting \union queued
                  \/ \E q \in Procs \ {p} : s \in work[q] \/ req[q] = s
  BY <1>2, <1>3, OtherHolder
<1> HIDE DEF s, last
<1>5. /\ work'[p] = work[p]
      /\ last => req'[p] = s /\ pc'[p] = "dropped" /\ back'[p] = back[p]
      /\ ~last => req'[p] = 0 /\ pc'[p] = back[p] /\ back'[p] = "none"
      /\ \A q \in Procs \ {p} : /\ req'[q] = req[q] /\ work'[q] = work[q]
                                /\ pc'[q] = pc[q] /\ back'[q] = back[q]
  BY <1>2, PassVarTypes DEF s
<1>6. BufferTypes'
  <2>1. pc' \in [Procs -> Labels] /\ back' \in [Procs -> Labels]
    BY <1>2, PassVarTypes DEF Labels
  <2>2. req' \in [Procs -> {0} \union Requests]
    BY <1>2, PassVarTypes
  <2>3. rq_refcount' \in [Requests -> Nat]
    BY <1>2, <1>3, <1>4, PassVarTypes
  <2> QED BY <1>2, <2>1, <2>2, <2>3, PassTypes, PassVarTypes
<1>7. InUse' = InUse
  <2>1. CASE last
    BY <1>2, <2>1 DEF InUse
  <2>2. CASE ~last
    <3>1. ASSUME NEW u \in InUse PROVE u \in InUse'
      <4>1. CASE u = s
        BY <1>2, <1>3, <1>4, <1>5, <2>2, <4>1 DEF InUse
      <4>2. CASE u # s
        <5>1. \/ u \in waiting \union queued
              \/ \E q \in Procs : u \in work[q] \/ req[q] = u
          BY DEF InUse
        <5> QED BY <1>2, <1>5, <4>2, <5>1 DEF InUse, s
      <4> QED BY <4>1, <4>2
    <3>2. ASSUME NEW u \in InUse' PROVE u \in InUse
      <4>1. u \in Requests /\ u # 0
        BY Constants DEF InUse
      <4>2. \/ u \in waiting \union queued
            \/ \E q \in Procs : u \in work'[q] \/ req'[q] = u
        BY <1>2 DEF InUse
      <4> QED BY <1>5, <2>2, <4>1, <4>2 DEF InUse
    <3> QED BY <3>1, <3>2
  <2> QED BY <2>1, <2>2
<1>8. timed' \subseteq InUse
  BY <1>2 DEF IInv, LiveInv
<1>9. RefInv'
  <2>1. ASSUME NEW u \in Requests
        PROVE  rq_refcount'[u] + Has(p, u) + InQueue(u)
                 = rq_refcount[u] + Has(p, u)' + InQueue(u)'
    <3>1. Has(p, u) = IF u = s \/ u \in work[p] THEN 1 ELSE 0
      BY <1>2 DEF Has, s
    <3>2. Has(p, u)' = IF u \in work[p] THEN 1 ELSE 0
      BY <1>5, Constants DEF Has
    <3>3. InQueue(u)' = InQueue(u) /\ InQueue(u) \in {0, 1}
      BY <1>2 DEF InQueue
    <3>4. rq_refcount'[u] = (IF u = s THEN rq_refcount[u] - 1 ELSE rq_refcount[u])
          /\ rq_refcount[u] \in Nat
      BY <1>2, PassVarTypes
    <3>5. CASE u = s
      BY <1>3, <3>1, <3>2, <3>3, <3>4, <3>5
    <3>6. CASE u # s
      BY <3>1, <3>2, <3>3, <3>4, <3>6
    <3> QED BY <3>5, <3>6
  <2>2. \A u \in Requests :
          rq_refcount'[u] = Cardinality(Holders(u)')
                              + (IF u \in waiting' \union queued' THEN 1 ELSE 0)
    <3>1. rq_refcount' \in [Requests -> Nat]
      BY <1>6 DEF BufferTypes
    <3> QED BY <1>5, <2>1, <3>1, RefsBalance
  <2>3. \A q \in Procs : pc[q] = "dropped" => req[q] # s /\ req[q] \in Requests
    BY <1>4, PassVarTypes DEF IInv, RefInv, LocalInv
  <2>4. waiting' \intersect queued' = {}
    BY <1>2 DEF IInv, RefInv
  <2>5. ASSUME NEW r \in Procs
        PROVE  /\ pc'[r] = "taken" => /\ r # p /\ pc[r] = "taken" /\ req'[r] = req[r]
               /\ pc'[r] = "dropped" =>
                    \/ r # p /\ pc[r] = "dropped" /\ req'[r] = req[r]
                    \/ r = p /\ last /\ req'[r] = s
    BY <1>3, <1>5 DEF Backs
  <2>6. rq_refcount'[s] = rq_refcount[s] - 1
        /\ \A u \in Requests \ {s} : rq_refcount'[u] = rq_refcount[u]
    BY <1>2, <1>3, PassVarTypes
  <2>7. ASSUME NEW r \in Procs, pc'[r] = "dropped"
        PROVE  rq_refcount'[req'[r]] = 0
    <3>1. CASE r # p
      <4>1. pc[r] = "dropped" /\ req'[r] = req[r] /\ req[r] \in Requests \ {s}
        BY <2>3, <2>5, <2>7, <3>1
      <4>2. rq_refcount[req[r]] = 0
        BY <4>1 DEF IInv, RefInv
      <4> QED BY <2>6, <4>1, <4>2
    <3>2. CASE r = p
      <4>1. last /\ req'[r] = s
        BY <2>5, <2>7, <3>2
      <4> QED BY <2>6, <4>1 DEF last
    <3> QED BY <3>1, <3>2
  <2>8. ASSUME NEW r \in Procs, NEW q \in Procs, req'[r] = req'[q],
               pc'[r] = pc'[q], pc'[r] \in {"taken", "dropped"}
        PROVE  r = q
    <3>1. CASE pc'[r] = "taken"
      <4>1. /\ pc[r] = "taken" /\ req'[r] = req[r]
            /\ pc[q] = "taken" /\ req'[q] = req[q]
        BY <2>5, <2>8, <3>1
      <4>2. req[r] = req[q] /\ pc[r] = pc[q] /\ pc[r] \in {"taken", "dropped"}
        BY <2>8, <4>1
      <4> QED BY <4>2 DEF IInv, RefInv
    <3>2. CASE pc'[r] = "dropped"
      BY <2>3, <2>5, <2>8, <3>2 DEF IInv, RefInv
    <3> QED BY <2>8, <3>1, <3>2
  <2>9. \A r \in Procs : pc'[r] = "taken" => req'[r] \notin waiting' \union queued'
    BY <1>2, <2>5 DEF IInv, RefInv
  <2> QED BY <2>2, <2>4, <2>7, <2>8, <2>9 DEF RefInv
<1>10. /\ LocalInv' /\ LiveInv' /\ PlaceInv' /\ PostedInv' /\ HeldInv'
       /\ CountInv'
  <2>1. /\ pc'[p] \notin {"register", "cull"} /\ back'[p] \in Backs
        /\ req'[p] # 0 <=> pc'[p] \in {"taken", "sent", "drop", "dropped"}
    BY <1>3, <1>5 DEF Backs
  <2>2. work'[p] # {} => \/ pc'[p] = "early"
                         \/ pc'[p] \in {"sent", "drop", "dropped"}
                              /\ back'[p] = "early"
    BY <1>3, <1>5
  <2>3. req'[p] \notin work'[p]
    <3>1. 0 \notin work[p]
      BY PassVarTypes, Constants
    <3> QED BY <1>3, <1>5, <3>1
  <2> QED BY <1>2, <1>5, <1>7, <1>8, <2>1, <2>2, <2>3, Passes
<1>11. UnregInv' /\ StopInv'
  <2>1. CASE p \in Threads
    <3>1. pc'[Unregister] = pc[Unregister] /\ back'[Unregister] = back[Unregister]
      BY <1>1, <1>5, <2>1
    <3> QED BY <1>2, <2>1, <3>1, ThreadKeepsStop
  <2>2. CASE p = Unregister
    <3>1. stop = "purging" /\ back[p] \in {"none", "purge"}
      BY <1>2, <2>2 DEF IInv, StopInv, UnregInv
    <3>2. pc'[p] \in {"dropped", "none", "purge"} /\ back'[p] \in {"none", "purge"}
      BY <1>5, <3>1
    <3>3. UnregInv'
      BY <2>2, <3>2 DEF UnregInv
    <3>4. \A t \in Threads : pc'[t] = pc[t]
      BY <1>1, <1>5, <2>2
    <3>5. StopInv'
      BY <1>2, <2>2, <3>1, <3>2, <3>4 DEF IInv, StopInv
    <3> QED BY <3>3, <3>5
  <2> QED BY <1>1, <2>1, <2>2
<1> QED BY <1>6, <1>9, <1>10, <1>11 DEF IInv

-----------------------------------------------------------------------------
\* Steps that post buffers.

requestVars == <<req, work, waiting, queued, timed, rq_refcount, rqbd_reqs,
                 rq_rqbd, embedded, live, readVars, stop>>

\* Such a step does not touch requests.
LEMMA PostingKeeps ==
  ASSUME IInv, NEW t \in Threads, pc[t] \in {"alloc", "post", "register"},
         NEW l \in Light \union {"register"}, pc' = [pc EXCEPT ![t] = l],
         back' = back \/ back' = [back EXCEPT ![t] = "none"],
         NEW x \in Buffers \union {None}, rqbd' = [rqbd EXCEPT ![t] = x],
         x # None <=> l = "register",
         UNCHANGED requestVars
  PROVE  /\ LocalInv' /\ RefInv' /\ LiveInv' /\ UnregInv' /\ StopInv'
         /\ Culling' = Culling /\ Emptied' = Emptied /\ InUse' = InUse
         /\ Registering' \ {t} = Registering \ {t}
         /\ t \in Registering' <=> l = "register"
         /\ pc' \in [Procs -> Labels] /\ back' \in [Procs -> Labels]
         /\ rqbd' \in [Procs -> Buffers \union {None}]
         /\ rqbd'[t] = x /\ \A q \in Procs \ {t} : rqbd'[q] = rqbd[q]
         /\ \A b : Holding(b)' = Holding(b)
<1>1. t \in Procs /\ Unregister \in Procs /\ Unregister # t
      /\ Threads \subseteq Procs
  BY Constants
<1>2. /\ UNCHANGED <<req, work, waiting, queued, timed, rq_refcount>>
      /\ UNCHANGED <<rqbd_reqs, rq_rqbd, live, stop>>
      /\ UNCHANGED <<scp_hist_seq, scp_hist_seq_culled, scp_hist_reqs>>
  BY DEF requestVars, readVars
<1>3. /\ pc' \in [Procs -> Labels] /\ back' \in [Procs -> Labels]
      /\ rqbd' \in [Procs -> Buffers \union {None}]
  <2>1. rqbd \in [Procs -> Buffers \union {None}]
    BY DEF IInv, BufferTypes
  <2>2. l \in Labels /\ "none" \in Labels
    BY DEF Light, Labels
  <2> QED BY <1>1, <2>1, <2>2, PassVarTypes
<1>4. /\ pc'[t] = l /\ rqbd'[t] = x /\ back'[t] \in {back[t], "none"}
      /\ \A q \in Procs \ {t} : /\ pc'[q] = pc[q] /\ back'[q] = back[q]
                                /\ rqbd'[q] = rqbd[q]
  <2>1. rqbd \in [Procs -> Buffers \union {None}]
    BY DEF IInv, BufferTypes
  <2> QED BY <1>1, <2>1, PassVarTypes
<1>5. req[t] = 0 /\ work[t] = {} /\ back[t] \in Backs /\ "none" \in Backs
  BY <1>1 DEF IInv, LocalInv, Backs
<1>6. LocalInv'
  <2> SUFFICES ASSUME NEW q \in Procs
               PROVE  (/\ req[q] # 0 <=> pc[q] \in {"taken", "sent", "drop", "dropped"}
                       /\ rqbd[q] # None <=> pc[q] \in {"register", "cull"}
                       /\ work[q] # {} =>
                            \/ pc[q] = "early"
                            \/ /\ pc[q] \in {"sent", "drop", "dropped", "cull"}
                               /\ back[q] = "early"
                       /\ req[q] \notin work[q]
                       /\ back[q] \in Backs)'
    BY DEF LocalInv
  <2>1. CASE q = t
    BY <1>2, <1>4, <1>5, <2>1 DEF Light
  <2>2. CASE q # t
    BY <1>2, <1>4, <2>2 DEF IInv, LocalInv
  <2> QED BY <2>1, <2>2
<1>7. \A q \in Procs : /\ pc'[q] = "dropped" <=> pc[q] = "dropped"
                       /\ pc'[q] = "taken" <=> pc[q] = "taken"
                       /\ pc'[q] = "cull" <=> pc[q] = "cull"
  BY <1>4 DEF Light
<1>8. \A s : Holders(s)' = Holders(s)
  BY <1>2, <1>7 DEF Holders
<1>9. RefInv'
  BY <1>2, <1>7, <1>8 DEF IInv, RefInv
<1>10. InUse' = InUse
  BY <1>2 DEF InUse
<1>11. Culling' = Culling /\ t \notin Culling
  BY <1>1, <1>7 DEF Culling
<1>12. \A p \in Culling : rqbd'[p] = rqbd[p]
  BY <1>4, <1>11 DEF Culling
<1>13. Emptied' = Emptied
  BY <1>11, <1>12 DEF Emptied
<1>14. LiveInv'
  <2>1. CursorSafe'
    BY <1>2 DEF CursorSafe, IInv, LiveInv
  <2> QED BY <1>2, <1>10, <1>11, <1>12, <2>1 DEF IInv, LiveInv
<1>15. UnregInv' /\ StopInv'
  BY <1>1, <1>2, <1>4, ThreadKeepsStop
<1>16. /\ Registering' \ {t} = Registering \ {t}
       /\ t \in Registering' <=> l = "register"
  BY <1>1, <1>4 DEF Registering
<1>17. \A b : Holding(b)' = Holding(b)
  BY <1>2 DEF Holding
<1> QED BY <1>3, <1>4, <1>6, <1>9, <1>10, <1>11, <1>13, <1>14, <1>15, <1>16, <1>17

\* What such a step leaves alone has its type.
LEMMA PostingTypes ==
  ASSUME IInv, UNCHANGED requestVars,
         UNCHANGED <<scp_rqbd_allocating, scp_rqbd_timeout, lwi, scp_hist_rqbds,
                     srv_hist_nrqbds_cpt_max>>,
         scp_rqbd_idle' \in Seq(Buffers), scp_rqbd_posted' \subseteq Buffers,
         scp_nrqbds_posted' \in Nat, scp_nrqbds_total' \in Nat,
         i' \in 0 .. srv_nbuf_per_group,
         rqbd_refcount' \in [Buffers -> Nat], attached' \subseteq Buffers,
         pc' \in [Procs -> Labels], back' \in [Procs -> Labels],
         rqbd' \in [Procs -> Buffers \union {None}]
  PROVE  BufferTypes'
  BY DEF IInv, BufferTypes, requestVars, readVars

\* The counters change by as much as the lists and sets that they count.
LEMMA CountMove ==
  ASSUME CountInv,
         NEW d \in Int, Len(scp_rqbd_idle) \in Nat, Len(scp_rqbd_idle') \in Nat,
         Len(scp_hist_rqbds) \in Nat, Len(scp_hist_rqbds') \in Nat,
         Cardinality(scp_rqbd_posted) \in Nat, Cardinality(scp_rqbd_posted') \in Nat,
         Cardinality(Culling) \in Nat, Cardinality(Culling') \in Nat,
         Len(scp_rqbd_idle') + Cardinality(scp_rqbd_posted')
           + Len(scp_hist_rqbds') + Cardinality(Culling')
           = Len(scp_rqbd_idle) + Cardinality(scp_rqbd_posted)
               + Len(scp_hist_rqbds) + Cardinality(Culling) + d,
         scp_nrqbds_total' = scp_nrqbds_total + d,
         scp_nrqbds_posted' = Cardinality(attached') + Cardinality(Registering')
  PROVE  CountInv'
  BY DEF CountInv

LEMMA PostVarTypes ==
  ASSUME IInv
  PROVE  /\ scp_rqbd_idle \in Seq(Buffers) /\ scp_rqbd_posted \subseteq Buffers
         /\ scp_hist_rqbds \in Seq(Buffers)
         /\ Len(scp_rqbd_idle) \in Nat /\ Len(scp_hist_rqbds) \in Nat
         /\ scp_nrqbds_posted \in Nat /\ scp_nrqbds_total \in Nat
         /\ i \in 0 .. srv_nbuf_per_group
         /\ rqbd_refcount \in [Buffers -> Nat] /\ attached \subseteq Buffers
         /\ rqbd_reqs \in [Buffers -> SUBSET Requests]
         /\ rqbd \in [Procs -> Buffers \union {None}]
         /\ IsFiniteSet(attached) /\ IsFiniteSet(scp_rqbd_posted)
         /\ IsFiniteSet(Registering) /\ IsFiniteSet(Culling)
         /\ Cardinality(attached) \in Nat /\ Cardinality(scp_rqbd_posted) \in Nat
         /\ Cardinality(Registering) \in Nat /\ Cardinality(Culling) \in Nat
         /\ Emptied \subseteq Buffers
<1>1. BufferTypes
  BY DEF IInv
<1>2. /\ IsFiniteSet(attached) /\ IsFiniteSet(scp_rqbd_posted)
      /\ IsFiniteSet(Registering) /\ IsFiniteSet(Culling)
  BY <1>1, Finite
<1>3. /\ Cardinality(attached) \in Nat /\ Cardinality(scp_rqbd_posted) \in Nat
      /\ Cardinality(Registering) \in Nat /\ Cardinality(Culling) \in Nat
  BY <1>2, CardZero
<1>4. Len(scp_rqbd_idle) \in Nat /\ Len(scp_hist_rqbds) \in Nat
  BY <1>1, LenProperties DEF BufferTypes
<1>5. Emptied \subseteq Buffers
  BY <1>1 DEF IInv, BufferTypes, LocalInv, Emptied, Culling
<1> QED BY <1>1, <1>2, <1>3, <1>4, <1>5 DEF BufferTypes

\* ptlrpc_alloc_rqbd: a buffer that is nowhere.
LEMMA AllocKeeps ==
  ASSUME IInv, NEW t \in Threads, NEW b \in Buffers, ptlrpc_alloc_rqbd(t, b)
  PROVE  IInv'
<1>1. /\ pc[t] = "alloc" /\ i < srv_nbuf_per_group
      /\ b \notin Allocated
      /\ scp_rqbd_idle' = <<b>> \o scp_rqbd_idle
      /\ scp_nrqbds_total' = scp_nrqbds_total + 1 /\ i' = i + 1
      /\ UNCHANGED requestVars
      /\ UNCHANGED <<scp_rqbd_allocating, scp_rqbd_timeout, lwi, scp_hist_rqbds,
                     srv_hist_nrqbds_cpt_max>>
      /\ UNCHANGED <<scp_rqbd_posted, scp_nrqbds_posted, rqbd_refcount, attached,
                     pc, back, rqbd, embedded, live, rq_rqbd, rqbd_reqs>>
  BY DEF ptlrpc_alloc_rqbd, bufVars, histVars, reqVars, queueVars, localVars,
         requestVars, readVars
<1>2. /\ b \notin ToSet(scp_rqbd_idle) /\ b \notin scp_rqbd_posted
      /\ b \notin ToSet(scp_hist_rqbds) /\ b \notin Emptied
  <2>1. Emptied \subseteq {rqbd[p] : p \in {q \in Procs : rqbd[q] # None}}
    BY DEF Emptied, Culling, IInv, LocalInv
  <2> QED BY <1>1, <2>1 DEF Allocated
<1>3. IsInjective(scp_rqbd_idle)
  BY DEF IInv, PlaceInv
<1>4. /\ scp_rqbd_idle' \in Seq(Buffers)
      /\ Len(scp_rqbd_idle') = Len(scp_rqbd_idle) + 1
      /\ IsInjective(scp_rqbd_idle')
      /\ ToSet(scp_rqbd_idle') = ToSet(scp_rqbd_idle) \union {b}
  BY <1>1, <1>2, <1>3, PostVarTypes, PushFacts
<1>5. t \in Procs /\ rqbd[t] = None /\ pc = [pc EXCEPT ![t] = "alloc"]
      /\ rqbd = [rqbd EXCEPT ![t] = None] /\ "alloc" \in Light
  BY <1>1, Constants, PostVarTypes, PassVarTypes DEF IInv, LocalInv, Light, Labels
<1>6. /\ LocalInv' /\ RefInv' /\ LiveInv' /\ UnregInv' /\ StopInv'
      /\ Culling' = Culling /\ Emptied' = Emptied /\ InUse' = InUse
      /\ \A c : Holding(c)' = Holding(c)
  BY <1>1, <1>5, PostingKeeps
<1>7. Registering' = Registering
  BY <1>1 DEF Registering
<1>8. BufferTypes'
  <2>1. scp_nrqbds_total' \in Nat /\ i' \in 0 .. srv_nbuf_per_group
    <3>1. scp_nrqbds_total' \in Nat
      BY <1>1, PostVarTypes
    <3>2. i' = i + 1 /\ i < srv_nbuf_per_group /\ i \in 0 .. srv_nbuf_per_group
          /\ srv_nbuf_per_group \in Nat
      BY <1>1, PostVarTypes, Constants
    <3> QED BY <3>1, <3>2
  <2> QED BY <1>1, <1>4, <2>1, PostingTypes, PostVarTypes, PassVarTypes
<1>9. PlaceInv'
  BY <1>1, <1>2, <1>4, <1>6, <1>7 DEF IInv, PlaceInv
<1>10. PostedInv'
  BY <1>1, <1>6, <1>7 DEF IInv, PostedInv
<1>11. HeldInv'
  BY <1>1, <1>6 DEF IInv, HeldInv
<1>12. CountInv'
  <2>1. /\ Cardinality(Culling') = Cardinality(Culling)
        /\ Cardinality(Registering') = Cardinality(Registering)
        /\ UNCHANGED <<scp_rqbd_posted, scp_hist_rqbds, attached>>
    BY <1>1, <1>6, <1>7
  <2>2. scp_nrqbds_posted' = Cardinality(attached') + Cardinality(Registering')
    BY <1>1, <2>1 DEF IInv, CountInv
  <2>3. Len(scp_rqbd_idle') \in Nat
        /\ Len(scp_rqbd_idle') + Cardinality(scp_rqbd_posted)
             + Len(scp_hist_rqbds) + Cardinality(Culling)
             = Len(scp_rqbd_idle) + Cardinality(scp_rqbd_posted)
                 + Len(scp_hist_rqbds) + Cardinality(Culling) + 1
    BY <1>4, PostVarTypes
  <2> QED BY <1>1, <2>1, <2>2, <2>3, PostVarTypes, CountMove DEF IInv
<1> QED BY <1>6, <1>8, <1>9, <1>10, <1>11, <1>12 DEF IInv

\* ptlrpc_server_post_idle_rqbds takes an idle buffer.
LEMMA PostKeeps ==
  ASSUME IInv, NEW t \in Threads, ptlrpc_server_post_idle_rqbds(t),
         scp_rqbd_idle # <<>>
  PROVE  IInv'
<1> DEFINE b == Head(scp_rqbd_idle)
<1>1. /\ pc[t] = "post" /\ scp_rqbd_idle' = Tail(scp_rqbd_idle)
      /\ scp_rqbd_posted' = scp_rqbd_posted \union {b}
      /\ scp_nrqbds_posted' = scp_nrqbds_posted + 1
      /\ rqbd' = [rqbd EXCEPT ![t] = b]
      /\ pc' = [pc EXCEPT ![t] = "register"] /\ back' = back
      /\ UNCHANGED requestVars
      /\ UNCHANGED <<scp_rqbd_allocating, scp_rqbd_timeout, lwi, scp_hist_rqbds,
                     srv_hist_nrqbds_cpt_max>>
      /\ UNCHANGED <<scp_nrqbds_total, i, rqbd_refcount, attached, embedded, live,
                     rq_rqbd, rqbd_reqs>>
  BY DEF ptlrpc_server_post_idle_rqbds, Goto, bufVars, histVars, reqVars,
         queueVars, requestVars, readVars
<1>2. IsInjective(scp_rqbd_idle)
  BY DEF IInv, PlaceInv
<1>3. /\ scp_rqbd_idle' \in Seq(Buffers)
      /\ Len(scp_rqbd_idle') = Len(scp_rqbd_idle) - 1
      /\ IsInjective(scp_rqbd_idle')
      /\ b \in ToSet(scp_rqbd_idle) /\ b \in Buffers
      /\ ToSet(scp_rqbd_idle') = ToSet(scp_rqbd_idle) \ {b}
  BY <1>1, <1>2, PostVarTypes, TailFacts
<1> HIDE DEF b
<1>4. /\ b \notin scp_rqbd_posted /\ b \notin ToSet(scp_hist_rqbds)
      /\ b \notin Emptied
  BY <1>3 DEF IInv, PlaceInv
<1>5. Holding(b) = {} /\ rqbd_reqs[b] = {} /\ b \notin attached
  BY <1>3, <1>4 DEF IInv, PostedInv
<1>6. t \in Procs /\ t \notin Registering /\ t \notin Culling /\ b # None
  BY <1>1, <1>3, Constants DEF Registering, Culling
<1>7. /\ LocalInv' /\ RefInv' /\ LiveInv' /\ UnregInv' /\ StopInv'
      /\ Culling' = Culling /\ Emptied' = Emptied /\ InUse' = InUse
      /\ Registering' = Registering \union {t}
      /\ pc' \in [Procs -> Labels] /\ back' \in [Procs -> Labels]
      /\ rqbd' \in [Procs -> Buffers \union {None}]
      /\ rqbd'[t] = b /\ \A q \in Procs \ {t} : rqbd'[q] = rqbd[q]
      /\ \A c : Holding(c)' = Holding(c)
  <2>1. /\ LocalInv' /\ RefInv' /\ LiveInv' /\ UnregInv' /\ StopInv'
        /\ Culling' = Culling /\ Emptied' = Emptied /\ InUse' = InUse
        /\ Registering' \ {t} = Registering \ {t} /\ t \in Registering'
        /\ pc' \in [Procs -> Labels] /\ back' \in [Procs -> Labels]
        /\ rqbd' \in [Procs -> Buffers \union {None}]
        /\ rqbd'[t] = b /\ \A q \in Procs \ {t} : rqbd'[q] = rqbd[q]
        /\ \A c : Holding(c)' = Holding(c)
    BY <1>1, <1>3, <1>6, PostingKeeps
  <2>2. Registering' = Registering \union {t}
    BY <1>6, <2>1
  <2> QED BY <2>1, <2>2
<1>8. BufferTypes'
  <2>1. scp_rqbd_posted' \subseteq Buffers /\ scp_nrqbds_posted' \in Nat
    BY <1>1, <1>3, PostVarTypes
  <2> QED BY <1>1, <1>3, <1>7, <2>1, PostingTypes, PostVarTypes
<1>9. PlaceInv'
  <2>1. ASSUME NEW q \in Culling \union Registering PROVE rqbd[q] # b /\ q # t
    <3>1. q \in Culling => rqbd[q] \in Emptied
      BY DEF Emptied
    <3>2. q \in Registering => rqbd[q] \in scp_rqbd_posted
      BY DEF IInv, PostedInv
    <3> QED BY <1>4, <1>6, <3>1, <3>2
  <2>2. \A p, q \in Culling' \union Registering' : rqbd'[p] = rqbd'[q] => p = q
    <3>1. \A q \in Culling \union Registering : rqbd'[q] = rqbd[q]
      BY <1>7, <2>1, Constants DEF Culling, Registering
    <3> QED BY <1>7, <2>1, <3>1 DEF IInv, PlaceInv
  <2> QED BY <1>1, <1>3, <1>4, <1>7, <2>2 DEF IInv, PlaceInv
<1>10. PostedInv'
  <2>1. \A q \in Registering : rqbd'[q] = rqbd[q]
    BY <1>6, <1>7, Constants DEF Registering
  <2>2. ASSUME NEW q \in Registering'
        PROVE  (/\ rqbd[q] \in scp_rqbd_posted \ attached
                /\ Holding(rqbd[q]) = {} /\ rqbd_reqs[rqbd[q]] = {})'
    <3>1. CASE q = t
      BY <1>1, <1>5, <1>7, <3>1 DEF Holding
    <3>2. CASE q # t
      <4>1. q \in Registering /\ rqbd'[q] = rqbd[q]
        BY <1>7, <2>1, <3>2
      <4>2. /\ rqbd[q] \in scp_rqbd_posted \ attached
            /\ Holding(rqbd[q]) = {} /\ rqbd_reqs[rqbd[q]] = {}
        BY <4>1 DEF IInv, PostedInv
      <4> QED BY <1>1, <4>1, <4>2 DEF Holding
    <3> QED BY <3>1, <3>2
  <2>3. ASSUME NEW c \in Buffers
        PROVE  /\ Holding(c)' # {} => c \in scp_rqbd_posted'
               /\ c \in scp_rqbd_posted' => \/ c \in attached' \/ Holding(c)' # {}
                                            \/ \E q \in Registering' : rqbd'[q] = c
               /\ rqbd_reqs'[c] # {} =>
                    c \in scp_rqbd_posted' \union ToSet(scp_hist_rqbds')
                            \union Emptied'
    BY <1>1, <1>7, <2>1 DEF IInv, PostedInv
  <2>4. attached' \subseteq scp_rqbd_posted'
    BY <1>1 DEF IInv, PostedInv
  <2> QED BY <2>2, <2>3, <2>4 DEF PostedInv
<1>11. HeldInv'
  BY <1>1, <1>7 DEF IInv, HeldInv
<1>12. CountInv'
  <2>1. Cardinality(scp_rqbd_posted') = Cardinality(scp_rqbd_posted) + 1
    BY <1>1, <1>4, PostVarTypes, FS_AddElement
  <2>2. Cardinality(Registering') = Cardinality(Registering) + 1
    BY <1>6, <1>7, PostVarTypes, FS_AddElement
  <2>3. /\ Cardinality(Culling') = Cardinality(Culling)
        /\ UNCHANGED <<scp_hist_rqbds, attached>>
    BY <1>1, <1>7
  <2>4. scp_nrqbds_posted' = Cardinality(attached') + Cardinality(Registering')
    <3>1. scp_nrqbds_posted = Cardinality(attached) + Cardinality(Registering)
      BY DEF IInv, CountInv
    <3> QED BY <1>1, <2>2, <2>3, <3>1, PostVarTypes
  <2>5. /\ Len(scp_rqbd_idle') \in Nat /\ Cardinality(scp_rqbd_posted') \in Nat
        /\ Len(scp_rqbd_idle') + Cardinality(scp_rqbd_posted')
             + Len(scp_hist_rqbds) + Cardinality(Culling)
             = Len(scp_rqbd_idle) + Cardinality(scp_rqbd_posted)
                 + Len(scp_hist_rqbds) + Cardinality(Culling) + 0
    <3>1. Len(scp_rqbd_idle') \in Nat
      BY <1>3, LenProperties
    <3>2. Len(scp_rqbd_idle') = Len(scp_rqbd_idle) - 1
      BY <1>3
    <3> DEFINE l == Len(scp_rqbd_idle) ln == Len(scp_rqbd_idle')
               p == Cardinality(scp_rqbd_posted) pn == Cardinality(scp_rqbd_posted')
               h == Len(scp_hist_rqbds) c == Cardinality(Culling)
    <3>3. /\ l \in Nat /\ p \in Nat /\ h \in Nat /\ c \in Nat /\ ln \in Nat
          /\ ln = l - 1 /\ pn = p + 1
      BY <2>1, <3>1, <3>2, PostVarTypes
    <3> HIDE DEF l, ln, p, pn, h, c
    <3>4. ln \in Nat /\ pn \in Nat /\ ln + pn + h + c = l + p + h + c + 0
      BY <3>3
    <3> QED BY <3>4 DEF l, ln, p, pn, h, c
  <2>6. scp_nrqbds_total' = scp_nrqbds_total + 0
    BY <1>1, PostVarTypes
  <2> QED BY <2>3, <2>4, <2>5, <2>6, PostVarTypes, CountMove DEF IInv
<1> QED BY <1>7, <1>8, <1>9, <1>10, <1>11, <1>12 DEF IInv

\* What is known of a buffer that is being offered.
LEMMA Offered ==
  ASSUME IInv, NEW t \in Threads, pc[t] = "register"
  PROVE  /\ t \in Procs /\ t \in Registering /\ t \notin Culling
         /\ rqbd[t] \in Buffers
         /\ rqbd[t] \in scp_rqbd_posted \ attached
         /\ Holding(rqbd[t]) = {} /\ rqbd_reqs[rqbd[t]] = {}
         /\ rqbd[t] \notin ToSet(scp_rqbd_idle)
         /\ rqbd[t] \notin ToSet(scp_hist_rqbds) /\ rqbd[t] \notin Emptied
         /\ \A q \in (Culling \union Registering) \ {t} : rqbd[q] # rqbd[t]
<1>1. t \in Procs /\ t \in Registering /\ t \notin Culling
  BY Constants DEF Registering, Culling
<1>2. /\ rqbd[t] \in scp_rqbd_posted \ attached
      /\ Holding(rqbd[t]) = {} /\ rqbd_reqs[rqbd[t]] = {}
  BY <1>1 DEF IInv, PostedInv
<1>3. rqbd[t] \in Buffers
  BY <1>2, PostVarTypes
<1>4. /\ rqbd[t] \notin ToSet(scp_rqbd_idle)
      /\ rqbd[t] \notin ToSet(scp_hist_rqbds) /\ rqbd[t] \notin Emptied
  BY <1>2 DEF IInv, PlaceInv
<1>5. \A q \in (Culling \union Registering) \ {t} : rqbd[q] # rqbd[t]
  BY <1>1 DEF IInv, PlaceInv
<1> QED BY <1>1, <1>2, <1>3, <1>4, <1>5

\* Once a thread is done with offering, the others have what they had.
LEMMA OfferEnds ==
  ASSUME IInv, NEW t \in Threads, pc[t] = "register",
         NEW l \in Light, pc' = [pc EXCEPT ![t] = l],
         back' = back \/ back' = [back EXCEPT ![t] = "none"],
         rqbd' = [rqbd EXCEPT ![t] = None],
         UNCHANGED requestVars
  PROVE  /\ LocalInv' /\ RefInv' /\ LiveInv' /\ UnregInv' /\ StopInv'
         /\ Culling' = Culling /\ Emptied' = Emptied /\ InUse' = InUse
         /\ Registering' = Registering \ {t}
         /\ Cardinality(Registering') = Cardinality(Registering) - 1
         /\ pc' \in [Procs -> Labels] /\ back' \in [Procs -> Labels]
         /\ rqbd' \in [Procs -> Buffers \union {None}]
         /\ \A q \in (Culling \union Registering) \ {t} : rqbd'[q] = rqbd[q]
         /\ \A p, q \in Culling' \union Registering' : rqbd'[p] = rqbd'[q] => p = q
         /\ \A c : Holding(c)' = Holding(c)
<1>1. /\ LocalInv' /\ RefInv' /\ LiveInv' /\ UnregInv' /\ StopInv'
      /\ Culling' = Culling /\ Emptied' = Emptied /\ InUse' = InUse
      /\ Registering' \ {t} = Registering \ {t} /\ t \notin Registering'
      /\ pc' \in [Procs -> Labels] /\ back' \in [Procs -> Labels]
      /\ rqbd' \in [Procs -> Buffers \union {None}]
      /\ \A q \in Procs \ {t} : rqbd'[q] = rqbd[q]
      /\ \A c : Holding(c)' = Holding(c)
  <2>1. /\ l # "register" /\ l \in Light \union {"register"}
        /\ None \in Buffers \union {None}
        /\ pc[t] \in {"alloc", "post", "register"}
        /\ None # None <=> l = "register"
    BY DEF Light
  <2>2. /\ LocalInv' /\ RefInv' /\ LiveInv' /\ UnregInv' /\ StopInv'
        /\ Culling' = Culling /\ Emptied' = Emptied /\ InUse' = InUse
        /\ Registering' \ {t} = Registering \ {t}
        /\ t \in Registering' <=> l = "register"
        /\ pc' \in [Procs -> Labels] /\ back' \in [Procs -> Labels]
        /\ rqbd' \in [Procs -> Buffers \union {None}]
        /\ rqbd'[t] = None /\ \A q \in Procs \ {t} : rqbd'[q] = rqbd[q]
        /\ \A c : Holding(c)' = Holding(c)
    BY <2>1, PostingKeeps, Zenon
  <2> QED BY <2>1, <2>2
<1>2. t \in Registering /\ t \notin Culling
  BY Offered
<1>3. Registering' = Registering \ {t}
  BY <1>1
<1>4. Cardinality(Registering') = Cardinality(Registering) - 1
  BY <1>2, <1>3, PostVarTypes, FS_RemoveElement
<1>5. \A q \in (Culling \union Registering) \ {t} : rqbd'[q] = rqbd[q]
  BY <1>1, Constants DEF Culling, Registering
<1>6. \A p, q \in Culling' \union Registering' : rqbd'[p] = rqbd'[q] => p = q
  BY <1>1, <1>2, <1>3, <1>5 DEF IInv, PlaceInv
<1> QED BY <1>1, <1>3, <1>4, <1>5, <1>6

\* ptlrpc_register_rqbd: the network has the buffer.
LEMMA RegisterKeeps ==
  ASSUME IInv, NEW t \in Threads, ptlrpc_register_rqbd(t)
  PROVE  IInv'
<1> DEFINE b == rqbd[t]
<1>1. /\ pc[t] = "register" /\ attached' = attached \union {b}
      /\ rqbd_refcount' = [rqbd_refcount EXCEPT ![b] = 1]
      /\ rqbd' = [rqbd EXCEPT ![t] = None]
      /\ pc' = [pc EXCEPT ![t] = "post"] /\ back' = back
      /\ UNCHANGED requestVars
      /\ UNCHANGED <<scp_rqbd_allocating, scp_rqbd_timeout, lwi, scp_hist_rqbds,
                     srv_hist_nrqbds_cpt_max>>
      /\ UNCHANGED <<scp_rqbd_idle, scp_rqbd_posted, scp_nrqbds_posted,
                     scp_nrqbds_total, i, embedded, live, rq_rqbd, rqbd_reqs>>
  BY DEF ptlrpc_register_rqbd, Goto, listVars, countVars, histVars, reqVars,
         queueVars, requestVars, readVars
<1>2. /\ b \in Buffers /\ b \in scp_rqbd_posted \ attached /\ t \in Registering
      /\ Holding(b) = {} /\ rqbd_reqs[b] = {}
      /\ \A q \in (Culling \union Registering) \ {t} : rqbd[q] # b
  BY <1>1, Offered
<1>3. /\ LocalInv' /\ RefInv' /\ LiveInv' /\ UnregInv' /\ StopInv'
      /\ Culling' = Culling /\ Emptied' = Emptied /\ InUse' = InUse
      /\ Registering' = Registering \ {t}
      /\ Cardinality(Registering') = Cardinality(Registering) - 1
      /\ pc' \in [Procs -> Labels] /\ back' \in [Procs -> Labels]
      /\ rqbd' \in [Procs -> Buffers \union {None}]
      /\ \A q \in (Culling \union Registering) \ {t} : rqbd'[q] = rqbd[q]
      /\ \A p, q \in Culling' \union Registering' : rqbd'[p] = rqbd'[q] => p = q
      /\ \A c : Holding(c)' = Holding(c)
  <2>1. "post" \in Light
    BY DEF Light, Labels
  <2> QED BY <1>1, <2>1, OfferEnds
<1> HIDE DEF b
<1>4. BufferTypes'
  <2>1. rqbd_refcount' \in [Buffers -> Nat] /\ attached' \subseteq Buffers
    BY <1>1, <1>2, PostVarTypes
  <2> QED BY <1>1, <1>3, <2>1, PostingTypes, PostVarTypes
<1>5. PlaceInv'
  BY <1>1, <1>3 DEF IInv, PlaceInv
<1>6. PostedInv'
  <2>1. ASSUME NEW q \in Registering'
        PROVE  (/\ rqbd[q] \in scp_rqbd_posted \ attached
                /\ Holding(rqbd[q]) = {} /\ rqbd_reqs[rqbd[q]] = {})'
    <3>1. q \in Registering /\ rqbd'[q] = rqbd[q] /\ rqbd[q] # b
      BY <1>2, <1>3
    <3>2. /\ rqbd[q] \in scp_rqbd_posted \ attached
          /\ Holding(rqbd[q]) = {} /\ rqbd_reqs[rqbd[q]] = {}
      BY <3>1 DEF IInv, PostedInv
    <3> QED BY <1>1, <3>1, <3>2 DEF Holding
  <2>2. ASSUME NEW c \in Buffers
        PROVE  /\ Holding(c)' # {} => c \in scp_rqbd_posted'
               /\ c \in scp_rqbd_posted' => \/ c \in attached' \/ Holding(c)' # {}
                                            \/ \E q \in Registering' : rqbd'[q] = c
               /\ rqbd_reqs'[c] # {} =>
                    c \in scp_rqbd_posted' \union ToSet(scp_hist_rqbds')
                            \union Emptied'
    <3>1. \A q \in Registering : rqbd[q] = c => c = b \/ (q \in Registering'
                                                          /\ rqbd'[q] = c)
      BY <1>3 DEF b
    <3> QED BY <1>1, <1>3, <3>1 DEF IInv, PostedInv
  <2>3. attached' \subseteq scp_rqbd_posted'
    BY <1>1, <1>2 DEF IInv, PostedInv
  <2> QED BY <2>1, <2>2, <2>3 DEF PostedInv
<1>7. HeldInv'
  <2>1. ASSUME NEW s \in live PROVE rq_rqbd[s] # b
    BY <1>2 DEF Holding
  <2>2. ASSUME NEW c \in Buffers
        PROVE  rqbd_refcount'[c] = Cardinality(Holding(c)')
                                     + (IF c \in attached' THEN 1 ELSE 0)
    <3>1. CASE c = b
      <4>1. Cardinality(Holding(c)') = 0
        BY <1>2, <1>3, <3>1, FS_EmptySet
      <4> QED BY <1>1, <1>2, <3>1, <4>1, PostVarTypes
    <3>2. CASE c # b
      <4>1. rqbd_refcount'[c] = rqbd_refcount[c] /\ (c \in attached' <=> c \in attached)
        BY <1>1, <3>2, PostVarTypes
      <4> QED BY <1>3, <4>1 DEF IInv, HeldInv
    <3> QED BY <3>1, <3>2
  <2> QED BY <1>1, <2>1, <2>2 DEF IInv, HeldInv
<1>8. CountInv'
  <2>1. Cardinality(attached') = Cardinality(attached) + 1
    BY <1>1, <1>2, PostVarTypes, FS_AddElement
  <2>2. scp_nrqbds_posted' = Cardinality(attached') + Cardinality(Registering')
    <3>1. scp_nrqbds_posted = Cardinality(attached) + Cardinality(Registering)
      BY DEF IInv, CountInv
    <3> QED BY <1>1, <1>3, <2>1, <3>1, PostVarTypes
  <2> QED BY <1>1, <1>3, <2>2 DEF IInv, CountInv
<1> QED BY <1>3, <1>4, <1>5, <1>6, <1>7, <1>8 DEF IInv

\* The network refuses the buffer.
LEMMA PostFailsKeeps ==
  ASSUME IInv, NEW t \in Threads, PostFails(t)
  PROVE  IInv'
<1> DEFINE b == rqbd[t]
<1>1. /\ pc[t] = "register" /\ scp_rqbd_idle' = Append(scp_rqbd_idle, b)
      /\ scp_rqbd_posted' = scp_rqbd_posted \ {b}
      /\ scp_nrqbds_posted' = scp_nrqbds_posted - 1
      /\ rqbd' = [rqbd EXCEPT ![t] = None]
      /\ UNCHANGED requestVars
      /\ UNCHANGED <<scp_rqbd_allocating, scp_rqbd_timeout, lwi, scp_hist_rqbds,
                     srv_hist_nrqbds_cpt_max>>
      /\ UNCHANGED <<scp_nrqbds_total, i, embedded, live, rq_rqbd, rqbd_reqs,
                     rqbd_refcount, attached>>
  BY DEF PostFails, bufVars, histVars, reqVars, queueVars, requestVars, readVars
<1>2. /\ b \in Buffers /\ b \in scp_rqbd_posted \ attached /\ t \in Registering
      /\ Holding(b) = {} /\ rqbd_reqs[b] = {}
      /\ b \notin ToSet(scp_rqbd_idle) /\ b \notin ToSet(scp_hist_rqbds)
      /\ b \notin Emptied
      /\ \A q \in (Culling \union Registering) \ {t} : rqbd[q] # b
  BY <1>1, Offered
<1>3. /\ LocalInv' /\ RefInv' /\ LiveInv' /\ UnregInv' /\ StopInv'
      /\ Culling' = Culling /\ Emptied' = Emptied /\ InUse' = InUse
      /\ Registering' = Registering \ {t}
      /\ Cardinality(Registering') = Cardinality(Registering) - 1
      /\ pc' \in [Procs -> Labels] /\ back' \in [Procs -> Labels]
      /\ rqbd' \in [Procs -> Buffers \union {None}]
      /\ \A q \in (Culling \union Registering) \ {t} : rqbd'[q] = rqbd[q]
      /\ \A p, q \in Culling' \union Registering' : rqbd'[p] = rqbd'[q] => p = q
      /\ \A c : Holding(c)' = Holding(c)
  <2>1. "failed" \in Light /\ back[t] \in Light
    <3>1. back[t] \in Backs
      BY Constants DEF IInv, LocalInv
    <3> QED BY <3>1 DEF Light, Labels, Backs
  <2>2. \E l \in Light : pc' = [pc EXCEPT ![t] = l]
    BY <2>1 DEF PostFails, Return, Goto
  <2>3. back' = back \/ back' = [back EXCEPT ![t] = "none"]
    BY DEF PostFails, Return
  <2> QED BY <1>1, <2>2, <2>3, OfferEnds
<1>4. IsInjective(scp_rqbd_idle)
  BY DEF IInv, PlaceInv
<1> HIDE DEF b
<1>5. /\ scp_rqbd_idle' \in Seq(Buffers)
      /\ Len(scp_rqbd_idle') = Len(scp_rqbd_idle) + 1
      /\ IsInjective(scp_rqbd_idle')
      /\ ToSet(scp_rqbd_idle') = ToSet(scp_rqbd_idle) \union {b}
  BY <1>1, <1>2, <1>4, PostVarTypes, AppendFacts
<1>6. /\ Cardinality(scp_rqbd_posted') = Cardinality(scp_rqbd_posted) - 1
      /\ Cardinality(Registering) # 0
      /\ Cardinality(scp_rqbd_posted') \in Nat
  <2>1. Cardinality(scp_rqbd_posted') = Cardinality(scp_rqbd_posted) - 1
        /\ IsFiniteSet(scp_rqbd_posted')
    BY <1>1, <1>2, PostVarTypes, FS_RemoveElement
  <2>2. Cardinality(Registering) # 0
    BY <1>2, PostVarTypes, CardZero
  <2> QED BY <2>1, <2>2, CardZero
<1>7. scp_nrqbds_posted' = Cardinality(attached') + Cardinality(Registering')
      /\ scp_nrqbds_posted' \in Nat
  <2>1. scp_nrqbds_posted = Cardinality(attached) + Cardinality(Registering)
    BY DEF IInv, CountInv
  <2>2. Cardinality(attached') = Cardinality(attached)
    BY <1>1
  <2> DEFINE n == scp_nrqbds_posted a == Cardinality(attached)
             r == Cardinality(Registering) rn == Cardinality(Registering')
  <2>3. /\ n \in Nat /\ a \in Nat /\ r \in Nat /\ n = a + r /\ rn = r - 1 /\ r # 0
    BY <1>3, <1>6, <2>1, PostVarTypes
  <2> HIDE DEF n, a, r, rn
  <2>4. n - 1 = a + rn /\ n - 1 \in Nat
    BY <2>3
  <2> QED BY <1>1, <2>2, <2>4 DEF n, a, r, rn
<1>8. BufferTypes'
  <2>1. scp_rqbd_posted' \subseteq Buffers
    BY <1>1, PostVarTypes
  <2> QED BY <1>1, <1>3, <1>5, <1>7, <2>1, PostingTypes, PostVarTypes
<1>9. PlaceInv'
  BY <1>1, <1>2, <1>3, <1>5 DEF IInv, PlaceInv
<1>10. PostedInv'
  <2>1. ASSUME NEW q \in Registering'
        PROVE  (/\ rqbd[q] \in scp_rqbd_posted \ attached
                /\ Holding(rqbd[q]) = {} /\ rqbd_reqs[rqbd[q]] = {})'
    <3>1. q \in Registering /\ rqbd'[q] = rqbd[q] /\ rqbd[q] # b
      BY <1>2, <1>3
    <3>2. /\ rqbd[q] \in scp_rqbd_posted \ attached
          /\ Holding(rqbd[q]) = {} /\ rqbd_reqs[rqbd[q]] = {}
      BY <3>1 DEF IInv, PostedInv
    <3> QED BY <1>1, <3>1, <3>2 DEF Holding
  <2>2. ASSUME NEW c \in Buffers
        PROVE  /\ Holding(c)' # {} => c \in scp_rqbd_posted'
               /\ c \in scp_rqbd_posted' => \/ c \in attached' \/ Holding(c)' # {}
                                            \/ \E q \in Registering' : rqbd'[q] = c
               /\ rqbd_reqs'[c] # {} =>
                    c \in scp_rqbd_posted' \union ToSet(scp_hist_rqbds')
                            \union Emptied'
    <3>1. \A q \in Registering : rqbd[q] = c => c = b \/ (q \in Registering'
                                                          /\ rqbd'[q] = c)
      BY <1>3 DEF b
    <3> QED BY <1>1, <1>2, <1>3, <3>1 DEF IInv, PostedInv
  <2>3. attached' \subseteq scp_rqbd_posted'
    BY <1>1, <1>2 DEF IInv, PostedInv
  <2> QED BY <2>1, <2>2, <2>3 DEF PostedInv
<1>11. HeldInv'
  BY <1>1, <1>3 DEF IInv, HeldInv
<1>12. CountInv'
  <2> DEFINE l == Len(scp_rqbd_idle) ln == Len(scp_rqbd_idle')
             p == Cardinality(scp_rqbd_posted) pn == Cardinality(scp_rqbd_posted')
             h == Len(scp_hist_rqbds) c == Cardinality(Culling)
  <2>1. /\ l \in Nat /\ p \in Nat /\ h \in Nat /\ c \in Nat /\ pn \in Nat
        /\ ln = l + 1 /\ pn = p - 1
    BY <1>5, <1>6, PostVarTypes
  <2> HIDE DEF l, ln, p, pn, h, c
  <2>2. ln \in Nat /\ pn \in Nat /\ ln + pn + h + c = l + p + h + c + 0
    BY <2>1
  <2>3. scp_nrqbds_total' = scp_nrqbds_total + 0
    BY <1>1, PostVarTypes
  <2>4. Cardinality(Culling') = Cardinality(Culling)
        /\ UNCHANGED scp_hist_rqbds
    BY <1>1, <1>3
  <2> QED BY <1>7, <2>2, <2>3, <2>4, PostVarTypes, CountMove
          DEF IInv, l, ln, p, pn, h, c
<1> QED BY <1>3, <1>8, <1>9, <1>10, <1>11, <1>12 DEF IInv

-----------------------------------------------------------------------------
\* The network has buffers only until they are unlinked.
LEMMA NetworkRuns ==
  ASSUME IInv, NEW b \in attached
  PROVE  /\ stop \in {"no", "threads", "unlink"} /\ pc[Unregister] = "none"
         /\ scp_nrqbds_posted # 0 /\ Cardinality(attached) # 0
<1>1. Cardinality(attached) # 0
  BY PostVarTypes, CardZero
<1>2. scp_nrqbds_posted = Cardinality(attached) + Cardinality(Registering)
  BY DEF IInv, CountInv
<1>3. scp_nrqbds_posted # 0
  BY <1>1, <1>2, PostVarTypes
<1>4. stop \in {"no", "threads", "unlink"}
  BY <1>3, PassVarTypes DEF IInv, StopInv
<1> QED BY <1>1, <1>3, <1>4 DEF IInv, StopInv

\* The types of what belongs to the requests.
LEMMA ReqVarTypes ==
  ASSUME IInv
  PROVE  /\ scp_hist_seq \in Nat /\ scp_hist_seq \in {0} \union Requests
         /\ scp_hist_seq_culled \in {0} \union Requests
         /\ scp_hist_reqs \subseteq Requests
         /\ rq_rqbd \in [Requests -> Buffers \union {None}]
         /\ embedded \subseteq Requests /\ live \subseteq Requests
         /\ InUse \subseteq live
<1>1. /\ scp_hist_seq \in {0} \union Requests
      /\ scp_hist_seq_culled \in {0} \union Requests
      /\ scp_hist_reqs \subseteq Requests
      /\ rq_rqbd \in [Requests -> Buffers \union {None}]
      /\ embedded \subseteq Requests /\ live \subseteq Requests
  BY DEF IInv, BufferTypes
<1>2. scp_hist_seq \in Nat
  BY <1>1, Constants
<1>3. InUse \subseteq live
  BY DEF IInv, LiveInv, InUse
<1> QED BY <1>1, <1>2, <1>3

\* request_in_callback: a new request.
LEMMA ArrivalKeeps ==
  ASSUME IInv, NEW b \in Buffers, NEW unlinked \in BOOLEAN,
         request_in_callback(b, unlinked)
  PROVE  IInv'
<1> DEFINE s == scp_hist_seq + 1
<1>1. /\ b \in attached
      /\ scp_hist_seq < MaxMessages \/ (unlinked /\ stop = "unlink")
      /\ scp_hist_seq' = s /\ scp_hist_reqs' = scp_hist_reqs \union {s}
      /\ rq_rqbd' = [rq_rqbd EXCEPT ![s] = b]
      /\ rq_refcount' = [rq_refcount EXCEPT ![s] = 1]
      /\ live' = live \union {s} /\ waiting' = waiting \union {s}
      /\ unlinked => /\ embedded' = embedded \union {s}
                     /\ attached' = attached \ {b}
                     /\ scp_nrqbds_posted' = scp_nrqbds_posted - 1
                     /\ rqbd_refcount' = rqbd_refcount
      /\ ~unlinked => /\ rqbd_refcount' = [rqbd_refcount EXCEPT ![b] = @ + 1]
                      /\ UNCHANGED <<embedded, attached, scp_nrqbds_posted>>
      /\ WakeUp(pc)
      /\ UNCHANGED <<scp_rqbd_idle, scp_rqbd_posted, scp_hist_rqbds, rqbd,
                     rqbd_reqs, scp_nrqbds_total, scp_hist_seq_culled>>
      /\ UNCHANGED <<queued, timed, req, work, back, stop, scp_rqbd_allocating,
                     scp_rqbd_timeout, i, srv_hist_nrqbds_cpt_max>>
  BY DEF request_in_callback, listVars
<1>2. /\ stop \in {"no", "threads", "unlink"} /\ pc[Unregister] = "none"
      /\ scp_nrqbds_posted # 0 /\ Cardinality(attached) # 0
  BY <1>1, NetworkRuns
<1>3. /\ s \in Nat /\ scp_hist_seq \in Nat /\ s \in Requests
      /\ unlinked => \/ s <= MaxMessages
                     \/ /\ stop = "unlink"
                        /\ s + Cardinality(attached)
                             <= MaxMessages + Cardinality(Buffers) + 1
      /\ ~unlinked => s <= MaxMessages
  <2>1. Cardinality(attached) <= Cardinality(Buffers) /\ Cardinality(attached) \in Nat
    BY PostVarTypes, Constants, FS_Subset
  <2>2. \/ scp_hist_seq <= MaxMessages
        \/ /\ stop \notin {"no", "threads"}
           /\ scp_hist_seq + Cardinality(attached)
                <= MaxMessages + Cardinality(Buffers)
    BY DEF IInv, StopInv
  <2> DEFINE a == Cardinality(attached) n == Cardinality(Buffers)
  <2>3. /\ a \in Nat /\ n \in Nat /\ a <= n /\ a # 0 /\ MaxMessages \in Nat
        /\ scp_hist_seq \in Nat
    BY <1>2, <2>1, Constants, ReqVarTypes
  <2>4. /\ \/ scp_hist_seq <= MaxMessages
           \/ stop = "unlink" /\ scp_hist_seq + a <= MaxMessages + n
        /\ scp_hist_seq < MaxMessages \/ (unlinked /\ stop = "unlink")
    BY <1>1, <1>2, <2>2
  <2> HIDE DEF a, n
  <2>5. /\ s \in Nat /\ s \in 1 .. MaxMessages + n
        /\ unlinked => \/ s <= MaxMessages
                       \/ stop = "unlink" /\ s + a <= MaxMessages + n + 1
        /\ ~unlinked => s <= MaxMessages
    BY <2>3, <2>4
  <2> QED BY <2>3, <2>5 DEF a, n, Requests
<1>4. s \notin live /\ s \notin InUse
  <2>1. s \notin live
    BY <1>3, ReqVarTypes, Constants DEF IInv, LiveInv
  <2> QED BY <2>1, ReqVarTypes
<1>5. \A u \in live : u # s /\ u <= scp_hist_seq
  BY <1>4 DEF IInv, LiveInv
<1>6. /\ s \notin waiting /\ s \notin queued
      /\ \A p \in Procs : s \notin work[p] /\ req[p] # s
  BY <1>3, <1>4 DEF InUse
<1>7. s # 0 /\ \A u \in Requests : u \in live => u < s
  BY <1>3, <1>5, Constants
<1> HIDE DEF s
<1>8. /\ pc' \in [Procs -> Labels] /\ lwi' \in [Threads -> BOOLEAN]
      /\ \A p \in Procs : \/ pc'[p] = pc[p]
                          \/ p \in Threads /\ pc[p] = "asleep" /\ pc'[p] = "wait"
  BY <1>1, PassVarTypes, Woken
<1>9. Registering' = Registering /\ Culling' = Culling
  BY <1>8, SameHands
<1>10. Emptied' = Emptied
  BY <1>1, <1>9 DEF Emptied
<1>11. LocalInv'
  BY <1>1, <1>8 DEF IInv, LocalInv
<1>12. UnregInv' /\ pc'[Unregister] = "none"
  BY <1>1, <1>2, <1>8, Constants DEF IInv, UnregInv
<1>13. InUse' = InUse \union {s}
  <2>1. ASSUME NEW u \in Requests PROVE u \in InUse' <=> u \in InUse \/ u = s
    BY <1>1, <1>3 DEF InUse
  <2>2. InUse \subseteq Requests /\ InUse' \subseteq Requests
    BY DEF InUse
  <2> QED BY <1>3, <2>1, <2>2
<1>14. /\ rq_rqbd'[s] = b /\ \A u \in Requests \ {s} : rq_rqbd'[u] = rq_rqbd[u]
       /\ rq_refcount'[s] = 1
       /\ \A u \in Requests \ {s} : rq_refcount'[u] = rq_refcount[u]
  BY <1>1, <1>3, ReqVarTypes, PassVarTypes
<1>15. \A c \in Buffers : s \notin rqbd_reqs[c]
  BY <1>4 DEF IInv, LiveInv
<1>16. /\ Holding(b)' = Holding(b) \union {s} /\ s \notin Holding(b)
       /\ \A c \in Buffers \ {b} : Holding(c)' = Holding(c)
  BY <1>1, <1>4, <1>14, <1>15, ReqVarTypes DEF Holding
<1>17. /\ unlinked => Cardinality(attached') = Cardinality(attached) - 1
       /\ scp_nrqbds_posted' \in Nat /\ attached' \subseteq attached
  <2>1. unlinked => Cardinality(attached') = Cardinality(attached) - 1
    BY <1>1, PostVarTypes, FS_RemoveElement
  <2>2. scp_nrqbds_posted' \in Nat
    BY <1>1, <1>2, PostVarTypes
  <2> QED BY <1>1, <2>1, <2>2
<1>18. BufferTypes'
  <2>1. /\ rq_rqbd' \in [Requests -> Buffers \union {None}]
        /\ rq_refcount' \in [Requests -> Nat]
    BY <1>1, <1>3, ReqVarTypes, PassVarTypes
  <2>2. rqbd_refcount' \in [Buffers -> Nat]
    <3>1. [rqbd_refcount EXCEPT ![b] = @ + 1] \in [Buffers -> Nat]
      BY PostVarTypes
    <3> QED BY <1>1, <3>1, PostVarTypes
  <2>3. /\ attached' \subseteq Buffers /\ embedded' \subseteq Requests
        /\ live' \subseteq Requests /\ waiting' \subseteq Requests
        /\ scp_hist_reqs' \subseteq Requests /\ scp_hist_seq' \in Requests
    BY <1>1, <1>3, <1>17, PostVarTypes, PassVarTypes, ReqVarTypes
  <2> QED BY <1>1, <1>8, <1>17, <2>1, <2>2, <2>3 DEF IInv, BufferTypes
<1>19. RefInv'
  <2>1. \A q \in Procs : /\ pc'[q] = "dropped" <=> pc[q] = "dropped"
                         /\ pc'[q] = "taken" <=> pc[q] = "taken"
    BY <1>8
  <2>2. \A u : Holders(u)' = Holders(u)
    BY <1>1, <2>1 DEF Holders
  <2>3. Cardinality(Holders(s)) = 0
    <3>1. Holders(s) = {}
      BY <1>6 DEF Holders
    <3> QED BY <3>1, FS_EmptySet
  <2>4. ASSUME NEW u \in Requests
        PROVE  rq_refcount'[u] = Cardinality(Holders(u)')
                                   + (IF u \in waiting' \union queued' THEN 1 ELSE 0)
    <3>1. CASE u = s
      <4>1. Cardinality(Holders(u)') = 0
        BY <2>2, <2>3, <3>1
      <4>2. rq_refcount'[u] = 1 /\ u \in waiting'
        BY <1>1, <1>14, <3>1
      <4> QED BY <4>1, <4>2
    <3>2. CASE u # s
      <4>1. rq_refcount'[u] = rq_refcount[u]
            /\ (u \in waiting' \union queued' <=> u \in waiting \union queued)
        BY <1>1, <1>14, <3>2
      <4>2. Cardinality(Holders(u)') = Cardinality(Holders(u))
        BY <2>2
      <4> QED BY <4>1, <4>2 DEF IInv, RefInv
    <3> QED BY <3>1, <3>2
  <2>5. waiting' \intersect queued' = {}
    BY <1>1, <1>6 DEF IInv, RefInv
  <2>6. ASSUME NEW p \in Procs
        PROVE  /\ pc'[p] = "taken" => req'[p] \notin waiting' \union queued'
               /\ pc'[p] = "dropped" => rq_refcount'[req'[p]] = 0
               /\ \A q \in Procs :
                    req'[p] = req'[q] /\ pc'[p] = pc'[q]
                      /\ pc'[p] \in {"taken", "dropped"} => p = q
    <3>1. pc[p] = "dropped" => req[p] \in Requests \ {s}
      BY <1>6, PassVarTypes DEF IInv, LocalInv
    <3>2. pc[p] = "dropped" => rq_refcount[req[p]] = 0
      BY DEF IInv, RefInv
    <3>3. pc'[p] = "dropped" => rq_refcount'[req'[p]] = 0
      BY <1>1, <1>14, <2>1, <3>1, <3>2
    <3>4. pc'[p] = "taken" => req'[p] \notin waiting' \union queued'
      BY <1>1, <1>6, <2>1 DEF IInv, RefInv
    <3> QED BY <1>1, <2>1, <3>3, <3>4 DEF IInv, RefInv
  <2> QED BY <2>4, <2>5, <2>6 DEF RefInv
<1>20. LiveInv'
  <2>1. \A u \in live' : u <= scp_hist_seq' /\ rq_rqbd'[u] \in Buffers
    <3>1. \A u \in live : u \in Requests /\ u <= scp_hist_seq /\ rq_rqbd[u] \in Buffers
      BY ReqVarTypes DEF IInv, LiveInv
    <3>2. \A u \in Requests : u <= scp_hist_seq => u <= s
      BY <1>3, Constants DEF s
    <3>3. s <= s
      BY <1>3
    <3> QED BY <1>1, <1>4, <1>14, <3>1, <3>2, <3>3
  <2>2. ASSUME NEW u \in Requests
        PROVE  u \in InUse' <=> u \in live' /\ u \notin rqbd_reqs'[rq_rqbd'[u]]
    <3>1. CASE u = s
      BY <1>1, <1>13, <1>14, <1>15, <3>1
    <3>2. CASE u # s
      <4>1. u \in InUse <=> u \in live /\ u \notin rqbd_reqs[rq_rqbd[u]]
        BY DEF IInv, LiveInv
      <4> QED BY <1>1, <1>13, <1>14, <3>2, <4>1
    <3> QED BY <3>1, <3>2
  <2>3. timed' \subseteq InUse'
    BY <1>1, <1>13 DEF IInv, LiveInv
  <2>4. ASSUME NEW c \in Buffers, NEW u \in rqbd_reqs'[c]
        PROVE  u \in live' /\ rq_rqbd'[u] = c
    <3>1. u \in rqbd_reqs[c] /\ u \in live /\ rq_rqbd[u] = c
      BY <1>1, <2>4 DEF IInv, LiveInv
    <3>2. u \in Requests \ {s}
      BY <1>15, <3>1, ReqVarTypes
    <3> QED BY <1>1, <1>14, <3>1, <3>2
  <2>5. scp_hist_reqs' \subseteq live'
    BY <1>1 DEF IInv, LiveInv
  <2>6. ASSUME NEW p \in Culling'
        PROVE  rqbd_reqs'[rqbd'[p]] \intersect scp_hist_reqs' = {}
    <3>1. rqbd_reqs[rqbd[p]] \intersect scp_hist_reqs = {} /\ p \in Culling
      BY <1>9 DEF IInv, LiveInv
    <3>2. rqbd[p] \in Buffers
      BY <3>1, PostVarTypes DEF Emptied
    <3> QED BY <1>1, <1>15, <3>1, <3>2
  <2>7. CursorSafe'
    <3>1. \A u \in 1 .. s : u = s \/ u \in 1 .. scp_hist_seq
      BY <1>3 DEF s
    <3>2. CursorSafe
      BY DEF IInv, LiveInv
    <3> QED BY <1>1, <3>1, <3>2 DEF CursorSafe
  <2> QED BY <2>1, <2>2, <2>3, <2>4, <2>5, <2>6, <2>7 DEF LiveInv
<1>21. PlaceInv'
  BY <1>1, <1>9, <1>10 DEF IInv, PlaceInv
<1>22. PostedInv'
  <2>1. ASSUME NEW q \in Registering'
        PROVE  (/\ rqbd[q] \in scp_rqbd_posted \ attached
                /\ Holding(rqbd[q]) = {} /\ rqbd_reqs[rqbd[q]] = {})'
    <3>1. /\ rqbd[q] \in scp_rqbd_posted \ attached
          /\ Holding(rqbd[q]) = {} /\ rqbd_reqs[rqbd[q]] = {}
      BY <1>9 DEF IInv, PostedInv
    <3>2. rqbd[q] # b /\ rqbd[q] \in Buffers
      BY <1>1, <3>1, PostVarTypes
    <3>3. \A u \in live : ~(rq_rqbd[u] = rqbd[q] /\ u \notin rqbd_reqs[rqbd[q]])
      BY <3>1 DEF Holding
    <3>4. \A u \in live' : ~(rq_rqbd'[u] = rqbd[q] /\ u \notin rqbd_reqs[rqbd[q]])
      BY <1>1, <1>4, <1>14, <3>2, <3>3, ReqVarTypes
    <3> QED BY <1>1, <1>17, <3>1, <3>4 DEF Holding
  <2>2. ASSUME NEW c \in Buffers
        PROVE  /\ Holding(c)' # {} => c \in scp_rqbd_posted'
               /\ c \in scp_rqbd_posted' => \/ c \in attached' \/ Holding(c)' # {}
                                            \/ \E q \in Registering' : rqbd'[q] = c
               /\ rqbd_reqs'[c] # {} =>
                    c \in scp_rqbd_posted' \union ToSet(scp_hist_rqbds')
                            \union Emptied'
    <3>1. attached \subseteq attached' \union {b} /\ b \in scp_rqbd_posted
      BY <1>1 DEF IInv, PostedInv
    <3>2. CASE c = b
      BY <1>1, <1>10, <1>16, <3>1, <3>2
    <3>3. CASE c # b
      BY <1>1, <1>9, <1>10, <1>16, <3>1, <3>3 DEF IInv, PostedInv
    <3> QED BY <3>2, <3>3
  <2>3. attached' \subseteq scp_rqbd_posted'
    BY <1>1, <1>17 DEF IInv, PostedInv
  <2> QED BY <2>1, <2>2, <2>3 DEF PostedInv
<1>23. HeldInv'
  <2>1. IsFiniteSet(Holding(b)) /\ Cardinality(Holding(b)) \in Nat
    BY Finite, CardZero DEF IInv
  <2>2. Cardinality(Holding(b)') = Cardinality(Holding(b)) + 1
    BY <1>16, <2>1, FS_AddElement
  <2>3. rqbd_refcount[b] = Cardinality(Holding(b)) + 1
    BY <1>1 DEF IInv, HeldInv
  <2>4. rqbd_refcount'[b] = Cardinality(Holding(b)')
                              + (IF b \in attached' THEN 1 ELSE 0)
    <3>1. CASE unlinked
      BY <1>1, <2>1, <2>2, <2>3, <3>1
    <3>2. CASE ~unlinked
      <4>1. rqbd_refcount'[b] = rqbd_refcount[b] + 1 /\ b \in attached'
        BY <1>1, <3>2, PostVarTypes
      <4> QED BY <2>1, <2>2, <2>3, <4>1
    <3> QED BY <3>1, <3>2
  <2>5. ASSUME NEW c \in Buffers, c # b
        PROVE  rqbd_refcount'[c] = Cardinality(Holding(c)')
                                     + (IF c \in attached' THEN 1 ELSE 0)
    <3>1. rqbd_refcount'[c] = rqbd_refcount[c] /\ (c \in attached' <=> c \in attached)
      BY <1>1, <2>5, PostVarTypes
    <3> QED BY <1>16, <2>5, <3>1 DEF IInv, HeldInv
  <2>6. ASSUME NEW u \in live' \intersect embedded'
        PROVE  /\ rq_rqbd'[u] \notin attached'
               /\ \A v \in live' \intersect embedded' :
                    rq_rqbd'[u] = rq_rqbd'[v] => u = v
    <3>1. ASSUME NEW v \in live' \intersect embedded', v # s
          PROVE  /\ v \in live \intersect embedded /\ rq_rqbd'[v] = rq_rqbd[v]
                 /\ rq_rqbd[v] \notin attached /\ rq_rqbd[v] # b
      <4>1. v \in live \intersect embedded /\ v \in Requests
        BY <1>1, <3>1, ReqVarTypes
      <4> QED BY <1>1, <1>14, <3>1, <4>1 DEF IInv, HeldInv
    <3>2. s \in embedded' => unlinked \/ s \in embedded
      BY <1>1
    <3>3. ASSUME u = s
          PROVE  rq_rqbd'[u] \notin attached'
      <4>1. CASE unlinked
        BY <1>1, <1>14, <3>3, <4>1
      <4>2. CASE ~unlinked
        BY <1>1, <1>4, <3>2, <3>3, <4>2 DEF IInv, HeldInv
      <4> QED BY <4>1, <4>2
    <3>4. u # s => rq_rqbd'[u] \notin attached'
      BY <1>17, <3>1
    <3>5. ASSUME NEW v \in live' \intersect embedded', rq_rqbd'[u] = rq_rqbd'[v]
          PROVE  u = v
      BY <1>14, <3>1, <3>5 DEF IInv, HeldInv
    <3> QED BY <3>3, <3>4, <3>5
  <2>7. embedded' \subseteq live'
    BY <1>1 DEF IInv, HeldInv
  <2> QED BY <2>4, <2>5, <2>6, <2>7 DEF HeldInv
<1>24. CountInv'
  <2>1. Cardinality(Culling') = Cardinality(Culling)
        /\ Cardinality(Registering') = Cardinality(Registering)
    BY <1>9
  <2>2. scp_nrqbds_posted = Cardinality(attached) + Cardinality(Registering)
    BY DEF IInv, CountInv
  <2>3. scp_nrqbds_posted' = Cardinality(attached') + Cardinality(Registering')
    <3>1. CASE unlinked
      <4> DEFINE a == Cardinality(attached) r == Cardinality(Registering)
                 n == scp_nrqbds_posted an == Cardinality(attached')
      <4>1. a \in Nat /\ r \in Nat /\ n = a + r /\ an = a - 1
        BY <1>17, <2>2, <3>1, PostVarTypes
      <4> HIDE DEF a, r, n, an
      <4>2. n - 1 = an + r
        BY <4>1
      <4> QED BY <1>1, <2>1, <3>1, <4>2 DEF a, r, n, an
    <3>2. CASE ~unlinked
      BY <1>1, <2>1, <2>2, <3>2
    <3> QED BY <3>1, <3>2
  <2> QED BY <1>1, <2>1, <2>3 DEF IInv, CountInv
<1>25. StopInv'
  <2>1. \/ scp_hist_seq' <= MaxMessages
        \/ /\ stop' \notin {"no", "threads"}
           /\ scp_hist_seq' + Cardinality(attached')
                <= MaxMessages + Cardinality(Buffers)
    <3>1. CASE unlinked
      <4> DEFINE a == Cardinality(attached) an == Cardinality(attached')
                 n == Cardinality(Buffers)
      <4>1. /\ a \in Nat /\ n \in Nat /\ an = a - 1 /\ MaxMessages \in Nat
            /\ \/ s <= MaxMessages
               \/ stop = "unlink" /\ s + a <= MaxMessages + n + 1
        BY <1>3, <1>17, <3>1, Constants, PostVarTypes
      <4> HIDE DEF a, an, n
      <4>2. s <= MaxMessages \/ (stop = "unlink" /\ s + an <= MaxMessages + n)
        BY <1>3, <4>1
      <4> QED BY <1>1, <4>2 DEF an, n
    <3>2. CASE ~unlinked
      BY <1>1, <1>3, <3>2
    <3> QED BY <3>1, <3>2
  <2>2. stop = "unlink" => \A t \in Threads : pc[t] = "exit"
    BY DEF IInv, StopInv
  <2>3. stop' = "unlink" => \A t \in Threads : pc'[t] = "exit"
    BY <1>1, <1>8, <2>2, Constants
  <2> QED BY <1>1, <1>2, <1>12, <2>1, <2>3 DEF StopInv
<1> QED BY <1>11, <1>12, <1>18, <1>19, <1>20, <1>21, <1>22, <1>23, <1>24, <1>25
        DEF IInv

-----------------------------------------------------------------------------
\* Steps that finish a request and cull the history.

\* What such a step leaves alone.
finishVars == <<work, waiting, queued, rq_refcount, scp_hist_seq, lwi, stop,
                srv_hist_nrqbds_cpt_max, scp_nrqbds_posted, scp_nrqbds_total,
                scp_rqbd_allocating, scp_rqbd_timeout, i, attached>>

\* A request that lost its last reference is known to one process only, and
\* still holds its buffer.
LEMMA Finished ==
  ASSUME IInv, NEW p \in Procs, pc[p] = "dropped"
  PROVE  /\ req[p] \in Requests /\ req[p] \in InUse /\ req[p] \in live
         /\ req[p] \notin waiting \union queued
         /\ \A q \in Procs : req[p] \notin work[q]
         /\ \A q \in Procs \ {p} : req[q] # req[p]
         /\ rq_rqbd[req[p]] \in Buffers
         /\ req[p] \in Holding(rq_rqbd[req[p]])
         /\ rq_rqbd[req[p]] \in scp_rqbd_posted
         /\ \A c \in Buffers : req[p] \notin rqbd_reqs[c]
<1> DEFINE s == req[p]
<1>1. s \in Requests
  BY PassVarTypes DEF IInv, LocalInv
<1>2. /\ IsFiniteSet(Holders(s)) /\ rq_refcount[s] = 0
      /\ rq_refcount[s] = Cardinality(Holders(s))
                            + (IF s \in waiting \union queued THEN 1 ELSE 0)
  BY <1>1, Finite DEF IInv, RefInv
<1>3. Cardinality(Holders(s)) \in Nat
  BY <1>2, CardZero
<1>4. Cardinality(Holders(s)) = 0 /\ s \notin waiting \union queued
  <2> DEFINE h == Cardinality(Holders(s))
  <2>1. h \in Nat /\ 0 = h + (IF s \in waiting \union queued THEN 1 ELSE 0)
    BY <1>2, <1>3
  <2> HIDE DEF h
  <2>2. h = 0 /\ s \notin waiting \union queued
    BY <2>1
  <2> QED BY <2>2 DEF h
<1>5. Holders(s) = {}
  BY <1>2, <1>4, CardZero
<1>6. \A q \in Procs : s \notin work[q] /\ (req[q] = s => pc[q] = "dropped")
  BY <1>5 DEF Holders
<1>7. \A q \in Procs \ {p} : req[q] # s
  BY <1>6 DEF IInv, RefInv
<1>8. s \in InUse
  BY <1>1 DEF InUse
<1>9. s \in live /\ s \notin rqbd_reqs[rq_rqbd[s]] /\ rq_rqbd[s] \in Buffers
  BY <1>1, <1>8 DEF IInv, LiveInv
<1>10. \A c \in Buffers : s \notin rqbd_reqs[c]
  BY <1>9 DEF IInv, LiveInv
<1>11. s \in Holding(rq_rqbd[s])
  BY <1>9 DEF Holding
<1>12. rq_rqbd[s] \in scp_rqbd_posted
  BY <1>9, <1>11 DEF IInv, PostedInv
<1> QED BY <1>1, <1>4, <1>6, <1>7, <1>8, <1>9, <1>10, <1>11, <1>12

\* The last reference to a buffer, and one that is not.
LEMMA LastReference ==
  ASSUME IInv, NEW p \in Procs, pc[p] = "dropped",
         NEW b, b = rq_rqbd[req[p]]
  PROVE  /\ rqbd_refcount[b] \in Nat \ {0}
         /\ rqbd_refcount[b] = 1 => Holding(b) = {req[p]} /\ b \notin attached
         /\ rqbd_refcount[b] # 1 =>
              b \in attached \/ \E u \in Holding(b) : u # req[p]
<1>1. b \in Buffers /\ req[p] \in Holding(b)
  BY Finished
<1>2. /\ IsFiniteSet(Holding(b))
      /\ rqbd_refcount[b] = Cardinality(Holding(b))
                              + (IF b \in attached THEN 1 ELSE 0)
  BY <1>1, Finite DEF IInv, HeldInv
<1> DEFINE h == Cardinality(Holding(b)) r == rqbd_refcount[b]
<1>3. h \in Nat /\ h # 0 /\ r = h + (IF b \in attached THEN 1 ELSE 0)
  BY <1>1, <1>2, CardZero
<1>4. /\ h = 1 => \E x : Holding(b) = {x}
      /\ Holding(b) = {req[p]} => h = 1
  BY <1>2, CardZero
<1> HIDE DEF h, r
<1>5. /\ r \in Nat \ {0}
      /\ r = 1 => h = 1 /\ b \notin attached
      /\ r # 1 => h # 1 \/ b \in attached
  BY <1>3
<1>6. h = 1 => Holding(b) = {req[p]}
  BY <1>1, <1>4
<1>7. h # 1 => \E u \in Holding(b) : u # req[p]
  BY <1>1, <1>4
<1> QED BY <1>5, <1>6, <1>7 DEF r

\* A process that finished its request goes on, with the next buffer of the
\* history or to where it was called.
LEMMA FinishKeeps ==
  ASSUME IInv, NEW p \in Procs, pc[p] \in {"dropped", "cull"},
         NEW l, NEW x \in Buffers \union {None},
         \/ l = "cull" /\ back' = back /\ x # None
         \/ l = back[p] /\ back' = [back EXCEPT ![p] = "none"] /\ x = None,
         pc' = [pc EXCEPT ![p] = l], rqbd' = [rqbd EXCEPT ![p] = x],
         req' = [req EXCEPT ![p] = 0],
         UNCHANGED finishVars
  PROVE  /\ LocalInv' /\ UnregInv' /\ RefInv' /\ StopInv'
         /\ Registering' = Registering /\ Culling' \ {p} = Culling \ {p}
         /\ p \in Culling' <=> x # None
         /\ InUse' = InUse \ {req[p]}
         /\ pc' \in [Procs -> Labels] /\ back' \in [Procs -> Labels]
         /\ req' \in [Procs -> {0} \union Requests]
         /\ rqbd' \in [Procs -> Buffers \union {None}] /\ rqbd'[p] = x
         /\ \A q \in Procs \ {p} : rqbd'[q] = rqbd[q]
<1>1. Unregister \in Procs /\ Threads \subseteq Procs /\ Unregister \notin Threads
      /\ p \in Threads \union {Unregister} /\ None \notin Buffers
      /\ 0 \notin Requests
  BY Constants DEF Procs
<1>2. UNCHANGED <<work, waiting, queued, rq_refcount, scp_hist_seq, stop,
                  srv_hist_nrqbds_cpt_max, scp_nrqbds_posted, scp_nrqbds_total,
                  attached>>
  BY DEF finishVars
<1>3. /\ back[p] \in Backs /\ req[p] \notin work[p]
      /\ work[p] # {} => back[p] = "early"
      /\ pc[p] = "cull" => req[p] = 0
  BY DEF IInv, LocalInv
<1>4. /\ l \in Backs \union {"cull"} /\ l \in Labels
      /\ l = "cull" <=> x # None
      /\ x = None => l = back[p] /\ back'[p] = "none"
      /\ x # None => l = "cull" /\ back' = back
  BY <1>1, <1>3, PassVarTypes DEF Backs, Labels
<1>5. /\ pc'[p] = l /\ req'[p] = 0 /\ rqbd'[p] = x /\ back'[p] \in Backs
      /\ \A q \in Procs \ {p} : /\ pc'[q] = pc[q] /\ req'[q] = req[q]
                                /\ rqbd'[q] = rqbd[q] /\ back'[q] = back[q]
  BY <1>3, PassVarTypes, PostVarTypes DEF Backs
<1>6. /\ pc' \in [Procs -> Labels] /\ back' \in [Procs -> Labels]
      /\ req' \in [Procs -> {0} \union Requests]
      /\ rqbd' \in [Procs -> Buffers \union {None}]
  <2>1. "none" \in Labels
    BY DEF Labels
  <2> QED BY <1>4, <2>1, PassVarTypes, PostVarTypes
<1>7. LocalInv'
  <2> SUFFICES ASSUME NEW q \in Procs
               PROVE  (/\ req[q] # 0 <=> pc[q] \in {"taken", "sent", "drop", "dropped"}
                       /\ rqbd[q] # None <=> pc[q] \in {"register", "cull"}
                       /\ work[q] # {} =>
                            \/ pc[q] = "early"
                            \/ /\ pc[q] \in {"sent", "drop", "dropped", "cull"}
                               /\ back[q] = "early"
                       /\ req[q] \notin work[q]
                       /\ back[q] \in Backs)'
    BY DEF LocalInv
  <2>1. CASE q = p
    <3>1. 0 \notin work[p]
      BY <1>1, PassVarTypes
    <3>2. req'[p] = 0 /\ pc'[p] \notin {"taken", "sent", "drop", "dropped", "register"}
      BY <1>4, <1>5 DEF Backs
    <3>3. rqbd'[p] # None <=> pc'[p] = "cull"
      BY <1>4, <1>5
    <3>4. work'[p] # {} => \/ pc'[p] = "early"
                           \/ pc'[p] = "cull" /\ back'[p] = "early"
      BY <1>2, <1>3, <1>4, <1>5
    <3> QED BY <1>2, <1>5, <2>1, <3>1, <3>2, <3>3, <3>4
  <2>2. CASE q # p
    BY <1>2, <1>5, <2>2 DEF IInv, LocalInv
  <2> QED BY <2>1, <2>2
<1>8. Registering' = Registering /\ Culling' \ {p} = Culling \ {p}
      /\ (p \in Culling' <=> x # None)
  <2>1. Registering' = Registering
    BY <1>1, <1>4, <1>5 DEF Registering, Backs
  <2> QED BY <1>4, <1>5, <2>1 DEF Culling
<1>9. InUse' = InUse \ {req[p]}
  <2>1. CASE pc[p] = "cull"
    <3>1. req' = req
      BY <1>3, <2>1, PassVarTypes
    <3> QED BY <1>1, <1>2, <1>3, <2>1, <3>1 DEF InUse
  <2>2. CASE pc[p] = "dropped"
    <3>1. /\ req[p] \notin waiting \union queued
          /\ \A q \in Procs : req[p] \notin work[q]
          /\ \A q \in Procs \ {p} : req[q] # req[p]
      BY <2>2, Finished
    <3>2. ASSUME NEW u \in Requests
          PROVE  u \in InUse' <=> u \in InUse /\ u # req[p]
      <4>1. CASE u = req[p]
        <5>1. u # 0 /\ u \notin waiting' \union queued'
              /\ \A q \in Procs : u \notin work'[q] /\ req'[q] # u
          BY <1>1, <1>2, <1>5, <3>1, <4>1
        <5> QED BY <4>1, <5>1 DEF InUse
      <4>2. CASE u # req[p]
        <5>1. \A q \in Procs : req'[q] = u <=> req[q] = u
          BY <1>1, <1>5, <4>2
        <5> QED BY <1>2, <4>2, <5>1 DEF InUse
      <4> QED BY <4>1, <4>2
    <3>3. InUse \subseteq Requests /\ InUse' \subseteq Requests
      BY DEF InUse
    <3> QED BY <3>2, <3>3
  <2> QED BY <2>1, <2>2
<1>10. RefInv'
  <2>1. \A q \in Procs : pc'[q] \in {"taken", "dropped"} =>
          q # p /\ pc'[q] = pc[q] /\ req'[q] = req[q]
    BY <1>4, <1>5 DEF Backs
  <2>2. ASSUME NEW u \in Requests PROVE Holders(u)' = Holders(u)
    <3>1. ASSUME NEW q \in Procs
          PROVE  (u \in work'[q] \/ (req'[q] = u /\ pc'[q] # "dropped"))
                   <=> (u \in work[q] \/ (req[q] = u /\ pc[q] # "dropped"))
      <4>1. CASE q = p
        <5>1. ~(req'[q] = u) /\ ~(req[q] = u /\ pc[q] # "dropped")
          BY <1>1, <1>3, <1>5, <4>1
        <5> QED BY <1>2, <5>1
      <4>2. CASE q # p
        BY <1>2, <1>5, <4>2
      <4> QED BY <4>1, <4>2
    <3> QED BY <3>1 DEF Holders
  <2>3. \A u \in Requests :
          rq_refcount'[u] = Cardinality(Holders(u)')
                              + (IF u \in waiting' \union queued' THEN 1 ELSE 0)
    BY <1>2, <2>2 DEF IInv, RefInv
  <2>4. waiting' \intersect queued' = {}
    BY <1>2 DEF IInv, RefInv
  <2>5. ASSUME NEW r \in Procs
        PROVE  /\ pc'[r] = "taken" => req'[r] \notin waiting' \union queued'
               /\ pc'[r] = "dropped" => rq_refcount'[req'[r]] = 0
    BY <1>2, <2>1 DEF IInv, RefInv
  <2>6. ASSUME NEW r \in Procs, NEW q \in Procs, req'[r] = req'[q],
               pc'[r] = pc'[q], pc'[r] \in {"taken", "dropped"}
        PROVE  r = q
    BY <2>1, <2>6 DEF IInv, RefInv
  <2> QED BY <2>3, <2>4, <2>5, <2>6 DEF RefInv
<1>11. UnregInv' /\ StopInv'
  <2>1. CASE p \in Threads
    <3>1. pc'[Unregister] = pc[Unregister] /\ back'[Unregister] = back[Unregister]
      BY <1>1, <1>5, <2>1
    <3> QED BY <1>2, <2>1, <3>1, ThreadKeepsStop
  <2>2. CASE p = Unregister
    <3>1. stop = "purging" /\ back[p] \in {"none", "purge"}
      BY <2>2 DEF IInv, StopInv, UnregInv
    <3>2. pc'[p] \in {"cull", "none", "purge"} /\ back'[p] \in {"none", "purge"}
      BY <1>4, <1>5, <3>1
    <3>3. UnregInv'
      BY <2>2, <3>2 DEF UnregInv
    <3>4. \A t \in Threads : pc'[t] = pc[t]
      BY <1>1, <1>5, <2>2
    <3>5. StopInv'
      BY <1>2, <2>2, <3>1, <3>2, <3>4 DEF IInv, StopInv
    <3> QED BY <3>3, <3>5
  <2> QED BY <1>1, <2>1, <2>2
<1> QED BY <1>5, <1>6, <1>7, <1>8, <1>9, <1>10, <1>11

\* Culled: a reader's pointer is followed only to a request that is listed.
LEMMA CulledKeeps ==
  ASSUME IInv, NEW R \in SUBSET Requests, Culled(R),
         scp_hist_seq' = scp_hist_seq
  PROVE  /\ CursorSafe' /\ scp_hist_seq_culled' \in {0} \union Requests
         /\ scp_hist_reqs' = scp_hist_reqs \ R
<1> DEFINE S == {scp_hist_seq_culled} \union R
           n == MaxMessages + Cardinality(Buffers)
           m == Max(S)
<1>1. /\ S \in SUBSET Nat /\ S \subseteq {0} \union Requests /\ S # {}
      /\ scp_hist_seq_culled \in S /\ R \subseteq S
  <2>1. scp_hist_seq_culled \in {0} \union Requests /\ Requests \subseteq Nat
    BY ReqVarTypes, Constants
  <2>2. S \subseteq {0} \union Requests
    BY <2>1
  <2>3. {0} \union Requests \subseteq Nat
    BY <2>1
  <2> QED BY <2>2, <2>3
<1>2. n \in Nat /\ 0 <= n /\ \A u \in Requests : u <= n
  BY Constants
<1>3. scp_hist_reqs' = scp_hist_reqs \ R /\ scp_hist_seq_culled' = m
  BY DEF Culled
<1> HIDE DEF S, n
<1>4. m \in S /\ \A u \in S : u <= m
  <2>1. \A u \in S : u <= n
    BY <1>1, <1>2
  <2> QED BY <1>1, <1>2, <2>1, MaxFacts
<1> HIDE DEF m
<1>5. ASSUME NEW u \in 1 .. scp_hist_seq, u > m
      PROVE  u > scp_hist_seq_culled /\ u \notin R
  <2>1. u \in Int /\ m \in Nat /\ scp_hist_seq_culled \in Nat
        /\ scp_hist_seq_culled <= m
    BY <1>1, <1>4
  <2>2. u > scp_hist_seq_culled
    BY <1>5, <2>1
  <2>3. u \notin R
    BY <1>1, <1>4, <1>5, <2>1
  <2> QED BY <2>2, <2>3
<1>6. \A u \in 1 .. scp_hist_seq : u > scp_hist_seq_culled => u \in scp_hist_reqs
  BY DEF IInv, LiveInv, CursorSafe
<1>7. CursorSafe'
  <2>1. \A u \in 1 .. scp_hist_seq : u > m => u \in scp_hist_reqs \ R
    BY <1>5, <1>6
  <2> QED BY <1>3, <2>1 DEF CursorSafe
<1> QED BY <1>1, <1>3, <1>4, <1>7

\* CullLoop: the oldest buffer of the history is taken, or the loop ends.
LEMMA CullTakes ==
  ASSUME IInv, NEW p \in Procs,
         NEW hist \in Seq(Buffers), IsInjective(hist),
         NEW reqs \in [Buffers -> SUBSET Requests],
         CullLoop(p, hist, reqs), scp_hist_seq' = scp_hist_seq
  PROVE  \E x \in Buffers \union {None} : \E l :
           /\ \/ l = "cull" /\ back' = back /\ x # None
              \/ l = back[p] /\ back' = [back EXCEPT ![p] = "none"] /\ x = None
           /\ pc' = [pc EXCEPT ![p] = l] /\ rqbd' = [rqbd EXCEPT ![p] = x]
           /\ scp_hist_rqbds' \in Seq(Buffers) /\ IsInjective(scp_hist_rqbds')
           /\ ToSet(hist) = ToSet(scp_hist_rqbds') \union ({x} \ {None})
           /\ x \notin ToSet(scp_hist_rqbds')
           /\ Len(hist) = Len(scp_hist_rqbds') + (IF x = None THEN 0 ELSE 1)
           /\ x = None => scp_hist_rqbds' = hist /\ Len(hist) <= srv_hist_nrqbds_cpt_max
           /\ scp_hist_reqs' = scp_hist_reqs \ (IF x = None THEN {} ELSE reqs[x])
           /\ CursorSafe' /\ scp_hist_seq_culled' \in {0} \union Requests
<1>1. /\ Len(hist) \in Nat /\ srv_hist_nrqbds_cpt_max \in Nat
      /\ None \notin Buffers
  <2>1. srv_hist_nrqbds_cpt_max \in Nat
    BY BuffersAssumption DEF IInv, BufferTypes
  <2> QED BY <2>1, LenProperties, Constants
<1>2. CASE Len(hist) > srv_hist_nrqbds_cpt_max
  <2>1. hist # <<>>
    <3>1. Len(hist) # 0
      BY <1>1, <1>2
    <3> QED BY <3>1, EmptyList
  <2>2. /\ Tail(hist) \in Seq(Buffers) /\ Len(Tail(hist)) = Len(hist) - 1
        /\ IsInjective(Tail(hist))
        /\ Head(hist) \in ToSet(hist) /\ Head(hist) \in Buffers
        /\ ToSet(Tail(hist)) = ToSet(hist) \ {Head(hist)}
    BY <2>1, TailFacts
  <2>3. /\ scp_hist_rqbds' = Tail(hist) /\ Culled(reqs[Head(hist)])
        /\ rqbd' = [rqbd EXCEPT ![p] = Head(hist)]
        /\ pc' = [pc EXCEPT ![p] = "cull"] /\ back' = back
    BY <1>2 DEF CullLoop, Goto
  <2> DEFINE x == Head(hist)
  <2>4. reqs[x] \in SUBSET Requests
    BY <2>2
  <2>5. /\ CursorSafe' /\ scp_hist_seq_culled' \in {0} \union Requests
        /\ scp_hist_reqs' = scp_hist_reqs \ reqs[x]
    BY <2>3, <2>4, CulledKeeps
  <2>6. x # None /\ x \in Buffers \union {None}
    BY <1>1, <2>2
  <2>7. /\ Len(hist) = Len(scp_hist_rqbds') + 1
        /\ ToSet(hist) = ToSet(scp_hist_rqbds') \union ({x} \ {None})
        /\ x \notin ToSet(scp_hist_rqbds')
    BY <1>1, <2>2, <2>3, <2>6
  <2> HIDE DEF x
  <2> USE <2>6
  <2> WITNESS x \in Buffers \union {None}
  <2> WITNESS "cull"
  <2> QED BY <2>2, <2>3, <2>5, <2>6, <2>7 DEF x
<1>3. CASE ~(Len(hist) > srv_hist_nrqbds_cpt_max)
  <2>1. /\ scp_hist_rqbds' = hist
        /\ rqbd' = [rqbd EXCEPT ![p] = None]
        /\ pc' = [pc EXCEPT ![p] = back[p]]
        /\ back' = [back EXCEPT ![p] = "none"]
        /\ UNCHANGED <<scp_hist_reqs, scp_hist_seq_culled>>
    BY <1>3 DEF CullLoop, Return, Goto
  <2>2. CursorSafe' /\ scp_hist_seq_culled' \in {0} \union Requests
    BY <2>1, ReqVarTypes DEF IInv, LiveInv, CursorSafe
  <2>3. None \notin ToSet(hist)
    BY <1>1, LenProperties, ElementOfSeq DEF ToSet
  <2>4. Len(hist) <= srv_hist_nrqbds_cpt_max /\ Len(hist) = Len(hist) + 0
    BY <1>1, <1>3
  <2> WITNESS None \in Buffers \union {None}
  <2> WITNESS back[p]
  <2> QED BY <2>1, <2>2, <2>3, <2>4
<1> QED BY <1>2, <1>3

\* The buffers that others than p are emptying.
EmptiedBut(p) == {rqbd[q] : q \in Culling \ {p}}

\* The places of the buffers after a turn of the loop, if they were in one
\* place each before it.
LEMMA CullPlaces ==
  ASSUME IInv, NEW p \in Procs, NEW x \in Buffers \union {None},
         Registering' = Registering, p \notin Registering,
         Culling' \ {p} = Culling \ {p}, p \in Culling' <=> x # None,
         rqbd'[p] = x, \A q \in Procs \ {p} : rqbd'[q] = rqbd[q],
         NEW hist, ToSet(hist) = ToSet(scp_hist_rqbds') \union ({x} \ {None}),
         x \notin ToSet(scp_hist_rqbds'),
         IsInjective(scp_rqbd_idle'), IsInjective(scp_hist_rqbds'),
         ToSet(scp_rqbd_idle') \intersect scp_rqbd_posted' = {},
         ToSet(scp_rqbd_idle') \intersect ToSet(hist) = {},
         scp_rqbd_posted' \intersect ToSet(hist) = {},
         EmptiedBut(p) \intersect (ToSet(scp_rqbd_idle') \union scp_rqbd_posted'
                                     \union ToSet(hist)) = {},
         \A t \in Registering : rqbd[t] \in scp_rqbd_posted'
  PROVE  PlaceInv' /\ Emptied' = EmptiedBut(p) \union ({x} \ {None})
<1> DEFINE H == ToSet(hist)
           K == EmptiedBut(p)
<1>0. /\ K = {rqbd[q] : q \in Culling \ {p}}
      /\ H = ToSet(scp_hist_rqbds') \union ({x} \ {None})
      /\ ToSet(scp_rqbd_idle') \intersect H = {}
      /\ scp_rqbd_posted' \intersect H = {}
      /\ K \intersect (ToSet(scp_rqbd_idle') \union scp_rqbd_posted' \union H) = {}
  BY DEF EmptiedBut
<1> HIDE DEF H, K
<1>1. Culling \subseteq Procs /\ Registering \subseteq Procs /\ Culling' \subseteq Procs
  BY Constants DEF Culling, Registering
<1>2. Emptied' = K \union ({x} \ {None})
  <2>1. Emptied' = {rqbd'[q] : q \in Culling'}
    BY DEF Emptied
  <2>2. \A q \in Culling' : q = p \/ (q \in Culling \ {p} /\ rqbd'[q] = rqbd[q])
    BY <1>1
  <2>3. \A q \in Culling \ {p} : q \in Culling' /\ rqbd'[q] = rqbd[q]
    BY <1>1
  <2>4. ASSUME NEW c \in Emptied' PROVE c \in K \union ({x} \ {None})
    <3>1. PICK q \in Culling' : c = rqbd'[q]
      BY <2>1
    <3> QED BY <1>0, <2>2, <3>1
  <2>5. ASSUME NEW c \in K PROVE c \in Emptied'
    <3>1. PICK q \in Culling \ {p} : c = rqbd[q]
      BY <1>0
    <3> QED BY <2>1, <2>3, <3>1
  <2>6. x # None => x \in Emptied'
    BY <2>1
  <2> QED BY <2>4, <2>5, <2>6
<1>3. ASSUME NEW q \in Culling' \union Registering', NEW r \in Culling' \union Registering',
             rqbd'[q] = rqbd'[r]
      PROVE  q = r
  <2>1. ASSUME NEW v \in Culling' \union Registering', v # p
        PROVE  /\ v \in Culling \union Registering /\ rqbd'[v] = rqbd[v]
               /\ rqbd[v] \in K \union scp_rqbd_posted'
    BY <1>0, <1>1, <2>1
  <2>2. p \in Culling' \union Registering' => rqbd'[p] \in H
    BY <1>0
  <2>3. CASE q # p /\ r # p
    BY <1>3, <2>1, <2>3 DEF IInv, PlaceInv
  <2>4. CASE q = p \/ r = p
    BY <1>0, <1>3, <2>1, <2>2, <2>4
  <2> QED BY <2>3, <2>4
<1>4. Emptied' \intersect (ToSet(scp_rqbd_idle') \union scp_rqbd_posted'
                             \union ToSet(scp_hist_rqbds')) = {}
  BY <1>0, <1>2
<1> QED BY <1>0, <1>2, <1>3, <1>4 DEF PlaceInv, H, K

\* The references of the buffers after a request let go of its own.
LEMMA HeldAfter ==
  ASSUME IInv, NEW s, \A c \in Buffers : Holding(c)' = Holding(c) \ {s},
         rqbd_refcount' \in [Buffers -> Nat],
         \A c \in Buffers :
           rqbd_refcount'[c] = rqbd_refcount[c] - (IF s \in Holding(c) THEN 1 ELSE 0),
         live' \subseteq live, embedded' \subseteq embedded \intersect live',
         \A u \in live' : rq_rqbd'[u] = rq_rqbd[u], attached' = attached
  PROVE  HeldInv'
<1>1. ASSUME NEW c \in Buffers
      PROVE  rqbd_refcount'[c] = Cardinality(Holding(c)')
                                   + (IF c \in attached' THEN 1 ELSE 0)
  <2>1. IsFiniteSet(Holding(c))
    BY Finite DEF IInv
  <2>2. /\ Cardinality(Holding(c)) \in Nat
        /\ Cardinality(Holding(c)') + (IF s \in Holding(c) THEN 1 ELSE 0)
             = Cardinality(Holding(c))
        /\ Cardinality(Holding(c)') \in Nat
    <3>1. Holding(c) \ {s} = Holding(c)' \ {s} /\ s \notin Holding(c)'
      OBVIOUS
    <3>2. /\ Cardinality(Holding(c)) \in Nat /\ Cardinality(Holding(c)') \in Nat
          /\ Cardinality(Holding(c)') + (IF s \in Holding(c) THEN 1 ELSE 0)
               = Cardinality(Holding(c)) + (IF s \in Holding(c)' THEN 1 ELSE 0)
      BY <2>1, <3>1, CardMove
    <3> QED BY <3>1, <3>2
  <2>3. rqbd_refcount[c] = Cardinality(Holding(c)) + (IF c \in attached THEN 1 ELSE 0)
    BY DEF IInv, HeldInv
  <2> DEFINE h == Cardinality(Holding(c)) hn == Cardinality(Holding(c)')
             r == rqbd_refcount[c] rn == rqbd_refcount'[c]
             d == IF s \in Holding(c) THEN 1 ELSE 0
             a == IF c \in attached THEN 1 ELSE 0
  <2>4. /\ h \in Nat /\ hn \in Nat /\ d \in {0, 1} /\ a \in {0, 1}
        /\ hn + d = h /\ r = h + a /\ rn = r - d
    BY <2>2, <2>3
  <2> HIDE DEF h, hn, r, rn, d, a
  <2>5. rn = hn + a
    BY <2>4
  <2> QED BY <2>5 DEF rn, hn, a
<1>2. ASSUME NEW u \in live' \intersect embedded'
      PROVE  /\ rq_rqbd'[u] \notin attached'
             /\ \A v \in live' \intersect embedded' :
                  rq_rqbd'[u] = rq_rqbd'[v] => u = v
  BY DEF IInv, HeldInv
<1> QED BY <1>1, <1>2 DEF HeldInv

\* Request s, if there is one, lets go of its buffer, which stays posted only
\* if the network or another request has it.
BufferLeft(s) ==
  /\ \A c \in Buffers : Holding(c)' = Holding(c) \ {s}
  /\ Registering' = Registering /\ attached' = attached
  /\ \A t \in Registering : rqbd'[t] = rqbd[t] /\ rqbd_reqs'[rqbd[t]] = {}
  /\ scp_rqbd_posted' \subseteq scp_rqbd_posted
  /\ \A c \in scp_rqbd_posted \ scp_rqbd_posted' :
       c \notin attached /\ Holding(c) = {s}
  /\ \A c \in scp_rqbd_posted' :
       s \in Holding(c) => c \in attached \/ \E u \in Holding(c) : u # s
  /\ \A c \in Buffers : rqbd_reqs'[c] # {} =>
       c \in scp_rqbd_posted' \union ToSet(scp_hist_rqbds') \union Emptied'

LEMMA PostedAfter ==
  ASSUME IInv, NEW s, BufferLeft(s)
  PROVE  PostedInv'
<1> USE DEF BufferLeft
<1>1. scp_rqbd_posted \subseteq Buffers
  BY PostVarTypes
<1>2. ASSUME NEW t \in Registering'
      PROVE  (rqbd[t] \in scp_rqbd_posted \ attached /\ Holding(rqbd[t]) = {}
                                                     /\ rqbd_reqs[rqbd[t]] = {})'
  <2> DEFINE c == rqbd[t]
  <2>1. c \in scp_rqbd_posted \ attached /\ Holding(c) = {}
    BY DEF IInv, PostedInv
  <2>2. c \in Buffers /\ c \in scp_rqbd_posted' /\ rqbd'[t] = c
        /\ rqbd_reqs'[c] = {}
    BY <1>1, <2>1
  <2>3. Holding(c)' = {}
    <3>1. (Holding(rqbd[t]))' = {u \in live' : rq_rqbd'[u] = rqbd'[t]
                                                 /\ u \notin rqbd_reqs'[rqbd'[t]]}
      BY DEF Holding
    <3>2. \A k \in Buffers : {u \in live' : rq_rqbd'[u] = k /\ u \notin rqbd_reqs'[k]}
                               = Holding(k) \ {s}
      BY DEF Holding
    <3> QED BY <2>1, <2>2, <3>1, <3>2
  <2> QED BY <2>1, <2>2, <2>3
<1>3. ASSUME NEW c \in Buffers
      PROVE  /\ Holding(c)' # {} => c \in scp_rqbd_posted'
             /\ c \in scp_rqbd_posted' => \/ c \in attached' \/ Holding(c)' # {}
                                          \/ \E t \in Registering' : rqbd'[t] = c
  <2>1. /\ Holding(c) # {} => c \in scp_rqbd_posted
        /\ c \in scp_rqbd_posted => \/ c \in attached \/ Holding(c) # {}
                                    \/ \E t \in Registering : rqbd[t] = c
    BY DEF IInv, PostedInv
  <2>2. Holding(c)' = Holding(c) \ {s}
    OBVIOUS
  <2>3. ASSUME Holding(c)' # {} PROVE c \in scp_rqbd_posted'
    BY <2>1, <2>2, <2>3
  <2>4. ASSUME c \in scp_rqbd_posted'
        PROVE  \/ c \in attached' \/ Holding(c)' # {}
               \/ \E t \in Registering' : rqbd'[t] = c
    BY <2>1, <2>2, <2>4
  <2> QED BY <2>3, <2>4
<1>4. attached' \subseteq scp_rqbd_posted'
  BY DEF IInv, PostedInv
<1> QED BY <1>2, <1>3, <1>4 DEF PostedInv

LEMMA FinishTypes ==
  ASSUME IInv, UNCHANGED finishVars,
         scp_rqbd_idle' \in Seq(Buffers), scp_rqbd_posted' \subseteq Buffers,
         scp_hist_rqbds' \in Seq(Buffers),
         rqbd_refcount' \in [Buffers -> Nat],
         rqbd_reqs' \in [Buffers -> SUBSET Requests],
         scp_hist_seq_culled' \in {0} \union Requests,
         scp_hist_reqs' \subseteq Requests,
         rq_rqbd' \in [Requests -> Buffers \union {None}],
         embedded' \subseteq Requests, live' \subseteq Requests,
         timed' \subseteq Requests,
         pc' \in [Procs -> Labels], back' \in [Procs -> Labels],
         req' \in [Procs -> {0} \union Requests],
         rqbd' \in [Procs -> Buffers \union {None}]
  PROVE  BufferTypes'
  BY DEF IInv, BufferTypes, finishVars

\* LeaveBuffer: the buffer's reference goes; the timed list's entry has gone.
LEMMA Leaves ==
  ASSUME IInv, AtInv, NEW p \in Procs, LeaveBuffer(p)
  PROVE  /\ pc[p] = "dropped" /\ req' = [req EXCEPT ![p] = 0]
         /\ rqbd_refcount' \in [Buffers -> Nat]
         /\ \A c \in Buffers :
              rqbd_refcount'[c] = rqbd_refcount[c]
                                    - (IF req[p] \in Holding(c) THEN 1 ELSE 0)
         /\ timed' \subseteq InUse \ {req[p]} /\ timed' \subseteq Requests
<1> DEFINE s == req[p] b == rq_rqbd[s]
<1>1. /\ pc[p] = "dropped" /\ req' = [req EXCEPT ![p] = 0]
      /\ timed' = timed /\ s \notin timed
      /\ rqbd_refcount' = [rqbd_refcount EXCEPT ![b] = @ - 1]
  BY DEF LeaveBuffer, AtInv
<1>2. b \in Buffers /\ s \in Holding(b)
  BY <1>1, Finished
<1>3. rqbd_refcount[b] \in Nat \ {0}
  BY <1>1, LastReference
<1>4. timed \subseteq InUse /\ timed \subseteq Requests
  BY PassVarTypes DEF IInv, LiveInv
<1>5. \A c \in Buffers : s \in Holding(c) <=> c = b
  BY <1>2 DEF Holding
<1> HIDE DEF s, b
<1>6. rqbd_refcount' \in [Buffers -> Nat]
  <2>1. rqbd_refcount[b] - 1 \in Nat
    BY <1>3
  <2> QED BY <1>1, <2>1, PostVarTypes
<1>7. ASSUME NEW c \in Buffers
      PROVE  rqbd_refcount'[c] = rqbd_refcount[c]
                                   - (IF s \in Holding(c) THEN 1 ELSE 0)
  <2>1. rqbd_refcount[c] \in Nat
    BY PostVarTypes
  <2>2. rqbd_refcount'[c] = IF c = b THEN rqbd_refcount[c] - 1 ELSE rqbd_refcount[c]
    BY <1>1, PostVarTypes
  <2>3. CASE c = b
    BY <1>5, <2>2, <2>3
  <2>4. CASE c # b
    BY <1>5, <2>1, <2>2, <2>4
  <2> QED BY <2>3, <2>4
<1> QED BY <1>1, <1>4, <1>6, <1>7 DEF s

\* A request leaves a buffer that stays posted: what does not depend on
\* whether the request is kept.
LEMMA LeavesPosted ==
  ASSUME IInv, AtInv, NEW p \in Procs, LeaveBuffer(p),
         rqbd_refcount[rq_rqbd[req[p]]] # 1, Return(p),
         UNCHANGED finishVars,
         UNCHANGED <<scp_rqbd_idle, scp_rqbd_posted, scp_hist_rqbds, rqbd>>,
         \A c \in Buffers : Holding(c)' = Holding(c) \ {req[p]},
         live' \subseteq live, embedded' \subseteq embedded \intersect live',
         \A u \in live' : rq_rqbd'[u] = rq_rqbd[u],
         \A c \in Buffers : /\ rqbd_reqs[c] \subseteq rqbd_reqs'[c]
                            /\ rqbd_reqs'[c] \subseteq rqbd_reqs[c] \union {req[p]}
                            /\ rqbd_reqs'[c] # rqbd_reqs[c] => c = rq_rqbd[req[p]]
  PROVE  /\ LocalInv' /\ UnregInv' /\ RefInv' /\ StopInv' /\ PlaceInv'
         /\ PostedInv' /\ HeldInv' /\ CountInv'
         /\ Culling' = Culling /\ InUse' = InUse \ {req[p]}
         /\ pc' \in [Procs -> Labels] /\ back' \in [Procs -> Labels]
         /\ req' \in [Procs -> {0} \union Requests]
<1> DEFINE s == req[p] b == rq_rqbd[s]
<1>1. /\ pc[p] = "dropped" /\ req' = [req EXCEPT ![p] = 0]
      /\ rqbd_refcount' \in [Buffers -> Nat]
      /\ \A c \in Buffers :
           rqbd_refcount'[c] = rqbd_refcount[c]
                                 - (IF s \in Holding(c) THEN 1 ELSE 0)
  BY Leaves
<1>2. /\ s \in Requests /\ b \in Buffers /\ s \in Holding(b)
      /\ b \in scp_rqbd_posted
  BY <1>1, Finished
<1>3. b \in attached \/ \E u \in Holding(b) : u # s
  BY <1>1, LastReference
<1>4. rqbd[p] = None /\ p \notin Culling /\ back[p] # "cull"
  BY <1>1 DEF IInv, LocalInv, Culling, Backs
<1>5. /\ LocalInv' /\ UnregInv' /\ RefInv' /\ StopInv'
      /\ Registering' = Registering /\ Culling' \ {p} = Culling \ {p}
      /\ p \notin Culling' /\ InUse' = InUse \ {s}
      /\ pc' \in [Procs -> Labels] /\ back' \in [Procs -> Labels]
      /\ req' \in [Procs -> {0} \union Requests]
  <2>1. rqbd' = [rqbd EXCEPT ![p] = None]
    BY <1>4, PostVarTypes
  <2>2. /\ pc' = [pc EXCEPT ![p] = back[p]] /\ back' = [back EXCEPT ![p] = "none"]
    BY DEF Return, Goto
  <2>3. None \in Buffers \union {None}
    OBVIOUS
  <2> QED BY <1>1, <2>1, <2>2, <2>3, FinishKeeps
<1>6. Culling' = Culling
  <2>1. Culling' \ {p} = Culling \ {p} /\ p \notin Culling' /\ p \notin Culling
    BY <1>4, <1>5
  <2>2. \A q : q \in Culling' <=> q \in Culling
    BY <2>1, Zenon
  <2> QED BY <2>2
<1>7. Emptied' = Emptied
  BY <1>6 DEF Emptied
<1>8. PlaceInv'
  BY <1>5, <1>6, <1>7 DEF IInv, PlaceInv
<1>9. UNCHANGED <<scp_nrqbds_posted, scp_nrqbds_total, attached>>
  BY DEF finishVars
<1>10. CountInv'
  BY <1>5, <1>6, <1>9 DEF IInv, CountInv
<1>11. HeldInv'
  BY <1>1, <1>9, HeldAfter
<1>12. PostedInv'
  <2>1. ASSUME NEW t \in Registering PROVE rqbd_reqs'[rqbd[t]] = {}
    <3>1. Holding(rqbd[t]) = {} /\ rqbd_reqs[rqbd[t]] = {} /\ rqbd[t] \in scp_rqbd_posted
      BY DEF IInv, PostedInv
    <3>2. rqbd[t] # b /\ rqbd[t] \in Buffers
      BY <1>2, <3>1, PostVarTypes
    <3> QED BY <3>1, <3>2
  <2>2. \A c \in Buffers : s \in Holding(c) => c = b
    BY DEF Holding
  <2>3. \A c \in Buffers : rqbd_reqs'[c] # {} =>
          c \in scp_rqbd_posted' \union ToSet(scp_hist_rqbds') \union Emptied'
    BY <1>2, <1>7 DEF IInv, PostedInv
  <2>4. \A c \in scp_rqbd_posted' :
          s \in Holding(c) => c \in attached \/ \E u \in Holding(c) : u # s
    BY <1>3, <2>2, PostVarTypes
  <2>5. /\ Registering' = Registering /\ attached' = attached
        /\ \A t \in Registering : rqbd'[t] = rqbd[t] /\ rqbd_reqs'[rqbd[t]] = {}
        /\ scp_rqbd_posted' \subseteq scp_rqbd_posted
        /\ \A c \in scp_rqbd_posted \ scp_rqbd_posted' :
             c \notin attached /\ Holding(c) = {s}
        /\ \A c \in Buffers : Holding(c)' = Holding(c) \ {s}
    BY <1>5, <1>9, <2>1
  <2> HIDE DEF s, b
  <2>6. BufferLeft(s)
    BY <2>3, <2>4, <2>5 DEF BufferLeft
  <2> QED BY <2>6, PostedAfter
<1> QED BY <1>5, <1>6, <1>8, <1>10, <1>11, <1>12

\* RequestKept.
LEMMA RequestKeptKeeps ==
  ASSUME IInv, AtInv, NEW p \in Procs, RequestKept(p) PROVE IInv'
<1> DEFINE s == req[p] b == rq_rqbd[s]
<1>1. /\ LeaveBuffer(p) /\ rqbd_refcount[b] # 1 /\ Return(p)
      /\ rqbd_reqs' = [rqbd_reqs EXCEPT ![b] = @ \union {s}]
      /\ UNCHANGED finishVars
      /\ UNCHANGED <<scp_rqbd_idle, scp_rqbd_posted, scp_hist_rqbds, rqbd>>
      /\ UNCHANGED <<live, embedded, rq_rqbd, scp_hist_reqs, scp_hist_seq_culled,
                     scp_hist_seq>>
  BY DEF RequestKept, finishVars, listVars, countVars, histVars, reqVars,
         queueVars
<1>2. /\ pc[p] = "dropped"
      /\ rqbd_refcount' \in [Buffers -> Nat]
      /\ timed' \subseteq InUse \ {s} /\ timed' \subseteq Requests
  BY <1>1, Leaves
<1>3. /\ s \in Requests /\ s \in live /\ b \in Buffers /\ s \in Holding(b)
      /\ b \in scp_rqbd_posted /\ \A c \in Buffers : s \notin rqbd_reqs[c]
  BY <1>2, Finished
<1>4. /\ rqbd_reqs'[b] = rqbd_reqs[b] \union {s}
      /\ \A c \in Buffers \ {b} : rqbd_reqs'[c] = rqbd_reqs[c]
      /\ rqbd_reqs' \in [Buffers -> SUBSET Requests]
  BY <1>1, <1>3, PostVarTypes
<1>5. \A c \in Buffers : Holding(c)' = Holding(c) \ {s}
  BY <1>1, <1>3, <1>4 DEF Holding
<1>6. /\ LocalInv' /\ UnregInv' /\ RefInv' /\ StopInv' /\ PlaceInv'
      /\ PostedInv' /\ HeldInv' /\ CountInv'
      /\ Culling' = Culling /\ InUse' = InUse \ {s}
      /\ pc' \in [Procs -> Labels] /\ back' \in [Procs -> Labels]
      /\ req' \in [Procs -> {0} \union Requests]
  <2>1. live' \subseteq live /\ embedded' \subseteq embedded \intersect live'
        /\ \A u \in live' : rq_rqbd'[u] = rq_rqbd[u]
    BY <1>1 DEF IInv, HeldInv
  <2>2. \A c \in Buffers : /\ rqbd_reqs[c] \subseteq rqbd_reqs'[c]
                           /\ rqbd_reqs'[c] \subseteq rqbd_reqs[c] \union {s}
                           /\ rqbd_reqs'[c] # rqbd_reqs[c] => c = b
    BY <1>4
  <2> QED BY <1>1, <1>5, <2>1, <2>2, LeavesPosted
<1>7. BufferTypes'
  BY <1>1, <1>2, <1>4, <1>6, FinishTypes, PostVarTypes, ReqVarTypes
<1>8. LiveInv'
  <2>1. \A u \in live' : u <= scp_hist_seq' /\ rq_rqbd'[u] \in Buffers
    BY <1>1 DEF IInv, LiveInv
  <2>2. ASSUME NEW u \in Requests
        PROVE  u \in InUse' <=> u \in live' /\ u \notin rqbd_reqs'[rq_rqbd'[u]]
    <3>1. u \in InUse <=> u \in live /\ u \notin rqbd_reqs[rq_rqbd[u]]
      BY DEF IInv, LiveInv
    <3>2. u \in live => rq_rqbd[u] \in Buffers
      BY DEF IInv, LiveInv
    <3>3. CASE u = s
      BY <1>1, <1>4, <1>6, <3>3
    <3>4. CASE u # s
      BY <1>1, <1>4, <1>6, <3>1, <3>2, <3>4
    <3> QED BY <3>3, <3>4
  <2>3. timed' \subseteq InUse'
    BY <1>2, <1>6
  <2>4. ASSUME NEW c \in Buffers, NEW u \in rqbd_reqs'[c]
        PROVE  u \in live' /\ rq_rqbd'[u] = c
    BY <1>1, <1>3, <1>4 DEF IInv, LiveInv
  <2>5. scp_hist_reqs' \subseteq live'
    BY <1>1 DEF IInv, LiveInv
  <2>6. ASSUME NEW q \in Culling'
        PROVE  rqbd_reqs'[rqbd'[q]] \intersect scp_hist_reqs' = {}
    <3>1. q \in Culling /\ rqbd[q] \in Emptied
      BY <1>6 DEF Emptied
    <3>2. rqbd[q] \in Buffers \ {b}
      BY <1>3, <3>1, PostVarTypes DEF IInv, PlaceInv
    <3> QED BY <1>1, <1>4, <3>1, <3>2 DEF IInv, LiveInv
  <2>7. CursorSafe'
    BY <1>1 DEF IInv, LiveInv, CursorSafe
  <2> QED BY <2>1, <2>2, <2>3, <2>4, <2>5, <2>6, <2>7 DEF LiveInv
<1> QED BY <1>6, <1>7, <1>8 DEF IInv

\* RequestNotKept.
LEMMA RequestNotKeptKeeps ==
  ASSUME IInv, AtInv, NEW p \in Procs, RequestNotKept(p) PROVE IInv'
<1> DEFINE s == req[p] b == rq_rqbd[s]
<1>1. /\ LeaveBuffer(p) /\ rqbd_refcount[b] # 1 /\ Return(p)
      /\ Culled({s}) /\ live' = live \ {s} /\ embedded' = embedded \ {s}
      /\ rq_rqbd' = [u \in Requests |-> IF u \in {s} THEN None ELSE rq_rqbd[u]]
      /\ UNCHANGED finishVars
      /\ UNCHANGED <<scp_rqbd_idle, scp_rqbd_posted, scp_hist_rqbds, rqbd>>
      /\ UNCHANGED <<rqbd_reqs, scp_hist_seq>>
  BY DEF RequestNotKept, Free, finishVars, listVars, countVars, queueVars
<1>2. /\ pc[p] = "dropped"
      /\ rqbd_refcount' \in [Buffers -> Nat]
      /\ timed' \subseteq InUse \ {s} /\ timed' \subseteq Requests
  BY <1>1, Leaves
<1>3. /\ s \in Requests /\ s \in live /\ b \in Buffers /\ s \in Holding(b)
      /\ \A c \in Buffers : s \notin rqbd_reqs[c]
  BY <1>2, Finished
<1>4. /\ \A u \in Requests \ {s} : rq_rqbd'[u] = rq_rqbd[u]
      /\ rq_rqbd' \in [Requests -> Buffers \union {None}]
  BY <1>1, ReqVarTypes
<1>5. /\ CursorSafe' /\ scp_hist_seq_culled' \in {0} \union Requests
      /\ scp_hist_reqs' = scp_hist_reqs \ {s}
  <2>1. {s} \in SUBSET Requests
    BY <1>3
  <2> QED BY <1>1, <2>1, CulledKeeps
<1>6. live' \subseteq live /\ embedded' \subseteq embedded \intersect live'
      /\ \A u \in live' : u \in Requests \ {s} /\ rq_rqbd'[u] = rq_rqbd[u]
  BY <1>1, <1>4, ReqVarTypes DEF IInv, HeldInv
<1>7. ASSUME NEW c \in Buffers PROVE Holding(c)' = Holding(c) \ {s}
  <2>1. Holding(c)' = {u \in live' : rq_rqbd'[u] = c /\ u \notin rqbd_reqs'[c]}
    BY DEF Holding
  <2>2. Holding(c)' = {u \in live' : rq_rqbd[u] = c /\ u \notin rqbd_reqs[c]}
    BY <1>1, <1>6, <2>1
  <2> QED BY <1>1, <2>2 DEF Holding
<1>8. /\ LocalInv' /\ UnregInv' /\ RefInv' /\ StopInv' /\ PlaceInv'
      /\ PostedInv' /\ HeldInv' /\ CountInv'
      /\ Culling' = Culling /\ InUse' = InUse \ {s}
      /\ pc' \in [Procs -> Labels] /\ back' \in [Procs -> Labels]
      /\ req' \in [Procs -> {0} \union Requests]
  <2>1. \A c \in Buffers : /\ rqbd_reqs[c] \subseteq rqbd_reqs'[c]
                           /\ rqbd_reqs'[c] \subseteq rqbd_reqs[c] \union {s}
                           /\ rqbd_reqs'[c] # rqbd_reqs[c] => c = b
    BY <1>1
  <2> QED BY <1>1, <1>6, <1>7, <2>1, LeavesPosted
<1>9. BufferTypes'
  <2>1. /\ scp_hist_reqs' \subseteq Requests /\ live' \subseteq Requests
        /\ embedded' \subseteq Requests
    BY <1>1, <1>5, ReqVarTypes
  <2>2. rqbd_reqs' \in [Buffers -> SUBSET Requests]
        /\ rqbd' \in [Procs -> Buffers \union {None}]
    BY <1>1, PostVarTypes
  <2>3. scp_rqbd_idle' \in Seq(Buffers) /\ scp_rqbd_posted' \subseteq Buffers
        /\ scp_hist_rqbds' \in Seq(Buffers)
    BY <1>1, PostVarTypes
  <2> QED BY <1>1, <1>2, <1>4, <1>5, <1>8, <2>1, <2>2, <2>3, FinishTypes
<1>10. LiveInv'
  <2>1. \A u \in live' : u <= scp_hist_seq' /\ rq_rqbd'[u] \in Buffers
    BY <1>1, <1>6 DEF IInv, LiveInv
  <2>2. ASSUME NEW u \in Requests
        PROVE  u \in InUse' <=> u \in live' /\ u \notin rqbd_reqs'[rq_rqbd'[u]]
    <3>1. u \in InUse <=> u \in live /\ u \notin rqbd_reqs[rq_rqbd[u]]
      BY DEF IInv, LiveInv
    <3>2. CASE u = s
      BY <1>1, <1>8, <3>2
    <3>3. CASE u # s
      BY <1>1, <1>4, <1>8, <3>1, <3>3
    <3> QED BY <3>2, <3>3
  <2>3. timed' \subseteq InUse'
    BY <1>2, <1>8
  <2>4. ASSUME NEW c \in Buffers, NEW u \in rqbd_reqs'[c]
        PROVE  u \in live' /\ rq_rqbd'[u] = c
    <3>1. u \in rqbd_reqs[c] /\ u # s
      BY <1>1, <1>3
    <3>2. u \in live /\ rq_rqbd[u] = c
      BY <3>1 DEF IInv, LiveInv
    <3> QED BY <1>1, <1>6, <3>1, <3>2
  <2>5. scp_hist_reqs' \subseteq live'
    BY <1>1, <1>5 DEF IInv, LiveInv
  <2>6. ASSUME NEW q \in Culling'
        PROVE  rqbd_reqs'[rqbd'[q]] \intersect scp_hist_reqs' = {}
    BY <1>1, <1>5, <1>8 DEF IInv, LiveInv
  <2> QED BY <1>5, <2>1, <2>2, <2>3, <2>4, <2>5, <2>6 DEF LiveInv
<1> QED BY <1>8, <1>9, <1>10 DEF IInv

\* BufferDone.
LEMMA BufferDoneKeeps ==
  ASSUME IInv, AtInv, NEW p \in Procs, BufferDone(p) PROVE IInv'
<1> DEFINE s == req[p] b == rq_rqbd[s] hist == Append(scp_hist_rqbds, b)
           reqs == [rqbd_reqs EXCEPT ![b] = @ \union {s}]
<1>1. /\ LeaveBuffer(p) /\ rqbd_refcount[b] = 1
      /\ rqbd_reqs' = reqs
      /\ scp_rqbd_posted' = scp_rqbd_posted \ {b}
      /\ CullLoop(p, hist, reqs)
      /\ UNCHANGED finishVars
      /\ UNCHANGED <<scp_rqbd_idle, live, embedded, rq_rqbd, scp_hist_seq>>
      /\ UNCHANGED <<attached, srv_hist_nrqbds_cpt_max>>
  <2>1. /\ rqbd_reqs' = reqs /\ CullLoop(p, hist, rqbd_reqs')
    BY DEF BufferDone
  <2>2. CullLoop(p, hist, reqs)
    BY <2>1 DEF CullLoop
  <2> QED BY <2>1, <2>2 DEF BufferDone, finishVars, countVars, reqVars, queueVars
<1>2. /\ pc[p] = "dropped" /\ req' = [req EXCEPT ![p] = 0]
      /\ rqbd_refcount' \in [Buffers -> Nat]
      /\ \A c \in Buffers :
           rqbd_refcount'[c] = rqbd_refcount[c]
                                 - (IF s \in Holding(c) THEN 1 ELSE 0)
      /\ timed' \subseteq InUse \ {s} /\ timed' \subseteq Requests
  BY <1>1, Leaves
<1>3. /\ s \in Requests /\ s \in live /\ b \in Buffers /\ s \in Holding(b)
      /\ b \in scp_rqbd_posted /\ \A c \in Buffers : s \notin rqbd_reqs[c]
      /\ Holding(b) = {s} /\ b \notin attached
  BY <1>1, <1>2, Finished, LastReference
<1>4. /\ b \notin ToSet(scp_rqbd_idle) /\ b \notin ToSet(scp_hist_rqbds)
      /\ b \notin Emptied /\ IsInjective(scp_hist_rqbds)
  BY <1>3 DEF IInv, PlaceInv
<1>5. /\ reqs[b] = rqbd_reqs[b] \union {s}
      /\ \A c \in Buffers \ {b} : reqs[c] = rqbd_reqs[c]
      /\ reqs \in [Buffers -> SUBSET Requests]
  BY <1>3, PostVarTypes
<1> HIDE DEF s, b, reqs
<1>6. /\ hist \in Seq(Buffers) /\ Len(hist) = Len(scp_hist_rqbds) + 1
      /\ IsInjective(hist) /\ ToSet(hist) = ToSet(scp_hist_rqbds) \union {b}
  BY <1>3, <1>4, PostVarTypes, AppendFacts
<1> HIDE DEF hist
<1>7. PICK x \in Buffers \union {None} : \E l :
        /\ \/ l = "cull" /\ back' = back /\ x # None
           \/ l = back[p] /\ back' = [back EXCEPT ![p] = "none"] /\ x = None
        /\ pc' = [pc EXCEPT ![p] = l] /\ rqbd' = [rqbd EXCEPT ![p] = x]
        /\ scp_hist_rqbds' \in Seq(Buffers) /\ IsInjective(scp_hist_rqbds')
        /\ ToSet(hist) = ToSet(scp_hist_rqbds') \union ({x} \ {None})
        /\ x \notin ToSet(scp_hist_rqbds')
        /\ Len(hist) = Len(scp_hist_rqbds') + (IF x = None THEN 0 ELSE 1)
        /\ x = None => scp_hist_rqbds' = hist /\ Len(hist) <= srv_hist_nrqbds_cpt_max
        /\ scp_hist_reqs' = scp_hist_reqs \ (IF x = None THEN {} ELSE reqs[x])
        /\ CursorSafe' /\ scp_hist_seq_culled' \in {0} \union Requests
  <2>1. /\ hist \in Seq(Buffers) /\ IsInjective(hist)
        /\ reqs \in [Buffers -> SUBSET Requests]
        /\ CullLoop(p, hist, reqs) /\ scp_hist_seq' = scp_hist_seq
    BY <1>1, <1>5, <1>6
  <2> QED BY <2>1, CullTakes, Zenon
<1>8. PICK l :
        /\ \/ l = "cull" /\ back' = back /\ x # None
           \/ l = back[p] /\ back' = [back EXCEPT ![p] = "none"] /\ x = None
        /\ pc' = [pc EXCEPT ![p] = l] /\ rqbd' = [rqbd EXCEPT ![p] = x]
  BY <1>7
<1>10. /\ LocalInv' /\ UnregInv' /\ RefInv' /\ StopInv'
       /\ Registering' = Registering /\ Culling' \ {p} = Culling \ {p}
       /\ (p \in Culling' <=> x # None) /\ InUse' = InUse \ {s}
       /\ pc' \in [Procs -> Labels] /\ back' \in [Procs -> Labels]
       /\ req' \in [Procs -> {0} \union Requests]
       /\ rqbd' \in [Procs -> Buffers \union {None}] /\ rqbd'[p] = x
       /\ \A q \in Procs \ {p} : rqbd'[q] = rqbd[q]
  BY <1>1, <1>2, <1>8, FinishKeeps DEF s
<1>11. p \notin Culling /\ p \notin Registering
       /\ Culling \subseteq Procs /\ Registering \subseteq Procs
  BY <1>2, Constants DEF Culling, Registering
<1>12. \A t \in Registering : rqbd[t] \in scp_rqbd_posted \ {b} /\ rqbd_reqs[rqbd[t]] = {}
  BY <1>3 DEF IInv, PostedInv
<1>13. PlaceInv' /\ Emptied' = Emptied \union ({x} \ {None})
  <2>1. EmptiedBut(p) = Emptied
    BY <1>11 DEF Emptied, EmptiedBut
  <2>2. /\ ToSet(hist) = ToSet(scp_hist_rqbds') \union ({x} \ {None})
        /\ x \notin ToSet(scp_hist_rqbds') /\ IsInjective(scp_hist_rqbds')
    BY <1>7
  <2>3. /\ IsInjective(scp_rqbd_idle')
        /\ ToSet(scp_rqbd_idle') \intersect scp_rqbd_posted' = {}
        /\ ToSet(scp_rqbd_idle') \intersect ToSet(hist) = {}
        /\ scp_rqbd_posted' \intersect ToSet(hist) = {}
    BY <1>1, <1>4, <1>6 DEF IInv, PlaceInv
  <2>4. EmptiedBut(p) \intersect (ToSet(scp_rqbd_idle') \union scp_rqbd_posted'
                                    \union ToSet(hist)) = {}
    BY <1>1, <1>4, <1>6, <2>1 DEF IInv, PlaceInv
  <2>5. \A t \in Registering : rqbd[t] \in scp_rqbd_posted'
    BY <1>1, <1>12
  <2>6. PlaceInv' /\ Emptied' = EmptiedBut(p) \union ({x} \ {None})
    BY <1>10, <1>11, <2>2, <2>3, <2>4, <2>5, CullPlaces
  <2> QED BY <2>1, <2>6
<1>14. CountInv'
  <2>1. /\ IsFiniteSet(scp_rqbd_posted')
        /\ Cardinality(scp_rqbd_posted') = Cardinality(scp_rqbd_posted) - 1
        /\ Cardinality(scp_rqbd_posted') \in Nat
    BY <1>1, <1>3, PostVarTypes, FS_RemoveElement, CardZero
  <2>2. /\ Cardinality(Culling') \in Nat
        /\ Cardinality(Culling') + (IF p \in Culling THEN 1 ELSE 0)
             = Cardinality(Culling) + (IF p \in Culling' THEN 1 ELSE 0)
    <3>1. IsFiniteSet(Culling) /\ Culling \ {p} = Culling' \ {p}
      BY <1>10, PostVarTypes
    <3> QED BY <3>1, CardMove
  <2>3. Len(scp_hist_rqbds') \in Nat
        /\ Len(hist) = Len(scp_hist_rqbds') + (IF x = None THEN 0 ELSE 1)
    BY <1>7, LenProperties
  <2> DEFINE a == Len(scp_rqbd_idle)
             c == Cardinality(scp_rqbd_posted) cn == Cardinality(scp_rqbd_posted')
             h == Len(scp_hist_rqbds) hn == Len(scp_hist_rqbds')
             k == Cardinality(Culling) kn == Cardinality(Culling')
             e == IF x = None THEN 0 ELSE 1
  <2>4. /\ a \in Nat /\ c \in Nat /\ h \in Nat /\ k \in Nat /\ kn \in Nat
        /\ cn \in Nat /\ hn \in Nat /\ cn = c - 1 /\ e \in {0, 1}
    BY <2>1, <2>2, <2>3, PostVarTypes
  <2>5. hn + e = h + 1
    BY <1>6, <2>3
  <2>6. kn = k + e
    BY <1>10, <1>11, <2>2, <2>4
  <2> HIDE DEF a, c, cn, h, hn, k, kn, e
  <2>7. a + cn + hn + kn = a + c + h + k + 0
    BY <2>4, <2>5, <2>6
  <2>8. UNCHANGED <<scp_nrqbds_posted, scp_nrqbds_total, attached>>
    BY <1>1 DEF finishVars
  <2>9. scp_nrqbds_total' = scp_nrqbds_total + 0
    BY <2>8, PostVarTypes
  <2>10. scp_nrqbds_posted' = Cardinality(attached') + Cardinality(Registering')
    BY <1>10, <2>8 DEF IInv, CountInv
  <2>11. scp_rqbd_idle' = scp_rqbd_idle
    BY <1>1
  <2> QED BY <2>4, <2>7, <2>9, <2>10, <2>11, CountMove
          DEF IInv, a, c, cn, h, hn, k, kn, e
<1>15. \A c \in Buffers : Holding(c)' = Holding(c) \ {s}
  BY <1>1, <1>3, <1>5 DEF Holding, b
<1>16. HeldInv'
  <2>1. live' \subseteq live /\ embedded' \subseteq embedded \intersect live'
        /\ \A u \in live' : rq_rqbd'[u] = rq_rqbd[u]
    BY <1>1 DEF IInv, HeldInv
  <2> QED BY <1>1, <1>2, <1>15, <2>1, HeldAfter
<1>17. PostedInv'
  <2>1. \A t \in Registering : rqbd'[t] = rqbd[t] /\ rqbd_reqs'[rqbd[t]] = {}
    BY <1>1, <1>5, <1>10, <1>11, <1>12, PostVarTypes
  <2>2. \A c \in scp_rqbd_posted \ scp_rqbd_posted' :
          c \notin attached /\ Holding(c) = {s}
    BY <1>1, <1>3
  <2>3. \A c \in scp_rqbd_posted' :
          s \in Holding(c) => c \in attached \/ \E u \in Holding(c) : u # s
    <3>1. \A c : s \in Holding(c) => c = b
      BY DEF Holding, b
    <3> QED BY <1>1, <3>1
  <2>4. ASSUME NEW c \in Buffers, rqbd_reqs'[c] # {}
        PROVE  c \in scp_rqbd_posted' \union ToSet(scp_hist_rqbds') \union Emptied'
    <3>1. ToSet(hist) = ToSet(scp_hist_rqbds') \union ({x} \ {None})
      BY <1>7
    <3>2. CASE c = b
      BY <1>6, <1>13, <3>1, <3>2
    <3>3. CASE c # b
      <4>1. rqbd_reqs[c] # {}
        BY <1>1, <1>5, <2>4, <3>3
      <4>2. c \in scp_rqbd_posted \union ToSet(scp_hist_rqbds) \union Emptied
        BY <4>1 DEF IInv, PostedInv
      <4> QED BY <1>1, <1>6, <1>13, <3>1, <3>3, <4>2
    <3> QED BY <3>2, <3>3
  <2>5. scp_rqbd_posted' \subseteq scp_rqbd_posted
    BY <1>1
  <2>6. BufferLeft(s)
    BY <1>1, <1>10, <1>15, <2>1, <2>2, <2>3, <2>4, <2>5 DEF BufferLeft
  <2> QED BY <2>6, PostedAfter
<1>18. scp_hist_reqs' \subseteq scp_hist_reqs
  BY <1>7
<1>19. BufferTypes'
  <2>1. /\ scp_rqbd_posted' \subseteq Buffers /\ rqbd_reqs' \in [Buffers -> SUBSET Requests]
        /\ scp_rqbd_idle' \in Seq(Buffers) /\ scp_hist_rqbds' \in Seq(Buffers)
    BY <1>1, <1>5, <1>7, PostVarTypes
  <2>2. /\ scp_hist_seq_culled' \in {0} \union Requests
        /\ scp_hist_reqs' \subseteq Requests
        /\ rq_rqbd' \in [Requests -> Buffers \union {None}]
        /\ embedded' \subseteq Requests /\ live' \subseteq Requests
    BY <1>1, <1>7, <1>18, ReqVarTypes
  <2> QED BY <1>1, <1>2, <1>10, <2>1, <2>2, FinishTypes
<1>20. LiveInv'
  <2>1. \A u \in live' : u <= scp_hist_seq' /\ rq_rqbd'[u] \in Buffers
    BY <1>1 DEF IInv, LiveInv
  <2>2. ASSUME NEW u \in Requests
        PROVE  u \in InUse' <=> u \in live' /\ u \notin rqbd_reqs'[rq_rqbd'[u]]
    <3>1. u \in InUse <=> u \in live /\ u \notin rqbd_reqs[rq_rqbd[u]]
      BY DEF IInv, LiveInv
    <3>2. u \in live => rq_rqbd[u] \in Buffers
      BY DEF IInv, LiveInv
    <3>3. CASE u = s
      BY <1>1, <1>5, <1>10, <3>3 DEF b
    <3>4. CASE u # s
      BY <1>1, <1>5, <1>10, <3>1, <3>2, <3>4
    <3> QED BY <3>3, <3>4
  <2>3. timed' \subseteq InUse'
    BY <1>2, <1>10
  <2>4. ASSUME NEW c \in Buffers, NEW u \in rqbd_reqs'[c]
        PROVE  u \in live' /\ rq_rqbd'[u] = c
    BY <1>1, <1>3, <1>5 DEF IInv, LiveInv, b
  <2>5. scp_hist_reqs' \subseteq live'
    BY <1>1, <1>18 DEF IInv, LiveInv
  <2>6. ASSUME NEW q \in Culling'
        PROVE  rqbd_reqs'[rqbd'[q]] \intersect scp_hist_reqs' = {}
    <3>1. CASE q = p
      <4>1. x # None /\ rqbd'[q] = x
        BY <1>10, <3>1
      <4>2. scp_hist_reqs' = scp_hist_reqs \ reqs[x]
        BY <1>7, <4>1
      <4> QED BY <1>1, <4>1, <4>2
    <3>2. CASE q # p
      <4>1. q \in Culling /\ rqbd'[q] = rqbd[q]
        BY <1>10, <1>11, <3>2
      <4>2. rqbd[q] \in Emptied
        BY <4>1 DEF Emptied
      <4>3. rqbd[q] \in Buffers \ {b}
        BY <1>4, <4>2, PostVarTypes
      <4>4. rqbd_reqs[rqbd[q]] \intersect scp_hist_reqs = {}
        BY <4>1 DEF IInv, LiveInv
      <4>5. rqbd_reqs'[rqbd'[q]] = rqbd_reqs[rqbd[q]]
        BY <1>1, <1>5, <4>1, <4>3
      <4> QED BY <1>18, <4>4, <4>5
    <3> QED BY <3>1, <3>2
  <2>7. CursorSafe'
    BY <1>7
  <2> QED BY <2>1, <2>2, <2>3, <2>4, <2>5, <2>6, <2>7 DEF LiveInv
<1> QED BY <1>10, <1>13, <1>14, <1>16, <1>17, <1>19, <1>20 DEF IInv

\* ptlrpc_server_free_request.
LEMMA FreeRequestKeeps ==
  ASSUME IInv, NEW p \in Procs, ptlrpc_server_free_request(p) PROVE IInv'
<1> DEFINE b == rqbd[p] R == rqbd_reqs[b] hist == scp_hist_rqbds
<1>1. /\ pc[p] = "cull"
      /\ live' = live \ R /\ embedded' = embedded \ R
      /\ rq_rqbd' = [u \in Requests |-> IF u \in R THEN None ELSE rq_rqbd[u]]
      /\ rqbd_reqs' = [rqbd_reqs EXCEPT ![b] = {}]
      /\ scp_rqbd_idle' = Append(scp_rqbd_idle, b)
      /\ CullLoop(p, hist, rqbd_reqs)
      /\ UNCHANGED finishVars
      /\ UNCHANGED <<scp_rqbd_posted, rqbd_refcount, scp_hist_seq, timed, req>>
      /\ UNCHANGED <<attached, srv_hist_nrqbds_cpt_max>>
  BY DEF ptlrpc_server_free_request, Free, finishVars, countVars, queueVars
<1>2. /\ p \in Culling /\ p \notin Registering /\ b \in Emptied /\ b \in Buffers
      /\ req[p] = 0 /\ Culling \subseteq Procs /\ Registering \subseteq Procs
  <2>1. p \in Culling /\ p \notin Registering /\ req[p] = 0
        /\ Culling \subseteq Procs /\ Registering \subseteq Procs
    BY <1>1, Constants DEF Culling, Registering, IInv, LocalInv
  <2>2. b \in Emptied
    BY <2>1 DEF Emptied
  <2> QED BY <2>1, <2>2, PostVarTypes
<1>3. /\ b \notin ToSet(scp_rqbd_idle) /\ b \notin ToSet(hist)
      /\ b \notin scp_rqbd_posted
      /\ IsInjective(scp_rqbd_idle) /\ IsInjective(hist)
      /\ \A q \in (Culling \union Registering) \ {p} : rqbd[q] # b
  BY <1>2 DEF IInv, PlaceInv
<1>4. /\ R \in SUBSET Requests /\ R \subseteq live
      /\ \A u \in R : rq_rqbd[u] = b
      /\ R \intersect scp_hist_reqs = {}
  BY <1>2, PostVarTypes DEF IInv, LiveInv
<1> HIDE DEF b, R
<1>5. /\ rqbd_reqs'[b] = {}
      /\ \A c \in Buffers \ {b} : rqbd_reqs'[c] = rqbd_reqs[c]
      /\ rqbd_reqs' \in [Buffers -> SUBSET Requests]
  BY <1>1, <1>2, PostVarTypes
<1>6. /\ scp_rqbd_idle' \in Seq(Buffers)
      /\ Len(scp_rqbd_idle') = Len(scp_rqbd_idle) + 1
      /\ IsInjective(scp_rqbd_idle')
      /\ ToSet(scp_rqbd_idle') = ToSet(scp_rqbd_idle) \union {b}
  BY <1>1, <1>2, <1>3, PostVarTypes, AppendFacts
<1>7. hist \in Seq(Buffers) /\ Len(hist) \in Nat
  BY PostVarTypes
<1> HIDE DEF hist
<1>8. PICK x \in Buffers \union {None} : \E l :
        /\ \/ l = "cull" /\ back' = back /\ x # None
           \/ l = back[p] /\ back' = [back EXCEPT ![p] = "none"] /\ x = None
        /\ pc' = [pc EXCEPT ![p] = l] /\ rqbd' = [rqbd EXCEPT ![p] = x]
        /\ scp_hist_rqbds' \in Seq(Buffers) /\ IsInjective(scp_hist_rqbds')
        /\ ToSet(hist) = ToSet(scp_hist_rqbds') \union ({x} \ {None})
        /\ x \notin ToSet(scp_hist_rqbds')
        /\ Len(hist) = Len(scp_hist_rqbds') + (IF x = None THEN 0 ELSE 1)
        /\ x = None => scp_hist_rqbds' = hist /\ Len(hist) <= srv_hist_nrqbds_cpt_max
        /\ scp_hist_reqs' = scp_hist_reqs \ (IF x = None THEN {} ELSE rqbd_reqs[x])
        /\ CursorSafe' /\ scp_hist_seq_culled' \in {0} \union Requests
  <2>1. /\ hist \in Seq(Buffers) /\ IsInjective(hist)
        /\ rqbd_reqs \in [Buffers -> SUBSET Requests]
        /\ CullLoop(p, hist, rqbd_reqs) /\ scp_hist_seq' = scp_hist_seq
    BY <1>1, <1>3, <1>7, PostVarTypes
  <2> QED BY <2>1, CullTakes, Zenon
<1>9. PICK l :
        /\ \/ l = "cull" /\ back' = back /\ x # None
           \/ l = back[p] /\ back' = [back EXCEPT ![p] = "none"] /\ x = None
        /\ pc' = [pc EXCEPT ![p] = l] /\ rqbd' = [rqbd EXCEPT ![p] = x]
  BY <1>8
<1>11. req' = [req EXCEPT ![p] = 0]
  BY <1>1, <1>2, PassVarTypes
<1>12. /\ LocalInv' /\ UnregInv' /\ RefInv' /\ StopInv'
       /\ Registering' = Registering /\ Culling' \ {p} = Culling \ {p}
       /\ (p \in Culling' <=> x # None) /\ InUse' = InUse \ {req[p]}
       /\ pc' \in [Procs -> Labels] /\ back' \in [Procs -> Labels]
       /\ req' \in [Procs -> {0} \union Requests]
       /\ rqbd' \in [Procs -> Buffers \union {None}] /\ rqbd'[p] = x
       /\ \A q \in Procs \ {p} : rqbd'[q] = rqbd[q]
  BY <1>1, <1>9, <1>11, FinishKeeps
<1>13. InUse' = InUse
  BY <1>2, <1>12, Constants DEF InUse
<1>14. \A t \in Registering : rqbd[t] \in scp_rqbd_posted /\ rqbd_reqs[rqbd[t]] = {}
  BY DEF IInv, PostedInv
<1>15. /\ Emptied = EmptiedBut(p) \union {b} /\ b \notin EmptiedBut(p)
  BY <1>2, <1>3 DEF Emptied, EmptiedBut, b
<1>16. PlaceInv' /\ Emptied' = EmptiedBut(p) \union ({x} \ {None})
  <2>1. /\ ToSet(hist) = ToSet(scp_hist_rqbds') \union ({x} \ {None})
        /\ x \notin ToSet(scp_hist_rqbds') /\ IsInjective(scp_hist_rqbds')
    BY <1>8
  <2>2. /\ ToSet(scp_rqbd_idle') \intersect scp_rqbd_posted' = {}
        /\ ToSet(scp_rqbd_idle') \intersect ToSet(hist) = {}
        /\ scp_rqbd_posted' \intersect ToSet(hist) = {}
    BY <1>1, <1>3, <1>6 DEF IInv, PlaceInv, hist
  <2>3. EmptiedBut(p) \intersect (ToSet(scp_rqbd_idle') \union scp_rqbd_posted'
                                    \union ToSet(hist)) = {}
    BY <1>1, <1>6, <1>15 DEF IInv, PlaceInv, hist
  <2>4. \A t \in Registering : rqbd[t] \in scp_rqbd_posted'
    BY <1>1, <1>14
  <2> QED BY <1>2, <1>6, <1>12, <2>1, <2>2, <2>3, <2>4, CullPlaces
<1>17. CountInv'
  <2>1. /\ Cardinality(Culling') \in Nat
        /\ Cardinality(Culling') + (IF p \in Culling THEN 1 ELSE 0)
             = Cardinality(Culling) + (IF p \in Culling' THEN 1 ELSE 0)
    <3>1. IsFiniteSet(Culling) /\ Culling \ {p} = Culling' \ {p}
      BY <1>12, PostVarTypes
    <3> QED BY <3>1, CardMove
  <2>2. Len(scp_hist_rqbds') \in Nat
        /\ Len(hist) = Len(scp_hist_rqbds') + (IF x = None THEN 0 ELSE 1)
    BY <1>8, LenProperties
  <2> DEFINE a == Len(scp_rqbd_idle) an == Len(scp_rqbd_idle')
             c == Cardinality(scp_rqbd_posted)
             h == Len(scp_hist_rqbds) hn == Len(scp_hist_rqbds')
             k == Cardinality(Culling) kn == Cardinality(Culling')
             e == IF x = None THEN 0 ELSE 1
  <2>3. /\ a \in Nat /\ c \in Nat /\ h \in Nat /\ k \in Nat /\ kn \in Nat
        /\ hn \in Nat /\ an = a + 1 /\ e \in {0, 1}
    BY <1>6, <2>1, <2>2, PostVarTypes
  <2>4. hn + e = h
    BY <2>2 DEF hist
  <2>5. kn + 1 = k + e
    BY <1>2, <1>12, <2>1, <2>3
  <2> HIDE DEF a, an, c, h, hn, k, kn, e
  <2>6. an \in Nat /\ an + c + hn + kn = a + c + h + k + 0
    BY <2>3, <2>4, <2>5
  <2>7. UNCHANGED <<scp_nrqbds_posted, scp_nrqbds_total, attached>>
    BY <1>1 DEF finishVars
  <2>8. scp_nrqbds_total' = scp_nrqbds_total + 0
    BY <2>7, PostVarTypes
  <2>9. scp_nrqbds_posted' = Cardinality(attached') + Cardinality(Registering')
    BY <1>12, <2>7 DEF IInv, CountInv
  <2>10. scp_rqbd_posted' = scp_rqbd_posted
    BY <1>1
  <2> QED BY <2>3, <2>6, <2>8, <2>9, <2>10, CountMove
          DEF IInv, a, an, c, h, hn, k, kn, e
<1>18. \A u \in Requests \ R : rq_rqbd'[u] = rq_rqbd[u]
  BY <1>1
<1>19. live' \subseteq live /\ embedded' \subseteq embedded \intersect live'
       /\ \A u \in live' : u \in Requests \ R /\ rq_rqbd'[u] = rq_rqbd[u]
  BY <1>1, <1>18, ReqVarTypes DEF IInv, HeldInv
<1>20. ASSUME NEW c \in Buffers PROVE Holding(c)' = Holding(c) \ {0}
  <2>1. Holding(c)' = {u \in live' : rq_rqbd'[u] = c /\ u \notin rqbd_reqs'[c]}
    BY DEF Holding
  <2>2. \A u \in live' : (rq_rqbd'[u] = c /\ u \notin rqbd_reqs'[c])
                           <=> (rq_rqbd[u] = c /\ u \notin rqbd_reqs[c])
    <3>1. CASE c = b
      BY <1>5, <1>19, <3>1 DEF R
    <3>2. CASE c # b
      BY <1>5, <1>19, <3>2
    <3> QED BY <3>1, <3>2
  <2>3. \A u \in R : ~(rq_rqbd[u] = c /\ u \notin rqbd_reqs[c])
    BY <1>4 DEF R
  <2>4. Holding(c)' = Holding(c)
    <3>1. \A u : u \in Holding(c)' <=> u \in live' /\ rq_rqbd[u] = c
                                                   /\ u \notin rqbd_reqs[c]
      BY <2>1, <2>2
    <3>2. \A u : u \in Holding(c)' <=> u \in Holding(c)
      BY <1>1, <2>3, <3>1 DEF Holding
    <3> QED BY <3>2
  <2>5. 0 \notin Holding(c)
    BY ReqVarTypes, Constants DEF Holding
  <2> QED BY <2>4, <2>5
<1>21. \A c \in Buffers : 0 \notin Holding(c)
  BY ReqVarTypes, Constants DEF Holding
<1>22. HeldInv'
  <2>1. rqbd_refcount' \in [Buffers -> Nat]
        /\ \A c \in Buffers : rqbd_refcount'[c] = rqbd_refcount[c]
                                - (IF 0 \in Holding(c) THEN 1 ELSE 0)
    BY <1>1, <1>21, PostVarTypes
  <2> QED BY <1>1, <1>19, <1>20, <2>1, HeldAfter
<1>23. PostedInv'
  <2>1. \A t \in Registering : rqbd'[t] = rqbd[t] /\ rqbd_reqs'[rqbd[t]] = {}
    BY <1>2, <1>3, <1>5, <1>12, <1>14, PostVarTypes
  <2>2. ASSUME NEW c \in Buffers, rqbd_reqs'[c] # {}
        PROVE  c \in scp_rqbd_posted' \union ToSet(scp_hist_rqbds') \union Emptied'
    <3>1. ToSet(hist) = ToSet(scp_hist_rqbds') \union ({x} \ {None})
      BY <1>8
    <3>2. c # b /\ rqbd_reqs[c] # {}
      BY <1>5, <2>2
    <3>3. c \in scp_rqbd_posted \union ToSet(hist) \union Emptied
      BY <3>2 DEF IInv, PostedInv, hist
    <3> QED BY <1>1, <1>15, <1>16, <3>1, <3>2, <3>3
  <2>3. \A c \in scp_rqbd_posted' :
          0 \in Holding(c) => c \in attached \/ \E u \in Holding(c) : u # 0
    BY <1>1, <1>21, PostVarTypes
  <2>4. scp_rqbd_posted' = scp_rqbd_posted /\ attached' = attached
    BY <1>1
  <2>5. /\ \A c \in scp_rqbd_posted \ scp_rqbd_posted' :
             c \notin attached /\ Holding(c) = {0}
        /\ scp_rqbd_posted' \subseteq scp_rqbd_posted
        /\ \A c \in Buffers : Holding(c)' = Holding(c) \ {0}
    BY <1>20, <2>4
  <2>6. BufferLeft(0)
    BY <1>12, <2>1, <2>2, <2>3, <2>4, <2>5 DEF BufferLeft
  <2> QED BY <2>6, PostedAfter
<1>24. scp_hist_reqs' \subseteq scp_hist_reqs
  BY <1>8
<1>25. BufferTypes'
  <2>1. /\ scp_rqbd_posted' \subseteq Buffers /\ scp_hist_rqbds' \in Seq(Buffers)
        /\ rqbd_refcount' \in [Buffers -> Nat]
    BY <1>1, <1>8, PostVarTypes
  <2>2. /\ scp_hist_seq_culled' \in {0} \union Requests
        /\ scp_hist_reqs' \subseteq Requests
        /\ rq_rqbd' \in [Requests -> Buffers \union {None}]
        /\ embedded' \subseteq Requests /\ live' \subseteq Requests
    BY <1>1, <1>8, <1>24, ReqVarTypes
  <2>3. timed' \subseteq Requests
    BY <1>1, PassVarTypes
  <2> QED BY <1>1, <1>5, <1>6, <1>12, <2>1, <2>2, <2>3, FinishTypes
<1>26. LiveInv'
  <2>1. \A u \in live' : u <= scp_hist_seq' /\ rq_rqbd'[u] \in Buffers
    BY <1>1, <1>19 DEF IInv, LiveInv
  <2>2. ASSUME NEW u \in Requests
        PROVE  u \in InUse' <=> u \in live' /\ u \notin rqbd_reqs'[rq_rqbd'[u]]
    <3>1. u \in InUse <=> u \in live /\ u \notin rqbd_reqs[rq_rqbd[u]]
      BY DEF IInv, LiveInv
    <3>2. u \in live => rq_rqbd[u] \in Buffers
      BY DEF IInv, LiveInv
    <3>3. CASE u \in R
      BY <1>1, <1>4, <1>13, <3>1, <3>3 DEF R
    <3>4. CASE u \notin R
      <4>1. rq_rqbd'[u] = rq_rqbd[u] /\ (u \in live' <=> u \in live)
        BY <1>1, <1>18, <3>4
      <4>2. u \in live => (u \in rqbd_reqs'[rq_rqbd[u]] <=> u \in rqbd_reqs[rq_rqbd[u]])
        BY <1>5, <3>2, <3>4 DEF R
      <4> QED BY <1>13, <3>1, <4>1, <4>2
    <3> QED BY <3>3, <3>4
  <2>3. timed' \subseteq InUse'
    BY <1>1, <1>13 DEF IInv, LiveInv
  <2>4. ASSUME NEW c \in Buffers, NEW u \in rqbd_reqs'[c]
        PROVE  u \in live' /\ rq_rqbd'[u] = c
    <3>1. c # b /\ u \in rqbd_reqs[c]
      BY <1>5
    <3>2. u \in live /\ rq_rqbd[u] = c
      BY <3>1 DEF IInv, LiveInv
    <3>3. u \notin R
      BY <1>4, <3>1, <3>2
    <3> QED BY <1>1, <1>19, <3>2, <3>3
  <2>5. scp_hist_reqs' \subseteq live'
    BY <1>1, <1>4, <1>24 DEF IInv, LiveInv
  <2>6. ASSUME NEW q \in Culling'
        PROVE  rqbd_reqs'[rqbd'[q]] \intersect scp_hist_reqs' = {}
    <3>1. CASE q = p
      <4>1. x # None /\ rqbd'[q] = x /\ x \in Buffers
        BY <1>12, <3>1
      <4>2. scp_hist_reqs' = scp_hist_reqs \ rqbd_reqs[x]
        BY <1>8, <4>1
      <4>3. x # b
        BY <1>3, <1>8, <4>1
      <4> QED BY <1>5, <4>1, <4>2, <4>3
    <3>2. CASE q # p
      <4>1. q \in Culling /\ rqbd'[q] = rqbd[q]
        BY <1>2, <1>12, <3>2
      <4>2. rqbd[q] \in Emptied
        BY <4>1 DEF Emptied
      <4>3. rqbd[q] \in Buffers \ {b}
        BY <1>3, <3>2, <4>1, <4>2, PostVarTypes
      <4>4. rqbd_reqs[rqbd[q]] \intersect scp_hist_reqs = {}
        BY <4>1 DEF IInv, LiveInv
      <4>5. rqbd_reqs'[rqbd'[q]] = rqbd_reqs[rqbd[q]]
        BY <1>5, <4>1, <4>3
      <4> QED BY <1>24, <4>4, <4>5
    <3> QED BY <3>1, <3>2
  <2>7. CursorSafe'
    BY <1>8
  <2> QED BY <2>1, <2>2, <2>3, <2>4, <2>5, <2>6, <2>7 DEF LiveInv
<1> QED BY <1>12, <1>16, <1>17, <1>22, <1>23, <1>25, <1>26 DEF IInv

\* ptlrpc_free_rqbd.
LEMMA FreeRqbdKeeps ==
  ASSUME IInv, ptlrpc_free_rqbd PROVE IInv'
<1>1. /\ pc[Unregister] = "free"
      /\ UNCHANGED <<req, work, waiting, queued, timed, rq_refcount, rqbd_reqs,
                     rq_rqbd, embedded, live, readVars>>
      /\ UNCHANGED <<scp_rqbd_posted, scp_hist_rqbds, attached, rqbd, rqbd_refcount>>
      /\ UNCHANGED <<scp_nrqbds_posted, scp_rqbd_allocating, scp_rqbd_timeout, i,
                     srv_hist_nrqbds_cpt_max, back, lwi>>
      /\ UNCHANGED scp_hist_seq
  BY DEF ptlrpc_free_rqbd, requestVars, readVars, bufVars, histVars, reqVars,
         queueVars, localVars
<1>2. /\ scp_rqbd_idle = <<>> => /\ pc' = [pc EXCEPT ![Unregister] = "none"]
                                 /\ stop' = "freed"
                                 /\ scp_rqbd_idle' = scp_rqbd_idle
                                 /\ scp_nrqbds_total' = scp_nrqbds_total
      /\ scp_rqbd_idle # <<>> => /\ scp_rqbd_idle' = Tail(scp_rqbd_idle)
                                 /\ scp_nrqbds_total' = scp_nrqbds_total - 1
                                 /\ pc' = pc /\ stop' = stop
  BY DEF ptlrpc_free_rqbd, Goto
<1>3. Unregister \in Procs /\ Threads \subseteq Procs /\ Unregister \notin Threads
  BY Constants
<1>4. /\ scp_rqbd_posted = {} /\ scp_hist_rqbds = <<>>
      /\ stop \in {"purge", "purging", "lbug", "freed"}
      /\ scp_nrqbds_posted = 0 /\ attached = {} /\ Registering = {}
      /\ \A t \in Threads : pc[t] = "exit"
  BY <1>1, Purging DEF IInv, StopInv
<1>5. Culling = {}
  BY <1>1, <1>4, <1>3 DEF Culling, Procs
<1>6. /\ pc'[Unregister] \in {"none", "free"} /\ pc' \in [Procs -> Labels]
      /\ \A t \in Procs \ {Unregister} : pc'[t] = pc[t]
      /\ pc'[Unregister] = "free" => stop' = stop
  BY <1>1, <1>2, <1>3, PassVarTypes DEF Labels
<1>7. \A q \in Procs : \/ pc'[q] = pc[q]
                       \/ pc[q] = "free" /\ pc'[q] = "none"
  BY <1>1, <1>6
<1>8. Registering' = Registering /\ Culling' = Culling
  BY <1>7, SameHands
<1>9. Emptied' = Emptied /\ InUse' = InUse
      /\ \A c : Holding(c)' = Holding(c)
  BY <1>1, <1>8 DEF Emptied, InUse, Holding
<1>10. /\ scp_rqbd_idle' \in Seq(Buffers) /\ IsInjective(scp_rqbd_idle')
       /\ ToSet(scp_rqbd_idle') \subseteq ToSet(scp_rqbd_idle)
       /\ scp_rqbd_idle # <<>> => /\ Len(scp_rqbd_idle') = Len(scp_rqbd_idle) - 1
                                  /\ Len(scp_rqbd_idle) > 0
  <2>1. IsInjective(scp_rqbd_idle)
    BY DEF IInv, PlaceInv
  <2>2. CASE scp_rqbd_idle = <<>>
    BY <1>2, <2>1, <2>2, PostVarTypes
  <2>3. CASE scp_rqbd_idle # <<>>
    BY <1>2, <2>1, <2>3, PostVarTypes, TailFacts
  <2> QED BY <2>2, <2>3
<1>11. Cardinality(Culling) = 0 /\ Cardinality(scp_rqbd_posted) = 0
       /\ Len(scp_hist_rqbds) = 0
  BY <1>4, <1>5, FS_EmptySet, EmptyList
<1>12. scp_nrqbds_total = Len(scp_rqbd_idle) /\ Len(scp_rqbd_idle) \in Nat
  <2>1. scp_nrqbds_total = Len(scp_rqbd_idle) + Cardinality(scp_rqbd_posted)
                             + Len(scp_hist_rqbds) + Cardinality(Culling)
    BY DEF IInv, CountInv
  <2> QED BY <1>11, <2>1, PostVarTypes
<1>13. scp_nrqbds_total' = Len(scp_rqbd_idle') /\ Len(scp_rqbd_idle') \in Nat
  <2>1. CASE scp_rqbd_idle = <<>>
    BY <1>2, <1>12, <2>1
  <2>2. CASE scp_rqbd_idle # <<>>
    BY <1>2, <1>10, <1>12, <2>2
  <2> QED BY <2>1, <2>2
<1>14. BufferTypes'
  <2>1. stop' \in {"no", "threads", "unlink", "purge", "purging", "lbug", "freed"}
    BY <1>2, PassVarTypes
  <2>2. scp_nrqbds_total' \in Nat
    BY <1>13
  <2> QED BY <1>1, <1>6, <1>10, <2>1, <2>2 DEF IInv, BufferTypes, readVars
<1>15. LocalInv'
  BY <1>1, <1>7 DEF IInv, LocalInv
<1>16. UnregInv'
  BY <1>1, <1>6 DEF IInv, UnregInv
<1>17. RefInv'
  <2>1. \A q \in Procs : /\ pc'[q] = "dropped" <=> pc[q] = "dropped"
                         /\ pc'[q] = "taken" <=> pc[q] = "taken"
    BY <1>7
  <2>2. \A u : Holders(u)' = Holders(u)
    BY <1>1, <2>1 DEF Holders
  <2> QED BY <1>1, <2>1, <2>2 DEF IInv, RefInv
<1>18. LiveInv'
  <2>1. CursorSafe'
    BY <1>1 DEF IInv, LiveInv, CursorSafe, readVars
  <2> QED BY <1>1, <1>8, <1>9, <2>1 DEF IInv, LiveInv, readVars
<1>19. PlaceInv'
  BY <1>1, <1>8, <1>9, <1>10 DEF IInv, PlaceInv
<1>20. PostedInv'
  BY <1>1, <1>8, <1>9 DEF IInv, PostedInv
<1>21. HeldInv'
  BY <1>1, <1>9 DEF IInv, HeldInv
<1>22. CountInv'
  <2>1. scp_nrqbds_posted' = Cardinality(attached') + Cardinality(Registering')
    BY <1>1, <1>8 DEF IInv, CountInv
  <2>2. Cardinality(Culling') = 0 /\ Cardinality(scp_rqbd_posted') = 0
        /\ Len(scp_hist_rqbds') = 0
    BY <1>1, <1>8, <1>11
  <2>3. scp_nrqbds_total' = Len(scp_rqbd_idle') + Cardinality(scp_rqbd_posted')
                              + Len(scp_hist_rqbds') + Cardinality(Culling')
    BY <1>13, <2>2
  <2> QED BY <2>1, <2>3 DEF CountInv
<1>23. StopInv'
  <2>1. stop' \in {"purge", "purging", "lbug", "freed"}
    BY <1>2, <1>4
  <2>2. stop' = "freed" => scp_nrqbds_total' = 0
    <3>1. CASE scp_rqbd_idle = <<>>
      BY <1>2, <1>12, <3>1, EmptyList
    <3>2. CASE scp_rqbd_idle # <<>>
      <4>1. stop' = "freed" => scp_nrqbds_total = 0
        BY <1>2, <3>2 DEF IInv, StopInv
      <4> QED BY <1>10, <1>12, <3>2, <4>1
    <3> QED BY <3>1, <3>2
  <2>3. \A t \in Threads : pc'[t] = "exit"
    BY <1>3, <1>4, <1>6
  <2>4. \/ scp_hist_seq' <= MaxMessages
        \/ /\ stop' \notin {"no", "threads"}
           /\ scp_hist_seq' + Cardinality(attached')
                <= MaxMessages + Cardinality(Buffers)
    BY <1>1, <2>1 DEF IInv, StopInv
  <2> QED BY <1>1, <1>4, <1>6, <2>1, <2>2, <2>3, <2>4 DEF StopInv
<1> QED BY <1>14, <1>15, <1>16, <1>17, <1>18, <1>19, <1>20, <1>21, <1>22, <1>23
        DEF IInv

-----------------------------------------------------------------------------
\* The invariant is inductive.

\* A drop of a reference, and what follows when it was the last.
LEMMA DropStepKeeps ==
  ASSUME IInv, AtInv, NEW p \in Procs, DropStep(p) PROVE IInv'
<1>1. CASE TestLinked(p) \/ DropTimed(p)
  BY <1>1, AtStepKeeps DEF TestLinked, DropTimed
<1> QED BY <1>1, DropRequestKeeps, BufferDoneKeeps, RequestKeptKeeps,
           RequestNotKeptKeeps, FreeRequestKeeps DEF DropStep

LEMMA PostStepKeeps ==
  ASSUME IInv, NEW t \in Threads, PostStep(t) PROVE IInv'
<1>1. CASE \E b \in Buffers : ptlrpc_alloc_rqbd(t, b)
  BY <1>1, AllocKeeps
<1>2. CASE \E enomem \in BOOLEAN : ptlrpc_grow_req_bufs(t, enomem)
  BY <1>2, GrowKeeps
<1>3. CASE ptlrpc_server_post_idle_rqbds(t)
  BY <1>3, PostKeeps, PostNoneKeeps
<1>4. CASE ptlrpc_register_rqbd(t)
  BY <1>4, RegisterKeeps
<1>5. CASE PostFails(t)
  BY <1>5, PostFailsKeeps
<1>6. CASE SetTimeout(t)
  BY <1>6, SetTimeoutKeeps
<1> QED BY <1>1, <1>2, <1>3, <1>4, <1>5, <1>6 DEF PostStep

LEMMA EarlyStepKeeps ==
  ASSUME IInv, AtInv, NEW t \in Threads, EarlyStep(t) PROVE IInv'
<1>1. CASE ptlrpc_at_check_timed(t)
  BY <1>1, CheckTimedKeeps
<1>2. CASE CheckTimedEnd(t) \/ \E s \in timed : ptlrpc_at_remove_timed(t, s)
  BY <1>2, AtStepKeeps DEF CheckTimedEnd, ptlrpc_at_remove_timed
<1>3. CASE atomic_inc_not_zero(t)
  BY <1>3, IncNotZeroKeeps
<1>4. CASE \E s \in work[t] : ptlrpc_at_send_early_reply(t, s)
  BY <1>4, SendEarlyKeeps
<1>5. CASE ptlrpc_at_add_timed(t)
  BY <1>5, AddTimedKeeps
<1> QED BY <1>1, <1>2, <1>3, <1>4, <1>5 DEF EarlyStep

LEMMA ThreadStepKeeps ==
  ASSUME IInv, AtInv, NEW t \in Threads, ThreadStep(t) PROVE IInv'
<1>1. CASE WaitSleep(t)
  BY <1>1, WaitSleepKeeps
<1>2. CASE WaitStop(t)
  BY <1>2, WaitStopKeeps
<1>3. CASE ptlrpc_wait_event(t)
  BY <1>3, WaitEventKeeps
<1>4. CASE ptlrpc_retry_rqbds(t)
  BY <1>4, RetryKeeps
<1>5. CASE PostStep(t)
  BY <1>5, PostStepKeeps
<1>6. CASE ptlrpc_server_handle_req_in(t)
  BY <1>6, HandleReqInKeeps
<1>7. CASE ptlrpc_server_request_add(t)
  BY <1>7, RequestAddKeeps
<1>8. CASE ReqInError(t)
  BY <1>8, ReqInErrorKeeps
<1>9. CASE EarlyStep(t)
  BY <1>9, EarlyStepKeeps
<1>10. CASE \E s \in queued : ptlrpc_server_handle_request(t, s)
  BY <1>10, HandleRequestKeeps
<1>11. CASE PostAtEnd(t)
  BY <1>11, PostAtEndKeeps
<1>12. CASE DropStep(t)
  BY <1>12, Constants, DropStepKeeps
<1> QED BY <1>1, <1>2, <1>3, <1>4, <1>5, <1>6, <1>7, <1>8, <1>9, <1>10, <1>11,
           <1>12 DEF ThreadStep

LEMMA UnregisterStepKeeps ==
  ASSUME IInv, AtInv, UnregisterStep PROVE IInv'
<1>1. CASE ptlrpc_service_unlink_rqbd
  BY <1>1, UnlinkKeeps
<1>2. CASE BuffersUnlinked
  BY <1>2, UnlinkedKeeps
<1>3. CASE \E s \in waiting \union queued : PurgeRequest(s)
  BY <1>3, PurgeRequestKeeps
<1>4. CASE PurgeAsserts
  BY <1>4, PurgeAssertsKeeps
<1>5. CASE ptlrpc_free_rqbd
  BY <1>5, FreeRqbdKeeps
<1>6. CASE DropStep(Unregister)
  BY <1>6, Constants, DropStepKeeps
<1> QED BY <1>1, <1>2, <1>3, <1>4, <1>5, <1>6 DEF UnregisterStep

LEMMA NextKeeps ==
  ASSUME IInv, AtInv, Next PROVE IInv'
<1>1. CASE \E b \in Buffers, unlinked \in BOOLEAN : request_in_callback(b, unlinked)
  BY <1>1, ArrivalKeeps
<1>2. CASE \E max \in HistMaxes : req_history_max_seq_write(max)
  BY <1>2, HistoryLengthKeeps
<1>3. CASE \E t \in Threads : ptlrpc_at_timer(t) \/ ThreadStep(t)
  BY <1>3, AtTimerKeeps, ThreadStepKeeps
<1>4. CASE ptlrpc_unregister_service
  BY <1>4, UnregisterKeeps
<1>5. CASE UnregisterStep
  BY <1>5, UnregisterStepKeeps
<1> QED BY <1>1, <1>2, <1>3, <1>4, <1>5 DEF Next

LEMMA StutterKeeps ==
  ASSUME IInv, UNCHANGED vars PROVE IInv'
  BY AtStepKeeps DEF vars

-----------------------------------------------------------------------------
\* The timed list and its lock.

LEMMA InitAtInv == Init => AtInv
<1> SUFFICES ASSUME Init PROVE AtInv
  OBVIOUS
<1>1. /\ at = [p \in Procs |-> "none"] /\ rq = [p \in Procs |-> 0]
  BY DEF Init
<1> QED BY <1>1 DEF AtInv

\* A process that is neither in ptlrpc_at_check_timed nor about to finish a
\* request is not at the timed list.
LEMMA AtElsewhere ==
  ASSUME AtInv, NEW p \in Procs, pc[p] \notin {"early", "dropped"}
  PROVE  at[p] = "none"
  BY DEF AtInv

\* A step that leaves the timed list alone and moves one process, which is not
\* at the list, and such as sleep.
LEMMA AtMoves ==
  ASSUME AtInv, UNCHANGED <<atVars, timed>>, NEW p \in Procs, at[p] = "none",
         \A q \in Procs \ {p} :
           /\ req'[q] = req[q] /\ work'[q] = work[q]
           /\ pc'[q] = pc[q] \/ pc[q] = "asleep"
  PROVE  AtInv'
<1>1. \A q \in Procs : at[q] # "none" => /\ pc'[q] = pc[q] /\ req'[q] = req[q]
                                         /\ work'[q] = work[q]
  BY DEF AtInv
<1> QED BY <1>1 DEF AtInv, atVars

\* The same for a thread that has nothing at the timed list and no request.
LEMMA AtThreadMoves ==
  ASSUME IInv, AtInv, UNCHANGED <<atVars, timed, req, work>>, NEW p \in Procs,
         at[p] = "none", NEW l, pc' = [pc EXCEPT ![p] = l]
  PROVE  AtInv'
<1>1. \A q \in Procs \ {p} :
        /\ req'[q] = req[q] /\ work'[q] = work[q]
        /\ pc'[q] = pc[q] \/ pc[q] = "asleep"
  BY PassVarTypes
<1> QED BY <1>1, AtMoves

LEMMA AtWaitKeeps ==
  ASSUME IInv, AtInv, NEW t \in Threads,
         \/ WaitSleep(t) \/ WaitStop(t) \/ ptlrpc_wait_event(t)
         \/ ptlrpc_retry_rqbds(t) \/ ptlrpc_at_timer(t)
  PROVE  AtInv'
<1>1. /\ UNCHANGED <<atVars, timed, req, work>> /\ pc[t] \in {"wait", "asleep"}
  BY DEF WaitSleep, WaitStop, ptlrpc_wait_event, ptlrpc_retry_rqbds,
         ptlrpc_at_timer, localVars
<1>2. \E l : pc' = [pc EXCEPT ![t] = l]
  BY DEF WaitSleep, WaitStop, ptlrpc_wait_event, ptlrpc_retry_rqbds,
         ptlrpc_at_timer, ptlrpc_check_rqbd_pool, Goto
<1>3. t \in Procs /\ at[t] = "none"
  BY <1>1, Constants, AtElsewhere
<1> QED BY <1>1, <1>2, <1>3, AtThreadMoves

LEMMA AtPostKeeps ==
  ASSUME IInv, AtInv, NEW t \in Threads, PostStep(t) PROVE AtInv'
<1>1. /\ UNCHANGED <<atVars, timed, req, work>>
      /\ pc[t] \in {"alloc", "post", "register", "failed"}
  BY DEF PostStep, ptlrpc_alloc_rqbd, ptlrpc_grow_req_bufs,
         ptlrpc_server_post_idle_rqbds, ptlrpc_register_rqbd, PostFails,
         SetTimeout, localVars
<1>2. t \in Procs /\ at[t] = "none"
  BY <1>1, Constants, AtElsewhere
<1>3. \E l : pc' = [pc EXCEPT ![t] = l]
  <2>1. CASE \E b \in Buffers : ptlrpc_alloc_rqbd(t, b)
    <3>1. pc' = pc
      BY <2>1 DEF ptlrpc_alloc_rqbd
    <3>2. pc' = [pc EXCEPT ![t] = pc[t]]
      BY <1>2, <3>1, PassVarTypes
    <3> QED BY <3>2
  <2>2. CASE ~ \E b \in Buffers : ptlrpc_alloc_rqbd(t, b)
    BY <2>2 DEF PostStep, ptlrpc_grow_req_bufs, ptlrpc_server_post_idle_rqbds,
                ptlrpc_register_rqbd, PostFails, SetTimeout, Return, Goto
  <2> QED BY <2>1, <2>2
<1> QED BY <1>1, <1>2, <1>3, AtThreadMoves

\* ptlrpc_server_handle_req_in and ptlrpc_at_add_timed put a request on the
\* list: nobody is checking it, and a request that is being finished has been
\* forgotten by all others.
LEMMA AtAdds ==
  ASSUME IInv, AtInv, AtLockFree, UNCHANGED <<atVars, work>>,
         NEW p \in Procs, pc[p] \in {"requests", "sent"}, NEW s,
         timed' \subseteq timed \union {s},
         \A q \in Procs \ {p} : pc'[q] = pc[q] /\ req'[q] = req[q],
         \A q \in Procs : pc[q] = "dropped" => req[q] # s
  PROVE  AtInv'
<1>1. at[p] = "none"
  BY AtElsewhere
<1>2. \A q \in Procs : at[q] \in {"none", "linked", "unlinked"}
  BY DEF AtInv, AtLockFree
<1>3. \A q \in Procs : at[q] # "none" => /\ q # p /\ pc'[q] = pc[q]
                                         /\ req'[q] = req[q]
  BY <1>1
<1> QED BY <1>2, <1>3 DEF AtInv, atVars

LEMMA AtReqInKeeps ==
  ASSUME IInv, AtInv, NEW t \in Threads, ptlrpc_server_handle_req_in(t)
  PROVE  AtInv'
<1> DEFINE s == Min(waiting)
<1>1. t \in Procs
  BY Constants
<1>2. /\ pc[t] = "requests" /\ waiting # {} /\ req' = [req EXCEPT ![t] = s]
      /\ timed' = timed \/ (AtLockFree /\ timed' = timed \union {s})
      /\ pc' = [pc EXCEPT ![t] = "taken"] /\ UNCHANGED <<atVars, work>>
  BY DEF ptlrpc_server_handle_req_in, Goto
<1>3. s \in waiting
  <2>1. waiting \in SUBSET Nat
    BY PassVarTypes, Constants
  <2> QED BY <1>2, <2>1, MinFacts
<1> HIDE DEF s
<1>4. \A q \in Procs \ {t} : /\ pc'[q] = pc[q] /\ req'[q] = req[q]
                             /\ work'[q] = work[q]
  BY <1>2, PassVarTypes
<1>5. CASE timed' = timed
  BY <1>1, <1>2, <1>4, <1>5, AtElsewhere, AtMoves
<1>6. CASE AtLockFree /\ timed' = timed \union {s}
  <2>1. \A q \in Procs : pc[q] = "dropped" => req[q] # s
    BY <1>3, Finished
  <2> QED BY <1>1, <1>2, <1>4, <1>6, <2>1, AtAdds
<1> QED BY <1>2, <1>5, <1>6

LEMMA AtAddKeeps ==
  ASSUME IInv, AtInv, NEW t \in Threads, ptlrpc_at_add_timed(t) PROVE AtInv'
<1>1. t \in Procs
  BY Constants
<1>2. /\ pc[t] = "sent" /\ AtLockFree /\ pc' = [pc EXCEPT ![t] = "drop"]
      /\ timed' = timed \union {req[t]} /\ UNCHANGED <<atVars, work>>
      /\ req' = req
  BY DEF ptlrpc_at_add_timed, Goto, localVars
<1>3. \A q \in Procs \ {t} : pc'[q] = pc[q] /\ req'[q] = req[q]
  BY <1>2, PassVarTypes
<1>4. \A q \in Procs : pc[q] = "dropped" => req[q] # req[t]
  BY <1>1, <1>2, Finished
<1> QED BY <1>1, <1>2, <1>3, <1>4, AtAdds

LEMMA AtServeKeeps ==
  ASSUME IInv, AtInv, NEW t \in Threads,
         \/ ptlrpc_server_request_add(t) \/ ReqInError(t) \/ PostAtEnd(t)
         \/ \E s \in work[t] : ptlrpc_at_send_early_reply(t, s)
         \/ \E s \in queued : ptlrpc_server_handle_request(t, s)
  PROVE  AtInv'
<1>1. t \in Procs
  BY Constants
<1>2. /\ UNCHANGED <<atVars, timed>>
      /\ pc[t] \in {"taken", "serve", "requests", "handle", "last"} \/ Replying(t)
  BY DEF ptlrpc_server_request_add, ReqInError, PostAtEnd,
         ptlrpc_at_send_early_reply, ptlrpc_server_handle_request, Serving
<1>3. at[t] = "none"
  BY <1>1, <1>2, AtElsewhere DEF Replying
<1>4. \A q \in Procs \ {t} : req'[q] = req[q] /\ work'[q] = work[q]
  BY PassVarTypes DEF ptlrpc_server_request_add, ReqInError, PostAtEnd,
         ptlrpc_at_send_early_reply, ptlrpc_server_handle_request
<1>5. \A q \in Procs \ {t} : pc'[q] = pc[q] \/ pc[q] = "asleep"
  <2>1. CASE ptlrpc_server_request_add(t)
    <3>1. PICK next \in {"wait", "serve"} : WakeUp([pc EXCEPT ![t] = next])
      BY <2>1 DEF ptlrpc_server_request_add
    <3>2. [pc EXCEPT ![t] = next] \in [Procs -> Labels]
      BY <1>1, PassVarTypes DEF Labels
    <3>3. /\ pc' \in [Procs -> Labels] /\ lwi' \in [Threads -> BOOLEAN]
          /\ \A q \in Procs :
               \/ pc'[q] = [pc EXCEPT ![t] = next][q]
               \/ q \in Threads /\ pc[q] = "asleep" /\ pc'[q] = "wait"
      BY <3>1, <3>2, Woken
    <3> QED BY <3>3, PassVarTypes
  <2>2. CASE ~ ptlrpc_server_request_add(t)
    BY <2>2, PassVarTypes DEF ReqInError, PostAtEnd, ptlrpc_at_send_early_reply,
       ptlrpc_server_handle_request, Goto
  <2> QED BY <2>1, <2>2
<1> QED BY <1>1, <1>2, <1>3, <1>4, <1>5, AtMoves

\* The steps of ptlrpc_at_check_timed.
LEMMA AtCheckKeeps ==
  ASSUME IInv, AtInv, NEW t \in Threads,
         \/ ptlrpc_at_check_timed(t)
         \/ \E s \in timed : ptlrpc_at_remove_timed(t, s)
         \/ atomic_inc_not_zero(t) \/ CheckTimedEnd(t)
  PROVE  AtInv'
<1>1. t \in Procs
  BY Constants
<1>2. timed \subseteq Requests /\ 0 \notin Requests
  BY PassVarTypes, Constants
<1>3. CASE ptlrpc_at_check_timed(t)
  <2>1. /\ pc[t] \in {"serve", "requests"} /\ at' = [at EXCEPT ![t] = "check"]
        /\ pc' = [pc EXCEPT ![t] = "early"] /\ UNCHANGED <<timed, rq, req, work>>
    BY <1>3 DEF ptlrpc_at_check_timed, Serving, Goto, localVars
  <2>2. work[t] = {} /\ at[t] = "none"
    BY <1>1, <2>1, AtElsewhere DEF IInv, LocalInv
  <2> QED BY <1>1, <2>1, <2>2, PassVarTypes DEF AtInv
<1>4. CASE \E s \in timed : ptlrpc_at_remove_timed(t, s)
  <2>1. PICK s \in timed : ptlrpc_at_remove_timed(t, s)
    BY <1>4
  <2>2. /\ at[t] = "check" /\ at' = [at EXCEPT ![t] = "peek"]
        /\ rq' = [rq EXCEPT ![t] = s] /\ timed' = timed \ {s}
        /\ UNCHANGED <<pc, req, work>>
    BY <2>1 DEF ptlrpc_at_remove_timed, localVars
  <2> QED BY <1>1, <1>2, <2>2 DEF AtInv
<1>5. CASE atomic_inc_not_zero(t)
  <2>1. PICK l \in {"check", "lost"} : at' = [at EXCEPT ![t] = l]
    BY <1>5 DEF atomic_inc_not_zero
  <2>2. PICK held \in SUBSET {rq[t]} : work' = [work EXCEPT ![t] = @ \union held]
    BY <1>5 DEF atomic_inc_not_zero
  <2>3. /\ at[t] = "peek" /\ rq' = [rq EXCEPT ![t] = 0]
        /\ UNCHANGED <<pc, req, timed>>
    BY <1>5 DEF atomic_inc_not_zero
  <2>4. \A q \in Procs \ {t} : work'[q] = work[q]
    BY <2>2, PassVarTypes
  <2>5. work'[t] \intersect timed = {}
    BY <1>1, <2>2, <2>3, PassVarTypes DEF AtInv
  <2> QED BY <1>1, <2>1, <2>3, <2>4, <2>5 DEF AtInv
<1>6. CASE CheckTimedEnd(t)
  BY <1>1, <1>6 DEF AtInv, CheckTimedEnd, localVars
<1> QED BY <1>3, <1>4, <1>5, <1>6

\* The steps of ptlrpc_server_drop_request.
LEMMA AtDropKeeps ==
  ASSUME IInv, AtInv, NEW p \in Procs, DropStep(p) PROVE AtInv'
<1>1. CASE ptlrpc_server_drop_request(p)
  <2>1. pc[p] = "drop" /\ UNCHANGED <<atVars, timed, work>>
    BY <1>1 DEF ptlrpc_server_drop_request
  <2>2. \A q \in Procs \ {p} : pc'[q] = pc[q] /\ req'[q] = req[q]
    BY <1>1, PassVarTypes DEF ptlrpc_server_drop_request, Return, Goto
  <2> QED BY <2>1, <2>2, AtElsewhere, AtMoves
<1>2. CASE ptlrpc_server_free_request(p)
  <2>1. pc[p] = "cull" /\ UNCHANGED <<atVars, timed, req, work>>
    BY <1>2 DEF ptlrpc_server_free_request
  <2>2. \E l : pc' = [pc EXCEPT ![p] = l]
    BY <1>2 DEF ptlrpc_server_free_request, CullLoop, Return, Goto
  <2> QED BY <2>1, <2>2, AtElsewhere, AtThreadMoves
<1>3. CASE TestLinked(p)
  BY <1>3 DEF TestLinked, localVars, AtInv
<1>4. CASE DropTimed(p)
  BY <1>4 DEF DropTimed, localVars, AtInv
<1>5. CASE BufferDone(p) \/ RequestKept(p) \/ RequestNotKept(p)
  <2>1. /\ at[p] = "unlinked" /\ at' = [at EXCEPT ![p] = "none"]
        /\ req' = [req EXCEPT ![p] = 0] /\ UNCHANGED <<timed, rq, work>>
    BY <1>5 DEF BufferDone, RequestKept, RequestNotKept, LeaveBuffer
  <2>2. \E l : pc' = [pc EXCEPT ![p] = l]
    BY <1>5 DEF BufferDone, RequestKept, RequestNotKept, CullLoop, Return, Goto
  <2>3. \A q \in Procs \ {p} : pc'[q] = pc[q] /\ req'[q] = req[q]
    BY <2>1, <2>2, PassVarTypes
  <2> QED BY <2>1, <2>3 DEF AtInv
<1> QED BY <1>1, <1>2, <1>3, <1>4, <1>5 DEF DropStep

LEMMA AtUnregisterKeeps ==
  ASSUME IInv, AtInv, ptlrpc_unregister_service \/ UnregisterStep PROVE AtInv'
<1>1. Unregister \in Procs
  BY Constants
<1>2. CASE ptlrpc_unregister_service
  <2>1. /\ UNCHANGED <<atVars, timed, req, work>>
        /\ \A q \in Procs : pc'[q] = pc[q] \/ pc[q] = "asleep"
    BY <1>2 DEF ptlrpc_unregister_service
  <2>2. at[Unregister] = "none"
    BY <1>1, <1>2, AtElsewhere DEF ptlrpc_unregister_service, IInv, StopInv
  <2> QED BY <1>1, <2>1, <2>2, AtMoves
<1>3. CASE DropStep(Unregister)
  BY <1>1, <1>3, AtDropKeeps
<1>4. CASE \/ ptlrpc_service_unlink_rqbd \/ BuffersUnlinked \/ PurgeAsserts
           \/ ptlrpc_free_rqbd \/ \E s \in waiting \union queued : PurgeRequest(s)
  <2>1. /\ UNCHANGED <<atVars, timed, work>>
        /\ pc[Unregister] \in {"none", "purge", "free"}
    BY <1>4 DEF ptlrpc_service_unlink_rqbd, BuffersUnlinked, PurgeAsserts,
       ptlrpc_free_rqbd, PurgeRequest, localVars, IInv, StopInv
  <2>2. \A q \in Procs \ {Unregister} : pc'[q] = pc[q] /\ req'[q] = req[q]
    BY <1>4, PassVarTypes DEF ptlrpc_service_unlink_rqbd, BuffersUnlinked,
       PurgeAsserts, ptlrpc_free_rqbd, PurgeRequest, localVars, Goto
  <2> QED BY <1>1, <2>1, <2>2, AtElsewhere, AtMoves
<1> QED BY <1>2, <1>3, <1>4 DEF UnregisterStep

LEMMA AtNextKeeps ==
  ASSUME IInv, AtInv, [Next]_vars PROVE AtInv'
<1>1. ASSUME NEW b \in Buffers, NEW unlinked \in BOOLEAN,
             request_in_callback(b, unlinked)
      PROVE  AtInv'
  <2>1. /\ UNCHANGED <<atVars, timed, req, work>> /\ WakeUp(pc) /\ b \in attached
    BY <1>1 DEF request_in_callback
  <2>2. \A q \in Procs : pc'[q] = pc[q] \/ pc[q] = "asleep"
    BY <2>1, Woken, PassVarTypes
  <2>3. Unregister \in Procs /\ at[Unregister] = "none"
    BY <2>1, NetworkRuns, AtElsewhere, Constants
  <2> QED BY <2>1, <2>2, <2>3, AtMoves
<1>2. ASSUME UNCHANGED <<atVars, timed, req, work, pc>> PROVE AtInv'
  BY <1>2 DEF AtInv, atVars
<1>3. CASE \E max \in HistMaxes : req_history_max_seq_write(max)
  BY <1>2, <1>3 DEF req_history_max_seq_write, localVars
<1>4. CASE UNCHANGED vars
  BY <1>2, <1>4 DEF vars, localVars
<1>5. ASSUME NEW t \in Threads, ptlrpc_at_timer(t) \/ ThreadStep(t) PROVE AtInv'
  BY <1>5, Constants, AtWaitKeeps, AtPostKeeps, AtReqInKeeps, AtAddKeeps,
     AtServeKeeps, AtCheckKeeps, AtDropKeeps DEF ThreadStep, EarlyStep
<1> QED BY <1>1, <1>3, <1>4, <1>5, AtUnregisterKeeps DEF Next

\* Every state of the specification satisfies the inductive invariant.
LEMMA Inductive == Spec => [](IInv /\ AtInv)
<1>1. Init => IInv /\ AtInv
  BY InitIInv, InitAtInv
<1>2. IInv /\ AtInv /\ [Next]_vars => (IInv /\ AtInv)'
  BY NextKeeps, StutterKeeps, AtNextKeeps
<1> QED BY <1>1, <1>2, PTL DEF Spec

-----------------------------------------------------------------------------
\* The theorems.

\* The buffers that are being emptied are as many as those who empty them.
LEMMA EmptiedCount ==
  ASSUME IInv
  PROVE  IsFiniteSet(Emptied) /\ Cardinality(Emptied) = Cardinality(Culling)
<1> DEFINE f == [p \in Culling |-> rqbd[p]]
<1>1. f \in Bijection(Culling, Emptied)
  <2>1. f \in [Culling -> Emptied] /\ \A p, q \in Culling : f[p] = f[q] => p = q
    BY DEF Emptied, IInv, PlaceInv
  <2>2. \A b \in Emptied : \E p \in Culling : f[p] = b
    BY DEF Emptied
  <2> QED BY <2>1, <2>2 DEF Bijection, Injection, Surjection, IsInjective
<1>2. ExistsBijection(Culling, Emptied)
  BY <1>1 DEF ExistsBijection
<1>3. IsFiniteSet(Culling)
  BY PostVarTypes
<1> QED BY <1>2, <1>3, FS_Bijection

\* The cardinality of a union of disjoint sets.
LEMMA DisjointCount ==
  ASSUME NEW S, IsFiniteSet(S), NEW T, IsFiniteSet(T), S \intersect T = {}
  PROVE  /\ IsFiniteSet(S \union T) /\ Cardinality(S \union T) \in Nat
         /\ Cardinality(S \union T) = Cardinality(S) + Cardinality(T)
<1>1. IsFiniteSet(S \union T)
      /\ Cardinality(S \union T)
           = Cardinality(S) + Cardinality(T) - Cardinality(S \intersect T)
  BY FS_Union
<1>2. Cardinality(S \intersect T) = 0
  BY FS_EmptySet
<1>3. Cardinality(S) \in Nat /\ Cardinality(T) \in Nat
      /\ Cardinality(S \union T) \in Nat
  BY <1>1, FS_CardinalityType
<1> QED BY <1>1, <1>2, <1>3

\* The buffers that exist are those on the lists and those being emptied.
LEMMA AllocatedCount ==
  ASSUME IInv
  PROVE  Cardinality(Allocated) = Len(scp_rqbd_idle) + Cardinality(scp_rqbd_posted)
                                    + Len(scp_hist_rqbds) + Cardinality(Culling)
<1> DEFINE A == ToSet(scp_rqbd_idle) B == scp_rqbd_posted
           C == ToSet(scp_hist_rqbds)
<1>1. Allocated = ((A \union B) \union C) \union Emptied
  <2> DEFINE E == {rqbd[p] : p \in {q \in Procs : rqbd[q] # None}}
  <2>1. E \subseteq B \union Emptied
    <3> SUFFICES ASSUME NEW p \in Procs, rqbd[p] # None
                 PROVE  rqbd[p] \in B \union Emptied
      OBVIOUS
    <3>1. CASE pc[p] = "cull"
      BY <3>1 DEF Emptied, Culling
    <3>2. CASE pc[p] = "register"
      <4>1. p \in Registering
        BY <3>2, Constants DEF Registering, Procs, IInv, UnregInv
      <4> QED BY <4>1 DEF IInv, PostedInv
    <3> QED BY <3>1, <3>2 DEF IInv, LocalInv
  <2>2. Emptied \subseteq E
    <3> SUFFICES ASSUME NEW p \in Culling PROVE rqbd[p] \in E
      BY DEF Emptied
    <3>1. p \in Procs /\ rqbd[p] # None
      BY DEF Culling, IInv, LocalInv
    <3> QED BY <3>1
  <2>3. Allocated = A \union B \union C \union E
    BY DEF Allocated
  <2> HIDE DEF A, B, C, E
  <2> QED BY <2>1, <2>2, <2>3
<1>2. /\ A \intersect B = {} /\ (A \union B) \intersect C = {}
      /\ ((A \union B) \union C) \intersect Emptied = {}
  BY DEF IInv, PlaceInv
<1>3. /\ IsFiniteSet(A) /\ Cardinality(A) = Len(scp_rqbd_idle)
      /\ IsFiniteSet(C) /\ Cardinality(C) = Len(scp_hist_rqbds)
  BY PostVarTypes, LenIsCardinality DEF IInv, PlaceInv
<1>4. IsFiniteSet(B) /\ IsFiniteSet(Emptied)
      /\ Cardinality(Emptied) = Cardinality(Culling)
  BY PostVarTypes, EmptiedCount
<1> HIDE DEF A, B, C
<1>5. IsFiniteSet(A \union B)
      /\ Cardinality(A \union B) = Cardinality(A) + Cardinality(B)
  BY <1>2, <1>3, <1>4, DisjointCount
<1>6. IsFiniteSet((A \union B) \union C)
      /\ Cardinality((A \union B) \union C)
           = Cardinality(A \union B) + Cardinality(C)
  BY <1>2, <1>3, <1>5, DisjointCount
<1>7. Cardinality(((A \union B) \union C) \union Emptied)
        = Cardinality((A \union B) \union C) + Cardinality(Emptied)
  BY <1>2, <1>4, <1>6, DisjointCount
<1>8. Cardinality(Allocated) = Cardinality(A) + Cardinality(B) + Cardinality(C)
                                 + Cardinality(Emptied)
  BY <1>1, <1>5, <1>6, <1>7
<1> QED BY <1>3, <1>4, <1>8 DEF B

\* Every buffer is in one place only, and scp_nrqbds_total and
\* scp_nrqbds_posted count them, although the buffers move between the lists
\* in steps of several threads and of the network.
THEOREM BuffersCounted == Spec => []BuffersAccounted
<1>1. IInv /\ AtInv => BuffersAccounted
  <2> SUFFICES ASSUME IInv, AtInv PROVE BuffersAccounted
    OBVIOUS
  <2>1. scp_nrqbds_total = Cardinality(Allocated)
    BY AllocatedCount DEF IInv, CountInv
  <2>2. TypeOK
    BY DEF TypeOK, IInv, AtInv
  <2> QED BY <2>1, <2>2 DEF BuffersAccounted, IInv, CountInv, PostedInv
<1> QED BY <1>1, Inductive, PTL

\* A buffer has a reference for every request that is not finished and one for
\* the network, and at most one request is embedded in it, none while the
\* network has it: request_in_callback never overwrites a request in use.
THEOREM BuffersHeld == Spec => []BufferHeld
<1>1. IInv => BufferHeld
  <2> SUFFICES ASSUME IInv, NEW b \in Buffers
               PROVE  /\ rqbd_refcount[b] = Cardinality(Holding(b))
                                              + (IF b \in attached THEN 1 ELSE 0)
                      /\ Cardinality({s \in live \intersect embedded :
                                        rq_rqbd[s] = b}) <= 1
                      /\ b \in attached =>
                           \A s \in live \intersect embedded : rq_rqbd[s] # b
    BY DEF BufferHeld
  <2> DEFINE E == {s \in live \intersect embedded : rq_rqbd[s] = b}
  <2>1. \A s, u \in E : s = u
    BY DEF IInv, HeldInv
  <2>2. E = {} \/ \E s : E = {s}
    <3> HIDE DEF E
    <3> QED BY <2>1
  <2>3. Cardinality(E) <= 1
    <3> HIDE DEF E
    <3>1. Cardinality(E) = 0 \/ Cardinality(E) = 1
      BY <2>2, FS_EmptySet, FS_Singleton
    <3> QED BY <3>1
  <2>4. /\ rqbd_refcount[b] = Cardinality(Holding(b))
                                + (IF b \in attached THEN 1 ELSE 0)
        /\ b \in attached => \A s \in live \intersect embedded : rq_rqbd[s] # b
    BY DEF IInv, HeldInv
  <2> QED BY <2>3, <2>4
<1> QED BY <1>1, Inductive, PTL

\* No queue, thread, early reply, timed list or history reaches a request that
\* ptlrpc_server_free_request freed.  Only ptlrpc_at_check_timed may, between
\* clearing rq_at_linked and taking a reference, and rq_refcount is then 0.
THEOREM NothingDangles == Spec => []NoDangling
<1>1. IInv /\ AtInv => NoDangling
  <2> SUFFICES ASSUME IInv, AtInv PROVE NoDangling
    OBVIOUS
  <2>1. InUse \subseteq live /\ timed \subseteq InUse /\ scp_hist_reqs \subseteq live
    BY ReqVarTypes DEF IInv, LiveInv
  <2>2. waiting \union queued \subseteq InUse
    BY PassVarTypes DEF InUse
  <2>3. ASSUME NEW p \in Procs PROVE work[p] \union ({req[p]} \ {0}) \subseteq InUse
    BY PassVarTypes DEF InUse
  <2>4. ASSUME NEW b \in Buffers
        PROVE  rqbd_reqs[b] \subseteq live /\ rqbd_reqs[b] \intersect timed = {}
    <3>1. \A s \in rqbd_reqs[b] : s \in live /\ rq_rqbd[s] = b /\ s \in Requests
      BY ReqVarTypes DEF IInv, LiveInv
    <3>2. \A s \in rqbd_reqs[b] : s \notin InUse
      BY <3>1 DEF IInv, LiveInv
    <3> QED BY <2>1, <3>1, <3>2
  <2>5. ASSUME NEW p \in Procs, rq[p] # 0, rq[p] \notin live
        PROVE  rq_refcount[rq[p]] = 0
    BY <2>1, <2>5, ReferencedInUse DEF AtInv
  <2> QED BY <2>1, <2>2, <2>3, <2>4, <2>5 DEF NoDangling
<1> QED BY <1>1, Inductive, PTL

\* A request above scp_hist_seq_culled is still in the history, whichever
\* buffers were culled and whichever requests left it early: a reader that
\* checks the sequence number follows no pointer to a freed request.
THEOREM CursorsSafe == Spec => []CursorSafe
<1>1. IInv => CursorSafe
  BY DEF IInv, LiveInv
<1> QED BY <1>1, Inductive, PTL

\* When the purge has dropped all requests no buffer is posted, and a purge
\* that ends has freed every buffer, whatever length of the history is written
\* meanwhile.
THEOREM PurgeIsComplete == Spec => []PurgeFrees
<1>1. IInv => PurgeFrees
  <2> SUFFICES ASSUME IInv PROVE PurgeFrees
    OBVIOUS
  <2>1. ASSUME pc[Unregister] = "purge", waiting \union queued = {}
        PROVE  scp_rqbd_posted = {}
    <3>1. /\ attached = {} /\ Registering = {}
          /\ \A t \in Threads : req[t] = 0 /\ work[t] = {}
      BY <2>1, Purging
    <3>2. req[Unregister] = 0 /\ work[Unregister] = {}
      BY <2>1, Constants DEF IInv, LocalInv, UnregInv
    <3>3. InUse = {}
      BY <2>1, <3>1, <3>2, Constants DEF InUse, Procs
    <3>4. \A b \in Buffers : Holding(b) = {}
      BY <3>3, HoldingInUse DEF IInv
    <3>5. scp_rqbd_posted = {}
      BY <3>1, <3>4, PostVarTypes DEF IInv, PostedInv
    <3> QED BY <3>5
  <2>2. stop = "freed" => scp_nrqbds_total = 0
    BY DEF IInv, StopInv
  <2> QED BY <2>1, <2>2 DEF PurgeFrees
<1> QED BY <1>1, Inductive, PTL

==============================================================================
