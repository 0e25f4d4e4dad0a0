------------------------- MODULE PtlrpcThreadsProofs -------------------------
(***************************************************************************)
(* Proofs about PtlrpcThreads for every set of threads and every           *)
(* configuration of the service.                                           *)
(***************************************************************************)
EXTENDS PtlrpcThreads, FiniteSetTheorems, SequenceTheorems,
        WellFoundedInduction, TLAPS

Listed == ToSet(scp_threads)

\* The threads that the two counters count.
Starting == {t \in Threads : /\ mem[t] = "live" /\ ~Stopped(t)
                             /\ "SVC_STARTING" \in t_flags[t]}
Running == {t \in Threads : "SVC_RUNNING" \in t_flags[t]}

Types ==
  /\ TypeOK
  /\ conf \in Conf
  /\ scp_threads \in Seq(Threads) /\ IsInjective(scp_threads)
  /\ main \in [Threads -> {"none", "init", "loop", "work", "requests", "out",
                           "gone"}]
  /\ create \in [Creators -> {"idle", "check", "lock", "run", "wait"}]

Counts ==
  /\ scp_nthrs_starting <= 1
  /\ scp_nthrs_starting = Cardinality(Starting)
  /\ scp_nthrs_running = Cardinality(Running)
  /\ WithinLimit

\* What a creator has at each point of ptlrpc_start_thread; no two creators
\* have the same thread, and a service thread creates only from its main loop.
CreatorInv ==
  \A c \in Creators :
    /\ create[c] \in {"idle", "check"} <=> create_thr[c] = None
    /\ create[c] = "lock" => /\ t_flags[create_thr[c]] = {}
                             /\ main[create_thr[c]] = "none"
                             /\ create_thr[c] \notin Listed
    /\ create[c] = "run" =>
         /\ "SVC_STARTING" \in t_flags[create_thr[c]]
         /\ {"SVC_RUNNING", "SVC_STOPPED"} \intersect t_flags[create_thr[c]] = {}
         /\ main[create_thr[c]] = "none"
         /\ create_thr[c] \in Listed
    /\ create[c] = "wait" => c = Starter /\ main[create_thr[c]] # "none"
    /\ c # Starter /\ create[c] # "idle" => main[c] = "requests"
    /\ create_thr[c] # None => mem[create_thr[c]] = "live"
    /\ \A d \in Creators :
         create_thr[c] = create_thr[d] /\ create_thr[c] # None => c = d

\* What the flags of a thread and the list say about where it is.
ThreadInv ==
  \A t \in Threads :
    /\ mem[t] = "unused" => t_flags[t] = {} /\ main[t] = "none"
    /\ t \in Listed => mem[t] = "live"
    /\ main[t] \in {"init", "loop", "work", "requests", "out"} =>
         t \in Listed /\ "SVC_STOPPED" \notin t_flags[t]
    /\ main[t] = "init" => "SVC_STARTING" \in t_flags[t]
    /\ main[t] \in {"loop", "work", "requests"} =>
         "SVC_STARTING" \notin t_flags[t] /\ "SVC_RUNNING" \in t_flags[t]
    /\ main[t] \in {"none", "init", "gone"} => "SVC_RUNNING" \notin t_flags[t]

\* The service starts threads, or stops them; at the end none is left.
ServiceInv ==
  /\ service = "starting" <=> create[Starter] # "idle"
  /\ stop # "no" => service \in {"failed", "unregister", "gone"}
  /\ stop = "done" => scp_threads = <<>>
  /\ service = "gone" => stop = "done"

\* The inductive invariant.
IInv == Types /\ Counts /\ CreatorInv /\ ThreadInv /\ ServiceInv

-----------------------------------------------------------------------------
\* A set of naturals that is not empty has a smallest element.
LEMMA MinFacts ==
  ASSUME NEW S \in SUBSET Nat, S # {}
  PROVE  Min(S) \in S /\ \A y \in S : Min(S) <= y
<1>1. PICK x \in S : \A y \in S : ~(<<y, x>> \in OpToRel(<, Nat))
  <2>1. IsWellFoundedOn(OpToRel(<, Nat), Nat)
    BY NatLessThanWellFounded
  <2> QED BY <2>1, WFMin
<1>2. \A y \in S : x <= y
  <2>1. \A a, b \in Nat : a < b => <<a, b>> \in OpToRel(<, Nat)
    BY DEF OpToRel
  <2> TAKE y \in S
  <2>2. x \in Nat /\ y \in Nat
    OBVIOUS
  <2>3. ~(y < x)
    BY <1>1, <2>1, <2>2
  <2> QED BY <2>2, <2>3
<1> QED BY <1>2 DEF Min

\* A part of a list without repetitions.
LEMMA PartFacts ==
  ASSUME NEW s \in Seq(Threads), IsInjective(s),
         NEW m \in 1 .. Len(s) + 1, NEW n \in 0 .. Len(s)
  PROVE  /\ SubSeq(s, m, n) \in Seq(Threads)
         /\ IsInjective(SubSeq(s, m, n))
         /\ ToSet(SubSeq(s, m, n)) = {s[i] : i \in m .. n}
         /\ Len(SubSeq(s, m, n)) = IF m <= n THEN n - m + 1 ELSE 0
<1> DEFINE p == SubSeq(s, m, n)
<1>1. Len(s) \in Nat /\ DOMAIN s = 1 .. Len(s) /\ m \in Int /\ n \in Int
  BY LenProperties
<1>2. \A i \in m .. n : i \in 1 .. Len(s) /\ s[i] \in Threads
  BY <1>1, ElementOfSeq
<1>3. /\ p \in Seq(Threads) /\ Len(p) = IF m <= n THEN n - m + 1 ELSE 0
      /\ \A i \in 1 .. n - m + 1 : p[i] = s[m + i - 1]
  BY <1>1, <1>2, SubSeqProperties
<1> HIDE DEF p
<1>4. DOMAIN p = 1 .. n - m + 1
  <2>1. DOMAIN p = 1 .. Len(p)
    BY <1>3, LenProperties
  <2> QED BY <1>1, <1>3, <2>1
<1>5. \A i \in 1 .. n - m + 1 : m + i - 1 \in m .. n
  BY <1>1
<1>6. IsInjective(p)
  <2> SUFFICES ASSUME NEW i \in 1 .. n - m + 1, NEW j \in 1 .. n - m + 1, p[i] = p[j]
               PROVE  i = j
    BY <1>4 DEF IsInjective
  <2>1. m + i - 1 = m + j - 1
    <3>1. m + i - 1 \in 1 .. Len(s) /\ m + j - 1 \in 1 .. Len(s)
      BY <1>2, <1>5
    <3>2. s[m + i - 1] = s[m + j - 1]
      BY <1>3
    <3>3. \A a, b \in 1 .. Len(s) : s[a] = s[b] => a = b
      BY <1>1 DEF IsInjective
    <3> QED BY <3>1, <3>2, <3>3
  <2> QED BY <1>1, <2>1
<1>7. ToSet(p) = {s[i] : i \in m .. n}
  <2>1. ASSUME NEW i \in m .. n PROVE s[i] \in ToSet(p)
    <3>1. i - m + 1 \in 1 .. n - m + 1 /\ m + (i - m + 1) - 1 = i
      BY <1>1
    <3>2. p[i - m + 1] = s[i]
      BY <1>3, <3>1
    <3> QED BY <1>4, <3>1, <3>2 DEF ToSet
  <2>2. ASSUME NEW i \in 1 .. n - m + 1 PROVE p[i] \in {s[j] : j \in m .. n}
    <3>1. p[i] = s[m + i - 1] /\ m + i - 1 \in m .. n
      BY <1>3, <1>5
    <3> QED BY <3>1
  <2>3. ToSet(p) = {p[i] : i \in 1 .. n - m + 1}
    BY <1>4 DEF ToSet
  <2> QED BY <2>1, <2>2, <2>3
<1> QED BY <1>3, <1>6, <1>7 DEF p

\* Two lists without repetitions and without a common element, one after the
\* other.
LEMMA JoinFacts ==
  ASSUME NEW a \in Seq(Threads), NEW b \in Seq(Threads),
         IsInjective(a), IsInjective(b), ToSet(a) \intersect ToSet(b) = {}
  PROVE  /\ a \o b \in Seq(Threads)
         /\ IsInjective(a \o b)
         /\ ToSet(a \o b) = ToSet(a) \union ToSet(b)
<1> DEFINE r == a \o b
<1>1. /\ Len(a) \in Nat /\ DOMAIN a = 1 .. Len(a)
      /\ Len(b) \in Nat /\ DOMAIN b = 1 .. Len(b)
  BY LenProperties
<1>2. /\ r \in Seq(Threads) /\ Len(r) = Len(a) + Len(b)
      /\ \A i \in 1 .. Len(a) + Len(b) :
           r[i] = IF i <= Len(a) THEN a[i] ELSE b[i - Len(a)]
  BY ConcatProperties
<1> HIDE DEF r
<1>3. DOMAIN r = 1 .. Len(a) + Len(b)
  BY <1>2, LenProperties
<1>4. \A i \in 1 .. Len(a) : i \in 1 .. Len(a) + Len(b) /\ r[i] = a[i]
  BY <1>1, <1>2
<1>5. \A i \in 1 .. Len(b) : Len(a) + i \in 1 .. Len(a) + Len(b)
                             /\ r[Len(a) + i] = b[i]
  <2> TAKE i \in 1 .. Len(b)
  <2>1. /\ Len(a) + i \in 1 .. Len(a) + Len(b)
        /\ ~(Len(a) + i <= Len(a)) /\ Len(a) + i - Len(a) = i
    BY <1>1
  <2> QED BY <1>2, <2>1
<1>6. \A i \in 1 .. Len(a) + Len(b) :
        \/ i \in 1 .. Len(a) /\ r[i] = a[i]
        \/ i - Len(a) \in 1 .. Len(b) /\ r[i] = b[i - Len(a)] /\ i > Len(a)
  BY <1>1, <1>2
<1>7. ToSet(r) = ToSet(a) \union ToSet(b)
  <2>1. ASSUME NEW x \in ToSet(r) PROVE x \in ToSet(a) \union ToSet(b)
    <3>1. PICK i \in 1 .. Len(a) + Len(b) : r[i] = x
      BY <1>3, <2>1 DEF ToSet
    <3>2. \/ \E m \in 1 .. Len(a) : a[m] = x
          \/ \E m \in 1 .. Len(b) : b[m] = x
      BY <1>6, <3>1
    <3> QED BY <1>1, <3>2 DEF ToSet
  <2>2. ASSUME NEW x \in ToSet(a) PROVE x \in ToSet(r)
    <3>1. PICK m \in 1 .. Len(a) : a[m] = x
      BY <1>1, <2>2 DEF ToSet
    <3> QED BY <1>3, <1>4, <3>1 DEF ToSet
  <2>3. ASSUME NEW x \in ToSet(b) PROVE x \in ToSet(r)
    <3>1. PICK m \in 1 .. Len(b) : b[m] = x
      BY <1>1, <2>3 DEF ToSet
    <3> QED BY <1>3, <1>5, <3>1 DEF ToSet
  <2> QED BY <2>1, <2>2, <2>3
<1>8. IsInjective(r)
  <2> SUFFICES ASSUME NEW i \in 1 .. Len(a) + Len(b),
                      NEW j \in 1 .. Len(a) + Len(b), r[i] = r[j]
               PROVE  i = j
    BY <1>3 DEF IsInjective
  <2>1. \A m \in 1 .. Len(a), n \in 1 .. Len(b) : a[m] # b[n]
    BY <1>1 DEF ToSet
  <2>2. \A m, n \in 1 .. Len(a) : a[m] = a[n] => m = n
    BY <1>1 DEF IsInjective
  <2>3. \A m, n \in 1 .. Len(b) : b[m] = b[n] => m = n
    BY <1>1 DEF IsInjective
  <2>4. i = j \/ i - Len(a) = j - Len(a)
    BY <1>6, <2>1, <2>2, <2>3
  <2> QED BY <1>1, <2>4
<1> QED BY <1>2, <1>7, <1>8 DEF r

\* Taking one thread off the list.
LEMMA RemoveFacts ==
  ASSUME NEW s \in Seq(Threads), IsInjective(s), NEW t \in ToSet(s)
  PROVE  /\ RemoveFirst(s, t) \in Seq(Threads)
         /\ IsInjective(RemoveFirst(s, t))
         /\ ToSet(RemoveFirst(s, t)) = ToSet(s) \ {t}
<1>1. Len(s) \in Nat /\ DOMAIN s = 1 .. Len(s)
  BY LenProperties
<1>2. PICK i \in 1 .. Len(s) : s[i] = t
  BY <1>1 DEF ToSet
<1>3. \A j \in 1 .. Len(s) : s[j] = t => j = i
  BY <1>1, <1>2 DEF IsInjective
<1> DEFINE at == {j \in 1 .. Len(s) : s[j] = t}
           a == SubSeq(s, 1, i - 1)
           b == SubSeq(s, i + 1, Len(s))
<1>4. at = {i}
  BY <1>2, <1>3
<1>5. Min(at) = i
  BY <1>1, <1>4 DEF Min
<1>6. RemoveFirst(s, t) = RemoveAt(s, Min(at))
  BY <1>2, <1>4 DEF RemoveFirst, SelectInSeq
<1>7. RemoveFirst(s, t) = a \o b
  BY <1>5, <1>6 DEF RemoveAt
<1>8. /\ a \in Seq(Threads) /\ IsInjective(a)
      /\ ToSet(a) = {s[j] : j \in 1 .. i - 1}
  BY <1>1, PartFacts
<1>9. /\ b \in Seq(Threads) /\ IsInjective(b)
      /\ ToSet(b) = {s[j] : j \in i + 1 .. Len(s)}
  <2>1. i + 1 \in 1 .. Len(s) + 1 /\ Len(s) \in 0 .. Len(s)
    BY <1>1
  <2> QED BY <2>1, PartFacts
<1> HIDE DEF a, b
<1>10. \A j \in 1 .. Len(s) : j \in 1 .. i - 1 \/ j = i \/ j \in i + 1 .. Len(s)
  BY <1>1
<1>11. /\ \A j \in 1 .. i - 1 : j \in 1 .. Len(s) /\ j # i
       /\ \A j \in i + 1 .. Len(s) : j \in 1 .. Len(s) /\ j # i
       /\ (1 .. i - 1) \intersect (i + 1 .. Len(s)) = {}
  BY <1>1
<1>12. ToSet(a) \intersect ToSet(b) = {}
  <2>1. \A j \in 1 .. i - 1, m \in i + 1 .. Len(s) : s[j] # s[m]
    BY <1>1, <1>11 DEF IsInjective
  <2> QED BY <1>8, <1>9, <2>1
<1>13. ToSet(a) \union ToSet(b) = ToSet(s) \ {t}
  BY <1>1, <1>2, <1>3, <1>8, <1>9, <1>10, <1>11 DEF ToSet
<1> QED BY <1>7, <1>8, <1>9, <1>12, <1>13, JoinFacts

\* The scan frees stopped threads only, takes exactly them off the list, and
\* is done only when the list is empty.
LEMMA ScanFacts ==
  ASSUME Types, Scan
  PROVE  \E zombie \in SUBSET Listed :
           /\ \A t \in zombie : Stopped(t)
           /\ mem' = [t \in Threads |-> IF t \in zombie THEN "freed" ELSE mem[t]]
           /\ scp_threads' \in Seq(Threads) /\ IsInjective(scp_threads')
           /\ Listed' = Listed \ zombie
           /\ stop_thr' \in Threads \union {None}
           /\ stop' \in {"done", "wait"}
           /\ stop' = "done" => scp_threads' = <<>>
<1> DEFINE s == scp_threads
           I == {i \in 1 .. Len(s) : ~Stopped(s[i])}
           alive == IF I # {} THEN Min(I) ELSE 0
           zombie == IF alive = 0 THEN ToSet(s) ELSE ToSet(SubSeq(s, 1, alive - 1))
<1>1. /\ s \in Seq(Threads) /\ IsInjective(s) /\ Len(s) \in Nat
      /\ DOMAIN s = 1 .. Len(s)
  BY LenProperties DEF Types
<1>2. /\ mem' = [t \in Threads |-> IF t \in zombie THEN "freed" ELSE mem[t]]
      /\ scp_threads' = IF alive = 0 THEN <<>> ELSE SubSeq(s, alive, Len(s))
      /\ stop_thr' = IF alive = 0 THEN None ELSE s[alive]
      /\ stop' = IF alive = 0 THEN "done" ELSE "wait"
  BY DEF Scan, SelectInSeq
<1>3. CASE I = {}
  <2>1. alive = 0 /\ zombie = ToSet(s)
    BY <1>3
  <2>2. \A t \in ToSet(s) : Stopped(t)
    BY <1>1, <1>3 DEF ToSet
  <2>3. ToSet(<<>>) = {} /\ IsInjective(<<>>) /\ <<>> \in Seq(Threads)
    <3>1. DOMAIN <<>> = {}
      OBVIOUS
    <3> QED BY <3>1 DEF ToSet, IsInjective
  <2> HIDE DEF alive, zombie, I
  <2>4. /\ scp_threads' = <<>> /\ stop' = "done" /\ stop_thr' = None
        /\ mem' = [t \in Threads |-> IF t \in ToSet(s) THEN "freed" ELSE mem[t]]
    BY <1>2, <2>1
  <2>5. Listed' = {} /\ Listed = ToSet(s)
    BY <2>3, <2>4 DEF Listed
  <2> QED BY <2>2, <2>3, <2>4, <2>5
<1>4. CASE I # {}
  <2>1. /\ alive \in 1 .. Len(s) /\ ~Stopped(s[alive])
        /\ \A i \in 1 .. Len(s) : i < alive => Stopped(s[i])
    <3>1. I \in SUBSET Nat
      BY <1>1
    <3>2. Min(I) \in I /\ \A y \in I : Min(I) <= y
      <4> HIDE DEF I
      <4> QED BY <1>4, <3>1, MinFacts
    <3>3. alive = Min(I)
      BY <1>4
    <3>4. Min(I) \in 1 .. Len(s) /\ ~Stopped(s[Min(I)])
      BY <3>2
    <3>5. \A i \in 1 .. Len(s) : i < Min(I) => i \notin I
      <4> HIDE DEF I
      <4> QED BY <1>1, <3>1, <3>2, <3>4
    <3> QED BY <3>3, <3>4, <3>5
  <2>2. alive # 0
    BY <1>1, <2>1
  <2> HIDE DEF alive
  <2>3. zombie = ToSet(SubSeq(s, 1, alive - 1))
    BY <2>2
  <2>4. /\ ToSet(SubSeq(s, 1, alive - 1)) = {s[i] : i \in 1 .. alive - 1}
    BY <1>1, <2>1, PartFacts
  <2>5. /\ SubSeq(s, alive, Len(s)) \in Seq(Threads)
        /\ IsInjective(SubSeq(s, alive, Len(s)))
        /\ ToSet(SubSeq(s, alive, Len(s))) = {s[i] : i \in alive .. Len(s)}
    <3>1. alive \in 1 .. Len(s) + 1 /\ Len(s) \in 0 .. Len(s)
      BY <1>1, <2>1
    <3> QED BY <1>1, <3>1, PartFacts
  <2> HIDE DEF zombie, I
  <2>6. /\ scp_threads' = SubSeq(s, alive, Len(s)) /\ stop' = "wait"
        /\ stop_thr' = s[alive]
    BY <1>2, <2>2
  <2>7. s[alive] \in Threads
    BY <1>1, <2>1, ElementOfSeq
  <2>8. /\ \A i \in 1 .. alive - 1 : i \in 1 .. Len(s) /\ i < alive
        /\ \A i \in 1 .. Len(s) : i \in 1 .. alive - 1 \/ i \in alive .. Len(s)
        /\ \A i \in alive .. Len(s) : i \in 1 .. Len(s) /\ i \notin 1 .. alive - 1
    BY <1>1, <2>1
  <2>9. zombie \subseteq ToSet(s) /\ \A t \in zombie : Stopped(t)
    BY <1>1, <2>1, <2>3, <2>4, <2>8 DEF ToSet
  <2>10. ToSet(SubSeq(s, alive, Len(s))) = ToSet(s) \ zombie
    <3>1. \A i, j \in 1 .. Len(s) : s[i] = s[j] => i = j
      BY <1>1 DEF IsInjective
    <3>2. ToSet(s) = {s[i] : i \in 1 .. Len(s)}
      BY <1>1 DEF ToSet
    <3> QED BY <2>3, <2>4, <2>5, <2>8, <3>1, <3>2
  <2>11. Listed' = Listed \ zombie /\ zombie \in SUBSET Listed
    BY <2>6, <2>9, <2>10 DEF Listed
  <2> QED BY <1>2, <2>5, <2>6, <2>7, <2>9, <2>11
<1> QED BY <1>3, <1>4

\* Cardinalities of sets of threads.
LEMMA SomeThreads ==
  ASSUME NEW S \in SUBSET Threads
  PROVE  /\ IsFiniteSet(S) /\ Cardinality(S) \in Nat
         /\ Cardinality(S) = 0 <=> S = {}
         /\ \A t \in Threads \ S : Cardinality(S \union {t}) = Cardinality(S) + 1
         /\ \A t \in S : Cardinality(S \ {t}) = Cardinality(S) - 1
<1>1. IsFiniteSet(S)
  BY ThreadsAssumption, FS_Subset
<1> QED BY <1>1, FS_CardinalityType, FS_EmptySet, FS_AddElement, FS_RemoveElement

-----------------------------------------------------------------------------
LEMMA InitIInv == Init => IInv
<1> SUFFICES ASSUME Init PROVE IInv
  OBVIOUS
<1>1. Listed = {} /\ IsInjective(scp_threads) /\ scp_threads \in Seq(Threads)
  <2>1. DOMAIN scp_threads = {}
    BY DEF Init
  <2>2. scp_threads \in Seq(Threads)
    BY DEF Init
  <2> QED BY <2>1, <2>2 DEF Listed, ToSet, IsInjective
<1>2. Types
  <2>1. ToSet(scp_threads) \subseteq Threads
    BY <1>1 DEF Listed
  <2>2. TypeOK
    BY <2>1 DEF Init, TypeOK
  <2> QED BY <1>1, <2>2 DEF Init, Types
<1>3. Counts
  <2>1. Starting = {} /\ Running = {}
    BY DEF Init, Starting, Running
  <2>2. Cardinality(Starting) = 0 /\ Cardinality(Running) = 0
    BY <2>1, FS_EmptySet
  <2>3. WithinLimit
    BY LimitAssumption DEF Init, WithinLimit, srv_nthrs_cpt_limit
  <2> QED BY <2>2, <2>3 DEF Init, Counts
<1>4. CreatorInv
  BY ThreadsAssumption DEF Init, CreatorInv
<1>5. ThreadInv
  BY <1>1 DEF Init, ThreadInv
<1>6. ServiceInv
  BY DEF Init, ServiceInv, Creators
<1> QED BY <1>2, <1>3, <1>4, <1>5, <1>6 DEF IInv

\* ptlrpc_start_thread returns: the creator has no thread, and only the
\* starter may call it again at once.
LEMMA ReturnFacts ==
  ASSUME IInv, NEW c \in Creators, NEW rc, create[c] # "idle", Return(c, rc)
  PROVE  /\ create' \in [Creators -> {"idle", "check", "lock", "run", "wait"}]
         /\ create_thr' \in [Creators -> Threads \union {None}]
         /\ create_thr'[c] = None /\ create'[c] \in {"idle", "check"}
         /\ c # Starter => create'[c] = "idle"
         /\ \A d \in Creators : d # c => /\ create'[d] = create[d]
                                         /\ create_thr'[d] = create_thr[d]
         /\ service' = "starting" <=> create'[Starter] # "idle"
         /\ service' \in {"gone"} => service = "gone"
         /\ service \in {"failed", "unregister", "gone"} => service' = service
<1>1. /\ create \in [Creators -> {"idle", "check", "lock", "run", "wait"}]
      /\ create_thr \in [Creators -> Threads \union {None}]
      /\ Starter \in Creators
      /\ service = "starting" <=> create[Starter] # "idle"
  BY DEF IInv, Types, TypeOK, ServiceInv, Creators
<1>2. CASE c # Starter
  BY <1>1, <1>2 DEF Return
<1>3. CASE c = Starter
  <2>1. PICK more \in BOOLEAN :
          /\ create' = [create EXCEPT ![c] = IF more THEN "check" ELSE "idle"]
          /\ service' = CASE more -> service
                          [] ~more /\ rc \in {"0", "EMFILE"} -> "registered"
                          [] OTHER -> "failed"
    BY <1>3 DEF Return
  <2>2. service = "starting"
    BY <1>1, <1>3
  <2>3. /\ more => service' = service
        /\ ~more => service' \in {"registered", "failed"}
    BY <2>1
  <2>4. create_thr' = [create_thr EXCEPT ![c] = None]
    BY DEF Return
  <2> QED BY <1>1, <1>3, <2>1, <2>2, <2>3, <2>4
<1> QED BY <1>2, <1>3

\* Steps that leave the counted threads alone.
LEMMA CountsKept ==
  ASSUME IInv, UNCHANGED <<scp_nthrs_starting, scp_nthrs_running, conf>>,
         Starting' = Starting, Running' = Running
  PROVE  Counts'
  BY DEF IInv, Counts, WithinLimit, srv_nthrs_cpt_limit

\* The invariant gives a creator past its allocation a live thread.
LEMMA CreatorHas ==
  ASSUME IInv, NEW c \in Creators, create[c] \in {"lock", "run", "wait"}
  PROVE  /\ create_thr[c] \in Threads /\ mem[create_thr[c]] = "live"
         /\ \A d \in Creators : d # c => create_thr[d] # create_thr[c]
  BY DEF IInv, Types, TypeOK, CreatorInv

\* Only the starter creates threads while it registers the service, and then
\* nobody stops them.
LEMMA StopPossible ==
  ASSUME IInv, NEW c \in Creators, create[c] # "idle"
  PROVE  stop # "done"
<1>1. CASE c = Starter
  BY <1>1 DEF IInv, ServiceInv
<1>2. CASE c # Starter
  <2>1. c \in Threads /\ main[c] = "requests"
    BY <1>2 DEF IInv, CreatorInv, Creators
  <2>2. c \in Listed
    BY <2>1 DEF IInv, ThreadInv
  <2>3. scp_threads # <<>>
    <3>1. ToSet(<<>>) = {}
      BY DEF ToSet
    <3> QED BY <2>2, <3>1 DEF Listed
  <2> QED BY <2>3 DEF IInv, ServiceInv
<1> QED BY <1>1, <1>2

\* Turned away before anything was allocated, or done waiting.
LEMMA ReturnStep ==
  ASSUME IInv, NEW c \in Creators, NEW rc, create[c] # "idle", Return(c, rc),
         UNCHANGED <<t_flags, mem, scp_threads, countVars, main, conf, stopVars>>
  PROVE  IInv'
<1>u. UNCHANGED <<t_flags, mem, scp_threads, scp_nthrs_starting,
                  scp_nthrs_running, main, conf, stop, stop_thr>>
  BY DEF countVars, stopVars
<1>1. Listed' = Listed /\ Starting' = Starting /\ Running' = Running
  BY <1>u DEF Listed, Starting, Running, Stopped
<1>2. Types'
  BY <1>u, ReturnFacts DEF IInv, Types, TypeOK
<1>3. Counts'
  BY <1>u, <1>1, CountsKept
<1>4. CreatorInv'
  BY <1>u, <1>1, ReturnFacts DEF IInv, CreatorInv
<1>5. ThreadInv'
  BY <1>u, <1>1 DEF IInv, ThreadInv
<1>6. ServiceInv'
  BY <1>u, ReturnFacts DEF IInv, ServiceInv
<1> QED BY <1>2, <1>3, <1>4, <1>5, <1>6 DEF IInv

LEMMA AllocStep ==
  ASSUME IInv, NEW c \in Creators, StartAlloc(c)
  PROVE  IInv'
<1> PICK t \in Threads :
      /\ mem[t] = "unused"
      /\ mem' = [mem EXCEPT ![t] = "live"]
      /\ create_thr' = [create_thr EXCEPT ![c] = t]
  BY DEF StartAlloc
<1>u. /\ create[c] = "check" /\ create' = [create EXCEPT ![c] = "lock"]
      /\ UNCHANGED <<t_flags, scp_threads, scp_nthrs_starting, scp_nthrs_running,
                     main, conf, srv_is_stopping, started, service, stop, stop_thr>>
  BY DEF StartAlloc, countVars, serviceVars, stopVars
<1>t. /\ t_flags[t] = {} /\ main[t] = "none" /\ t \notin Listed /\ t # None
      /\ \A d \in Creators : create_thr[d] # t
  BY ThreadsAssumption DEF IInv, ThreadInv, CreatorInv
<1>1. /\ mem'[t] = "live" /\ \A u \in Threads : u # t => mem'[u] = mem[u]
      /\ create'[c] = "lock" /\ create_thr'[c] = t
      /\ \A d \in Creators : d # c => /\ create'[d] = create[d]
                                      /\ create_thr'[d] = create_thr[d]
  BY <1>u DEF IInv, Types, TypeOK
<1>2. Listed' = Listed /\ Running' = Running
  BY <1>u DEF Listed, Running
<1>3. Starting' = Starting
  BY <1>u, <1>t, <1>1 DEF Starting, Stopped
<1>4. Types'
  BY <1>u DEF IInv, Types, TypeOK
<1>5. Counts'
  BY <1>u, <1>2, <1>3, CountsKept
<1>6. CreatorInv'
  <2>1. \A d \in Creators : create_thr[d] # None => create_thr[d] \in Threads
    BY DEF IInv, Types, TypeOK
  <2> QED BY <1>u, <1>t, <1>1, <1>2, <2>1 DEF IInv, CreatorInv
<1>7. ThreadInv'
  BY <1>u, <1>t, <1>1, <1>2 DEF IInv, ThreadInv
<1>8. ServiceInv'
  <2>1. create'[Starter] # "idle" <=> create[Starter] # "idle"
    BY <1>u, <1>1 DEF Creators
  <2> QED BY <1>u, <2>1 DEF IInv, ServiceInv
<1> QED BY <1>4, <1>5, <1>6, <1>7, <1>8 DEF IInv

LEMMA RacedStep ==
  ASSUME IInv, NEW c \in Creators, StartRaced(c)
  PROVE  IInv'
<1> PICK t : t = create_thr[c]
  OBVIOUS
<1>u. /\ create[c] = "lock" /\ mem' = [mem EXCEPT ![t] = "unused"]
      /\ UNCHANGED <<t_flags, scp_threads, scp_nthrs_starting, scp_nthrs_running,
                     main, conf, stop, stop_thr>>
  BY DEF StartRaced, countVars, stopVars
<1>t. /\ t \in Threads /\ mem[t] = "live" /\ t_flags[t] = {} /\ main[t] = "none"
      /\ t \notin Listed /\ \A d \in Creators : d # c => create_thr[d] # t
  BY <1>u, CreatorHas DEF IInv, CreatorInv
<1>r. /\ create' \in [Creators -> {"idle", "check", "lock", "run", "wait"}]
      /\ create_thr' \in [Creators -> Threads \union {None}]
      /\ create_thr'[c] = None /\ create'[c] \in {"idle", "check"}
      /\ c # Starter => create'[c] = "idle"
      /\ \A d \in Creators : d # c => /\ create'[d] = create[d]
                                      /\ create_thr'[d] = create_thr[d]
      /\ service' = "starting" <=> create'[Starter] # "idle"
      /\ service' \in {"gone"} => service = "gone"
      /\ service \in {"failed", "unregister", "gone"} => service' = service
  <2>1. CASE \E rc : Return(c, rc)
    BY <1>u, <2>1, ReturnFacts
  <2>2. CASE /\ c = Starter /\ create' = [create EXCEPT ![c] = "check"]
             /\ create_thr' = [create_thr EXCEPT ![c] = None]
             /\ UNCHANGED service
    BY <1>u, <2>2 DEF IInv, Types, TypeOK, ServiceInv
  <2> QED BY <2>1, <2>2 DEF StartRaced
<1>1. mem'[t] = "unused" /\ \A u \in Threads : u # t => mem'[u] = mem[u]
  BY <1>u, <1>t DEF IInv, Types, TypeOK
<1>2. Listed' = Listed /\ Running' = Running /\ Starting' = Starting
  BY <1>u, <1>t, <1>1 DEF Listed, Running, Starting, Stopped
<1>3. Types'
  BY <1>u, <1>r DEF IInv, Types, TypeOK
<1>4. Counts'
  BY <1>u, <1>2, CountsKept
<1>5. CreatorInv'
  <2>1. \A d \in Creators : create_thr[d] # None => create_thr[d] \in Threads
    BY DEF IInv, Types, TypeOK
  <2> QED BY <1>u, <1>t, <1>r, <1>1, <1>2, <2>1 DEF IInv, CreatorInv
<1>6. ThreadInv'
  BY <1>u, <1>t, <1>1, <1>2 DEF IInv, ThreadInv
<1>7. ServiceInv'
  BY <1>u, <1>r DEF IInv, ServiceInv
<1> QED BY <1>3, <1>4, <1>5, <1>6, <1>7 DEF IInv

LEMMA LinkStep ==
  ASSUME IInv, NEW c \in Creators, StartLink(c)
  PROVE  IInv'
<1> PICK t : t = create_thr[c]
  OBVIOUS
<1>u. /\ create[c] = "lock" /\ scp_nthrs_starting = 0
      /\ ptlrpc_threads_increasable
      /\ scp_nthrs_starting' = scp_nthrs_starting + 1
      /\ t_flags' = [t_flags EXCEPT ![t] = @ \union {"SVC_STARTING"}]
      /\ scp_threads' = <<t>> \o scp_threads
      /\ create' = [create EXCEPT ![c] = "run"]
      /\ UNCHANGED <<mem, scp_nthrs_running, main, create_thr, conf,
                     srv_is_stopping, started, service, stop, stop_thr>>
  BY DEF StartLink, serviceVars, stopVars
<1>t. /\ t \in Threads /\ mem[t] = "live" /\ t_flags[t] = {} /\ main[t] = "none"
      /\ t \notin Listed /\ \A d \in Creators : d # c => create_thr[d] # t
  <2>1. /\ t \in Threads /\ mem[t] = "live"
        /\ \A d \in Creators : d # c => create_thr[d] # t
    BY <1>u, CreatorHas
  <2>2. t_flags[t] = {} /\ main[t] = "none" /\ t \notin Listed
    BY <1>u DEF IInv, CreatorInv
  <2> QED BY <2>1, <2>2
<1>1. /\ t_flags'[t] = {"SVC_STARTING"}
      /\ \A u \in Threads : u # t => t_flags'[u] = t_flags[u]
      /\ create'[c] = "run" /\ \A d \in Creators : d # c => create'[d] = create[d]
  BY <1>u, <1>t DEF IInv, Types, TypeOK
<1>2. /\ scp_threads' \in Seq(Threads) /\ IsInjective(scp_threads')
      /\ Listed' = Listed \union {t}
  <2>1. /\ <<t>> \in Seq(Threads) /\ IsInjective(<<t>>) /\ ToSet(<<t>>) = {t}
    <3>1. <<t>> \in Seq(Threads) /\ DOMAIN <<t>> = {1} /\ <<t>>[1] = t
      BY <1>t
    <3> QED BY <3>1 DEF IsInjective, ToSet
  <2>2. scp_threads \in Seq(Threads) /\ IsInjective(scp_threads)
    BY DEF IInv, Types
  <2>3. ToSet(<<t>>) \intersect ToSet(scp_threads) = {}
    BY <1>t, <2>1 DEF Listed
  <2>4. /\ <<t>> \o scp_threads \in Seq(Threads)
        /\ IsInjective(<<t>> \o scp_threads)
        /\ ToSet(<<t>> \o scp_threads) = {t} \union ToSet(scp_threads)
    BY <2>1, <2>2, <2>3, JoinFacts
  <2> QED BY <1>u, <2>4 DEF Listed
<1>3. Running' = Running
  BY <1>u, <1>t, <1>1 DEF Running
<1>4. Starting' = Starting \union {t} /\ t \notin Starting /\ Starting \subseteq Threads
  BY <1>u, <1>t, <1>1 DEF Starting, Stopped
<1>5. Types'
  <2>1. /\ t_flags' \in [Threads -> SUBSET {"SVC_STARTING", "SVC_RUNNING",
                                            "SVC_STOPPING", "SVC_STOPPED"}]
        /\ create' \in [Creators -> {"idle", "check", "lock", "run", "wait"}]
    BY <1>u, <1>t DEF IInv, Types, TypeOK
  <2>2. ToSet(scp_threads') \subseteq Threads
    BY <1>2, <1>t DEF IInv, Types, TypeOK, Listed
  <2> QED BY <1>u, <1>2, <2>1, <2>2 DEF IInv, Types, TypeOK
<1>6. Counts'
  <2>1. Cardinality(Starting') = Cardinality(Starting) + 1
    BY <1>t, <1>4, SomeThreads
  <2>2. /\ scp_nthrs_starting' = 1 /\ scp_nthrs_starting = Cardinality(Starting)
        /\ scp_nthrs_running = Cardinality(Running) /\ scp_nthrs_running \in Nat
    BY <1>u DEF IInv, Counts, Types, TypeOK
  <2>3. WithinLimit'
    <3>1. LimitThreads(conf) \in Nat
      BY LimitAssumption DEF IInv, Types
    <3>2. scp_nthrs_running + 0 < LimitThreads(conf)
      BY <1>u DEF ptlrpc_threads_increasable, srv_nthrs_cpt_limit
    <3>3. scp_nthrs_running' + scp_nthrs_starting' <= LimitThreads(conf')
      BY <1>u, <2>2, <3>1, <3>2
    <3> QED BY <3>3 DEF WithinLimit, srv_nthrs_cpt_limit
  <2> QED BY <1>u, <1>3, <2>1, <2>2, <2>3 DEF Counts
<1>7. CreatorInv'
  <2>1. \A d \in Creators : create_thr[d] # None => create_thr[d] \in Threads
    BY DEF IInv, Types, TypeOK
  <2>2. /\ create'[c] = "run"
        /\ \A d \in Creators : d # c => create'[d] = create[d]
    BY <1>u DEF IInv, Types
  <2>3. \A d \in Creators : d # c /\ create_thr[d] # None =>
          /\ t_flags'[create_thr[d]] = t_flags[create_thr[d]]
          /\ create_thr[d] \in Listed' <=> create_thr[d] \in Listed
    BY <1>t, <1>1, <1>2, <2>1
  <2>4. t_flags'[create_thr[c]] = {"SVC_STARTING"} /\ create_thr[c] \in Listed'
    BY <1>1, <1>2
  <2>5. UNCHANGED <<mem, main, create_thr>> /\ c \in Creators
        /\ create[c] = "lock" /\ create_thr[c] \in Threads
    BY <1>u, <1>t
  <2> QED BY <2>2, <2>3, <2>4, <2>5 DEF IInv, CreatorInv
<1>8. ThreadInv'
  BY <1>u, <1>t, <1>1, <1>2 DEF IInv, ThreadInv
<1>9. ServiceInv'
  <2>1. create'[Starter] # "idle" <=> create[Starter] # "idle"
    BY <1>u, <1>1 DEF Creators
  <2>2. stop # "done"
    BY <1>u, StopPossible
  <2> QED BY <1>u, <2>1, <2>2 DEF IInv, ServiceInv
<1> QED BY <1>5, <1>6, <1>7, <1>8, <1>9 DEF IInv

LEMMA RunStep ==
  ASSUME IInv, NEW c \in Creators, StartRun(c)
  PROVE  IInv'
<1> PICK t : t = create_thr[c]
  OBVIOUS
<1>u. /\ create[c] = "run" /\ main' = [main EXCEPT ![t] = "init"]
      /\ UNCHANGED <<t_flags, mem, scp_threads, scp_nthrs_starting,
                     scp_nthrs_running, conf, stop, stop_thr>>
  BY DEF StartRun, countVars, stopVars
<1>t. /\ t \in Threads /\ mem[t] = "live" /\ main[t] = "none" /\ t \in Listed
      /\ "SVC_STARTING" \in t_flags[t]
      /\ {"SVC_RUNNING", "SVC_STOPPED"} \intersect t_flags[t] = {}
      /\ \A d \in Creators : d # c => create_thr[d] # t
  BY <1>u, CreatorHas DEF IInv, CreatorInv
<1>1. main'[t] = "init" /\ \A u \in Threads : u # t => main'[u] = main[u]
  BY <1>u, <1>t DEF IInv, Types
<1>2. Listed' = Listed /\ Starting' = Starting /\ Running' = Running
  BY <1>u DEF Listed, Starting, Running, Stopped
<1>3. Counts'
  BY <1>u, <1>2, CountsKept
<1>4. ThreadInv'
  BY <1>u, <1>t, <1>1, <1>2 DEF IInv, ThreadInv
<1>5. \A d \in Creators : create_thr[d] # None => create_thr[d] \in Threads
  BY DEF IInv, Types, TypeOK
<1>6. \A d \in Threads : main[d] = "requests" => main'[d] = "requests"
  BY <1>t, <1>1
<1>7. CASE c = Starter
  <2>1. /\ create' = [create EXCEPT ![c] = "wait"]
        /\ UNCHANGED <<create_thr, service>>
    BY <1>7 DEF StartRun
  <2>2. create'[c] = "wait" /\ \A d \in Creators : d # c => create'[d] = create[d]
    BY <2>1 DEF IInv, Types
  <2>3. Types'
    BY <1>u, <2>1 DEF IInv, Types, TypeOK
  <2>4. CreatorInv'
    BY <1>u, <1>t, <1>1, <1>2, <1>5, <1>6, <1>7, <2>1, <2>2
       DEF IInv, CreatorInv, Creators
  <2>5. ServiceInv'
    BY <1>u, <1>7, <2>1, <2>2 DEF IInv, ServiceInv
  <2> QED BY <1>3, <1>4, <2>3, <2>4, <2>5 DEF IInv
<1>8. CASE c # Starter
  <2>1. Return(c, "0")
    BY <1>8 DEF StartRun
  <2>2. /\ create' \in [Creators -> {"idle", "check", "lock", "run", "wait"}]
        /\ create_thr' \in [Creators -> Threads \union {None}]
        /\ create_thr'[c] = None /\ create'[c] = "idle"
        /\ \A d \in Creators : d # c => /\ create'[d] = create[d]
                                        /\ create_thr'[d] = create_thr[d]
        /\ service' = "starting" <=> create'[Starter] # "idle"
        /\ service' \in {"gone"} => service = "gone"
        /\ service \in {"failed", "unregister", "gone"} => service' = service
    BY <1>u, <1>8, <2>1, ReturnFacts
  <2>3. Types'
    BY <1>u, <2>2 DEF IInv, Types, TypeOK
  <2>4. CreatorInv'
    BY <1>u, <1>t, <1>1, <1>2, <1>5, <1>6, <2>2 DEF IInv, CreatorInv, Creators
  <2>5. ServiceInv'
    BY <1>u, <2>2 DEF IInv, ServiceInv
  <2> QED BY <1>3, <1>4, <2>3, <2>4, <2>5 DEF IInv
<1> QED BY <1>7, <1>8

LEMMA RunFailedStep ==
  ASSUME IInv, NEW c \in Creators, StartRunFailed(c)
  PROVE  IInv'
<1> PICK t : t = create_thr[c]
  OBVIOUS
<1>u. /\ create[c] = "run" /\ scp_nthrs_starting' = scp_nthrs_starting - 1
      /\ Return(c, "ENOMEM")
      /\ UNCHANGED <<scp_nthrs_running, main, conf, stop, stop_thr>>
  BY DEF StartRunFailed, stopVars
<1>t. /\ t \in Threads /\ mem[t] = "live" /\ main[t] = "none" /\ t \in Listed
      /\ "SVC_STARTING" \in t_flags[t]
      /\ {"SVC_RUNNING", "SVC_STOPPED"} \intersect t_flags[t] = {}
      /\ \A d \in Creators : d # c => create_thr[d] # t
  BY <1>u, CreatorHas DEF IInv, CreatorInv
<1>r. /\ create' \in [Creators -> {"idle", "check", "lock", "run", "wait"}]
      /\ create_thr' \in [Creators -> Threads \union {None}]
      /\ create_thr'[c] = None /\ create'[c] \in {"idle", "check"}
      /\ c # Starter => create'[c] = "idle"
      /\ \A d \in Creators : d # c => /\ create'[d] = create[d]
                                      /\ create_thr'[d] = create_thr[d]
      /\ service' = "starting" <=> create'[Starter] # "idle"
      /\ service' \in {"gone"} => service = "gone"
      /\ service \in {"failed", "unregister", "gone"} => service' = service
  BY <1>u, ReturnFacts
<1>f. /\ t_flags' \in [Threads -> SUBSET {"SVC_STARTING", "SVC_RUNNING",
                                          "SVC_STOPPING", "SVC_STOPPED"}]
      /\ mem' \in [Threads -> {"unused", "live", "freed"}]
      /\ scp_threads' \in Seq(Threads) /\ IsInjective(scp_threads')
      /\ \A u \in Threads : u # t => t_flags'[u] = t_flags[u] /\ mem'[u] = mem[u]
      /\ \/ /\ mem'[t] = "live" /\ Listed' = Listed
            /\ t_flags'[t] = t_flags[t] \union {"SVC_STOPPED"}
         \/ /\ mem'[t] = "freed" /\ Listed' = Listed \ {t}
            /\ t_flags'[t] = t_flags[t]
  <2>1. CASE "SVC_STOPPING" \in t_flags[t]
    <3>1. /\ t_flags' = [t_flags EXCEPT ![t] = @ \union {"SVC_STOPPED"}]
          /\ UNCHANGED <<mem, scp_threads>>
      BY <2>1 DEF StartRunFailed
    <3> QED BY <1>t, <3>1 DEF IInv, Types, TypeOK, Listed
  <2>2. CASE "SVC_STOPPING" \notin t_flags[t]
    <3>1. /\ scp_threads' = RemoveFirst(scp_threads, t)
          /\ mem' = [mem EXCEPT ![t] = "freed"] /\ UNCHANGED t_flags
      BY <2>2 DEF StartRunFailed
    <3>2. scp_threads \in Seq(Threads) /\ IsInjective(scp_threads)
          /\ t \in ToSet(scp_threads)
      BY <1>t DEF IInv, Types, Listed
    <3>3. /\ scp_threads' \in Seq(Threads) /\ IsInjective(scp_threads')
          /\ ToSet(scp_threads') = ToSet(scp_threads) \ {t}
      BY <3>1, <3>2, RemoveFacts
    <3>4. Listed' = Listed \ {t}
      BY <3>3 DEF Listed
    <3> QED BY <1>t, <3>1, <3>3, <3>4 DEF IInv, Types, TypeOK
  <2> QED BY <2>1, <2>2
<1>1. Running' = Running
  BY <1>t, <1>f DEF Running
<1>2. Starting' = Starting \ {t} /\ t \in Starting /\ Starting \subseteq Threads
  BY <1>t, <1>f DEF Starting, Stopped
<1>3. Counts'
  <2>1. Cardinality(Starting') = Cardinality(Starting) - 1
    BY <1>2, SomeThreads
  <2>2. /\ scp_nthrs_starting = Cardinality(Starting) /\ scp_nthrs_starting \in Nat
        /\ scp_nthrs_starting <= 1
        /\ scp_nthrs_running = Cardinality(Running) /\ scp_nthrs_running \in Nat
    BY DEF IInv, Counts, Types, TypeOK
  <2>3. WithinLimit'
    <3>1. LimitThreads(conf) \in Nat
      BY LimitAssumption DEF IInv, Types
    <3>2. scp_nthrs_running + scp_nthrs_starting <= LimitThreads(conf)
      BY DEF IInv, Counts, WithinLimit, srv_nthrs_cpt_limit
    <3>3. scp_nthrs_running' + scp_nthrs_starting' <= LimitThreads(conf')
      BY <1>u, <2>2, <3>1, <3>2
    <3> QED BY <3>3 DEF WithinLimit, srv_nthrs_cpt_limit
  <2> QED BY <1>u, <1>1, <2>1, <2>2, <2>3 DEF Counts
<1>4. scp_nthrs_starting' \in Nat
  <2>1. Cardinality(Starting') \in Nat
    BY <1>2, SomeThreads
  <2> QED BY <1>3, <2>1 DEF Counts
<1>5. Types'
  <2>1. ToSet(scp_threads') \subseteq Threads
    BY <1>f DEF IInv, Types, TypeOK, Listed
  <2> QED BY <1>u, <1>r, <1>f, <1>4, <2>1 DEF IInv, Types, TypeOK
<1>6. CreatorInv'
  <2>1. \A d \in Creators : create_thr[d] # None => create_thr[d] \in Threads
    BY DEF IInv, Types, TypeOK
  <2>2. \A u \in Threads : u # t => /\ t_flags'[u] = t_flags[u] /\ mem'[u] = mem[u]
                                    /\ u \in Listed' <=> u \in Listed
    BY <1>f
  <2> QED BY <1>u, <1>t, <1>r, <2>1, <2>2 DEF IInv, CreatorInv
<1>7. ThreadInv'
  BY <1>u, <1>t, <1>f DEF IInv, ThreadInv
<1>8. ServiceInv'
  <2>1. stop # "done"
    BY <1>u, StopPossible
  <2> QED BY <1>u, <1>r, <2>1 DEF IInv, ServiceInv
<1> QED BY <1>3, <1>5, <1>6, <1>7, <1>8 DEF IInv

\* Steps of ptlrpc_main that move thread t and change neither its flags nor the
\* counters.
LEMMA MainMove ==
  ASSUME IInv, NEW t \in Threads, NEW to \in {"loop", "work", "requests", "out"},
         main[t] \in {"init", "loop", "work", "requests"},
         main' = [main EXCEPT ![t] = to],
         main[t] = "init" => to = "out",
         \/ UNCHANGED create
         \/ to = "requests" /\ create' = [create EXCEPT ![t] = "check"],
         create[t] = "idle",
         UNCHANGED <<t_flags, mem, scp_threads, countVars, create_thr,
                     serviceVars, stopVars>>
  PROVE  IInv'
<1>u. UNCHANGED <<t_flags, mem, scp_threads, scp_nthrs_starting,
                  scp_nthrs_running, create_thr, conf, srv_is_stopping, started,
                  service, stop, stop_thr>>
  BY DEF countVars, serviceVars, stopVars
<1>c. t \in Creators /\ t # Starter /\ Starter \in Creators
  BY ThreadsAssumption DEF Creators
<1>1. main'[t] = to /\ \A u \in Threads : u # t => main'[u] = main[u]
  BY DEF IInv, Types
<1>2. /\ create' \in [Creators -> {"idle", "check", "lock", "run", "wait"}]
      /\ \A d \in Creators : d # t => create'[d] = create[d]
      /\ create'[t] = "idle" \/ (create'[t] = "check" /\ to = "requests")
  BY <1>c DEF IInv, Types
<1>3. Listed' = Listed /\ Starting' = Starting /\ Running' = Running
  BY <1>u DEF Listed, Starting, Running, Stopped
<1>4. Types'
  BY <1>u, <1>2 DEF IInv, Types, TypeOK
<1>5. Counts'
  BY <1>u, <1>3, CountsKept
<1>6. CreatorInv'
  <2>1. \A d \in Creators : create_thr[d] # None => create_thr[d] \in Threads
    BY DEF IInv, Types, TypeOK
  <2>2. \A d \in Creators : d # Starter => d \in Threads
    BY DEF Creators
  <2>3. to # "none"
    OBVIOUS
  <2> QED BY <1>u, <1>c, <1>1, <1>2, <1>3, <2>1, <2>2, <2>3 DEF IInv, CreatorInv
<1>7. ThreadInv'
  BY <1>u, <1>1, <1>3 DEF IInv, ThreadInv
<1>8. ServiceInv'
  BY <1>u, <1>c, <1>2 DEF IInv, ServiceInv
<1> QED BY <1>4, <1>5, <1>6, <1>7, <1>8 DEF IInv

\* The flags of a thread in ptlrpc_main and the counters change together.
LEMMA MainFlags ==
  ASSUME IInv, NEW t \in Threads, MainRunning(t) \/ MainOut(t)
  PROVE  IInv'
<1>u. UNCHANGED <<mem, scp_threads, create, create_thr, conf, srv_is_stopping,
                  started, service, stop, stop_thr>>
  BY DEF MainRunning, MainOut, createVars, serviceVars, stopVars
<1>m. /\ main[t] \in {"init", "out"} /\ t \in Listed /\ mem[t] = "live"
      /\ "SVC_STOPPED" \notin t_flags[t]
  BY DEF IInv, ThreadInv, MainRunning, MainOut
<1>f. \A u \in Threads : u # t => t_flags'[u] = t_flags[u] /\ main'[u] = main[u]
  BY DEF IInv, Types, TypeOK, MainRunning, MainOut
<1>n. /\ scp_nthrs_starting \in Nat /\ scp_nthrs_running \in Nat
      /\ scp_nthrs_starting <= 1
      /\ scp_nthrs_starting = Cardinality(Starting)
      /\ scp_nthrs_running = Cardinality(Running)
      /\ scp_nthrs_running + scp_nthrs_starting <= LimitThreads(conf)
      /\ LimitThreads(conf) \in Nat
  BY LimitAssumption
     DEF IInv, Types, TypeOK, Counts, WithinLimit, srv_nthrs_cpt_limit
<1>s. Starting \subseteq Threads /\ Running \subseteq Threads
  BY DEF Starting, Running
<1>1. Listed' = Listed
  BY <1>u DEF Listed
<1>2. CASE MainRunning(t)
  <2>1. /\ main[t] = "init" /\ main'[t] = "loop"
        /\ t_flags'[t] = (t_flags[t] \ {"SVC_STARTING"}) \union {"SVC_RUNNING"}
        /\ scp_nthrs_starting' = scp_nthrs_starting - 1
        /\ scp_nthrs_running' = scp_nthrs_running + 1
    BY <1>2 DEF IInv, Types, TypeOK, MainRunning
  <2>2. "SVC_STARTING" \in t_flags[t] /\ "SVC_RUNNING" \notin t_flags[t]
    BY <2>1 DEF IInv, ThreadInv
  <2>3. Starting' = Starting \ {t} /\ t \in Starting
    BY <1>u, <1>m, <1>f, <2>1, <2>2 DEF Starting, Stopped
  <2>4. Running' = Running \union {t} /\ t \notin Running
    BY <1>f, <2>1, <2>2 DEF Running
  <2>5. /\ Cardinality(Starting') = Cardinality(Starting) - 1
        /\ Cardinality(Running') = Cardinality(Running) + 1
        /\ Cardinality(Starting') \in Nat
    BY <1>s, <2>3, <2>4, SomeThreads
  <2>6. WithinLimit'
    <3>1. scp_nthrs_running' + scp_nthrs_starting' <= LimitThreads(conf')
      BY <1>u, <1>n, <2>1
    <3> QED BY <3>1 DEF WithinLimit, srv_nthrs_cpt_limit
  <2>7. Counts'
    BY <1>n, <2>1, <2>5, <2>6 DEF Counts
  <2>8. Types'
    <3>1. /\ t_flags' \in [Threads -> SUBSET {"SVC_STARTING", "SVC_RUNNING",
                                              "SVC_STOPPING", "SVC_STOPPED"}]
          /\ main' \in [Threads -> {"none", "init", "loop", "work", "requests",
                                    "out", "gone"}]
      BY <1>2 DEF IInv, Types, TypeOK, MainRunning
    <3>2. scp_nthrs_starting' \in Nat /\ scp_nthrs_running' \in Nat
      BY <1>n, <2>1, <2>5
    <3> QED BY <1>u, <3>1, <3>2 DEF IInv, Types, TypeOK
  <2>9. CreatorInv'
    BY <1>u, <1>f, <1>1, <2>1 DEF IInv, CreatorInv, Types, TypeOK, Creators
  <2>10. ThreadInv'
    BY <1>u, <1>m, <1>f, <1>1, <2>1 DEF IInv, ThreadInv
  <2> QED BY <1>u, <2>7, <2>8, <2>9, <2>10 DEF IInv, ServiceInv
<1>3. CASE MainOut(t)
  <2>1. /\ main[t] = "out" /\ main'[t] = "gone"
        /\ t_flags'[t] = (t_flags[t] \ {"SVC_STARTING", "SVC_RUNNING"})
                           \union {"SVC_STOPPED"}
        /\ scp_nthrs_starting' = scp_nthrs_starting
             - (IF "SVC_STARTING" \in t_flags[t] THEN 1 ELSE 0)
        /\ scp_nthrs_running' = scp_nthrs_running
             - (IF "SVC_RUNNING" \in t_flags[t] THEN 1 ELSE 0)
    BY <1>3 DEF IInv, Types, TypeOK, MainOut
  <2>2. Starting' = Starting \ {t} /\ (t \in Starting <=> "SVC_STARTING" \in t_flags[t])
    BY <1>u, <1>m, <1>f, <2>1 DEF Starting, Stopped
  <2>3. Running' = Running \ {t} /\ (t \in Running <=> "SVC_RUNNING" \in t_flags[t])
    BY <1>f, <2>1 DEF Running
  <2>4. scp_nthrs_starting' = Cardinality(Starting') /\ scp_nthrs_starting' \in Nat
    <3>1. Cardinality(Starting') \in Nat
      BY <1>s, <2>2, SomeThreads
    <3>2. CASE t \in Starting
      BY <1>n, <1>s, <2>1, <2>2, <3>1, <3>2, SomeThreads
    <3>3. CASE t \notin Starting
      <4>1. Starting' = Starting
        BY <2>2, <3>3
      <4>2. "SVC_STARTING" \notin t_flags[t]
        BY <2>2, <3>3
      <4>3. scp_nthrs_starting' = scp_nthrs_starting - 0
        BY <2>1, <4>2
      <4>4. scp_nthrs_starting' = scp_nthrs_starting
        BY <1>n, <4>3
      <4> QED BY <1>n, <4>1, <4>4
    <3> QED BY <3>2, <3>3
  <2>5. scp_nthrs_running' = Cardinality(Running') /\ scp_nthrs_running' \in Nat
    <3>1. Cardinality(Running') \in Nat
      BY <1>s, <2>3, SomeThreads
    <3>2. CASE t \in Running
      BY <1>n, <1>s, <2>1, <2>3, <3>1, <3>2, SomeThreads
    <3>3. CASE t \notin Running
      <4>1. Running' = Running
        BY <2>3, <3>3
      <4>2. "SVC_RUNNING" \notin t_flags[t]
        BY <2>3, <3>3
      <4>3. scp_nthrs_running' = scp_nthrs_running - 0
        BY <2>1, <4>2
      <4>4. scp_nthrs_running' = scp_nthrs_running
        BY <1>n, <4>3
      <4> QED BY <1>n, <4>1, <4>4
    <3> QED BY <3>2, <3>3
  <2>6. WithinLimit'
    <3>1. scp_nthrs_running' + scp_nthrs_starting' <= LimitThreads(conf')
      BY <1>u, <1>n, <2>1
    <3> QED BY <3>1 DEF WithinLimit, srv_nthrs_cpt_limit
  <2>7. Counts'
    BY <1>n, <2>1, <2>4, <2>5, <2>6 DEF Counts
  <2>8. Types'
    <3>1. /\ t_flags' \in [Threads -> SUBSET {"SVC_STARTING", "SVC_RUNNING",
                                              "SVC_STOPPING", "SVC_STOPPED"}]
          /\ main' \in [Threads -> {"none", "init", "loop", "work", "requests",
                                    "out", "gone"}]
      BY <1>3 DEF IInv, Types, TypeOK, MainOut
    <3> QED BY <1>u, <2>4, <2>5, <3>1 DEF IInv, Types, TypeOK
  <2>9. CreatorInv'
    BY <1>u, <1>f, <1>1, <2>1 DEF IInv, CreatorInv, Types, TypeOK, Creators
  <2>10. ThreadInv'
    BY <1>u, <1>m, <1>f, <1>1, <2>1 DEF IInv, ThreadInv
  <2> QED BY <1>u, <2>7, <2>8, <2>9, <2>10 DEF IInv, ServiceInv
<1> QED BY <1>2, <1>3

\* Stopping and scanning: a thread that is freed has stopped.
LEMMA StopStepKeeps ==
  ASSUME IInv, StopFlag \/ StopScan
  PROVE  IInv'
<1>u. UNCHANGED <<scp_nthrs_starting, scp_nthrs_running, main, create, create_thr,
                  conf, srv_is_stopping, started, service>>
  BY DEF StopFlag, StopScan, countVars, createVars, serviceVars
<1>f. /\ t_flags' \in [Threads -> SUBSET {"SVC_STARTING", "SVC_RUNNING",
                                          "SVC_STOPPING", "SVC_STOPPED"}]
      /\ \A t \in Threads :
           \/ t_flags'[t] = t_flags[t]
           \/ t \in Listed /\ t_flags'[t] = t_flags[t] \union {"SVC_STOPPING"}
  <2>1. t_flags \in [Threads -> SUBSET {"SVC_STARTING", "SVC_RUNNING",
                                        "SVC_STOPPING", "SVC_STOPPED"}]
    BY DEF IInv, Types, TypeOK
  <2>2. CASE StopFlag
    <3>1. t_flags' = [t \in Threads |-> IF t \in Listed
                                       THEN t_flags[t] \union {"SVC_STOPPING"}
                                       ELSE t_flags[t]]
      BY <2>2 DEF StopFlag, Listed
    <3> QED BY <2>1, <3>1
  <2>3. CASE StopScan
    BY <2>1, <2>3 DEF StopScan
  <2> QED BY <2>2, <2>3
<1>1. PICK zombie \in SUBSET Listed :
        /\ \A t \in zombie : Stopped(t)
        /\ mem' = [t \in Threads |-> IF t \in zombie THEN "freed" ELSE mem[t]]
        /\ scp_threads' \in Seq(Threads) /\ IsInjective(scp_threads')
        /\ Listed' = Listed \ zombie
        /\ stop_thr' \in Threads \union {None}
        /\ stop' \in {"done", "wait"}
        /\ stop' = "done" => scp_threads' = <<>>
  <2>1. Scan /\ Types
    BY DEF StopFlag, StopScan, IInv
  <2> QED BY <2>1, ScanFacts
<1>2. Running' = Running
  BY <1>f DEF Running
<1>3. Starting' = Starting
  BY <1>f, <1>1 DEF Starting, Stopped
<1>4. Types'
  <2>1. ToSet(scp_threads') \subseteq Threads
    BY <1>1 DEF IInv, Types, TypeOK, Listed
  <2>2. mem' \in [Threads -> {"unused", "live", "freed"}]
    BY <1>1 DEF IInv, Types, TypeOK
  <2> QED BY <1>u, <1>f, <1>1, <2>1, <2>2 DEF IInv, Types, TypeOK
<1>5. Counts'
  BY <1>u, <1>2, <1>3, CountsKept
<1>6. service \in {"failed", "unregister", "gone"}
  BY DEF StopFlag, StopScan, IInv, ServiceInv
<1>7. create[Starter] = "idle"
  BY <1>6 DEF IInv, ServiceInv
<1>8. \A c \in Creators : create_thr[c] # None => create_thr[c] \notin zombie
  <2> SUFFICES ASSUME NEW c \in Creators, create_thr[c] # None,
                      create_thr[c] \in zombie
               PROVE  FALSE
    OBVIOUS
  <2>1. create[c] \in {"lock", "run"}
    BY <1>7 DEF IInv, CreatorInv, Types
  <2>2. Stopped(create_thr[c])
    BY <1>1
  <2> QED BY <2>1, <2>2 DEF IInv, CreatorInv, Stopped
<1>9. CreatorInv'
  <2>1. \A c \in Creators : create_thr[c] # None => create_thr[c] \in Threads
    BY DEF IInv, Types, TypeOK
  <2>2. \A c \in Creators : create_thr[c] # None =>
          /\ mem'[create_thr[c]] = mem[create_thr[c]]
          /\ create_thr[c] \in Listed' <=> create_thr[c] \in Listed
          /\ create_thr[c] \notin Listed =>
               t_flags'[create_thr[c]] = t_flags[create_thr[c]]
          /\ \A f \in {"SVC_STARTING", "SVC_RUNNING", "SVC_STOPPED"} :
               f \in t_flags'[create_thr[c]] <=> f \in t_flags[create_thr[c]]
    <3> SUFFICES ASSUME NEW t \in Threads, t \notin zombie
                 PROVE  /\ mem'[t] = mem[t]
                        /\ t \in Listed' <=> t \in Listed
                        /\ t \notin Listed => t_flags'[t] = t_flags[t]
                        /\ \A f \in {"SVC_STARTING", "SVC_RUNNING", "SVC_STOPPED"} :
                             f \in t_flags'[t] <=> f \in t_flags[t]
      BY <1>8, <2>1
    <3> QED BY <1>f, <1>1
  <2>3. ASSUME NEW c \in Creators
        PROVE  /\ create[c] = "lock" => /\ t_flags'[create_thr[c]] = {}
                                        /\ create_thr[c] \notin Listed'
               /\ create[c] = "run" =>
                    /\ "SVC_STARTING" \in t_flags'[create_thr[c]]
                    /\ {"SVC_RUNNING", "SVC_STOPPED"}
                         \intersect t_flags'[create_thr[c]] = {}
                    /\ create_thr[c] \in Listed'
               /\ create_thr[c] # None => mem'[create_thr[c]] = "live"
    <3>1. create[c] \in {"lock", "run"} => create_thr[c] # None
      BY DEF IInv, CreatorInv
    <3> QED BY <2>2, <3>1 DEF IInv, CreatorInv
  <2> QED BY <1>u, <2>3 DEF IInv, CreatorInv
<1>10. ThreadInv'
  <2>1. \A t \in zombie : t \in Threads /\ mem[t] = "live"
                           /\ "SVC_STOPPED" \in t_flags[t]
    BY <1>1 DEF IInv, ThreadInv, Types, TypeOK, Listed, Stopped
  <2> QED BY <1>u, <1>f, <1>1, <2>1 DEF IInv, ThreadInv
<1>11. ServiceInv'
  BY <1>u, <1>1, <1>6 DEF IInv, ServiceInv, StopFlag, StopScan
<1> QED BY <1>4, <1>5, <1>9, <1>10, <1>11 DEF IInv

-----------------------------------------------------------------------------
LEMMA CreatorStepKeeps ==
  ASSUME IInv, NEW c \in Creators, CreatorStep(c)
  PROVE  IInv'
<1>1. CASE StartRefused(c)
  <2>1. PICK rc : Return(c, rc)
    BY <1>1 DEF StartRefused
  <2>2. create[c] # "idle"
    BY <1>1 DEF StartRefused
  <2>3. UNCHANGED <<t_flags, mem, scp_threads, countVars, main, conf, stopVars>>
    BY <1>1 DEF StartRefused
  <2> QED BY <2>1, <2>2, <2>3, ReturnStep
<1>2. CASE StartWaited(c)
  <2>1. PICK rc : Return(c, rc)
    BY <1>2 DEF StartWaited
  <2>2. create[c] # "idle"
    BY <1>2 DEF StartWaited
  <2>3. UNCHANGED <<t_flags, mem, scp_threads, countVars, main, conf, stopVars>>
    BY <1>2 DEF StartWaited
  <2> QED BY <2>1, <2>2, <2>3, ReturnStep
<1> QED BY <1>1, <1>2, AllocStep, RacedStep, LinkStep, RunStep, RunFailedStep
           DEF CreatorStep

LEMMA MainStepKeeps ==
  ASSUME IInv, NEW t \in Threads,
         \/ MainRunning(t) \/ MainInitFailed(t) \/ MainWork(t) \/ MainCreate(t)
         \/ MainRequests(t) \/ MainLeave(t) \/ MainOut(t)
  PROVE  IInv'
<1>c. main[t] # "requests" => create[t] = "idle"
  <2>1. t \in Creators /\ t # Starter
    BY ThreadsAssumption DEF Creators
  <2> QED BY <2>1 DEF IInv, CreatorInv
<1>1. CASE MainInitFailed(t)
  <2>1. /\ main[t] = "init" /\ main' = [main EXCEPT ![t] = "out"]
        /\ UNCHANGED create
        /\ UNCHANGED <<t_flags, mem, scp_threads, countVars, create_thr,
                       serviceVars, stopVars>>
    BY <1>1 DEF MainInitFailed, createVars
  <2> QED BY <1>c, <2>1, MainMove
<1>2. CASE MainWork(t)
  BY <1>c, <1>2, MainMove DEF MainWork, createVars
<1>3. CASE MainCreate(t)
  BY <1>c, <1>3, MainMove DEF MainCreate
<1>4. CASE MainRequests(t)
  BY <1>c, <1>4, MainMove DEF MainRequests, createVars
<1>5. CASE MainLeave(t)
  <2>1. /\ main[t] = "loop" /\ main' = [main EXCEPT ![t] = "out"]
        /\ UNCHANGED create
        /\ UNCHANGED <<t_flags, mem, scp_threads, countVars, create_thr,
                       serviceVars, stopVars>>
    BY <1>5 DEF MainLeave, createVars
  <2> QED BY <1>c, <2>1, MainMove
<1> QED BY <1>1, <1>2, <1>3, <1>4, <1>5, MainFlags

\* The ends of the service.
LEMMA ServiceStepKeeps ==
  ASSUME IInv, ptlrpc_unregister_service \/ Unregistered
  PROVE  IInv'
<1>u. UNCHANGED <<t_flags, mem, scp_threads, scp_nthrs_starting,
                  scp_nthrs_running, main, create, create_thr, conf, stop_thr>>
  BY DEF ptlrpc_unregister_service, Unregistered, countVars, createVars, stopVars
<1>1. Listed' = Listed /\ Starting' = Starting /\ Running' = Running
  BY <1>u DEF Listed, Starting, Running, Stopped
<1>2. Types'
  BY <1>u DEF IInv, Types, TypeOK
<1>3. Counts'
  BY <1>u, <1>1, CountsKept
<1>4. CreatorInv'
  BY <1>u, <1>1 DEF IInv, CreatorInv
<1>5. ThreadInv'
  BY <1>u, <1>1 DEF IInv, ThreadInv
<1>6. ServiceInv'
  BY <1>u DEF IInv, ServiceInv, ptlrpc_unregister_service, Unregistered, stopVars
<1> QED BY <1>2, <1>3, <1>4, <1>5, <1>6 DEF IInv

LEMMA StutterKeeps ==
  ASSUME IInv, UNCHANGED vars
  PROVE  IInv'
<1>u. UNCHANGED <<t_flags, mem, scp_threads, scp_nthrs_starting,
                  scp_nthrs_running, main, create, create_thr, conf, service,
                  stop, stop_thr>>
  BY DEF vars, countVars, createVars, serviceVars, stopVars
<1>1. Listed' = Listed /\ Starting' = Starting /\ Running' = Running
  BY <1>u DEF Listed, Starting, Running, Stopped
<1>2. Types'
  BY <1>u DEF IInv, Types, TypeOK
<1>3. Counts'
  BY <1>u, <1>1, CountsKept
<1>4. CreatorInv'
  BY <1>u, <1>1 DEF IInv, CreatorInv
<1>5. ThreadInv'
  BY <1>u, <1>1 DEF IInv, ThreadInv
<1>6. ServiceInv'
  BY <1>u DEF IInv, ServiceInv
<1> QED BY <1>2, <1>3, <1>4, <1>5, <1>6 DEF IInv

\* The invariant is inductive.
LEMMA Inductive == Spec => []IInv
<1>1. IInv /\ [Next]_vars => IInv'
  <2> SUFFICES ASSUME IInv, [Next]_vars PROVE IInv'
    OBVIOUS
  <2>1. Starter \in Creators /\ \A t \in Threads : t \in Creators
    BY DEF Creators
  <2>2. ASSUME NEW t \in Threads, ThreadStep(t) \/ MainWork(t) PROVE IInv'
    BY <2>1, <2>2, MainStepKeeps, CreatorStepKeeps DEF ThreadStep
  <2> QED BY <2>1, <2>2, CreatorStepKeeps, ServiceStepKeeps, StopStepKeeps,
             StutterKeeps DEF Next, StopStep
<1> QED BY InitIInv, <1>1, PTL DEF Spec

-----------------------------------------------------------------------------
\* LASSERT(svcpt->scp_nthrs_starting == 1) of ptlrpc_main and of
\* ptlrpc_start_thread: whoever starts threads, at most one is being started,
\* and both counters count the threads that are there.
THEOREM StartingIsSerialised == Spec => []StartSerialised
<1>1. IInv => StartSerialised
  BY DEF IInv, Types, Counts, StartSerialised, Starting, Running
<1> QED BY <1>1, Inductive, PTL

\* The limit of ptlrpc_server_nthreads_check holds however many threads decide
\* at once to start another one.
THEOREM LimitHolds == Spec => []WithinLimit
<1>1. IInv => WithinLimit
  BY DEF IInv, Counts
<1> QED BY <1>1, Inductive, PTL

\* A thread outlives neither its structure nor the service, although running
\* threads start others while ptlrpc_svcpt_stop_threads is at work.
THEOREM ThreadsAreGone == Spec => []ThreadsGoneWhenStopped
<1>1. IInv => ThreadsGoneWhenStopped
  <2> SUFFICES ASSUME IInv PROVE ThreadsGoneWhenStopped
    OBVIOUS
  <2>1. ASSUME NEW t \in Threads, mem[t] = "freed"
        PROVE  /\ main[t] \in {"none", "gone"}
               /\ t \notin ToSet(scp_threads)
               /\ \A c \in Creators : create_thr[c] # t
    <3>1. t \notin Listed
      BY <2>1 DEF IInv, ThreadInv
    <3>2. main[t] \in {"none", "gone"}
      BY <3>1 DEF IInv, ThreadInv, Types
    <3>3. \A c \in Creators : create_thr[c] # t
      BY <2>1, ThreadsAssumption DEF IInv, CreatorInv
    <3> QED BY <3>1, <3>2, <3>3 DEF Listed
  <2>2. ASSUME service = "gone", NEW t \in Threads
        PROVE  main[t] \in {"none", "gone"} /\ create[t] = "idle"
    <3>1. scp_threads = <<>>
      BY <2>2 DEF IInv, ServiceInv
    <3>2. Listed = {}
      <4>1. DOMAIN scp_threads = {}
        BY <3>1
      <4> QED BY <4>1 DEF Listed, ToSet
    <3>3. main[t] \in {"none", "gone"}
      BY <3>2 DEF IInv, ThreadInv, Types
    <3>4. t \in Creators /\ t # Starter
      BY ThreadsAssumption DEF Creators
    <3> QED BY <3>3, <3>4 DEF IInv, CreatorInv
  <2> QED BY <2>1, <2>2 DEF ThreadsGoneWhenStopped
<1> QED BY <1>1, Inductive, PTL
==============================================================================
