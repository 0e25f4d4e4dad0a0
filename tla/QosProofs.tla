------------------------------ MODULE QosProofs ------------------------------
(***************************************************************************)
(* Proofs about Qos, for every set of threads, every set of rules that may *)
(* be written, every limit and every size of the request pool, and about   *)
(* QosThrottle, for every set of gaps and of steps of the clock.           *)
(***************************************************************************)
EXTENDS Qos, QosThrottle, FiniteSetTheorems, SequenceTheorems, TLAPS

\* What one setter can add to the pool: all of it, if it found it empty.
Room == PoolMax

\* Setters that have read the pool and not yet added to it.
Pending == {s \in Setters : adding[s] # 0}

\* The rules in force are some that were written.
RulesType == rules # Null => rules \in Seq([m100 : Int, b100 : Int])

\* What the setters may still add.  The witness r is the last one that found
\* room in the pool: it and the pool together were within the maximum then,
\* and each of the others adds at most Room.
PoolInv ==
  /\ \A s \in Setters : adding[s] <= Room
  /\ \A s \in Setters : adding[s] # 0 => pc[s] = "populate"
  /\ \E r \in Setters :
       pool + adding[r] + Cardinality(Pending \ {r}) * Room
         <= PoolMax + (Cardinality(Setters) - 1) * Room

\* A setter in progress is about to store a valid limit; one that nobody
\* overlapped is the only one, and is about to store the tracked limit (a
\* thread) or to have the limit in force tracked (the administrator).  A setter
\* past LPROCFS_CLIMP_CHECK keeps the import.
TrackInv ==
  /\ \A t \in Threads : pc[t] # "track"
  /\ \A s \in Setters : pc[s] \in {"read", "populate", "store"} => cl_import
  /\ \A s \in Setters : pc[s] # "idle" => new_mrif[s] >= 1
  /\ alone =>
       /\ \A s, o \in Setters : pc[s] # "idle" /\ pc[o] # "idle" => s = o
       /\ \A t \in Threads : pc[t] # "idle" =>
            new_mrif[t] = Greater(max_rpc_in_flight100 \div 100, 1)
       /\ pc[Admin] = "track" => cl_mrif = new_mrif[Admin]
  /\ TrackedLimitInForce

\* The inductive invariant.
IInv == TypeOK /\ RulesType /\ RulesAllocated /\ PoolInv /\ TrackInv

-----------------------------------------------------------------------------
\* Every setter is a thread or the administrator, and they are finitely many.
LEMMA SettersFinite ==
  IsFiniteSet(Setters) /\ Admin \in Setters /\ Cardinality(Setters) \in Nat \ {0}
<1>1. IsFiniteSet(Setters)
  BY QosAssumption, FS_AddElement DEF Setters
<1>2. Admin \in Setters /\ Threads \subseteq Setters
  BY DEF Setters
<1>3. Cardinality(Setters) \in Nat /\ Cardinality(Setters) # 0
  BY <1>1, <1>2, FS_CardinalityType, FS_EmptySet
<1> QED BY <1>1, <1>2, <1>3

\* Products with Room grow with the other factor, and each more is one Room.
LEMMA RoomProduct ==
  ASSUME NEW a \in Nat, NEW b \in Nat, a <= b
  PROVE  /\ Room \in Nat
         /\ a * Room \in Nat
         /\ a * Room <= b * Room
         /\ (a + 1) * Room = a * Room + Room
<1>1. Room \in Nat
  BY QosAssumption DEF Room
<1> HIDE DEF Room
<1> QED BY <1>1

\* Subsets of the setters are finite, and smaller.
LEMMA SomeSetters ==
  ASSUME NEW S \in SUBSET Setters, NEW r \in Setters
  PROVE  /\ IsFiniteSet(S)
         /\ Cardinality(S \ {r}) \in Nat
         /\ Cardinality(S \ {r}) <= Cardinality(Setters) - 1
<1>1. IsFiniteSet(S) /\ IsFiniteSet(S \ {r})
  BY SettersFinite, FS_Subset
<1>2. Cardinality(Setters \ {r}) = Cardinality(Setters) - 1
  BY SettersFinite, FS_RemoveElement
<1>3. /\ IsFiniteSet(Setters \ {r})
      /\ S \ {r} \subseteq Setters \ {r}
  BY SettersFinite, FS_Subset
<1>4. Cardinality(S \ {r}) <= Cardinality(Setters \ {r})
  BY <1>3, FS_Subset
<1> QED BY <1>1, <1>2, <1>4, FS_CardinalityType

\* What is left of a number in the bits of an int.
LEMMA WrappedType ==
  ASSUME NEW x \in Int
  PROVE  Wrapped(x) \in Int
<1>1. 2 * IntLimit \in Nat \ {0} /\ x + IntLimit \in Int
  <2>1. IntLimit \in Nat \ {0}
    BY QosAssumption
  <2> QED BY <2>1
<1>2. (x + IntLimit) % (2 * IntLimit) \in Int
  BY <1>1
<1> QED BY <1>2, QosAssumption DEF Wrapped

\* Division without the fraction.
LEMMA QuotientType ==
  ASSUME NEW a \in Int, NEW b \in Int \ {0}
  PROVE  Quotient(a, b) \in Int
<1>1. Magnitude(a) \in Nat /\ Magnitude(b) \in Nat \ {0}
  BY DEF Magnitude
<1>2. Magnitude(a) \div Magnitude(b) \in Int
  BY <1>1
<1> QED BY <1>2 DEF Quotient

\* The adjusted limit keeps its range whatever the rule says.
LEMMA AdjustedRange ==
  ASSUME NEW r \in [m100 : Int, b100 : Int],
         max_rpc_in_flight100 \in 0 .. RifMax * 100
  PROVE  /\ Adjusted(r) \in 0 .. RifMax * 100
         /\ Greater(Adjusted(r) \div 100, 1) \in 1 .. RifMax
<1> DEFINE scaled == IF r.m100 >= 0
                     THEN Quotient(Wrapped(max_rpc_in_flight100 * r.m100), 100)
                     ELSE max_rpc_in_flight100
<1>1. r.m100 \in Int /\ r.b100 \in Int /\ max_rpc_in_flight100 \in Int
  BY QosAssumption
<1>2. max_rpc_in_flight100 * r.m100 \in Int
  BY <1>1
<1>3. scaled \in Int
  BY <1>1, <1>2, WrappedType, QuotientType
<1>4. Adjusted(r) = Lesser(Greater(Wrapped(scaled + r.b100), 0), MrifUpper * 100)
  BY DEF Adjusted
<1> HIDE DEF scaled
<1>5. Wrapped(scaled + r.b100) \in Int
  BY <1>1, <1>3, WrappedType
<1>6. Adjusted(r) \in 0 .. MrifUpper * 100
  BY <1>4, <1>5, QosAssumption DEF Lesser, Greater
<1> QED BY <1>6, QosAssumption DEF Greater

\* What a setter finds it may add is within the room and, if it is anything,
\* within what the pool still takes.
LEMMA AddingRange ==
  ASSUME TypeOK, NEW s \in Setters, NEW n,
         n = IF pool >= PoolMax THEN 0
             ELSE Greater(Lesser(new_mrif[s] - cl_mrif, PoolMax - pool), 0)
  PROVE  n \in Nat /\ n <= Room /\ (n # 0 => pool + n <= PoolMax)
<1>1. pool \in Nat /\ new_mrif[s] \in Int /\ cl_mrif \in Int /\ PoolMax \in Nat
  BY QosAssumption DEF TypeOK
<1> QED BY <1>1, QosAssumption DEF Room, Greater, Lesser

-----------------------------------------------------------------------------
LEMMA InitIInv == Init => IInv
<1> SUFFICES ASSUME Init PROVE IInv
  OBVIOUS
<1>1. cl_mrif \in 1 .. RifMax /\ RifMax \in Nat /\ PoolMax \in Nat
  BY QosAssumption DEF Init
<1>2. TypeOK
  <2>1. pool \in Nat /\ max_rpc_in_flight100 \in 0 .. RifMax * 100
    BY <1>1, QosAssumption DEF Init, Lesser
  <2>2. cl_mrif \in 1 .. RifMax /\ now \in 0 .. Horizon
    BY <1>1, QosAssumption DEF Init
  <2>3. /\ rule_no \in Int /\ min_gap \in Int
        /\ alone \in BOOLEAN /\ cl_import \in BOOLEAN
    <3>1. alone \in BOOLEAN /\ cl_import \in BOOLEAN
      BY Zenon DEF Init
    <3>2. rule_no \in Int /\ min_gap \in Int
      BY SMT DEF Init
    <3> QED BY <3>1, <3>2, Zenon
  <2>4. /\ pc \in [Setters -> {"idle", "check", "read", "populate", "store",
                               "track"}]
        /\ adding \in [Setters -> Nat]
    BY DEF Init
  <2>5. new_mrif \in [Setters -> 0 .. RifMax]
    <3>1. 0 \in 0 .. RifMax
      BY <1>1
    <3> QED BY <3>1 DEF Init
  <2> QED BY <2>1, <2>2, <2>3, <2>4, <2>5 DEF TypeOK
<1>3. RulesType /\ RulesAllocated
  BY DEF Init, RulesType, RulesAllocated
<1>4. PoolInv
  <2>1. pool <= PoolMax /\ pool \in Nat
    BY <1>1 DEF Init, Lesser
  <2>2. \A s \in Setters : adding[s] = 0
    BY DEF Init
  <2>3. Pending \ {Admin} = {}
    BY <2>2 DEF Pending
  <2>4. Cardinality(Pending \ {Admin}) = 0
    BY <2>3, FS_EmptySet
  <2>5. 0 <= Cardinality(Setters) - 1 /\ Cardinality(Setters) - 1 \in Nat
    BY SettersFinite
  <2>6. /\ Room \in Nat
        /\ 0 * Room = 0
        /\ (Cardinality(Setters) - 1) * Room \in Nat
    <3>1. Room \in Nat
      BY RoomProduct
    <3>2. 0 * Room = 0
      BY <3>1
    <3> QED BY <2>5, <3>1, <3>2, RoomProduct
  <2>7. pool + adding[Admin] + Cardinality(Pending \ {Admin}) * Room
          <= PoolMax + (Cardinality(Setters) - 1) * Room
    BY <1>1, <2>1, <2>2, <2>4, <2>6, SettersFinite
  <2>8. \A s \in Setters : adding[s] <= Room
    BY <2>2, <2>6
  <2>9. \E r \in Setters :
          pool + adding[r] + Cardinality(Pending \ {r}) * Room
            <= PoolMax + (Cardinality(Setters) - 1) * Room
    BY <2>7, SettersFinite
  <2> QED BY <2>1, <2>2, <2>8, <2>9 DEF PoolInv
<1>5. TrackInv
  <2>1. TrackedLimitInForce
    BY DEF Init, TrackedLimitInForce
  <2> QED BY <2>1, SettersFinite DEF Init, TrackInv, Setters
<1> QED BY <1>2, <1>3, <1>4, <1>5 DEF IInv

\* Every step keeps the types and the ranges of the limits.
LEMMA TypeStep == IInv /\ [Next]_vars => TypeOK'
<1> SUFFICES ASSUME IInv, [Next]_vars PROVE TypeOK'
  OBVIOUS
<1>t. TypeOK /\ RulesType /\ RulesAllocated
  BY DEF IInv
<1>1. CASE osc_qos_rules_seq_write
  <2>1. \A p \in PerSec : Quotient(Second, p) \in Int
    BY QosAssumption, QuotientType
  <2>2. rule_no' \in Int /\ min_gap' \in Int
    <3>1. \A rs \in RuleChoices : Len(rs) \in Int
      BY QosAssumption
    <3> QED BY <1>1, <1>t, <2>1, <3>1, QosAssumption
            DEF osc_qos_rules_seq_write, parse_zero, parse_bad_header,
                parse_no_memory, parse_bad_rule, parse_rules, TypeOK
  <2> QED BY <1>1, <1>t, <2>2 DEF osc_qos_rules_seq_write, TypeOK
<1>2. CASE osc_qos_rules_seq_show
  BY <1>2, <1>t DEF osc_qos_rules_seq_show, TypeOK
<1>3. ASSUME NEW t \in Threads, qos_adjust(t) PROVE TypeOK'
  <2>1. PICK i \in 1 .. rule_no :
          /\ max_rpc_in_flight100' = Adjusted(rules[i])
          /\ new_mrif' = [new_mrif EXCEPT ![t] =
                            Greater(Adjusted(rules[i]) \div 100, 1)]
    BY <1>3 DEF qos_adjust
  <2>2. rules \in Seq([m100 : Int, b100 : Int]) /\ rule_no <= Len(rules)
    BY <1>3, <1>t DEF qos_adjust, RulesType, RulesAllocated
  <2>3. i \in 1 .. Len(rules)
    BY <1>t, <2>2 DEF TypeOK
  <2>4. rules[i] \in [m100 : Int, b100 : Int]
    BY <2>2, <2>3, ElementOfSeq
  <2>5. /\ Adjusted(rules[i]) \in 0 .. RifMax * 100
        /\ Greater(Adjusted(rules[i]) \div 100, 1) \in 1 .. RifMax
    BY <1>t, <2>4, AdjustedRange DEF TypeOK
  <2>6. new_mrif' \in [Setters -> 0 .. RifMax]
    <3>1. \A n \in 1 .. RifMax : n \in 0 .. RifMax
      BY QosAssumption
    <3> QED BY <1>t, <2>1, <2>5, <3>1 DEF TypeOK
  <2>7. alone' \in BOOLEAN
    BY <1>3 DEF qos_adjust, Observe
  <2> QED BY <1>3, <1>t, <2>1, <2>5, <2>6, <2>7 DEF qos_adjust, qosVars, TypeOK
<1>4. ASSUME NEW v \in Limits, osc_max_rpcs_in_flight_seq_write(v) PROVE TypeOK'
  <2>1. v \in 0 .. RifMax
    BY QosAssumption
  <2>2. alone' \in BOOLEAN
    BY <1>4 DEF osc_max_rpcs_in_flight_seq_write, Observe
  <2> QED BY <1>4, <1>t, <2>1, <2>2
          DEF osc_max_rpcs_in_flight_seq_write, qosVars, TypeOK
<1>5. ASSUME NEW s \in Setters, ReadPool(s) PROVE TypeOK'
  <2> DEFINE n == IF pool >= PoolMax THEN 0
                  ELSE Greater(Lesser(new_mrif[s] - cl_mrif, PoolMax - pool), 0)
  <2>1. n \in Nat
    BY <1>t, AddingRange DEF IInv, PoolInv
  <2>2. adding' = [adding EXCEPT ![s] = n]
    BY <1>5 DEF ReadPool
  <2> HIDE DEF n
  <2> QED BY <1>5, <1>t, <2>1, <2>2 DEF ReadPool, qosVars, TypeOK
<1>6. ASSUME NEW s \in Setters, Populate(s) PROVE TypeOK'
  BY <1>6, <1>t DEF Populate, qosVars, TypeOK
<1>7. ASSUME NEW s \in Setters, Store(s) PROVE TypeOK'
  <2>1. new_mrif[s] \in 1 .. RifMax
    BY <1>7, <1>t DEF Store, IInv, TrackInv, TypeOK
  <2>2. 0 \in 0 .. RifMax
    BY QosAssumption
  <2> QED BY <1>7, <1>t, <2>1, <2>2 DEF Store, qosVars, TypeOK
<1>8. CASE Track
  <2>1. new_mrif[Admin] \in 0 .. RifMax
    BY <1>t, SettersFinite DEF TypeOK
  <2>2. new_mrif[Admin] * 100 \in 0 .. RifMax * 100 /\ 0 \in 0 .. RifMax
    BY <2>1, QosAssumption
  <2> QED BY <1>8, <1>t, <2>2 DEF Track, qosVars, TypeOK
<1>9. CASE Tick
  BY <1>9, <1>t, QosAssumption DEF Tick, qosVars, TypeOK
<1>10. CASE UNCHANGED vars
  BY <1>10, <1>t DEF vars, qosVars, TypeOK
<1>11. ASSUME NEW t \in Threads, LPROCFS_CLIMP_CHECK(t) PROVE TypeOK'
  <2>1. new_mrif' \in [Setters -> 0 .. RifMax]
    <3>1. 0 \in 0 .. RifMax /\ t \in Setters
      BY QosAssumption DEF Setters
    <3> QED BY <1>11, <1>t, <3>1 DEF LPROCFS_CLIMP_CHECK, TypeOK
  <2> QED BY <1>11, <1>t, <2>1 DEF LPROCFS_CLIMP_CHECK, qosVars, TypeOK
<1>12. CASE client_obd_cleanup
  BY <1>12, <1>t DEF client_obd_cleanup, qosVars, TypeOK
<1> QED BY <1>1, <1>2, <1>3, <1>4, <1>5, <1>6, <1>7, <1>8, <1>9, <1>10, <1>11,
           <1>12 DEF Next

\* Writing and showing rules keeps the count within the array; nothing else
\* touches either.
LEMMA RulesStep == IInv /\ [Next]_vars => RulesType' /\ RulesAllocated'
<1> SUFFICES ASSUME IInv, [Next]_vars PROVE RulesType' /\ RulesAllocated'
  OBVIOUS
<1>t. RulesType /\ RulesAllocated
  BY DEF IInv
<1>1. CASE osc_qos_rules_seq_write
  <2>1. \A rs \in RuleChoices :
          rs \in Seq([m100 : Int, b100 : Int]) /\ Len(rs) <= Len(rs)
    BY QosAssumption
  <2> QED BY <1>1, <1>t, <2>1
          DEF osc_qos_rules_seq_write, parse_zero, parse_bad_header,
              parse_no_memory, parse_bad_rule, parse_rules, RulesType,
              RulesAllocated
<1>2. CASE osc_qos_rules_seq_show
  <2>1. rules # Null => 0 <= Len(rules)
    BY <1>t DEF RulesType
  <2> QED BY <1>2, <1>t, <2>1
          DEF osc_qos_rules_seq_show, RulesType, RulesAllocated
<1>3. CASE UNCHANGED qosVars
  BY <1>3, <1>t DEF qosVars, RulesType, RulesAllocated
<1> QED BY <1>1, <1>2, <1>3
        DEF Next, vars, qos_adjust, LPROCFS_CLIMP_CHECK, client_obd_cleanup,
            osc_max_rpcs_in_flight_seq_write, ReadPool, Populate, Store, Track,
            Tick

\* Reading the pool, adding to it and everything else keep what the setters
\* may still add within bounds.
LEMMA PoolStep == IInv /\ [Next]_vars => PoolInv'
<1> SUFFICES ASSUME IInv, [Next]_vars PROVE PoolInv'
  OBVIOUS
<1> DEFINE Bound == PoolMax + (Cardinality(Setters) - 1) * Room
           Reach(r) == pool + adding[r] + Cardinality(Pending \ {r}) * Room
<1>t. TypeOK /\ PoolInv
  BY DEF IInv
<1>p. /\ pool \in Nat /\ adding \in [Setters -> Nat]
      /\ PoolMax \in Nat /\ Room \in Nat
      /\ \A s \in Setters : adding[s] <= Room
      /\ \A s \in Setters : adding[s] # 0 => pc[s] = "populate"
  BY <1>t, QosAssumption, RoomProduct DEF TypeOK, PoolInv
<1>b. (Cardinality(Setters) - 1) * Room \in Nat
  <2>1. Cardinality(Setters) - 1 \in Nat
    BY SettersFinite
  <2> QED BY <2>1, RoomProduct
<1>r. PICK r \in Setters : Reach(r) <= Bound
  BY <1>t DEF PoolInv
<1>1. ASSUME UNCHANGED <<pool, adding>>,
             \A s \in Setters : pc[s] = "populate" => pc'[s] = "populate"
      PROVE  PoolInv'
  <2>1. Pending' = Pending
    BY <1>1 DEF Pending
  <2> QED BY <1>1, <1>t, <2>1 DEF PoolInv
<1>2. ASSUME NEW s \in Setters, ReadPool(s) PROVE PoolInv'
  <2> DEFINE n == IF pool >= PoolMax THEN 0
                  ELSE Greater(Lesser(new_mrif[s] - cl_mrif, PoolMax - pool), 0)
  <2>1. n \in Nat /\ n <= Room /\ (n # 0 => pool + n <= PoolMax)
    BY <1>t, AddingRange DEF PoolInv
  <2>2. adding' = [adding EXCEPT ![s] = n] /\ pool' = pool
        /\ pc' = [pc EXCEPT ![s] = "populate"]
    BY <1>2 DEF ReadPool
  <2> HIDE DEF n
  <2>3. \A o \in Setters : adding'[o] = IF o = s THEN n ELSE adding[o]
    BY <1>p, <2>2
  <2>4. \A o \in Setters : adding'[o] <= Room
    BY <1>p, <2>1, <2>3
  <2>5. \A o \in Setters : adding'[o] # 0 => pc'[o] = "populate"
    BY <1>p, <1>t, <2>2, <2>3 DEF TypeOK
  <2>6. \E o \in Setters : Reach(o)' <= Bound
    <3>1. CASE n = 0
      <4>1. adding[s] = 0
        <5>1. pc[s] # "populate"
          BY <1>2 DEF ReadPool
        <5> QED BY <1>p, <5>1
      <4>2. adding' = adding
        BY <1>p, <2>2, <3>1, <4>1
      <4>3. Reach(r)' = Reach(r)
        BY <2>2, <4>2 DEF Pending
      <4> QED BY <1>r, <4>3
    <3>2. CASE n # 0
      <4>1. Pending' \in SUBSET Setters
        BY DEF Pending
      <4>2. Cardinality(Pending' \ {s}) \in Nat
            /\ Cardinality(Pending' \ {s}) <= Cardinality(Setters) - 1
        BY <4>1, SomeSetters
      <4>3. Cardinality(Setters) - 1 \in Nat
        BY SettersFinite
      <4>4. /\ Cardinality(Pending' \ {s}) * Room
                 <= (Cardinality(Setters) - 1) * Room
            /\ Cardinality(Pending' \ {s}) * Room \in Nat
        BY <4>2, <4>3, RoomProduct
      <4>5. pool' + adding'[s] <= PoolMax /\ pool' + adding'[s] \in Nat
        BY <1>p, <2>1, <2>2, <2>3, <3>2
      <4>6. Reach(s)' = (pool' + adding'[s]) + Cardinality(Pending' \ {s}) * Room
        OBVIOUS
      <4>7. Reach(s)' <= Bound
        BY <1>b, <1>p, <4>4, <4>5, <4>6
      <4> QED BY <4>7
    <3> QED BY <3>1, <3>2
  <2> QED BY <1>p, <2>2, <2>4, <2>5, <2>6 DEF PoolInv
<1>3. ASSUME NEW s \in Setters, Populate(s) PROVE PoolInv'
  <2>1. PICK added \in 0 .. adding[s] : pool' = pool + added
    BY <1>3 DEF Populate
  <2>2. adding' = [adding EXCEPT ![s] = 0] /\ pc' = [pc EXCEPT ![s] = "store"]
    BY <1>3 DEF Populate
  <2>3. \A o \in Setters : adding'[o] = IF o = s THEN 0 ELSE adding[o]
    BY <1>p, <2>2
  <2>4. \A o \in Setters : adding'[o] <= Room
    BY <1>p, <2>3
  <2>5. \A o \in Setters : adding'[o] # 0 => pc'[o] = "populate"
    BY <1>p, <1>t, <2>2, <2>3 DEF TypeOK
  <2>6. added \in Nat /\ added <= adding[s] /\ adding[s] \in Nat
    BY <1>p, <2>1
  <2>7. Pending' = Pending \ {s}
    BY <2>3 DEF Pending
  <2>8. Pending \in SUBSET Setters
    BY DEF Pending
  <2>9. IsFiniteSet(Pending \ {r}) /\ Cardinality(Pending \ {r}) \in Nat
    BY <2>8, SomeSetters, FS_Subset
  <2>10. Cardinality(Pending \ {r}) * Room \in Nat
    BY <2>9, RoomProduct
  <2>11. Reach(r)' <= Reach(r)
    <3>1. CASE s = r
      <4>1. Pending' \ {r} = Pending \ {r}
        BY <2>7, <3>1
      <4> QED BY <1>p, <2>1, <2>3, <2>6, <2>10, <3>1, <4>1
    <3>2. CASE s # r /\ adding[s] = 0
      <4>1. Pending' \ {r} = Pending \ {r}
        BY <2>7, <3>2 DEF Pending
      <4>2. pool' = pool /\ adding'[r] = adding[r]
        BY <1>p, <2>1, <2>3, <2>6, <3>2
      <4> QED BY <1>p, <2>10, <4>1, <4>2
    <3>3. CASE s # r /\ adding[s] # 0
      <4> DEFINE P == Pending \ {r}
      <4>1. s \in P
        BY <3>3 DEF Pending
      <4>2. Pending' \ {r} = P \ {s}
        BY <2>7
      <4>3. Cardinality(P \ {s}) = Cardinality(P) - 1
        BY <2>9, <4>1, FS_RemoveElement
      <4>4. Cardinality(P \ {s}) \in Nat
        BY <2>9, FS_RemoveElement, FS_CardinalityType
      <4>5. Cardinality(P) = Cardinality(P \ {s}) + 1
        BY <2>9, <4>3, <4>4
      <4>6. Cardinality(P) * Room = Cardinality(P \ {s}) * Room + Room
        <5> HIDE DEF P
        <5> QED BY <4>4, <4>5, RoomProduct
      <4>7. Cardinality(P \ {s}) * Room \in Nat
        <5> HIDE DEF P
        <5> QED BY <4>4, RoomProduct
      <4>8. pool' <= pool + Room /\ adding'[r] = adding[r] /\ pool' \in Nat
        BY <1>p, <2>1, <2>3, <2>6, <3>3
      <4>9. Reach(r)' = pool' + adding[r] + Cardinality(P \ {s}) * Room
        BY <4>2, <4>8
      <4>10. Reach(r) = pool + adding[r] + Cardinality(P) * Room
        OBVIOUS
      <4>11. adding[r] \in Nat
        BY <1>p
      <4> HIDE DEF P, Reach
      <4> QED BY <1>p, <4>6, <4>7, <4>8, <4>9, <4>10, <4>11
    <3> QED BY <3>1, <3>2, <3>3
  <2>12. Reach(r)' <= Bound
    <3>1. Reach(r) \in Nat /\ Bound \in Nat
      BY <1>p, <1>b, <2>10
    <3>2. Reach(r)' \in Int
      <4>1. Pending' \in SUBSET Setters
        BY DEF Pending
      <4>2. Cardinality(Pending' \ {r}) * Room \in Nat
        <5>1. Cardinality(Pending' \ {r}) \in Nat
          BY <4>1, SomeSetters
        <5> QED BY <5>1, RoomProduct
      <4>3. pool' \in Nat /\ adding'[r] \in Nat
        BY <1>p, <2>1, <2>3, <2>6
      <4> QED BY <4>2, <4>3
    <3> HIDE DEF Reach, Bound
    <3> QED BY <1>r, <2>11, <3>1, <3>2
  <2> QED BY <2>4, <2>5, <2>12 DEF PoolInv
<1>4. ASSUME NEW s \in Setters, Store(s) PROVE PoolInv'
  BY <1>1, <1>4, <1>t DEF Store, TypeOK
<1>5. CASE Track
  BY <1>1, <1>5, <1>t DEF Track, TypeOK
<1>6. ASSUME NEW t \in Threads, qos_adjust(t) PROVE PoolInv'
  BY <1>1, <1>6, <1>t DEF qos_adjust, TypeOK
<1>7. ASSUME NEW v \in Limits, osc_max_rpcs_in_flight_seq_write(v) PROVE PoolInv'
  BY <1>1, <1>7, <1>t DEF osc_max_rpcs_in_flight_seq_write, TypeOK
<1>8. CASE osc_qos_rules_seq_write \/ osc_qos_rules_seq_show \/ Tick
           \/ client_obd_cleanup \/ UNCHANGED vars
  BY <1>1, <1>8 DEF osc_qos_rules_seq_write, osc_qos_rules_seq_show, Tick,
                    client_obd_cleanup, vars
<1>9. ASSUME NEW t \in Threads, LPROCFS_CLIMP_CHECK(t) PROVE PoolInv'
  BY <1>1, <1>9, <1>t DEF LPROCFS_CLIMP_CHECK, TypeOK
<1> QED BY <1>2, <1>3, <1>4, <1>5, <1>6, <1>7, <1>8, <1>9 DEF Next

\* Alone, a setter stores what is tracked or tracks what it stored.
LEMMA TrackStep == IInv /\ [Next]_vars => TrackInv'
<1> SUFFICES ASSUME IInv, [Next]_vars PROVE TrackInv'
  OBVIOUS
<1>t. TypeOK /\ TrackInv
  BY DEF IInv
<1>s. Admin \in Setters /\ Admin \notin Threads /\ Threads \subseteq Setters
  BY QosAssumption DEF Setters
<1>v. /\ pc \in [Setters -> {"idle", "check", "read", "populate", "store",
                             "track"}]
      /\ new_mrif \in [Setters -> 0 .. RifMax]
  BY <1>t DEF TypeOK
<1>1. ASSUME UNCHANGED <<max_rpc_in_flight100, cl_import, cl_mrif, pc, new_mrif,
                         alone>>
      PROVE  TrackInv'
  BY <1>1, <1>t DEF TrackInv, TrackedLimitInForce
<1>2. ASSUME NEW t \in Threads, qos_adjust(t) PROVE TrackInv'
  <2>1. /\ pc' = [pc EXCEPT ![t] = "check"] /\ cl_import' = cl_import
        /\ alone' = \A o \in Setters \ {t} : pc[o] = "idle"
    BY <1>2 DEF qos_adjust, Observe
  <2>2. PICK v : /\ max_rpc_in_flight100' = v
                 /\ new_mrif' = [new_mrif EXCEPT ![t] = Greater(v \div 100, 1)]
    BY <1>2 DEF qos_adjust
  <2>3. new_mrif'[t] = Greater(max_rpc_in_flight100' \div 100, 1)
    BY <1>s, <1>v, <2>2
  <2>4. new_mrif'[t] >= 1
    <3>1. max_rpc_in_flight100' \in Int
      BY TypeStep, QosAssumption DEF TypeOK
    <3>2. max_rpc_in_flight100' \div 100 \in Int
      BY <3>1
    <3> QED BY <2>3, <3>2 DEF Greater
  <2>6. \A o \in Setters : o # t => pc'[o] = pc[o] /\ new_mrif'[o] = new_mrif[o]
    BY <1>s, <1>v, <2>1, <2>2
  <2>7. pc'[t] = "check"
    BY <1>s, <1>v, <2>1
  <2>8. TrackedLimitInForce'
    BY <1>s, <2>7 DEF TrackedLimitInForce
  <2> QED BY <1>t, <1>s, <2>1, <2>3, <2>4, <2>6, <2>7, <2>8 DEF TrackInv
<1>3. ASSUME NEW v \in Limits, osc_max_rpcs_in_flight_seq_write(v)
      PROVE  TrackInv'
  <2>1. /\ pc' = [pc EXCEPT ![Admin] = "read"] /\ cl_import /\ cl_import'
        /\ new_mrif' = [new_mrif EXCEPT ![Admin] = v]
        /\ alone' = \A o \in Setters \ {Admin} : pc[o] = "idle"
    BY <1>3 DEF osc_max_rpcs_in_flight_seq_write, Observe
  <2>2. v >= 1
    BY QosAssumption
  <2>3. \A o \in Setters :
          o # Admin => pc'[o] = pc[o] /\ new_mrif'[o] = new_mrif[o]
    BY <1>s, <1>v, <2>1
  <2>4. pc'[Admin] = "read" /\ new_mrif'[Admin] = v
    BY <1>s, <1>v, <2>1
  <2>5. TrackedLimitInForce'
    BY <1>s, <2>4 DEF TrackedLimitInForce
  <2> QED BY <1>t, <1>s, <2>1, <2>2, <2>3, <2>4, <2>5 DEF TrackInv
<1>4. ASSUME NEW s \in Setters, ReadPool(s) \/ Populate(s) PROVE TrackInv'
  <2>1. /\ pc[s] # "idle" /\ pc[s] # "track"
        /\ pc[s] \in {"read", "populate"}
        /\ UNCHANGED <<max_rpc_in_flight100, cl_import, cl_mrif, new_mrif, alone>>
        /\ pc'[s] # "idle" /\ pc'[s] # "track"
        /\ \A o \in Setters : o # s => pc'[o] = pc[o]
    BY <1>4, <1>v DEF ReadPool, Populate
  <2>2. TrackedLimitInForce'
    BY <2>1 DEF TrackedLimitInForce
  <2> QED BY <1>t, <1>s, <2>1, <2>2 DEF TrackInv
<1>5. ASSUME NEW s \in Threads, Store(s) PROVE TrackInv'
  <2>1. /\ pc[s] = "store" /\ cl_mrif' = new_mrif[s]
        /\ pc' = [pc EXCEPT ![s] = "idle"]
        /\ new_mrif' = [new_mrif EXCEPT ![s] = 0]
        /\ UNCHANGED <<max_rpc_in_flight100, cl_import, alone>>
    BY <1>5, <1>s DEF Store
  <2>2. /\ pc'[s] = "idle"
        /\ \A o \in Setters : o # s => pc'[o] = pc[o] /\ new_mrif'[o] = new_mrif[o]
    BY <1>s, <1>v, <2>1
  <2>3. TrackedLimitInForce'
    BY <1>t, <1>s, <2>1 DEF TrackedLimitInForce, TrackInv
  <2>4. alone => pc[Admin] = "idle"
    BY <1>t, <1>s, <2>1 DEF TrackInv
  <2> QED BY <1>t, <1>s, <2>1, <2>2, <2>3, <2>4 DEF TrackInv
<1>6. CASE Store(Admin)
  <2>1. /\ pc[Admin] = "store" /\ cl_mrif' = new_mrif[Admin]
        /\ pc' = [pc EXCEPT ![Admin] = "track"]
        /\ UNCHANGED <<max_rpc_in_flight100, cl_import, alone>>
    BY <1>6 DEF Store
  <2>2. new_mrif' = new_mrif
    <3>1. new_mrif' = [new_mrif EXCEPT ![Admin] = new_mrif[Admin]]
      BY <1>6 DEF Store
    <3> QED BY <1>v, <3>1
  <2>3. /\ pc'[Admin] = "track"
        /\ \A o \in Setters : o # Admin => pc'[o] = pc[o]
    BY <1>s, <1>v, <2>1
  <2>4. TrackedLimitInForce'
    BY <1>s, <2>3 DEF TrackedLimitInForce
  <2> QED BY <1>t, <1>s, <2>1, <2>2, <2>3, <2>4 DEF TrackInv
<1>7. CASE Track
  <2>1. /\ pc[Admin] = "track" /\ pc' = [pc EXCEPT ![Admin] = "idle"]
        /\ new_mrif' = [new_mrif EXCEPT ![Admin] = 0]
        /\ max_rpc_in_flight100' = new_mrif[Admin] * 100
        /\ UNCHANGED <<cl_import, cl_mrif, alone>>
    BY <1>7 DEF Track
  <2>2. /\ pc'[Admin] = "idle"
        /\ \A o \in Setters :
             o # Admin => pc'[o] = pc[o] /\ new_mrif'[o] = new_mrif[o]
    BY <1>s, <1>v, <2>1
  <2>3. new_mrif[Admin] \in Nat /\ new_mrif[Admin] >= 1
    BY <1>t, <1>s, <1>v, <2>1, QosAssumption DEF TrackInv
  <2>4. (new_mrif[Admin] * 100) \div 100 = new_mrif[Admin]
    BY <2>3
  <2>5. TrackedLimitInForce'
    BY <1>t, <2>1, <2>3, <2>4 DEF TrackedLimitInForce, TrackInv, Greater
  <2>6. alone => \A t \in Threads : pc'[t] = "idle"
    BY <1>t, <1>s, <2>1, <2>2 DEF TrackInv
  <2> QED BY <1>t, <1>s, <2>1, <2>2, <2>5, <2>6 DEF TrackInv
<1>8. CASE osc_qos_rules_seq_write \/ osc_qos_rules_seq_show \/ Tick
           \/ UNCHANGED vars
  BY <1>1, <1>8 DEF osc_qos_rules_seq_write, osc_qos_rules_seq_show, Tick, vars
<1>9. ASSUME NEW t \in Threads, LPROCFS_CLIMP_CHECK(t) PROVE TrackInv'
  <2>1. /\ pc[t] = "check"
        /\ pc' = [pc EXCEPT ![t] = IF cl_import THEN "read" ELSE "idle"]
        /\ UNCHANGED <<max_rpc_in_flight100, cl_import, cl_mrif, alone>>
    BY <1>9 DEF LPROCFS_CLIMP_CHECK
  <2>2. /\ pc'[t] = IF cl_import THEN "read" ELSE "idle"
        /\ \A o \in Setters : o # t => pc'[o] = pc[o] /\ new_mrif'[o] = new_mrif[o]
        /\ cl_import => new_mrif'[t] = new_mrif[t]
    BY <1>9, <1>s, <1>v, <2>1 DEF LPROCFS_CLIMP_CHECK
  <2>3. TrackedLimitInForce'
    BY <1>s, <2>1, <2>2 DEF TrackedLimitInForce
  <2> QED BY <1>t, <1>s, <2>1, <2>2, <2>3 DEF TrackInv
<1>10. CASE client_obd_cleanup
  BY <1>10, <1>t, <1>s DEF client_obd_cleanup, TrackInv, TrackedLimitInForce
<1> QED BY <1>2, <1>3, <1>4, <1>5, <1>6, <1>7, <1>8, <1>9, <1>10
        DEF Next, Setters

\* The invariant is inductive.
LEMMA Inductive == Spec => []IInv
<1>1. IInv /\ [Next]_vars => IInv'
  BY TypeStep, RulesStep, PoolStep, TrackStep DEF IInv
<1> QED BY InitIInv, <1>1, PTL DEF Spec

-----------------------------------------------------------------------------
\* cl_max_rpcs_in_flight is never 0 and never above OSC_MAX_RIF_MAX, whatever
\* rules are written, even if the arithmetic of qos_adjust overflows, and however
\* setters interleave.
THEOREM TypeCorrect == Spec => []TypeOK
<1>1. IInv => TypeOK
  BY DEF IInv
<1> QED BY <1>1, Inductive, PTL

\* The loop of qos_adjust never leaves the array of rules.
THEOREM RulesSafe == Spec => []RulesAllocated
<1>1. IInv => RulesAllocated
  BY DEF IInv
<1> QED BY <1>1, Inductive, PTL

\* The race on the request pool exceeds osc_reqpool_maxreqcount by at most as much
\* again per setter beyond the first, whatever osc_setup had allocated.
THEOREM PoolBounded == Spec => []PoolOvershootBounded
<1>1. IInv => PoolOvershootBounded
  <2> SUFFICES ASSUME IInv PROVE PoolOvershootBounded
    OBVIOUS
  <2>1. PICK r \in Setters :
          pool + adding[r] + Cardinality(Pending \ {r}) * Room
            <= PoolMax + (Cardinality(Setters) - 1) * Room
    BY DEF IInv, PoolInv
  <2>2. pool \in Nat /\ adding[r] \in Nat /\ PoolMax \in Nat
    BY QosAssumption DEF IInv, TypeOK
  <2>3. Cardinality(Pending \ {r}) \in Nat /\ Cardinality(Setters) - 1 \in Nat
    <3>1. Pending \in SUBSET Setters
      BY DEF Pending
    <3> QED BY <3>1, SomeSetters, SettersFinite
  <2>4. /\ Cardinality(Pending \ {r}) * Room \in Nat
        /\ (Cardinality(Setters) - 1) * Room \in Nat
    BY <2>3, RoomProduct
  <2>5. pool <= PoolMax + (Cardinality(Setters) - 1) * Room
    BY <2>1, <2>2, <2>4
  <2> QED BY <2>5 DEF PoolOvershootBounded, Room
<1> QED BY <1>1, Inductive, PTL

\* After an update that nobody overlapped, the limit in force is the tracked
\* one, whatever races came before, as long as there is an import.
THEOREM TrackedInForce == Spec => []TrackedLimitInForce
<1>1. IInv => TrackedLimitInForce
  BY DEF IInv, TrackInv
<1> QED BY <1>1, Inductive, PTL

-----------------------------------------------------------------------------
(* qos_throttle: how long a thread that is about to send a bulk RPC sleeps. *)

\* The inductive invariant of QosThrottle: unless the wall clock was set, it is
\* not behind the time of the last RPC.
ThrottleInv ==
  /\ mono \in Nat /\ wall \in Int /\ last_rpc_time \in Int
  /\ min_usec_between_rpcs \in Nat /\ steady \in BOOLEAN
  /\ wake \in [Senders -> Int] /\ latest \in [Senders -> Int]
  /\ gap \in [Senders -> Int]
  /\ arrival \in [Senders -> Int] /\ due \in [Senders -> Int]
  /\ \A t \in Senders : wake[t] # -1 =>
       /\ latest[t] <= arrival[t] + gap[t]
       /\ mono <= latest[t] + Slack
  /\ steady => last_rpc_time <= wall
  /\ GapFromPreviousCall

\* udelay, usleep_range and msleep are asked for no longer a sleep than is
\* needed, and cut off less than a millisecond.
LEMMA SleepWithin ==
  ASSUME NEW need \in Nat \ {0}
  PROVE  /\ SleepAtLeast(need) \in 0 .. need
         /\ SleepAtLeast(need) > need - Msec
         /\ SleepAtMost(need) \in 0 .. need
<1>1. /\ (need \div Msec) * Msec \in 0 .. need
      /\ (need \div Msec) * Msec > need - Msec
  BY ThrottleAssumption
<1>2. SleepAtMost(need) \in 0 .. need
  BY <1>1 DEF SleepAtMost
<1>3. CASE need < UdelayMax
  BY <1>2, <1>3, ThrottleAssumption DEF SleepAtLeast
<1>4. CASE ~(need < UdelayMax) /\ need < UsleepMax
  BY <1>2, <1>4, ThrottleAssumption DEF SleepAtLeast
<1>5. CASE ~(need < UdelayMax) /\ ~(need < UsleepMax)
  <2>1. SleepAtLeast(need) = (need \div Msec) * Msec
    BY <1>5 DEF SleepAtLeast
  <2> QED BY <1>1, <1>2, <2>1
<1> QED BY <1>3, <1>4, <1>5

\* A caller sleeps for at most a gap; and if the clock was not set, until a
\* gap after the call before.
LEMMA NeedWithin ==
  ASSUME ThrottleInv
  PROVE  /\ NeedSleep \in 0 .. min_usec_between_rpcs
         /\ steady /\ NeedSleep # 0 =>
              NeedSleep = min_usec_between_rpcs - (wall - last_rpc_time)
  BY DEF ThrottleInv, NeedSleep

LEMMA ThrottleCallKeeps ==
  ASSUME ThrottleInv, NEW t \in Senders,
         qos_throttle(t)
  PROVE  ThrottleInv'
<1>1. /\ UNCHANGED <<mono, wall, min_usec_between_rpcs>>
      /\ last_rpc_time' \in Int /\ steady' \in BOOLEAN
      /\ steady' => last_rpc_time' <= wall'
  <2>1. UNCHANGED <<mono, wall, min_usec_between_rpcs>>
    BY DEF qos_throttle
  <2>2. CASE min_usec_between_rpcs = 0
    <3>1. UNCHANGED <<last_rpc_time, steady>>
      BY <2>2 DEF qos_throttle
    <3> QED BY <2>1, <3>1 DEF ThrottleInv
  <2>3. CASE min_usec_between_rpcs # 0
    <3>1. last_rpc_time' = wall /\ steady' = TRUE
      BY <2>3 DEF qos_throttle
    <3> QED BY <2>1, <3>1 DEF ThrottleInv
  <2> QED BY <2>2, <2>3
<1>2. CASE UNCHANGED <<wake, latest, gap, arrival, due>>
  BY <1>1, <1>2
     DEF ThrottleInv, GapFromPreviousCall
<1>3. CASE ~UNCHANGED <<wake, latest, gap, arrival, due>>
  <2> DEFINE need == NeedSleep
             sleep == SleepAtLeast(need)
             most == SleepAtMost(need)
             d == IF steady THEN mono - (wall - last_rpc_time)
                                   + min_usec_between_rpcs ELSE 0
  <2>1. /\ need # 0
        /\ wake' = [wake EXCEPT ![t] = mono + sleep]
        /\ latest' = [latest EXCEPT ![t] = mono + most]
        /\ gap' = [gap EXCEPT ![t] = min_usec_between_rpcs]
        /\ arrival' = [arrival EXCEPT ![t] = mono]
        /\ due' = [due EXCEPT ![t] = d]
    BY <1>3 DEF qos_throttle
  <2>2. /\ need \in 0 .. min_usec_between_rpcs /\ min_usec_between_rpcs \in Nat
        /\ steady => need = min_usec_between_rpcs - (wall - last_rpc_time)
    BY <2>1, NeedWithin DEF ThrottleInv
  <2>3. sleep \in 0 .. need /\ sleep > need - Msec /\ most \in 0 .. need
    BY <2>1, <2>2, SleepWithin
  <2>4. /\ mono \in Nat /\ wall \in Int /\ last_rpc_time \in Int /\ Msec \in Nat \ {0}
        /\ wake \in [Senders -> Int] /\ latest \in [Senders -> Int]
        /\ gap \in [Senders -> Int] /\ Slack \in Nat
        /\ arrival \in [Senders -> Int] /\ due \in [Senders -> Int]
    BY ThrottleAssumption DEF ThrottleInv
  <2> HIDE DEF need, sleep, most
  <2>5. /\ d \in Int /\ mono + sleep \in Int
        /\ mono + most \in Int /\ mono <= mono + most + Slack
        /\ mono + most <= mono + min_usec_between_rpcs
        /\ mono + sleep > d - Msec
    BY <2>2, <2>3, <2>4
  <2> HIDE DEF d
  <2>6. /\ wake' \in [Senders -> Int] /\ latest' \in [Senders -> Int]
        /\ gap' \in [Senders -> Int]
        /\ arrival' \in [Senders -> Int] /\ due' \in [Senders -> Int]
    BY <2>1, <2>2, <2>4, <2>5
  <2>7. /\ \A u \in Senders : u # t =>
             /\ wake'[u] = wake[u] /\ latest'[u] = latest[u]
             /\ gap'[u] = gap[u]
             /\ arrival'[u] = arrival[u] /\ due'[u] = due[u]
        /\ wake'[t] = mono + sleep /\ latest'[t] = mono + most
        /\ gap'[t] = min_usec_between_rpcs
        /\ arrival'[t] = mono /\ due'[t] = d
    BY <2>1, <2>4
  <2>8. \A u \in Senders : wake'[u] # -1 =>
          /\ latest'[u] <= arrival'[u] + gap'[u]
          /\ mono' <= latest'[u] + Slack
    BY <1>1, <2>5, <2>7 DEF ThrottleInv
  <2>9. GapFromPreviousCall'
    BY <2>5, <2>7 DEF ThrottleInv, GapFromPreviousCall
  <2> QED BY <1>1, <2>6, <2>8, <2>9 DEF ThrottleInv
<1> QED BY <1>2, <1>3

\* The invariant of QosThrottle is inductive.
LEMMA ThrottleInductive == ThrottleSpec => []ThrottleInv
<1>1. ThrottleInit => ThrottleInv
  BY ThrottleAssumption DEF ThrottleInit, ThrottleInv,
         GapFromPreviousCall
<1>2. ThrottleInv /\ [ThrottleNext]_throttleVars => ThrottleInv'
  <2> SUFFICES ASSUME ThrottleInv, [ThrottleNext]_throttleVars
               PROVE  ThrottleInv'
    OBVIOUS
  <2>1. ASSUME NEW t \in Senders, qos_throttle(t) PROVE ThrottleInv'
    BY <2>1, ThrottleCallKeeps
  <2>2. ASSUME NEW t \in Senders, Send(t) PROVE ThrottleInv'
    BY <2>2 DEF ThrottleInv, Send, GapFromPreviousCall
  <2>3. ASSUME NEW v \in Gaps, SetGap(v) PROVE ThrottleInv'
    BY <2>3, ThrottleAssumption DEF ThrottleInv, SetGap,
                GapFromPreviousCall
  <2>4. CASE ClockTick
    <3>1. \A t \in Senders : wake[t] # -1 => mono < latest[t] + Slack
      BY <2>4 DEF ClockTick
    <3>2. \A t \in Senders : wake[t] # -1 => mono + 1 <= latest[t] + Slack
      BY <3>1, ThrottleAssumption DEF ThrottleInv
    <3> QED BY <2>4, <3>2 DEF ThrottleInv, ClockTick, GapFromPreviousCall
  <2>5. ASSUME NEW d \in Steps, ClockStep(d) PROVE ThrottleInv'
    <3>1. /\ wall' = wall + d /\ d \in Int /\ steady' = FALSE
          /\ UNCHANGED <<mono, min_usec_between_rpcs, last_rpc_time, wake,
                         latest, gap, arrival, due>>
      BY <2>5, ThrottleAssumption DEF ClockStep
    <3>2. wall' \in Int /\ steady' \in BOOLEAN
      <4>1. wall \in Int
        BY DEF ThrottleInv
      <4>2. wall + d \in Int
        BY <3>1, <4>1
      <4> QED BY <3>1, <4>2
    <3> QED BY <3>1, <3>2 DEF ThrottleInv, GapFromPreviousCall
  <2>6. CASE UNCHANGED throttleVars
    BY <2>6 DEF ThrottleInv, throttleVars, GapFromPreviousCall
  <2> QED BY <2>1, <2>2, <2>3, <2>4, <2>5, <2>6 DEF ThrottleNext
<1> QED BY <1>1, <1>2, PTL DEF ThrottleSpec

\* No RPC is held back for longer than a gap and what the kernel takes to have
\* a sleeper run again, however the wall clock is set and however many threads
\* send: qos_throttle replaces a negative distance by 0, and asks for no sleep
\* longer than it needs.
THEOREM DelayIsBounded == ThrottleSpec => []BoundedDelay
<1>1. ThrottleInv => BoundedDelay
  BY ThrottleAssumption DEF ThrottleInv, BoundedDelay
<1> QED BY <1>1, ThrottleInductive, PTL

\* A throttled RPC leaves no earlier than a gap after the previous call of
\* qos_throttle, less than a millisecond short, whatever the limits at which
\* qos_throttle changes from udelay to usleep_range and to msleep.
THEOREM GapIsKept == ThrottleSpec => []GapFromPreviousCall
<1>1. ThrottleInv => GapFromPreviousCall
  BY DEF ThrottleInv
<1> QED BY <1>1, ThrottleInductive, PTL
==============================================================================
