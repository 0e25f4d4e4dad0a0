-------------------------- MODULE NrsTbfRulesProofs --------------------------
(***************************************************************************)
(* Proofs about NrsTbfRules for every set of rules, clients, names and     *)
(* rates and every number of commands.                                     *)
(***************************************************************************)
EXTENDS NrsTbfRules, FiniteSetTheorems, SequenceTheorems,
        WellFoundedInduction, TLAPS

Listed == ToSet(th_list)

\* The clients that use rule r, and those between match and reset.
Users(r) == {c \in Clis : tc_rule[c] = r}
Matchers(r) == {c \in Clis : matched[c] = r}

\* The references of the list and of the command, as numbers.
ListRef(r) ==
  IF r \in Listed \/ (cmd \in {"stop_flag", "stop_put"} /\ cmd_rule = r)
  THEN 1 ELSE 0
CmdRef(r) == IF cmd_rule = r /\ cmd # "start_sequence" THEN 1 ELSE 0

\* The part of RefcountExact that counts.
Counts == \A r \in Rules : /\ tr_ref[r] = Holders(r)
                           /\ r \in live <=> Holders(r) > 0

\* The default rule is always there, and only a rule of the list is matched.
ListInv ==
  /\ IsInjective(th_list)
  /\ started => DefaultRule \in Listed
  /\ tr_name[DefaultRule] = "default"
  /\ \A r \in Listed : ~tr_stopping[r]

\* A rule that is allocated and not on the list is marked as stopping, but for
\* the moment between the two writes of nrs_tbf_rule_stop.
StoppingInv ==
  \A r \in live \ Listed : tr_stopping[r] \/ (cmd = "stop_flag" /\ cmd_rule = r)

\* What the command in progress has.
CmdInv ==
  /\ cmd = "none" <=> cmd_rule = None
  /\ cmd \in {"stop_flag", "stop_put"} => cmd_rule \notin Listed
  /\ cmd = "start_sequence" => cmd_rule \in Listed
  /\ cmd = "stop_unlink" => cmd_rule \in Listed /\ cmd_rule # DefaultRule

\* Where a lookup is says which rules its client has.
LookupInv ==
  \A c \in Clis :
    /\ matched[c] # None <=> res_get[c] = "reset"
    /\ c \in tc_hashed \/ res_get[c] \in {"check", "rate", "sequence", "generation"}
         => tc_rule[c] # None
    /\ c \notin tc_hashed /\ res_get[c] = "out" => tc_rule[c] = None
    /\ ~started => res_get[c] = "out" /\ c \notin tc_hashed

\* A lookup that no command has overlapped so far leads to a rule of the list.
QuietInv ==
  /\ quiet # {} => cmd = "none"
  /\ \A c \in quiet :
       /\ res_get[c] \in {"rate", "sequence", "generation"} => tc_rule[c] \in Listed
       /\ res_get[c] = "found" => walked[c] \in Listed
       /\ res_get[c] = "reset" => matched[c] \in Listed
       /\ c \in tc_hashed /\ res_get[c] = "out" => tc_rule[c] \in Listed

\* Nothing of a stopped policy is left.
StoppedInv == ~started => th_list = <<>> /\ cmd = "none"

\* The inductive invariant.
IInv ==
  /\ TypeOK /\ Counts
  /\ ListInv /\ StoppingInv /\ CmdInv /\ LookupInv /\ QuietInv /\ StoppedInv

-----------------------------------------------------------------------------
\* A set of naturals that is not empty has a smallest element.
LEMMA MinFacts ==
  ASSUME NEW S \in SUBSET Nat, S # {}
  PROVE  Min(S) \in S /\ \A y \in S : Min(S) <= y
<1>1. PICK x \in S : \A y \in S : ~(<<y, x>> \in OpToRel(<, Nat))
  <2>1. IsWellFoundedOn(OpToRel(<, Nat), Nat)
    BY NatLessThanWellFounded
  <2> QED BY <2>1, WFMin
<1>2. \A y \in S : x <= y
  <2>1. \A a, b \in Nat : a < b => <<a, b>> \in OpToRel(<, Nat)
    BY DEF OpToRel
  <2> TAKE y \in S
  <2>2. x \in Nat /\ y \in Nat
    OBVIOUS
  <2>3. ~(y < x)
    BY <1>1, <2>1, <2>2
  <2> QED BY <2>2, <2>3
<1> QED BY <1>2 DEF Min

\* A part of a list without repetitions.
LEMMA PartFacts ==
  ASSUME NEW s \in Seq(Rules), IsInjective(s),
         NEW m \in 1 .. Len(s) + 1, NEW n \in 0 .. Len(s)
  PROVE  /\ SubSeq(s, m, n) \in Seq(Rules)
         /\ IsInjective(SubSeq(s, m, n))
         /\ ToSet(SubSeq(s, m, n)) = {s[i] : i \in m .. n}
         /\ Len(SubSeq(s, m, n)) = IF m <= n THEN n - m + 1 ELSE 0
<1> DEFINE p == SubSeq(s, m, n)
<1>1. Len(s) \in Nat /\ DOMAIN s = 1 .. Len(s) /\ m \in Int /\ n \in Int
  BY LenProperties
<1>2. \A i \in m .. n : i \in 1 .. Len(s) /\ s[i] \in Rules
  BY <1>1, ElementOfSeq
<1>3. /\ p \in Seq(Rules) /\ Len(p) = IF m <= n THEN n - m + 1 ELSE 0
      /\ \A i \in 1 .. n - m + 1 : p[i] = s[m + i - 1]
  BY <1>1, <1>2, SubSeqProperties
<1> HIDE DEF p
<1>4. DOMAIN p = 1 .. n - m + 1
  <2>1. DOMAIN p = 1 .. Len(p)
    BY <1>3, LenProperties
  <2> QED BY <1>1, <1>3, <2>1
<1>5. \A i \in 1 .. n - m + 1 : m + i - 1 \in m .. n
  BY <1>1
<1>6. IsInjective(p)
  <2> SUFFICES ASSUME NEW i \in 1 .. n - m + 1, NEW j \in 1 .. n - m + 1, p[i] = p[j]
               PROVE  i = j
    BY <1>4 DEF IsInjective
  <2>1. m + i - 1 = m + j - 1
    <3>1. m + i - 1 \in 1 .. Len(s) /\ m + j - 1 \in 1 .. Len(s)
      BY <1>2, <1>5
    <3>2. s[m + i - 1] = s[m + j - 1]
      BY <1>3
    <3>3. \A a, b \in 1 .. Len(s) : s[a] = s[b] => a = b
      BY <1>1 DEF IsInjective
    <3> QED BY <3>1, <3>2, <3>3
  <2> QED BY <1>1, <2>1
<1>7. ToSet(p) = {s[i] : i \in m .. n}
  <2>1. ASSUME NEW i \in m .. n PROVE s[i] \in ToSet(p)
    <3>1. i - m + 1 \in 1 .. n - m + 1 /\ m + (i - m + 1) - 1 = i
      BY <1>1
    <3>2. p[i - m + 1] = s[i]
      BY <1>3, <3>1
    <3> QED BY <1>4, <3>1, <3>2 DEF ToSet
  <2>2. ASSUME NEW i \in 1 .. n - m + 1 PROVE p[i] \in {s[j] : j \in m .. n}
    <3>1. p[i] = s[m + i - 1] /\ m + i - 1 \in m .. n
      BY <1>3, <1>5
    <3> QED BY <3>1
  <2>3. ToSet(p) = {p[i] : i \in 1 .. n - m + 1}
    BY <1>4 DEF ToSet
  <2> QED BY <2>1, <2>2, <2>3
<1> QED BY <1>3, <1>6, <1>7 DEF p

\* Two lists without repetitions and without a common element, one after the
\* other.
LEMMA JoinFacts ==
  ASSUME NEW a \in Seq(Rules), NEW b \in Seq(Rules),
         IsInjective(a), IsInjective(b), ToSet(a) \intersect ToSet(b) = {}
  PROVE  /\ a \o b \in Seq(Rules)
         /\ IsInjective(a \o b)
         /\ ToSet(a \o b) = ToSet(a) \union ToSet(b)
<1> DEFINE r == a \o b
<1>1. /\ Len(a) \in Nat /\ DOMAIN a = 1 .. Len(a)
      /\ Len(b) \in Nat /\ DOMAIN b = 1 .. Len(b)
  BY LenProperties
<1>2. /\ r \in Seq(Rules) /\ Len(r) = Len(a) + Len(b)
      /\ \A i \in 1 .. Len(a) + Len(b) :
           r[i] = IF i <= Len(a) THEN a[i] ELSE b[i - Len(a)]
  BY ConcatProperties
<1> HIDE DEF r
<1>3. DOMAIN r = 1 .. Len(a) + Len(b)
  BY <1>2, LenProperties
<1>4. \A i \in 1 .. Len(a) : i \in 1 .. Len(a) + Len(b) /\ r[i] = a[i]
  BY <1>1, <1>2
<1>5. \A i \in 1 .. Len(b) : Len(a) + i \in 1 .. Len(a) + Len(b)
                             /\ r[Len(a) + i] = b[i]
  <2> TAKE i \in 1 .. Len(b)
  <2>1. /\ Len(a) + i \in 1 .. Len(a) + Len(b)
        /\ ~(Len(a) + i <= Len(a)) /\ Len(a) + i - Len(a) = i
    BY <1>1
  <2> QED BY <1>2, <2>1
<1>6. \A i \in 1 .. Len(a) + Len(b) :
        \/ i \in 1 .. Len(a) /\ r[i] = a[i]
        \/ i - Len(a) \in 1 .. Len(b) /\ r[i] = b[i - Len(a)] /\ i > Len(a)
  BY <1>1, <1>2
<1>7. ToSet(r) = ToSet(a) \union ToSet(b)
  <2>1. ASSUME NEW x \in ToSet(r) PROVE x \in ToSet(a) \union ToSet(b)
    <3>1. PICK i \in 1 .. Len(a) + Len(b) : r[i] = x
      BY <1>3, <2>1 DEF ToSet
    <3>2. \/ \E m \in 1 .. Len(a) : a[m] = x
          \/ \E m \in 1 .. Len(b) : b[m] = x
      BY <1>6, <3>1
    <3> QED BY <1>1, <3>2 DEF ToSet
  <2>2. ASSUME NEW x \in ToSet(a) PROVE x \in ToSet(r)
    <3>1. PICK m \in 1 .. Len(a) : a[m] = x
      BY <1>1, <2>2 DEF ToSet
    <3> QED BY <1>3, <1>4, <3>1 DEF ToSet
  <2>3. ASSUME NEW x \in ToSet(b) PROVE x \in ToSet(r)
    <3>1. PICK m \in 1 .. Len(b) : b[m] = x
      BY <1>1, <2>3 DEF ToSet
    <3> QED BY <1>3, <1>5, <3>1 DEF ToSet
  <2> QED BY <2>1, <2>2, <2>3
<1>8. IsInjective(r)
  <2> SUFFICES ASSUME NEW i \in 1 .. Len(a) + Len(b),
                      NEW j \in 1 .. Len(a) + Len(b), r[i] = r[j]
               PROVE  i = j
    BY <1>3 DEF IsInjective
  <2>1. \A m \in 1 .. Len(a), n \in 1 .. Len(b) : a[m] # b[n]
    BY <1>1 DEF ToSet
  <2>2. \A m, n \in 1 .. Len(a) : a[m] = a[n] => m = n
    BY <1>1 DEF IsInjective
  <2>3. \A m, n \in 1 .. Len(b) : b[m] = b[n] => m = n
    BY <1>1 DEF IsInjective
  <2>4. i = j \/ i - Len(a) = j - Len(a)
    BY <1>6, <2>1, <2>2, <2>3
  <2> QED BY <1>1, <2>4
<1> QED BY <1>2, <1>7, <1>8 DEF r

\* Taking one rule off the list.
LEMMA RemoveFacts ==
  ASSUME NEW s \in Seq(Rules), IsInjective(s), NEW r \in ToSet(s)
  PROVE  /\ RemoveFirst(s, r) \in Seq(Rules)
         /\ IsInjective(RemoveFirst(s, r))
         /\ ToSet(RemoveFirst(s, r)) = ToSet(s) \ {r}
<1>1. Len(s) \in Nat /\ DOMAIN s = 1 .. Len(s)
  BY LenProperties
<1>2. PICK i \in 1 .. Len(s) : s[i] = r
  BY <1>1 DEF ToSet
<1>3. \A j \in 1 .. Len(s) : s[j] = r => j = i
  BY <1>1, <1>2 DEF IsInjective
<1> DEFINE at == {j \in 1 .. Len(s) : s[j] = r}
           a == SubSeq(s, 1, i - 1)
           b == SubSeq(s, i + 1, Len(s))
<1>4. at = {i}
  BY <1>2, <1>3
<1>5. Min(at) = i
  BY <1>1, <1>4 DEF Min
<1>6. RemoveFirst(s, r) = RemoveAt(s, Min(at))
  BY <1>2, <1>4 DEF RemoveFirst, SelectInSeq
<1>7. RemoveFirst(s, r) = a \o b
  BY <1>5, <1>6 DEF RemoveAt
<1>8. /\ a \in Seq(Rules) /\ IsInjective(a)
      /\ ToSet(a) = {s[j] : j \in 1 .. i - 1}
  BY <1>1, PartFacts
<1>9. /\ b \in Seq(Rules) /\ IsInjective(b)
      /\ ToSet(b) = {s[j] : j \in i + 1 .. Len(s)}
  <2>1. i + 1 \in 1 .. Len(s) + 1 /\ Len(s) \in 0 .. Len(s)
    BY <1>1
  <2> QED BY <2>1, PartFacts
<1> HIDE DEF a, b
<1>10. \A j \in 1 .. Len(s) : j \in 1 .. i - 1 \/ j = i \/ j \in i + 1 .. Len(s)
  BY <1>1
<1>11. /\ \A j \in 1 .. i - 1 : j \in 1 .. Len(s) /\ j # i
       /\ \A j \in i + 1 .. Len(s) : j \in 1 .. Len(s) /\ j # i
       /\ (1 .. i - 1) \intersect (i + 1 .. Len(s)) = {}
  BY <1>1
<1>12. ToSet(a) \intersect ToSet(b) = {}
  <2>1. \A j \in 1 .. i - 1, m \in i + 1 .. Len(s) : s[j] # s[m]
    BY <1>1, <1>11 DEF IsInjective
  <2> QED BY <1>8, <1>9, <2>1
<1>13. ToSet(a) \union ToSet(b) = ToSet(s) \ {r}
  BY <1>1, <1>2, <1>3, <1>8, <1>9, <1>10, <1>11 DEF ToSet
<1> QED BY <1>7, <1>8, <1>9, <1>12, <1>13, JoinFacts

\* Putting one rule on top of the list.
LEMMA PushFacts ==
  ASSUME NEW s \in Seq(Rules), IsInjective(s), NEW r \in Rules \ ToSet(s)
  PROVE  /\ <<r>> \o s \in Seq(Rules)
         /\ IsInjective(<<r>> \o s)
         /\ ToSet(<<r>> \o s) = ToSet(s) \union {r}
<1>1. /\ <<r>> \in Seq(Rules) /\ DOMAIN <<r>> = 1 .. 1 /\ <<r>>[1] = r
  OBVIOUS
<1>2. IsInjective(<<r>>) /\ ToSet(<<r>>) = {r}
  BY <1>1 DEF IsInjective, ToSet
<1>3. ToSet(<<r>>) \intersect ToSet(s) = {}
  BY <1>2
<1>4. /\ <<r>> \o s \in Seq(Rules) /\ IsInjective(<<r>> \o s)
      /\ ToSet(<<r>> \o s) = ToSet(<<r>>) \union ToSet(s)
  BY <1>1, <1>2, <1>3, JoinFacts
<1> QED BY <1>2, <1>4

\* nrs_tbf_rule_match returns a rule of the list as long as the policy runs.
LEMMA MatchFacts ==
  ASSUME th_list \in Seq(Rules), DefaultRule \in Listed, NEW c \in Clis
  PROVE  Match(c) \in Listed
<1> DEFINE I == {i \in 1 .. Len(th_list) : c \in tr_nids[th_list[i]]}
<1>1. Len(th_list) \in Nat /\ DOMAIN th_list = 1 .. Len(th_list)
  BY LenProperties
<1>2. Match(c) = IF (IF I # {} THEN Min(I) ELSE 0) = 0 THEN DefaultRule
                 ELSE th_list[IF I # {} THEN Min(I) ELSE 0]
  BY DEF Match, SelectInSeq
<1>3. CASE I = {}
  BY <1>2, <1>3
<1>4. CASE I # {}
  <2>1. I \in SUBSET Nat
    BY <1>1
  <2>2. Min(I) \in I
    <3> HIDE DEF I
    <3> QED BY <1>4, <2>1, MinFacts
  <2>3. Min(I) \in 1 .. Len(th_list)
    BY <2>2
  <2> HIDE DEF I
  <2>4. Min(I) # 0
    BY <1>1, <2>3
  <2>5. Match(c) = th_list[Min(I)]
    BY <1>2, <1>4, <2>4
  <2> QED BY <1>1, <2>3, <2>5 DEF Listed, ToSet
<1> QED BY <1>3, <1>4

\* Cardinalities of sets of clients.
LEMMA SomeClients ==
  ASSUME NEW S \in SUBSET Clis
  PROVE  /\ IsFiniteSet(S) /\ Cardinality(S) \in Nat
         /\ Cardinality(S) = 0 <=> S = {}
         /\ \A c \in Clis \ S : Cardinality(S \union {c}) = Cardinality(S) + 1
         /\ \A c \in S : Cardinality(S \ {c}) = Cardinality(S) - 1
<1>1. IsFiniteSet(S)
  BY RuleAssumption, FS_Subset
<1> QED BY <1>1, FS_CardinalityType, FS_EmptySet, FS_AddElement, FS_RemoveElement

\* The four terms that Holders adds up.
LEMMA HoldersSum ==
  ASSUME NEW r
  PROVE  /\ Holders(r) = ListRef(r) + Cardinality(Users(r))
                           + Cardinality(Matchers(r)) + CmdRef(r)
         /\ ListRef(r) \in 0 .. 1 /\ CmdRef(r) \in 0 .. 1
         /\ Cardinality(Users(r)) \in Nat /\ Cardinality(Matchers(r)) \in Nat
<1>1. Users(r) \in SUBSET Clis /\ Matchers(r) \in SUBSET Clis
  BY DEF Users, Matchers
<1>2. Cardinality(Users(r)) \in Nat /\ Cardinality(Matchers(r)) \in Nat
  BY <1>1, SomeClients
<1>3. Holders(r) = ListRef(r) + Cardinality(Users(r))
                     + Cardinality(Matchers(r)) + CmdRef(r)
  BY DEF Holders, ListRef, CmdRef, Users, Matchers, Listed
<1>4. ListRef(r) \in 0 .. 1 /\ CmdRef(r) \in 0 .. 1
  BY DEF ListRef, CmdRef
<1> QED BY <1>2, <1>3, <1>4

\* The same after a step.
LEMMA HoldersSumPrime ==
  ASSUME NEW r
  PROVE  /\ Holders(r)' = ListRef(r)' + Cardinality(Users(r)')
                            + Cardinality(Matchers(r)') + CmdRef(r)'
         /\ ListRef(r)' \in 0 .. 1 /\ CmdRef(r)' \in 0 .. 1
         /\ Cardinality(Users(r)') \in Nat /\ Cardinality(Matchers(r)') \in Nat
<1>1. Users(r)' \in SUBSET Clis /\ Matchers(r)' \in SUBSET Clis
  BY DEF Users, Matchers
<1>2. Cardinality(Users(r)') \in Nat /\ Cardinality(Matchers(r)') \in Nat
  BY <1>1, SomeClients
<1>3. Holders(r)' = ListRef(r)' + Cardinality(Users(r)')
                      + Cardinality(Matchers(r)') + CmdRef(r)'
  BY DEF Holders, ListRef, CmdRef, Users, Matchers, Listed
<1>4. ListRef(r)' \in 0 .. 1 /\ CmdRef(r)' \in 0 .. 1
  BY DEF ListRef, CmdRef
<1> QED BY <1>2, <1>3, <1>4

\* A client that leaves rule a (or no rule) and joins rule b (or none).
LEMMA MoveUser ==
  ASSUME TypeOK, NEW c \in Clis, NEW r,
         tc_rule' = [tc_rule EXCEPT ![c] = tc_rule'[c]]
  PROVE  Cardinality(Users(r)') = Cardinality(Users(r))
                                    + (IF r = tc_rule'[c] THEN 1 ELSE 0)
                                    - (IF r = tc_rule[c] THEN 1 ELSE 0)
<1>1. Users(r) \in SUBSET Clis /\ Cardinality(Users(r)) \in Nat
  BY HoldersSum DEF Users
<1>2. \A d \in Clis : d # c => tc_rule'[d] = tc_rule[d]
  BY DEF TypeOK
<1>3. CASE r = tc_rule'[c] /\ r # tc_rule[c]
  <2>1. Users(r)' = Users(r) \union {c} /\ c \in Clis \ Users(r)
    BY <1>2, <1>3 DEF Users
  <2>2. Cardinality(Users(r)') = Cardinality(Users(r)) + 1
    BY <1>1, <2>1, SomeClients
  <2> QED BY <1>1, <1>3, <2>2
<1>4. CASE r = tc_rule[c] /\ r # tc_rule'[c]
  <2>1. Users(r)' = Users(r) \ {c} /\ c \in Users(r)
    BY <1>2, <1>4 DEF Users
  <2>2. Cardinality(Users(r)') = Cardinality(Users(r)) - 1
    BY <1>1, <2>1, SomeClients
  <2> QED BY <1>1, <1>4, <2>2
<1>5. CASE (r = tc_rule'[c]) <=> (r = tc_rule[c])
  <2>1. Users(r)' = Users(r)
    BY <1>2, <1>5 DEF Users
  <2> QED BY <1>1, <1>5, <2>1
<1> QED BY <1>3, <1>4, <1>5

\* The same for the rule that a lookup has matched.
LEMMA MoveMatcher ==
  ASSUME TypeOK, NEW c \in Clis, NEW r,
         matched' = [matched EXCEPT ![c] = matched'[c]]
  PROVE  Cardinality(Matchers(r)') = Cardinality(Matchers(r))
                                       + (IF r = matched'[c] THEN 1 ELSE 0)
                                       - (IF r = matched[c] THEN 1 ELSE 0)
<1>1. Matchers(r) \in SUBSET Clis /\ Cardinality(Matchers(r)) \in Nat
  BY HoldersSum DEF Matchers
<1>2. \A d \in Clis : d # c => matched'[d] = matched[d]
  BY DEF TypeOK
<1>3. CASE r = matched'[c] /\ r # matched[c]
  <2>1. Matchers(r)' = Matchers(r) \union {c} /\ c \in Clis \ Matchers(r)
    BY <1>2, <1>3 DEF Matchers
  <2>2. Cardinality(Matchers(r)') = Cardinality(Matchers(r)) + 1
    BY <1>1, <2>1, SomeClients
  <2> QED BY <1>1, <1>3, <2>2
<1>4. CASE r = matched[c] /\ r # matched'[c]
  <2>1. Matchers(r)' = Matchers(r) \ {c} /\ c \in Matchers(r)
    BY <1>2, <1>4 DEF Matchers
  <2>2. Cardinality(Matchers(r)') = Cardinality(Matchers(r)) - 1
    BY <1>1, <2>1, SomeClients
  <2> QED BY <1>1, <1>4, <2>2
<1>5. CASE (r = matched'[c]) <=> (r = matched[c])
  <2>1. Matchers(r)' = Matchers(r)
    BY <1>2, <1>5 DEF Matchers
  <2> QED BY <1>1, <1>5, <2>1
<1> QED BY <1>3, <1>4, <1>5

\* What the invariant says of a rule's count.
LEMMA CountFacts ==
  ASSUME IInv, NEW r \in Rules
  PROVE  /\ tr_ref[r] = ListRef(r) + Cardinality(Users(r))
                          + Cardinality(Matchers(r)) + CmdRef(r)
         /\ r \in live <=> tr_ref[r] > 0
         /\ ListRef(r) \in 0 .. 1 /\ CmdRef(r) \in 0 .. 1 /\ tr_ref[r] \in Nat
         /\ Cardinality(Users(r)) \in Nat /\ Cardinality(Matchers(r)) \in Nat
  BY HoldersSum DEF IInv, Counts, TypeOK

\* What is to be shown of the counts after a step.
LEMMA CountStep ==
  ASSUME \A r \in Rules :
           /\ tr_ref'[r] = ListRef(r)' + Cardinality(Users(r)')
                             + Cardinality(Matchers(r)') + CmdRef(r)'
           /\ r \in live' <=> tr_ref'[r] > 0
  PROVE  Counts'
  BY HoldersSumPrime DEF Counts

\* A step that neither takes nor gives back a reference.
LEMMA CountsKept ==
  ASSUME IInv, UNCHANGED <<tr_ref, live, tc_rule, matched>>,
         \A r \in Rules : ListRef(r)' = ListRef(r) /\ CmdRef(r)' = CmdRef(r)
  PROVE  Counts'
<1>1. ASSUME NEW r \in Rules
      PROVE  /\ tr_ref'[r] = ListRef(r)' + Cardinality(Users(r)')
                               + Cardinality(Matchers(r)') + CmdRef(r)'
             /\ r \in live' <=> tr_ref'[r] > 0
  <2>1. Users(r)' = Users(r) /\ Matchers(r)' = Matchers(r)
    BY DEF Users, Matchers
  <2> QED BY <2>1, CountFacts
<1> QED BY <1>1, CountStep

\* A rule with a holder is live.
LEMMA HeldIsLive ==
  ASSUME IInv, NEW r \in Rules,
         r \in Listed \/ cmd_rule = r \/ (\E c \in Clis : tc_rule[c] = r \/ matched[c] = r)
  PROVE  r \in live
<1>1. CASE r \in Listed
  <2>1. ListRef(r) = 1
    BY <1>1 DEF ListRef
  <2> QED BY <2>1, CountFacts
<1>2. CASE cmd_rule = r /\ r \notin Listed
  <2>1. cmd # "start_sequence"
    BY <1>2 DEF IInv, CmdInv
  <2>2. CmdRef(r) = 1
    BY <1>2, <2>1 DEF CmdRef
  <2> QED BY <2>2, CountFacts
<1>3. ASSUME NEW c \in Clis, tc_rule[c] = r
      PROVE  r \in live
  <2>1. Users(r) # {} /\ Users(r) \in SUBSET Clis
    BY <1>3 DEF Users
  <2>2. Cardinality(Users(r)) # 0
    BY <2>1, SomeClients
  <2> QED BY <2>2, CountFacts
<1>4. ASSUME NEW c \in Clis, matched[c] = r
      PROVE  r \in live
  <2>1. Matchers(r) # {} /\ Matchers(r) \in SUBSET Clis
    BY <1>4 DEF Matchers
  <2>2. Cardinality(Matchers(r)) # 0
    BY <2>1, SomeClients
  <2> QED BY <2>2, CountFacts
<1> QED BY <1>1, <1>2, <1>3, <1>4

-----------------------------------------------------------------------------
LEMMA InitIInv == Init => IInv
<1> SUFFICES ASSUME Init PROVE IInv
  OBVIOUS
<1>1. /\ th_list \in Seq(Rules) /\ IsInjective(th_list) /\ Listed = {DefaultRule}
  <2>1. th_list = <<DefaultRule>> /\ DefaultRule \in Rules
    BY RuleAssumption DEF Init
  <2>2. th_list \in Seq(Rules) /\ DOMAIN th_list = 1 .. 1 /\ th_list[1] = DefaultRule
    BY <2>1
  <2> QED BY <2>2 DEF Listed, ToSet, IsInjective
<1>2. TypeOK
  <2>1. PICK rate \in Rates : tr_rpc_rate = [r \in Rules |-> rate]
    BY DEF Init
  <2> QED BY <1>1, <2>1 DEF Init, TypeOK
<1>3. Counts
  <2> SUFFICES ASSUME NEW r \in Rules
               PROVE  tr_ref[r] = Holders(r) /\ (r \in live <=> Holders(r) > 0)
    BY DEF Counts
  <2>1. Users(r) = {} /\ Matchers(r) = {} /\ CmdRef(r) = 0
    BY RuleAssumption DEF Init, Users, Matchers, CmdRef
  <2>2. ListRef(r) = IF r = DefaultRule THEN 1 ELSE 0
    BY <1>1, RuleAssumption DEF Init, ListRef
  <2>3. Cardinality(Users(r)) = 0 /\ Cardinality(Matchers(r)) = 0
    BY <2>1, FS_EmptySet
  <2>4. Holders(r) = IF r = DefaultRule THEN 1 ELSE 0
    BY <2>1, <2>2, <2>3, HoldersSum
  <2> QED BY <2>4 DEF Init
<1>4. ListInv
  BY <1>1, RuleAssumption DEF Init, ListInv
<1>5. StoppingInv /\ CmdInv
  BY <1>1 DEF Init, StoppingInv, CmdInv
<1>6. LookupInv /\ QuietInv /\ StoppedInv
  BY DEF Init, LookupInv, QuietInv, StoppedInv
<1> QED BY <1>2, <1>3, <1>4, <1>5, <1>6 DEF IInv

\* A command begins: it alone holds no reference so far.
LEMMA StartKeeps ==
  ASSUME IInv, NEW n \in Names, NEW nids \in SUBSET Clis, NEW rate \in Rates,
         nrs_tbf_rule_start(n, nids, rate)
  PROVE  IInv'
<1> PICK r \in Rules \ live :
       /\ live' = live \union {r}
       /\ tr_name' = [tr_name EXCEPT ![r] = n]
       /\ tr_nids' = [tr_nids EXCEPT ![r] = nids]
       /\ tr_rpc_rate' = [tr_rpc_rate EXCEPT ![r] = rate]
       /\ tr_generation' = [tr_generation EXCEPT ![r] = 0]
       /\ tr_stopping' = [tr_stopping EXCEPT ![r] = FALSE]
       /\ tr_ref' = [tr_ref EXCEPT ![r] = 1]
       /\ th_list' = <<r>> \o th_list
       /\ cmd_rule' = r
  BY DEF nrs_tbf_rule_start
<1>u. /\ started /\ cmd = "none" /\ quiet' = {} /\ cmd' = "start_sequence"
      /\ UNCHANGED <<started, th_rule_sequence, tc_hashed, tc_rule, tc_rpc_rate,
                     tc_rule_sequence, tc_rule_generation, res_get, walked, matched,
                     scp_req_lock>>
  BY DEF nrs_tbf_rule_start, BeginCmd, valueVars
<1>1. r \notin Listed /\ r # cmd_rule /\ r # None /\ r # DefaultRule
      /\ \A c \in Clis : tc_rule[c] # r /\ matched[c] # r
  <2>1. DefaultRule \in live
    BY <1>u, RuleAssumption, HeldIsLive DEF IInv, ListInv
  <2> QED BY <2>1, HeldIsLive, RuleAssumption
<1>2. /\ th_list' \in Seq(Rules) /\ IsInjective(th_list')
      /\ Listed' = Listed \union {r}
  BY <1>1, PushFacts DEF IInv, TypeOK, ListInv, Listed
<1>3. TypeOK'
  BY <1>u, <1>2 DEF IInv, TypeOK
<1>4. Counts'
  <2>1. ASSUME NEW q \in Rules
        PROVE  /\ tr_ref'[q] = ListRef(q)' + Cardinality(Users(q)')
                                 + Cardinality(Matchers(q)') + CmdRef(q)'
               /\ q \in live' <=> tr_ref'[q] > 0
    <3>1. Users(q)' = Users(q) /\ Matchers(q)' = Matchers(q)
      BY <1>u DEF Users, Matchers
    <3>2. CmdRef(q)' = 0 /\ CmdRef(q) = 0
      BY <1>u, RuleAssumption DEF CmdRef, IInv, CmdInv
    <3>3. ListRef(q)' = IF q = r THEN 1 ELSE ListRef(q)
      BY <1>u, <1>2 DEF ListRef
    <3>4. CASE q = r
      <4>1. Users(q) = {} /\ Matchers(q) = {}
        BY <1>1, <3>4 DEF Users, Matchers
      <4>2. Cardinality(Users(q)) = 0 /\ Cardinality(Matchers(q)) = 0
        BY <4>1, FS_EmptySet
      <4>3. tr_ref'[q] = 1 /\ q \in live'
        BY <3>4 DEF IInv, TypeOK
      <4> QED BY <3>1, <3>2, <3>3, <3>4, <4>2, <4>3
    <3>5. CASE q # r
      <4>1. tr_ref'[q] = tr_ref[q] /\ (q \in live' <=> q \in live)
        BY <3>5 DEF IInv, TypeOK
      <4> QED BY <3>1, <3>2, <3>3, <3>5, <4>1, CountFacts
    <3> QED BY <3>4, <3>5
  <2> QED BY <2>1, CountStep
<1>5. ListInv'
  BY <1>u, <1>1, <1>2 DEF IInv, TypeOK, ListInv
<1>6. StoppingInv'
  BY <1>u, <1>2 DEF IInv, TypeOK, StoppingInv
<1>7. CmdInv'
  BY <1>u, <1>1, <1>2 DEF CmdInv
<1>8. LookupInv'
  BY <1>u DEF IInv, LookupInv
<1>9. QuietInv' /\ StoppedInv'
  BY <1>u DEF QuietInv, StoppedInv
<1> QED BY <1>3, <1>4, <1>5, <1>6, <1>7, <1>8, <1>9 DEF IInv

LEMMA SequenceKeeps ==
  ASSUME IInv, rule_start_sequence
  PROVE  IInv'
<1>u. /\ cmd = "start_sequence" /\ cmd' = "none" /\ cmd_rule' = None
      /\ th_rule_sequence' = th_rule_sequence + 1
      /\ UNCHANGED <<started, th_list, live, tr_name, tr_nids, tr_rpc_rate,
                     tr_generation, tr_stopping, tr_ref, tc_hashed, tc_rule,
                     tc_rpc_rate, tc_rule_sequence, tc_rule_generation,
                     res_get, walked, matched, scp_req_lock, quiet>>
  BY DEF rule_start_sequence, ruleVars, valueVars
<1>1. Listed' = Listed
  BY <1>u DEF Listed
<1>2. \A r \in Rules : ListRef(r)' = ListRef(r) /\ CmdRef(r)' = CmdRef(r)
  BY <1>u, <1>1, RuleAssumption DEF ListRef, CmdRef
<1>3. TypeOK'
  BY <1>u DEF IInv, TypeOK
<1>4. Counts'
  BY <1>u, <1>2, CountsKept
<1>5. ListInv' /\ StoppingInv' /\ CmdInv' /\ StoppedInv'
  BY <1>u, <1>1 DEF IInv, ListInv, StoppingInv, CmdInv, StoppedInv
<1>6. LookupInv' /\ QuietInv'
  BY <1>u, <1>1 DEF IInv, LookupInv, QuietInv
<1> QED BY <1>3, <1>4, <1>5, <1>6 DEF IInv

\* A step that takes a reference on rule r, of a kind that inc says.
LEMMA GetCounts ==
  ASSUME IInv, NEW r \in live, Get(r), UNCHANGED live,
         \A q \in Rules :
           ListRef(q)' + Cardinality(Users(q)') + Cardinality(Matchers(q)') + CmdRef(q)'
             = ListRef(q) + Cardinality(Users(q)) + Cardinality(Matchers(q)) + CmdRef(q)
                 + (IF q = r THEN 1 ELSE 0)
  PROVE  Counts'
<1>1. ASSUME NEW q \in Rules
      PROVE  /\ tr_ref'[q] = ListRef(q)' + Cardinality(Users(q)')
                               + Cardinality(Matchers(q)') + CmdRef(q)'
             /\ q \in live' <=> tr_ref'[q] > 0
  <2>1. tr_ref'[q] = tr_ref[q] + (IF q = r THEN 1 ELSE 0)
    BY CountFacts DEF Get, IInv, TypeOK
  <2>2. r \in Rules /\ tr_ref[r] > 0
    BY CountFacts DEF IInv, TypeOK
  <2> QED BY <2>1, <2>2, CountFacts
<1> QED BY <1>1, CountStep

\* A step that gives k references on rule r back.
LEMMA PutCounts ==
  ASSUME IInv, NEW r \in live, NEW k \in Nat \ {0}, Put(r, k),
         \A q \in Rules :
           ListRef(q)' + Cardinality(Users(q)') + Cardinality(Matchers(q)') + CmdRef(q)'
             = ListRef(q) + Cardinality(Users(q)) + Cardinality(Matchers(q)) + CmdRef(q)
                 - (IF q = r THEN k ELSE 0)
  PROVE  Counts' /\ tr_ref' \in [Rules -> Nat]
<1>1. ASSUME NEW q \in Rules
      PROVE  /\ tr_ref'[q] = ListRef(q)' + Cardinality(Users(q)')
                               + Cardinality(Matchers(q)') + CmdRef(q)'
             /\ q \in live' <=> tr_ref'[q] > 0
             /\ tr_ref'[q] \in Nat
  <2>1. tr_ref'[q] = tr_ref[q] - (IF q = r THEN k ELSE 0)
    BY CountFacts DEF Put, IInv, TypeOK
  <2>2. tr_ref'[q] = ListRef(q)' + Cardinality(Users(q)')
                       + Cardinality(Matchers(q)') + CmdRef(q)'
    BY <2>1, CountFacts
  <2>3. tr_ref'[q] \in Nat
    BY <2>2, HoldersSumPrime
  <2>4. r \in Rules /\ tr_ref[r] \in Nat
    BY CountFacts DEF IInv, TypeOK
  <2>5. q \in live' <=> tr_ref'[q] > 0
    <3>1. CASE q = r
      <4>1. tr_ref'[q] = 0 <=> tr_ref[r] = k
        BY <2>1, <2>4, <3>1
      <4> QED BY <2>3, <3>1, <4>1 DEF Put
    <3>2. CASE q # r
      <4>1. tr_ref'[q] = tr_ref[q]
        BY <2>1, <3>2, CountFacts
      <4>2. q \in live' <=> q \in live
        BY <3>2 DEF Put
      <4> QED BY <4>1, <4>2, CountFacts
    <3> QED BY <3>1, <3>2
  <2> QED BY <2>2, <2>3, <2>5
<1>2. Counts'
  BY <1>1, CountStep
<1>3. tr_ref' \in [Rules -> Nat]
  BY <1>1 DEF Put, IInv, TypeOK
<1> QED BY <1>2, <1>3

\* A rule that was found by its name is on the list.
LEMMA NamedFacts ==
  ASSUME IInv, NEW n, NEW r \in Named(n)
  PROVE  r \in Listed /\ r \in Rules /\ r \in live /\ r # None /\ tr_name[r] = n
<1>1. r \in Listed /\ tr_name[r] = n
  BY DEF Named, Listed
<1>2. r \in Rules
  BY <1>1, ElementOfSeq, LenProperties DEF IInv, TypeOK, Listed, ToSet
<1> QED BY <1>1, <1>2, HeldIsLive, RuleAssumption

LEMMA ChangeKeeps ==
  ASSUME IInv, NEW n, NEW rate \in Rates, nrs_tbf_rule_change(n, rate)
  PROVE  IInv'
<1> PICK r \in Named(n) :
       /\ Get(r)
       /\ tr_rpc_rate' = [tr_rpc_rate EXCEPT ![r] = rate]
       /\ cmd_rule' = r
  BY DEF nrs_tbf_rule_change
<1>u. /\ started /\ cmd = "none" /\ quiet' = {} /\ cmd' = "change_generation"
      /\ UNCHANGED <<started, th_list, th_rule_sequence, live, tr_name, tr_nids,
                     tr_generation, tr_stopping, tc_hashed, tc_rule, tc_rpc_rate,
                     tc_rule_sequence, tc_rule_generation, res_get, walked, matched,
                     scp_req_lock>>
  BY DEF nrs_tbf_rule_change, BeginCmd, valueVars
<1>1. Listed' = Listed
  BY <1>u DEF Listed
<1>2. r \in Listed /\ r \in Rules /\ r \in live /\ r # None
  BY NamedFacts
<1>3. TypeOK'
  BY <1>u, <1>2 DEF IInv, TypeOK, Get
<1>4. Counts'
  <2>1. ASSUME NEW q \in Rules
        PROVE  ListRef(q)' + Cardinality(Users(q)') + Cardinality(Matchers(q)')
                 + CmdRef(q)'
               = ListRef(q) + Cardinality(Users(q)) + Cardinality(Matchers(q))
                   + CmdRef(q) + (IF q = r THEN 1 ELSE 0)
    <3>1. Users(q)' = Users(q) /\ Matchers(q)' = Matchers(q)
      BY <1>u DEF Users, Matchers
    <3>2. ListRef(q)' = ListRef(q)
      BY <1>u, <1>1 DEF ListRef
    <3>3. CmdRef(q) = 0 /\ CmdRef(q)' = IF q = r THEN 1 ELSE 0
      BY <1>u, RuleAssumption DEF CmdRef, IInv, CmdInv
    <3> QED BY <3>1, <3>2, <3>3, CountFacts
  <2> QED BY <1>u, <1>2, <2>1, GetCounts
<1>5. ListInv' /\ StoppingInv' /\ CmdInv' /\ StoppedInv'
  BY <1>u, <1>1, <1>2 DEF IInv, ListInv, StoppingInv, CmdInv, StoppedInv
<1>6. LookupInv' /\ QuietInv'
  BY <1>u, <1>1 DEF IInv, LookupInv, QuietInv
<1> QED BY <1>3, <1>4, <1>5, <1>6 DEF IInv

LEMMA GenerationKeeps ==
  ASSUME IInv, rule_change_generation
  PROVE  IInv'
<1> PICK r : r = cmd_rule
  OBVIOUS
<1>u. /\ cmd = "change_generation" /\ cmd' = "none" /\ cmd_rule' = None
      /\ tr_generation' = [tr_generation EXCEPT ![r] = @ + 1]
      /\ Put(r, 1)
      /\ UNCHANGED <<started, th_list, th_rule_sequence, tr_name, tr_nids,
                     tr_rpc_rate, tr_stopping, tc_hashed, tc_rule, tc_rpc_rate,
                     tc_rule_sequence, tc_rule_generation, res_get, walked, matched,
                     scp_req_lock, quiet>>
  BY DEF rule_change_generation, valueVars
<1>1. Listed' = Listed
  BY <1>u DEF Listed
<1>2. r \in Rules /\ r \in live
  <2>1. r \in Rules
    BY <1>u DEF IInv, TypeOK, CmdInv
  <2> QED BY <2>1, HeldIsLive
<1>3. Counts' /\ tr_ref' \in [Rules -> Nat]
  <2>1. ASSUME NEW q \in Rules
        PROVE  ListRef(q)' + Cardinality(Users(q)') + Cardinality(Matchers(q)')
                 + CmdRef(q)'
               = ListRef(q) + Cardinality(Users(q)) + Cardinality(Matchers(q))
                   + CmdRef(q) - (IF q = r THEN 1 ELSE 0)
    <3>1. Users(q)' = Users(q) /\ Matchers(q)' = Matchers(q)
      BY <1>u DEF Users, Matchers
    <3>2. ListRef(q)' = ListRef(q)
      BY <1>u, <1>1 DEF ListRef
    <3>3. CmdRef(q)' = 0 /\ CmdRef(q) = IF q = r THEN 1 ELSE 0
      BY <1>u, RuleAssumption DEF CmdRef
    <3> QED BY <3>1, <3>2, <3>3, CountFacts
  <2> QED BY <1>u, <1>2, <2>1, PutCounts
<1>4. live' \subseteq live
  BY <1>u DEF Put
<1>5. TypeOK'
  <2>1. TypeOK /\ live' \subseteq Rules
    BY <1>4 DEF IInv, TypeOK
  <2>2. tr_generation' \in [Rules -> Nat]
    <3>1. tr_generation \in [Rules -> Nat] /\ tr_generation[r] + 1 \in Nat
      BY <1>2, <2>1 DEF TypeOK
    <3>2. tr_generation' = [tr_generation EXCEPT ![r] = tr_generation[r] + 1]
      BY <1>u
    <3> QED BY <3>1, <3>2
  <2> QED BY <1>u, <1>3, <2>1, <2>2 DEF TypeOK
<1>6. ListInv' /\ StoppingInv' /\ CmdInv' /\ StoppedInv'
  BY <1>u, <1>1, <1>4 DEF IInv, ListInv, StoppingInv, CmdInv, StoppedInv
<1>7. LookupInv' /\ QuietInv'
  BY <1>u, <1>1 DEF IInv, LookupInv, QuietInv
<1> QED BY <1>3, <1>5, <1>6, <1>7 DEF IInv

LEMMA StopKeeps ==
  ASSUME IInv, NEW n, nrs_tbf_rule_stop(n)
  PROVE  IInv'
<1> PICK r \in Named(n) : Get(r) /\ cmd_rule' = r
  BY DEF nrs_tbf_rule_stop
<1>u. /\ started /\ cmd = "none" /\ quiet' = {} /\ cmd' = "stop_unlink"
      /\ n # "default"
      /\ UNCHANGED <<started, th_list, th_rule_sequence, live, tr_name, tr_nids,
                     tr_rpc_rate, tr_generation, tr_stopping, tc_hashed, tc_rule,
                     tc_rpc_rate, tc_rule_sequence, tc_rule_generation, res_get,
                     walked, matched, scp_req_lock>>
  BY DEF nrs_tbf_rule_stop, BeginCmd, ruleVars, valueVars
<1>1. /\ r \in Listed /\ r \in Rules /\ r \in live /\ r # None
      /\ r # DefaultRule
  BY <1>u, NamedFacts DEF IInv, ListInv
<1>2. Listed' = Listed
  BY <1>u DEF Listed
<1>3. TypeOK'
  BY <1>u, <1>1 DEF IInv, TypeOK, Get
<1>4. Counts'
  <2>1. ASSUME NEW q \in Rules
        PROVE  ListRef(q)' + Cardinality(Users(q)') + Cardinality(Matchers(q)')
                 + CmdRef(q)'
               = ListRef(q) + Cardinality(Users(q)) + Cardinality(Matchers(q))
                   + CmdRef(q) + (IF q = r THEN 1 ELSE 0)
    <3>1. Users(q)' = Users(q) /\ Matchers(q)' = Matchers(q)
      BY <1>u DEF Users, Matchers
    <3>2. ListRef(q)' = ListRef(q)
      BY <1>u, <1>2 DEF ListRef
    <3>3. CmdRef(q) = 0 /\ CmdRef(q)' = IF q = r THEN 1 ELSE 0
      BY <1>u, RuleAssumption DEF CmdRef, IInv, CmdInv
    <3> QED BY <3>1, <3>2, <3>3, CountFacts
  <2> QED BY <1>u, <1>1, <2>1, GetCounts
<1>5. ListInv' /\ StoppingInv' /\ CmdInv' /\ StoppedInv'
  BY <1>u, <1>1, <1>2 DEF IInv, ListInv, StoppingInv, CmdInv, StoppedInv
<1>6. LookupInv' /\ QuietInv'
  BY <1>u DEF IInv, LookupInv, QuietInv
<1> QED BY <1>3, <1>4, <1>5, <1>6 DEF IInv

\* The reference of the list goes over to the command.
LEMMA UnlinkKeeps ==
  ASSUME IInv, rule_stop_unlink
  PROVE  IInv'
<1> PICK r : r = cmd_rule
  OBVIOUS
<1>u. /\ cmd = "stop_unlink" /\ cmd' = "stop_flag"
      /\ th_list' = RemoveFirst(th_list, r)
      /\ UNCHANGED <<started, th_rule_sequence, live, tr_name, tr_nids,
                     tr_rpc_rate, tr_generation, tr_stopping, tr_ref, tc_hashed,
                     tc_rule, tc_rpc_rate, tc_rule_sequence, tc_rule_generation,
                     res_get, walked, matched, scp_req_lock, cmd_rule, quiet>>
  BY DEF rule_stop_unlink, ruleVars, valueVars
<1>1. r \in Listed /\ r \in Rules /\ r # DefaultRule
  BY <1>u DEF IInv, TypeOK, CmdInv
<1>2. /\ th_list' \in Seq(Rules) /\ IsInjective(th_list')
      /\ Listed' = Listed \ {r}
  <2>1. /\ th_list \in Seq(Rules) /\ IsInjective(th_list) /\ r \in ToSet(th_list)
    BY <1>1 DEF IInv, TypeOK, ListInv, Listed
  <2>2. /\ th_list' \in Seq(Rules) /\ IsInjective(th_list')
        /\ ToSet(th_list') = ToSet(th_list) \ {r}
    BY <1>u, <2>1, RemoveFacts
  <2> QED BY <2>2 DEF Listed
<1>3. TypeOK'
  BY <1>u, <1>2 DEF IInv, TypeOK
<1>4. \A q \in Rules : ListRef(q)' = ListRef(q) /\ CmdRef(q)' = CmdRef(q)
  BY <1>u, <1>1, <1>2 DEF ListRef, CmdRef
<1>5. Counts'
  BY <1>u, <1>4, CountsKept
<1>6. ListInv' /\ StoppingInv' /\ CmdInv' /\ StoppedInv'
  BY <1>u, <1>1, <1>2 DEF IInv, ListInv, StoppingInv, CmdInv, StoppedInv
<1>7. LookupInv' /\ QuietInv'
  BY <1>u DEF IInv, LookupInv, QuietInv
<1> QED BY <1>3, <1>5, <1>6, <1>7 DEF IInv

LEMMA FlagKeeps ==
  ASSUME IInv, rule_stop_flag
  PROVE  IInv'
<1> PICK r : r = cmd_rule
  OBVIOUS
<1>u. /\ cmd = "stop_flag" /\ cmd' = "stop_put"
      /\ tr_stopping' = [tr_stopping EXCEPT ![r] = TRUE]
      /\ UNCHANGED <<started, th_list, th_rule_sequence, live, tr_name, tr_nids,
                     tr_rpc_rate, tr_generation, tr_ref, tc_hashed, tc_rule,
                     tc_rpc_rate, tc_rule_sequence, tc_rule_generation, res_get,
                     walked, matched, scp_req_lock, cmd_rule, quiet>>
  BY DEF rule_stop_flag, valueVars
<1>1. Listed' = Listed
  BY <1>u DEF Listed
<1>2. r \in Rules /\ r \notin Listed
  BY <1>u DEF IInv, TypeOK, CmdInv
<1>3. \A q \in Rules : ListRef(q)' = ListRef(q) /\ CmdRef(q)' = CmdRef(q)
  BY <1>u, <1>1 DEF ListRef, CmdRef
<1>4. TypeOK'
  BY <1>u DEF IInv, TypeOK
<1>5. Counts'
  BY <1>u, <1>3, CountsKept
<1>6. ListInv' /\ StoppingInv' /\ CmdInv' /\ StoppedInv'
  BY <1>u, <1>1, <1>2 DEF IInv, TypeOK, ListInv, StoppingInv, CmdInv, StoppedInv
<1>7. LookupInv' /\ QuietInv'
  BY <1>u, <1>1 DEF IInv, LookupInv, QuietInv
<1> QED BY <1>4, <1>5, <1>6, <1>7 DEF IInv

LEMMA StopPutKeeps ==
  ASSUME IInv, rule_stop_put
  PROVE  IInv'
<1> PICK r : r = cmd_rule
  OBVIOUS
<1>u. /\ cmd = "stop_put" /\ cmd' = "none" /\ cmd_rule' = None /\ Put(r, 2)
      /\ UNCHANGED <<started, th_list, th_rule_sequence, tr_name, tr_nids,
                     tr_rpc_rate, tr_generation, tr_stopping, tc_hashed, tc_rule,
                     tc_rpc_rate, tc_rule_sequence, tc_rule_generation, res_get,
                     walked, matched, scp_req_lock, quiet>>
  BY DEF rule_stop_put, ruleVars, valueVars
<1>1. Listed' = Listed
  BY <1>u DEF Listed
<1>2. r \in Rules /\ r \in live /\ r \notin Listed
  <2>1. r \in Rules /\ r \notin Listed
    BY <1>u DEF IInv, TypeOK, CmdInv
  <2> QED BY <2>1, HeldIsLive
<1>3. Counts' /\ tr_ref' \in [Rules -> Nat]
  <2>1. ASSUME NEW q \in Rules
        PROVE  ListRef(q)' + Cardinality(Users(q)') + Cardinality(Matchers(q)')
                 + CmdRef(q)'
               = ListRef(q) + Cardinality(Users(q)) + Cardinality(Matchers(q))
                   + CmdRef(q) - (IF q = r THEN 2 ELSE 0)
    <3>1. Users(q)' = Users(q) /\ Matchers(q)' = Matchers(q)
      BY <1>u DEF Users, Matchers
    <3>2. /\ q = r => ListRef(q) = 1 /\ ListRef(q)' = 0
          /\ q # r => ListRef(q)' = ListRef(q)
      BY <1>u, <1>1, <1>2 DEF ListRef
    <3>3. CmdRef(q)' = 0 /\ CmdRef(q) = IF q = r THEN 1 ELSE 0
      BY <1>u, RuleAssumption DEF CmdRef
    <3> QED BY <3>1, <3>2, <3>3, CountFacts
  <2> QED BY <1>u, <1>2, <2>1, PutCounts
<1>4. live' \subseteq live
  BY <1>u DEF Put
<1>5. TypeOK'
  <2>1. TypeOK /\ live' \subseteq Rules
    BY <1>4 DEF IInv, TypeOK
  <2> QED BY <1>u, <1>3, <2>1 DEF TypeOK
<1>6. ListInv' /\ StoppingInv' /\ CmdInv' /\ StoppedInv'
  BY <1>u, <1>1, <1>4 DEF IInv, ListInv, StoppingInv, CmdInv, StoppedInv
<1>7. LookupInv' /\ QuietInv'
  BY <1>u, <1>1 DEF IInv, LookupInv, QuietInv
<1> QED BY <1>3, <1>5, <1>6, <1>7 DEF IInv

\* Steps of a lookup that take and give back no reference.
LEMMA LookupMove ==
  ASSUME IInv, NEW c \in Clis,
         \/ nrs_tbf_res_get(c) \/ res_get_check(c)
         \/ reset_value_rate(c) \/ reset_value_sequence(c)
         \/ reset_value_generation(c)
  PROVE  IInv'
<1>u. UNCHANGED <<started, th_list, th_rule_sequence, live, tr_name, tr_nids,
                  tr_rpc_rate, tr_generation, tr_stopping, tr_ref, tc_rule,
                  walked, matched, cmd, cmd_rule>>
  BY DEF nrs_tbf_res_get, res_get_check, reset_value_rate, reset_value_sequence,
         reset_value_generation, ruleVars, valueVars
<1>1. Listed' = Listed
  BY <1>u DEF Listed
<1>s. started
  BY DEF IInv, LookupInv, nrs_tbf_res_get, res_get_check, reset_value_rate,
         reset_value_sequence, reset_value_generation
<1>2. \A r \in Rules : ListRef(r)' = ListRef(r) /\ CmdRef(r)' = CmdRef(r)
  BY <1>u, <1>1 DEF ListRef, CmdRef
<1>3. Counts'
  BY <1>u, <1>2, CountsKept
<1>4. ListInv' /\ StoppingInv' /\ CmdInv' /\ StoppedInv'
  BY <1>u, <1>1 DEF IInv, ListInv, StoppingInv, CmdInv, StoppedInv
<1>d. \A d \in Clis : d # c => /\ res_get'[d] = res_get[d]
                               /\ d \in tc_hashed' <=> d \in tc_hashed
  BY DEF IInv, TypeOK, nrs_tbf_res_get, res_get_check, reset_value_rate,
         reset_value_sequence, reset_value_generation, ResGetOut
<1>5. CASE nrs_tbf_res_get(c)
  <2>1. /\ res_get[c] = "out" /\ res_get' = [res_get EXCEPT ![c] = res_get'[c]]
        /\ res_get'[c] = (IF c \in tc_hashed THEN "check" ELSE "match")
        /\ scp_req_lock' \subseteq Clis
        /\ quiet' = (IF cmd = "none" THEN quiet \union {c} ELSE quiet \ {c})
        /\ UNCHANGED <<tc_hashed, tc_rpc_rate, tc_rule_sequence, tc_rule_generation>>
    BY <1>5 DEF nrs_tbf_res_get, valueVars, IInv, TypeOK
  <2>2. TypeOK'
    BY <1>u, <2>1 DEF IInv, TypeOK
  <2>3. LookupInv'
    BY <1>u, <1>s, <1>d, <2>1 DEF IInv, LookupInv
  <2>4. QuietInv'
    BY <1>u, <1>1, <1>d, <2>1 DEF IInv, TypeOK, QuietInv
  <2> QED BY <1>3, <1>4, <2>2, <2>3, <2>4 DEF IInv
<1>6. CASE res_get_check(c)
  <2>1. /\ res_get[c] = "check" /\ res_get' = [res_get EXCEPT ![c] = res_get'[c]]
        /\ \/ res_get'[c] = "match" /\ UNCHANGED tc_hashed
           \/ res_get'[c] = "rate" /\ UNCHANGED tc_hashed /\ ~tr_stopping[tc_rule[c]]
           \/ /\ res_get'[c] = "out" /\ tc_hashed' = tc_hashed \union {c}
              /\ ~tr_stopping[tc_rule[c]]
        /\ scp_req_lock' \subseteq Clis
        /\ UNCHANGED <<quiet, tc_rpc_rate, tc_rule_sequence, tc_rule_generation>>
    BY <1>6 DEF res_get_check, valueVars, IInv, TypeOK, ResGetOut
  <2>2. TypeOK'
    BY <1>u, <2>1 DEF IInv, TypeOK
  <2>3. tc_rule[c] \in Rules /\ tc_rule[c] # None
    BY <2>1 DEF IInv, LookupInv, TypeOK
  <2>4. LookupInv'
    BY <1>u, <1>s, <1>d, <2>1, <2>3 DEF IInv, LookupInv
  <2>5. c \in quiet /\ ~tr_stopping[tc_rule[c]] => tc_rule[c] \in Listed
    <3>1. tc_rule[c] \in live
      BY <2>3, HeldIsLive
    <3> QED BY <3>1 DEF IInv, StoppingInv, QuietInv
  <2>6. QuietInv'
    BY <1>u, <1>1, <1>d, <2>1, <2>5 DEF IInv, TypeOK, QuietInv
  <2> QED BY <1>3, <1>4, <2>2, <2>4, <2>6 DEF IInv
<1>7. CASE reset_value_rate(c) \/ reset_value_sequence(c) \/ reset_value_generation(c)
  <2>1. /\ res_get[c] \in {"rate", "sequence", "generation"}
        /\ res_get' = [res_get EXCEPT ![c] = res_get'[c]]
        /\ \/ res_get'[c] \in {"sequence", "generation"} /\ UNCHANGED tc_hashed
           \/ res_get'[c] = "out" /\ tc_hashed' = tc_hashed \union {c}
        /\ scp_req_lock' \subseteq Clis
        /\ UNCHANGED quiet
    BY <1>7 DEF reset_value_rate, reset_value_sequence, reset_value_generation,
                IInv, TypeOK, ResGetOut
  <2>2. tc_rule[c] \in Rules /\ tc_rule[c] # None
    BY <2>1 DEF IInv, LookupInv, TypeOK
  <2>3. /\ tc_rpc_rate' \in [Clis -> Rates \union {0}]
        /\ tc_rule_sequence' \in [Clis -> Nat]
        /\ tc_rule_generation' \in [Clis -> Nat]
    <3>1. CASE reset_value_rate(c)
      BY <2>2, <3>1 DEF reset_value_rate, IInv, TypeOK
    <3>2. CASE reset_value_sequence(c)
      BY <3>2 DEF reset_value_sequence, IInv, TypeOK
    <3>3. CASE reset_value_generation(c)
      BY <2>2, <3>3 DEF reset_value_generation, IInv, TypeOK
    <3> QED BY <1>7, <3>1, <3>2, <3>3
  <2>4. TypeOK'
    <3>1. /\ tc_hashed' \subseteq Clis /\ quiet' \subseteq Clis
          /\ res_get' \in [Clis -> {"out", "check", "match", "found", "lost", "reset",
                                   "rate", "sequence", "generation"}]
      BY <2>1 DEF IInv, TypeOK
    <3> QED BY <1>u, <2>1, <2>3, <3>1 DEF IInv, TypeOK
  <2>5. LookupInv'
    BY <1>u, <1>s, <1>d, <2>1, <2>2 DEF IInv, LookupInv
  <2>6. QuietInv'
    BY <1>u, <1>1, <1>d, <2>1 DEF IInv, TypeOK, QuietInv
  <2> QED BY <1>3, <1>4, <2>4, <2>5, <2>6 DEF IInv
<1> QED BY <1>5, <1>6, <1>7

\* The walk of the list, and the walker that comes too late, change no count.
LEMMA WalkKeeps ==
  ASSUME IInv, NEW c \in Clis, nrs_tbf_rule_match(c) \/ rule_match_lost(c)
  PROVE  IInv'
<1>u. /\ res_get[c] \in {"match", "found"}
      /\ UNCHANGED <<started, th_list, th_rule_sequence, live, tr_name, tr_nids,
                     tr_rpc_rate, tr_generation, tr_stopping, tr_ref, tc_hashed,
                     tc_rule, tc_rpc_rate, tc_rule_sequence, tc_rule_generation,
                     matched, scp_req_lock, cmd, cmd_rule, quiet>>
  BY DEF nrs_tbf_rule_match, rule_match_lost, ruleVars, valueVars
<1>1. Listed' = Listed
  BY <1>u DEF Listed
<1>2. started /\ Match(c) \in Listed /\ Match(c) \in Rules
  <2>1. started
    BY <1>u DEF IInv, LookupInv
  <2>2. Match(c) \in Listed
    BY <2>1, MatchFacts DEF IInv, TypeOK, ListInv
  <2>3. Match(c) \in Rules
    BY <2>2, ElementOfSeq, LenProperties DEF IInv, TypeOK, Listed, ToSet
  <2> QED BY <2>1, <2>2, <2>3
<1>3. \A q \in Rules : ListRef(q)' = ListRef(q) /\ CmdRef(q)' = CmdRef(q)
  BY <1>u, <1>1 DEF ListRef, CmdRef
<1>4. ListInv' /\ StoppingInv' /\ CmdInv' /\ StoppedInv'
  BY <1>u, <1>1 DEF IInv, ListInv, StoppingInv, CmdInv, StoppedInv
<1>5. Counts'
  BY <1>u, <1>3, CountsKept
<1>6. \/ /\ walked' = [walked EXCEPT ![c] = Match(c)]
         /\ res_get' = [res_get EXCEPT ![c] = "found"]
      \/ walked' = walked /\ res_get' = [res_get EXCEPT ![c] = "lost"]
  BY DEF nrs_tbf_rule_match, rule_match_lost
<1>7. TypeOK'
  <2>1. walked' \in [Clis -> Rules \union {None}]
    <3>1. walked \in [Clis -> Rules \union {None}]
      BY DEF IInv, TypeOK
    <3> QED BY <1>2, <1>6, <3>1
  <2>2. res_get' \in [Clis -> {"out", "check", "match", "found", "lost",
                              "reset", "rate", "sequence", "generation"}]
    BY <1>6 DEF IInv, TypeOK
  <2> QED BY <1>u, <2>1, <2>2 DEF IInv, TypeOK
<1>8. LookupInv'
  BY <1>u, <1>2, <1>6 DEF IInv, TypeOK, LookupInv
<1>9. QuietInv'
  BY <1>u, <1>1, <1>2, <1>6 DEF IInv, TypeOK, QuietInv
<1> QED BY <1>4, <1>5, <1>7, <1>8, <1>9 DEF IInv

LEMMA MatchKeeps ==
  ASSUME IInv, NEW c \in Clis, rule_match_get(c)
  PROVE  IInv'
<1> PICK r : r = walked[c]
  OBVIOUS
<1>u. /\ res_get[c] = "found" /\ walked' = [walked EXCEPT ![c] = None]
      /\ r \in live
      /\ UNCHANGED <<started, th_list, th_rule_sequence, live, tr_name, tr_nids,
                     tr_rpc_rate, tr_generation, tr_stopping, tc_rule,
                     tc_rpc_rate, tc_rule_sequence, tc_rule_generation, cmd,
                     cmd_rule, quiet>>
  BY DEF rule_match_get, ruleVars, valueVars
<1>1. Listed' = Listed
  BY <1>u DEF Listed
<1>2. started /\ matched[c] = None
  BY <1>u DEF IInv, LookupInv
<1>3. r \in Rules /\ r # None /\ (c \in quiet => r \in Listed)
  BY <1>u, RuleAssumption DEF IInv, TypeOK, QuietInv
<1>4. \A q \in Rules : ListRef(q)' = ListRef(q) /\ CmdRef(q)' = CmdRef(q)
  BY <1>u, <1>1 DEF ListRef, CmdRef
<1>5. ListInv' /\ StoppingInv' /\ CmdInv' /\ StoppedInv'
  BY <1>u, <1>1 DEF IInv, ListInv, StoppingInv, CmdInv, StoppedInv
<1>6. CASE r = tc_rule[c]
  <2>1. ResGetOut(c) /\ UNCHANGED <<tr_ref, matched>>
    BY <1>6 DEF rule_match_get
  <2>2. TypeOK'
    BY <1>u, <2>1 DEF IInv, TypeOK, ResGetOut
  <2>3. Counts'
    BY <1>u, <1>4, <2>1, CountsKept
  <2>4. LookupInv'
    BY <1>u, <1>2, <1>3, <1>6, <2>1 DEF IInv, TypeOK, LookupInv, ResGetOut
  <2>5. QuietInv'
    BY <1>u, <1>1, <1>3, <1>6, <2>1 DEF IInv, TypeOK, QuietInv, ResGetOut
  <2> QED BY <1>5, <2>2, <2>3, <2>4, <2>5 DEF IInv
<1>7. CASE r # tc_rule[c]
  <2>1. /\ Get(r) /\ matched' = [matched EXCEPT ![c] = r]
        /\ res_get' = [res_get EXCEPT ![c] = "reset"]
        /\ UNCHANGED <<scp_req_lock, tc_hashed>>
    BY <1>7 DEF rule_match_get
  <2>2. TypeOK'
    BY <1>u, <1>3, <2>1 DEF IInv, TypeOK, Get
  <2>3. Counts'
    <3>1. ASSUME NEW q \in Rules
          PROVE  ListRef(q)' + Cardinality(Users(q)') + Cardinality(Matchers(q)')
                   + CmdRef(q)'
                 = ListRef(q) + Cardinality(Users(q)) + Cardinality(Matchers(q))
                     + CmdRef(q) + (IF q = r THEN 1 ELSE 0)
      <4>1. Users(q)' = Users(q)
        BY <1>u DEF Users
      <4>2. Cardinality(Matchers(q)') = Cardinality(Matchers(q))
              + (IF q = r THEN 1 ELSE 0) - (IF q = matched[c] THEN 1 ELSE 0)
        <5>1. TypeOK /\ matched'[c] = r /\ matched' = [matched EXCEPT ![c] = matched'[c]]
          BY <2>1 DEF IInv, TypeOK
        <5> QED BY <5>1, MoveMatcher
      <4>3. Cardinality(Matchers(q)') = Cardinality(Matchers(q))
                                          + (IF q = r THEN 1 ELSE 0)
        BY <1>2, <4>2, CountFacts, RuleAssumption
      <4> QED BY <1>4, <4>1, <4>3, CountFacts
    <3> QED BY <1>u, <1>3, <2>1, <3>1, GetCounts
  <2>4. LookupInv'
    BY <1>u, <1>2, <1>3, <2>1 DEF IInv, TypeOK, LookupInv
  <2>5. QuietInv'
    BY <1>u, <1>1, <1>3, <2>1 DEF IInv, TypeOK, QuietInv
  <2> QED BY <1>5, <2>2, <2>3, <2>4, <2>5 DEF IInv
<1> QED BY <1>6, <1>7

LEMMA ResetKeeps ==
  ASSUME IInv, NEW c \in Clis, nrs_tbf_cli_reset(c)
  PROVE  IInv'
<1> PICK old : old = tc_rule[c]
  OBVIOUS
<1> PICK new : new = matched[c]
  OBVIOUS
<1>u. /\ res_get[c] = "reset"
      /\ IF old = None THEN UNCHANGED <<tr_ref, live>> ELSE Put(old, 1)
      /\ tc_rule' = [tc_rule EXCEPT ![c] = new]
      /\ matched' = [matched EXCEPT ![c] = None]
      /\ res_get' = [res_get EXCEPT ![c] = "rate"]
      /\ UNCHANGED <<started, th_list, th_rule_sequence, tr_name, tr_nids,
                     tr_rpc_rate, tr_generation, tr_stopping, tc_hashed,
                     tc_rpc_rate, tc_rule_sequence, tc_rule_generation,
                     walked, scp_req_lock, cmd, cmd_rule, quiet>>
  BY DEF nrs_tbf_cli_reset, ruleVars, valueVars
<1>1. Listed' = Listed
  BY <1>u DEF Listed
<1>2. started /\ new \in Rules /\ new # None
  BY <1>u DEF IInv, LookupInv, TypeOK
<1>3. \A q \in Rules : ListRef(q)' = ListRef(q) /\ CmdRef(q)' = CmdRef(q)
  BY <1>u, <1>1 DEF ListRef, CmdRef
<1>4. ASSUME NEW q \in Rules
      PROVE  ListRef(q)' + Cardinality(Users(q)') + Cardinality(Matchers(q)') + CmdRef(q)'
             = ListRef(q) + Cardinality(Users(q)) + Cardinality(Matchers(q)) + CmdRef(q)
                 - (IF q = old THEN 1 ELSE 0)
  <2>1. Cardinality(Users(q)') = Cardinality(Users(q))
          + (IF q = new THEN 1 ELSE 0) - (IF q = old THEN 1 ELSE 0)
    <3>1. TypeOK /\ tc_rule'[c] = new /\ tc_rule' = [tc_rule EXCEPT ![c] = tc_rule'[c]]
      BY <1>u DEF IInv, TypeOK
    <3> QED BY <3>1, MoveUser
  <2>2. Cardinality(Matchers(q)') = Cardinality(Matchers(q))
          + (IF q = None THEN 1 ELSE 0) - (IF q = new THEN 1 ELSE 0)
    <3>1. TypeOK /\ matched'[c] = None /\ matched' = [matched EXCEPT ![c] = matched'[c]]
      BY <1>u DEF IInv, TypeOK
    <3> QED BY <3>1, MoveMatcher
  <2>3. Cardinality(Matchers(q)') = Cardinality(Matchers(q))
                                      - (IF q = new THEN 1 ELSE 0)
    BY <2>2, CountFacts, RuleAssumption
  <2> QED BY <1>3, <2>1, <2>3, CountFacts
<1>5. Counts' /\ tr_ref' \in [Rules -> Nat] /\ live' \subseteq live
  <2>1. CASE old = None
    <3>1. UNCHANGED <<tr_ref, live>>
      BY <1>u, <2>1
    <3>2. ASSUME NEW q \in Rules
          PROVE  /\ tr_ref'[q] = ListRef(q)' + Cardinality(Users(q)')
                                   + Cardinality(Matchers(q)') + CmdRef(q)'
                 /\ q \in live' <=> tr_ref'[q] > 0
      <4>1. q # old
        BY <2>1, RuleAssumption
      <4> QED BY <1>4, <3>1, <4>1, CountFacts
    <3> QED BY <3>1, <3>2, CountStep DEF IInv, TypeOK
  <2>2. CASE old # None
    <3>1. old \in Rules
      BY <2>2 DEF IInv, TypeOK
    <3>2. old \in live
      BY <3>1, HeldIsLive
    <3>3. Put(old, 1)
      BY <1>u, <2>2
    <3>4. live' \subseteq live
      BY <3>3 DEF Put
    <3> QED BY <1>4, <3>2, <3>3, <3>4, PutCounts
  <2> QED BY <2>1, <2>2
<1>6. TypeOK'
  BY <1>u, <1>2, <1>5 DEF IInv, TypeOK
<1>7. ListInv' /\ StoppingInv' /\ CmdInv' /\ StoppedInv'
  BY <1>u, <1>1, <1>5 DEF IInv, ListInv, StoppingInv, CmdInv, StoppedInv
<1>8. LookupInv'
  BY <1>u, <1>2 DEF IInv, TypeOK, LookupInv
<1>9. QuietInv'
  BY <1>u, <1>1 DEF IInv, TypeOK, QuietInv
<1> QED BY <1>5, <1>6, <1>7, <1>8, <1>9 DEF IInv

LEMMA FiniKeeps ==
  ASSUME IInv, NEW c \in Clis, nrs_tbf_cli_fini(c)
  PROVE  IInv'
<1> PICK old : old = tc_rule[c]
  OBVIOUS
<1>u. /\ started /\ c \in tc_hashed /\ res_get[c] = "out"
      /\ tc_hashed' = tc_hashed \ {c} /\ quiet' = quiet \ {c}
      /\ tc_rule' = [tc_rule EXCEPT ![c] = None]
      /\ Put(old, 1)
      /\ UNCHANGED <<started, th_list, th_rule_sequence, tr_name, tr_nids,
                     tr_rpc_rate, tr_generation, tr_stopping,
                     tc_rpc_rate, tc_rule_sequence, tc_rule_generation,
                     res_get, walked, matched, scp_req_lock, cmd, cmd_rule>>
  BY DEF nrs_tbf_cli_fini, ruleVars, valueVars
<1>1. Listed' = Listed
  BY <1>u DEF Listed
<1>2. old \in Rules /\ old \in live
  <2>1. old \in Rules
    BY <1>u DEF IInv, LookupInv, TypeOK
  <2> QED BY <2>1, HeldIsLive
<1>3. Counts' /\ tr_ref' \in [Rules -> Nat] /\ live' \subseteq live
  <2>1. ASSUME NEW q \in Rules
        PROVE  ListRef(q)' + Cardinality(Users(q)') + Cardinality(Matchers(q)')
                 + CmdRef(q)'
               = ListRef(q) + Cardinality(Users(q)) + Cardinality(Matchers(q))
                   + CmdRef(q) - (IF q = old THEN 1 ELSE 0)
    <3>1. Matchers(q)' = Matchers(q)
      BY <1>u DEF Matchers
    <3>2. ListRef(q)' = ListRef(q) /\ CmdRef(q)' = CmdRef(q)
      BY <1>u, <1>1 DEF ListRef, CmdRef
    <3>3. Cardinality(Users(q)') = Cardinality(Users(q))
            + (IF q = None THEN 1 ELSE 0) - (IF q = old THEN 1 ELSE 0)
      <4>1. TypeOK /\ tc_rule'[c] = None /\ tc_rule' = [tc_rule EXCEPT ![c] = tc_rule'[c]]
        BY <1>u DEF IInv, TypeOK
      <4> QED BY <4>1, MoveUser
    <3>4. Cardinality(Users(q)') = Cardinality(Users(q)) - (IF q = old THEN 1 ELSE 0)
      BY <3>3, CountFacts, RuleAssumption
    <3> QED BY <3>1, <3>2, <3>4, CountFacts
  <2>2. live' \subseteq live
    BY <1>u DEF Put
  <2> QED BY <1>u, <1>2, <2>1, <2>2, PutCounts
<1>4. TypeOK'
  BY <1>u, <1>3 DEF IInv, TypeOK
<1>5. ListInv' /\ StoppingInv' /\ CmdInv' /\ StoppedInv'
  BY <1>u, <1>1, <1>3 DEF IInv, ListInv, StoppingInv, CmdInv, StoppedInv
<1>6. LookupInv'
  BY <1>u DEF IInv, TypeOK, LookupInv
<1>7. QuietInv'
  BY <1>u, <1>1 DEF IInv, TypeOK, QuietInv
<1> QED BY <1>3, <1>4, <1>5, <1>6, <1>7 DEF IInv

\* When the policy stops, every reference is given back.
LEMMA TbfStopKeeps ==
  ASSUME IInv, nrs_tbf_stop
  PROVE  IInv'
<1>u. /\ started /\ cmd = "none" /\ \A c \in Clis : res_get[c] = "out"
      /\ started' = FALSE /\ tc_hashed' = {} /\ th_list' = <<>> /\ quiet' = {}
      /\ tc_rule' = [c \in Clis |-> None]
      /\ UNCHANGED <<th_rule_sequence, tr_name, tr_nids, tr_rpc_rate,
                     tr_generation, tr_stopping, tc_rpc_rate, tc_rule_sequence,
                     tc_rule_generation, res_get, walked, matched, scp_req_lock, cmd,
                     cmd_rule>>
  BY DEF nrs_tbf_stop, ruleVars, valueVars
<1>1. Listed' = {} /\ th_list' \in Seq(Rules) /\ IsInjective(th_list')
  <2>1. DOMAIN th_list' = {}
    BY <1>u
  <2> QED BY <1>u, <2>1 DEF Listed, ToSet, IsInjective
<1>2. cmd_rule = None /\ \A c \in Clis : matched[c] = None
  BY <1>u DEF IInv, CmdInv, LookupInv
<1> DEFINE left(r) == tr_ref[r] - Cardinality({c \in tc_hashed : tc_rule[c] = r})
                        - (IF r \in ToSet(th_list) THEN 1 ELSE 0)
<1>3. tr_ref' = [r \in Rules |-> left(r)] /\ live' = {r \in live : left(r) # 0}
  BY DEF nrs_tbf_stop
<1>4. ASSUME NEW r \in Rules
      PROVE  left(r) = 0
  <2>1. {c \in tc_hashed : tc_rule[c] = r} = Users(r)
    BY <1>u, RuleAssumption DEF IInv, LookupInv, TypeOK, Users
  <2>2. Matchers(r) = {} /\ CmdRef(r) = 0
    BY <1>2, RuleAssumption DEF Matchers, CmdRef
  <2>3. Cardinality(Matchers(r)) = 0
    BY <2>2, FS_EmptySet
  <2>4. ListRef(r) = (IF r \in ToSet(th_list) THEN 1 ELSE 0)
    BY <1>u DEF ListRef, Listed
  <2>5. left(r) = tr_ref[r] - Cardinality(Users(r)) - ListRef(r)
    BY <2>1, <2>4
  <2> HIDE DEF left
  <2>6. /\ tr_ref[r] = ListRef(r) + Cardinality(Users(r))
                          + Cardinality(Matchers(r)) + CmdRef(r)
        /\ ListRef(r) \in 0 .. 1 /\ Cardinality(Users(r)) \in Nat
    BY CountFacts
  <2>7. tr_ref[r] = ListRef(r) + Cardinality(Users(r)) + 0 + 0
    BY <2>2, <2>3, <2>6
  <2> QED BY <2>5, <2>6, <2>7
<1> HIDE DEF left
<1>5. tr_ref' = [r \in Rules |-> 0] /\ live' = {}
  BY <1>3, <1>4 DEF IInv, TypeOK
<1>6. TypeOK'
  BY <1>u, <1>1, <1>5 DEF IInv, TypeOK
<1>7. Counts'
  <2>1. ASSUME NEW r \in Rules
        PROVE  /\ tr_ref'[r] = ListRef(r)' + Cardinality(Users(r)')
                                 + Cardinality(Matchers(r)') + CmdRef(r)'
               /\ r \in live' <=> tr_ref'[r] > 0
    <3>1. Users(r)' = {} /\ Matchers(r)' = {} /\ ListRef(r)' = 0 /\ CmdRef(r)' = 0
      BY <1>u, <1>1, <1>2, RuleAssumption DEF Users, Matchers, ListRef, CmdRef
    <3>2. Cardinality(Users(r)') = 0 /\ Cardinality(Matchers(r)') = 0
      BY <3>1, FS_EmptySet
    <3> QED BY <1>5, <3>1, <3>2
  <2> QED BY <2>1, CountStep
<1>8. ListInv' /\ StoppingInv' /\ CmdInv' /\ StoppedInv'
  BY <1>u, <1>1, <1>5 DEF IInv, ListInv, StoppingInv, CmdInv, StoppedInv
<1>9. LookupInv' /\ QuietInv'
  BY <1>u DEF IInv, LookupInv, QuietInv
<1> QED BY <1>6, <1>7, <1>8, <1>9 DEF IInv

LEMMA StutterKeeps ==
  ASSUME IInv, UNCHANGED vars
  PROVE  IInv'
<1>u. UNCHANGED <<started, th_list, th_rule_sequence, live, tr_name, tr_nids,
                  tr_rpc_rate, tr_generation, tr_stopping, tr_ref, tc_hashed,
                  tc_rule, tc_rpc_rate, tc_rule_sequence, tc_rule_generation,
                  res_get, walked, matched, scp_req_lock, cmd, cmd_rule, quiet>>
  BY DEF vars, ruleVars, valueVars
<1>1. Listed' = Listed
  BY <1>u DEF Listed
<1>2. \A r \in Rules : ListRef(r)' = ListRef(r) /\ CmdRef(r)' = CmdRef(r)
  BY <1>u, <1>1 DEF ListRef, CmdRef
<1>3. TypeOK'
  BY <1>u DEF IInv, TypeOK
<1>4. Counts'
  BY <1>u, <1>2, CountsKept
<1>5. ListInv' /\ StoppingInv' /\ CmdInv' /\ StoppedInv'
  BY <1>u, <1>1 DEF IInv, ListInv, StoppingInv, CmdInv, StoppedInv
<1>6. LookupInv' /\ QuietInv'
  BY <1>u, <1>1 DEF IInv, LookupInv, QuietInv
<1> QED BY <1>3, <1>4, <1>5, <1>6 DEF IInv

-----------------------------------------------------------------------------
\* The invariant is inductive.
LEMMA Inductive == Spec => []IInv
<1>1. IInv /\ [Next]_vars => IInv'
  <2> SUFFICES ASSUME IInv, [Next]_vars PROVE IInv'
    OBVIOUS
  <2>1. CASE Command
    BY <2>1, StartKeeps, SequenceKeeps, ChangeKeeps, GenerationKeeps, StopKeeps,
       UnlinkKeeps, FlagKeeps, StopPutKeeps DEF Command
  <2>2. ASSUME NEW c \in Clis, ResGet(c) \/ nrs_tbf_cli_fini(c)
        PROVE  IInv'
    BY <2>2, LookupMove, WalkKeeps, MatchKeeps, ResetKeeps, FiniKeeps DEF ResGet
  <2> QED BY <2>1, <2>2, TbfStopKeeps, StutterKeeps DEF Next
<1> QED BY InitIInv, <1>1, PTL DEF Spec

\* Whatever commands and lookups overlap, tr_ref counts the holders of a rule,
\* and nrs_tbf_rule_put frees it exactly when the last of them lets go; unless a
\* lookup has counted itself in a rule that was freed under its walk.
THEOREM RefcountsExact == Spec => []RefcountExact
<1>1. IInv => RefcountExact
  BY DEF IInv, Counts, RefcountExact
<1> QED BY <1>1, Inductive, PTL

\* nrs_tbf_rule_stop takes effect: a client whose last lookup overlapped no
\* command is on a rule of the list that is not being stopped.
THEOREM StoppedRulesLeft == Spec => []StopTakesEffect
<1>1. IInv => StopTakesEffect
  BY DEF IInv, QuietInv, ListInv, Listed, StopTakesEffect
<1> QED BY <1>1, Inductive, PTL
==============================================================================
