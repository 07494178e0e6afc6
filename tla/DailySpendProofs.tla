-------------------------- MODULE DailySpendProofs --------------------------
(* What eviction, recording and the passing of time do to the length of the  *)
(* list of spends, and to the number of those that still count.  The bounds  *)
(* of the spending cap rest on it.                                           *)
EXTENDS DailySpend, TLAPS, FiniteSetTheorems, SequenceTheorems

\* evict_old pops no more entries than there are (dip_buy.rs 232-240).
LEMMA ExpiredPrefixRange ==
    ASSUME NEW q \in Seq(SpendAge)
    PROVE  ExpiredPrefix(q) \in 0 .. Len(q)
<1>. DEFINE E == {i \in 1 .. Len(q) : \A j \in 1 .. i : Expired(q[j])}
<1>1. Len(q) \in Nat
  BY LenProperties
<1>2. IsFiniteSet(1 .. Len(q)) /\ Cardinality(1 .. Len(q)) = Len(q)
  BY <1>1, FS_Interval, SMTT(30)
<1>3. IsFiniteSet(E) /\ Cardinality(E) <= Len(q)
  BY <1>2, FS_Subset
<1>4. Cardinality(E) \in Nat
  BY <1>3, FS_CardinalityType
<1>. QED
  BY <1>1, <1>3, <1>4 DEF ExpiredPrefix

\* Eviction leaves a list of spends that is not longer.
LEMMA EvictOldType ==
    ASSUME NEW q \in Seq(SpendAge)
    PROVE  /\ EvictOld(q) \in Seq(SpendAge)
           /\ Len(EvictOld(q)) \in Nat
           /\ Len(EvictOld(q)) <= Len(q)
<1>. DEFINE k == ExpiredPrefix(q)
<1>1. Len(q) \in Nat /\ k \in 0 .. Len(q)
  BY LenProperties, ExpiredPrefixRange
<1>. HIDE DEF k
<1>2. \A i \in k + 1 .. Len(q) : q[i] \in SpendAge
  <2>. SUFFICES ASSUME NEW i \in k + 1 .. Len(q)
                PROVE  q[i] \in SpendAge
    OBVIOUS
  <2>1. i \in 1 .. Len(q)
    BY <1>1
  <2>. QED
    BY <2>1, ElementOfSeq
<1>3. k + 1 \in Int /\ Len(q) \in Int
  BY <1>1
<1>4. /\ SubSeq(q, k + 1, Len(q)) \in Seq(SpendAge)
      /\ Len(SubSeq(q, k + 1, Len(q)))
            = IF k + 1 <= Len(q) THEN Len(q) - (k + 1) + 1 ELSE 0
  BY <1>2, <1>3, SubSeqProperties
<1>5. EvictOld(q) = SubSeq(q, k + 1, Len(q))
  BY DEF EvictOld, k
<1>. QED
  BY <1>1, <1>4, <1>5

\* Recording a spend adds one entry to what eviction left (dip_buy.rs 256-259).
LEMMA RecordEffect ==
    ASSUME spends \in Seq(SpendAge), Record, DailySpendConstants
    PROVE  /\ spends' \in Seq(SpendAge)
           /\ Len(spends') \in Nat
           /\ Len(spends') <= Len(spends) + 1
<1>1. 0 \in SpendAge
  BY DEF SpendAge, DailySpendConstants
<1>2. /\ EvictOld(spends) \in Seq(SpendAge)
      /\ Len(EvictOld(spends)) \in Nat
      /\ Len(EvictOld(spends)) <= Len(spends)
  BY EvictOldType
<1>3. /\ spends' \in Seq(SpendAge)
      /\ Len(spends') = Len(EvictOld(spends)) + 1
  BY <1>1, <1>2, AppendProperties DEF Record
<1>. QED
  BY <1>2, <1>3, LenProperties

\* Time changes the ages of the spends, not their number.
LEMMA OlderEffect ==
    ASSUME spends \in Seq(SpendAge), DailySpendConstants
    PROVE  SpendsOlder \in Seq(SpendAge) /\ Len(SpendsOlder) = Len(spends)
<1>1. Len(spends) \in Nat
  BY LenProperties
<1>2. \A i \in 1 .. Len(spends) : Older(spends[i], DayWindow + 1) \in SpendAge
  <2>. SUFFICES ASSUME NEW i \in 1 .. Len(spends)
                PROVE  Older(spends[i], DayWindow + 1) \in SpendAge
    OBVIOUS
  <2>1. spends[i] \in SpendAge
    BY ElementOfSeq
  <2>. QED
    BY <2>1 DEF Older, SpendAge, DailySpendConstants
<1>3. SpendsOlder \in [1 .. Len(spends) -> SpendAge]
  BY <1>2 DEF SpendsOlder
<1>4. SpendsOlder \in Seq(SpendAge)
  BY <1>1, <1>3, SeqDef
<1>5. /\ Len(SpendsOlder) \in Nat
      /\ 1 .. Len(SpendsOlder) = 1 .. Len(spends)
  BY <1>3, <1>4, LenProperties
<1>6. Len(SpendsOlder) = Len(spends)
  <2>1. \A a, b \in Nat : Cardinality(1 .. a) = a /\ Cardinality(1 .. b) = b
    BY FS_Interval
  <2>. QED
    BY <1>1, <1>5, <2>1
<1>. QED
  BY <1>4, <1>6

-----------------------------------------------------------------------------
(* The spends that count. *)

FreshIn(q) == {i \in 1 .. Len(q) : ~Expired(q[i])}

\* They are finitely many, and no more than there are entries.
LEMMA FreshCount ==
    ASSUME NEW q \in Seq(SpendAge)
    PROVE  /\ IsFiniteSet(FreshIn(q))
           /\ Cardinality(FreshIn(q)) \in Nat
           /\ Cardinality(FreshIn(q)) <= Len(q)
<1>1. Len(q) \in Nat
  BY LenProperties
<1>2. IsFiniteSet(1 .. Len(q)) /\ Cardinality(1 .. Len(q)) = Len(q)
  BY <1>1, FS_Interval, SMTT(30)
<1>3. FreshIn(q) \subseteq 1 .. Len(q)
  BY DEF FreshIn
<1>. QED
  BY <1>2, <1>3, FS_Subset, FS_CardinalityType

\* Whatever entry counts, evict_old pops only entries before it.
LEMMA FreshSurvives ==
    ASSUME NEW q \in Seq(SpendAge), NEW i \in FreshIn(q)
    PROVE  ExpiredPrefix(q) < i
<1>. DEFINE E == {k \in 1 .. Len(q) : \A j \in 1 .. k : Expired(q[j])}
<1>1. Len(q) \in Nat /\ i \in 1 .. Len(q) /\ ~Expired(q[i])
  BY LenProperties DEF FreshIn
<1>2. E \subseteq 1 .. i - 1
  BY <1>1
<1>3. i - 1 \in Nat
  BY <1>1
<1>4. IsFiniteSet(1 .. i - 1) /\ Cardinality(1 .. i - 1) = i - 1
  BY <1>3, FS_Interval
<1>5. Cardinality(E) <= i - 1 /\ Cardinality(E) \in Nat
  BY <1>2, <1>4, FS_Subset, FS_CardinalityType
<1>. QED
  BY <1>1, <1>5 DEF ExpiredPrefix

\* So as many entries count after an eviction as before (dip_buy.rs 232-240).
LEMMA EvictOldKeepsFresh ==
    ASSUME NEW q \in Seq(SpendAge)
    PROVE  Cardinality(FreshIn(q)) <= Cardinality(FreshIn(EvictOld(q)))
<1>. DEFINE k == ExpiredPrefix(q)
            r == EvictOld(q)
            f == [i \in FreshIn(q) |-> i - k]
<1>1. Len(q) \in Nat /\ k \in 0 .. Len(q)
  BY LenProperties, ExpiredPrefixRange
<1>2. \A i \in FreshIn(q) : i \in k + 1 .. Len(q) /\ ~Expired(q[i])
  <2>. SUFFICES ASSUME NEW i \in FreshIn(q)
                PROVE  i \in k + 1 .. Len(q) /\ ~Expired(q[i])
    OBVIOUS
  <2>1. k < i
    BY FreshSurvives
  <2>. QED
    BY <1>1, <2>1 DEF FreshIn
<1>. HIDE DEF k
<1>3. /\ Len(r) = IF k + 1 <= Len(q) THEN Len(q) - (k + 1) + 1 ELSE 0
      /\ \A i \in 1 .. Len(q) - (k + 1) + 1 : r[i] = q[k + 1 + i - 1]
  <2>1. \A i \in k + 1 .. Len(q) : q[i] \in SpendAge
    <3>. SUFFICES ASSUME NEW i \in k + 1 .. Len(q) PROVE q[i] \in SpendAge
      OBVIOUS
    <3>1. i \in 1 .. Len(q)
      BY <1>1
    <3>. QED
      BY <3>1, ElementOfSeq
  <2>2. k + 1 \in Int /\ Len(q) \in Int
    BY <1>1
  <2>3. r = SubSeq(q, k + 1, Len(q))
    BY DEF EvictOld, k
  <2>. QED
    BY <2>1, <2>2, <2>3, SubSeqProperties
<1>. HIDE DEF r
<1>4. \A i \in FreshIn(q) : f[i] \in FreshIn(r)
  <2>. SUFFICES ASSUME NEW i \in FreshIn(q) PROVE i - k \in FreshIn(r)
    OBVIOUS
  <2>1. i \in k + 1 .. Len(q) /\ ~Expired(q[i])
    BY <1>2
  <2>2. /\ i - k \in 1 .. Len(r) /\ i - k \in 1 .. Len(q) - (k + 1) + 1
        /\ k + 1 + (i - k) - 1 = i
    BY <1>1, <1>3, <2>1
  <2>3. r[i - k] = q[i]
    BY <1>3, <2>2
  <2>. QED
    BY <2>1, <2>2, <2>3 DEF FreshIn
<1>5. \A a, b \in FreshIn(q) : f[a] = f[b] => a = b
  BY <1>1, <1>2
<1>6. f \in Injection(FreshIn(q), FreshIn(r))
  <2>. f \in [FreshIn(q) -> FreshIn(r)]
    BY <1>4
  <2>. HIDE DEF f
  <2>. QED
    BY <1>5 DEF Injection, IsInjective
<1>7. IsFiniteSet(FreshIn(r))
  BY EvictOldType, FreshCount DEF r
<1>. QED
  BY <1>6, <1>7, FS_Injection DEF r

\* And recording a spend adds to them (dip_buy.rs 256-259).
LEMMA RecordKeepsFresh ==
    ASSUME spends \in Seq(SpendAge), Record, DailySpendConstants
    PROVE  Cardinality(FreshIn(spends)) <= Cardinality(FreshIn(spends'))
<1>. DEFINE r == EvictOld(spends)
<1>1. r \in Seq(SpendAge) /\ Len(r) \in Nat
  BY EvictOldType
<1>2. 0 \in SpendAge
  BY DEF SpendAge, DailySpendConstants
<1>3. spends' \in Seq(SpendAge) /\ spends' = Append(r, 0)
  BY RecordEffect DEF Record
<1>. HIDE DEF r
<1>4. /\ Len(spends') = Len(r) + 1
      /\ \A i \in 1 .. Len(r) : spends'[i] = r[i]
  BY <1>1, <1>2, <1>3, AppendProperties
<1>5. FreshIn(r) \subseteq FreshIn(spends')
  BY <1>1, <1>4 DEF FreshIn
<1>6. Cardinality(FreshIn(r)) <= Cardinality(FreshIn(spends'))
  BY <1>3, <1>5, FreshCount, FS_Subset
<1>7. /\ Cardinality(FreshIn(spends)) <= Cardinality(FreshIn(r))
      /\ Cardinality(FreshIn(spends)) \in Nat
      /\ Cardinality(FreshIn(r)) \in Nat
      /\ Cardinality(FreshIn(spends')) \in Nat
  BY <1>1, <1>3, EvictOldKeepsFresh, FreshCount DEF r
<1>. QED
  BY <1>6, <1>7

\* With nothing left to spend the check refuses (dip_buy.rs 244-252).
LEMMA NothingLeftRefuses ==
    ASSUME spends \in Seq(SpendAge), DailySpendConstants,
           Cardinality(FreshIn(spends)) >= CapTrades
    PROVE  ~SpendAllowed
<1>. DEFINE r == EvictOld(spends)
<1>1. r \in Seq(SpendAge) /\ Len(r) \in Nat
  BY EvictOldType
<1>2. Cardinality(FreshIn(spends)) \in Nat
  BY FreshCount
<1>3. /\ Cardinality(FreshIn(r)) \in Nat
      /\ Cardinality(FreshIn(r)) <= Len(r)
  BY <1>1, FreshCount
<1>4. Cardinality(FreshIn(spends)) <= Cardinality(FreshIn(r))
  BY EvictOldKeepsFresh
<1>. HIDE DEF r
<1>5. Len(r) + 1 > CapTrades
  BY <1>1, <1>2, <1>3, <1>4 DEF DailySpendConstants
<1>. QED
  BY <1>5 DEF SpendAllowed, Breaches, r
=============================================================================
