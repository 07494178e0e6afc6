---------------------------- MODULE IntakeProofs ----------------------------
(***************************************************************************)
(* Theorems of the intake, for every configuration of the filters, every   *)
(* page size and every token: the count of the trades is that of one       *)
(* moment, and a token that passed the concentration filter is not held    *)
(* by a few.                                                               *)
(*                                                                         *)
(* The invariant follows the walk over the pages: what has been counted,   *)
(* and where the next page begins; and the accounts that were listed: what *)
(* is still counted of them, as they were then.  For the concentration, a  *)
(* sum of amounts is the number of units in the accounts, and an injection *)
(* of accounts into larger ones is one of their units.                     *)
(***************************************************************************)
EXTENDS Intake, TLAPS, FiniteSetTheorems, FunctionTheorems, SequenceTheorems

-----------------------------------------------------------------------------
(* The invariant. *)

\* Nothing is counted before the first page, and a verdict ends the task.
Uncounted ==
    /\ step \in {"none", "holders"} \cup Lookups => count = 0 /\ before = 0
    /\ step # "rejected" => verdict = "none"

\* Between two pages whole pages have been counted, and the next one begins below
\* the last signature of them.
Walk ==
    step = "txs" =>
        /\ \E k \in 0 .. MaxPages - 1 : count = k * PageSize
        /\ count = 0 => before = 0
        /\ count > 0 => /\ count <= snapshot /\ snapshot <= sigs
                        /\ before = snapshot - count + 1

\* No owner is known before the accounts are read.
Unowned == step \in {"none", "holders", "txs", "top"} \cup Lookups => owned = {}

\* Until the supply is read, every wallet that was listed and parsed is still counted,
\* with what it had when it was listed.
Listing ==
    step \in {"accounts", "owners", "supply"} =>
        \E list \in Largest(Listed, held) :
            /\ garbled \subseteq list
            /\ DOMAIN entries \subseteq list \ garbled
            /\ Wallets \cap (list \ garbled) \subseteq DOMAIN entries
            /\ \A a \in DOMAIN entries : entries[a] = held[a]

IntInv ==
    /\ IntakeTypeOK
    /\ Uncounted /\ Walk /\ Unowned /\ Listing
    /\ TxCountIsSnapshot /\ WhalesAreCounted

-----------------------------------------------------------------------------
(* The filters that are on. *)

\* The least of two integers, as a comparison.
LEMMA SmallerOfTwo ==
    ASSUME NEW a \in Int, NEW b \in Int
    PROVE  Min({a, b}) = IF a <= b THEN a ELSE b
<1>1. \E x \in {a, b} : \A y \in {a, b} : x <= y
  OBVIOUS
<1>2. Min({a, b}) \in {a, b} /\ \A y \in {a, b} : Min({a, b}) <= y
  BY <1>1 DEF Min
<1>. QED
  BY <1>2

\* Where a task goes after the name, the holders and the transactions: to a filter
\* that is on, and past one only if it is off (session.rs 663-724).
LEMMA NextFilter ==
    /\ AfterName \in {"program", "txs", "top", "passed"}
    /\ AfterHolders \in {"txs", "top", "passed"}
    /\ AfterTxs \in {"top", "passed"}
    /\ settings.enabled /\ Wanted.txs =>
           AfterName \in {"program", "txs"} /\ AfterHolders = "txs"
    /\ settings.enabled /\ Wanted.top =>
           AfterName # "passed" /\ AfterHolders # "passed" /\ AfterTxs # "passed"
<1>. DEFINE on(order) == {i \in DOMAIN order : Wanted[order[i]]}
<1>1. ASSUME NEW order, NEW n \in 1 .. 3, DOMAIN order = 1 .. n, on(order) # {}
      PROVE  Min(on(order)) \in on(order) /\ \A i \in on(order) : Min(on(order)) <= i
  <2>1. \E x \in on(order) : \A y \in on(order) : x <= y
    <3>1. on(order) \subseteq 1 .. 3
      BY <1>1
    <3>. HIDE DEF on
    <3>2. CASE 1 \in on(order)
      BY <3>1, <3>2
    <3>3. CASE 1 \notin on(order) /\ 2 \in on(order)
      BY <3>1, <3>3
    <3>4. CASE 1 \notin on(order) /\ 2 \notin on(order)
      <4>1. PICK x \in on(order) : TRUE
        BY <1>1
      <4>2. \A y \in on(order) : y = 3
        BY <3>1, <3>4
      <4>. QED
        BY <4>1, <4>2
    <3>. QED
      BY <3>2, <3>3, <3>4
  <2>. QED
    BY <2>1 DEF Min
<1>2. /\ AfterName \in {"program", "txs", "top", "passed"}
      /\ settings.enabled /\ Wanted.txs => AfterName \in {"program", "txs"}
      /\ settings.enabled /\ Wanted.top => AfterName # "passed"
  <2>. DEFINE order == <<"program", "txs", "top">>
  <2>1. DOMAIN order = 1 .. 3 /\ order[1] = "program" /\ order[2] = "txs" /\ order[3] = "top"
    OBVIOUS
  <2>2. on(order) # {} => Min(on(order)) \in on(order) /\ \A i \in on(order) : Min(on(order)) <= i
    BY <1>1, <2>1
  <2>3. /\ on(order) \subseteq 1 .. 3
        /\ Wanted.txs => 2 \in on(order)
        /\ Wanted.top => 3 \in on(order)
    BY <2>1
  <2>4. AfterName = IF settings.enabled /\ on(order) # {} THEN order[Min(on(order))] ELSE "passed"
    BY DEF AfterName, FirstOf
  <2>. HIDE DEF on, order
  <2>. QED
    BY <2>1, <2>2, <2>3, <2>4
<1>3. /\ AfterHolders \in {"txs", "top", "passed"}
      /\ settings.enabled /\ Wanted.txs => AfterHolders = "txs"
      /\ settings.enabled /\ Wanted.top => AfterHolders # "passed"
  <2>. DEFINE order == <<"txs", "top">>
  <2>1. DOMAIN order = 1 .. 2 /\ order[1] = "txs" /\ order[2] = "top"
    OBVIOUS
  <2>2. on(order) # {} => Min(on(order)) \in on(order) /\ \A i \in on(order) : Min(on(order)) <= i
    BY <1>1, <2>1
  <2>3. /\ on(order) \subseteq 1 .. 2
        /\ Wanted.txs => 1 \in on(order)
        /\ Wanted.top => 2 \in on(order)
    BY <2>1
  <2>4. AfterHolders = IF settings.enabled /\ on(order) # {} THEN order[Min(on(order))] ELSE "passed"
    BY DEF AfterHolders, FirstOf
  <2>. HIDE DEF on, order
  <2>. QED
    BY <2>1, <2>2, <2>3, <2>4
<1>4. /\ AfterTxs \in {"top", "passed"}
      /\ settings.enabled /\ Wanted.top => AfterTxs # "passed"
  <2>. DEFINE order == <<"top">>
  <2>1. DOMAIN order = 1 .. 1 /\ order[1] = "top"
    OBVIOUS
  <2>2. on(order) # {} => Min(on(order)) \in on(order) /\ \A i \in on(order) : Min(on(order)) <= i
    BY <1>1, <2>1
  <2>3. /\ on(order) \subseteq 1 .. 1
        /\ Wanted.top => 1 \in on(order)
    BY <2>1
  <2>4. AfterTxs = IF settings.enabled /\ on(order) # {} THEN order[Min(on(order))] ELSE "passed"
    BY DEF AfterTxs, FirstOf
  <2>. HIDE DEF on, order
  <2>. QED
    BY <2>1, <2>2, <2>3, <2>4
<1>. QED
  BY <1>2, <1>3, <1>4

-----------------------------------------------------------------------------
(* The pages. *)

\* Differences of positions in the listing stay within it.
LEMMA Differences ==
    /\ \A a, b \in Nat : b <= a => a - b \in Nat
    /\ \A a, b, m \in Nat : b <= a /\ a <= m /\ b > 0 => a - b + 1 \in 0 .. m
OBVIOUS

\* The full pages read so far are within the budget, and one more is too.
LEMMA Pages ==
    ASSUME NEW k \in 0 .. MaxPages - 1
    PROVE  /\ k * PageSize \in Nat /\ PageSize * MaxPages \in Nat
           /\ (k + 1) * PageSize = k * PageSize + PageSize
           /\ k * PageSize + PageSize <= PageSize * MaxPages
           /\ MaxPages * PageSize = PageSize * MaxPages
           /\ k * PageSize + PageSize # PageSize * MaxPages => k + 1 \in 0 .. MaxPages - 1
<1>1. k \in Nat /\ MaxPages \in Nat /\ PageSize \in Nat /\ k + 1 <= MaxPages
  BY FiltersConstants
<1>2. PICK d \in Nat : MaxPages = k + 1 + d
  <2>1. MaxPages - k - 1 \in Nat /\ MaxPages = k + 1 + (MaxPages - k - 1)
    BY <1>1
  <2>. QED
    BY <2>1
<1>3. /\ k * PageSize \in Nat /\ d * PageSize \in Nat
      /\ (k + 1) * PageSize = k * PageSize + PageSize
  BY <1>1, <1>2
<1>4. PageSize * MaxPages = k * PageSize + PageSize + d * PageSize
  BY <1>1, <1>2
<1>5. MaxPages * PageSize = PageSize * MaxPages
  BY <1>1
<1>6. ASSUME k * PageSize + PageSize # PageSize * MaxPages PROVE k + 1 \in 0 .. MaxPages - 1
  <2>1. d # 0
    BY <1>1, <1>3, <1>4, <1>6
  <2>. QED
    BY <1>1, <1>2, <2>1
<1>. QED
  BY <1>1, <1>3, <1>4, <1>5, <1>6

\* One page: it begins below what has been counted, of the signatures there were when
\* the first was read.
LEMMA OnePage ==
    ASSUME IntInv, PageRead
    PROVE  LET last == PageLength < PageSize \/ count' = MaxPages * PageSize
           IN  /\ PageLength \in 0 .. PageSize /\ Newest \in Nat
               /\ snapshot' \in 0 .. MaxSigs /\ snapshot' <= sigs
               /\ count' \in 0 .. PageSize * MaxPages /\ count' <= snapshot'
               /\ last => count' = Min({snapshot', PageSize * MaxPages})
               /\ ~last => /\ \E k \in 0 .. MaxPages - 1 : count' = k * PageSize
                           /\ count' > 0
                           /\ NextBefore = snapshot' - count' + 1
                           /\ NextBefore \in 0 .. MaxSigs
<1>. DEFINE cap == PageSize * MaxPages
<1>1. PICK k \in 0 .. MaxPages - 1 : count = k * PageSize
  BY DEF IntInv, PageRead, Walk
<1>2. /\ cap \in Nat /\ count \in Nat /\ count + PageSize <= cap
      /\ MaxPages * PageSize = cap
      /\ count + PageSize # cap =>
             \E j \in 0 .. MaxPages - 1 : count + PageSize = j * PageSize
  <2>1. count + PageSize # cap => k + 1 \in 0 .. MaxPages - 1 /\ count + PageSize = (k + 1) * PageSize
    BY <1>1, Pages
  <2>. QED
    BY <1>1, <2>1, Pages
<1>. HIDE DEF cap
<1>3. PageSize \in Nat /\ PageSize > 0 /\ MaxSigs \in Nat
  BY FiltersConstants
<1>4. /\ count' = count + PageLength
      /\ snapshot' = IF count = 0 THEN sigs ELSE snapshot
  BY DEF PageRead
<1>5. /\ snapshot' \in Nat /\ snapshot' <= MaxSigs /\ snapshot' <= sigs
      /\ Newest = snapshot' - count /\ count <= snapshot'
  <2>1. sigs \in Nat /\ sigs <= MaxSigs /\ snapshot \in Nat /\ snapshot <= MaxSigs
    BY <1>3 DEF IntInv, IntakeTypeOK, FiltersTypeOK
  <2>2. /\ count = 0 => before = 0
        /\ count > 0 => count <= snapshot /\ snapshot <= sigs /\ before = snapshot - count + 1
    BY DEF IntInv, PageRead, Walk
  <2>. QED
    BY <1>2, <1>4, <2>1, <2>2 DEF Newest
<1>6. Newest \in Nat
  <2>1. snapshot' \in Nat /\ count \in Nat /\ count <= snapshot'
    BY <1>2, <1>5
  <2>2. snapshot' - count \in Nat
    BY <2>1, Differences
  <2>. QED
    BY <1>5, <2>2
<1>7. PageLength = IF Newest < PageSize THEN Newest ELSE PageSize
  BY DEF PageLength
<1>8. PageLength \in 0 .. PageSize
  BY <1>3, <1>6, <1>7
<1>9. count' \in 0 .. cap /\ count' <= snapshot'
  BY <1>2, <1>3, <1>4, <1>5, <1>6, <1>7
<1>10. ASSUME PageLength < PageSize \/ count' = cap
       PROVE  count' = Min({snapshot', cap})
  <2>1. CASE PageLength < PageSize
    BY <1>2, <1>3, <1>4, <1>5, <1>6, <1>7, <1>9, <2>1, SmallerOfTwo
  <2>2. CASE count' = cap
    BY <1>2, <1>5, <1>9, <2>2, SmallerOfTwo
  <2>. QED
    BY <1>10, <2>1, <2>2
<1>11. ASSUME ~(PageLength < PageSize), count' # cap
       PROVE  /\ \E j \in 0 .. MaxPages - 1 : count' = j * PageSize
              /\ count' > 0
              /\ NextBefore = snapshot' - count' + 1
              /\ NextBefore \in 0 .. MaxSigs
  <2>1. PageLength = PageSize
    BY <1>3, <1>6, <1>7, <1>11
  <2>2. \E j \in 0 .. MaxPages - 1 : count' = j * PageSize
    BY <1>2, <1>4, <1>11, <2>1
  <2>3. NextBefore = snapshot' - count' + 1 /\ count' > 0
    BY <1>2, <1>3, <1>4, <1>5, <2>1 DEF NextBefore
  <2>4. count' \in Nat /\ snapshot' \in Nat /\ count' <= snapshot' /\ snapshot' <= MaxSigs
    BY <1>2, <1>5, <1>9
  <2>5. snapshot' - count' + 1 \in 0 .. MaxSigs
    BY <1>3, <2>3, <2>4, Differences
  <2>. QED
    BY <2>2, <2>3, <2>5
<1>12. snapshot' \in 0 .. MaxSigs
  BY <1>3, <1>5
<1>. QED
  BY <1>2, <1>5, <1>6, <1>8, <1>9, <1>10, <1>11, <1>12 DEF cap

-----------------------------------------------------------------------------
(* Sums of amounts. *)

\* The units of some accounts, one by one.
LEMMA Unit ==
    ASSUME NEW amount, NEW S, NEW x
    PROVE  x \in Units(amount, S) <=> \E a \in S : \E u \in 1 .. amount[a] : x = <<a, u>>
BY DEF Units

\* The units of some accounts are told by the amounts of these alone.
LEMMA SameUnits ==
    ASSUME NEW amount, NEW other, NEW S, \A a \in S : amount[a] = other[a]
    PROVE  Total(amount, S) = Total(other, S)
<1>1. \A a \in S : {a} \X (1 .. amount[a]) = {a} \X (1 .. other[a])
  OBVIOUS
<1>2. Units(amount, S) = Units(other, S)
  BY <1>1, Zenon DEF Units
<1>. QED
  BY <1>2 DEF Total

\* Finitely many accounts hold finitely many units.
LEMMA UnitsAreFinite ==
    ASSUME NEW amount, NEW S, IsFiniteSet(S), \A a \in S : amount[a] \in Nat
    PROVE  IsFiniteSet(Units(amount, S)) /\ Total(amount, S) \in Nat
<1>. DEFINE F == [a \in S |-> {a} \X (1 .. amount[a])]
            R == {{a} \X (1 .. amount[a]) : a \in S}
<1>1. F \in Surjection(S, R)
  BY Fun_IsSurj
<1>2. IsFiniteSet(R)
  BY <1>1, FS_Surjection
<1>3. \A T \in R : IsFiniteSet(T)
  <2>. SUFFICES ASSUME NEW a \in S PROVE IsFiniteSet({a} \X (1 .. amount[a]))
    OBVIOUS
  <2>1. IsFiniteSet({a})
    BY FS_Singleton
  <2>2. IsFiniteSet(1 .. amount[a])
    BY FS_Interval
  <2>. QED
    BY <2>1, <2>2, FS_Product
<1>4. Units(amount, S) = UNION R
  BY DEF Units
<1>. QED
  BY <1>2, <1>3, <1>4, FS_UNION, FS_CardinalityType DEF Total

\* A finite set has an injection into one that is not smaller.
LEMMA IntoLarger ==
    ASSUME NEW S, NEW T, IsFiniteSet(S), IsFiniteSet(T), Cardinality(S) <= Cardinality(T)
    PROVE  \E g : g \in Injection(S, T)
<1>. DEFINE m == Cardinality(S)
            n == Cardinality(T)
<1>1. m \in Nat /\ n \in Nat /\ ExistsBijection(1 .. m, S) /\ ExistsBijection(1 .. n, T)
  BY FS_CardinalityType
<1>2. ExistsInjection(S, 1 .. m) /\ ExistsInjection(1 .. n, T)
  BY <1>1, Fun_ExistsBijEquiv
<1>3. ExistsInjection(1 .. m, 1 .. n)
  BY <1>1, Fun_NatInjLeq
<1>4. ExistsInjection(S, 1 .. n)
  BY <1>2, <1>3, Fun_ExistsInjTransitive
<1>5. ExistsInjection(S, T)
  BY <1>2, <1>4, Fun_ExistsInjTransitive
<1>. QED
  BY <1>5 DEF ExistsInjection

\* No fewer accounts, and none that is smaller than one it stands in for, hold no less.
LEMMA MoreUnits ==
    ASSUME NEW amount, NEW S, NEW T,
           IsFiniteSet(S), IsFiniteSet(T), Cardinality(S) <= Cardinality(T),
           \A a \in S \cup T : amount[a] \in Nat,
           \A a \in S \ T, b \in T : amount[a] <= amount[b]
    PROVE  Total(amount, S) <= Total(amount, T)
<1>1. PICK g : g \in Injection(S \ T, T \ S)
  <2>1. /\ IsFiniteSet(S \ T) /\ IsFiniteSet(T \ S)
        /\ Cardinality(S \ T) = Cardinality(S) - Cardinality(S \cap T)
        /\ Cardinality(T \ S) = Cardinality(T) - Cardinality(T \cap S)
    BY FS_Difference
  <2>2. Cardinality(T \cap S) = Cardinality(S \cap T)
    <3>1. T \cap S = S \cap T
      OBVIOUS
    <3>. QED
      BY <3>1
  <2>3. IsFiniteSet(S \cap T)
    BY FS_Intersection
  <2>4. Cardinality(S) \in Nat /\ Cardinality(T) \in Nat /\ Cardinality(S \cap T) \in Nat
    BY <2>3, FS_CardinalityType
  <2>5. \A i, m, n \in Nat : m <= n => m - i <= n - i
    OBVIOUS
  <2>6. Cardinality(S \ T) <= Cardinality(T \ S)
    BY <2>1, <2>2, <2>4, <2>5
  <2>. QED
    BY <2>1, <2>6, IntoLarger
<1>2. g \in [S \ T -> T \ S] /\ \A a, b \in S \ T : g[a] = g[b] => a = b
  BY <1>1, Fun_InjectionProperties
<1>. DEFINE f == [a \in S |-> IF a \in T THEN a ELSE g[a]]
<1>3. /\ \A a \in S : f[a] \in T /\ amount[a] <= amount[f[a]]
      /\ \A a, b \in S : f[a] = f[b] => a = b
  BY <1>2
<1>. HIDE DEF f
<1>. DEFINE h == [x \in Units(amount, S) |-> <<f[x[1]], x[2]>>]
<1>4. \A x \in Units(amount, S) : /\ x[1] \in S /\ x[2] \in 1 .. amount[x[1]]
                          /\ x = <<x[1], x[2]>>
  BY Unit
<1>5. h \in [Units(amount, S) -> Units(amount, T)]
  <2>. SUFFICES ASSUME NEW x \in Units(amount, S) PROVE <<f[x[1]], x[2]>> \in Units(amount, T)
    OBVIOUS
  <2>1. f[x[1]] \in T /\ x[2] \in 1 .. amount[f[x[1]]]
    BY <1>3, <1>4
  <2>. QED
    BY <2>1, Unit
<1>6. \A x, y \in Units(amount, S) : h[x] = h[y] => x = y
  BY <1>3, <1>4
<1>. HIDE DEF h
<1>7. h \in Injection(Units(amount, S), Units(amount, T))
  BY <1>5, <1>6, Fun_IsInj
<1>. QED
  BY <1>7, UnitsAreFinite, FS_Injection DEF Total

-----------------------------------------------------------------------------
(* The types, the walk and the count. *)

\* Every step keeps the types of the listener.
LEMMA StepListener ==
    ASSUME IntInv, Next
    PROVE  ListenerTypeOK'
<1>. USE ListenerConstants DEF IntInv, IntakeTypeOK, ListenerTypeOK
<1>1. CASE Listens
  <2>1. CASE ConnectionEnds
    BY <2>1 DEF ConnectionEnds
  <2>2. CASE Connects \/ Subscribes
    BY <2>2 DEF Connects, Subscribes
  <2>3. CASE Frame
    BY <2>3, AppendProperties DEF Frame
  <2>. QED
    BY <1>1, <2>1, <2>2, <2>3 DEF Listens, ListenerStep
<1>2. CASE Spawns
  BY <1>2, HeadTailProperties DEF Spawns
<1>3. CASE Filters \/ Chain
  BY <1>3 DEF Filters, Chain, listenerVars
<1>4. CASE Tick
  BY <1>4 DEF Tick, ListenerTick, PauseOlder
<1>. QED
  BY <1>1, <1>2, <1>3, <1>4 DEF Next

\* A look-up or a filter rejects the token, tries again, or goes on to what is next.
Rejects ==
    /\ step \in {"program"} \cup Calls /\ step' = "rejected"
    /\ verdict' \in {"error", "invisible", "holders", "top"}
    /\ verdict' = "top" => step = "supply"
    /\ UNCHANGED <<tries, asleep>>

Retries ==
    /\ step \in Lookups
    /\ tries + 1 < LookupAttempts /\ tries' = tries + 1 /\ asleep' = TRUE
    /\ UNCHANGED <<step, verdict>>

GoesOn ==
    /\ tries' = 0 /\ asleep' = FALSE /\ UNCHANGED verdict
    /\ \/ step = "metaplex" /\ step' = "token22"
       \/ step \in {"metaplex", "token22"} /\ step' = AfterName
       \/ step = "program" /\ step' = "holders"
       \/ step = "holders" /\ step' = AfterHolders
       \/ step = "top" /\ step' = "accounts"
       \/ step = "accounts" /\ step' \in {"owners", "supply"}
       \/ step = "owners" /\ step' = "supply"
       \/ step = "supply" /\ step' = "passed"

\* The calls of the concentration filter.
TopRead == LargestRead \/ AccountsRead \/ OwnersRead \/ SupplyRead

\* A lookup or a read leaves the count and the chain alone; the task is rejected, tries again
\* or goes on to its next filter.
LEMMA Outcomes ==
    ASSUME LookupSucceeds \/ LookupErrs \/ LookupMisses \/ ReadErrs \/ HoldersRead \/ TopRead
    PROVE  /\ UNCHANGED <<settings, countVars, chainVars>>
           /\ Rejects \/ Retries \/ GoesOn
<1>. USE DEF Goto, Reject, Lookups, LookingUp, LookupFails
<1>1. CASE LookupSucceeds
  BY <1>1 DEF LookupSucceeds, GoesOn
<1>2. CASE LookupErrs
  BY <1>2 DEF LookupErrs, GoesOn, Rejects
<1>3. CASE LookupMisses
  BY <1>3 DEF LookupMisses, GoesOn, Rejects, Retries
<1>4. CASE ReadErrs
  BY <1>4 DEF ReadErrs, Rejects, Calls
<1>5. CASE HoldersRead
  BY <1>5 DEF HoldersRead, Rejects, GoesOn, Calls
<1>6. CASE TopRead
  BY <1>6 DEF TopRead, LargestRead, AccountsRead, OwnersRead, SupplyRead, Rejects, GoesOn, Calls
<1>. QED
  BY <1>1, <1>2, <1>3, <1>4, <1>5, <1>6

\* What such a step does to the task; the pages are not passed over.
LEMMA Moves ==
    ASSUME IntInv, UNCHANGED <<settings, countVars, chainVars>>, Rejects \/ Retries \/ GoesOn
    PROVE  /\ step' \in Reads \cup {"passed", "rejected"}
           /\ tries' \in 0 .. LookupAttempts - 1 /\ asleep' \in BOOLEAN
           /\ verdict' \in {"none", "error", "invisible", "holders", "txs", "top"}
           /\ step' # "rejected" => verdict' = "none"
           /\ step' = "txs" => step \in Lookups \cup {"holders"}
           /\ step' \in {"none", "holders"} \cup Lookups => step \in Lookups
           /\ JudgedByTxs' => JudgedByTxs
<1>. USE NextFilter, FiltersConstants DEF Lookups, Reads, Calls, AfterTheTxs
<1>1. /\ step \in Reads \cup {"none", "passed", "rejected"}
      /\ tries \in 0 .. LookupAttempts - 1 /\ asleep \in BOOLEAN
      /\ step # "rejected" => verdict = "none"
  BY DEF IntInv, IntakeTypeOK, FiltersTypeOK, Uncounted
<1>2. Wanted' = Wanted /\ settings' = settings
  BY DEF Wanted
<1>3. CASE Rejects
  BY <1>1, <1>2, <1>3 DEF Rejects, JudgedByTxs
<1>4. CASE Retries
  BY <1>1, <1>2, <1>4 DEF Retries, JudgedByTxs
<1>5. CASE GoesOn
  <2>1. /\ tries' = 0 /\ asleep' = FALSE /\ verdict' = "none"
        /\ step' # "rejected"
        /\ step' \in {"token22", "holders", AfterName, AfterHolders, "accounts", "owners",
                       "supply", "passed"}
    BY <1>1, <1>5 DEF GoesOn
  <2>2. step' \in Reads \cup {"passed"}
    BY <2>1
  <2>3. step' = "txs" => step \in Lookups \cup {"holders"}
    BY <1>5 DEF GoesOn
  <2>4. step' \in {"none", "holders"} \cup Lookups => step \in Lookups
    BY <1>5 DEF GoesOn
  <2>5. JudgedByTxs' => JudgedByTxs
    <3>. SUFFICES ASSUME JudgedByTxs' PROVE JudgedByTxs
      OBVIOUS
    <3>1. settings.enabled /\ Wanted.txs /\ step' \in AfterTheTxs
      BY <1>2, <2>1 DEF JudgedByTxs
    <3>2. step \in AfterTheTxs
      BY <1>5, <3>1 DEF GoesOn
    <3>. QED
      BY <3>1, <3>2 DEF JudgedByTxs
  <2>6. 0 \in 0 .. LookupAttempts - 1 /\ FALSE \in BOOLEAN
    OBVIOUS
  <2>. QED
    BY <2>1, <2>2, <2>3, <2>4, <2>5, <2>6
<1>. QED
  BY <1>3, <1>4, <1>5

\* A task begins, or the chain and time go on.
Begins ==
    /\ step = "none" /\ step' \in {"metaplex", AfterName}
    /\ tries' = 0 /\ asleep' = FALSE
    /\ UNCHANGED <<settings, verdict, countVars, chainVars>>

Around ==
    /\ sigs' \in 0 .. MaxSigs /\ sigs <= sigs' /\ visible' \in SUBSET {"mint", "metadata"}
    /\ asleep' \in BOOLEAN
    /\ holding' \in Balances
    /\ UNCHANGED <<settings, step, tries, countVars, verdict, owner>>

\* A step begins a task, moves the world around it, decides or retries a filter, or reads a page.
LEMMA Kinds ==
    ASSUME IntInv, Next
    PROVE  \/ Begins
           \/ Around
           \/ UNCHANGED <<settings, countVars, chainVars>> /\ (Rejects \/ Retries \/ GoesOn)
           \/ PageRead
<1>1. /\ sigs \in Nat /\ sigs <= MaxSigs /\ MaxSigs \in Nat
      /\ visible \in SUBSET {"mint", "metadata"} /\ asleep \in BOOLEAN
      /\ holding \in Balances
  BY FiltersConstants DEF IntInv, IntakeTypeOK, FiltersTypeOK
<1>2. UNCHANGED filterVars => Around
  BY <1>1 DEF filterVars, countVars, chainVars, Around
<1>3. CASE Listens
  BY <1>2, <1>3 DEF Listens
<1>4. CASE Spawns
  <2>1. CASE UNCHANGED filterVars
    BY <1>2, <2>1
  <2>2. CASE Begin(Head(events))
    BY <2>2 DEF Begin, Goto, Begins
  <2>. QED
    BY <1>4, <2>1, <2>2 DEF Spawns
<1>5. CASE Filters
  BY <1>5, Outcomes DEF Filters, FilterStep, TopRead
<1>6. CASE Chain
  <2>1. CASE Traded
    BY <1>1, <2>1 DEF Traded, Around
  <2>2. CASE Moved
    BY <1>1, <2>2 DEF Moved, Around
  <2>3. CASE Appears
    BY <1>1, <2>3 DEF Appears, Around
  <2>. QED
    BY <1>6, <2>1, <2>2, <2>3 DEF Chain
<1>7. CASE Tick
  <2>1. asleep' = FALSE /\ UNCHANGED <<settings, step, tries, countVars, verdict, visible, sigs,
                                     holding, owner>>
    BY <1>7 DEF Tick, FiltersTick, chainVars
  <2>2. asleep' \in BOOLEAN
    BY <2>1
  <2>3. /\ sigs' \in 0 .. MaxSigs /\ sigs <= sigs' /\ visible' \in SUBSET {"mint", "metadata"}
        /\ holding' \in Balances
    BY <1>1, <2>1
  <2>. QED
    BY <2>1, <2>2, <2>3 DEF Around
<1>. QED
  BY <1>3, <1>4, <1>5, <1>6, <1>7 DEF Next

\* Without the concentration filter's calls its lists stay as they are, and none of
\* its later steps is reached; a token that is to be judged by it does not pass.
LEMMA Elsewhere ==
    ASSUME IntInv, Next, ~TopRead
    PROVE  /\ UNCHANGED <<topVars, owner>>
           /\ step' \in {"accounts", "owners", "supply"} => step' = step
           /\ settings.enabled /\ Wanted.top /\ step' = "passed" => step = "passed"
<1>. USE NextFilter DEF Goto, Reject, chainVars
<1>1. CASE Listens
  BY <1>1 DEF Listens, filterVars
<1>2. CASE Spawns
  BY <1>2 DEF Spawns, Begin, filterVars
<1>3. CASE Filters
  <2>1. CASE LookupSucceeds \/ LookupErrs \/ LookupMisses
    BY <2>1 DEF LookupSucceeds, LookupErrs, LookupMisses, LookupFails
  <2>2. CASE ReadErrs \/ HoldersRead
    BY <2>2 DEF ReadErrs, HoldersRead
  <2>3. CASE PageRead
    BY <2>3 DEF PageRead, Judge
  <2>. QED
    BY <1>3, <2>1, <2>2, <2>3 DEF Filters, FilterStep, TopRead
<1>4. CASE Chain
  BY <1>4 DEF Chain, Traded, Moved, Appears
<1>5. CASE Tick
  BY <1>5 DEF Tick, FiltersTick
<1>. QED
  BY <1>1, <1>2, <1>3, <1>4, <1>5 DEF Next

\* The lists of the concentration filter keep their types.
LEMMA TopTypes ==
    ASSUME IntInv, Next
    PROVE  /\ DOMAIN entries' \subseteq TokenAccount /\ entries' \in [DOMAIN entries' -> Nat]
           /\ owned' \subseteq DOMAIN entries'
           /\ held' \in [TokenAccount -> Nat] /\ garbled' \subseteq TokenAccount
           /\ supply' \in Nat
<1>1. /\ DOMAIN entries \subseteq TokenAccount /\ entries \in [DOMAIN entries -> Nat]
      /\ owned \subseteq DOMAIN entries
      /\ held \in [TokenAccount -> Nat] /\ garbled \subseteq TokenAccount /\ supply \in Nat
      /\ holding \in [TokenAccount -> Nat] /\ IsFiniteSet(TokenAccount)
  BY FiltersConstants DEF IntInv, IntakeTypeOK, FiltersTypeOK
<1>2. CASE ~TopRead
  <2>1. UNCHANGED <<entries, owned, held, garbled, supply>>
    BY <1>2, Elsewhere DEF topVars
  <2>. QED
    BY <1>1, <2>1
<1>3. CASE LargestRead
  <2>1. PICK list \in Largest(Listed, holding) :
            \E bad \in SUBSET list \ {list} :
                entries' = [a \in list \ bad |-> holding[a]] /\ garbled' = bad
    BY <1>3 DEF LargestRead
  <2>2. PICK bad \in SUBSET list \ {list} :
            entries' = [a \in list \ bad |-> holding[a]] /\ garbled' = bad
    BY <2>1
  <2>3. list \subseteq TokenAccount
    BY <1>1, <2>1 DEF Largest
  <2>4. UNCHANGED <<owned, supply>> /\ held' = holding
    BY <1>3 DEF LargestRead
  <2>5. owned' = {}
    BY <1>3, <2>4 DEF LargestRead, IntInv, Unowned
  <2>. QED
    BY <1>1, <2>2, <2>3, <2>4, <2>5
<1>4. CASE AccountsRead
  <2>1. PICK read \in SUBSET DOMAIN entries :
            /\ entries' = NotTheCurves(read)
            /\ owned' = {a \in read : owner[a] # "bonding"}
    BY <1>4 DEF AccountsRead
  <2>2. UNCHANGED <<held, garbled, supply>>
    BY <1>4 DEF AccountsRead
  <2>. QED
    BY <1>1, <2>1, <2>2 DEF NotTheCurves, Without
<1>5. CASE OwnersRead
  <2>1. UNCHANGED <<held, garbled, supply>> /\ owned' = {}
    BY <1>5 DEF OwnersRead
  <2>2. PICK found \in SUBSET owned : entries' = Without({a \in found : owner[a] = "pool"})
    BY <1>5 DEF OwnersRead
  <2>. QED
    BY <1>1, <2>1, <2>2 DEF Without
<1>6. CASE SupplyRead
  <2>1. UNCHANGED <<entries, owned, held, garbled>> /\ supply' = Total(holding, TokenAccount)
    BY <1>6 DEF SupplyRead
  <2>2. Total(holding, TokenAccount) \in Nat
    BY <1>1, UnitsAreFinite
  <2>. QED
    BY <1>1, <2>1, <2>2
<1>. QED
  BY <1>2, <1>3, <1>4, <1>5, <1>6 DEF TopRead

\* A step keeps all the types of the intake.
LEMMA StepTypes ==
    ASSUME IntInv, Next
    PROVE  IntakeTypeOK'
<1>1. ListenerTypeOK'
  BY StepListener
<1>2. FiltersTypeOK'
  <2>. USE TopTypes DEF IntInv, IntakeTypeOK, FiltersTypeOK
  <2>1. CASE Begins
    <3>1. step' \in Reads \cup {"passed"}
      BY <2>1, NextFilter DEF Begins, Reads, Lookups, Calls
    <3>2. 0 \in 0 .. LookupAttempts - 1 /\ FALSE \in BOOLEAN
      BY FiltersConstants
    <3>. QED
      BY <2>1, <3>1, <3>2 DEF Begins, countVars, chainVars
  <2>2. CASE Around
    BY <2>2 DEF Around, countVars
  <2>3. CASE UNCHANGED <<settings, countVars, chainVars>> /\ (Rejects \/ Retries \/ GoesOn)
    BY <2>3, Moves DEF countVars, chainVars
  <2>4. CASE PageRead
    <3>1. before' \in 0 .. MaxSigs
      BY <2>4, OnePage DEF PageRead
    <3>2. /\ step' \in Reads \cup {"passed", "rejected"} /\ tries' \in 0 .. LookupAttempts - 1
          /\ asleep' \in BOOLEAN
          /\ verdict' \in {"none", "error", "invisible", "holders", "txs", "top"}
      <4>1. \/ UNCHANGED <<step, tries, asleep, verdict>>
            \/ Judge(count')
        BY <2>4 DEF PageRead
      <4>2. CASE UNCHANGED <<step, tries, asleep, verdict>>
        BY <2>4, <4>2 DEF PageRead, Reads
      <4>3. 0 \in 0 .. LookupAttempts - 1
        BY FiltersConstants
      <4>4. CASE Judge(count')
        BY <4>3, <4>4, NextFilter DEF Judge, Goto, Reject, Reads, Calls
      <4>. QED
        BY <4>1, <4>2, <4>4
    <3>. QED
      BY <2>4, <3>1, <3>2, OnePage DEF PageRead, chainVars
  <2>. QED
    BY <2>1, <2>2, <2>3, <2>4, Kinds
<1>. QED
  BY <1>1, <1>2 DEF IntakeTypeOK

\* A step keeps the page walk whole: full pages behind the cursor, nothing counted before it.
LEMMA StepWalk ==
    ASSUME IntInv, Next
    PROVE  Uncounted' /\ Walk'
<1>1. CASE Begins
  <2>1. count = 0 /\ before = 0 /\ verdict = "none"
    BY <1>1 DEF Begins, IntInv, Uncounted
  <2>2. count = 0 * PageSize /\ 0 \in 0 .. MaxPages - 1
    BY <2>1, FiltersConstants
  <2>. QED
    BY <1>1, <2>1, <2>2 DEF Begins, countVars, Uncounted, Walk
<1>2. CASE Around
  BY <1>2 DEF Around, countVars, IntInv, IntakeTypeOK, FiltersTypeOK, Uncounted, Walk
<1>3. CASE UNCHANGED <<settings, countVars, chainVars>> /\ (Rejects \/ Retries \/ GoesOn)
  <2>1. Uncounted'
    BY <1>3, Moves DEF countVars, IntInv, Uncounted
  <2>2. ASSUME step' = "txs" PROVE count = 0 /\ before = 0
    BY <1>3, <2>2, Moves DEF IntInv, Uncounted
  <2>3. 0 = 0 * PageSize /\ 0 \in 0 .. MaxPages - 1
    BY FiltersConstants
  <2>. QED
    BY <1>3, <2>1, <2>2, <2>3 DEF countVars, chainVars, Walk
<1>4. CASE PageRead
  <2>. DEFINE last == PageLength < PageSize \/ count' = MaxPages * PageSize
  <2>1. CASE last
    <3>1. Judge(count') /\ verdict = "none"
      BY <1>4, <2>1 DEF PageRead, IntInv, Uncounted
    <3>2. step' \in {"top", "passed", "rejected"} /\ (step' # "rejected" => verdict' = "none")
      BY <3>1, NextFilter DEF Judge, Goto, Reject
    <3>. QED
      BY <3>2 DEF Uncounted, Walk, Lookups
  <2>2. CASE ~last
    <3>1. step = "txs" /\ UNCHANGED <<step, verdict, sigs>> /\ before' = NextBefore
      BY <1>4, <2>2 DEF PageRead, chainVars
    <3>2. /\ \E k \in 0 .. MaxPages - 1 : count' = k * PageSize
          /\ count' > 0 /\ count' <= snapshot' /\ snapshot' <= sigs
          /\ NextBefore = snapshot' - count' + 1
      BY <1>4, <2>2, OnePage
    <3>. QED
      BY <3>1, <3>2 DEF IntInv, Uncounted, Walk, Lookups
  <2>. QED
    BY <2>1, <2>2
<1>. QED
  BY <1>1, <1>2, <1>3, <1>4, Kinds

\* A step that ends the walk has counted the transactions there were when it began, up to the cap.
LEMMA StepCount ==
    ASSUME IntInv, Next
    PROVE  TxCountIsSnapshot'
<1>. SUFFICES ASSUME JudgedByTxs' PROVE count' = Min({snapshot', PageSize * MaxPages})
  BY DEF TxCountIsSnapshot
<1>1. CASE Begins
  <2>1. verdict = "none" /\ Wanted' = Wanted
    BY <1>1 DEF Begins, IntInv, Uncounted, Wanted
  <2>2. step' \notin AfterTheTxs
    BY <1>1, <2>1, NextFilter DEF Begins, JudgedByTxs, AfterTheTxs
  <2>. QED
    BY <1>1, <2>1, <2>2 DEF Begins, JudgedByTxs
<1>2. CASE Around
  BY <1>2 DEF Around, countVars, IntInv, TxCountIsSnapshot, JudgedByTxs, Wanted
<1>3. CASE UNCHANGED <<settings, countVars, chainVars>> /\ (Rejects \/ Retries \/ GoesOn)
  BY <1>3, Moves DEF countVars, IntInv, TxCountIsSnapshot
<1>4. CASE PageRead
  <2>1. CASE PageLength < PageSize \/ count' = MaxPages * PageSize
    BY <1>4, <2>1, OnePage
  <2>2. CASE ~(PageLength < PageSize \/ count' = MaxPages * PageSize)
    BY <1>4, <2>2 DEF PageRead, IntInv, Uncounted, JudgedByTxs, AfterTheTxs
  <2>. QED
    BY <2>1, <2>2
<1>. QED
  BY <1>1, <1>2, <1>3, <1>4, Kinds

-----------------------------------------------------------------------------
(* The concentration. *)

\* The largest accounts still counted hold no less than as many wallets did: a wallet
\* that is listed and parsed is counted, and one that is not listed is no larger than
\* any that is.
LEMMA TopHoldsMost ==
    ASSUME IntInv, step = "supply",
           Cardinality((TokenAccount \ Wallets) \cup garbled) <= Listed - TopN,
           NEW top \in Largest(TopN, entries),
           NEW s \in SUBSET (Wallets \ garbled), Cardinality(s) <= TopN
    PROVE  /\ Total(held, s) <= Total(entries, top)
           /\ Total(held, s) \in Nat /\ Total(entries, top) \in Nat
<1>. DEFINE D == TokenAccount
            K == DOMAIN entries
            Out == (TokenAccount \ Wallets) \cup garbled
<1>1. /\ IsFiniteSet(D) /\ \A a \in D : held[a] \in Nat
      /\ DOMAIN held = D /\ garbled \subseteq D
      /\ TopN \in Nat /\ Listed \in Nat
  BY FiltersConstants DEF IntInv, IntakeTypeOK, FiltersTypeOK
<1>2. PICK list \in Largest(Listed, held) :
          /\ garbled \subseteq list /\ K \subseteq list \ garbled
          /\ Wallets \cap (list \ garbled) \subseteq K
          /\ \A a \in K : entries[a] = held[a]
  BY DEF IntInv, Listing
<1>3. /\ list \subseteq D /\ Cardinality(list) = Min({Listed, Cardinality(D)})
      /\ \A a \in list, b \in D \ list : held[a] >= held[b]
  BY <1>1, <1>2 DEF Largest
<1>4. /\ top \subseteq K /\ Cardinality(top) = Min({TopN, Cardinality(K)})
      /\ \A a \in top, b \in K \ top : held[a] >= held[b]
  BY <1>2 DEF Largest
<1>5. K \subseteq list /\ list \ K \subseteq Out /\ Wallets \subseteq D /\ s \cap list \subseteq K
  BY <1>2, <1>3 DEF Wallets
<1>6. Cardinality(Out) <= Listed - TopN
  OBVIOUS
<1>7. /\ IsFiniteSet(list) /\ IsFiniteSet(K) /\ IsFiniteSet(top) /\ IsFiniteSet(s)
      /\ IsFiniteSet(Out) /\ IsFiniteSet(list \ K)
  <2>1. Out \subseteq D /\ s \subseteq D /\ K \subseteq D /\ top \subseteq D /\ list \ K \subseteq D
    BY <1>1, <1>3, <1>4, <1>5
  <2>. HIDE DEF D, K, Out
  <2>. QED
    BY <1>1, <1>3, <2>1, FS_Subset
<1>. HIDE DEF D, K, Out
<1>8. /\ Cardinality(D) \in Nat /\ Cardinality(list) \in Nat /\ Cardinality(K) \in Nat
      /\ Cardinality(top) \in Nat /\ Cardinality(s) \in Nat
      /\ Cardinality(Out) \in Nat /\ Cardinality(list \ K) \in Nat
  BY <1>1, <1>7, FS_CardinalityType
<1>9. Cardinality(s) <= Cardinality(top)
  <2>1. Cardinality(top) = IF TopN <= Cardinality(K) THEN TopN ELSE Cardinality(K)
    BY <1>1, <1>4, <1>8, SmallerOfTwo
  <2>2. Cardinality(list) = IF Listed <= Cardinality(D) THEN Listed ELSE Cardinality(D)
    BY <1>1, <1>3, <1>8, SmallerOfTwo
  <2>3. CASE list = D
    <3>1. s \subseteq K
      BY <1>5, <2>3
    <3>2. Cardinality(s) <= Cardinality(K)
      BY <1>7, <3>1, FS_Subset
    <3>. QED
      BY <1>1, <1>8, <2>1, <3>2
  <2>4. CASE list # D
    <3>1. Cardinality(list) = Listed
      BY <1>1, <1>3, <1>8, <2>2, <2>4, FS_Subset
    <3>2. Cardinality(list \ K) <= Cardinality(Out)
      BY <1>5, <1>7, FS_Subset
    <3>3. Cardinality(list \ K) = Cardinality(list) - Cardinality(K)
      <4>1. list \cap K = K
        BY <1>5
      <4>. QED
        BY <1>7, <4>1, FS_Difference
    <3>4. TopN <= Cardinality(K)
      BY <1>1, <1>6, <1>8, <3>1, <3>2, <3>3
    <3>. QED
      BY <1>1, <1>8, <2>1, <3>4
  <2>. QED
    BY <2>3, <2>4
<1>10. ASSUME NEW a \in s \ top, NEW b \in top PROVE held[a] <= held[b]
  <2>1. a \in D /\ b \in D /\ b \in list
    BY <1>3, <1>4, <1>5
  <2>2. a \in K \/ a \notin list
    BY <1>5
  <2>3. held[b] >= held[a]
    BY <1>3, <1>4, <2>1, <2>2
  <2>. QED
    BY <1>1, <2>1, <2>3
<1>11. \A a \in s \cup top : held[a] \in Nat
  BY <1>1, <1>3, <1>4, <1>5
<1>12. Total(entries, top) = Total(held, top)
  BY <1>2, <1>4, SameUnits DEF K
<1>. QED
  BY <1>7, <1>9, <1>10, <1>11, <1>12, MoreUnits, UnitsAreFinite

\* No call before that of the accounts knows an owner, and none leads back.
LEMMA StepUnowned ==
    ASSUME IntInv, Next
    PROVE  Unowned'
<1>1. CASE TopRead
  BY <1>1 DEF TopRead, LargestRead, AccountsRead, OwnersRead, SupplyRead, Goto, Reject, Unowned, Lookups
<1>2. CASE ~TopRead
  <2>1. owned' = owned
    BY <1>2, Elsewhere DEF topVars
  <2>2. step' \in {"none", "holders", "txs", "top"} \cup Lookups =>
            step \in {"none", "holders", "txs"} \cup Lookups \/ step' = step
    BY Kinds DEF Begins, Around, Rejects, Retries, GoesOn, PageRead, Lookups
  <2>. QED
    BY <2>1, <2>2 DEF IntInv, Unowned, Lookups
<1>. QED
  BY <1>1, <1>2

\* The calls keep every wallet listed and parsed among those counted, as it was listed.
LEMMA StepListing ==
    ASSUME IntInv, Next
    PROVE  Listing'
<1>1. CASE ~TopRead
  <2>1. /\ UNCHANGED <<entries, held, garbled, owner>>
        /\ step' \in {"accounts", "owners", "supply"} => step' = step
    BY <1>1, Elsewhere DEF topVars
  <2>. QED
    BY <2>1 DEF IntInv, Listing, Largest, Wallets
<1>2. CASE LargestRead
  <2>1. PICK list \in Largest(Listed, holding) :
            \E bad \in SUBSET list \ {list} :
                entries' = [a \in list \ bad |-> holding[a]] /\ garbled' = bad
    BY <1>2 DEF LargestRead
  <2>2. PICK bad \in SUBSET list \ {list} :
            entries' = [a \in list \ bad |-> holding[a]] /\ garbled' = bad
    BY <2>1
  <2>3. held' = holding
    BY <1>2 DEF LargestRead
  <2>4. list \in Largest(Listed, held)'
    BY <2>1, <2>3 DEF Largest
  <2>. QED
    BY <2>2, <2>3, <2>4 DEF Listing
<1>3. ASSUME NEW gone, entries' = Without(gone), gone \cap Wallets = {},
             UNCHANGED <<held, garbled, owner>>, step \in {"accounts", "owners"}
      PROVE  Listing'
  <2>1. PICK list \in Largest(Listed, held) :
            /\ garbled \subseteq list /\ DOMAIN entries \subseteq list \ garbled
            /\ Wallets \cap (list \ garbled) \subseteq DOMAIN entries
            /\ \A a \in DOMAIN entries : entries[a] = held[a]
    BY <1>3 DEF IntInv, Listing
  <2>2. DOMAIN entries' = DOMAIN entries \ gone /\ \A a \in DOMAIN entries' : entries'[a] = entries[a]
    BY <1>3 DEF Without
  <2>3. Wallets' = Wallets /\ list \in Largest(Listed, held)'
    BY <1>3 DEF Wallets, Largest
  <2>. QED
    BY <1>3, <2>1, <2>2, <2>3 DEF Listing
<1>4. CASE AccountsRead
  <2>1. PICK read \in SUBSET DOMAIN entries : entries' = NotTheCurves(read)
    BY <1>4 DEF AccountsRead
  <2>. QED
    BY <1>3, <1>4, <2>1 DEF AccountsRead, NotTheCurves, Wallets, chainVars
<1>5. CASE OwnersRead
  <2>1. PICK found \in SUBSET owned : entries' = Without({a \in found : owner[a] = "pool"})
    BY <1>5 DEF OwnersRead
  <2>. QED
    BY <1>3, <1>5, <2>1 DEF OwnersRead, Wallets, chainVars
<1>6. CASE SupplyRead
  BY <1>6 DEF SupplyRead, Goto, Reject, Listing
<1>. QED
  BY <1>1, <1>2, <1>4, <1>5, <1>6 DEF TopRead

\* A token that passes had no TopN wallets above the limit, where the list has room for the rest.
LEMMA StepWhales ==
    ASSUME IntInv, Next
    PROVE  WhalesAreCounted'
<1>1. UNCHANGED <<settings, owner>>
  BY Kinds DEF Begins, Around, PageRead, chainVars
<1>2. Wanted' = Wanted /\ Wallets' = Wallets
  BY <1>1 DEF Wanted, Wallets
<1>. SUFFICES ASSUME step' = "passed", settings.enabled, Wanted.top,
                     Cardinality((TokenAccount \ Wallets) \cup garbled') <= Listed - TopN,
                     NEW s \in SUBSET (Wallets \ garbled'), Cardinality(s) <= TopN
              PROVE  ~(Total(held', s) * 100 > settings.max_share * supply')
  BY <1>1, <1>2 DEF WhalesAreCounted, TooConcentrated, Total, Units
<1>3. CASE ~TopRead
  <2>1. UNCHANGED <<held, garbled, supply>> /\ step = "passed"
    BY <1>3, Elsewhere DEF topVars
  <2>. QED
    BY <2>1 DEF IntInv, WhalesAreCounted, TooConcentrated
<1>4. CASE TopRead
  <2>1. SupplyRead
    BY <1>4 DEF TopRead, LargestRead, AccountsRead, OwnersRead, Goto
  <2>2. UNCHANGED <<held, garbled>> /\ step = "supply"
    BY <2>1 DEF SupplyRead
  <2>3. PICK top \in Largest(TopN, entries) : ~TooConcentrated(Total(entries, top), supply')
    BY <2>1 DEF SupplyRead, Reject
  <2>4. /\ Total(held, s) <= Total(entries, top)
        /\ Total(held, s) \in Nat /\ Total(entries, top) \in Nat
    BY <2>2, TopHoldsMost
  <2>5. settings.max_share * supply' \in Nat
    <3>1. settings.max_share \in Nat
      BY FiltersConstants DEF IntInv, IntakeTypeOK, FiltersTypeOK
    <3>2. supply' \in Nat
      BY TopTypes
    <3>. QED
      BY <3>1, <3>2
  <2>6. \A t, u, m \in Nat : t <= u /\ t * 100 > m => u * 100 > m
    OBVIOUS
  <2>. QED
    BY <2>2, <2>3, <2>4, <2>5, <2>6 DEF TooConcentrated
<1>. QED
  BY <1>3, <1>4

-----------------------------------------------------------------------------
(* Theorems. *)

\* The invariant holds before the first frame.
LEMMA IntInvInit == IntakeInit => IntInv
<1>. SUFFICES ASSUME IntakeInit PROVE IntInv
  OBVIOUS
<1>. USE DEF IntakeInit, FiltersInit
<1>1. ListenerTypeOK
  BY ListenerConstants, EmptySeq DEF ListenerInit, ListenerTypeOK
<1>2. FiltersTypeOK
  <2>1. /\ 0 \in 0 .. LookupAttempts - 1 /\ 0 \in 0 .. MaxSigs
        /\ 0 \in 0 .. PageSize * MaxPages
    <3>1. PageSize * MaxPages \in Nat
      BY FiltersConstants
    <3>. QED
      BY <3>1, FiltersConstants
  <2>2. /\ DOMAIN entries = {} /\ entries \in [DOMAIN entries -> Nat]
        /\ held \in [TokenAccount -> Nat]
    OBVIOUS
  <2>. QED
    BY <2>1, <2>2 DEF FiltersTypeOK
<1>3. Uncounted /\ Walk /\ Unowned /\ Listing
  BY DEF Uncounted, Walk, Unowned, Listing
<1>4. TxCountIsSnapshot /\ WhalesAreCounted
  BY DEF TxCountIsSnapshot, JudgedByTxs, AfterTheTxs, WhalesAreCounted
<1>. QED
  BY <1>1, <1>2, <1>3, <1>4 DEF IntInv, IntakeTypeOK

\* The invariant is inductive.
LEMMA IntInvStep == IntInv /\ [Next]_vars => IntInv'
<1>. SUFFICES ASSUME IntInv, [Next]_vars PROVE IntInv'
  OBVIOUS
<1>1. CASE Next
  BY <1>1, StepTypes, StepWalk, StepUnowned, StepListing, StepCount, StepWhales DEF IntInv
<1>2. CASE UNCHANGED vars
  <2>1. IntakeTypeOK' /\ Uncounted' /\ Walk' /\ Unowned'
    BY <1>2 DEF vars, listenerVars, filterVars, countVars, topVars, chainVars, IntInv, IntakeTypeOK,
           ListenerTypeOK, FiltersTypeOK, Uncounted, Walk, Unowned
  <2>2. TxCountIsSnapshot'
    BY <1>2 DEF vars, filterVars, countVars, IntInv, TxCountIsSnapshot, JudgedByTxs, Wanted
  <2>3. UNCHANGED <<step, settings, owner, entries, held, garbled, supply>>
    BY <1>2 DEF vars, filterVars, topVars, chainVars
  <2>4. Listing'
    BY <2>3 DEF IntInv, Listing, Largest, Wallets
  <2>5. Wanted' = Wanted /\ Wallets' = Wallets
    BY <2>3 DEF Wanted, Wallets
  <2>6. WhalesAreCounted'
    BY <2>3, <2>5 DEF IntInv, WhalesAreCounted, TooConcentrated, Total, Units
  <2>. QED
    BY <2>1, <2>2, <2>4, <2>6 DEF IntInv
<1>. QED
  BY <1>1, <1>2

\* The invariant of the intake.
THEOREM IntakeInvariant == Spec => []IntInv
BY IntInvInit, IntInvStep, PTL DEF Spec

\* Types: the backoff and the pause of the listener stay within the cap, the attempts
\* of a look-up and the count within theirs (pumpportal.rs 18-28, onchain.rs 22-52,
\* 466-504).
THEOREM IntakeTypes == Spec => []IntakeTypeOK
<1>1. IntInv => IntakeTypeOK
  BY DEF IntInv
<1>. QED
  BY <1>1, IntakeInvariant, PTL

\* The count the transactions are judged by is that of the moment the first page was
\* read, up to the cap, whatever is traded between two pages (onchain.rs 466-504).
THEOREM IntakeTxCountIsSnapshot == Spec => []TxCountIsSnapshot
<1>1. IntInv => TxCountIsSnapshot
  BY DEF IntInv
<1>. QED
  BY <1>1, IntakeInvariant, PTL

\* Of a token that passed, no TopN wallets that parsed had more than the limit when its
\* accounts were listed, by the supply read last, whichever accounts and owners could
\* not be read and whatever moved between the calls (onchain.rs 337-438, session.rs
\* 705-724).
THEOREM IntakeWhalesAreCounted == Spec => []WhalesAreCounted
<1>1. IntInv => WhalesAreCounted
  BY DEF IntInv
<1>. QED
  BY <1>1, IntakeInvariant, PTL

=============================================================================
