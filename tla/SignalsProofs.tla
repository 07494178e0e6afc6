--------------------------- MODULE SignalsProofs ---------------------------
(***************************************************************************)
(* Theorems of the entry signals, for every window, every threshold and    *)
(* every sequence of gaps between ticks.                                   *)
(*                                                                         *)
(* What the detectors share comes first: the window keeps its ticks in the *)
(* order they came, so that popping the front until it is young enough is  *)
(* dropping exactly the ticks that are too old.  From the order follows    *)
(* how far back a window reaches after a silence, and after ticks that     *)
(* come close together.  Then each detector's own clocks are compared with *)
(* the history of the ticks.                                               *)
(***************************************************************************)
EXTENDS Signals, TLAPS, FiniteSetTheorems, SequenceTheorems

-----------------------------------------------------------------------------
(* The window. *)

\* Ticks of a detector: an age and whatever else it reads.
IsTick(R) ==
    \A r \in R : \A a \in 0 .. Window :
        /\ r.age \in 0 .. Window
        /\ [r EXCEPT !.age = a] \in R
        /\ [r EXCEPT !.age = a].age = a

\* The oldest tick is first, the last one is of this instant.
InOrder(q) ==
    /\ \A i, j \in 1 .. Len(q) : i <= j => q[j].age <= q[i].age
    /\ Len(q) > 0 => q[Len(q)].age = 0

\* The first n positions are n.
LEMMA UpTo ==
    ASSUME NEW n \in Nat
    PROVE  IsFiniteSet(1 .. n) /\ Cardinality(1 .. n) = n
  BY FS_Interval

\* evict_old pops the ticks up to the first that is young enough.
LEMMA PoppedPrefix ==
    ASSUME NEW R, NEW q \in Seq(R), NEW gap
    PROVE  /\ Popped(q, gap, Window) \in 0 .. Len(q)
           /\ \A j \in 1 .. Popped(q, gap, Window) : q[j].age + gap > Window
           /\ LET k == Popped(q, gap, Window)
              IN  k < Len(q) => ~(q[k + 1].age + gap > Window)
<1>. DEFINE n == Len(q)
            E == {i \in 1 .. n : \A j \in 1 .. i : q[j].age + gap > Window}
            k == Cardinality(E)
<1>1. n \in Nat
  BY LenProperties
<1>2. IsFiniteSet(1 .. n) /\ Cardinality(1 .. n) = n
  BY <1>1, UpTo
<1>3. IsFiniteSet(E) /\ k <= n /\ k \in Nat
  BY <1>2, FS_Subset, FS_CardinalityType
<1>4. ASSUME NEW i \in E PROVE i <= k
  <2>1. i \in Nat /\ 1 .. i \subseteq E
    BY <1>1, <1>4
  <2>2. Cardinality(1 .. i) = i
    BY <2>1, FS_Interval
  <2>. QED
    BY <1>3, <2>1, <2>2, FS_Subset
<1>5. E = 1 .. k
  <2>1. E \subseteq 1 .. k
    BY <1>4
  <2>2. IsFiniteSet(1 .. k) /\ Cardinality(1 .. k) = k
    BY <1>3, UpTo
  <2>. QED
    BY <2>1, <2>2, FS_Subset
<1>6. \A j \in 1 .. k : q[j].age + gap > Window
  BY <1>5
<1>7. k < n => ~(q[k + 1].age + gap > Window)
  <2>. SUFFICES ASSUME k < n, q[k + 1].age + gap > Window PROVE FALSE
    OBVIOUS
  <2>1. \A j \in 1 .. k + 1 : q[j].age + gap > Window
    BY <1>3, <1>6
  <2>2. k + 1 \in E
    BY <1>1, <1>3, <2>1
  <2>. QED
    BY <1>3, <1>4, <2>2
<1>8. Popped(q, gap, Window) = k
  BY DEF Popped
<1>. QED
  BY <1>3, <1>6, <1>7, <1>8

\* The window after a tick: the ticks young enough, each older by the gap, and
\* the new one; k of the old ones are gone.
Follows(w, q, gap, k) ==
    /\ Len(w) = Len(q) - k + 1
    /\ w[Len(w)].age = 0
    /\ \A i \in 1 .. Len(q) - k : w[i].age = q[i + k].age + gap
    /\ \A j \in 1 .. k : q[j].age + gap > Window
    /\ k < Len(q) => q[k + 1].age + gap <= Window

\* Observing a tick leaves a window in order, whatever was popped
\* (capitulation.rs 75-99, dip_buy.rs 81-99).
LEMMA ObservedWindow ==
    ASSUME NEW R, IsTick(R), NEW q \in Seq(R), InOrder(q), NEW gap \in Nat,
           NEW t \in R, t.age = 0
    PROVE  /\ Observed(q, gap, t) \in Seq(R)
           /\ InOrder(Observed(q, gap, t))
           /\ \E k \in 0 .. Len(q) : Follows(Observed(q, gap, t), q, gap, k)
<1>. DEFINE k == Popped(q, gap, Window)
            n == Len(q)
            s == Kept(q, gap)
            o == Older(s, gap)
            w == Observed(q, gap, t)
<1>1. /\ n \in Nat /\ k \in 0 .. n
      /\ \A j \in 1 .. k : q[j].age + gap > Window
      /\ k < n => ~(q[k + 1].age + gap > Window)
  BY LenProperties, PoppedPrefix
<1>2. \A i \in 1 .. n : q[i] \in R /\ q[i].age \in 0 .. Window
  <2>1. 0 \in 0 .. Window
    BY WindowConstants
  <2>. QED
    BY <2>1, ElementOfSeq DEF IsTick
<1>3. s = SubSeq(q, k + 1, n)
  BY DEF Kept
<1>. HIDE DEF k, s
<1>4. s \in Seq(R) /\ Len(s) = n - k /\ \A i \in 1 .. n - k : s[i] = q[i + k]
  <2>1. k + 1 \in Int /\ n \in Int /\ \A i \in k + 1 .. n : q[i] \in R
    BY <1>1, <1>2
  <2>2. /\ s \in Seq(R) /\ Len(s) = IF k + 1 <= n THEN n - (k + 1) + 1 ELSE 0
        /\ \A i \in 1 .. n - (k + 1) + 1 : s[i] = q[k + 1 + i - 1]
    BY <1>3, <2>1, SubSeqProperties
  <2>3. Len(s) = n - k
    BY <1>1, <2>2
  <2>4. \A i \in 1 .. n - k : s[i] = q[i + k]
    <3>. SUFFICES ASSUME NEW i \in 1 .. n - k PROVE s[i] = q[i + k]
      OBVIOUS
    <3>1. i \in 1 .. n - (k + 1) + 1 /\ k + 1 + i - 1 = i + k
      BY <1>1
    <3>. QED
      BY <2>2, <3>1
  <2>. QED
    BY <2>2, <2>3, <2>4
<1>5. \A i \in 1 .. n - k : q[i + k].age + gap \in 0 .. Window
  <2>. SUFFICES ASSUME NEW i \in 1 .. n - k PROVE q[i + k].age + gap \in 0 .. Window
    OBVIOUS
  <2>1. k + 1 \in 1 .. n /\ i + k \in 1 .. n /\ k + 1 <= i + k /\ k < n
    BY <1>1
  <2>2. q[i + k].age <= q[k + 1].age
    BY <2>1 DEF InOrder
  <2>3. q[i + k].age \in 0 .. Window /\ q[k + 1].age \in 0 .. Window
    BY <1>2, <2>1
  <2>. QED
    BY <1>1, <2>1, <2>2, <2>3, WindowConstants, SMTT(30)
<1>6. /\ o \in [1 .. n - k -> R]
      /\ \A i \in 1 .. n - k : o[i].age = q[i + k].age + gap
  <2>1. DOMAIN s = 1 .. n - k
    BY <1>1, <1>4, LenProperties
  <2>2. ASSUME NEW i \in 1 .. n - k
        PROVE  o[i] \in R /\ o[i].age = q[i + k].age + gap
    <3>1. o[i] = [s[i] EXCEPT !.age = @ + gap] /\ s[i] = q[i + k]
      BY <1>4, <2>1 DEF Older
    <3>2. i + k \in 1 .. n
      BY <1>1
    <3>3. s[i] \in R /\ s[i].age + gap \in 0 .. Window
      BY <1>2, <1>5, <3>1, <3>2
    <3>. QED
      BY <3>1, <3>3 DEF IsTick
  <2>. QED
    BY <2>1, <2>2 DEF Older
<1>. HIDE DEF o
<1>7. o \in Seq(R) /\ Len(o) = n - k
  <2>1. n - k \in Nat
    BY <1>1
  <2>2. o \in Seq(R)
    BY <1>6, <2>1, SeqDef
  <2>3. Len(o) \in Nat /\ 1 .. Len(o) = 1 .. n - k
    BY <1>6, <2>2, LenProperties
  <2>4. Cardinality(1 .. Len(o)) = Len(o) /\ Cardinality(1 .. n - k) = n - k
    BY <2>1, <2>3, UpTo
  <2>. QED
    BY <2>2, <2>3, <2>4
<1>8. /\ w \in Seq(R) /\ Len(w) = n - k + 1
      /\ \A i \in 1 .. n - k : w[i] = o[i]
      /\ w[n - k + 1] = t
  <2>1. w = Append(o, t)
    BY DEF Observed, o, s
  <2>. QED
    BY <1>7, <2>1, AppendProperties
<1>. HIDE DEF w
<1>9. Follows(w, q, gap, k)
  <2>1. k < n => q[k + 1].age + gap <= Window
    BY <1>1, <1>2, WindowConstants
  <2>. QED
    BY <1>1, <1>6, <1>8, <2>1 DEF Follows
<1>10. InOrder(w)
  <2>1. ASSUME NEW i \in 1 .. Len(w), NEW j \in 1 .. Len(w), i <= j
        PROVE  w[j].age <= w[i].age
    <3>1. \A m \in 1 .. Len(w) : w[m].age \in Nat
      <4>. SUFFICES ASSUME NEW m \in 1 .. Len(w) PROVE w[m].age \in Nat
        OBVIOUS
      <4>1. CASE m \in 1 .. n - k
        BY <1>5, <1>6, <1>8, <4>1, WindowConstants
      <4>2. CASE m = n - k + 1
        BY <1>8, <4>2
      <4>. QED
        BY <1>1, <1>8, <4>1, <4>2
    <3>2. CASE j = n - k + 1
      BY <1>8, <3>1, <3>2
    <3>3. CASE j # n - k + 1
      <4>1. /\ i \in 1 .. n - k /\ j \in 1 .. n - k
            /\ i + k \in 1 .. n /\ j + k \in 1 .. n /\ i + k <= j + k
        BY <1>1, <1>8, <2>1, <3>3
      <4>2. q[j + k].age <= q[i + k].age
        BY <4>1 DEF InOrder
      <4>3. w[i].age = q[i + k].age + gap /\ w[j].age = q[j + k].age + gap
        BY <1>6, <1>8, <4>1
      <4>. QED
        BY <1>2, <4>1, <4>2, <4>3, WindowConstants, SMTT(30)
    <3>. QED
      BY <3>2, <3>3
  <2>. QED
    BY <1>1, <1>8, <2>1 DEF InOrder
<1>. QED
  BY <1>1, <1>8, <1>9, <1>10 DEF w

-----------------------------------------------------------------------------
(* How far back a window reaches.  q is the window before a tick that comes  *)
(* gap later, w the one after it.                                            *)

\* Ages count up to the window, and the count starts with the first tick.
Ages(q) == Len(q) \in Nat /\ \A i \in 1 .. Len(q) : q[i].age \in 0 .. Window

CountedOn(since, gap, q) == IF Len(q) > 0 THEN Later(since, gap, Window) ELSE 0

SilenceAfter(since, gap, q) == IF gap > Window THEN 0 ELSE CountedOn(since, gap, q)

SparseAfter(since, gap, q) == IF gap > 1 THEN 0 ELSE CountedOn(since, gap, q)

\* No tick of the window is from before the silence.
AfterSilence(q, since) == \A i \in 1 .. Len(q) : q[i].age <= since

\* The window reaches back to the last late tick, or is full.
Reaches(q, since) ==
    Len(q) > 0 => q[1].age >= since \/ q[1].age >= Window - 1

\* Ticks are a second apart at most, or the later one is no later than the last
\* that came late.
NoGaps(q, since) ==
    \A i \in 1 .. Len(q) - 1 : q[i].age <= q[i + 1].age + 1 \/ since <= q[i + 1].age

\* After a silence of more than the window nothing of before it is left.
LEMMA SilenceEvicts ==
    ASSUME NEW q, NEW w, NEW gap \in Nat, NEW since \in 0 .. Window, Ages(q),
           InOrder(q), NEW k \in 0 .. Len(q), Follows(w, q, gap, k), AfterSilence(q, since)
    PROVE  /\ SilenceAfter(since, gap, q) \in 0 .. Window
           /\ AfterSilence(w, SilenceAfter(since, gap, q))
<1>. DEFINE n == Len(q)
            later == SilenceAfter(since, gap, q)
<1>1. n \in Nat /\ Len(w) = n - k + 1
  BY DEF Ages, Follows
<1>2. later \in 0 .. Window
  BY WindowConstants DEF SilenceAfter, CountedOn, Later
<1>3. ASSUME NEW i \in 1 .. n - k PROVE w[i].age <= later
  <2>1. /\ n > 0 /\ k < n /\ i + k \in 1 .. n /\ k + 1 \in 1 .. n
        /\ w[i].age = q[i + k].age + gap /\ w[1].age = q[k + 1].age + gap
    BY <1>1 DEF Follows
  <2>2. q[i + k].age \in 0 .. Window /\ q[k + 1].age \in 0 .. Window
    BY <2>1 DEF Ages
  <2>3. q[k + 1].age + gap <= Window /\ q[i + k].age <= q[k + 1].age
    BY <2>1 DEF Follows, InOrder
  <2>4. PICK a, b \in Nat : a = q[i + k].age /\ b = q[k + 1].age
    BY <2>2, WindowConstants
  <2>5. w[i].age = a + gap /\ a <= since /\ a <= b /\ b + gap <= Window
    BY <2>1, <2>3, <2>4 DEF AfterSilence
  <2>6. w[i].age <= since + gap /\ w[i].age <= Window /\ ~(gap > Window)
    <3>. HIDE DEF n
    <3>. QED
      BY <2>5, WindowConstants
  <2>. QED
    BY <2>1, <2>6 DEF SilenceAfter, CountedOn, Later
<1>. QED
  BY <1>1, <1>2, <1>3 DEF AfterSilence, Follows

\* Eviction leaves no hole at the old end: what it popped was no more than a
\* second older than what it left, unless that one itself came late.
LEMMA DenseWindow ==
    ASSUME NEW q, NEW w, NEW gap \in Nat, NEW since \in 0 .. Window, Ages(q),
           InOrder(q), NEW k \in 0 .. Len(q), Follows(w, q, gap, k),
           Reaches(q, since), NoGaps(q, since)
    PROVE  /\ SparseAfter(since, gap, q) \in 0 .. Window
           /\ Reaches(w, SparseAfter(since, gap, q))
           /\ NoGaps(w, SparseAfter(since, gap, q))
<1>. DEFINE n == Len(q)
            later == SparseAfter(since, gap, q)
<1>1. n \in Nat /\ Len(w) = n - k + 1 /\ w[n - k + 1].age = 0
  BY DEF Ages, Follows
<1>2. /\ later \in 0 .. Window
      /\ later = 0 \/ (gap <= 1 /\ n > 0 /\ later <= since + gap)
  BY WindowConstants DEF SparseAfter, CountedOn, Later
<1>. HIDE DEF later
<1>3. Reaches(w, later)
  <2>. SUFFICES ASSUME gap <= 1, n > 0, later <= since + gap
                PROVE  w[1].age >= later \/ w[1].age >= Window - 1
    <3>1. w[1].age >= 0
      <4>1. CASE k = n
        BY <1>1, <4>1
      <4>2. CASE k < n
        BY <1>1, <4>2, SMTT(30) DEF Follows, Ages
      <4>. QED
        BY <4>1, <4>2
    <3>. QED
      BY <1>2, <3>1 DEF Reaches
  <2>1. k < n
    <3>. SUFFICES ASSUME k = n PROVE FALSE
      BY <1>1
    <3>1. q[n].age + gap > Window /\ q[n].age = 0
      BY <1>1 DEF Follows, InOrder
    <3>. QED
      BY <3>1, WindowConstants
  <2>2. k + 1 \in 1 .. n /\ w[1].age = q[k + 1].age + gap
    BY <1>1, <2>1 DEF Follows
  <2>3. q[k + 1].age \in 0 .. Window
    BY <2>2 DEF Ages
  <2>4. CASE k = 0
    BY <1>2, <2>2, <2>3, <2>4, WindowConstants DEF Reaches
  <2>5. CASE k > 0
    <3>1. k \in 1 .. n - 1 /\ k \in 1 .. n
      BY <1>1, <2>1, <2>5
    <3>2. q[k].age + gap > Window /\ q[k].age \in 0 .. Window
      BY <3>1 DEF Follows, Ages
    <3>3. q[k].age <= q[k + 1].age + 1 \/ since <= q[k + 1].age
      BY <3>1 DEF NoGaps
    <3>. QED
      BY <1>2, <2>2, <2>3, <3>2, <3>3, WindowConstants, SMTT(30)
  <2>. QED
    BY <2>4, <2>5
<1>4. NoGaps(w, later)
  <2>. SUFFICES ASSUME NEW i \in 1 .. n - k
                PROVE  w[i].age <= w[i + 1].age + 1 \/ later <= w[i + 1].age
    BY <1>1 DEF NoGaps
  <2>1. i + k \in 1 .. n /\ w[i].age = q[i + k].age + gap
    BY <1>1 DEF Follows
  <2>2. CASE i = n - k
    <3>1. w[i].age = gap /\ w[i + 1].age = 0
      BY <1>1, <2>1, <2>2 DEF InOrder
    <3>. QED
      BY <1>2, <3>1
  <2>3. CASE i < n - k
    <3>1. /\ i + k \in 1 .. n - 1 /\ i + k + 1 \in 1 .. n /\ i + 1 \in 1 .. n - k
          /\ i + 1 + k = i + k + 1
      BY <1>1, <2>1, <2>3
    <3>2. w[i + 1].age = q[i + k + 1].age + gap
      BY <3>1 DEF Follows
    <3>3. q[i + k].age \in 0 .. Window /\ q[i + k + 1].age \in 0 .. Window
      BY <2>1, <3>1 DEF Ages
    <3>4. q[i + k].age <= q[i + k + 1].age + 1 \/ since <= q[i + k + 1].age
      BY <3>1 DEF NoGaps
    <3>5. CASE later = 0
      BY <3>2, <3>3, <3>5, WindowConstants, SMTT(30)
    <3>6. CASE later <= since + gap
      <4>1. CASE q[i + k].age <= q[i + k + 1].age + 1
        <5>1. \A a, b \in Nat : a <= b + 1 => a + gap <= b + gap + 1
          OBVIOUS
        <5>2. q[i + k].age \in Nat /\ q[i + k + 1].age \in Nat
          <6>1. \A a \in 0 .. Window : a \in Nat
            BY WindowConstants
          <6>. QED
            BY <3>3, <6>1
        <5>3. q[i + k].age + gap <= q[i + k + 1].age + gap + 1
          BY <4>1, <5>1, <5>2
        <5>. QED
          BY <2>1, <3>2, <5>3
      <4>2. CASE since <= q[i + k + 1].age
        BY <1>2, <3>2, <3>3, <3>6, <4>2, WindowConstants, SMTT(30)
      <4>. QED
        BY <3>4, <4>1, <4>2
    <3>. QED
      BY <1>2, <3>5, <3>6
  <2>. QED
    BY <1>1, <2>2, <2>3
<1>. QED
  BY <1>2, <1>3, <1>4 DEF later

-----------------------------------------------------------------------------
(* The capitulation detector. *)

USE DEF FireLimit, TickRecord, NoPending, NotConfirming

\* Its ticks are ticks.
LEMMA CapTicks == IsTick(TickRecord)
  BY DEF IsTick

\* A confirmation began no earlier than the debounce of the last fire ended, and
\* after the price was last seen below the reclaim.
ConfirmedSince ==
    confirm.on => /\ since_fire >= Debounce + confirm.age
                  /\ since_fallback >= confirm.age

CapInv ==
    TypeOK /\ InOrder(ticks) /\ ConfirmWithinPending /\ ConfirmedSince /\ FiresApart

\* A clock that is counted up to a limit.
LEMMA LaterType ==
    ASSUME NEW limit \in Nat, NEW age \in 0 .. limit, NEW gap \in Nat
    PROVE  /\ Later(age, gap, limit) \in 0 .. limit
           /\ Later(age, gap, limit) = limit \/ Later(age, gap, limit) = age + gap
           /\ Later(age, gap, limit) <= age + gap
           /\ Later(age, gap, limit) >= age
  BY DEF Later

\* A pending state and its confirmation grow older together, or expire together.
LEMMA ConfirmationOlder ==
    ASSUME TypeOK, ConfirmWithinPending, NEW gap \in Nat
    PROVE  /\ Pending(gap) \in [on: BOOLEAN, low: Price \cup {0}, age: 0 .. PendingExpire + 1]
           /\ PendingOlder(gap) \in [on: BOOLEAN, low: Price \cup {0}, age: 0 .. PendingExpire + 1]
           /\ Confirmation(gap) \in [on: BOOLEAN, age: 0 .. ReclaimConfirm]
           /\ ConfirmOlder(gap) \in [on: BOOLEAN, age: 0 .. ReclaimConfirm]
           /\ ConfirmOlder(gap).on => /\ confirm.on /\ PendingOlder(gap).on
                                      /\ ConfirmOlder(gap).age <= confirm.age + gap
                                      /\ \/ ConfirmOlder(gap).age <= PendingOlder(gap).age
                                         \/ PendingOlder(gap).age > PendingExpire
           /\ Confirmation(gap).on => Pending(gap).on /\ ConfirmOlder(gap) = Confirmation(gap)
           /\ Pending(gap).on => pending.on /\ Pending(gap) = PendingOlder(gap)
                                 /\ Confirmation(gap) = ConfirmOlder(gap)
<1>. DEFINE P == [on: BOOLEAN, low: Price \cup {0}, age: 0 .. PendingExpire + 1]
            C == [on: BOOLEAN, age: 0 .. ReclaimConfirm]
<1>1. pending \in P /\ confirm \in C
  BY DEF TypeOK
<1>2. /\ PendingExpire + 1 \in Nat /\ ReclaimConfirm \in Nat
      /\ pending.age \in 0 .. PendingExpire + 1 /\ confirm.age \in 0 .. ReclaimConfirm
  BY <1>1, CapitulationConstants
<1>3. /\ PendingOlder(gap) \in P
      /\ PendingOlder(gap).on = pending.on
      /\ pending.on => PendingOlder(gap).age = Later(pending.age, gap, PendingExpire + 1)
  BY <1>1, <1>2, LaterType DEF PendingOlder
<1>4. /\ ConfirmOlder(gap) \in C
      /\ ConfirmOlder(gap).on = confirm.on
      /\ confirm.on => ConfirmOlder(gap).age = Later(confirm.age, gap, ReclaimConfirm)
  BY <1>1, <1>2, LaterType DEF ConfirmOlder
<1>5. NoPending \in P /\ NotConfirming \in C
  BY CapitulationConstants
<1>6. confirm.on => \/ ConfirmOlder(gap).age <= PendingOlder(gap).age
                    \/ PendingOlder(gap).age > PendingExpire
  BY <1>2, <1>3, <1>4, CapitulationConstants DEF ConfirmWithinPending, Later
<1>7. confirm.on => ConfirmOlder(gap).age <= confirm.age + gap
  BY <1>2, <1>4, LaterType
<1>8. Confirmation(gap) \in C /\ Pending(gap) \in P
  BY <1>3, <1>4, <1>5 DEF Confirmation, Pending
<1>9. /\ Confirmation(gap).on => Pending(gap).on /\ ConfirmOlder(gap) = Confirmation(gap)
      /\ Pending(gap).on => pending.on /\ Pending(gap) = PendingOlder(gap)
                            /\ Confirmation(gap) = ConfirmOlder(gap)
  BY <1>3, <1>4 DEF Confirmation, Pending, ConfirmWithinPending
<1>. QED
  BY <1>3, <1>4, <1>6, <1>7, <1>8, <1>9 DEF ConfirmWithinPending

\* What every outcome of a tick does to the window: it records the tick, and the
\* detector fires only on a full window.
LEMMA CapWindow ==
    ASSUME TypeOK, InOrder(ticks), NEW gap \in Gap, NEW price \in Price, CapStep(gap, price)
    PROVE  /\ ticks' \in Seq(TickRecord) /\ InOrder(ticks')
           /\ \E k \in 0 .. Len(ticks) : Follows(ticks', ticks, gap, k)
           /\ fired' => Full(ticks')
<1>1. ticks' = Seen(gap, price) /\ (fired' => Full(Seen(gap, price)))
  BY DEF CapStep, NotJudged, Dump, Quiet, FellBack, Sparse, Confirms, Fires, Observe,
     Signal, Reclaimed, Recovering, Judged, WindowFull
<1>2. gap \in Nat /\ [age |-> 0, price |-> price] \in TickRecord
  BY WindowConstants
<1>3. ticks \in Seq(TickRecord)
  BY DEF TypeOK
<1>. QED
  BY <1>1, <1>2, <1>3, CapTicks, ObservedWindow DEF Seen

\* An outcome that does not fire: the clocks run on, the detector's own and the
\* one of the history.
LEMMA CapGoesOn ==
    ASSUME CapInv, NEW gap \in Nat, ticks' \in Seq(TickRecord), InOrder(ticks'),
           since_fire' = Later(since_fire, gap, FireLimit), fired' = FALSE, apart' = apart,
           NoFallback(gap),
           pending' \in [on: BOOLEAN, low: Price \cup {0}, age: 0 .. PendingExpire + 1],
           confirm' \in [on: BOOLEAN, age: 0 .. ReclaimConfirm],
           \/ ~confirm'.on
           \/ /\ confirm' = ConfirmOlder(gap)
              /\ pending'.on = PendingOlder(gap).on
              /\ pending'.age = PendingOlder(gap).age
           \/ confirm'.age = 0 /\ pending'.on /\ since_fire + gap >= Debounce
    PROVE  CapInv'
<1>1. /\ since_fire \in 0 .. FireLimit /\ since_fallback \in 0 .. ReclaimConfirm
      /\ FireLimit \in Nat /\ Debounce \in Nat /\ ReclaimConfirm \in Nat
      /\ PendingExpire \in Nat
  BY CapitulationConstants DEF CapInv, TypeOK
<1>2. TypeOK'
  BY <1>1, LaterType DEF CapInv, TypeOK, NoFallback
<1>3. /\ since_fire' \in 0 .. FireLimit
      /\ since_fire' = FireLimit \/ since_fire' = since_fire + gap
      /\ since_fallback' \in 0 .. ReclaimConfirm
      /\ since_fallback' = ReclaimConfirm \/ since_fallback' = since_fallback + gap
  BY <1>1, LaterType DEF NoFallback
<1>4. confirm'.age \in 0 .. ReclaimConfirm /\ pending'.age \in 0 .. PendingExpire + 1
  OBVIOUS
<1>5. CASE ~confirm'.on
  BY <1>2, <1>5 DEF CapInv, ConfirmWithinPending, ConfirmedSince, FiresApart
<1>6. CASE /\ confirm' = ConfirmOlder(gap) /\ confirm'.on
           /\ pending'.on = PendingOlder(gap).on
           /\ pending'.age = PendingOlder(gap).age
  <2>1. /\ confirm.on /\ PendingOlder(gap).on
        /\ confirm'.age <= confirm.age + gap
        /\ confirm'.age <= pending'.age \/ pending'.age > PendingExpire
    BY <1>6, ConfirmationOlder DEF CapInv
  <2>2. confirm.age \in 0 .. ReclaimConfirm
    BY DEF CapInv, TypeOK
  <2>3. since_fire >= Debounce + confirm.age /\ since_fallback >= confirm.age
    BY <2>1 DEF CapInv, ConfirmedSince
  <2>4. since_fire' >= Debounce + confirm'.age
    <3>1. CASE since_fire' = FireLimit
      <4>1. FireLimit = Debounce + ReclaimConfirm /\ confirm'.age <= ReclaimConfirm
        BY <1>4 DEF FireLimit
      <4>. QED
        BY <1>1, <1>4, <3>1, <4>1
    <3>2. CASE since_fire' = since_fire + gap
      <4>1. since_fire + gap >= Debounce + confirm.age + gap
        BY <1>1, <2>2, <2>3
      <4>. QED
        BY <1>1, <1>4, <2>1, <2>2, <3>2, <4>1, SMTT(30)
    <3>. QED
      BY <1>3, <3>1, <3>2
  <2>5. since_fallback' >= confirm'.age
    BY <1>1, <1>3, <1>4, <2>1, <2>2, <2>3, SMTT(30)
  <2>. QED
    BY <1>2, <1>6, <2>1, <2>4, <2>5 DEF CapInv, ConfirmWithinPending, ConfirmedSince, FiresApart
<1>7. CASE confirm'.age = 0 /\ pending'.on /\ since_fire + gap >= Debounce
  <2>1. since_fire' >= Debounce + 0 /\ since_fallback' >= 0 /\ 0 <= pending'.age
    BY <1>1, <1>3, <1>4, <1>7
  <2>. QED
    BY <1>2, <1>7, <2>1 DEF CapInv, ConfirmWithinPending, ConfirmedSince, FiresApart
<1>. QED
  BY <1>5, <1>6, <1>7

\* Every tick keeps the detector's clocks in step (capitulation.rs 104-200).
LEMMA CapStepKeeps ==
    ASSUME CapInv, NEW gap \in Gap, NEW price \in Price, CapStep(gap, price)
    PROVE  CapInv' /\ (fired' => since_fallback' = ReclaimConfirm)
<1>. DEFINE P == [on: BOOLEAN, low: Price \cup {0}, age: 0 .. PendingExpire + 1]
            C == [on: BOOLEAN, age: 0 .. ReclaimConfirm]
<1>1. gap \in Nat /\ ticks' \in Seq(TickRecord) /\ InOrder(ticks')
  BY CapWindow, WindowConstants DEF CapInv
<1>2. /\ PendingOlder(gap) \in P /\ Pending(gap) \in P /\ ConfirmOlder(gap) \in C
      /\ Confirmation(gap) \in C /\ NotConfirming \in C /\ NoPending \in P
      /\ Confirmation(gap).on => Pending(gap).on /\ ConfirmOlder(gap) = Confirmation(gap)
      /\ Pending(gap).on => pending.on /\ Pending(gap) = PendingOlder(gap)
                            /\ Confirmation(gap) = ConfirmOlder(gap)
  BY <1>1, ConfirmationOlder, CapitulationConstants DEF CapInv
<1>3. /\ since_fire \in 0 .. FireLimit /\ since_fallback \in 0 .. ReclaimConfirm
      /\ Debounce \in Nat /\ ReclaimConfirm \in Nat /\ FireLimit \in Nat
      /\ apart = FireLimit
  BY CapitulationConstants DEF CapInv, TypeOK, FiresApart
<1>4. CASE NotJudged(gap, price) \/ Sparse(gap, price)
  BY <1>1, <1>2, <1>4, CapGoesOn DEF NotJudged, Sparse, Observe
<1>5. CASE Quiet(gap, price)
  BY <1>1, <1>2, <1>5, CapGoesOn DEF Quiet, Observe
<1>6. CASE Dump(gap, price)
  <2>1. /\ Observe(gap, price) /\ NoFallback(gap) /\ pending' \in P /\ confirm' \in C
        /\ \/ ~confirm'.on
           \/ /\ confirm' = Confirmation(gap) /\ Pending(gap).on
              /\ pending'.on = Pending(gap).on /\ pending'.age = Pending(gap).age
    <3>1. [on |-> TRUE, low |-> price, age |-> 0] \in P
      BY CapitulationConstants
    <3>2. [Pending(gap) EXCEPT !.low = price] \in P
      BY <1>2
    <3>. QED
      BY <1>2, <1>6, <3>1, <3>2 DEF Dump
  <2>. QED
    BY <1>1, <1>2, <2>1, CapGoesOn DEF Observe
<1>7. CASE FellBack(gap, price)
  <2>1. TypeOK'
    BY <1>1, <1>2, <1>3, <1>7, LaterType DEF FellBack, Observe, CapInv, TypeOK
  <2>. QED
    BY <1>1, <1>7, <2>1 DEF FellBack, Observe, CapInv, ConfirmWithinPending, ConfirmedSince,
       FiresApart
<1>8. ASSUME Recovering(gap, price)
      PROVE  /\ pending.on /\ PendingOlder(gap).on /\ since_fire + gap >= Debounce
             /\ Confirming(gap) \in C /\ Confirming(gap).on
             /\ \/ confirm.on /\ Confirming(gap) = ConfirmOlder(gap)
                \/ ~confirm.on /\ Confirming(gap).age = 0
  <2>1. pending.on /\ PendingOlder(gap).on /\ ~(since_fire + gap < Debounce)
    BY <1>2, <1>8 DEF Recovering, Judged, Debounced
  <2>2. 0 \in 0 .. ReclaimConfirm
    BY <1>3
  <2>3. confirm.on => ConfirmOlder(gap).on
    BY DEF ConfirmOlder, CapInv, TypeOK
  <2>. QED
    BY <1>1, <1>2, <1>3, <2>1, <2>2, <2>3 DEF Confirming
<1>9. CASE Confirms(gap, price)
  <2>1. Recovering(gap, price)
    BY <1>9 DEF Confirms, Reclaimed
  <2>. QED
    BY <1>1, <1>2, <1>8, <1>9, <2>1, CapGoesOn DEF Confirms, Observe
<1>10. CASE Fires(gap, price)
  <2>1. Recovering(gap, price) /\ Confirming(gap).age >= ReclaimConfirm
    BY <1>10 DEF Fires, Reclaimed
  <2>2. ASSUME confirm.on
        PROVE  since_fire + gap >= FireLimit /\ since_fallback + gap >= ReclaimConfirm
    <3>1. confirm.age \in 0 .. ReclaimConfirm /\ Confirming(gap).age <= confirm.age + gap
      BY <1>1, <1>8, <2>1, <2>2, ConfirmationOlder DEF CapInv, TypeOK, Confirming, ConfirmOlder
    <3>2. since_fire >= Debounce + confirm.age /\ since_fallback >= confirm.age
      BY <2>2 DEF CapInv, ConfirmedSince
    <3>3. Confirming(gap).age \in 0 .. ReclaimConfirm
      BY <1>8, <2>1
    <3>. QED
      BY <1>1, <1>3, <2>1, <3>1, <3>2, <3>3
  <2>3. ASSUME ~confirm.on
        PROVE  since_fire + gap >= FireLimit /\ since_fallback + gap >= ReclaimConfirm
    <3>1. ReclaimConfirm = 0
      BY <1>3, <1>8, <2>1, <2>3
    <3>. QED
      BY <1>1, <1>3, <1>8, <2>1, <3>1
  <2>4. /\ apart' = FireLimit /\ since_fallback' = ReclaimConfirm
        /\ since_fire' = 0 /\ fired' = TRUE /\ pending' = NoPending /\ confirm' = NotConfirming
    BY <1>1, <1>3, <1>10, <2>2, <2>3 DEF Fires, Signal, NoFallback, Later
  <2>5. TypeOK'
    BY <1>1, <1>2, <1>3, <2>4 DEF TypeOK
  <2>. QED
    BY <1>1, <2>4, <2>5 DEF CapInv, ConfirmWithinPending, ConfirmedSince, FiresApart
<1>. QED
  BY <1>4, <1>5, <1>6, <1>7, <1>9, <1>10 DEF CapStep, Observe

-----------------------------------------------------------------------------
(* The dip-buy detector. *)

USE DEF DipTick

DipInv == DipTypeOK /\ InOrder(dip_ticks)

\* Its ticks are ticks.
LEMMA DipTicks == IsTick(DipTick)
  BY DEF IsTick

\* A tick is recorded, and the clock of the last fire runs on or starts anew: it
\* does so only when the cooldown has passed and the window is full
\* (dip_buy.rs 91-138).
LEMMA DipStepKeeps ==
    ASSUME DipInv, NEW gap \in Gap, NEW quote \in Quote, DipStep(gap, quote)
    PROVE  /\ DipInv'
           /\ \E k \in 0 .. Len(dip_ticks) : Follows(dip_ticks', dip_ticks, gap, k)
           /\ dip_fired' => /\ Full(dip_ticks') /\ since_dip_fire' = 0
                            /\ since_dip_fire + gap >= FireCooldown
           /\ ~dip_fired' => since_dip_fire' = Later(since_dip_fire, gap, FireCooldown)
<1>1. gap \in Nat /\ quote.price \in Nat /\ quote.pool \in Nat
  BY WindowConstants, DipBuyConstants
<1>2. [age |-> 0, price |-> quote.price, pool |-> quote.pool] \in DipTick
  BY <1>1, WindowConstants
<1>3. dip_ticks' = DipSeen(gap, quote) /\ session_age' = Later(session_age, gap, MaxAge + 1)
  BY DEF DipStep, DipFires, NoDip, DipObserve
<1>4. /\ dip_ticks' \in Seq(DipTick) /\ InOrder(dip_ticks')
      /\ \E k \in 0 .. Len(dip_ticks) : Follows(dip_ticks', dip_ticks, gap, k)
  BY <1>1, <1>2, <1>3, DipTicks, ObservedWindow DEF DipInv, DipTypeOK, DipSeen
<1>5. /\ MaxAge + 1 \in Nat /\ FireCooldown \in Nat
      /\ session_age \in 0 .. MaxAge + 1 /\ since_dip_fire \in 0 .. FireCooldown
  BY DipBuyConstants DEF DipInv, DipTypeOK
<1>6. session_age' \in 0 .. MaxAge + 1
  BY <1>1, <1>3, <1>5, LaterType
<1>7. CASE DipFires(gap, quote)
  <2>1. /\ Full(dip_ticks') /\ since_dip_fire' = 0 /\ dip_fired' = TRUE
        /\ since_dip_fire + gap >= FireCooldown
    BY <1>3, <1>7 DEF DipFires, DipJudged
  <2>. QED
    BY <1>4, <1>5, <1>6, <2>1 DEF DipInv, DipTypeOK
<1>8. CASE NoDip(gap, quote)
  <2>1. since_dip_fire' = Later(since_dip_fire, gap, FireCooldown) /\ dip_fired' = FALSE
    BY <1>8 DEF NoDip
  <2>2. since_dip_fire' \in 0 .. FireCooldown
    BY <1>1, <1>5, <2>1, LaterType
  <2>. QED
    BY <1>4, <1>6, <2>1, <2>2 DEF DipInv, DipTypeOK
<1>. QED
  BY <1>7, <1>8 DEF DipStep

-----------------------------------------------------------------------------
(* The candles and the MACD. *)

\* How many candles have been closed, as far as the averages tell.
Closed(f) == IF f.signal = 0 THEN f.slow ELSE Slow + f.signal - 1

\* The fast average has a value before the slow one, the signal line is fed from
\* the candle that fills the slow one on, and the MACD line is compared with it
\* from the candle that fills the signal line on.
FedInv ==
    /\ fed.fast >= fed.slow \/ fed.fast = Fast
    /\ fed.slow = Slow <=> fed.signal > 0
    /\ line # "unset" => fed.signal = SignalPeriod

\* A first tick opened the first bar.
NoBarYet == ~bar.open => fed = [fast |-> 0, slow |-> 0, signal |-> 0] /\ line = "unset"

CandleInv == CandleTypeOK /\ FedInv /\ NoBarYet

FedRecord == [fast: 0 .. Fast, slow: 0 .. Slow, signal: 0 .. SignalPeriod]

\* An input counts for one average, until its period is filled (macd.rs 27-49).
LEMMA FeedOne ==
    ASSUME NEW f \in FedRecord, NEW average \in {"fast", "slow", "signal"}
    PROVE  /\ Feed(f, average) \in FedRecord
           /\ Feed(f, average)[average] =
                  IF f[average] < Period[average] THEN f[average] + 1 ELSE f[average]
           /\ \A other \in {"fast", "slow", "signal"} \ {average} :
                  Feed(f, average)[other] = f[other]
<1>1. Fast \in Nat /\ Slow \in Nat /\ SignalPeriod \in Nat
  BY CandleConstants
<1>2. f.fast \in 0 .. Fast /\ f.slow \in 0 .. Slow /\ f.signal \in 0 .. SignalPeriod
  BY DEF FedRecord
<1>3. CASE average = "fast"
  BY <1>1, <1>2, <1>3 DEF FedRecord, Feed, Period
<1>4. CASE average = "slow"
  BY <1>1, <1>2, <1>4 DEF FedRecord, Feed, Period
<1>5. CASE average = "signal"
  BY <1>1, <1>2, <1>5 DEF FedRecord, Feed, Period
<1>. QED
  BY <1>3, <1>4, <1>5

\* A close counts as one candle at most (macd.rs 151-178).
LEMMA OneMoreCandle ==
    ASSUME CandleInv
    PROVE  /\ Fed \in FedRecord
           /\ Fed.fast >= Fed.slow \/ Fed.fast = Fast
           /\ Fed.slow = Slow <=> Fed.signal > 0
           /\ fed.signal = SignalPeriod => Fed.signal = SignalPeriod
           /\ Closed(fed) \in Nat /\ Closed(Fed) \in {Closed(fed), Closed(fed) + 1}
<1>. DEFINE e == Feed(fed, "fast")
            f == Feed(e, "slow")
            g == Feed(f, "signal")
<1>1. /\ fed \in FedRecord
      /\ Fast \in Nat \ {0} /\ Slow \in Nat /\ Fast < Slow /\ SignalPeriod \in Nat \ {0}
  BY CandleConstants DEF CandleInv, CandleTypeOK, FedRecord
<1>2. Period.fast = Fast /\ Period.slow = Slow /\ Period.signal = SignalPeriod
  BY DEF Period
<1>3. /\ e \in FedRecord /\ e.slow = fed.slow /\ e.signal = fed.signal
      /\ e.fast = IF fed.fast < Fast THEN fed.fast + 1 ELSE fed.fast
  BY <1>1, <1>2, FeedOne
<1>. HIDE DEF e
<1>4. /\ f \in FedRecord /\ f.fast = e.fast /\ f.signal = e.signal
      /\ f.slow = IF e.slow < Slow THEN e.slow + 1 ELSE e.slow
  BY <1>2, <1>3, FeedOne
<1>. HIDE DEF f
<1>5. /\ g \in FedRecord /\ g.fast = f.fast /\ g.slow = f.slow
      /\ g.signal = IF f.signal < SignalPeriod THEN f.signal + 1 ELSE f.signal
  BY <1>2, <1>4, FeedOne
<1>. HIDE DEF g
<1>6. Fed = IF f.fast >= Fast /\ f.slow >= Slow THEN g ELSE f
  BY <1>2 DEF Fed, Live, e, f, g
<1>7. /\ fed.fast \in 0 .. Fast /\ fed.slow \in 0 .. Slow /\ fed.signal \in 0 .. SignalPeriod
      /\ fed.fast >= fed.slow \/ fed.fast = Fast
      /\ fed.slow = Slow <=> fed.signal > 0
  BY <1>1 DEF FedRecord, CandleInv, FedInv
<1>8. CASE f.fast >= Fast /\ f.slow >= Slow
  <2>1. Fed = g
    BY <1>6, <1>8
  <2>. QED
    BY <1>1, <1>3, <1>4, <1>5, <1>7, <1>8, <2>1 DEF Closed
<1>9. CASE ~(f.fast >= Fast /\ f.slow >= Slow)
  <2>1. Fed = f
    BY <1>6, <1>9
  <2>. QED
    BY <1>1, <1>3, <1>4, <1>7, <1>9, <2>1 DEF Closed
<1>. QED
  BY <1>8, <1>9

\* The candles closed so far took their time.
Elapsed ==
    bar.open => \/ since_first >= WarmupSecs
                \/ since_first >= Closed(fed) * Interval + bar.age

\* The next bar starts at the boundary passed last (macd.rs 151-165).
LEMMA BarTime ==
    ASSUME NEW c \in Nat, NEW n \in Nat \ {0}, NEW t \in Nat, t >= n
    PROVE  /\ t % n \in 0 .. n - 1
           /\ (c + 1) * n + (t % n) <= c * n + t
           /\ c * n + (t % n) <= c * n + t
<1>1. t % n \in 0 .. n - 1 /\ t % n <= t - n
  OBVIOUS
<1>2. (c + 1) * n = c * n + n /\ c * n \in Nat
  OBVIOUS
<1>. QED
  BY <1>1, <1>2

\* A crossing takes a candle more than the warm-up of the averages does, and the
\* candles take their time (macd.rs 60-93, 151-178).
LEMMA CandleStepKeeps ==
    ASSUME CandleInv, Elapsed, since_first \in 0 .. WarmupSecs, NEW gap \in Nat,
           CandleStep(gap),
           since_first' = IF bar.open THEN Later(since_first, gap, WarmupSecs) ELSE 0
    PROVE  /\ CandleInv' /\ Elapsed' /\ bar'.open
           /\ since_first' \in 0 .. WarmupSecs /\ NoCrossDuringWarmup'
<1>1. /\ Interval \in Nat \ {0} /\ Slow \in Nat /\ SignalPeriod \in Nat \ {0}
      /\ WarmupSecs = (Slow + SignalPeriod) * Interval
  BY CandleConstants DEF WarmupSecs
<1>2. WarmupSecs \in Nat
  BY <1>1
<1>. HIDE DEF WarmupSecs
<1>3. /\ since_first' \in 0 .. WarmupSecs
      /\ bar.open => \/ since_first' = WarmupSecs
                     \/ since_first' = since_first + gap
      /\ bar.open /\ since_first >= WarmupSecs => since_first' = WarmupSecs
  BY <1>2 DEF Later
<1>4. /\ bar \in [open: BOOLEAN, age: 0 .. Interval - 1] /\ fed \in FedRecord
      /\ bar.age \in 0 .. Interval - 1 /\ line \in Relation \cup {"unset"}
      /\ event \in {"none", "warmup", "nocross", "bullish", "bearish"}
  BY DEF CandleInv, CandleTypeOK, FedRecord
<1>5. CASE OpensFirst
  <2>1. /\ bar' = [open |-> TRUE, age |-> 0] /\ event' = "none" /\ UNCHANGED <<fed, line>>
        /\ fed = [fast |-> 0, slow |-> 0, signal |-> 0]
    BY <1>5 DEF OpensFirst, CandleInv, NoBarYet
  <2>2. Closed(fed) * Interval + 0 = 0
    BY <1>1, <2>1 DEF Closed
  <2>. QED
    BY <1>1, <1>3, <1>4, <2>1, <2>2 DEF CandleInv, CandleTypeOK, FedInv, NoBarYet, Elapsed,
       Closed, NoCrossDuringWarmup
<1>6. CASE SameBar(gap)
  <2>1. /\ bar.open /\ bar'.open /\ bar'.age = bar.age + gap
        /\ bar' \in [open: BOOLEAN, age: 0 .. Interval - 1]
        /\ event' = "none" /\ UNCHANGED <<fed, line>>
    BY <1>1, <1>4, <1>6 DEF SameBar
  <2>2. CandleInv'
    BY <1>4, <2>1 DEF CandleInv, CandleTypeOK, FedInv, NoBarYet
  <2>3. Closed(fed) * Interval \in Nat
    BY <1>1, OneMoreCandle
  <2>4. Elapsed'
    BY <1>2, <1>3, <1>4, <2>1, <2>3 DEF Elapsed, Closed
  <2>. QED
    BY <1>3, <2>1, <2>2, <2>4 DEF NoCrossDuringWarmup
<1>7. ASSUME Closes(gap), fed' = Fed, event' \in {"warmup", "nocross", "bullish", "bearish"},
             \/ line' = line /\ event' = "warmup"
             \/ line' \in Relation /\ Fed.signal = SignalPeriod,
             event' \in {"bullish", "bearish"} => line # "unset"
      PROVE  /\ CandleInv' /\ Elapsed' /\ bar'.open
             /\ since_first' \in 0 .. WarmupSecs /\ NoCrossDuringWarmup'
  <2>. DEFINE t == bar.age + gap
              c == Closed(fed)
              before == c * Interval
              after == (c + 1) * Interval
              over == t % Interval
  <2>1. bar.open /\ bar' = [open |-> TRUE, age |-> over] /\ t \in Nat /\ t >= Interval
    BY <1>1, <1>4, <1>7 DEF Closes, NextBar
  <2>2. /\ Fed \in FedRecord
        /\ Fed.fast >= Fed.slow \/ Fed.fast = Fast
        /\ Fed.slow = Slow <=> Fed.signal > 0
        /\ fed.signal = SignalPeriod => Fed.signal = SignalPeriod
        /\ c \in Nat /\ Closed(Fed) \in {c, c + 1}
    BY OneMoreCandle
  <2>3. /\ over \in 0 .. Interval - 1 /\ before \in Nat /\ after \in Nat
        /\ after + over <= before + t /\ before + over <= before + t
    BY <1>1, <2>1, <2>2, BarTime
  <2>4. bar' \in [open: BOOLEAN, age: 0 .. Interval - 1] /\ bar'.age = over /\ bar'.open
    BY <2>1, <2>3
  <2>5. CandleInv'
    BY <1>4, <1>7, <2>2, <2>4 DEF CandleInv, CandleTypeOK, FedInv, NoBarYet, FedRecord, Relation
  <2>6. Closed(fed') * Interval \in {before, after}
    BY <1>7, <2>2
  <2>7. c + 1 = Slow + SignalPeriod => after = WarmupSecs
    BY <1>1
  <2>8. since_first >= WarmupSecs \/ since_first >= before + bar.age
    BY <2>1 DEF Elapsed
  <2>. HIDE DEF before, after, over
  <2>9. since_first' = WarmupSecs \/ since_first' >= before + t
    <3>1. CASE since_first >= WarmupSecs
      BY <1>3, <2>1, <3>1
    <3>2. CASE since_first >= before + bar.age
      BY <1>2, <1>3, <1>4, <2>1, <2>3, <3>2
    <3>. QED
      BY <2>8, <3>1, <3>2
  <2>10. Elapsed'
    <3>1. since_first' = WarmupSecs \/ since_first' >= Closed(fed') * Interval + over
      BY <1>1, <1>2, <1>3, <2>1, <2>3, <2>6, <2>9
    <3>. QED
      BY <1>2, <2>4, <3>1 DEF Elapsed, Closed
  <2>11. ASSUME event' \in {"bullish", "bearish"} PROVE since_first' >= WarmupSecs
    <3>1. fed.signal = SignalPeriod
      BY <1>7, <2>11 DEF CandleInv, FedInv
    <3>2. c + 1 = Slow + SignalPeriod
      BY <1>1, <3>1 DEF Closed
    <3>. QED
      BY <1>1, <1>2, <1>3, <2>1, <2>3, <2>7, <2>9, <3>2
  <2>. QED
    BY <1>3, <2>4, <2>5, <2>10, <2>11 DEF NoCrossDuringWarmup
<1>8. CASE WarmingUp(gap)
  BY <1>7, <1>8 DEF WarmingUp
<1>9. ASSUME NEW to \in Relation, Judges(gap, to)
      PROVE  /\ CandleInv' /\ Elapsed' /\ bar'.open
             /\ since_first' \in 0 .. WarmupSecs /\ NoCrossDuringWarmup'
  <2>1. Fed.signal = SignalPeriod
    BY <1>1, <1>9, OneMoreCandle DEF Judges, Live, Period, FedRecord
  <2>2. event' = Crossing(to) /\ line' = to
    BY <1>9 DEF Judges
  <2>3. /\ event' \in {"nocross", "bullish", "bearish"}
        /\ event' \in {"bullish", "bearish"} => line # "unset"
    BY <2>2 DEF Crossing
  <2>. QED
    BY <1>7, <1>9, <2>1, <2>2, <2>3 DEF Judges
<1>. QED
  BY <1>5, <1>6, <1>8, <1>9 DEF CandleStep

-----------------------------------------------------------------------------
(* The detectors of a session and the history of its ticks. *)

HistoryOK ==
    /\ since_silence \in 0 .. Window /\ since_sparse \in 0 .. Window
    /\ since_first \in 0 .. WarmupSecs /\ since_last \in 0 .. Window + 1

\* A detector that may not buy sees no ticks.
OneDetector ==
    /\ mode \in EntryModes
    /\ mode # "capitulation" => ticks = << >> /\ ~fired
    /\ mode # "dip_buy" => dip_ticks = << >> /\ ~dip_fired
    /\ mode # "macd" => ~bar.open /\ event = "none"

WindowInv(q) ==
    /\ AfterSilence(q, since_silence)
    /\ Reaches(q, since_sparse) /\ NoGaps(q, since_sparse)
    /\ fired \/ dip_fired => Full(q)

\* The history saw the last fire when the detector did, and a fire is at least the
\* cooldown after the one before.
LastFire ==
    \/ /\ dip_fired /\ since_dip_fire = 0
       /\ FireCooldown >= Window => since_last >= Window
    \/ ~dip_fired /\ (since_last >= since_dip_fire \/ since_last = Window + 1)

SigInv ==
    /\ HistoryOK /\ OneDetector /\ CapInv /\ DipInv /\ CandleInv /\ Elapsed
    /\ NoCrossDuringWarmup /\ WindowInv(TickQueue) /\ LastFire

\* The oldest tick of a window is its first one.
LEMMA HeadIsFirst ==
    ASSUME NEW R, NEW q \in Seq(R)
    PROVE  /\ Len(q) > 0 <=> q # << >>
           /\ q # << >> => Head(q) = q[1]
  BY EmptySeq, LenProperties

\* The windows of both detectors hold ages.
LEMMA WindowAges ==
    ASSUME TypeOK, DipTypeOK
    PROVE  Ages(ticks) /\ Ages(dip_ticks)
<1>1. ASSUME NEW R, IsTick(R), NEW q \in Seq(R) PROVE Ages(q)
  <2>1. Len(q) \in Nat /\ 0 \in 0 .. Window
    BY WindowConstants, LenProperties
  <2>2. \A i \in 1 .. Len(q) : q[i] \in R
    BY ElementOfSeq
  <2>. QED
    BY <1>1, <2>1, <2>2 DEF Ages, IsTick
<1>. QED
  BY <1>1, CapTicks, DipTicks DEF TypeOK, DipTypeOK

\* The clocks of the history keep their ranges.
LEMMA HistoryTyped ==
    ASSUME HistoryOK, NEW gap \in Nat, History(gap)
    PROVE  HistoryOK'
<1>1. /\ Window \in Nat \ {0} /\ Window + 1 \in Nat
      /\ 0 \in 0 .. Window + 1 /\ 0 \in 0 .. Window
  BY WindowConstants
<1>2. WarmupSecs \in Nat /\ 0 \in 0 .. WarmupSecs
  BY CandleConstants DEF WarmupSecs
<1>. HIDE DEF WarmupSecs
<1>3. since_silence' \in 0 .. Window /\ since_sparse' \in 0 .. Window
  BY <1>1, LaterType DEF HistoryOK, History, Counted
<1>4. since_first' \in 0 .. WarmupSecs
  BY <1>2, LaterType DEF HistoryOK, History, Counted
<1>5. since_last' \in 0 .. Window + 1
  BY <1>1, LaterType DEF HistoryOK, History
<1>. QED
  BY <1>3, <1>4, <1>5 DEF HistoryOK

\* What a tick does to the history of the detector with window q, w after it.
LEMMA HistoryOfWindow ==
    ASSUME HistoryOK, NEW gap \in Nat, History(gap), NEW q, NEW w, Ages(q), InOrder(q),
           WindowInv(q), Started <=> Len(q) > 0,
           \E k \in 0 .. Len(q) : Follows(w, q, gap, k)
    PROVE  /\ AfterSilence(w, since_silence')
           /\ Reaches(w, since_sparse') /\ NoGaps(w, since_sparse')
<1>1. /\ since_silence' = SilenceAfter(since_silence, gap, q)
      /\ since_sparse' = SparseAfter(since_sparse, gap, q)
  BY DEF History, Counted, SilenceAfter, SparseAfter, CountedOn
<1>2. PICK k \in 0 .. Len(q) : Follows(w, q, gap, k)
  OBVIOUS
<1>. QED
  BY <1>1, <1>2, SilenceEvicts, DenseWindow DEF WindowInv, HistoryOK

\* A tick for the capitulation detector.
LEMMA CapTickKeeps ==
    ASSUME SigInv, NEW gap \in Gap, NEW price \in Price, CapTick(gap, price)
    PROVE  SigInv' /\ (fired' => since_fallback' = ReclaimConfirm)
<1>1. /\ mode = "capitulation" /\ mode' = mode /\ CapStep(gap, price) /\ History(gap)
      /\ UNCHANGED <<dipVars, candleVars>> /\ gap \in Nat
  BY WindowConstants DEF CapTick
<1>2. CapInv' /\ (fired' => since_fallback' = ReclaimConfirm)
  BY <1>1, CapStepKeeps DEF SigInv
<1>3. HistoryOK'
  BY <1>1, HistoryTyped DEF SigInv
<1>4. /\ DipInv' /\ CandleInv' /\ Elapsed' /\ NoCrossDuringWarmup' /\ OneDetector'
      /\ ~dip_fired /\ ~dip_fired'
  BY <1>1 DEF SigInv, OneDetector, dipVars, candleVars, DipInv, DipTypeOK, CandleInv,
     CandleTypeOK, FedInv, NoBarYet, Elapsed, NoCrossDuringWarmup
<1>5. WindowInv(TickQueue)'
  <2>1. TickQueue = ticks /\ TickQueue' = ticks'
    BY <1>1 DEF TickQueue
  <2>2. Ages(ticks) /\ InOrder(ticks) /\ WindowInv(ticks) /\ HistoryOK
    BY <2>1, WindowAges DEF SigInv, CapInv, DipInv
  <2>3. Started <=> Len(ticks) > 0
    BY <1>1, HeadIsFirst DEF Started, SigInv, OneDetector, CapInv, TypeOK
  <2>4. /\ \E k \in 0 .. Len(ticks) : Follows(ticks', ticks, gap, k)
        /\ fired' => Full(ticks')
    BY <1>1, CapWindow DEF SigInv, CapInv
  <2>5. /\ AfterSilence(ticks', since_silence')
        /\ Reaches(ticks', since_sparse') /\ NoGaps(ticks', since_sparse')
    BY <1>1, <2>2, <2>3, <2>4, HistoryOfWindow
  <2>. QED
    BY <1>4, <2>1, <2>4, <2>5 DEF WindowInv, AfterSilence, Reaches, NoGaps, Full
<1>6. LastFire'
  <2>1. since_last' = Later(since_last, gap, Window + 1) /\ since_dip_fire' = since_dip_fire
    BY <1>1, <1>4 DEF History, dipVars
  <2>2. /\ since_last \in 0 .. Window + 1 /\ Window + 1 \in Nat
        /\ since_dip_fire \in 0 .. FireCooldown /\ FireCooldown \in Nat
    BY WindowConstants, DipBuyConstants DEF SigInv, HistoryOK, DipInv, DipTypeOK
  <2>3. since_last >= since_dip_fire \/ since_last = Window + 1
    BY <1>4 DEF SigInv, LastFire
  <2>4. since_last' >= since_dip_fire \/ since_last' = Window + 1
    BY <1>1, <2>1, <2>2, <2>3 DEF Later
  <2>. QED
    BY <1>4, <2>1, <2>4 DEF LastFire
<1>. QED
  BY <1>2, <1>3, <1>4, <1>5, <1>6 DEF SigInv

\* A tick for the dip-buy detector.
LEMMA DipBuyTickKeeps ==
    ASSUME SigInv, NEW gap \in Gap, NEW quote \in Quote, DipBuyTick(gap, quote)
    PROVE  SigInv'
<1>1. /\ mode = "dip_buy" /\ mode' = mode /\ DipStep(gap, quote) /\ History(gap)
      /\ UNCHANGED <<vars, candleVars>> /\ gap \in Nat
  BY WindowConstants DEF DipBuyTick
<1>2. /\ DipInv'
      /\ \E k \in 0 .. Len(dip_ticks) : Follows(dip_ticks', dip_ticks, gap, k)
      /\ dip_fired' => /\ Full(dip_ticks') /\ since_dip_fire' = 0
                       /\ since_dip_fire + gap >= FireCooldown
      /\ ~dip_fired' => since_dip_fire' = Later(since_dip_fire, gap, FireCooldown)
  BY <1>1, DipStepKeeps DEF SigInv
<1>3. HistoryOK'
  BY <1>1, HistoryTyped DEF SigInv
<1>4. /\ CapInv' /\ CandleInv' /\ Elapsed' /\ NoCrossDuringWarmup' /\ OneDetector'
      /\ ~fired /\ ~fired'
  BY <1>1 DEF SigInv, OneDetector, vars, candleVars, CapInv, TypeOK, InOrder,
     ConfirmWithinPending, ConfirmedSince, FiresApart, CandleInv,
     CandleTypeOK, FedInv, NoBarYet, Elapsed, NoCrossDuringWarmup
<1>5. WindowInv(TickQueue)'
  <2>1. TickQueue = dip_ticks /\ TickQueue' = dip_ticks'
    BY <1>1 DEF TickQueue
  <2>2. Ages(dip_ticks) /\ InOrder(dip_ticks) /\ WindowInv(dip_ticks) /\ HistoryOK
    BY <2>1, WindowAges DEF SigInv, CapInv, DipInv
  <2>3. Started <=> Len(dip_ticks) > 0
    BY <1>1, HeadIsFirst DEF Started, SigInv, OneDetector, DipInv, DipTypeOK
  <2>4. /\ AfterSilence(dip_ticks', since_silence')
        /\ Reaches(dip_ticks', since_sparse') /\ NoGaps(dip_ticks', since_sparse')
    BY <1>1, <1>2, <2>2, <2>3, HistoryOfWindow
  <2>. QED
    BY <1>2, <1>4, <2>1, <2>4 DEF WindowInv, AfterSilence, Reaches, NoGaps, Full
<1>6. LastFire'
  <2>1. since_last' = IF dip_fired THEN Later(0, gap, Window + 1)
                      ELSE Later(since_last, gap, Window + 1)
    BY <1>1 DEF History
  <2>2. /\ since_last \in 0 .. Window + 1 /\ Window \in Nat \ {0}
        /\ since_dip_fire \in 0 .. FireCooldown /\ FireCooldown \in Nat
        /\ dip_fired' \in BOOLEAN
    BY <1>2, WindowConstants, DipBuyConstants DEF SigInv, HistoryOK, DipInv, DipTypeOK
  <2>3. since_last' = Window + 1 \/ since_last' >= since_dip_fire + gap
    BY <1>1, <2>1, <2>2 DEF SigInv, LastFire, Later
  <2>4. /\ dip_fired' => since_dip_fire' = 0 /\ since_dip_fire + gap >= FireCooldown
        /\ ~dip_fired' => since_dip_fire' = Later(since_dip_fire, gap, FireCooldown)
        /\ since_last' \in 0 .. Window + 1
    BY <1>2, <1>3 DEF HistoryOK
  <2>5. CASE dip_fired'
    <3>1. FireCooldown >= Window => since_last' >= Window
      BY <1>1, <2>2, <2>3, <2>4, <2>5
    <3>. QED
      BY <2>4, <2>5, <3>1 DEF LastFire
  <2>6. CASE ~dip_fired'
    <3>1. since_last' >= since_dip_fire' \/ since_last' = Window + 1
      BY <1>1, <2>2, <2>3, <2>4, <2>6 DEF Later
    <3>. QED
      BY <2>6, <3>1 DEF LastFire
  <2>. QED
    BY <2>5, <2>6
<1>. QED
  BY <1>2, <1>3, <1>4, <1>5, <1>6 DEF SigInv

\* A tick for the candles.
LEMMA MacdTickKeeps ==
    ASSUME SigInv, NEW gap \in Gap, MacdTick(gap)
    PROVE  SigInv'
<1>1. /\ mode = "macd" /\ mode' = mode /\ CandleStep(gap) /\ History(gap)
      /\ UNCHANGED <<vars, dipVars>> /\ gap \in Nat
  BY WindowConstants DEF MacdTick
<1>2. /\ ticks = << >> /\ dip_ticks = << >> /\ ~fired /\ ~dip_fired
      /\ ticks' = << >> /\ dip_ticks' = << >> /\ ~fired' /\ ~dip_fired'
  BY <1>1 DEF SigInv, OneDetector, vars, dipVars
<1>3. HistoryOK'
  BY <1>1, HistoryTyped DEF SigInv
<1>4. CapInv' /\ DipInv'
  BY <1>1 DEF SigInv, vars, dipVars, CapInv, TypeOK, InOrder,
     ConfirmWithinPending, ConfirmedSince, FiresApart, DipInv, DipTypeOK
<1>5. CandleInv' /\ Elapsed' /\ bar'.open /\ NoCrossDuringWarmup'
  <2>1. since_first' = IF bar.open THEN Later(since_first, gap, WarmupSecs) ELSE 0
    BY <1>1, <1>2 DEF History, Counted, Started
  <2>. QED
    BY <1>1, <2>1, CandleStepKeeps DEF SigInv, HistoryOK
<1>6. OneDetector'
  BY <1>1, <1>2 DEF SigInv, OneDetector
<1>7. WindowInv(TickQueue)'
  BY <1>1, <1>2, EmptySeq DEF TickQueue, WindowInv, AfterSilence, Reaches, NoGaps
<1>8. LastFire'
  <2>1. since_last' = Later(since_last, gap, Window + 1) /\ since_dip_fire' = since_dip_fire
    BY <1>1, <1>2 DEF History, dipVars
  <2>2. /\ since_last \in 0 .. Window + 1 /\ Window + 1 \in Nat
        /\ since_dip_fire \in 0 .. FireCooldown /\ FireCooldown \in Nat
    BY WindowConstants, DipBuyConstants DEF SigInv, HistoryOK, DipInv, DipTypeOK
  <2>3. since_last' >= since_dip_fire \/ since_last' = Window + 1
    BY <1>1, <1>2, <2>1, <2>2 DEF Later, SigInv, LastFire
  <2>. QED
    BY <1>2, <2>1, <2>3 DEF LastFire
<1>. QED
  BY <1>3, <1>4, <1>5, <1>6, <1>7, <1>8 DEF SigInv

\* No detector has seen a tick at the start.
LEMMA SignalsStart == SignalsInit => SigInv
<1>. SUFFICES ASSUME SignalsInit PROVE SigInv
  OBVIOUS
<1>1. /\ PendingExpire \in Nat /\ ReclaimConfirm \in Nat /\ Debounce \in Nat
      /\ Window \in Nat \ {0} /\ FireCooldown \in Nat /\ MaxAge \in Nat
      /\ Interval \in Nat \ {0} /\ Fast \in Nat \ {0} /\ Slow \in Nat /\ Fast < Slow
      /\ SignalPeriod \in Nat \ {0} /\ WarmupSecs \in Nat
  BY CapitulationConstants, WindowConstants, DipBuyConstants, CandleConstants DEF WarmupSecs
<1>2. /\ ticks = << >> /\ dip_ticks = << >> /\ Len(<< >>) = 0
      /\ ticks \in Seq(TickRecord) /\ dip_ticks \in Seq(DipTick)
  BY EmptySeq DEF SignalsInit, Init, DipInit
<1>. HIDE DEF WarmupSecs
<1>3. CapInv
  <2>1. InOrder(ticks)
    BY <1>2 DEF InOrder
  <2>2. /\ pending = NoPending /\ confirm = NotConfirming /\ since_fire = FireLimit
        /\ fired = FALSE /\ apart = FireLimit /\ since_fallback = ReclaimConfirm
    BY DEF SignalsInit, Init
  <2>3. /\ NoPending \in [on: BOOLEAN, low: Price \cup {0}, age: 0 .. PendingExpire + 1]
        /\ NotConfirming \in [on: BOOLEAN, age: 0 .. ReclaimConfirm]
        /\ FireLimit \in 0 .. FireLimit /\ ReclaimConfirm \in 0 .. ReclaimConfirm
    BY <1>1
  <2>4. TypeOK
    BY <1>2, <2>2, <2>3 DEF TypeOK
  <2>. QED
    BY <2>1, <2>2, <2>4 DEF CapInv, ConfirmWithinPending, ConfirmedSince, FiresApart
<1>4. DipInv
  <2>1. InOrder(dip_ticks)
    BY <1>2 DEF InOrder
  <2>2. session_age = 0 /\ since_dip_fire = FireCooldown /\ dip_fired = FALSE
    BY DEF SignalsInit, DipInit
  <2>3. 0 \in 0 .. MaxAge + 1 /\ FireCooldown \in 0 .. FireCooldown
    BY <1>1
  <2>4. DipTypeOK
    BY <1>2, <2>2, <2>3 DEF DipTypeOK
  <2>. QED
    BY <2>1, <2>4 DEF DipInv
<1>5. CandleInv /\ Elapsed /\ NoCrossDuringWarmup
  BY <1>1 DEF SignalsInit, CandleInit, CandleInv, CandleTypeOK, FedInv, NoBarYet, Elapsed,
     NoCrossDuringWarmup
<1>6. HistoryOK /\ OneDetector /\ LastFire
  BY <1>1, <1>2 DEF SignalsInit, Init, DipInit, CandleInit, HistoryOK, OneDetector, LastFire
<1>7. WindowInv(TickQueue)
  BY <1>2 DEF SignalsInit, Init, DipInit, TickQueue, WindowInv, AfterSilence, Reaches, NoGaps
<1>. QED
  BY <1>3, <1>4, <1>5, <1>6, <1>7 DEF SigInv

\* Every tick keeps the invariant; a fire of the capitulation detector finds the
\* confirmation unbroken.
LEMMA SignalsStep ==
    ASSUME SigInv, [SignalsNext]_signalVars
    PROVE  SigInv' /\ (vars' # vars /\ fired' => since_fallback' = ReclaimConfirm)
<1>1. ASSUME NEW gap \in Gap, NEW price \in Price, CapTick(gap, price)
      PROVE  SigInv' /\ (fired' => since_fallback' = ReclaimConfirm)
  BY <1>1, CapTickKeeps
<1>2. ASSUME NEW gap \in Gap, NEW quote \in Quote, DipBuyTick(gap, quote)
      PROVE  SigInv' /\ vars' = vars
  BY <1>2, DipBuyTickKeeps DEF DipBuyTick
<1>3. ASSUME NEW gap \in Gap, MacdTick(gap) PROVE SigInv' /\ vars' = vars
  BY <1>3, MacdTickKeeps DEF MacdTick
<1>4. CASE UNCHANGED signalVars
  <2>1. UNCHANGED <<vars, dipVars, candleVars, mode, historyVars>>
    BY <1>4 DEF signalVars
  <2>2. CapInv' /\ DipInv' /\ CandleInv' /\ Elapsed' /\ NoCrossDuringWarmup' /\ HistoryOK'
    BY <2>1 DEF SigInv, vars, dipVars, candleVars, historyVars, CapInv, TypeOK, InOrder,
       ConfirmWithinPending, ConfirmedSince, FiresApart, DipInv, DipTypeOK, CandleInv,
       CandleTypeOK, FedInv, NoBarYet, Elapsed, NoCrossDuringWarmup, HistoryOK
  <2>3. OneDetector' /\ LastFire' /\ WindowInv(TickQueue)'
    BY <2>1 DEF SigInv, vars, dipVars, candleVars, historyVars, OneDetector, LastFire,
       TickQueue, WindowInv, AfterSilence, Reaches, NoGaps, Full
  <2>. QED
    BY <2>1, <2>2, <2>3 DEF SigInv
<1>. QED
  BY <1>1, <1>2, <1>3, <1>4 DEF SignalsNext

\* The windows in order, the clocks in step and the candles accounted for, whatever
\* the gaps between ticks.
THEOREM SignalsInvariant == SignalsSpec => []SigInv
<1>1. SigInv /\ [SignalsNext]_signalVars => SigInv'
  BY SignalsStep
<1>. QED
  BY <1>1, SignalsStart, PTL DEF SignalsSpec

\* The types of the detectors, the candles and the history.
THEOREM SignalsTypes == SignalsSpec => []SignalsTypeOK
<1>1. SigInv => SignalsTypeOK
  BY DEF SigInv, SignalsTypeOK, CapInv, DipInv, CandleInv, HistoryOK, OneDetector
<1>. QED
  BY <1>1, SignalsInvariant, PTL

\* A confirmation belongs to the pending state it was begun in
\* (capitulation.rs 85-89, 131-135, 149).
THEOREM SignalsConfirmWithinPending == SignalsSpec => []ConfirmWithinPending
<1>1. SigInv => ConfirmWithinPending
  BY DEF SigInv, CapInv
<1>. QED
  BY <1>1, SignalsInvariant, PTL

\* Two fires of the capitulation detector are at least the debounce and the
\* confirmation apart (capitulation.rs 112-116, 182-196).
THEOREM SignalsFiresApart == SignalsSpec => []FiresApart
<1>1. SigInv => FiresApart
  BY DEF SigInv, CapInv
<1>. QED
  BY <1>1, SignalsInvariant, PTL

\* A fire comes a whole reclaim_confirm_secs after the last tick that fell back below
\* the reclaim without dumping again (capitulation.rs 162-167).
THEOREM SignalsFallbackRestarts == SignalsSpec => FallbackRestarts
<1>1. SigInv /\ [SignalsNext]_signalVars =>
          [FiresNow => since_fallback' = ReclaimConfirm]_vars
  BY SignalsStep DEF FiresNow
<1>. QED
  BY <1>1, SignalsInvariant, PTL DEF SignalsSpec, FallbackRestarts

\* No detector fires on a window that reaches back before a silence longer than it
\* (dip_buy.rs 131-138, capitulation.rs 118-128).
THEOREM SignalsSilenceRestartsWindow == SignalsSpec => []SilenceRestartsWindow
<1>1. SigInv => SilenceRestartsWindow
  <2>. SUFFICES ASSUME SigInv, fired \/ dip_fired PROVE since_silence >= Window - 1
    BY DEF SilenceRestartsWindow
  <2>. DEFINE q == TickQueue
  <2>1. Full(q) /\ AfterSilence(q, since_silence)
    BY DEF SigInv, WindowInv
  <2>2. Len(q) \in Nat /\ Len(q) > 0 /\ Head(q) = q[1] /\ Ages(q)
    BY <2>1, HeadIsFirst, LenProperties, WindowAges
    DEF SigInv, CapInv, DipInv, TypeOK, DipTypeOK, TickQueue, Full
  <2>3. 1 \in 1 .. Len(q)
    BY <2>2
  <2>4. q[1].age >= Window - 1 /\ q[1].age <= since_silence /\ q[1].age \in 0 .. Window
    BY <2>1, <2>2, <2>3 DEF Full, AfterSilence, Ages
  <2>. QED
    BY <2>4, WindowConstants DEF SigInv, HistoryOK
<1>. QED
  BY <1>1, SignalsInvariant, PTL

\* While ticks come at least once a second the window is full: eviction never leaves
\* it a tick short (dip_buy.rs 91-99, 134-136; capitulation.rs 75-83, 122-124).
THEOREM SignalsDenseTicksAreJudged == SignalsSpec => []DenseTicksAreJudged
<1>1. SigInv => DenseTicksAreJudged
  <2>. SUFFICES ASSUME SigInv, mode # "macd", Started, since_sparse >= Window - 1
                PROVE  Full(TickQueue)
    BY DEF DenseTicksAreJudged
  <2>. DEFINE q == TickQueue
  <2>1. q # << >>
    <3>1. CASE mode = "dip_buy"
      BY <3>1 DEF Started, SigInv, OneDetector, TickQueue
    <3>2. CASE mode # "dip_buy"
      BY <3>2 DEF Started, SigInv, OneDetector, TickQueue
    <3>. QED
      BY <3>1, <3>2
  <2>2. Len(q) \in Nat /\ Len(q) > 0 /\ Head(q) = q[1] /\ Ages(q)
    BY <2>1, HeadIsFirst, LenProperties, WindowAges, SMTT(30)
    DEF SigInv, CapInv, DipInv, TypeOK, DipTypeOK, TickQueue
  <2>3. q[1].age \in 0 .. Window
    BY <2>2 DEF Ages
  <2>4. q[1].age >= since_sparse \/ q[1].age >= Window - 1
    BY <2>2 DEF SigInv, WindowInv, Reaches
  <2>. QED
    BY <2>1, <2>2, <2>3, <2>4, WindowConstants DEF SigInv, HistoryOK, Full
<1>. QED
  BY <1>1, SignalsInvariant, PTL

\* A dip is bought once: with a cooldown no shorter than the window a fire is judged
\* on prices no older than the fire before it (dip_buy.rs 115-119, 140-162).
THEOREM SignalsOneFirePerDip == SignalsSpec => []OneFirePerDip
<1>1. SigInv => OneFirePerDip
  <2>. SUFFICES ASSUME SigInv, dip_fired, FireCooldown >= Window
                PROVE  Head(dip_ticks).age <= since_last
    BY DEF OneFirePerDip
  <2>1. since_last >= Window /\ since_last \in 0 .. Window + 1
    BY DEF SigInv, LastFire, HistoryOK
  <2>2. mode = "dip_buy" /\ TickQueue = dip_ticks
    BY DEF SigInv, OneDetector, TickQueue
  <2>3. dip_ticks # << >>
    BY <2>2 DEF SigInv, WindowInv, Full
  <2>4. /\ Len(dip_ticks) \in Nat /\ Len(dip_ticks) > 0 /\ Head(dip_ticks) = dip_ticks[1]
        /\ Ages(dip_ticks)
    BY <2>3, HeadIsFirst, LenProperties, WindowAges DEF SigInv, CapInv, DipInv, DipTypeOK
  <2>5. dip_ticks[1].age \in 0 .. Window
    BY <2>4 DEF Ages
  <2>. QED
    BY <2>1, <2>4, <2>5, WindowConstants
<1>. QED
  BY <1>1, SignalsInvariant, PTL

\* A session shorter than the warm-up the log announces never sees a crossing
\* (main.rs 60-72, macd.rs 78-93, 151-178).
THEOREM SignalsNoCrossDuringWarmup == SignalsSpec => []NoCrossDuringWarmup
<1>1. SigInv => NoCrossDuringWarmup
  BY DEF SigInv
<1>. QED
  BY <1>1, SignalsInvariant, PTL
=============================================================================
