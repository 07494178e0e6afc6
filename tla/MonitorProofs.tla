--------------------------- MODULE MonitorProofs ---------------------------
(***************************************************************************)
(* Theorems of the price loop of a session, for every feed, every rule set *)
(* and every bound of the channel: how old the prices are it decides on,   *)
(* from which price its trailing stop trails, and when a trailing stop can *)
(* come before a take-profit.                                              *)
(*                                                                         *)
(* The invariant says where a session may be with an open position, that   *)
(* its peak is the best update it has handled, and what a peak above the   *)
(* take-profit implies.                                                    *)
(***************************************************************************)
EXTENDS Monitor, TLAPS, FiniteSetTheorems, SequenceTheorems

USE DEF InTrade, Copies, NoPosition

-----------------------------------------------------------------------------
(* The invariant. *)

Attempting == poll = "discovering" => misses < DiscoveryAttempts

\* Where a session is with a position and where without, and when it has a reason.
Control ==
    /\ at \in {"paper", "buying", "balance", "ended"} => ~position.open
    /\ at \in {"selling", "closing"} => position.open
    /\ at # "selling" => reason = "none"
    /\ at = "ended" => rx = << >> /\ ~receiver

\* The peak of a position is its best update.
PeakIsBest ==
    /\ ~position.open => best = 0
    /\ position.open /\ at # "closing" => position.peak = best

\* A position whose peak reached the take-profit is one whose sale there failed,
\* or is under way, unless it was held too long already.
ProfitWasTried ==
    /\ rules.kind = "universal" /\ rules.profit > 0
    /\ position.open /\ position.peak >= rules.profit
    => \/ refused
       \/ at = "selling" /\ reason = "profit"
       \/ HeldTooLong(rules, position.held)

MonInv ==
    /\ MonitorTypeOK /\ Attempting /\ Control /\ LagIsTradeTime
    /\ PeakIsBest /\ ProfitWasTried /\ TrailAfterRefusedProfit

-----------------------------------------------------------------------------
(* The exit rules. *)

\* The tiers are in the order of their gains, so the last one reached is the
\* highest (position.rs 54-66, 125-137).
LEMMA HighestTier ==
    ASSUME NEW r \in RuleSet, Ascending(r.tiers), NEW peak \in Int, Reached(r, peak) # {}
    PROVE  /\ TierReached(r, peak) \in Reached(r, peak)
           /\ \A j \in Reached(r, peak) : j <= TierReached(r, peak)
           /\ \A i \in Reached(r, peak) :
                  (\A j \in Reached(r, peak) : j <= i) => i = TierReached(r, peak)
           /\ \A i \in Reached(r, peak) : r.tiers[i] \in Tier
<1>. DEFINE n == Len(r.tiers)
            E == Reached(r, peak)
            c == Cardinality(E)
<1>1. n \in Nat /\ DOMAIN r.tiers = 1 .. n /\ \A i \in 1 .. n : r.tiers[i] \in Tier
  BY LenProperties, ElementOfSeq DEF RuleSet
<1>2. \A m \in Nat : IsFiniteSet(1 .. m) /\ Cardinality(1 .. m) = m
  BY FS_Interval
<1>3. E \subseteq 1 .. n
  BY <1>1 DEF Reached
<1>4. IsFiniteSet(E) /\ c \in Nat
  BY <1>1, <1>2, <1>3, FS_Subset, FS_CardinalityType
<1>5. ASSUME NEW i \in E PROVE 1 .. i \subseteq E /\ i <= c
  <2>1. i \in 1 .. n
    BY <1>3
  <2>2. \A j \in 1 .. i : j \in 1 .. n /\ (j < i \/ j = i)
    BY <1>1, <2>1
  <2>3. \A j \in 1 .. i : r.tiers[j].gain <= peak
    <3>. SUFFICES ASSUME NEW j \in 1 .. i PROVE r.tiers[j].gain <= peak
      OBVIOUS
    <3>1. r.tiers[i].gain <= peak
      BY DEF Reached
    <3>2. j < i => r.tiers[j].gain <= r.tiers[i].gain
      BY <1>1, <2>1, <2>2 DEF Ascending
    <3>3. r.tiers[j].gain \in Nat /\ r.tiers[i].gain \in Nat
      BY <1>1, <2>1, <2>2 DEF Tier
    <3>. QED
      BY <2>2, <3>1, <3>2, <3>3
  <2>4. 1 .. i \subseteq E
    BY <1>1, <2>2, <2>3 DEF Reached
  <2>5. Cardinality(1 .. i) = i
    BY <1>2, <2>1
  <2>6. Cardinality(1 .. i) <= c
    BY <1>4, <2>4, FS_Subset
  <2>. QED
    BY <2>4, <2>5, <2>6
<1>6. c \in E
  <2>1. E \subseteq 1 .. c
    BY <1>3, <1>4, <1>5
  <2>2. IsFiniteSet(1 .. c) /\ Cardinality(1 .. c) = c
    BY <1>2, <1>4
  <2>3. E = 1 .. c
    BY <2>1, <2>2, FS_Subset
  <2>4. c # 0
    BY <1>4, <2>3
  <2>. QED
    BY <1>4, <2>3, <2>4
<1>7. \A i, j \in E : i <= j /\ j <= i => i = j
  BY <1>3
<1>. HIDE DEF E, c
<1>8. \E x \in E : \A y \in E : x >= y
  BY <1>4, <1>5, <1>6, <1>3
<1>9. Max(E) \in E /\ \A y \in E : Max(E) >= y
  BY <1>8 DEF Max
<1>10. \A y \in E : y <= Max(E)
  BY <1>3, <1>9
<1>. QED
  BY <1>1, <1>3, <1>7, <1>9, <1>10 DEF TierReached, E

\* The first of four.
LEMMA FirstOfFour ==
    ASSUME NEW T \in SUBSET (1 .. 4), T # {}
    PROVE  Min(T) \in T /\ \A i \in T : Min(T) <= i
<1>1. \E x \in T : \A y \in T : x <= y
  <2>1. CASE 1 \in T
    BY <2>1
  <2>2. CASE 1 \notin T /\ 2 \in T
    BY <2>2
  <2>3. CASE 1 \notin T /\ 2 \notin T /\ 3 \in T
    BY <2>3
  <2>4. CASE 1 \notin T /\ 2 \notin T /\ 3 \notin T
    <3>1. \A y \in T : y = 4
      BY <2>4
    <3>2. PICK x \in T : TRUE
      OBVIOUS
    <3>3. \A y \in T : x <= y
      BY <3>1, <3>2
    <3>. QED
      BY <3>3
  <2>. QED
    BY <2>1, <2>2, <2>3, <2>4
<1>. QED
  BY <1>1 DEF Min

\* What decide_exit and copy_exit decide for, they have found tripped; in a universal
\* position nothing that comes before it in the order was
\* (position.rs 146-175, copy_session.rs 372-407).
LEMMA Decided ==
    ASSUME NEW r \in RuleSet, NEW peak \in Int, NEW pct \in Int, NEW held \in Nat
    PROVE  LET v == DecideExit(r, peak, pct, held)
           IN  /\ v \in {"none", "hold", "stop", "profit", "trail"}
               /\ v # "none" => Trips(r, v, peak, pct, held)
               /\ v = "none" /\ r.kind # "mirror" => ~TrailedOff(r, peak, pct)
               /\ r.kind = "universal" /\ v \in {"none", "trail"} =>
                      ~HeldTooLong(r, held) /\ ~Profited(r, pct)
<1>. DEFINE T == Tripped(r, peak, pct, held)
            v == DecideExit(r, peak, pct, held)
            P == Priority(r)
<1>1. /\ P \in {<<"hold", "stop", "profit", "trail">>, <<"hold", "stop", "trail", "profit">>,
                <<"hold", "stop">>}
      /\ r.kind = "universal" => P = <<"hold", "stop", "profit", "trail">>
      /\ r.kind # "mirror" => P # <<"hold", "stop">>
  BY DEF Priority, RuleSet, Kind
<1>2. DOMAIN P \subseteq 1 .. 4 /\ \A i \in DOMAIN P : P[i] \in {"hold", "stop", "profit", "trail"}
  BY <1>1
<1>3. T \subseteq DOMAIN P /\ \A i \in DOMAIN P : i \in T <=> Trips(r, P[i], peak, pct, held)
  BY DEF Tripped
<1>4. v = IF T = {} THEN "none" ELSE P[Min(T)]
  BY DEF DecideExit
<1>5. T # {} => Min(T) \in T /\ \A i \in T : Min(T) <= i
  BY <1>2, <1>3, FirstOfFour
<1>. HIDE DEF P, T, v
<1>6. v \in {"none", "hold", "stop", "profit", "trail"} /\ (v = "none" <=> T = {})
  BY <1>2, <1>3, <1>4, <1>5
<1>7. v # "none" => Trips(r, v, peak, pct, held)
  BY <1>3, <1>4, <1>5, <1>6
<1>8. ASSUME v = "none", r.kind # "mirror" PROVE ~TrailedOff(r, peak, pct)
  <2>1. PICK i \in DOMAIN P : P[i] = "trail"
    BY <1>1, <1>8
  <2>. QED
    BY <1>3, <1>6, <1>8, <2>1 DEF Trips
<1>9. ASSUME r.kind = "universal", v \in {"none", "trail"}
      PROVE  ~HeldTooLong(r, held) /\ ~Profited(r, pct)
  <2>1. P = <<"hold", "stop", "profit", "trail">>
    BY <1>1, <1>9
  <2>2. 1 \notin T /\ 3 \notin T
    <3>1. CASE T = {}
      BY <3>1
    <3>2. CASE T # {}
      <4>1. P[Min(T)] = "trail" /\ Min(T) \in DOMAIN P
        BY <1>3, <1>4, <1>5, <1>6, <1>9, <3>2
      <4>2. Min(T) = 4
        BY <2>1, <4>1
      <4>. QED
        BY <1>5, <3>2, <4>2
    <3>. QED
      BY <3>1, <3>2
  <2>3. ~Trips(r, P[1], peak, pct, held) /\ ~Trips(r, P[3], peak, pct, held)
    BY <1>3, <2>1, <2>2
  <2>. QED
    BY <2>1, <2>3 DEF Trips
<1>. QED
  BY <1>6, <1>7, <1>8, <1>9 DEF v

-----------------------------------------------------------------------------
(* The channel. *)

\* What the channel holds stays updates when one is taken, one is sent, or time
\* passes.
LEMMA ChannelTypes ==
    ASSUME NEW q \in Seq(Update)
    PROVE  /\ q # << >> => /\ Head(q) \in Update /\ Tail(q) \in Seq(Update)
                           /\ Len(Tail(q)) < Len(q)
           /\ \A u \in Reading :
                  Append(q, [price |-> u.price, pool |-> u.pool, age |-> 0]) \in Seq(Update)
           /\ [i \in DOMAIN q |-> [q[i] EXCEPT !.age = Lag(@)]] \in Seq(Update)
<1>. USE PriceFeedConstants
<1>1. q # << >> => Head(q) \in Update /\ Tail(q) \in Seq(Update) /\ Len(Tail(q)) < Len(q)
  BY HeadTailProperties
<1>2. ASSUME NEW u \in Reading
      PROVE  Append(q, [price |-> u.price, pool |-> u.pool, age |-> 0]) \in Seq(Update)
  <2>1. [price |-> u.price, pool |-> u.pool, age |-> 0] \in Update
    BY DEF Update
  <2>. QED
    BY <2>1, AppendProperties
<1>3. [i \in DOMAIN q |-> [q[i] EXCEPT !.age = Lag(@)]] \in Seq(Update)
  <2>1. Len(q) \in Nat /\ DOMAIN q = 1 .. Len(q) /\ \A i \in 1 .. Len(q) : q[i] \in Update
    BY LenProperties, ElementOfSeq
  <2>2. ASSUME NEW u \in Update PROVE [u EXCEPT !.age = Lag(@)] \in Update
    <3>1. Lag(u.age) \in 0 .. MaxLag
      BY DEF Update, Lag
    <3>. QED
      BY <3>1 DEF Update
  <2>. QED
    BY <2>1, <2>2, IsASeq
<1>. QED
  BY <1>1, <1>2, <1>3

\* How old what the channel holds is at most, after each of these.
LEMMA ChannelAges ==
    ASSUME NEW q \in Seq(Update), NEW m \in 0 .. MaxLag, \A i \in DOMAIN q : q[i].age <= m
    PROVE  /\ q # << >> => \A i \in DOMAIN Tail(q) : Tail(q)[i].age <= m
           /\ \A u \in Reading :
                  LET r == Append(q, [price |-> u.price, pool |-> u.pool, age |-> 0])
                  IN  r # << >> /\ \A i \in DOMAIN r : r[i].age <= m
           /\ LET r == [i \in DOMAIN q |-> [q[i] EXCEPT !.age = Lag(@)]]
              IN  \A i \in DOMAIN r : r[i].age <= Lag(m)
<1>. USE PriceFeedConstants
<1>1. Len(q) \in Nat /\ DOMAIN q = 1 .. Len(q) /\ \A i \in 1 .. Len(q) : q[i] \in Update
  BY LenProperties, ElementOfSeq
<1>2. ASSUME q # << >>, NEW i \in DOMAIN Tail(q) PROVE Tail(q)[i].age <= m
  <2>1. /\ Len(Tail(q)) = Len(q) - 1 /\ Tail(q) \in Seq(Update)
        /\ \A j \in 1 .. Len(Tail(q)) : Tail(q)[j] = q[j + 1]
    BY <1>2, HeadTailProperties
  <2>2. i \in 1 .. Len(q) - 1
    BY <1>2, <2>1, LenProperties
  <2>. QED
    BY <1>1, <2>1, <2>2
<1>3. ASSUME NEW u \in Reading
      PROVE  LET r == Append(q, [price |-> u.price, pool |-> u.pool, age |-> 0])
             IN  r # << >> /\ \A i \in DOMAIN r : r[i].age <= m
  <2>. DEFINE new == [price |-> u.price, pool |-> u.pool, age |-> 0]
              r == Append(q, new)
  <2>1. new \in Update
    BY DEF Update
  <2>2. /\ r \in Seq(Update) /\ r # << >> /\ Len(r) = Len(q) + 1
        /\ \A j \in 1 .. Len(q) : r[j] = q[j]
        /\ r[Len(q) + 1] = new
    BY <2>1, AppendProperties
  <2>3. DOMAIN r = 1 .. Len(q) + 1
    BY <2>2, LenProperties
  <2>4. new.age = 0
    OBVIOUS
  <2>. HIDE DEF new, r
  <2>5. ASSUME NEW i \in DOMAIN r PROVE r[i].age <= m
    <3>1. i \in 1 .. Len(q) \/ i = Len(q) + 1
      BY <1>1, <2>3
    <3>. QED
      BY <1>1, <2>2, <2>4, <3>1
  <2>. QED
    BY <2>2, <2>5 DEF r, new
<1>4. LET r == [i \in DOMAIN q |-> [q[i] EXCEPT !.age = Lag(@)]]
      IN  \A i \in DOMAIN r : r[i].age <= Lag(m)
  BY <1>1, SMTT(30) DEF Lag, Update
<1>. QED
  BY <1>2, <1>3, <1>4

-----------------------------------------------------------------------------
(* One update. *)

\* A profit in percent is an integer, whatever the entry price.
LEMMA Percent ==
    ASSUME NEW entry \in Nat, NEW price \in Nat
    PROVE  Pnl(entry, price) \in Int
<1>1. CASE entry = 0
  BY <1>1 DEF Pnl
<1>2. CASE entry # 0
  BY <1>2 DEF Pnl
<1>. QED
  BY <1>1, <1>2

\* The update at the head of the channel, and what the exit rules make of it.
LEMMA Judged ==
    ASSUME MonitorTypeOK, rx # << >>
    PROVE  /\ Taken \in Update /\ Profit \in Int
           /\ Peaked \in Int /\ Peaked = Higher(position.peak, Profit)
           /\ Verdict \in {"none", "hold", "stop", "profit", "trail"}
           /\ Verdict # "none" => Trips(rules, Verdict, Peaked, Profit, position.held)
           /\ Verdict = "none" /\ rules.kind # "mirror" => ~TrailedOff(rules, Peaked, Profit)
           /\ rules.kind = "universal" /\ Verdict \in {"none", "trail"} =>
                  ~HeldTooLong(rules, position.held) /\ ~Profited(rules, Profit)
<1>1. Taken \in Update
  BY ChannelTypes DEF MonitorTypeOK, FeedTypeOK, Taken
<1>2. /\ position.entry \in Nat /\ position.peak \in Int
      /\ rules \in RuleSet /\ rules.hold \in Nat
  BY MonitorConstants DEF MonitorTypeOK, RuleSet
<1>3. position.held \in Nat
  BY <1>2 DEF MonitorTypeOK
<1>4. Profit \in Int
  BY <1>1, <1>2, Percent DEF Profit, Update
<1>5. Peaked \in Int /\ Peaked = Higher(position.peak, Profit)
  BY <1>2, <1>4 DEF Peaked, Higher
<1>. QED
  BY <1>1, <1>2, <1>3, <1>4, <1>5, Decided DEF Verdict

-----------------------------------------------------------------------------
(* The invariant holds. *)

\* What a step of the session, of the feed and of time does to the channel.
LEMMA ChannelSteps ==
    ASSUME MonInv, Next
    PROVE  \/ UNCHANGED <<rx, receiver>>
           \/ rx # << >> /\ at \in {"paper", "select"} /\ rx' = Tail(rx) /\ UNCHANGED receiver
           \/ receiver /\ (\E u \in Reading : rx' = Append(rx, [price |-> u.price, pool |-> u.pool, age |-> 0]))
                 /\ UNCHANGED <<receiver, sessionVars>>
           \/ rx' = << >> /\ receiver' = FALSE /\ at' = "ended"
           \/ Tick /\ rx' = QueueOlder /\ UNCHANGED receiver
<1>1. CASE RuggedUpdate
  BY <1>1 DEF RuggedUpdate, Takes, Recv, DropReceiver
<1>2. CASE ExitUpdate
  BY <1>2 DEF ExitUpdate, Takes, Recv
<1>3. CASE PlainUpdate
  BY <1>3 DEF PlainUpdate, Takes, Recv
<1>4. CASE PaperEntry
  BY <1>4 DEF PaperEntry, Recv
<1>5. CASE NoSignal \/ Fires \/ BuyReturns \/ BalanceRead \/ SellFails
  BY <1>5 DEF NoSignal, Fires, BuyReturns, BalanceRead, SellFails, feedVars
<1>6. CASE Sold \/ Closed
  BY <1>6 DEF Sold, Closed, DropReceiver, feedVars
<1>7. CASE FeedOver \/ PaperFails \/ Called
  BY <1>7 DEF FeedOver, PaperFails, Called, Leave, DropReceiver, feedVars
<1>8. CASE FeedStep
  BY <1>8 DEF FeedStep, PollStep, FindsPool, FindFails, ReadSucceeds, ReadFails, Sends
<1>9. CASE Tick
  BY <1>9 DEF Tick, FeedTick
<1>. QED
  BY <1>1, <1>2, <1>3, <1>4, <1>5, <1>6, <1>7, <1>8, <1>9 DEF Next, SessionStep

\* A step keeps the types of the price task and of its channel, and its attempts bounded.
LEMMA StepFeedTypes ==
    ASSUME MonInv, Next
    PROVE  FeedTypeOK' /\ Attempting'
<1>. USE PriceFeedConstants DEF MonInv, MonitorTypeOK, FeedTypeOK, Attempting
<1>1. rx' \in Seq(Update)
  <2>1. << >> \in Seq(Update)
    BY EmptySeq
  <2>2. rx \in Seq(Update)
    OBVIOUS
  <2>3. CASE UNCHANGED rx \/ rx' = << >>
    BY <2>1, <2>2, <2>3
  <2>4. CASE rx # << >> /\ rx' = Tail(rx)
    BY <2>2, <2>4, ChannelTypes
  <2>5. CASE \E u \in Reading : rx' = Append(rx, [price |-> u.price, pool |-> u.pool, age |-> 0])
    BY <2>2, <2>5, ChannelTypes
  <2>6. CASE rx' = QueueOlder
    BY <2>2, <2>6, ChannelTypes DEF QueueOlder
  <2>. QED
    BY <2>3, <2>4, <2>5, <2>6, ChannelSteps
<1>2. receiver' \in BOOLEAN
  BY ChannelSteps
<1>3. CASE UNCHANGED <<poll, misses>>
  BY <1>1, <1>2, <1>3
<1>4. CASE FeedStep
  <2>1. CASE FindsPool
    BY <1>1, <1>2, <2>1 DEF FindsPool
  <2>2. CASE FindFails
    BY <1>1, <1>2, <2>2 DEF FindFails
  <2>3. CASE ReadSucceeds
    BY <1>1, <1>2, <2>3 DEF ReadSucceeds, Sends
  <2>4. CASE ReadFails
    BY <1>1, <1>2, <2>4 DEF ReadFails
  <2>. QED
    BY <1>4, <2>1, <2>2, <2>3, <2>4 DEF FeedStep, PollStep
<1>5. CASE Tick
  <2>1. poll' = WokenTo /\ UNCHANGED misses
    BY <1>5 DEF Tick, FeedTick
  <2>. QED
    BY <1>1, <1>2, <2>1 DEF WokenTo, Asleep
<1>6. UNCHANGED <<poll, misses>> \/ FeedStep \/ Tick
  BY DEF Next, SessionStep, RuggedUpdate, ExitUpdate, PlainUpdate, PaperEntry, NoSignal, Fires,
         BuyReturns, BalanceRead, Sold, SellFails, Closed, FeedOver, PaperFails, Called, Leave,
         Takes, Recv, DropReceiver, feedVars
<1>. QED
  BY <1>3, <1>4, <1>5, <1>6

\* A position that is opened, kept and let go stays one.
LEMMA StepSessionTypes ==
    ASSUME MonInv, Next
    PROVE  /\ rules' = rules
           /\ at' \in {"paper", "select", "signal", "ended"} \cup InTrade
           /\ position' \in [open: BOOLEAN, entry: Nat, peak: Int, held: 0 .. rules.hold]
           /\ guard' \in Guard
           /\ reason' \in {"none", "hold", "stop", "profit", "trail"}
<1>. DEFINE Position == [open: BOOLEAN, entry: Nat, peak: Int, held: 0 .. rules.hold]
<1>. USE DEF MonInv, MonitorTypeOK
<1>1. rules.hold \in Nat /\ position.held \in 0 .. rules.hold
  BY MonitorConstants DEF RuleSet
<1>2. NoPosition \in Position /\ \A e \in Nat : Opened(e) \in Position
  BY <1>1 DEF Opened
<1>3. \A p \in Int : [position EXCEPT !.peak = p] \in Position
  OBVIOUS
<1>4. ASSUME rx # << >> PROVE Observe(guard, Taken) \in Guard
  BY <1>4, Judged, RugFilterType, SMTT(30) DEF Observe, Guard, Higher, Update
<1>5. CASE RuggedUpdate
  BY <1>4, <1>5 DEF RuggedUpdate, Takes
<1>6. CASE ExitUpdate
  BY <1>3, <1>4, <1>6, Judged DEF ExitUpdate, Takes
<1>7. CASE PlainUpdate
  BY <1>3, <1>4, <1>7, Judged DEF PlainUpdate, Takes, AfterUpdate
<1>8. CASE PaperEntry
  <2>1. Head(rx).price \in Nat
    BY <1>8, Judged DEF PaperEntry, Taken, Update
  <2>. QED
    BY <1>2, <1>8, <2>1 DEF PaperEntry
<1>9. CASE NoSignal \/ Fires \/ FeedStep \/ SellFails
  BY <1>9 DEF NoSignal, Fires, FeedStep, SellFails, AfterUpdate, sessionVars
<1>10. CASE BuyReturns \/ Sold \/ Closed
  BY <1>2, <1>10 DEF BuyReturns, Sold, Closed
<1>11. CASE BalanceRead
  <2>1. \A e \in Nat : [Opened(e) EXCEPT !.held = position.held] \in Position
    BY <1>1, <1>2
  <2>. QED
    BY <1>2, <1>11, <2>1, MonitorConstants DEF BalanceRead
<1>12. CASE FeedOver \/ PaperFails \/ Called
  BY <1>12 DEF FeedOver, PaperFails, Called, Leave
<1>13. CASE Tick
  <2>1. Held \in Position
    BY <1>1 DEF Held
  <2>. QED
    BY <1>13, <2>1 DEF Tick
<1>. QED
  BY <1>5, <1>6, <1>7, <1>8, <1>9, <1>10, <1>11, <1>12, <1>13 DEF Next, SessionStep

\* A step keeps all the types of the monitor.
LEMMA StepTypes ==
    ASSUME MonInv, Next
    PROVE  MonitorTypeOK'
<1>. USE DEF MonInv, MonitorTypeOK
<1>1. best' \in Int
  <2>1. Handled => rx # << >> /\ Profit \in Int
    <3>1. rx = << >> => Len(rx') >= Len(rx)
      BY StepFeedTypes, LenProperties, EmptySeq DEF FeedTypeOK
    <3>2. Len(rx') \in Nat /\ Len(rx) \in Nat
      BY StepFeedTypes, LenProperties DEF FeedTypeOK
    <3>. QED
      BY <3>1, <3>2, Judged DEF Handled
  <2>. QED
    BY <2>1 DEF Next, History, Higher
<1>2. refused' \in BOOLEAN
  BY StepSessionTypes DEF Next, History
<1>3. busy' \in 0 .. MaxLag
  BY PriceFeedConstants DEF Next, History, Lag
<1>. QED
  BY <1>1, <1>2, <1>3, StepFeedTypes, StepSessionTypes

\* A step keeps the places of the session in agreement with its position, its channel and its
\* sell.
LEMMA StepControl ==
    ASSUME MonInv, Next
    PROVE  Control'
<1>. USE DEF MonInv, Control
<1>1. at' # "ended" \/ (rx' = << >> /\ ~receiver')
  <2>1. CASE at = "ended"
    <3>1. rx = << >> /\ ~receiver /\ DOMAIN rx = {}
      BY <2>1, LenProperties, EmptySeq DEF MonitorTypeOK, FeedTypeOK
    <3>2. QueueOlder = << >>
      BY <3>1 DEF QueueOlder
    <3>. QED
      BY <2>1, <3>1, <3>2, ChannelSteps
  <2>2. CASE at # "ended"
    BY <2>2 DEF Next, SessionStep, RuggedUpdate, ExitUpdate, PlainUpdate, PaperEntry, NoSignal,
           Fires, BuyReturns, BalanceRead, Sold, SellFails, Closed, FeedOver, PaperFails, Called,
           Leave, AfterUpdate, DropReceiver, FeedStep, Tick, sessionVars
  <2>. QED
    BY <2>1, <2>2
<1>2. at' \in {"paper", "buying", "balance", "ended"} => ~position'.open
  BY DEF MonitorTypeOK, Next, SessionStep, RuggedUpdate, ExitUpdate, PlainUpdate, PaperEntry, NoSignal,
         Fires, BuyReturns, BalanceRead, Sold, SellFails, Closed, FeedOver, PaperFails, Called,
         Leave, AfterUpdate, DropReceiver, FeedStep, Tick, sessionVars, Held, Takes, Opened
<1>3. at' \in {"selling", "closing"} => position'.open
  BY DEF MonitorTypeOK, Next, SessionStep, RuggedUpdate, ExitUpdate, PlainUpdate, PaperEntry, NoSignal,
         Fires, BuyReturns, BalanceRead, Sold, SellFails, Closed, FeedOver, PaperFails, Called,
         Leave, AfterUpdate, DropReceiver, FeedStep, Tick, sessionVars, Held, Takes, Opened
<1>4. at' # "selling" => reason' = "none"
  BY DEF MonitorTypeOK, Next, SessionStep, RuggedUpdate, ExitUpdate, PlainUpdate, PaperEntry, NoSignal,
         Fires, BuyReturns, BalanceRead, Sold, SellFails, Closed, FeedOver, PaperFails, Called,
         Leave, AfterUpdate, DropReceiver, FeedStep, Tick, sessionVars, Takes
<1>. QED
  BY <1>1, <1>2, <1>3, <1>4

\* An update that waits came during the trades since the channel was last empty.
LEMMA StepLag ==
    ASSUME MonInv, Next
    PROVE  LagIsTradeTime'
<1>. USE DEF MonInv, MonitorTypeOK, FeedTypeOK, LagIsTradeTime
<1>1. CASE rx' = << >>
  <2>1. DOMAIN rx' = {}
    BY <1>1, LenProperties, EmptySeq
  <2>. QED
    BY <2>1
<1>2. CASE rx' # << >> /\ Tick
  <2>1. rx' = QueueOlder /\ UNCHANGED at
    BY <1>2 DEF Tick, FeedTick
  <2>2. rx # << >>
    <3>1. rx = << >> => DOMAIN rx = {}
      BY LenProperties, EmptySeq
    <3>. QED
      BY <1>2, <2>1, <3>1 DEF QueueOlder
  <2>3. at \in InTrade
    BY <1>2, <2>2 DEF Tick, Waits, Control
  <2>4. busy' = Lag(busy)
    BY <1>2, <2>1, <2>3 DEF Next, History
  <2>5. \A i \in DOMAIN QueueOlder : QueueOlder[i].age <= Lag(busy)
    BY ChannelAges DEF QueueOlder
  <2>. QED
    BY <2>1, <2>4, <2>5
<1>3. CASE rx' # << >> /\ ~Tick
  <2>1. busy' = busy
    BY <1>3 DEF Next, History
  <2>2. \A i \in DOMAIN rx' : rx'[i].age <= busy
    BY <1>3, ChannelSteps, ChannelAges
  <2>. QED
    BY <2>1, <2>2
<1>. QED
  BY <1>1, <1>2, <1>3

-----------------------------------------------------------------------------
(* The peak. *)

\* Which steps handle an update of an open position.
LEMMA Handles ==
    ASSUME MonInv, Next
    PROVE  /\ Handled => RuggedUpdate \/ ExitUpdate \/ PlainUpdate
           /\ (RuggedUpdate \/ ExitUpdate \/ PlainUpdate) /\ position.open => Handled
           /\ Handled => rx # << >>
<1>. USE DEF MonInv, MonitorTypeOK, FeedTypeOK
<1>1. rx' \in Seq(Update) /\ Len(rx) \in Nat /\ Len(rx') \in Nat
  BY StepFeedTypes, LenProperties
<1>2. RuggedUpdate \/ ExitUpdate \/ PlainUpdate => at = "select" /\ rx # << >>
  BY DEF RuggedUpdate, ExitUpdate, PlainUpdate, Takes
<1>3. ASSUME RuggedUpdate \/ ExitUpdate \/ PlainUpdate, position.open PROVE rx' = Tail(rx)
  BY <1>3 DEF RuggedUpdate, ExitUpdate, PlainUpdate, Takes, Recv
<1>4. ASSUME at = "select", position.open, ~(RuggedUpdate \/ ExitUpdate \/ PlainUpdate)
      PROVE  Len(rx') >= Len(rx)
  <2>1. CASE FeedOver \/ Called
    BY <1>1, <1>4, <2>1 DEF FeedOver, Called, Leave, feedVars
  <2>2. CASE FeedStep
    <3>1. rx' = rx \/ \E u \in Reading :
                            rx' = Append(rx, [price |-> u.price, pool |-> u.pool, age |-> 0])
      BY <2>2 DEF FeedStep, PollStep, FindsPool, FindFails, ReadSucceeds, ReadFails, Sends
    <3>2. ASSUME NEW u \in Reading
          PROVE  Len(Append(rx, [price |-> u.price, pool |-> u.pool, age |-> 0])) = Len(rx) + 1
      <4>1. [price |-> u.price, pool |-> u.pool, age |-> 0] \in Update
        BY PriceFeedConstants DEF Update
      <4>. QED
        BY <4>1, AppendProperties
    <3>3. CASE rx' = rx
      BY <1>1, <3>3
    <3>4. CASE rx' # rx
      <4>1. PICK u \in Reading :
                rx' = Append(rx, [price |-> u.price, pool |-> u.pool, age |-> 0])
        BY <3>1, <3>4
      <4>2. Len(rx') = Len(rx) + 1
        BY <3>2, <4>1
      <4>. QED
        BY <1>1, <4>2
    <3>. QED
      BY <3>3, <3>4
  <2>3. CASE Tick
    BY <1>1, <1>4, <2>3, EmptySeq DEF Tick, Waits, FeedTick
  <2>. QED
    BY <1>4, <2>1, <2>2, <2>3 DEF Next, SessionStep, PaperEntry, NoSignal, Fires, BuyReturns,
           BalanceRead, Sold, SellFails, Closed, PaperFails
<1>5. (RuggedUpdate \/ ExitUpdate \/ PlainUpdate) /\ position.open => Handled
  <2>. SUFFICES ASSUME RuggedUpdate \/ ExitUpdate \/ PlainUpdate, position.open PROVE Handled
    OBVIOUS
  <2>1. rx' = Tail(rx) /\ at = "select" /\ rx # << >>
    BY <1>2, <1>3
  <2>2. Len(Tail(rx)) < Len(rx)
    BY <2>1, ChannelTypes
  <2>. QED
    BY <2>1, <2>2 DEF Handled
<1>6. Handled => RuggedUpdate \/ ExitUpdate \/ PlainUpdate
  BY <1>1, <1>4 DEF Handled
<1>. QED
  BY <1>2, <1>5, <1>6

\* A new position starts with a peak of 0.
LEMMA Fresh ==
    ASSUME PaperEntry \/ BalanceRead, ~position.open, position'.open
    PROVE  position'.peak = 0
<1>1. CASE PaperEntry
  BY <1>1 DEF PaperEntry, Opened
<1>2. CASE BalanceRead
  <2>1. CASE position' = NoPosition
    BY <2>1
  <2>2. CASE \E e \in Entries : position' = [Opened(e) EXCEPT !.held = position.held]
    <3>1. PICK e \in Entries : position' = [Opened(e) EXCEPT !.held = position.held]
      BY <2>2
    <3>2. [Opened(e) EXCEPT !.held = position.held].peak = 0
      BY DEF Opened
    <3>. QED
      BY <3>1, <3>2
  <2>. QED
    BY <1>2, <2>1, <2>2 DEF BalanceRead
<1>. QED
  BY <1>1, <1>2

\* An open position's peak is the best profit it was shown, also after a refused sell put it
\* back.
LEMMA StepPeak ==
    ASSUME MonInv, Next
    PROVE  PeakIsBest'
<1>. USE DEF MonInv, PeakIsBest
<1>1. ~position'.open => best' = 0
  BY DEF Next, History
<1>2. ASSUME position'.open, at' # "closing" PROVE position'.peak = best'
  <2>1. CASE Handled
    <3>1. best' = Higher(best, Profit) /\ position.open /\ at = "select" /\ rx # << >>
      BY <1>2, <2>1, Handles DEF Handled, Next, History
    <3>2. Peaked = Higher(position.peak, Profit) /\ position.peak = best
      BY <3>1, Judged
    <3>3. CASE RuggedUpdate
      BY <1>2, <3>1, <3>3 DEF RuggedUpdate
    <3>4. CASE ExitUpdate
      BY <3>1, <3>2, <3>4 DEF ExitUpdate, MonitorTypeOK
    <3>5. CASE PlainUpdate
      BY <3>1, <3>2, <3>5 DEF PlainUpdate, MonitorTypeOK
    <3>. QED
      BY <2>1, <3>3, <3>4, <3>5, Handles
  <2>2. CASE ~Handled
    <3>1. best' = best
      BY <1>2, <2>2 DEF Next, History
    <3>2. CASE PaperEntry \/ BalanceRead
      <4>1. ~position.open /\ best = 0
        BY <3>2 DEF PaperEntry, BalanceRead, Control
      <4>. QED
        BY <1>2, <3>1, <3>2, <4>1, Fresh
    <3>3. CASE NoSignal \/ Fires \/ FeedOver \/ PaperFails \/ Called \/ FeedStep
      BY <1>2, <3>1, <3>3
      DEF NoSignal, Fires, FeedOver, PaperFails, Called, Leave, FeedStep, sessionVars
    <3>4. CASE BuyReturns \/ Sold \/ Closed
      BY <1>2, <3>4 DEF BuyReturns, Sold, Closed
    <3>5. CASE SellFails
      BY <1>2, <3>1, <3>5 DEF SellFails
    <3>6. CASE Tick
      BY <1>2, <3>1, <3>6 DEF Tick, Held, MonitorTypeOK
    <3>7. CASE RuggedUpdate \/ ExitUpdate \/ PlainUpdate
      BY <1>2, <2>2, <3>7, Handles DEF RuggedUpdate, ExitUpdate, PlainUpdate
    <3>. QED
      BY <3>2, <3>3, <3>4, <3>5, <3>6, <3>7 DEF Next, SessionStep
  <2>. QED
    BY <2>1, <2>2
<1>. QED
  BY <1>1, <1>2

-----------------------------------------------------------------------------
(* The take-profit and the trail. *)

\* A peak at the take-profit was tried: it is being sold, was refused, or the hold time came
\* first.
LEMMA StepProfit ==
    ASSUME MonInv, Next
    PROVE  ProfitWasTried'
<1>. USE DEF MonInv
<1>. SUFFICES ASSUME rules.kind = "universal", rules.profit > 0, position'.open,
                     position'.peak >= rules.profit
              PROVE  \/ refused'
                     \/ at' = "selling" /\ reason' = "profit"
                     \/ HeldTooLong(rules, position'.held)
  BY StepSessionTypes DEF ProfitWasTried
<1>1. /\ rules.profit \in Nat /\ rules.hold \in Nat
      /\ position.held \in 0 .. rules.hold /\ position.peak \in Int
  BY MonitorConstants DEF MonitorTypeOK, RuleSet
<1>2. refused' = (refused \/ (at = "selling" /\ reason = "profit"))
  BY DEF Next, History
<1>3. ASSUME ExitUpdate \/ PlainUpdate
      PROVE  \/ refused'
             \/ at' = "selling" /\ reason' = "profit"
             \/ HeldTooLong(rules, position'.held)
  <2>1. /\ at = "select" /\ rx # << >> /\ position.open
        /\ position' = [position EXCEPT !.peak = Peaked]
        /\ ExitUpdate => at' = "selling" /\ reason' = Verdict
        /\ PlainUpdate => Verdict = "none"
    BY <1>3 DEF ExitUpdate, PlainUpdate, Takes
  <2>2. position'.held = position.held /\ position'.peak = Peaked
    BY <2>1 DEF MonitorTypeOK
  <2>3. Profit \in Int /\ Peaked = Higher(position.peak, Profit)
    BY <2>1, Judged
  <2>4. CASE position.peak >= rules.profit
    BY <1>2, <2>1, <2>2, <2>4 DEF ProfitWasTried
  <2>5. CASE position.peak < rules.profit
    <3>1. Profit >= rules.profit
      BY <1>1, <2>2, <2>3, <2>5 DEF Higher
    <3>2. Profited(rules, Profit) /\ ~Stopped(rules, Profit)
      BY <1>1, <2>3, <3>1, MonitorConstants DEF Profited, Stopped, MonitorTypeOK, RuleSet
    <3>3. Verdict \notin {"none", "trail", "stop"}
      BY <2>1, <3>2, Judged DEF Trips
    <3>4. CASE Verdict = "profit"
      BY <1>3, <2>1, <3>3, <3>4
    <3>5. CASE Verdict = "hold"
      BY <2>1, <2>2, <3>5, Judged DEF Trips
    <3>. QED
      BY <2>1, <3>3, <3>4, <3>5, Judged
  <2>. QED
    BY <1>1, <2>4, <2>5
<1>4. ASSUME UNCHANGED position, position.open, at = "selling" => at' = "selling" /\ reason' = reason
      PROVE  refused' \/ (at' = "selling" /\ reason' = "profit") \/ HeldTooLong(rules, position'.held)
  BY <1>2, <1>4 DEF ProfitWasTried
<1>5. CASE RuggedUpdate \/ NoSignal \/ Fires \/ FeedOver \/ PaperFails \/ Called \/ FeedStep
  BY <1>4, <1>5 DEF RuggedUpdate, Takes, NoSignal, Fires, FeedOver, PaperFails, Called, FeedStep, sessionVars
<1>6. CASE PaperEntry \/ BalanceRead
  <2>1. ~position.open
    BY <1>6 DEF PaperEntry, BalanceRead, Control
  <2>2. position'.peak = 0
    BY <1>6, <2>1, Fresh
  <2>. QED
    BY <1>1, <2>2
<1>7. CASE BuyReturns \/ Sold \/ Closed
  BY <1>7 DEF BuyReturns, Sold, Closed
<1>8. CASE SellFails
  BY <1>2, <1>8 DEF SellFails, ProfitWasTried
<1>9. CASE Tick
  <2>1. /\ position.open /\ position'.peak = position.peak /\ at' = at /\ reason' = reason
        /\ HeldTooLong(rules, position.held) => HeldTooLong(rules, position'.held)
    BY <1>1, <1>9 DEF Tick, Held, HeldTooLong, MonitorTypeOK
  <2>. QED
    BY <1>2, <2>1 DEF ProfitWasTried
<1>. QED
  BY <1>3, <1>5, <1>6, <1>7, <1>8, <1>9 DEF Next, SessionStep

\* The trail sells only after a refused take-profit, where the one lies above the other.
LEMMA StepTrail ==
    ASSUME MonInv, Next
    PROVE  TrailAfterRefusedProfit'
<1>. USE DEF MonInv
<1>. SUFFICES ASSUME ProfitFirst, reason' = "trail" PROVE refused'
  BY StepSessionTypes DEF TrailAfterRefusedProfit, ProfitFirst
<1>1. at' = "selling" /\ position'.open
  BY StepControl DEF Control
<1>2. CASE ExitUpdate
  <2>1. /\ at = "select" /\ rx # << >> /\ position.open /\ Verdict = "trail"
    BY <1>2 DEF ExitUpdate, Takes
  <2>2. /\ Profit \in Int /\ Peaked \in Int /\ Peaked = Higher(position.peak, Profit)
        /\ TrailedOff(rules, Peaked, Profit)
        /\ ~HeldTooLong(rules, position.held) /\ ~Profited(rules, Profit)
    BY <2>1, Judged DEF Trips, ProfitFirst
  <2>3. rules \in RuleSet /\ rules.profit \in Nat
    BY MonitorConstants DEF MonitorTypeOK, RuleSet
  <2>4. PICK i \in DOMAIN rules.tiers : rules.tiers[i].gain <= Peaked
    BY <2>2 DEF TrailedOff, Reached
  <2>5. rules.tiers[i].gain \in Nat
    <3>1. rules.tiers \in Seq(Tier)
      BY <2>3 DEF RuleSet
    <3>2. rules.tiers[i] \in Tier
      BY <3>1, LenProperties, ElementOfSeq
    <3>. QED
      BY <3>2 DEF Tier
  <2>6. position.peak >= rules.profit /\ position.peak \in Int
    BY <2>2, <2>3, <2>4, <2>5 DEF ProfitFirst, Profited, Higher, MonitorTypeOK
  <2>7. refused
    BY <2>1, <2>2, <2>6 DEF ProfitWasTried, ProfitFirst
  <2>. QED
    BY <1>1, <2>7 DEF Next, History
<1>3. CASE ~ExitUpdate
  <2>1. reason = "trail"
    BY <1>3 DEF Next, SessionStep, RuggedUpdate, PlainUpdate, PaperEntry, NoSignal, Fires,
           BuyReturns, BalanceRead, Sold, SellFails, Closed, FeedOver, PaperFails, Called,
           FeedStep, Tick, sessionVars
  <2>. QED
    BY <1>1, <2>1 DEF TrailAfterRefusedProfit, Next, History
<1>. QED
  BY <1>2, <1>3

-----------------------------------------------------------------------------
(* Theorems. *)

\* The invariant holds where a session begins to watch its price.
LEMMA MonInvInit == MonitorInit => MonInv
<1>. SUFFICES ASSUME MonitorInit PROVE MonInv
  OBVIOUS
<1>1. rules.hold \in Nat
  BY MonitorConstants DEF MonitorInit, RuleSet
<1>2. rx \in Seq(Update) /\ DOMAIN rx = {}
  BY EmptySeq, LenProperties DEF MonitorInit, FeedInit
<1>3. guard \in Guard
  BY RugFilterType DEF MonitorInit, NewGuard, Guard
<1>4. position \in [open: BOOLEAN, entry: Nat, peak: Int, held: 0 .. rules.hold]
  <2>1. \A e \in Nat : Opened(e) \in [open: BOOLEAN, entry: Nat, peak: Int, held: 0 .. rules.hold]
    BY <1>1 DEF Opened
  <2>2. NoPosition \in [open: BOOLEAN, entry: Nat, peak: Int, held: 0 .. rules.hold]
    BY <1>1
  <2>. QED
    BY <2>1, <2>2, MonitorConstants DEF MonitorInit
<1>5. MonitorTypeOK
  <2>1. FeedTypeOK
    BY <1>2, PriceFeedConstants DEF MonitorInit, FeedInit, FeedTypeOK
  <2>2. busy \in 0 .. MaxLag
    BY PriceFeedConstants DEF MonitorInit
  <2>3. at \in {"paper", "select", "signal", "ended"} \cup InTrade /\ rules \in Rules
    BY DEF MonitorInit
  <2>4. reason \in {"none", "hold", "stop", "profit", "trail"} /\ best \in Int
    BY DEF MonitorInit
  <2>5. refused \in BOOLEAN
    BY Zenon DEF MonitorInit
  <2>. QED
    BY <1>3, <1>4, <2>1, <2>2, <2>3, <2>4, <2>5 DEF MonitorTypeOK
<1>. USE MonitorConstants, PriceFeedConstants DEF MonitorInit, FeedInit
<1>6. Attempting /\ Control /\ LagIsTradeTime
  BY <1>2 DEF Attempting, Control, LagIsTradeTime
<1>7. PeakIsBest /\ ProfitWasTried /\ TrailAfterRefusedProfit
  BY DEF PeakIsBest, ProfitWasTried, TrailAfterRefusedProfit, Opened
<1>. QED
  BY <1>5, <1>6, <1>7 DEF MonInv

\* The invariant is inductive.
LEMMA MonInvStep == MonInv /\ [Next]_vars => MonInv'
<1>. SUFFICES ASSUME MonInv, [Next]_vars PROVE MonInv'
  OBVIOUS
<1>1. CASE Next
  BY <1>1, StepTypes, StepFeedTypes, StepControl, StepLag, StepPeak, StepProfit, StepTrail DEF MonInv
<1>2. CASE UNCHANGED vars
  BY <1>2 DEF vars, feedVars, sessionVars, historyVars, MonInv, MonitorTypeOK, FeedTypeOK, Attempting,
         Control, LagIsTradeTime, PeakIsBest, ProfitWasTried, TrailAfterRefusedProfit, ProfitFirst
<1>. QED
  BY <1>1, <1>2

\* The invariant of the price loop.
THEOREM MonitorInvariant == Spec => []MonInv
BY MonInvInit, MonInvStep, PTL DEF Spec

\* Types; a position is held no longer than the limit is counted, and an update is
\* never older than the bound (price_feed.rs, position.rs, rug.rs).
THEOREM MonitorTypes == Spec => []MonitorTypeOK
<1>1. MonInv => MonitorTypeOK
  BY DEF MonInv
<1>. QED
  BY <1>1, MonitorInvariant, PTL

\* Whatever waits in the channel came during the trades since it was last empty
\* (price_feed.rs 52-80, session.rs 166-255).
THEOREM MonitorLagIsTradeTime == Spec => []LagIsTradeTime
<1>1. MonInv => LagIsTradeTime
  BY DEF MonInv
<1>. QED
  BY <1>1, MonitorInvariant, PTL

\* With the take-profit below the lowest tier the trailing stop comes only after a
\* sale at the take-profit has failed (position.rs 146-175).
THEOREM MonitorTrailAfterRefusedProfit == Spec => []TrailAfterRefusedProfit
<1>1. MonInv => TrailAfterRefusedProfit
  BY DEF MonInv
<1>. QED
  BY <1>1, MonitorInvariant, PTL

\* What the trailing stop looks at is the highest tier that was reached.
LEMMA TrailIsHighest ==
    ASSUME MonInv, rx # << >>
    PROVE  TrailedOff(rules, Peaked, Profit) <=>
               \E i \in Reached(rules, Peaked) :
                   /\ \A j \in Reached(rules, Peaked) : j <= i
                   /\ Profit <= Peaked - rules.tiers[i].trail
<1>1. rules \in RuleSet /\ Ascending(rules.tiers) /\ Peaked \in Int
  BY Judged, MonitorConstants DEF MonInv, MonitorTypeOK
<1>. QED
  BY <1>1, HighestTier DEF TrailedOff

\* The trailing stop trails from the best update since the entry, by the trail of
\* the highest tier that was reached, failed sells and waiting updates in between
\* (position.rs 40-44, 125-137, 163-173; copy_session.rs 281-292).
THEOREM MonitorTrailsFromTheBest == Spec => TrailsFromTheBest
<1>1. ASSUME MonInv, [Next]_vars, Handled, rules.kind # "mirror"
      PROVE  (GivenBack => at' \in InTrade) /\ (reason' = "trail" => GivenBack)
  <2>1. Next /\ rx # << >> /\ at = "select" /\ position.open
    <3>1. ~UNCHANGED vars
      <4>1. Len(rx) \in Nat
        BY <1>1, LenProperties DEF MonInv, MonitorTypeOK, FeedTypeOK
      <4>. QED
        BY <1>1, <4>1 DEF Handled, vars, feedVars
    <3>. QED
      BY <1>1, <3>1, Handles DEF Handled
  <2>2. RuggedUpdate \/ ExitUpdate \/ PlainUpdate
    BY <1>1, <2>1, Handles
  <2>3. reason = "none" /\ position.peak = best
    BY <1>1, <2>1 DEF MonInv, Control, PeakIsBest
  <2>4. CASE RuggedUpdate
    BY <2>1, <2>3, <2>4 DEF RuggedUpdate
  <2>5. CASE ExitUpdate \/ PlainUpdate
    <3>1. position'.open
      BY <1>1, <2>1, <2>5 DEF ExitUpdate, PlainUpdate, MonInv, MonitorTypeOK
    <3>2. best' = Peaked
      BY <1>1, <2>1, <2>3, <3>1, Judged DEF MonInv, Next, History
    <3>3. GivenBack <=> TrailedOff(rules, Peaked, Profit)
      BY <1>1, <2>1, <3>2, TrailIsHighest DEF GivenBack
    <3>4. CASE ExitUpdate
      <4>1. at' = "selling" /\ reason' = Verdict
        BY <3>4 DEF ExitUpdate
      <4>. QED
        BY <1>1, <2>1, <3>3, <4>1, Judged DEF MonInv, Trips
    <3>5. CASE PlainUpdate
      <4>1. Verdict = "none" /\ reason' = "none"
        BY <2>1, <2>3, <3>5 DEF PlainUpdate
      <4>. QED
        BY <1>1, <2>1, <3>3, <4>1, Judged DEF MonInv
    <3>. QED
      BY <2>5, <3>4, <3>5
  <2>. QED
    BY <2>2, <2>4, <2>5
<1>2. MonInv /\ [Next]_vars =>
          [Handled /\ rules.kind # "mirror" =>
              /\ GivenBack => at' \in InTrade
              /\ reason' = "trail" => GivenBack]_vars
  BY <1>1
<1>. QED
  BY <1>2, MonitorInvariant, PTL DEF Spec, TrailsFromTheBest

=============================================================================
