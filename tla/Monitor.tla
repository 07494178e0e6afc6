------------------------------ MODULE Monitor -------------------------------
(***************************************************************************)
(* One session and its price task: what a session (session.rs run_session, *)
(* copy_session.rs copy_handle) makes of each price, while the task goes   *)
(* on reading whatever the session is doing.                               *)
(*                                                                         *)
(* Here the prices are numbers and the trades are abstracted to what they  *)
(* do to the session: it waits for them, and they succeed or fail.  The    *)
(* trades themselves, the slots and the timers are in Graduation and       *)
(* CopyTrade, what a detector makes of the prices is in Signals.           *)
(***************************************************************************)
EXTENDS PriceFeed, RugGuard, ExitRules

CONSTANTS
    Rules,   \* the rule sets a session may have
    Entries  \* entry prices a buy may come out at

ASSUME MonitorConstants ==
    /\ Rules \subseteq RuleSet /\ \A r \in Rules : Ascending(r.tiers)
    /\ Entries \subseteq Nat

VARIABLES
    rules,     \* the rule set of this session
    at,        \* where it is
    position,  \* its position; peak is peak_pct, held is time since bought_at
    guard,     \* its RugGuard
    reason,    \* the exit reason of the sell under way
    best,      \* history: highest profit at an update since the position opened
    refused,   \* history: has a take-profit sell of the position failed?
    busy       \* history: time spent in trades since the channel last ran dry

sessionVars == <<rules, at, position, guard, reason>>
historyVars == <<best, refused, busy>>
vars == <<feedVars, sessionVars, historyVars>>

NoPosition == [open |-> FALSE, entry |-> 0, peak |-> 0, held |-> 0]

InTrade == {"buying", "balance", "selling", "closing"}

Copies == rules.kind \in {"copy", "mirror"}

MonitorTypeOK ==
    /\ FeedTypeOK
    /\ rules \in Rules
    /\ at \in {"paper", "select", "signal", "ended"} \cup InTrade
    /\ position \in [open: BOOLEAN, entry: Nat, peak: Int, held: 0 .. rules.hold]
    /\ guard \in Guard
    /\ reason \in {"none", "hold", "stop", "profit", "trail"}
    /\ best \in Int /\ refused \in BOOLEAN /\ busy \in 0 .. MaxLag

\* Mutant of Opened: as if it had already doubled.
OpenedDoubled(entry) == [open |-> TRUE, entry |-> entry, peak |-> 100, held |-> 0]

Opened(entry) == [open |-> TRUE, entry |-> entry, peak |-> 0, held |-> 0]

\* A copied trade is monitored once it is bought, on paper from a first price.
MonitorInit ==
    /\ FeedInit
    /\ rules \in Rules
    /\ guard = NewGuard
    /\ reason = "none"
    /\ best = 0 /\ refused = FALSE /\ busy = 0
    /\ \/ ~Copies /\ at = "select" /\ position = NoPosition
       \/ Copies /\ at = "paper" /\ position = NoPosition
       \/ Copies /\ at = "select" /\ \E e \in Entries : position = Opened(e)

-----------------------------------------------------------------------------
(* An update. *)

\* A paper entry takes the first price that is not zero.
PaperEntry ==
    /\ at = "paper"
    /\ rx # << >>
    /\ Recv
    /\ IF Head(rx).price > 0
       THEN at' = "select" /\ position' = Opened(Head(rx).price)
       ELSE UNCHANGED <<at, position>>
    /\ UNCHANGED <<rules, guard, reason>>

Taken == Head(rx)

Takes ==
    /\ at = "select"
    /\ rx # << >>
    /\ guard' = Observe(guard, Taken)
    /\ UNCHANGED rules

\* The loop is left: an open position is sold first.
Leave ==
    \/ position.open /\ at' = "closing" /\ UNCHANGED feedVars
    \/ ~position.open /\ at' = "ended" /\ DropReceiver

\* Mutant of RuggedUpdate: a token that is held is not judged.
RuggedUpdateUnheld ==
    /\ Takes
    /\ IsRugged(guard', Taken)
    /\ IF position.open THEN at' = "select" /\ Recv ELSE at' = "ended" /\ DropReceiver
    /\ UNCHANGED <<position, reason>>

RuggedUpdate ==
    /\ Takes
    /\ IsRugged(guard', Taken)
    /\ IF position.open THEN at' = "closing" /\ Recv ELSE at' = "ended" /\ DropReceiver
    /\ UNCHANGED <<position, reason>>

Profit == Pnl(position.entry, Taken.price)

Peaked == Higher(position.peak, Profit)

\* update_peak comes before decide_exit.
Verdict == DecideExit(rules, Peaked, Profit, position.held)

ExitUpdate ==
    /\ Takes
    /\ ~IsRugged(guard', Taken)
    /\ position.open
    /\ Verdict # "none"
    /\ position' = [position EXCEPT !.peak = Peaked]
    /\ reason' = Verdict
    /\ at' = "selling"
    /\ Recv

\* The detectors of a graduation session look at the update last.
AfterUpdate == IF Copies THEN "select" ELSE "signal"

PlainUpdate ==
    /\ Takes
    /\ ~IsRugged(guard', Taken)
    /\ \/ ~position.open /\ UNCHANGED position
       \/ position.open /\ Verdict = "none"
            /\ position' = [position EXCEPT !.peak = Peaked]
    /\ at' = AfterUpdate
    /\ Recv
    /\ UNCHANGED reason

NoSignal ==
    /\ at = "signal"
    /\ at' = "select"
    /\ UNCHANGED <<feedVars, rules, position, guard, reason>>

Fires ==
    /\ at = "signal"
    /\ ~position.open
    /\ at' = "buying"
    /\ UNCHANGED <<feedVars, rules, position, guard, reason>>

-----------------------------------------------------------------------------
(* What a trade comes to. *)

BuyReturns ==
    /\ at = "buying"
    /\ at' \in {"balance", "select"}
    /\ position' = NoPosition
    /\ UNCHANGED <<feedVars, rules, guard, reason>>

\* The position is there once its balance is read; bought_at was before that.
BalanceRead ==
    /\ at = "balance"
    /\ at' = "select"
    /\ \/ position' = NoPosition
       \/ \E e \in Entries : position' = [Opened(e) EXCEPT !.held = position.held]
    /\ UNCHANGED <<feedVars, rules, guard, reason>>

Sold ==
    /\ at = "selling"
    /\ position' = NoPosition
    /\ reason' = "none"
    /\ IF Copies THEN at' = "ended" /\ DropReceiver
                 ELSE at' = "signal" /\ UNCHANGED feedVars
    /\ UNCHANGED <<rules, guard>>

\* Mutant of SellFails: the position is put back with its peak forgotten.
SellFailsPeakLost ==
    /\ at = "selling"
    /\ at' = AfterUpdate
    /\ reason' = "none"
    /\ position' = [position EXCEPT !.peak = 0]
    /\ UNCHANGED <<feedVars, rules, guard>>

\* The position is kept, and the next update decides anew.
SellFails ==
    /\ at = "selling"
    /\ at' = AfterUpdate
    /\ reason' = "none"
    /\ UNCHANGED <<feedVars, rules, position, guard>>

\* The sell after the loop ends the session whatever it comes to.
Closed ==
    /\ at = "closing"
    /\ at' = "ended"
    /\ DropReceiver
    /\ position' = NoPosition
    /\ UNCHANGED <<rules, guard, reason>>

-----------------------------------------------------------------------------
(* The other branches of the select. *)

\* The feed's end is noticed when the channel is empty.
FeedOver ==
    /\ at = "select"
    /\ Hangs
    /\ Leave
    /\ UNCHANGED <<rules, position, guard, reason>>

PaperFails ==
    /\ at = "paper"
    /\ Hangs
    /\ at' = "ended"
    /\ DropReceiver
    /\ UNCHANGED <<rules, position, guard, reason>>

\* A deadline, a shutdown, the followed wallet's sell.
Called ==
    /\ at = "select"
    /\ Leave
    /\ UNCHANGED <<rules, position, guard, reason>>

-----------------------------------------------------------------------------
(* Time.  With an update in the channel a session at its select takes it   *)
(* at once, so no time passes there.                                       *)

\* Mutant of Waits: the channel is looked at when a timer says so.
WaitsOut == at \in {"paper", "select"}

Waits == at \in {"paper", "select"} /\ rx = << >> /\ ~Hangs

Held == IF position.open \/ at = "balance"
        THEN [position EXCEPT !.held = IF @ < rules.hold THEN @ + 1 ELSE @]
        ELSE position

Tick ==
    /\ Waits \/ at \in InTrade \/ at = "ended"
    /\ FeedTick
    /\ position' = Held
    /\ UNCHANGED <<rules, at, guard, reason>>

-----------------------------------------------------------------------------
SessionStep ==
    \/ RuggedUpdate \/ ExitUpdate \/ PlainUpdate
    \/ PaperEntry \/ NoSignal \/ Fires
    \/ BuyReturns \/ BalanceRead \/ Sold \/ SellFails \/ Closed
    \/ FeedOver \/ PaperFails

FeedStep == PollStep /\ UNCHANGED sessionVars

Handled == at = "select" /\ position.open /\ Len(rx') < Len(rx)

\* Each is reset when what it is about starts again.
History ==
    /\ best' = CASE ~position'.open -> 0
                 [] position'.open /\ Handled -> Higher(best, Profit)
                 [] position'.open /\ ~Handled -> best
    /\ refused' = (position'.open /\ (refused \/ (at = "selling" /\ reason = "profit")))
    /\ busy' = CASE rx' = << >> /\ at' \notin InTrade -> 0
                 [] rx' # << >> \/ at' \in InTrade ->
                        IF at \in InTrade /\ Tick THEN Lag(busy) ELSE busy

Next == (SessionStep \/ Called \/ FeedStep \/ Tick) /\ History

Aged == poll = WokenTo /\ rx = QueueOlder /\ position = Held

\* Trades return and reads end; time passes.  No read has to succeed, and
\* nothing has to call the session off.
Fairness ==
    /\ WF_vars(SessionStep /\ History)
    /\ WF_vars(FeedStep /\ History)
    /\ <>[]Aged \/ []<><<Tick /\ History>>_vars

Spec == MonitorInit /\ [][Next]_vars /\ Fairness

-----------------------------------------------------------------------------
(* Properties. *)

\* The channel is unbounded and the task reads on during a trade, so a session
\* decides on old prices; how old is bounded by the trades alone.  Whatever
\* waits in the channel came during the trades since it was last empty
\* (price_feed.rs 52-80, session.rs 166-255).
LagIsTradeTime == \A i \in DOMAIN rx : rx[i].age <= busy

\* The profit at the update just handled lies a whole trail below the best there
\* has been, by the trail of the highest tier that was reached.
GivenBack ==
    \E i \in Reached(rules, best') :
        /\ \A j \in Reached(rules, best') : j <= i
        /\ Profit <= best' - rules.tiers[i].trail

\* The trailing stop trails from the best update since the entry, failed sells and
\* waiting updates in between: an update a whole trail under it puts the position
\* up for sale, and the trail of a tier already passed does not
\* (position.rs 40-44, 125-137, 163-173; copy_session.rs 281-292; session.rs
\* 217-255).
TrailsFromTheBest ==
    [][Handled /\ rules.kind # "mirror" =>
          /\ GivenBack => at' \in InTrade
          /\ reason' = "trail" => GivenBack]_vars

ProfitFirst ==
    /\ rules.kind = "universal" /\ rules.profit > 0
    /\ \A i \in DOMAIN rules.tiers : rules.profit < rules.tiers[i].gain

\* README 242: with the take-profit below the lowest tier trailing never
\* engages.  It does in one case only: after the sell at the take-profit of the
\* same position has failed (position.rs 146-175, main.rs 74-84).
TrailAfterRefusedProfit == ProfitFirst /\ reason = "trail" => refused

Doomed ==
    /\ at \notin {"paper", "ended"}
    /\ \E i \in DOMAIN rx : BelowFloor(rx[i]) /\ guard.samples + i >= RugFilter.min_samples

\* A reading under the liquidity floor ends the session although it lies in the
\* channel behind others, trades are under way and sells fail
\* (session.rs 181-215, rug.rs 3-8, copy_session.rs 289-298).  config.rs 218-221 says
\* otherwise, that a failing check "blocks that one buy; the session keeps
\* monitoring", and only on a bullish crossover: not what the code does.
RugEndsSession == Doomed ~> at = "ended"

\* A price task that gives up ends its session, which sells first, and a session
\* that ends stops its price task, even if no read succeeds any more
\* (price_feed.rs 44-50, 66-86; session.rs 176-179).
EndTogether == (at = "ended" \/ poll = "ended") ~> (at = "ended" /\ poll = "ended")
=============================================================================
