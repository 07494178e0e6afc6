----------------------------- MODULE Graduation -----------------------------
(***************************************************************************)
(* Graduation mode: main.rs spawns one session per migration event         *)
(* (session.rs handle and run_session), and all sessions share the counter *)
(* open_positions, the tracker of the daily spend and the wallet.          *)
(*                                                                         *)
(* A step is what a task does between two awaits, split where it touches   *)
(* something another task may touch: open_positions is changed by separate *)
(* atomic additions, and the tracker's lock is taken and released for one  *)
(* call at a time.  Time passes only while every task is at an await.      *)
(*                                                                         *)
(* An Instant is kept as the time since then, counted up to the limit it   *)
(* is compared with.  Prices are abstracted to the verdicts drawn from     *)
(* them: a tick is rugged, asks for an exit, or neither, and the detector  *)
(* in use fires or does not.                                               *)
(***************************************************************************)
EXTENDS Trader, DailySpend

CONSTANTS
    EntryMode,     \* the detector that may buy: "macd", "capitulation", "dip_buy"
    MaxPositions,  \* trading.max_positions
    MaxMonitor,    \* trading.max_monitor_time, if that is not 0
    Limited,       \* whether it may be other than 0, and whether it may be 0
    MaxHold,       \* the max hold time of the entry mode; 0 is none
    Cooldown,      \* macd.cooldown_secs
    BlindReads     \* may the balance read after a buy fail?

Session == Caller

ASSUME GraduationConstants ==
    /\ EntryMode \in {"macd", "capitulation", "dip_buy"}
    /\ MaxPositions \in Nat /\ MaxMonitor \in Nat \ {0}
    /\ Limited \subseteq BOOLEAN
    /\ MaxHold \in Nat /\ Cooldown \in Nat
    /\ BlindReads \in BOOLEAN

VARIABLES
    open_positions,  \* the shared AtomicUsize
    pc,              \* where each session is
    feed,            \* the price task of each session
    monitored,       \* time since the session started; NoDeadline if it has none
    position,        \* the session's Option<Position>; age is since bought_at
    since_sell,      \* time since last_sell_at; Cooldown when there is none
    alarm            \* tokens the operator was told to sell by hand

vars == <<traderVars, spends, open_positions, pc, feed, monitored, position,
          since_sell, alarm>>

NoDeadline == MaxMonitor + 1

Capped == EntryMode = "dip_buy"

Awaiting == {"idle", "filters", "select", "buy", "balance", "exit_sell",
             "exit_release", "last_sell", "last_release", "ended"}

Running == {"cap_check", "reserve", "unreserve", "release", "signal"}

PositionRecord == [open: BOOLEAN, age: Nat, lots: Nat]

NoPosition == [open |-> FALSE, age |-> 0, lots |-> 0]

TypeOK ==
    /\ TraderTypeOK
    /\ spends \in Seq(SpendAge)
    /\ open_positions \in Nat
    /\ pc \in [Session -> Awaiting \cup Running]
    /\ feed \in [Session -> {"discovering", "polling", "closed"}]
    /\ monitored \in [Session -> 0 .. NoDeadline]
    /\ position \in [Session -> PositionRecord]
    /\ since_sell \in [Session -> 0 .. Cooldown]
    /\ alarm \in SUBSET Mint

Init ==
    /\ TraderInit
    /\ spends = << >>
    /\ open_positions = 0
    /\ pc = [s \in Session |-> "idle"]
    /\ feed = [s \in Session |-> "discovering"]
    /\ \E limited \in Limited :
          monitored = [s \in Session |-> IF limited THEN 0 ELSE NoDeadline]
    /\ position = [s \in Session |-> NoPosition]
    /\ since_sell = [s \in Session |-> Cooldown]
    /\ alarm = {}

-----------------------------------------------------------------------------
(* Pieces of the steps. *)

Goto(s, to) == pc' = [pc EXCEPT ![s] = to]

TakeSlot == open_positions' = open_positions + 1

\* fetch_sub.
FreeSlot == open_positions' = open_positions - 1

\* Mutant of SlotsFull: off by one.
SlotsOverfull == open_positions > MaxPositions

SlotsFull == open_positions >= MaxPositions

DeadlinePassed(s) == monitored[s] = MaxMonitor

HoldExpired(s) == MaxHold > 0 /\ position[s].age >= MaxHold

CoolingDown(s) == since_sell[s] < Cooldown

\* dip_buy spending is recorded whatever the buy's mode was, live or dry.
RecordSpend == IF Capped THEN Record ELSE UNCHANGED spends

\* Mutant of Alert: nobody is told.
AlertLost(s) == UNCHANGED alarm

Alert(s) == alarm' = alarm \cup {MintOf[s]}

sessionData == <<feed, monitored, position, since_sell, alarm>>

-----------------------------------------------------------------------------
(* Start: main.rs spawns a task, handle() filters the token, run_session() *)
(* starts the price task, which has to discover the token's pool first.    *)

Spawn(s) ==
    /\ pc[s] = "idle"
    /\ Goto(s, "filters")
    /\ UNCHANGED <<traderVars, spends, open_positions, sessionData>>

FiltersReject(s) ==
    /\ pc[s] = "filters"
    /\ Goto(s, "ended")
    /\ UNCHANGED <<traderVars, spends, open_positions, sessionData>>

FiltersPass(s) ==
    /\ pc[s] = "filters"
    /\ Goto(s, "select")
    /\ UNCHANGED <<traderVars, spends, open_positions, sessionData>>

PriceTask(s) ==
    /\ pc[s] \notin {"idle", "filters", "ended"}
    /\ feed[s] = "discovering"
    /\ \E to \in {"polling", "closed"} : feed' = [feed EXCEPT ![s] = to]
    /\ UNCHANGED <<traderVars, spends, open_positions, pc, monitored,
                   position, since_sell, alarm>>

-----------------------------------------------------------------------------
(* The select loop.  It is biased: a tick is taken only before the deadline. *)

\* Mutants of LeaveLoop: selling whether there is a position or not, and ending
\* without selling.
LeaveLoopSelling(s) == Begin(s, "sell") /\ Goto(s, "last_sell")

LeaveLoopAtOnce(s) == Goto(s, "ended") /\ UNCHANGED traderVars

\* The loop is left.  A position still open is sold first.
LeaveLoop(s) ==
    \/ /\ position[s].open
       /\ Begin(s, "sell")
       /\ Goto(s, "last_sell")
    \/ /\ ~position[s].open
       /\ Goto(s, "ended")
       /\ UNCHANGED traderVars

DeadlineFires(s) ==
    /\ pc[s] = "select"
    /\ DeadlinePassed(s)
    /\ LeaveLoop(s)
    /\ UNCHANGED <<spends, open_positions, sessionData>>

FeedEnds(s) ==
    /\ pc[s] = "select"
    /\ ~DeadlinePassed(s)
    /\ feed[s] = "closed"
    /\ LeaveLoop(s)
    /\ UNCHANGED <<spends, open_positions, sessionData>>

TickArrives(s) ==
    /\ pc[s] = "select"
    /\ ~DeadlinePassed(s)
    /\ feed[s] = "polling"

RuggedTick(s) ==
    /\ TickArrives(s)
    /\ LeaveLoop(s)
    /\ UNCHANGED <<spends, open_positions, sessionData>>

\* decide_exit gives a reason; it always does once the hold time is over.
ExitTick(s) ==
    /\ TickArrives(s)
    /\ position[s].open
    /\ Begin(s, "sell")
    /\ Goto(s, "exit_sell")
    /\ UNCHANGED <<spends, open_positions, sessionData>>

\* Mutant of PlainTick: the hold time is not looked at.
PlainTickAnyAge(s) ==
    /\ TickArrives(s)
    /\ Goto(s, "signal")
    /\ UNCHANGED <<traderVars, spends, open_positions, sessionData>>

PlainTick(s) ==
    /\ TickArrives(s)
    /\ ~(position[s].open /\ HoldExpired(s))
    /\ Goto(s, "signal")
    /\ UNCHANGED <<traderVars, spends, open_positions, sessionData>>

\* Mutant of ExitSold: the position is put back after a sale, too.
ExitSoldPutBack(s) ==
    /\ pc[s] = "exit_sell"
    /\ call[s].phase \in {"ok", "dry"}
    /\ End(s)
    /\ Goto(s, "exit_release")
    /\ UNCHANGED <<spends, open_positions, sessionData>>

\* try_sell succeeded; it still reads the SOL balance before it returns.
ExitSold(s) ==
    /\ pc[s] = "exit_sell"
    /\ call[s].phase \in {"ok", "dry"}
    /\ End(s)
    /\ position' = [position EXCEPT ![s] = NoPosition]
    /\ Goto(s, "exit_release")
    /\ UNCHANGED <<spends, open_positions, feed, monitored, since_sell, alarm>>

\* Mutant of ExitReleased: last_sell_at is not set.
ExitReleasedUnstamped(s) ==
    /\ pc[s] = "exit_release"
    /\ FreeSlot
    /\ Goto(s, "signal")
    /\ UNCHANGED <<traderVars, spends, sessionData>>

ExitReleased(s) ==
    /\ pc[s] = "exit_release"
    /\ FreeSlot
    /\ since_sell' = [since_sell EXCEPT ![s] = 0]
    /\ Goto(s, "signal")
    /\ UNCHANGED <<traderVars, spends, feed, monitored, position, alarm>>

\* The position is put back and the next tick decides again.
ExitSellFailed(s) ==
    /\ pc[s] = "exit_sell"
    /\ Returns(s, "err")
    /\ End(s)
    /\ Goto(s, "signal")
    /\ UNCHANGED <<spends, open_positions, sessionData>>

-----------------------------------------------------------------------------
(* Entry: the detectors at the end of a tick, and try_buy(). *)

\* Mutant of MayBuy: an open position does not matter.
MayBuyMore(s) == ~CoolingDown(s)

MayBuy(s) == ~position[s].open /\ ~CoolingDown(s)

NoEntry(s) ==
    /\ pc[s] = "signal"
    /\ Goto(s, "select")
    /\ UNCHANGED <<traderVars, spends, open_positions, sessionData>>

Fires(s) ==
    /\ pc[s] = "signal"
    /\ MayBuy(s)
    /\ Goto(s, IF Capped THEN "cap_check" ELSE "reserve")
    /\ UNCHANGED <<traderVars, spends, open_positions, sessionData>>

CapCheck(s) ==
    /\ pc[s] = "cap_check"
    /\ spends' = EvictOld(spends)
    /\ Goto(s, IF SpendAllowed THEN "reserve" ELSE "select")
    /\ UNCHANGED <<traderVars, open_positions, sessionData>>

Reserve(s) ==
    /\ pc[s] = "reserve"
    /\ TakeSlot
    /\ \/ SlotsFull /\ Goto(s, "unreserve") /\ UNCHANGED traderVars
       \/ ~SlotsFull /\ Goto(s, "buy") /\ Begin(s, "buy")
    /\ UNCHANGED <<spends, sessionData>>

Unreserve(s) ==
    /\ pc[s] = "unreserve"
    /\ FreeSlot
    /\ Goto(s, "select")
    /\ UNCHANGED <<traderVars, spends, sessionData>>

\* bought_at is now, before the balance is read: age runs from here (Tick).
Bought(s) ==
    /\ pc[s] = "buy"
    /\ Returns(s, "ok")
    /\ End(s)
    /\ RecordSpend
    /\ Goto(s, "balance")
    /\ UNCHANGED <<open_positions, sessionData>>

BoughtDry(s) ==
    /\ pc[s] = "buy"
    /\ Returns(s, "dry")
    /\ End(s)
    /\ RecordSpend
    /\ Goto(s, "release")
    /\ UNCHANGED <<open_positions, sessionData>>

DryReleased(s) ==
    /\ pc[s] = "release"
    /\ FreeSlot
    /\ Goto(s, "select")
    /\ UNCHANGED <<traderVars, spends, sessionData>>

\* Mutant of BuyFailed: a failed buy keeps its slot.
BuyFailedLeaking(s) ==
    /\ pc[s] = "buy"
    /\ Returns(s, "err")
    /\ End(s)
    /\ Goto(s, "select")
    /\ UNCHANGED <<spends, open_positions, sessionData>>

BuyFailed(s) ==
    /\ pc[s] = "buy"
    /\ Returns(s, "err")
    /\ End(s)
    /\ FreeSlot
    /\ Goto(s, "select")
    /\ UNCHANGED <<spends, sessionData>>

\* token_ui is all the wallet holds of the token.
BalanceRead(s) ==
    /\ pc[s] = "balance"
    /\ wallet[MintOf[s]] > 0
    /\ position' = [position EXCEPT ![s].open = TRUE,
                                    ![s].lots = wallet[MintOf[s]]]
    /\ Goto(s, "select")
    /\ UNCHANGED <<traderVars, spends, open_positions, feed, monitored,
                   since_sell, alarm>>

\* ORPHAN POSITION: one failed read of the token's program, or twenty of its
\* balance, or a balance that stays zero.
Orphaned(s) ==
    /\ pc[s] = "balance"
    /\ BlindReads \/ wallet[MintOf[s]] = 0
    /\ Alert(s)
    /\ FreeSlot
    /\ position' = [position EXCEPT ![s] = NoPosition]
    /\ Goto(s, "select")
    /\ UNCHANGED <<traderVars, spends, feed, monitored, since_sell>>

-----------------------------------------------------------------------------
(* The last sell, of a rugged token or of an ending session.  The slot is  *)
(* given back whether it succeeded or not.                                 *)

LastSold(s) ==
    /\ pc[s] = "last_sell"
    /\ call[s].phase \in Returned
    /\ End(s)
    /\ IF Returns(s, "err") THEN Alert(s) ELSE UNCHANGED alarm
    /\ position' = [position EXCEPT ![s] = NoPosition]
    /\ Goto(s, "last_release")
    /\ UNCHANGED <<spends, open_positions, feed, monitored, since_sell>>

LastReleased(s) ==
    /\ pc[s] = "last_release"
    /\ FreeSlot
    /\ Goto(s, "ended")
    /\ UNCHANGED <<traderVars, spends, sessionData>>

-----------------------------------------------------------------------------
(* Time. *)

InSession(s) == pc[s] \notin {"idle", "filters", "ended"}

HasBought(s) == position[s].open \/ pc[s] = "balance"

MonitoredOlder == [s \in Session |->
    IF InSession(s) /\ monitored[s] # NoDeadline
    THEN Older(monitored[s], MaxMonitor) ELSE monitored[s]]

PositionOlder == [s \in Session |->
    IF HasBought(s)
    THEN [position[s] EXCEPT !.age = Older(@, MaxHold)] ELSE position[s]]

SinceSellOlder == [s \in Session |->
    IF InSession(s) THEN Older(since_sell[s], Cooldown) ELSE since_sell[s]]

Tick ==
    /\ \A s \in Session : pc[s] \in Awaiting
    /\ monitored' = MonitoredOlder
    /\ position' = PositionOlder
    /\ since_sell' = SinceSellOlder
    /\ spends' = SpendsOlder
    /\ UNCHANGED <<traderVars, open_positions, pc, feed, alarm>>

\* No limit lies ahead of any timer: a tick changes nothing.
Aged ==
    /\ monitored = MonitoredOlder /\ position = PositionOlder
    /\ since_sell = SinceSellOlder /\ spends = SpendsOlder

-----------------------------------------------------------------------------
Entry(s) ==
    \/ NoEntry(s) \/ Fires(s) \/ CapCheck(s) \/ Reserve(s) \/ Unreserve(s)
    \/ Bought(s) \/ BoughtDry(s) \/ DryReleased(s) \/ BuyFailed(s)
    \/ BalanceRead(s) \/ Orphaned(s)

Exit(s) ==
    \/ DeadlineFires(s) \/ FeedEnds(s)
    \/ ExitSold(s) \/ ExitReleased(s) \/ ExitSellFailed(s)
    \/ LastSold(s) \/ LastReleased(s)

TickTaken(s) == RuggedTick(s) \/ ExitTick(s) \/ PlainTick(s)

SessionUnchanged == UNCHANGED <<spends, open_positions, pc, sessionData>>

Trades(s) == CallStep(s) /\ SessionUnchanged

Settles(s) == ChainStep(s) /\ SessionUnchanged

StraySettles == StrayStep /\ SessionUnchanged

Next ==
    \/ \E s \in Session :
          \/ Spawn(s) \/ FiltersReject(s) \/ FiltersPass(s) \/ PriceTask(s)
          \/ TickTaken(s) \/ Entry(s) \/ Exit(s)
          \/ Trades(s) \/ Settles(s)
    \/ StraySettles
    \/ Tick

Safety == Init /\ [][Next]_vars

(***************************************************************************)
(* A spawned task runs on whenever it can: filter reads, attempts, balance *)
(* reads and pool discovery all have timeouts and bounded retries, and a   *)
(* transaction lands or expires.  No tick has to come, no token has to     *)
(* graduate, and no transaction that was lost track of has to settle.      *)
(* Time does not stop: it passes again and again while a timer runs.       *)
(***************************************************************************)
Filtering(s) == FiltersReject(s) \/ FiltersPass(s)

Fairness ==
    /\ \A s \in Session :
          /\ WF_vars(Filtering(s)) /\ WF_vars(PriceTask(s))
          /\ WF_vars(Entry(s)) /\ WF_vars(Exit(s))
          /\ WF_vars(Trades(s)) /\ WF_vars(Settles(s))
    /\ <>[]Aged \/ []<><<Tick>>_vars

Spec == Safety /\ Fairness

-----------------------------------------------------------------------------
(* Properties. *)

\* The sessions counted in open_positions, from fetch_add to fetch_sub.
HoldsSlot(s) ==
    \/ pc[s] \in {"unreserve", "buy", "release", "balance", "exit_release",
                  "last_release"}
    \/ position[s].open

SlotHolders == {s \in Session : HoldsSlot(s) /\ pc[s] # "unreserve"}

\* No path through try_buy and the sells leaks a slot or gives one back twice:
\* the counter is the number of sessions between their fetch_add and their
\* fetch_sub (session.rs 202-255, 426-433, 477-574).
SlotLedger == open_positions = Cardinality({s \in Session : HoldsSlot(s)})

Slots == INSTANCE SlotCap WITH
    Task <- Session, Slots <- MaxPositions, holders <- SlotHolders

\* The two-step reservation (fetch_add, compare, fetch_sub on overflow) is a
\* slot cap: whatever the interleaving, never more than max_positions sessions
\* are past it (session.rs 476-485).
IsSlotCap == Slots!Spec

\* The check of the daily cap and the recording of the spend are two locked
\* sections with the buy between them.  Spending can pass the cap, but never by
\* more than the other sessions' trades (session.rs 464-474, 504-528).
SpendOvershootBounded ==
    Capped => Len(spends) + Cardinality({s \in Session : pc[s] \in {"reserve", "buy"}})
                  < CapTrades + Cardinality(Session)

\* README 240: at most one open trade per token at any time.  The wallet never
\* holds the tokens of two buys of a token.
NoPyramiding == \A m \in Mint : wallet[m] <= 1

\* Tokens in the wallet are watched by a session that holds a slot for them, or
\* the operator was told to sell them by hand (session.rs 258, 431, 553).
LeftoverIsAnnounced ==
    \A m \in Mint : wallet[m] > 0 =>
        m \in alarm \/ \E s \in Session : MintOf[s] = m /\ HoldsSlot(s)

\* A slot is held for a position only while its tokens are there or their sale
\* is being settled (README 244: max_positions only counts open positions).
OpenPositionIsBacked ==
    \A s \in Session :
        position[s].open /\ Idle(s) => wallet[MintOf[s]] > 0

StartsBuy(s) == Idle(s) /\ call'[s].phase = "submit" /\ call'[s].op = "buy"

\* README 118: when max_monitor_time expires, no new buys.  The deadline is
\* looked at only in the select, so this rests on what a tick can do after its
\* own exit sell (session.rs 245-297).
NoBuyAfterDeadline ==
    [][\A s \in Session : StartsBuy(s) => ~DeadlinePassed(s)]_vars

\* With a deadline every session that starts also ends, and ends without a slot:
\* no sell that keeps failing and no buy in progress outlives it for good
\* (session.rs 159-174, 407-438).
SessionsEnd ==
    \A s \in Session :
        pc[s] = "filters" /\ monitored[s] # NoDeadline
            ~> pc[s] = "ended" /\ ~HoldsSlot(s)

\* With ticks coming, every position is put up for sale, by max_hold_time at
\* the latest, even with no deadline on the session (position.rs 117, 153).
PositionsAreSold ==
    (\A s \in Session : WF_vars(TickTaken(s))) =>
        \A s \in Session : position[s].open ~> pc[s] \in {"exit_sell", "last_sell"}
=============================================================================
