----------------------------- MODULE CopyTrade ------------------------------
(***************************************************************************)
(* Copy-trade mode: the loop of main.rs that reads the trades of the       *)
(* followed wallets and spawns one copy_handle task (copy_session.rs) for  *)
(* each buy it copies, the broadcast of the wallets' sells to those tasks, *)
(* and the shutdown of the process.                                        *)
(*                                                                         *)
(* A step is what a task does between two awaits, split at every access to *)
(* the shared counter and the shared tracker.  The two cooldown maps are   *)
(* used by the main loop alone, so handling a frame is one step.           *)
(* Every entry of the process is a task of its own, and the number of      *)
(* tasks of a token bounds how often it is entered.                        *)
(***************************************************************************)
EXTENDS Trader, DailySpend

CONSTANTS
    Wallet,          \* the followed wallets
    MaxPositions,    \* copy_trade.max_positions
    MintCooldown,    \* copy_trade.reentry_cooldown_secs
    WalletCooldown,  \* copy_trade.per_wallet_cooldown_secs
    MaxHold,         \* the effective max hold of the exit mode, if that is not 0
    Limited,         \* whether it may be other than 0, and whether it may be 0
    MirrorExit,      \* copy_trade.mirror_exit
    Backlog,         \* capacity of the sell broadcast
    Flood,           \* may sells arrive faster than a task reads them?
    ShutdownPolls,   \* how often a shutdown looks whether all is closed
    SlowStart,       \* may a shutdown come before a spawned task has begun?
    BlindReads       \* may the balance read after a buy fail?

Task == Caller

ASSUME CopyTradeConstants ==
    /\ Wallet # {} /\ Backlog \in Nat \ {0}
    /\ MaxPositions \in Nat /\ MintCooldown \in Nat /\ WalletCooldown \in Nat
    /\ MaxHold \in Nat \ {0} /\ Limited \subseteq BOOLEAN
    /\ ShutdownPolls \in Nat
    /\ MirrorExit \in BOOLEAN /\ Flood \in BOOLEAN
    /\ SlowStart \in BOOLEAN /\ BlindReads \in BOOLEAN

VARIABLES
    main,            \* where the main loop is
    polls,           \* looks left in the shutdown's wait
    verdict,         \* what the shutdown logged
    recent,          \* time since a token was last let through
    recent_wallet,   \* time since a wallet was last let through
    copy_positions,  \* the shared AtomicUsize
    pc,              \* where each task is
    followed,        \* the wallet each task copies
    mirror,          \* sells waiting in each task's receiver: does it exit on one?
    told,            \* is a shutdown waiting in the task's receiver?
    feed,            \* the price task of each task
    held,            \* time since bought_at; NoDeadline if it may be held for ever
    last_try,        \* does the sell under way end the task whatever it returns?
    alarm            \* tokens the operator was told to sell by hand

mainVars == <<main, polls, verdict, recent, recent_wallet>>
inboxVars == <<followed, mirror, told>>
taskVars == <<feed, held, last_try, alarm>>
vars == <<traderVars, spends, copy_positions, pc, mainVars, inboxVars, taskVars>>

NoDeadline == MaxHold + 1

Sell == [trader: Wallet, mint: Mint, closes: BOOLEAN]

Awaiting == {"idle", "buy", "balance", "paper", "hold", "sell", "sold", "ended"}

Running == {"cap_check", "reserve", "unreserve", "release"}

TypeOK ==
    /\ TraderTypeOK
    /\ spends \in Seq(SpendAge)
    /\ copy_positions \in Nat
    /\ pc \in [Task -> Awaiting \cup Running]
    /\ main \in {"running", "waiting", "looked", "leaving", "exited"}
    /\ verdict \in {"none", "clean", "unclean"}
    /\ polls \in 0 .. ShutdownPolls
    /\ recent \in [Mint -> 0 .. MintCooldown]
    /\ recent_wallet \in [Wallet -> 0 .. WalletCooldown]
    /\ followed \in [Task -> Wallet]
    /\ mirror \in [Task -> Seq(BOOLEAN)]
    /\ told \in [Task -> BOOLEAN]
    /\ feed \in [Task -> {"discovering", "polling", "closed"}]
    /\ held \in [Task -> 0 .. NoDeadline]
    /\ last_try \in [Task -> BOOLEAN]
    /\ alarm \in SUBSET Mint

Init ==
    /\ TraderInit
    /\ spends = << >>
    /\ copy_positions = 0
    /\ pc = [t \in Task |-> "idle"]
    /\ main = "running"
    /\ polls = ShutdownPolls
    /\ verdict = "none"
    /\ recent = [m \in Mint |-> MintCooldown]
    /\ recent_wallet = [w \in Wallet |-> WalletCooldown]
    /\ followed = [t \in Task |-> CHOOSE w \in Wallet : TRUE]
    /\ mirror = [t \in Task |-> << >>]
    /\ told = [t \in Task |-> FALSE]
    /\ feed = [t \in Task |-> "discovering"]
    /\ \E limited \in Limited :
          held = [t \in Task |-> IF limited THEN 0 ELSE NoDeadline]
    /\ last_try = [t \in Task |-> FALSE]
    /\ alarm = {}

-----------------------------------------------------------------------------
(* The main loop. *)

\* Mutant of Subscribed: receivers are made when the position is open.
SubscribedLate(t) == pc[t] \in {"hold", "sell", "sold"}

\* The receivers of a task are made before it is spawned.
Subscribed(t) == pc[t] \notin {"idle", "ended"}

\* A receiver that is Backlog behind loses its oldest frame.
Queued(q, f) == Append(IF Len(q) < Backlog THEN q ELSE Tail(q), f)

\* The sell by which the followed wallet closes the token.
ClosesFor(t, f) == f.mint = MintOf[t] /\ f.trader = followed[t] /\ f.closes

\* sell_tx.send: every task alive gets every wallet's sells.
HandleSell(f) ==
    /\ main = "running"
    /\ Flood \/ \A t \in Task : Len(mirror[t]) < Backlog
    /\ mirror' = [t \in Task |->
          IF Subscribed(t) THEN Queued(mirror[t], ClosesFor(t, f)) ELSE mirror[t]]
    /\ UNCHANGED <<traderVars, spends, copy_positions, pc, mainVars, followed,
                   told, taskVars>>

WalletCooling(w) == recent_wallet[w] < WalletCooldown

MintCooling(m) == recent[m] < MintCooldown

StampWallet(w) == recent_wallet' = [recent_wallet EXCEPT ![w] = 0]

\* The wallet is stamped before the token's own cooldown is looked at.
SkipBuy(w, m) ==
    /\ main = "running"
    /\ ~WalletCooling(w) /\ MintCooling(m)
    /\ StampWallet(w)
    /\ UNCHANGED <<traderVars, spends, copy_positions, pc, main, polls, verdict,
                   recent, inboxVars, taskVars>>

\* The task is subscribed to sells and to the shutdown before it starts.
CopyBuy(w, t) ==
    /\ main = "running"
    /\ pc[t] = "idle"
    /\ ~WalletCooling(w) /\ ~MintCooling(MintOf[t])
    /\ StampWallet(w)
    /\ recent' = [recent EXCEPT ![MintOf[t]] = 0]
    /\ followed' = [followed EXCEPT ![t] = w]
    /\ pc' = [pc EXCEPT ![t] = "cap_check"]
    /\ UNCHANGED <<traderVars, spends, copy_positions, main, polls, verdict,
                   mirror, told, taskVars>>

\* shutdown_tx.send.
TellAll == told' = [t \in Task |-> Subscribed(t)]

Starting(t) == pc[t] \in {"cap_check", "reserve", "unreserve"}

Shutdown ==
    /\ main = "running"
    /\ SlowStart \/ \A t \in Task : ~Starting(t)
    /\ TellAll
    /\ main' = "waiting"
    /\ UNCHANGED <<traderVars, spends, copy_positions, pc, polls, verdict, recent,
                   recent_wallet, followed, mirror, taskVars>>

\* Mutant of Wait: the shutdown waits until all is closed.
WaitForAll ==
    /\ main = "waiting"
    /\ copy_positions > 0 /\ polls > 0
    /\ UNCHANGED vars

Wait ==
    /\ main = "waiting"
    /\ copy_positions > 0 /\ polls > 0
    /\ polls' = polls - 1
    /\ UNCHANGED <<traderVars, spends, copy_positions, pc, main, verdict, recent,
                   recent_wallet, inboxVars, taskVars>>

\* Mutant of Verdict: one position too many is called clean.
VerdictLax == IF copy_positions > 1 THEN "unclean" ELSE "clean"

Verdict == IF copy_positions > 0 THEN "unclean" ELSE "clean"

\* The wait ends when the counter is found at zero, or after the last look.
Looked ==
    /\ main = "waiting"
    /\ copy_positions = 0 \/ polls = 0
    /\ main' = "looked"
    /\ UNCHANGED <<traderVars, spends, copy_positions, pc, polls, verdict, recent,
                   recent_wallet, inboxVars, taskVars>>

\* The counter is loaded again for the verdict.
LastLook ==
    /\ main = "looked"
    /\ verdict' = Verdict
    /\ main' = "leaving"
    /\ UNCHANGED <<traderVars, spends, copy_positions, pc, polls, recent,
                   recent_wallet, inboxVars, taskVars>>

\* main returns and the runtime drops every task where it is.
Exit ==
    /\ main = "leaving"
    /\ main' = "exited"
    /\ UNCHANGED <<traderVars, spends, copy_positions, pc, polls, verdict, recent,
                   recent_wallet, inboxVars, taskVars>>

Dead == main = "exited"

-----------------------------------------------------------------------------
(* copy_handle: from the gates to the position. *)

Goto(t, to) == pc' = [pc EXCEPT ![t] = to]

TakeSlot == copy_positions' = copy_positions + 1

FreeSlot == copy_positions' = copy_positions - 1

\* Mutant of SlotsFull: off by one.
SlotsOverfull == copy_positions > MaxPositions

SlotsFull == copy_positions >= MaxPositions

\* Mutant of Alert: nobody is told.
AlertLost(t) == UNCHANGED alarm

Alert(t) == alarm' = alarm \cup {MintOf[t]}

\* copy_handle returns: its receivers are dropped.
Unsubscribe(t) ==
    /\ mirror' = [mirror EXCEPT ![t] = << >>]
    /\ told' = [told EXCEPT ![t] = FALSE]
    /\ UNCHANGED followed

\* The token's address does not parse.
BadMint(t) ==
    /\ pc[t] = "cap_check"
    /\ Goto(t, "ended")
    /\ Unsubscribe(t)
    /\ UNCHANGED <<traderVars, spends, copy_positions, mainVars, taskVars>>

\* Mutant of CapCheck: the slot is given back that was not taken yet.
CapCheckReleasing(t) ==
    /\ pc[t] = "cap_check"
    /\ spends' = EvictOld(spends)
    /\ Goto(t, IF SpendAllowed THEN "reserve" ELSE "release")
    /\ UNCHANGED <<traderVars, copy_positions, mainVars, inboxVars, taskVars>>

CapCheck(t) ==
    /\ pc[t] = "cap_check"
    /\ spends' = EvictOld(spends)
    /\ \/ SpendAllowed /\ Goto(t, "reserve") /\ UNCHANGED inboxVars
       \/ ~SpendAllowed /\ Goto(t, "ended") /\ Unsubscribe(t)
    /\ UNCHANGED <<traderVars, copy_positions, mainVars, taskVars>>

Reserve(t) ==
    /\ pc[t] = "reserve"
    /\ TakeSlot
    /\ \/ SlotsFull /\ Goto(t, "unreserve") /\ UNCHANGED traderVars
       \/ ~SlotsFull /\ Goto(t, "buy") /\ Begin(t, "buy")
    /\ UNCHANGED <<spends, mainVars, inboxVars, taskVars>>

\* Mutant of Unreserve: the overflowing count is not taken back.
UnreserveLeaking(t) ==
    /\ pc[t] = "unreserve"
    /\ Goto(t, "ended")
    /\ Unsubscribe(t)
    /\ UNCHANGED <<traderVars, spends, copy_positions, mainVars, taskVars>>

Unreserve(t) ==
    /\ pc[t] = "unreserve"
    /\ FreeSlot
    /\ Goto(t, "ended")
    /\ Unsubscribe(t)
    /\ UNCHANGED <<traderVars, spends, mainVars, taskVars>>

\* The spend is recorded whatever became of the buy.
BuyReturned(t) ==
    /\ pc[t] = "buy"
    /\ call[t].phase \in Returned
    /\ End(t)
    /\ Record
    /\ Goto(t, CASE Returns(t, "ok") -> "balance"
                 [] Returns(t, "dry") -> "paper"
                 [] Returns(t, "err") -> "release")
    /\ UNCHANGED <<copy_positions, mainVars, inboxVars, taskVars>>

BalanceRead(t) ==
    /\ pc[t] = "balance"
    /\ wallet[MintOf[t]] > 0
    /\ Goto(t, "hold")
    /\ UNCHANGED <<traderVars, spends, copy_positions, mainVars, inboxVars,
                   taskVars>>

Orphaned(t) ==
    /\ pc[t] = "balance"
    /\ BlindReads \/ wallet[MintOf[t]] = 0
    /\ Alert(t)
    /\ Goto(t, "release")
    /\ UNCHANGED <<traderVars, spends, copy_positions, mainVars, inboxVars,
                   feed, held, last_try>>

\* Dry run: the first price opens a paper position; nothing else is awaited.
PaperEntry(t) ==
    /\ pc[t] = "paper"
    /\ feed[t] = "polling"
    /\ Goto(t, "hold")
    /\ UNCHANGED <<traderVars, spends, copy_positions, mainVars, inboxVars,
                   taskVars>>

PaperFails(t) ==
    /\ pc[t] = "paper"
    /\ feed[t] = "closed"
    /\ Goto(t, "release")
    /\ UNCHANGED <<traderVars, spends, copy_positions, mainVars, inboxVars,
                   taskVars>>

PriceTask(t) ==
    /\ pc[t] \in {"paper", "hold", "sell"}
    /\ feed[t] = "discovering"
    /\ \E to \in {"polling", "closed"} : feed' = [feed EXCEPT ![t] = to]
    /\ UNCHANGED <<traderVars, spends, copy_positions, pc, mainVars, inboxVars,
                   held, last_try, alarm>>

-----------------------------------------------------------------------------
(* The select loop of an open position: biased, in the order deadline,     *)
(* shutdown, mirror, price.                                                *)

DeadlineReady(t) == held[t] = MaxHold

MirrorReady(t) == MirrorExit /\ mirror[t] # << >>

AtSelect(t) == pc[t] = "hold"

\* The sells after which the loop is left whether they succeed or not, and the
\* exit of a price tick, which is tried again when it failed.
StartSell(t, final) ==
    /\ Begin(t, "sell")
    /\ last_try' = [last_try EXCEPT ![t] = final]
    /\ Goto(t, "sell")
    /\ UNCHANGED <<spends, copy_positions, mainVars, feed, held, alarm>>

DeadlineFires(t) ==
    /\ AtSelect(t)
    /\ DeadlineReady(t)
    /\ StartSell(t, TRUE)
    /\ UNCHANGED inboxVars

HearShutdown(t) ==
    /\ AtSelect(t)
    /\ ~DeadlineReady(t)
    /\ told[t]
    /\ told' = [told EXCEPT ![t] = FALSE]
    /\ StartSell(t, TRUE)
    /\ UNCHANGED <<followed, mirror>>

AtMirror(t) ==
    /\ AtSelect(t)
    /\ ~DeadlineReady(t) /\ ~told[t]
    /\ MirrorReady(t)
    /\ mirror' = [mirror EXCEPT ![t] = Tail(@)]
    /\ UNCHANGED <<followed, told>>

Mirrored(t) ==
    /\ AtMirror(t)
    /\ Head(mirror[t])
    /\ StartSell(t, TRUE)

NotMirrored(t) ==
    /\ AtMirror(t)
    /\ ~Head(mirror[t])
    /\ UNCHANGED <<traderVars, spends, copy_positions, pc, mainVars, taskVars>>

AtPrice(t) ==
    /\ AtSelect(t)
    /\ ~DeadlineReady(t) /\ ~told[t] /\ ~MirrorReady(t)
    /\ UNCHANGED inboxVars

RuggedTick(t) == AtPrice(t) /\ feed[t] = "polling" /\ StartSell(t, TRUE)

ExitTick(t) == AtPrice(t) /\ feed[t] = "polling" /\ StartSell(t, FALSE)

FeedEnds(t) == AtPrice(t) /\ feed[t] = "closed" /\ StartSell(t, TRUE)

\* The wallet's SOL balance is read before the slot is given back.
Sold(t) ==
    /\ pc[t] = "sell"
    /\ call[t].phase \in {"ok", "dry"}
    /\ End(t)
    /\ Goto(t, "sold")
    /\ UNCHANGED <<spends, copy_positions, mainVars, inboxVars, taskVars>>

\* Mutant of BagHeld: every failed sell is tried again.
BagHeldForever(t) ==
    /\ pc[t] = "sell"
    /\ Returns(t, "err")
    /\ End(t)
    /\ Alert(t)
    /\ Goto(t, "hold")
    /\ UNCHANGED <<spends, copy_positions, mainVars, inboxVars, feed, held,
                   last_try>>

BagHeld(t) ==
    /\ pc[t] = "sell"
    /\ Returns(t, "err")
    /\ End(t)
    /\ Alert(t)
    /\ Goto(t, IF last_try[t] THEN "release" ELSE "hold")
    /\ UNCHANGED <<spends, copy_positions, mainVars, inboxVars, feed, held,
                   last_try>>

Release(t) ==
    /\ pc[t] \in {"sold", "release"}
    /\ FreeSlot
    /\ Goto(t, "ended")
    /\ Unsubscribe(t)
    /\ UNCHANGED <<traderVars, spends, mainVars, taskVars>>

-----------------------------------------------------------------------------
(* Time. *)

HasBought(t) == pc[t] \in {"balance", "hold", "sell", "sold"}

HeldOlder == [t \in Task |->
    IF HasBought(t) /\ held[t] # NoDeadline
    THEN Older(held[t], MaxHold) ELSE held[t]]

RecentOlder == [m \in Mint |-> Older(recent[m], MintCooldown)]

RecentWalletOlder == [w \in Wallet |-> Older(recent_wallet[w], WalletCooldown)]

Tick ==
    /\ \A t \in Task : pc[t] \in Awaiting
    /\ held' = HeldOlder
    /\ recent' = RecentOlder
    /\ recent_wallet' = RecentWalletOlder
    /\ spends' = SpendsOlder
    /\ UNCHANGED <<traderVars, copy_positions, pc, main, polls, verdict, inboxVars,
                   feed, last_try, alarm>>

Aged ==
    /\ held = HeldOlder /\ recent = RecentOlder
    /\ recent_wallet = RecentWalletOlder /\ spends = SpendsOlder

-----------------------------------------------------------------------------
Entry(t) ==
    \/ BadMint(t) \/ CapCheck(t) \/ Reserve(t) \/ Unreserve(t)
    \/ BuyReturned(t) \/ BalanceRead(t) \/ Orphaned(t) \/ PaperFails(t)

Obliged(t) ==
    \/ DeadlineFires(t) \/ HearShutdown(t) \/ Mirrored(t) \/ NotMirrored(t)
    \/ FeedEnds(t) \/ Sold(t) \/ BagHeld(t) \/ Release(t)

\* No price has to come, not even the one a paper entry waits for.
PriceComes(t) == PaperEntry(t) \/ RuggedTick(t) \/ ExitTick(t)

TaskUnchanged ==
    UNCHANGED <<spends, copy_positions, pc, mainVars, inboxVars, taskVars>>

Trades(t) == CallStep(t) /\ TaskUnchanged

Settles(t) == ChainStep(t) /\ TaskUnchanged

StraySettles == StrayStep /\ TaskUnchanged

\* What task t does by itself, while there is a process to do it.
Step(t) == ~Dead /\ (Entry(t) \/ Obliged(t))

CallStepAlive(t) == ~Dead /\ Trades(t)

MainStep == Wait \/ Looked \/ LastLook \/ Exit

Frame ==
    \/ \E f \in Sell : HandleSell(f)
    \/ \E w \in Wallet : \/ \E m \in Mint : SkipBuy(w, m)
                         \/ \E t \in Task : CopyBuy(w, t)

Next ==
    \/ Frame \/ Shutdown \/ MainStep
    \/ \E t \in Task :
          \/ Step(t) \/ CallStepAlive(t) \/ Settles(t)
          \/ ~Dead /\ (PriceTask(t) \/ PriceComes(t))
    \/ StraySettles
    \/ ~Dead /\ Tick

Safety == Init /\ [][Next]_vars

\* As in graduation mode: awaits end, transactions settle, time passes.  Trades
\* of followed wallets, prices and the shutdown may or may not come.
Fairness ==
    /\ \A t \in Task :
          /\ WF_vars(Step(t)) /\ WF_vars(~Dead /\ PriceTask(t))
          /\ WF_vars(CallStepAlive(t)) /\ WF_vars(Settles(t))
    /\ WF_vars(MainStep)
    /\ <>[]Aged \/ <>[]Dead \/ []<><<Tick>>_vars

Spec == Safety /\ Fairness

-----------------------------------------------------------------------------
(* Properties. *)

HoldsSlot(t) == pc[t] \in {"unreserve", "buy", "balance", "paper", "hold",
                           "sell", "sold", "release"}

SlotHolders == {t \in Task : HoldsSlot(t) /\ pc[t] # "unreserve"}

\* No way through copy_handle leaks a slot or gives it back twice
\* (copy_session.rs 91-96, 149, 156, 176, 187, 324).
SlotLedger == copy_positions = Cardinality({t \in Task : HoldsSlot(t)})

Slots == INSTANCE SlotCap WITH
    Task <- Task, Slots <- MaxPositions, holders <- SlotHolders

\* Never more than max_positions tasks are past the reservation, whatever the
\* interleaving of their fetch_add and fetch_sub (copy_session.rs 90-96).
IsSlotCap == Slots!Spec

\* What the wallet holds while the process runs is watched by a task with a
\* slot, or the operator was told to sell it (copy_session.rs 147, trader.rs 151).
LeftoverIsAnnounced ==
    ~Dead => \A m \in Mint : wallet[m] > 0 =>
        m \in alarm \/ \E t \in Task : MintOf[t] = m /\ HoldsSlot(t)

\* main.rs 222-223: stopping does not orphan tokens.  What the process leaves
\* behind was announced: by an alarm for the token, or by the shutdown's error.
NoOrphanOnShutdown ==
    Dead => \A m \in Mint : wallet[m] > 0 => m \in alarm \/ verdict = "unclean"

\* With a max hold every live task that starts ends, or its process does: no
\* failing sell keeps a slot for good (copy_session.rs 207-233, 318-324).  A paper
\* entry may wait for ever for its first price (168-180).
TasksEnd ==
    \A t \in Task :
        pc[t] = "cap_check" /\ held[t] # NoDeadline /\ ~dry_run ~> (pc[t] = "ended" \/ Dead)

\* A signal ends the process, whatever its sells come to (main.rs 238-255).
ShutdownExits == main = "waiting" ~> Dead
=============================================================================
