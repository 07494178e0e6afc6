# Verification of hades-ps-trader

TLA+ models of the trading bot in `src/`, TLC configurations that check them on
small instances, and TLAPS proofs of the most important of their properties for
every instance. Source lines below are those of `src/src/*.rs`; "README n" is
line n of the repository's own `src/README.md`.

## 1. The system

The bot is one process on tokio's multi-threaded runtime. In *graduation mode*
(`main.rs` 317-401) each migration event from PumpPortal starts a session, which
watches one token's price and buys and sells it. In *copy mode* (`main.rs`
160-315) a loop reads the trades of followed wallets and starts one task for each
buy it copies. Both modes trade through `trader.rs` from one Solana wallet, and
both share an atomic position counter and a tracker of the daily spend.

| Component | State | Operations | What makes it correct |
|---|---|---|---|
| Trade execution `trader.rs` | a call: attempt, transport, confirmation | `buy`, `sell_all`, `submit`, `send_bundle`, `confirm` | a call returns; success is reported only of a trade that happened; a trade happens once |
| Graduation sessions `session.rs`, `main.rs` | position, deadline, `last_sell_at`; shared: `open_positions`, spend tracker, wallet | filters, select loop, `try_buy`, `try_sell`, forced exits | slots are never leaked, overbooked or given back twice; the cap; one position per token; no buy after the deadline; nothing is left in the wallet unwatched and unannounced; sessions end |
| Copy mode `copy_session.rs`, `main.rs` | cooldown maps, broadcast receivers, position; shared: `copy_positions`, tracker, wallet | frame dispatch, sell broadcast, `copy_handle`, shutdown | as above; mirrored exits are not missed; cooldowns; a shutdown ends and orphans nothing |
| Daily spend tracker `dip_buy.rs` 217-271 | deque of spends | `check`, `record`, eviction | the rolling cap, at its boundary and through expiry |
| Capitulation detector `capitulation.rs` | window, pending low, three timers | `observe`, `check` | a fire needs a dump and a lasting reclaim, fires are apart |
| Price feed `price_feed.rs`, `pumpswap.rs` | pool discovery, polling, unbounded channel | discover with retries, poll, send, notice that the receiver is gone | it and its session end together; a price is old only by the time its session spent trading |
| Dip-buy detector `dip_buy.rs` 29-211 | tick window, last fire, session start | `observe`, `check` | judges full windows only; buys a dip once |
| MACD and candles `macd.rs` | candle aggregator, three EMAs, previous lines | `on_tick`, `on_close` | no crossover before the announced warm-up |
| Exit rules `position.rs`, `copy_session.rs` 372-407 | peak | `decide_exit`, `copy_exit`, tiers | fixed priority; the trail is taken from the best price of the position |
| Rug guard `rug.rs` | sample count, peaks | `observe`, `is_rugged` | a rugged token's session ends |
| Listeners `pumpportal.rs` | websocket, backoff | connect, subscribe, read, reconnect | no failure ends them |
| On-chain reads `onchain.rs` | attempts, page cursor | account look-up with retries, holder count, paged signature count, top-ten share, balances | filters come to a decision, and to the right one, while the chain moves on |
| Liquidation `main.rs` | none | sell each mint named, one after another | - |
| Configuration, wallet, Discord | none | load, sign, post | - |

**Interaction.** A session or copy task awaits calls of `trader.rs`; the chain
settles transactions on its own. Tasks meet only in the atomic counter
(`fetch_add`, compare, `fetch_sub`), the mutex of the tracker (held for a single
`check` or `record`), the wallet, and, in copy mode, two broadcast channels (the
followed wallets' sells, the shutdown). A price task feeds each session through
a channel.

**What is hard.** Two steps on the same counter with a buy of a minute in
between; replies that are lost after the transaction was taken; retries of what
was already done; a select loop that looks at its deadline only when it waits;
balances read after a buy that stand for what the buy brought in; prices that
queue up behind a trade; windows that empty and fill again around a silence;
pages read of a list that grows meanwhile; a broadcast
buffer that overflows; a shutdown that races a task's first step; three timers
in one detector. `PROJECT.json` lists each hazard at its line.

## 2. The modules

| Module | Models | Extends |
|---|---|---|
| `Trader` | `buy`, `sell_all`, `submit`, `send_bundle`, `confirm`, and the chain (external) | |
| `Order` | abstract: what a caller of `buy`/`sell_all` may rely on | |
| `TradeOrders` | overlapping calls by themselves, with executions counted | `Trader` |
| `DailySpend` | `DailySpendTracker` | |
| `SlotCap` | abstract: what the position counter is for | |
| `Graduation` | graduation mode: sessions, counter, tracker, time | `Trader`, `DailySpend` |
| `CopyTrade` | copy mode: main loop, broadcasts, tasks, shutdown, time | `Trader`, `DailySpend` |
| `CopyHistory` | `CopyTrade` with history variables for properties about the past | `CopyTrade` |
| `TickWindow` | the window of ticks both entry detectors keep | |
| `Capitulation` | `CapitulationDetector` | `TickWindow` |
| `DipBuy` | `DipBuyDetector` | `TickWindow` |
| `Candles` | `CandleAggregator` and `Macd` | `TickWindow` |
| `Signals` | the entry modes of a session over the same ticks, with history | the three above |
| `PriceFeed` | the price task and its channel | |
| `RugGuard`, `ExitRules` | operators: the rug verdict, the exit verdict | |
| `Monitor` | a session's price loop composed with its price task | the three above |
| `Listener` | a websocket listener of `pumpportal.rs` | |
| `Filters` | name look-up and token filters, and the chain they read (external) | |
| `Intake` | listener, main loop and one token's task | the two above |
| `MC*` | the instances TLC checks | |
| `TraderProofs`, `DailySpendProofs` | lemmas about calls and spends | what they are about |
| `OrdersProofs`, `GraduationProofs`, `CopyTradeProofs`, `SignalsProofs`, `MonitorProofs`, `IntakeProofs` | theorems (section 5) | what they are about |

`Order` and `SlotCap` are reached by `INSTANCE ... WITH` a refinement mapping;
`IsOrder` and `IsSlotCap` say that the detailed modules implement them.

### How state and steps correspond to the code

*Grain.* A step is what a task does between two awaits, split further wherever
it touches something another task may touch: `fetch_add` (`Reserve`) and the
`fetch_sub` of an overflow (`Unreserve`) are separate steps, and so are the
tracker's `check` (`CapCheck`) and `record` (`Bought`, `BoughtDry`,
`BuyReturned`). Steps between two awaits that no other task can observe are one.
Inside a select the branches are tried in the code's biased order: an action of
a later branch has the negated readiness of the earlier ones in its guard.

*Calls.* `call[c]` is the call a task awaits: operation, attempt, phase, and
what became of the transaction of this attempt. `Retried` is the escalation
loop: any error, a confirmation timeout included, starts the next attempt until
the attempts are used up. With `Jito`, a failed bundle falls back to RPC inside
the attempt. Tokens are counted in lots, one lot being what one buy brings in; a
sell asks for 100% and is built for the lots in the wallet at that moment.
A transaction the program gave up on while it can still land is kept in
`stray`, and may land or expire at any later time. `Lossy = FALSE` is the chain
on a good day, where an answer always comes and a timeout means that the
transaction expired. `dry_run` is the flag of the process: it is chosen at the
start, from the constant `DryRun`, and stays.

*Prices* are abstracted, in `Graduation` and `CopyTrade`, to the verdicts drawn from them: a
tick is rugged, asks for an exit, or neither, and the detector fires or does
not. `max_hold_time` is kept, because it must give an exit whatever the price.

*Time.* An `Instant` is kept as the time since then, counted up to the first
value that no longer makes a difference; `Tick` advances all of them while every
task is at an await (pieces of code between awaits take no time). A step of a
detector is a tick with the gap since the last one; a gap of 0 is a tick that
waited in the channel while the session traded, since the detectors are given the
moment at which a tick is handled (`session.rs` 264), not the one at which it
was read.

*Prices as numbers.* `Monitor`, `Signals` and what they are made of take the
other side: prices and pools are integers, fractions percentages, comparisons
multiplied out, and a trade is only the time it takes and whether it succeeds.
What they leave to chance the two modes model, and the other way round: a
verdict of `Monitor` is a choice of verdict in `Graduation`, and a fire of
`Signals` its `Fires`. In `PriceFeed` each queued update carries its age; at its
select a session takes a waiting update at once (`Waits`), so ages grow only
while it trades. The MACD's averages are abstracted to how many inputs each has
had and to how the two lines lie, which a close may change to anything.

*Intake.* A step of `Filters` is one call of the node, which reads the chain at
one moment, or fails; trades, transfers and newly visible accounts come in between.
Signatures are numbered from the oldest, so a page is an interval below its cursor.
The top-ten filter is four calls. `LargestRead` lists accounts no smaller than one
left out and passes over entries that do not parse; `AccountsRead` and `OwnersRead`
take the curve's and the pools' out, as far as the accounts and their owners can be read;
`SupplyRead` compares the largest of the rest, as they were listed, with the supply
there is by then. Between any two of them tokens may move and be burnt (`Moved`).
One token's task is followed;
tasks share nothing before their session starts.

*Filters* in `Graduation` (`session.rs` 660-735), balance reads and pool discovery
succeed or fail nondeterministically after their bounded retries. A balance
that stays zero comes back as an error after the last retry, so the branches for
a zero balance (`session.rs` 571, `copy_session.rs` 153) cannot be taken and have
no action of their own.

*Copy mode.* Each entry of the process is a task of `Task`; the tasks of one
token bound how often it is entered. The two cooldown maps belong to the main
loop alone, so handling a frame is one step: `SkipBuy` stamps the wallet and is
then stopped by the token's cooldown, `CopyBuy` stamps both and starts the task,
`HandleSell` puts a sell into every live task's receiver. A receiver that is
`Backlog` behind loses its oldest frame (`Flood`). `MirrorExit` is the
configuration flag; in the queue a sell is kept as whether it closes the
position the task mirrors. A mint that does not parse ends the task before
any gate (`BadMint`). Main loads the counter once to end its wait and once more for its
verdict (`Looked`, `LastLook`), and tasks run in between. When main returns the process is `Dead` and only the
chain goes on.

## 3. Model checking

Every `pass` run finishes without error, every `violation` run shows that the
code does not do what a line of its documentation says (section 4).

| Run | Instance | Shows |
|---|---|---|
| `Orders` | a buyer and a seller of one token, 3 and 2 attempts, Jito, replies lost, live or dry | a call is an order as `Order` says: exactly-once and truly reported while no answer is lost, otherwise executed at most once per send; calls return |
| `Grad_reliable` | 3 sessions, 2 slots, cap 2, faithful chain, live or dry; symmetry | types, slot ledger, slot cap, overshoot bound, one position per token, no phantom and no unannounced position, no buy after the deadline |
| `Grad_live` | 1 session, deadline 2 or none, replies lost, balance reads fail | with a deadline a session ends and gives its slot back; without one, if prices come, its positions are put up for sale by the hold time |
| `Copy_reliable` | 2 copies, 1 slot, cap 1, failing balance reads, shutdown, live or paper | types, ledger, slot cap, announced leftovers, the shutdown's verdict, a copy begun with the cap used up never buys |
| `Copy_live` | 1 copy, 2 wallets, replies lost, hold time or none, live or paper | a live copy with a hold time ends; one without does not miss the exit it mirrors; a shutdown ends the process |
| `Signals` | window 3 s, gaps 0, 1, 3, 4 s, prices 50, 55, 80, 100, pools that drain, each entry mode | a silence restarts the window; ticks a second apart are always judged; dips and fires are apart; confirmations belong to their dump; no crossover during warm-up |
| `Monitor` | 4 rule sets, 6 readings, 2 discovery attempts, lag up to 3, channel of 2 | prices are old by trade time only; the trail is taken from the best price; a rug in the channel ends the session; session and price task end together |
| `Intake` | 3 settings, 4 accounts with 3 ownerships and 2 balances they change between, 5 signatures in pages of 2, 3 look-ups | every task decides; the listener comes back; the signature count is that of one moment; no listed wallet that parsed is left out of the sum |

`LeftoverIsAnnounced`, `OpenPositionIsBacked` and `NoPyramiding` are checked on a
faithful chain, and the latter two with balance reads that succeed and one
session for a token: section 4 says what happens otherwise. `SlotLedger`,
`IsSlotCap` and `SpendOvershootBounded` need neither. Section 5 proves each of
them from exactly these assumptions.

**Bounds.** `MaxLots` bounds the buys that land, `MaxStray` the lost copies of
one transaction, the `Attempts` constants the retries. The code has 3 attempts
of a buy, as `Orders` has, and 20 of a sell (`trader.rs` 44-45), which differ in
nothing but slippage; 2 reach a first, a repeated and a last attempt, and where
calls are only a part of the model 1 suffices, since a call with one attempt can
already succeed or fail at any time. Two
tasks are enough for each race between a check and a use, three for a third
that comes in while one overflows the counter; the liveness of a session under
losses involves no other session, and one is checked. Timers of 1 or 2 reach "not yet",
"just now" and "past". `DayWindow` of 1 or 2 lets spends expire within a run. In
`Signals`, `Window = 3` with gaps of 0, 1, 3 and 4 gives bursts, full and sparse
windows, a window that is just not full and a silence that empties it, and the
four prices are two depths of a dump, one that reclaims either of them and is
itself no dump, and one to fall from; `MaxTicks` bounds the ticks of a burst, and
the minimum of 3 ticks makes sparse windows occur. `FireCooldown = Window` is the
smallest for which a dip is bought once, and what the defaults have (60 s, `config.rs`
`DipBuyConfig`). In `Monitor`, profits of -50, 0, 50 and 100 percent lie on both sides
of every limit, two tiers make a higher one take over, `MaxLag = 3` is a trade
longer than any sequence of readings the channel holds, and a reading can be
rugged by each of the three rules. `MaxQueue = 2` keeps the unbounded channel
finite; a longer one adds older readings of the same kinds. In `Intake`, pages
of 2 with 2 pages reach a short page, a full last page and the cap, with 5
signatures beyond it; `Listed = 3` of 4 accounts with `TopN = 2` leaves one
account off the list and one place for the curve, a pool or an entry that does not
parse; the two balances differ in who is largest, in who is on the list and by a token
burnt or minted, and there is one ownership without, one with a curve and one with a pool. `SYMMETRY` is used only in a run
without liveness, with interchangeable sessions that trade tokens of their own.
`CHECK_DEADLOCK FALSE` stands where the system may stop: all calls made
(`Orders*`) or the process gone (`Copy_*`, `FC_*`). In graduation mode time
always goes on.

**Fairness.** A task runs on when it can: tokio schedules a woken task, every
HTTP request has a timeout of 15 s, `confirm` one of 60 s, balance reads and pool
discovery bounded retries (`WF` of each task's own steps). A transaction lands or
expires with its blockhash (`WF` of `Settles`). Time passes (`Tick` again and
again while a timer runs). Nothing else is assumed: no token graduates, no
followed wallet trades, no price comes, no signal is sent and no lost
transaction settles unless it happens to. `PositionsAreSold` speaks of sessions to which
prices keep coming, because the hold time is looked at only on a tick
(`session.rs` 221). `Monitor` assumes that reads end (their timeout) and trades
return, not that any succeeds. `Intake` assumes that calls of the node end, and
for `ListenerRecovers` strong fairness of connecting and subscribing: the network
may fail at each attempt many times, not for ever. Whether a shutdown may come before a spawned
task has taken its slot is the constant `SlowStart`: `Copy_reliable` excludes it,
and `FC_slow_start` shows what it does.

**Mutants.** For each property of each run `PROJECT.json` names a plausible bug
(`\* Mutant of`, defined next to what it replaces) under which the property
fails in the same run.

## 4. Where the code and its documentation disagree

Shown by a run, which violates the property that states the line quoted in
`PROJECT.json`:

| Run | What happens |
|---|---|
| `Orders_double` | a confirmation timeout is retried, on the Jito path and on the RPC path: one order executes twice (`trader.rs` 176-180 says it does not) |
| `F_orphan_rebuy` | a session whose balance read failed gives its slot back and may buy the same token again (README 240: at most one open trade per token) |
| `FC_slow_start` | a shutdown overlooks a spawned task that has not taken its slot (`main.rs` 222-223) |
| `FD_continuous` | the detector fires on an interrupted reclaim (`capitulation.rs` 14-16) |

Met while modelling, and reached by the models' behaviours, but stated by no run:

- Sessions that pass the check of the daily cap together spend past it
  (`session.rs` 467, 508; `dip_buy.rs` 18-20 promises to refuse). `SpendOvershootBounded`
  says how far.
- The entry price divides the cost by the wallet's whole balance (`session.rs`
  576), which after an orphaned buy is more than the buy brought in
  (`position.rs` 19).
- A buy that landed while its confirmation was lost is `BUY FAILED`
  (`session.rs` 533): no alert, no spend recorded, nobody watching. In copy mode
  (`copy_session.rs` 185-189) the spend at least is recorded.
- With `cooldown_secs = 0`, documented as "disable" (README 130), a tick whose
  exit sell outlasts the deadline passes the cooldown test (`session.rs` 275) and
  goes on to buy (README 118: "no new buys"). With a cooldown it does not:
  `NoBuyAfterDeadline`, proved from `Cooldown > 0`, which the proof cannot do without.
- A migration frame that comes twice makes two sessions on one token
  (`main.rs` 334-364).
- "all copy positions closed; exiting cleanly" (`main.rs` 252) is logged when the
  counter is zero, and a force-sell that failed gives its slot back too; the
  failure itself was logged by `do_sell`.
- The cooldowns of copy mode are stamped at dispatch (`main.rs` 283, 295): an
  exit starts none, and a buy that is then skipped for its token starts its
  wallet's (`config.rs` 79-83).
- README 242: with a take-profit below the lowest tier "trailing never engages",
  and `main.rs` 82 warns of it. `TrailAfterRefusedProfit` shows the one case in
  which it does: the sell at the take-profit failed, the price went on to a tier
  and fell back.
- A failed sell is tried again at the next update, which is as old as the sell
  took (`session.rs` 255-258): sells that keep failing decide on ever older
  prices. `LagIsTradeTime` says how old.
- "don't fire while the pool is still draining" (`config.rs`, `pool_recovery_secs`)
  compares with the lowest reading of the last seconds only (`dip_buy.rs` 167-184).
- With ticks more than a second apart the window may hold no tick old enough
  for its last second, so that no tick is judged (`dip_buy.rs` 124-130);
  `DenseTicksAreJudged` says when they are.
- `BondingCurveActivity.capped` is set at exactly 5000 signatures, which exceed
  nothing (`onchain.rs` 445-450). It only changes how the count is displayed.
- A listener reads without a timeout (`pumpportal.rs` 43): on a connection that
  is silently gone it waits as on one with nothing to say, until the socket
  fails. Its backoff is never set back (26).
- The rug guard is described twice. `config.rs` 218-221 and 231 say that a failing check
  is "evaluated on every bullish crossover", "blocks that one buy" and that "the
  session keeps monitoring" (and README 149 that `false` "never blocks a buy"). The code
  evaluates it on every tick, sells what is open and ends the session, as `rug.rs` 3-8 and
  README 145 say (`session.rs` 181-215). `RugEndsSession` states what the code does and
  so the opposite of `config.rs`.
- An entry of the list of largest accounts whose address or amount does not parse is
  passed over without a word (`onchain.rs` 353-354), although the filter would
  "over-count" rather "than silently drop a real whale" (408-410). `WhalesAreCounted` is
  about the entries that did parse, and the places on the list that the others take
  count as lost.
- The share the top-ten filter compares is of two moments: amounts as they were listed, and
  the supply three calls later (`onchain.rs` 342, 425).
- A price below the pending low that is no dump against the window's oldest
  tick does not become the low (`capitulation.rs` 162-166; 11: "keep tracking the
  lowest price").

## 5. Proofs

Every safety invariant and every action property that a passing run checks is
proved for every value of the constants, and so are both refinements, from the
assumptions named in the modules (`TraderConstants`, `DailySpendConstants`,
`GraduationConstants`, `CopyTradeConstants`, `PriceFeedConstants`, ...), which
TLC evaluates in each run. Where a theorem assumes more it says so in its
`ASSUME`, and the runs or section 4 show what happens without it.

| Module | Proved | Assumed besides |
|---|---|---|
| `TraderProofs`, `DailySpendProofs` | lemmas: types of calls, stray transactions and spends, what each step of a call does to them | |
| `OrdersProofs` | `OrdersTypes`; `OrdersRefineOrder`: `Spec => IsOrder` | |
| `GraduationProofs` | `TypeOK`, `SlotLedger`, `IsSlotCap`, `SpendOvershootBounded` | |
| | `NoPyramiding`, `OpenPositionIsBacked` | `Reliable`: no reply lost, no balance read fails, a token has one session |
| | `LeftoverIsAnnounced` | `~Lossy` |
| | `NoBuyAfterDeadline` | `Cooldown > 0` |
| `CopyTradeProofs` | `TypeOK`, `SlotLedger`, `IsSlotCap`, `BarredNeverBuy` | |
| | `LeftoverIsAnnounced` | `~Lossy` |
| | `NoOrphanOnShutdown` | `~Lossy`, `~SlowStart` |
| `SignalsProofs` | `SignalsTypeOK`, `ConfirmWithinPending`, `FiresApart`, `FallbackRestarts`, `SilenceRestartsWindow`, `DenseTicksAreJudged`, `OneFirePerDip`, `NoCrossDuringWarmup` | |
| `MonitorProofs` | `MonitorTypeOK`, `LagIsTradeTime`, `TrailAfterRefusedProfit`, `TrailsFromTheBest` | |
| `IntakeProofs` | `IntakeTypeOK`, `TxCountIsSnapshot`, `WhalesAreCounted` | |

### The arguments

*Orders.* Each send uses up a part of an attempt: one of a transaction over RPC,
two when a bundle fell back. The executions there were, the copies given up on that may
still land and the transaction in flight are together at most the sends so far;
that count is inductive, it bounds the executions by what `Order` allows, and
`Order`'s exactly-once without lost answers is its special case in which nothing
is ever given up on alive.

*Slots of graduation mode.* `open_positions \in Nat` is not inductive by itself: a
`fetch_sub` keeps it a natural number only if the session doing it is counted.
It is counted only if a position is open nowhere but in the states where the
code can be with one. So `IInv` has three parts: `Typed` (types of everything
but the counter), `Control` (where a session may be with an open position, and
where it must have one), and `SlotLedger`. `TypedStep` shows types from one
lemma per group of actions, citing those of `TraderProofs` and
`DailySpendProofs`. `NextSlots` classifies every step by what it does to the
slots: kept, one session overflows, reserves, withdraws or frees; `LedgerStep`
then counts with the library's facts about cardinality. The slot cap follows from the same
classification, since a step that reserves saw a counter below `MaxPositions`,
and the counter is at least the number of holders. The spend bound is an
invariant of its own over the length of the spend list and the number of
sessions between check and record, inductive together with `IInv`: the check
that lets a session in has just seen fewer than `CapTrades` spends.

*What the wallet holds.* Two invariants, for two assumptions. On a reliable
chain `PositionBooks` says for each place a session can be in how many lots of
its token are in the wallet, none or one, whether its position is open, and that
no stray transaction is about; `NoPyramiding` and `OpenPositionIsBacked` are
read off it. With balance reads that fail, or two sessions on one token, such
books do not balance. `Attendance` then says only that a token in the wallet has
somebody who attends to it, with a slot and a call or a position, or that the
operator was told; it is what `LeftoverIsAnnounced` needs. Copies of one token
sell each other's lots, so copy mode has the second kind only (`Books`), and
`Parting` says in addition that once main is left nobody is on the way to a slot,
and that once the shutdown has looked and found none taken, none is; this is where
no task may be stopped before it took its slot.

*The deadline.* A session that fires after its deadline would have had to pass the
cooldown test in the tick of a forced sell; `Timely` says that a tick which goes on past
the deadline finds its position open or its cooldown running. The step from "the sell ended now" to "in its cooldown" is the only use of
`Cooldown > 0`, and with 0 it is false (section 4).

*Detectors.* The code pops the front of a deque until it is young enough. The
ticks of a window being in the order they came (an invariant of the gaps), that
is dropping exactly the old ones (`TickWindow!Kept`), and most of the rest is
comparing clocks with histories: how far back the oldest tick reaches after a
silence or after dense ticks, that a pending low and its confirmation began after
the ticks they rest on, that the averages of the MACD have had no more inputs than there
were closes. `OneFirePerDip` rests on `FireCooldown >= Window` in its statement.

*The price loop.* `MonInv` joins where a session may be with a position, that the
position's peak is the best update handled, and that a peak at the take-profit
means a sale there was tried, unless the hold time has run out. `HighestTier` shows that
the tier the code finds by searching its sorted list is the highest reached;
`Decided` reads off `DecideExit` which rules had not tripped. Ages in the channel
grow with `busy` because outside a trade time passes only over an empty channel.

*Intake.* `Walk` says that between two pages whole pages have been counted and
the cursor lies just below them, in the numbering of the first read. For
`WhalesAreCounted` a sum of amounts is the number of units (`Units`), so that no
induction over accounts is needed: as many accounts, none smaller than the one it
stands in for, give an injection of units (`MoreUnits`). `Listing` carries the list
from call to call: a wallet that was listed and parsed is still counted, with
the amount it was listed with, whatever has moved since; it needs `Unowned`, that no owner is
known before the accounts are read. A wallet off the list was no larger than any on it, and
there are places enough on the list for `TopN` wallets (`TopHoldsMost`).

### Only model-checked

All liveness (`EveryCallReturns`, `SessionsEnd`, `PositionsAreSold`, `TasksEnd`,
`ShutdownExits`, `MirrorFollows`, `RugEndsSession`, `EndTogether`,
`EveryTaskDecides`, `ListenerRecovers`): it needs fairness and `ENABLED`, which
the prover does not reason about. What the violation runs show is shown by their
traces.

## 6. What is not modelled

- Floating point. Prices are integers, and what the MACD's averages amount to is
  a choice; rounding at a threshold is out of the models. A profit (`Pnl`,
  `position.rs` 37) is in whole percents and rounded down, where the code has a float: exact
  in the instance checked, whose profits are whole, and the proofs use no more of it than
  that it is an integer.
- Slippage and priority fee, which each attempt raises (`trader.rs` 83-90, 124-131,
  147): they change the odds of landing, not what may happen.
- Layouts of accounts and frames: Metaplex and Token-2022 metadata, vaults, the
  JSON of PumpPortal. A read succeeds or fails.
- `fetch_token_balance` (`onchain.rs` 146-199) but for its outcome, a balance
  above zero or an error.
- The balance of SOL, which is only logged, RPC errors in reads that only feed
  logs and notifications, and the notifications themselves but for the alarms.
- A broadcast channel that is closed: the senders live in `main`, which outlives
  all tasks that could notice. The same goes for `trades.recv()` and
  `migrations.recv()` returning nothing (`main.rs` 233, 366): the listener task
  never ends (with no followed wallet it does at once, and copy mode with it).
- `copy_trade.min_pool_sol` (`config.rs` 85) is read by no code.
- `--liquidate` (`main.rs` 130-169): `sell_all` for one mint after another,
  nothing kept in between; each is a sell of `TradeOrders`. Configuration and
  key handling, which end before anything starts.

## 7. Plan

All components with state of their own are modelled, and every safety property
the runs check is proved. What could still be proved:

1. `NoDoubleExecution` of `TradeOrders` for a node that loses no answer, and with
   losses the exact number of executions an order may come to, as theorems next
   to the refinement that implies them.
2. The bound on the overshoot of the daily cap for copy mode, which shares the
   tracker, and the bound on the overshoot when both checks and records of
   copies interleave.
3. The safety halves of the liveness properties: a session past its deadline
   only sells, a draining process starts no buy, a look-up never starts again.
