---------------------------- MODULE Capitulation ----------------------------
(***************************************************************************)
(* CapitulationDetector of capitulation.rs: the two-stage entry signal of  *)
(* one session.  A dump arms it, a reclaim that lasts fires it.            *)
(*                                                                         *)
(* A step is one price tick, observe() and then check() at the same        *)
(* instant.  Prices are integers, and a comparison of a percentage is      *)
(* multiplied out.                                                         *)
(***************************************************************************)
EXTENDS TickWindow

CONSTANTS
    Price,           \* the prices a tick may have
    DipPct,          \* dip_pct
    ReclaimPct,      \* reclaim_pct
    PendingExpire,   \* pending_expire_secs
    ReclaimConfirm,  \* reclaim_confirm_secs
    Debounce,        \* debounce_secs
    MinTicks         \* MIN_TICKS_FOR_FIRE

ASSUME CapitulationConstants ==
    /\ Price \subseteq Nat
    /\ PendingExpire \in Nat /\ ReclaimConfirm \in Nat
    /\ Debounce \in Nat /\ MinTicks \in Nat
    /\ DipPct \in 0 .. 100 /\ ReclaimPct \in Nat

VARIABLES
    ticks,           \* the window, the oldest tick first
    pending,         \* pending_low and pending_started, if any
    confirm,         \* reclaim_confirm_started, if any
    since_fire,      \* time since last_fire; FireLimit when there is none
    fired,           \* did the last check() return a reason?
    apart,           \* history: time between the last two fires
    since_fallback   \* history: time since the price was last seen below the reclaim

vars == <<ticks, pending, confirm, since_fire, fired, apart, since_fallback>>

FireLimit == Debounce + ReclaimConfirm

TickRecord == [age: 0 .. Window, price: Price]

NoPending == [on |-> FALSE, low |-> 0, age |-> 0]

NotConfirming == [on |-> FALSE, age |-> 0]

TypeOK ==
    /\ ticks \in Seq(TickRecord)
    /\ pending \in [on: BOOLEAN, low: Price \cup {0}, age: 0 .. PendingExpire + 1]
    /\ confirm \in [on: BOOLEAN, age: 0 .. ReclaimConfirm]
    /\ since_fire \in 0 .. FireLimit
    /\ fired \in BOOLEAN
    /\ apart \in 0 .. FireLimit
    /\ since_fallback \in 0 .. ReclaimConfirm

Init ==
    /\ ticks = << >>
    /\ pending = NoPending
    /\ confirm = NotConfirming
    /\ since_fire = FireLimit
    /\ fired = FALSE
    /\ apart = FireLimit
    /\ since_fallback = ReclaimConfirm

-----------------------------------------------------------------------------
(* What check() looks at. *)

Seen(gap, price) == Observed(ticks, gap, [age |-> 0, price |-> price])

Debounced(gap) == since_fire + gap < Debounce

WindowFull(q) == Full(q) /\ Head(q).price > 0

IsDump(q, price) == price * 100 <= Head(q).price * (100 - DipPct)

Reclaims(price, low) == price * 100 >= low * (100 + ReclaimPct)

PendingOlder(gap) ==
    IF pending.on
    THEN [pending EXCEPT !.age = Later(@, gap, PendingExpire + 1)] ELSE pending

ConfirmOlder(gap) ==
    IF confirm.on THEN [confirm EXCEPT !.age = Later(@, gap, ReclaimConfirm)]
    ELSE confirm

Stale(gap) == pending.on /\ pending.age + gap > PendingExpire

\* The states after the expiry of a stale pending state.
Pending(gap) == IF Stale(gap) THEN NoPending ELSE PendingOlder(gap)

\* Mutant of Confirmation: an expired pending state leaves its confirmation.
ConfirmationKept(gap) == ConfirmOlder(gap)

Confirmation(gap) == IF Stale(gap) THEN NotConfirming ELSE ConfirmOlder(gap)

-----------------------------------------------------------------------------
(* The outcomes of a tick, in the order check() tries them. *)

\* Every outcome records the tick; only Fires touches last_fire.
Observe(gap, price) ==
    /\ ticks' = Seen(gap, price)
    /\ since_fire' = Later(since_fire, gap, FireLimit)
    /\ fired' = FALSE
    /\ UNCHANGED apart

NoFallback(gap) ==
    since_fallback' = Later(since_fallback, gap, ReclaimConfirm)

\* Debounce, or a window that is not full: check() returns at once.
NotJudged(gap, price) ==
    /\ Debounced(gap) \/ ~WindowFull(Seen(gap, price))
    /\ Observe(gap, price)
    /\ pending' = PendingOlder(gap)
    /\ confirm' = ConfirmOlder(gap)
    /\ NoFallback(gap)

Judged(gap, price) == ~Debounced(gap) /\ WindowFull(Seen(gap, price))

Dump(gap, price) ==
    /\ Judged(gap, price)
    /\ IsDump(Seen(gap, price), price)
    /\ Observe(gap, price)
    /\ LET p == Pending(gap)
       IN  \/ /\ ~p.on
              /\ pending' = [on |-> TRUE, low |-> price, age |-> 0]
              /\ confirm' = NotConfirming
           \/ /\ p.on /\ price < p.low
              /\ pending' = [p EXCEPT !.low = price]
              /\ confirm' = NotConfirming
           \/ /\ p.on /\ price >= p.low
              /\ pending' = p
              /\ confirm' = Confirmation(gap)
    /\ NoFallback(gap)

Quiet(gap, price) ==
    /\ Judged(gap, price)
    /\ ~IsDump(Seen(gap, price), price)
    /\ ~Pending(gap).on
    /\ Observe(gap, price)
    /\ pending' = Pending(gap)
    /\ confirm' = Confirmation(gap)
    /\ NoFallback(gap)

Recovering(gap, price) ==
    /\ Judged(gap, price)
    /\ ~IsDump(Seen(gap, price), price)
    /\ Pending(gap).on

\* Mutant of FellBack: the confirmation goes on.
FellBackUnnoticed(gap, price) ==
    /\ Recovering(gap, price)
    /\ ~Reclaims(price, pending.low)
    /\ Observe(gap, price)
    /\ pending' = PendingOlder(gap)
    /\ confirm' = ConfirmOlder(gap)
    /\ since_fallback' = 0

FellBack(gap, price) ==
    /\ Recovering(gap, price)
    /\ ~Reclaims(price, pending.low)
    /\ Observe(gap, price)
    /\ pending' = PendingOlder(gap)
    /\ confirm' = NotConfirming
    /\ since_fallback' = 0

Sparse(gap, price) ==
    /\ Recovering(gap, price)
    /\ Reclaims(price, pending.low)
    /\ Len(Seen(gap, price)) < MinTicks
    /\ Observe(gap, price)
    /\ pending' = PendingOlder(gap)
    /\ confirm' = ConfirmOlder(gap)
    /\ NoFallback(gap)

Reclaimed(gap, price) ==
    /\ Recovering(gap, price)
    /\ Reclaims(price, pending.low)
    /\ Len(Seen(gap, price)) >= MinTicks

Confirming(gap) == IF confirm.on THEN ConfirmOlder(gap) ELSE [on |-> TRUE, age |-> 0]

Confirms(gap, price) ==
    /\ Reclaimed(gap, price)
    /\ Confirming(gap).age < ReclaimConfirm
    /\ Observe(gap, price)
    /\ pending' = PendingOlder(gap)
    /\ confirm' = Confirming(gap)
    /\ NoFallback(gap)

\* last_fire is now.
Signal(gap, price) ==
    /\ ticks' = Seen(gap, price)
    /\ since_fire' = 0
    /\ fired' = TRUE
    /\ apart' = Later(since_fire, gap, FireLimit)

\* Mutant of Fires: the pending state is not reset.
FiresStillPending(gap, price) ==
    /\ Reclaimed(gap, price)
    /\ Confirming(gap).age >= ReclaimConfirm
    /\ Signal(gap, price)
    /\ pending' = PendingOlder(gap)
    /\ confirm' = Confirming(gap)
    /\ NoFallback(gap)

Fires(gap, price) ==
    /\ Reclaimed(gap, price)
    /\ Confirming(gap).age >= ReclaimConfirm
    /\ Signal(gap, price)
    /\ pending' = NoPending
    /\ confirm' = NotConfirming
    /\ NoFallback(gap)

CapStep(gap, price) ==
    /\ RoomFor(ticks, gap)
    /\ \/ NotJudged(gap, price) \/ Dump(gap, price) \/ Quiet(gap, price)
       \/ FellBack(gap, price) \/ Sparse(gap, price)
       \/ Confirms(gap, price) \/ Fires(gap, price)

Next == \E gap \in Gap, price \in Price : CapStep(gap, price)

Spec == Init /\ [][Next]_vars

-----------------------------------------------------------------------------
FiresNow == fired' /\ since_fire' = 0

\* A confirmation belongs to the pending state it was begun in: none outlives
\* its dump, by expiry, by firing or by a feed that fell silent.  The age of a
\* pending state that is stale is no longer counted
\* (capitulation.rs 85-89, 131-135, 149).
ConfirmWithinPending ==
    confirm.on => pending.on /\ (confirm.age <= pending.age \/ pending.age > PendingExpire)

\* After it fired the detector needs a new dump, after the debounce, and a
\* reclaim of it that lasts: two fires are never closer than both together
\* (capitulation.rs 112-116, 182-196).
FiresApart == apart = FireLimit

\* The confirmation is begun anew when the price falls back below the reclaim
\* without dumping again: a fire is at least reclaim_confirm_secs after it
\* (capitulation.rs 162-167).
FallbackRestarts == [][FiresNow => since_fallback' = ReclaimConfirm]_vars

\* capitulation.rs 14-16: the reclaim is continuous; falling back below the
\* threshold resets the confirmation timer.
FireIsContinuous ==
    [][FiresNow => \A i \in DOMAIN ticks' :
          ticks'[i].age < ReclaimConfirm => Reclaims(ticks'[i].price, pending.low)]_vars
=============================================================================
