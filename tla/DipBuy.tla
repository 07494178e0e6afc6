------------------------------- MODULE DipBuy -------------------------------
(***************************************************************************)
(* DipBuyDetector of dip_buy.rs: the entry signal of a session that buys   *)
(* dips.  It fires on a price that fell from the window's high to near its *)
(* low, in a pool that drained with it, if both have come up from their    *)
(* recent lows again.                                                      *)
(*                                                                         *)
(* A step is one price tick, observe() and then check() at the same        *)
(* instant.  Prices and pools are integers, fractions are in percent, and  *)
(* a comparison of a fraction is multiplied out.                           *)
(***************************************************************************)
EXTENDS TickWindow, FiniteSetsExt

CONSTANTS
    Quote,                 \* the readings of a tick: a price and the pool's SOL
    MinDrawdown,           \* min_drawdown_pct
    MaxQuantile,           \* max_entry_quantile
    MinPoolDrawdown,       \* min_pool_sol_drawdown_pct
    MaxPoolDrawdown,       \* max_pool_sol_drawdown_pct; 0 is none
    MinPoolSol,            \* min_pool_sol
    FireCooldown,          \* cooldown_secs
    MaxAge,                \* max_session_age_secs; 0 is none
    PoolRecovery,          \* pool_recovery_secs; 0 is none
    PoolRecoveryPct,       \* pool_recovery_pct
    PriceRecovery,         \* price_recovery_secs; 0 is none
    PriceRecoveryPct,      \* price_recovery_pct
    MinDipTicks            \* MIN_TICKS_FOR_FIRE

ASSUME DipBuyConstants ==
    /\ Quote \subseteq [price: Nat, pool: Nat]
    /\ MinDrawdown \in 0 .. 100 /\ MaxQuantile \in 0 .. 100
    /\ MinPoolDrawdown \in 0 .. 100 /\ MaxPoolDrawdown \in 0 .. 100
    /\ MinPoolSol \in Nat /\ FireCooldown \in Nat /\ MaxAge \in Nat
    /\ PoolRecovery \in Nat /\ PoolRecoveryPct \in Nat
    /\ PriceRecovery \in Nat /\ PriceRecoveryPct \in Nat
    /\ MinDipTicks \in Nat

VARIABLES
    dip_ticks,       \* the window, the oldest tick first
    session_age,     \* time since session_start
    since_dip_fire,  \* time since last_fire; FireCooldown when there is none
    dip_fired        \* did the last check() return a reason?

dipVars == <<dip_ticks, session_age, since_dip_fire, dip_fired>>

DipTick == [age: 0 .. Window, price: Nat, pool: Nat]

DipTypeOK ==
    /\ dip_ticks \in Seq(DipTick)
    /\ session_age \in 0 .. MaxAge + 1
    /\ since_dip_fire \in 0 .. FireCooldown
    /\ dip_fired \in BOOLEAN

\* The first tick comes some time into the session: the filters and the
\* discovery of the pool come first.
DipInit ==
    /\ dip_ticks = << >>
    /\ session_age = 0
    /\ since_dip_fire = FireCooldown
    /\ dip_fired = FALSE

-----------------------------------------------------------------------------
(* What check() looks at: q is the window with the tick it judges as the   *)
(* last.                                                                   *)

DipSeen(gap, quote) ==
    Observed(dip_ticks, gap, [age |-> 0, price |-> quote.price, pool |-> quote.pool])

Prices(q) == {q[i].price : i \in DOMAIN q}

Pools(q) == {q[i].pool : i \in DOMAIN q}

\* drawdown_pct, quantile and pool_drawdown_pct of the entry, the tick judged.
FarBelowHigh(entry, q) ==
    (Max(Prices(q)) - entry.price) * 100 >= MinDrawdown * Max(Prices(q))

NearLow(entry, q) ==
    (entry.price - Min(Prices(q))) * 100
        <= MaxQuantile * (Max(Prices(q)) - Min(Prices(q)))

PoolDrained(entry, q) ==
    (Max(Pools(q)) - entry.pool) * 100 >= MinPoolDrawdown * Max(Pools(q))

PoolDying(entry, q) ==
    /\ MaxPoolDrawdown > 0
    /\ (Max(Pools(q)) - entry.pool) * 100 > MaxPoolDrawdown * Max(Pools(q))

Degenerate(q) ==
    Max(Prices(q)) = 0 \/ Max(Pools(q)) = 0 \/ Max(Prices(q)) = Min(Prices(q))

Recent(q, secs) == {i \in DOMAIN q : q[i].age <= secs}

\* The pool has come up from the lowest it was of late, and so has the price.
PoolBounced(entry, q) ==
    PoolRecovery > 0 =>
        \E i \in Recent(q, PoolRecovery) :
            entry.pool * 100 >= q[i].pool * (100 + PoolRecoveryPct)

PriceBounced(entry, q) ==
    PriceRecovery > 0 =>
        \E i \in Recent(q, PriceRecovery) :
            entry.price * 100 >= q[i].price * (100 + PriceRecoveryPct)

IsDip(q) ==
    LET entry == q[Len(q)]
    IN  /\ entry.pool >= MinPoolSol
        /\ ~Degenerate(q)
        /\ FarBelowHigh(entry, q) /\ NearLow(entry, q)
        /\ PoolDrained(entry, q) /\ ~PoolDying(entry, q)
        /\ PoolBounced(entry, q) /\ PriceBounced(entry, q)

TooOld(gap) == MaxAge > 0 /\ session_age + gap > MaxAge

DipJudged(gap, q) ==
    /\ since_dip_fire + gap >= FireCooldown
    /\ ~TooOld(gap)
    /\ Len(q) >= MinDipTicks
    /\ Full(q)

-----------------------------------------------------------------------------
DipObserve(gap, quote) ==
    /\ dip_ticks' = DipSeen(gap, quote)
    /\ session_age' = Later(session_age, gap, MaxAge + 1)

\* Mutant of DipFires: the fire is not remembered.
DipFiresUnstamped(gap, quote) ==
    /\ DipJudged(gap, DipSeen(gap, quote))
    /\ IsDip(DipSeen(gap, quote))
    /\ DipObserve(gap, quote)
    /\ since_dip_fire' = Later(since_dip_fire, gap, FireCooldown)
    /\ dip_fired' = TRUE

DipFires(gap, quote) ==
    /\ DipJudged(gap, DipSeen(gap, quote))
    /\ IsDip(DipSeen(gap, quote))
    /\ DipObserve(gap, quote)
    /\ since_dip_fire' = 0
    /\ dip_fired' = TRUE

NoDip(gap, quote) ==
    /\ ~(DipJudged(gap, DipSeen(gap, quote)) /\ IsDip(DipSeen(gap, quote)))
    /\ DipObserve(gap, quote)
    /\ since_dip_fire' = Later(since_dip_fire, gap, FireCooldown)
    /\ dip_fired' = FALSE

DipStep(gap, quote) ==
    RoomFor(dip_ticks, gap) /\ (DipFires(gap, quote) \/ NoDip(gap, quote))
=============================================================================
