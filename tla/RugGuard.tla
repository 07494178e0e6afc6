------------------------------ MODULE RugGuard ------------------------------
(***************************************************************************)
(* The rug guard of a session (rug.rs): how many readings it has seen and  *)
(* their peaks, and the verdict on the latest one.  Percentages are        *)
(* compared by cross-multiplication.                                       *)
(***************************************************************************)
EXTENDS Naturals

CONSTANT RugFilter  \* the [rug] section; a limit of 0 is off

ASSUME RugFilterType ==
    RugFilter \in [enabled: BOOLEAN, min_samples: Nat, min_pool: Nat,
                   max_drop: Nat, max_drawdown: Nat]

Guard == [samples: 0 .. RugFilter.min_samples, peak_price: Nat, peak_pool: Nat]

NewGuard == [samples |-> 0, peak_price |-> 0, peak_pool |-> 0]

Higher(old, new) == IF new > old THEN new ELSE old

\* samples only counts up to what it is compared with.
Observe(g, u) ==
    [samples |-> IF g.samples < RugFilter.min_samples THEN g.samples + 1 ELSE g.samples,
     peak_price |-> Higher(g.peak_price, u.price),
     peak_pool |-> Higher(g.peak_pool, u.pool)]

BelowFloor(u) == u.pool < RugFilter.min_pool

DownBy(limit, peak, now) == limit > 0 /\ (peak - now) * 100 > limit * peak

IsRugged(g, u) ==
    /\ RugFilter.enabled
    /\ g.samples >= RugFilter.min_samples
    /\ \/ BelowFloor(u)
       \/ DownBy(RugFilter.max_drop, g.peak_pool, u.pool)
       \/ DownBy(RugFilter.max_drawdown, g.peak_price, u.price)
=============================================================================
