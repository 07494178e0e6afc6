----------------------------- MODULE MCMonitor ------------------------------
(* An instance of Monitor: an entry at 10, prices from half to twice that,  *)
(* liquidity that halves or is gone.                                        *)
EXTENDS Monitor

U(price, pool) == [price |-> price, pool |-> pool]

MCReading == {U(5, 10), U(10, 10), U(15, 10), U(20, 10), U(10, 4), U(15, 1)}

MCTiers == << [gain |-> 40, trail |-> 30], [gain |-> 90, trail |-> 60] >>

Rule(kind, hold, stop, profit) ==
    [kind |-> kind, hold |-> hold, stop |-> stop, profit |-> profit, tiers |-> MCTiers]

MCRules == {Rule("universal", 2, 0, 30), Rule("dip_buy", 0, 45, 95),
            Rule("copy", 0, 0, 0), Rule("mirror", 0, 45, 0)}

MCRugFilter == [enabled |-> TRUE, min_samples |-> 2, min_pool |-> 3,
                max_drop |-> 50, max_drawdown |-> 70]
=============================================================================
