------------------------------ MODULE MCSignals -----------------------------
(* An instance of Signals.  Four prices: two in the depth of a dump, one    *)
(* that reclaims it, and one to fall from; the pool drains with the price.  *)
EXTENDS Signals

MCPrice == {50, 55, 80, 100}
MCGap == {0, 1, 3, 4}
MCQuote == {[price |-> 100, pool |-> 100], [price |-> 50, pool |-> 70],
            [price |-> 55, pool |-> 74], [price |-> 55, pool |-> 40]}
=============================================================================
