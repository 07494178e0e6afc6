----------------------------- MODULE DailySpend -----------------------------
(***************************************************************************)
(* DailySpendTracker of dip_buy.rs: the rolling 24h spending cap shared by *)
(* the sessions of a process.                                              *)
(*                                                                         *)
(* Every spend of a process has the same amount, so a spend is its age and *)
(* the cap is a number of trades, CapTrades = floor(cap_sol / amount_sol); *)
(* "total + amount > cap" is then "one more than CapTrades".  Ages are     *)
(* counted up to the first one outside the window.                         *)
(***************************************************************************)
EXTENDS Naturals, Sequences, FiniteSets

CONSTANTS
    CapTrades,  \* how many trades the cap pays for
    DayWindow   \* the 24 hours, in clock ticks

ASSUME DailySpendConstants == CapTrades \in Nat /\ DayWindow \in Nat

VARIABLE spends  \* ages of the recorded spends, the oldest first

SpendAge == 0 .. DayWindow + 1

Expired(age) == age > DayWindow

\* How many entries evict_old pops from the front: those with nothing but
\* expired entries up to them.
ExpiredPrefix(q) ==
    Cardinality({i \in 1 .. Len(q) : \A j \in 1 .. i : Expired(q[j])})

EvictOld(q) == SubSeq(q, ExpiredPrefix(q) + 1, Len(q))

\* Mutant of Breaches: the cap is compared with what was spent before.
BreachesLate(q) == Len(q) > CapTrades

Breaches(q) == Len(q) + 1 > CapTrades

\* check(): TRUE when a further spend would stay within the cap.
SpendAllowed == ~Breaches(EvictOld(spends))

Record == spends' = Append(EvictOld(spends), 0)

Older(age, limit) == IF age < limit THEN age + 1 ELSE age

SpendsOlder == [i \in 1 .. Len(spends) |-> Older(spends[i], DayWindow + 1)]
=============================================================================
