----------------------------- MODULE ExitRules ------------------------------
(***************************************************************************)
(* The exit rules of an open position: decide_exit of position.rs for the  *)
(* graduation sessions and copy_exit of copy_session.rs for the copied     *)
(* trades.  A rule set says what kind of position it is for and what the   *)
(* limits are; a limit of 0 is off.  Profit and loss is in percent.        *)
(***************************************************************************)
EXTENDS Integers, Sequences, FiniteSetsExt

Tier == [gain: Nat, trail: Nat]

Kind == {"universal", "dip_buy", "copy", "mirror"}

RuleSet == [kind: Kind, hold: Nat, stop: Nat, profit: Nat, tiers: Seq(Tier)]

\* parse_tiers sorts by gain.
Ascending(tiers) ==
    \A i, j \in DOMAIN tiers : i < j => tiers[i].gain <= tiers[j].gain

\* In whole percents, rounded down; the code has a float.
Pnl(entry, price) == IF entry = 0 THEN 0 ELSE ((price - entry) * 100) \div entry

HeldTooLong(r, held) == r.hold > 0 /\ held >= r.hold

Stopped(r, pct) == r.stop > 0 /\ pct <= -r.stop

Profited(r, pct) == r.profit > 0 /\ pct >= r.profit

Reached(r, peak) == {i \in DOMAIN r.tiers : r.tiers[i].gain <= peak}

\* Mutant of TierReached: the search is not reversed.
LowestReached(r, peak) == Min(Reached(r, peak))

TierReached(r, peak) == Max(Reached(r, peak))

TrailedOff(r, peak, pct) ==
    /\ Reached(r, peak) # {}
    /\ pct <= peak - r.tiers[TierReached(r, peak)].trail

Trips(r, reason, peak, pct, held) ==
    \/ reason = "hold" /\ HeldTooLong(r, held)
    \/ reason = "stop" /\ Stopped(r, pct)
    \/ reason = "profit" /\ Profited(r, pct)
    \/ reason = "trail" /\ TrailedOff(r, peak, pct)

\* What is looked at, in this order.
Priority(r) ==
    CASE r.kind = "universal"         -> <<"hold", "stop", "profit", "trail">>
      [] r.kind \in {"dip_buy", "copy"} -> <<"hold", "stop", "trail", "profit">>
      [] r.kind = "mirror"            -> <<"hold", "stop">>

Tripped(r, peak, pct, held) ==
    {i \in DOMAIN Priority(r) : Trips(r, Priority(r)[i], peak, pct, held)}

DecideExit(r, peak, pct, held) ==
    IF Tripped(r, peak, pct, held) = {} THEN "none"
    ELSE Priority(r)[Min(Tripped(r, peak, pct, held))]
=============================================================================
