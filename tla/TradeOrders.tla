---------------------------- MODULE TradeOrders -----------------------------
(***************************************************************************)
(* The calls of trader.rs by themselves: every caller places one order,    *)
(* all of them at liberty to overlap, and the orders are counted as they   *)
(* execute on chain.                                                       *)
(***************************************************************************)
EXTENDS Trader

CONSTANTS
    OpOf,    \* the order each caller places, "buy" or "sell"
    Stock    \* lots of each token in the wallet at the start

ASSUME OrdersConstants ==
    /\ OpOf \in [Caller -> {"buy", "sell"}]
    /\ Stock \in 0 .. MaxLots

VARIABLES
    executed,  \* history: executions of each caller's order
    doubtful   \* history: the callers of whose order an answer was lost

vars == <<traderVars, executed, doubtful>>

Init ==
    /\ wallet = [m \in Mint |-> Stock]
    /\ stray = [t \in Transaction |-> 0]
    /\ call = [c \in Caller |-> NoCall]
    /\ dry_run \in DryRun
    /\ executed = [c \in Caller |-> 0]
    /\ doubtful = {}

Place(c) == Begin(c, OpOf[c]) /\ UNCHANGED <<executed, doubtful>>

Work(c) ==
    /\ \/ AnsweredStep(c) /\ UNCHANGED doubtful
       \/ LostStep(c) /\ doubtful' = doubtful \cup {c}
    /\ UNCHANGED executed

Counted(c) ==
    /\ executed' = [executed EXCEPT ![c] = @ + 1]
    /\ UNCHANGED doubtful

Landing(c) == Land(c) /\ Counted(c)

Failing(c) == Fail(c) /\ UNCHANGED <<executed, doubtful>>

StrayLanding(t) == LandStray(t) /\ Counted(t.caller)

StrayFailing(t) == FailStray(t) /\ UNCHANGED <<executed, doubtful>>

Next ==
    \/ \E c \in Caller : Place(c) \/ Work(c) \/ Landing(c) \/ Failing(c)
    \/ \E t \in Transaction : StrayLanding(t) \/ StrayFailing(t)

\* Every await of an attempt has a timeout (15 s for an HTTP request, 60 s
\* for the confirmation), and a transaction that does not land expires.
Fairness ==
    \A c \in Caller : WF_vars(Work(c)) /\ WF_vars(Landing(c) \/ Failing(c))

Spec == Init /\ [][Next]_vars /\ Fairness

-----------------------------------------------------------------------------
TypeOK ==
    /\ TraderTypeOK
    /\ executed \in [Caller -> Nat]
    /\ doubtful \in SUBSET Caller

Reported(c) ==
    CASE call[c].phase = "idle" -> "none"
      [] call[c].phase \in Returned -> call[c].phase
      [] OTHER -> "working"

\* Sends of one call: one per attempt, and one more for a Jito fallback.
MaxSends(op) == Attempts(op) * (IF Jito THEN 2 ELSE 1)

Abstract == INSTANCE Order WITH
    Customer <- Caller,
    Limit <- [c \in Caller |-> MaxSends(OpOf[c])],
    report <- [c \in Caller |-> Reported(c)]

\* A call is an order as Order describes it: while no answer is lost it is
\* carried out at most once and truly reported, however many attempts and
\* fallbacks it takes; otherwise at most as often as it was sent, and success
\* is still reported only of an order that was carried out (trader.rs 72-242).
IsOrder == Abstract!Spec

\* What trader.rs 176-180 promises of a trade whose confirmation timed out: it
\* is not executed a second time.
NoDoubleExecution == \A c \in Caller : executed[c] <= 1

\* Every call returns: the attempts of the escalation loop (trader.rs 81, 122)
\* and the waits of each attempt are bounded.
EveryCallReturns ==
    \A c \in Caller : call[c].phase = "submit" ~> call[c].phase \in Returned
=============================================================================
