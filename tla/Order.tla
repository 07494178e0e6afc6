------------------------------- MODULE Order --------------------------------
(***************************************************************************)
(* What a caller of buy() or sell_all() may rely on.  An order is placed   *)
(* once, is carried out some number of times, and is reported once:        *)
(* success is reported only of an order that was carried out.  An order    *)
(* with no answer lost is carried out at most once, failure means it never *)
(* was, and nothing happens after the report.  Of a doubtful order only    *)
(* the number of executions is bounded.                                    *)
(***************************************************************************)
EXTENDS Naturals

CONSTANTS
    Customer,  \* the orders, one for each customer
    Limit      \* most executions of each order, a function on Customer

VARIABLES
    report,    \* "none", "working", "ok", "err" or "dry"
    executed,  \* how often the order was carried out
    doubtful   \* the orders an answer was lost of

orderVars == <<report, executed, doubtful>>

Init ==
    /\ report = [c \in Customer |-> "none"]
    /\ executed = [c \in Customer |-> 0]
    /\ doubtful = {}

Place(c) ==
    /\ report[c] = "none"
    /\ report' = [report EXCEPT ![c] = "working"]
    /\ UNCHANGED <<executed, doubtful>>

\* An order may fall into doubt while it is worked on, and with its report.
MayFallInDoubt(c) ==
    /\ report[c] = "working"
    /\ doubtful' \in {doubtful, doubtful \cup {c}}

Work(c) ==
    /\ MayFallInDoubt(c)
    /\ UNCHANGED <<report, executed>>

Execute(c) ==
    /\ report[c] # "none"
    /\ c \notin doubtful => report[c] = "working" /\ executed[c] = 0
    /\ executed[c] < Limit[c]
    /\ executed' = [executed EXCEPT ![c] = @ + 1]
    /\ UNCHANGED <<report, doubtful>>

Report(c) ==
    /\ MayFallInDoubt(c)
    /\ \E r \in {"ok", "err", "dry"} :
          /\ r = "ok" => executed[c] > 0
          /\ r = "dry" => executed[c] = 0
          /\ r = "err" /\ c \notin doubtful' => executed[c] = 0
          /\ report' = [report EXCEPT ![c] = r]
    /\ UNCHANGED executed

Next == \E c \in Customer : Place(c) \/ Work(c) \/ Execute(c) \/ Report(c)

Spec == Init /\ [][Next]_orderVars
=============================================================================
