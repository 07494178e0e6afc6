---------------------------- MODULE CopyHistory -----------------------------
(***************************************************************************)
(* CopyTrade with what the properties about the past need to remember:     *)
(* whether the wallet a task follows has closed the token since the task   *)
(* started, and whether the daily cap was used up when it started.         *)
(***************************************************************************)
EXTENDS CopyTrade

VARIABLES
    alpha_out,  \* has the main loop handled a closing sell the task follows?
    barred      \* the tasks started when the last 24 hours left nothing to spend

historyVars == <<alpha_out, barred>>

HistoryInit ==
    /\ Init
    /\ alpha_out = [t \in Task |-> FALSE]
    /\ barred = {}

Starts(t) == pc[t] = "idle" /\ pc'[t] = "cap_check"

UnderWay(t) == pc[t] \notin {"idle", "ended"}

Closes(t) ==
    UnderWay(t) /\ \E f \in Sell : ClosesFor(t, f) /\ HandleSell(f)

SpentUp ==
    Cardinality({i \in 1 .. Len(spends) : ~Expired(spends[i])}) >= CapTrades

HistoryNext ==
    /\ Next
    /\ alpha_out' = [t \in Task |-> alpha_out[t] \/ Closes(t)]
    /\ barred' = barred \cup {t \in Task : Starts(t) /\ SpentUp}

HistorySafety == HistoryInit /\ [][HistoryNext]_<<vars, historyVars>>

HistorySpec == HistorySafety /\ Fairness

-----------------------------------------------------------------------------
\* main.rs 208-211, 304: once the wallet a task follows has closed the token, at
\* any moment after the task was started, the task sells and leaves, even if the
\* sell came while it was still buying and with no time limit to fall back on.
MirrorFollows ==
    \A t \in Task :
        alpha_out[t] /\ ~dry_run ~>
            (pc[t] \in {"sell", "sold", "release", "ended"} \/ Dead)

\* A task started when the trades recorded in the last 24 hours use up the cap
\* never buys, whatever the other tasks record meanwhile
\* (copy_session.rs 77-88, dip_buy.rs 232-252).
BarredNeverBuy == \A t \in barred : pc[t] \in {"cap_check", "ended"}
=============================================================================
