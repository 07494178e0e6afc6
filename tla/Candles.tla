------------------------------ MODULE Candles -------------------------------
(***************************************************************************)
(* macd.rs: the candles a session builds from its price ticks, and the     *)
(* MACD it feeds with their closes.                                        *)
(*                                                                         *)
(* The averages are abstracted to how many inputs they have had and, once  *)
(* the signal line is live, to where the MACD line lies against it, which  *)
(* a close may change to anything.                                         *)
(***************************************************************************)
EXTENDS TickWindow

CONSTANTS
    Interval,      \* candle_interval_secs
    Fast,          \* the periods of the three averages
    Slow,
    SignalPeriod

ASSUME CandleConstants ==
    /\ Interval \in Nat \ {0}
    /\ Fast \in Nat \ {0} /\ Slow \in Nat /\ Fast < Slow
    /\ SignalPeriod \in Nat \ {0}

VARIABLES
    bar,     \* bar_start, once the first tick opened a bar
    fed,     \* the inputs each average has had, counted up to its period
    line,    \* prev_macd against prev_signal, once both are set
    event    \* what on_close said of the last tick; "none" when no bar closed

candleVars == <<bar, fed, line, event>>

Relation == {"below", "at", "above"}

Period == [fast |-> Fast, slow |-> Slow, signal |-> SignalPeriod]

CandleTypeOK ==
    /\ bar \in [open: BOOLEAN, age: 0 .. Interval - 1]
    /\ fed \in [fast: 0 .. Fast, slow: 0 .. Slow, signal: 0 .. SignalPeriod]
    /\ line \in Relation \cup {"unset"}
    /\ event \in {"none", "warmup", "nocross", "bullish", "bearish"}

CandleInit ==
    /\ bar = [open |-> FALSE, age |-> 0]
    /\ fed = [fast |-> 0, slow |-> 0, signal |-> 0]
    /\ line = "unset"
    /\ event = "none"

-----------------------------------------------------------------------------
(* CandleAggregator.on_tick.                                               *)

\* The new bar starts at the last boundary; bars without a tick are skipped.
NextBar(elapsed) == [open |-> TRUE, age |-> elapsed % Interval]

OpensFirst ==
    /\ ~bar.open
    /\ bar' = [open |-> TRUE, age |-> 0]
    /\ event' = "none"
    /\ UNCHANGED <<fed, line>>

SameBar(gap) ==
    /\ bar.open
    /\ bar.age + gap < Interval
    /\ bar' = [bar EXCEPT !.age = @ + gap]
    /\ event' = "none"
    /\ UNCHANGED <<fed, line>>

Closes(gap) ==
    /\ bar.open
    /\ bar.age + gap >= Interval
    /\ bar' = NextBar(bar.age + gap)

-----------------------------------------------------------------------------
(* Macd.on_close.                                                          *)

\* Mutant of Live: an average is taken at its word one input too early.
LiveEarly(f, average) == f[average] + 1 >= Period[average]

\* An average has a value from the input that fills its period on.
Live(f, average) == f[average] >= Period[average]

Feed(f, average) ==
    [f EXCEPT ![average] = IF @ < Period[average] THEN @ + 1 ELSE @]

\* The signal line is fed only when both others have a value.
Fed ==
    LET f == Feed(Feed(fed, "fast"), "slow")
    IN  IF Live(f, "fast") /\ Live(f, "slow") THEN Feed(f, "signal") ELSE f

Crossing(to) ==
    CASE line \in {"below", "at"} /\ to = "above" -> "bullish"
      [] line \in {"above", "at"} /\ to = "below" -> "bearish"
      [] OTHER -> "nocross"

WarmingUp(gap) ==
    /\ Closes(gap)
    /\ fed' = Fed
    /\ ~Live(fed', "signal")
    /\ event' = "warmup"
    /\ UNCHANGED line

\* A signal line of period 1 is the MACD line itself.
Judges(gap, to) ==
    /\ Closes(gap)
    /\ SignalPeriod = 1 => to = "at"
    /\ fed' = Fed
    /\ Live(fed', "signal")
    /\ event' = Crossing(to)
    /\ line' = to

CandleStep(gap) ==
    \/ OpensFirst \/ SameBar(gap) \/ WarmingUp(gap)
    \/ \E to \in Relation : Judges(gap, to)
=============================================================================
