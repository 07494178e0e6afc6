------------------------------ MODULE Signals -------------------------------
(***************************************************************************)
(* The entry signals of a session, per tick (session.rs 262-405): the      *)
(* dip-buy detector if it is enabled, else the capitulation detector if    *)
(* that one is, else the crossovers of the MACD.  The candles are built in *)
(* every mode; they are followed here in the one in which they can buy.    *)
(***************************************************************************)
EXTENDS Capitulation, DipBuy, Candles

CONSTANT EntryModes   \* the detectors the configuration may enable

ASSUME SignalsConstants == EntryModes \subseteq {"dip_buy", "capitulation", "macd"}

VARIABLES
    mode,          \* the detector that may buy
    since_silence, \* history: time since a tick that came later than the window
    since_sparse,  \* history: time since one that came more than a second late
    since_first,   \* history: time since the first tick
    since_last     \* history: time since the dip-buy detector last fired

historyVars == <<since_silence, since_sparse, since_first, since_last>>

signalVars == <<vars, dipVars, candleVars, mode, historyVars>>

\* main.rs 60-62: the warm-up of the MACD, in seconds.
WarmupSecs == (Slow + SignalPeriod) * Interval

SignalsTypeOK ==
    /\ TypeOK /\ DipTypeOK /\ CandleTypeOK
    /\ mode \in EntryModes
    /\ since_silence \in 0 .. Window
    /\ since_sparse \in 0 .. Window
    /\ since_first \in 0 .. WarmupSecs
    /\ since_last \in 0 .. Window + 1

SignalsInit ==
    /\ Init /\ DipInit /\ CandleInit
    /\ mode \in EntryModes
    /\ since_silence = 0
    /\ since_sparse = 0
    /\ since_first = 0
    /\ since_last = Window + 1

Started == ticks # << >> \/ dip_ticks # << >> \/ bar.open

\* Counted from the first tick on.
Counted(since, gap, limit) == IF Started THEN Later(since, gap, limit) ELSE 0

History(gap) ==
    /\ since_silence' = IF gap > Window THEN 0 ELSE Counted(since_silence, gap, Window)
    /\ since_sparse' = IF gap > 1 THEN 0 ELSE Counted(since_sparse, gap, Window)
    /\ since_first' = Counted(since_first, gap, WarmupSecs)
    /\ since_last' = IF dip_fired THEN Later(0, gap, Window + 1)
                     ELSE Later(since_last, gap, Window + 1)

CapTick(gap, price) ==
    /\ mode = "capitulation"
    /\ CapStep(gap, price)
    /\ History(gap)
    /\ UNCHANGED <<dipVars, candleVars, mode>>

DipBuyTick(gap, quote) ==
    /\ mode = "dip_buy"
    /\ DipStep(gap, quote)
    /\ History(gap)
    /\ UNCHANGED <<vars, candleVars, mode>>

MacdTick(gap) ==
    /\ mode = "macd"
    /\ CandleStep(gap)
    /\ History(gap)
    /\ UNCHANGED <<vars, dipVars, mode>>

SignalsNext ==
    \E gap \in Gap :
        \/ \E price \in Price : CapTick(gap, price)
        \/ \E quote \in Quote : DipBuyTick(gap, quote)
        \/ MacdTick(gap)

SignalsSpec == SignalsInit /\ [][SignalsNext]_signalVars

-----------------------------------------------------------------------------
TickQueue == IF mode = "dip_buy" THEN dip_ticks ELSE ticks

\* A detector that saw nothing for longer than its window starts over: it fires
\* on no tick until the window is full of new ones, whatever it had seen before
\* (dip_buy.rs 131-138, capitulation.rs 118-128).
SilenceRestartsWindow == fired \/ dip_fired => since_silence >= Window - 1

\* While ticks come at least once a second no tick goes unjudged for want of
\* a full window: eviction, which drops what is older than window_secs, always
\* leaves a tick in the last second of it.  With ticks further apart it may
\* not, and a dip between them passes unseen
\* (dip_buy.rs 91-99, 134-136; capitulation.rs 75-83, 122-124).
DenseTicksAreJudged ==
    mode # "macd" /\ Started /\ since_sparse >= Window - 1 => Full(TickQueue)

\* A dip is bought once: with a cooldown no shorter than the window, a fire is
\* judged on prices none of which is older than the fire before it
\* (dip_buy.rs 115-119, 140-162).
OneFirePerDip ==
    dip_fired /\ FireCooldown >= Window => Head(dip_ticks).age <= since_last

\* main.rs 60-72: the warm-up takes slow + signal candles, and a session shorter
\* than that never sees a signal, however its ticks fall into candles
\* (macd.rs 27-49, 78-93, 151-178).
NoCrossDuringWarmup ==
    event \in {"bullish", "bearish"} => since_first >= WarmupSecs
=============================================================================
