------------------------------ MODULE Listener ------------------------------
(***************************************************************************)
(* The PumpPortal listener of pumpportal.rs: a task that keeps a websocket *)
(* open, subscribes on it, and passes what it makes of the frames to the   *)
(* main loop over an unbounded channel.  Whatever ends a connection, it    *)
(* waits, twice as long each time, and connects again.                     *)
(*                                                                         *)
(* The migration listener and the account-trade listener have this one     *)
(* loop; here the events are graduations.  What PumpPortal sends while no  *)
(* subscription stands is lost.                                            *)
(***************************************************************************)
EXTENDS Naturals, Sequences

CONSTANTS
    Event,       \* what a frame may be taken for; symbol: does it carry one?
    MaxBackoff,  \* 30 seconds
    MaxEvents    \* bound: events in the channel

ASSUME ListenerConstants ==
    /\ Event \subseteq [symbol: BOOLEAN]
    /\ MaxBackoff \in Nat \ {0} /\ MaxEvents \in Nat \ {0}

VARIABLES
    ws,       \* where the task is
    backoff,  \* how long it waits next
    pause,    \* how long it still waits
    events    \* the channel

listenerVars == <<ws, backoff, pause, events>>

ListenerTypeOK ==
    /\ ws \in {"connecting", "subscribing", "reading", "down", "ended"}
    /\ backoff \in 1 .. MaxBackoff
    /\ pause \in 0 .. MaxBackoff
    /\ events \in Seq(Event)

ListenerInit ==
    /\ ws = "connecting"
    /\ backoff = 1
    /\ pause = 0
    /\ events = << >>

\* Mutants of ConnectionEnds: an error ends the task, and the wait keeps doubling.
ConnectionEndsTask ==
    /\ ws \in {"connecting", "subscribing", "reading"}
    /\ ws' = "ended"
    /\ UNCHANGED <<backoff, pause, events>>

ConnectionEndsUncapped ==
    /\ ws \in {"connecting", "subscribing", "reading"}
    /\ ws' = "down"
    /\ pause' = backoff
    /\ backoff' = 2 * backoff
    /\ UNCHANGED events

\* A failure to connect or to send, a read error, a Close frame, the stream's end.
\* backoff is never set back to 1.
ConnectionEnds ==
    /\ ws \in {"connecting", "subscribing", "reading"}
    /\ ws' = "down"
    /\ pause' = backoff
    /\ backoff' = IF 2 * backoff < MaxBackoff THEN 2 * backoff ELSE MaxBackoff
    /\ UNCHANGED events

Connects ==
    /\ ws = "connecting"
    /\ ws' = "subscribing"
    /\ UNCHANGED <<backoff, pause, events>>

Subscribes ==
    /\ ws = "subscribing"
    /\ ws' = "reading"
    /\ UNCHANGED <<backoff, pause, events>>

\* A text frame with a mint.  Others, of control, not JSON, without a mint, and
\* pings, change nothing.
Frame ==
    /\ ws = "reading"
    /\ Len(events) < MaxEvents
    /\ \E e \in Event : events' = Append(events, e)
    /\ UNCHANGED <<ws, backoff, pause>>

ListenerStep == ConnectionEnds \/ Connects \/ Subscribes \/ Frame

\* Time passes.
PauseOlder == IF pause > 0 THEN pause - 1 ELSE 0

ListenerTick ==
    /\ pause' = PauseOlder
    /\ ws' = IF ws = "down" /\ pause' = 0 THEN "connecting" ELSE ws
    /\ UNCHANGED <<backoff, events>>
=============================================================================
