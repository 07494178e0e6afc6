----------------------------- MODULE TickWindow -----------------------------
(***************************************************************************)
(* What the two entry detectors share: a deque of the session's last ticks,*)
(* from which a tick older than the window is popped before the next one   *)
(* is pushed (evict_old and observe of capitulation.rs and dip_buy.rs).    *)
(*                                                                         *)
(* A step of a detector is one price tick; gap is the time since the tick  *)
(* before, in seconds.  An Instant is kept as the time since then, counted *)
(* up to the first value that can no longer make a difference.             *)
(***************************************************************************)
EXTENDS Naturals, Sequences, FiniteSets

CONSTANTS
    Gap,      \* the times that may pass between two ticks; 0 for ticks that
              \* waited in the channel while the session was trading
    Window,   \* window_secs of the detector in use
    MaxTicks  \* bound: ticks in a window

ASSUME WindowConstants ==
    Gap \subseteq Nat /\ Window \in Nat \ {0} /\ MaxTicks \in Nat

Later(age, gap, limit) == IF age + gap < limit THEN age + gap ELSE limit

\* How many ticks are popped from the front: those with nothing but ticks older
\* than limit up to them.
Popped(q, gap, limit) ==
    Cardinality({i \in 1 .. Len(q) : \A j \in 1 .. i : q[j].age + gap > limit})

\* Mutants of Kept: a tick is evicted a second late, too early, or never.
KeptLonger(q, gap) == SubSeq(q, Popped(q, gap, Window + 1) + 1, Len(q))

KeptShorter(q, gap) == SubSeq(q, Popped(q, gap, Window - 2) + 1, Len(q))

KeptForever(q, gap) == q

\* What evict_old leaves.
Kept(q, gap) == SubSeq(q, Popped(q, gap, Window) + 1, Len(q))

Older(q, gap) == [i \in DOMAIN q |-> [q[i] EXCEPT !.age = @ + gap]]

\* The window after a tick that comes gap after the one before.
Observed(q, gap, tick) == Append(Older(Kept(q, gap), gap), tick)

RoomFor(q, gap) == Len(Kept(q, gap)) < MaxTicks

\* The window reaches back far enough for the tick to be judged.
Full(q) == q # << >> /\ Head(q).age >= Window - 1
=============================================================================
