----------------------------- MODULE PriceFeed ------------------------------
(***************************************************************************)
(* The price task of a session (price_feed.rs): it looks for the token's   *)
(* pool, then reads it at an interval and sends each reading down an       *)
(* unbounded channel, until it finds the session has dropped the receiver. *)
(*                                                                         *)
(* A queued update carries the time since it was read.                     *)
(***************************************************************************)
EXTENDS Naturals, Sequences

CONSTANTS
    Reading,           \* what fetch_pool_state may return: [price, pool]
    DiscoveryAttempts, \* 10
    MaxLag,            \* bound: ages are counted up to here
    MaxQueue           \* bound: updates in the channel

ASSUME PriceFeedConstants ==
    /\ Reading \subseteq [price: Nat, pool: Nat]
    /\ DiscoveryAttempts \in Nat \ {0}
    /\ MaxLag \in Nat /\ MaxQueue \in Nat \ {0}

VARIABLES
    poll,     \* where the task is
    misses,   \* find_pool calls that failed
    rx,       \* the channel
    receiver  \* does the session still have its end?

feedVars == <<poll, misses, rx, receiver>>

Update == [price: Nat, pool: Nat, age: 0 .. MaxLag]

FeedTypeOK ==
    /\ poll \in {"discovering", "retrying", "reading", "sleeping", "ended"}
    /\ misses \in 0 .. DiscoveryAttempts
    /\ rx \in Seq(Update)
    /\ receiver \in BOOLEAN

FeedInit ==
    /\ poll = "discovering"
    /\ misses = 0
    /\ rx = << >>
    /\ receiver = TRUE

FindsPool ==
    /\ poll = "discovering"
    /\ poll' = "reading"
    /\ UNCHANGED <<misses, rx, receiver>>

\* It also sleeps after the last attempt.
FindFails ==
    /\ poll = "discovering"
    /\ misses' = misses + 1
    /\ poll' = "retrying"
    /\ UNCHANGED <<rx, receiver>>

Sends(u) ==
    \/ /\ receiver
       /\ Len(rx) < MaxQueue
       /\ rx' = Append(rx, [price |-> u.price, pool |-> u.pool, age |-> 0])
       /\ poll' = "sleeping"
    \/ /\ ~receiver
       /\ poll' = "ended"
       /\ UNCHANGED rx

ReadSucceeds ==
    /\ poll = "reading"
    /\ \E u \in Reading : Sends(u)
    /\ UNCHANGED <<misses, receiver>>

\* An error or the read timeout, a vault that is missing, too short or empty.
ReadFails ==
    /\ poll = "reading"
    /\ poll' = "sleeping"
    /\ UNCHANGED <<misses, rx, receiver>>

PollStep == FindsPool \/ FindFails \/ ReadSucceeds \/ ReadFails

Asleep == poll \in {"retrying", "sleeping"}

\* Mutants of WokenTo: one attempt too many, and a task that only finds out by
\* sending that the receiver is gone.
WokenOnceMore ==
    CASE poll = "retrying" /\ misses <= DiscoveryAttempts -> "discovering"
      [] poll = "retrying" /\ misses > DiscoveryAttempts  -> "ended"
      [] poll = "sleeping" /\ receiver                    -> "reading"
      [] poll = "sleeping" /\ ~receiver                   -> "ended"
      [] ~Asleep                                          -> poll

WokenBlind ==
    CASE poll = "retrying" /\ misses < DiscoveryAttempts -> "discovering"
      [] poll = "retrying" /\ misses = DiscoveryAttempts -> "ended"
      [] poll = "sleeping"                               -> "reading"
      [] ~Asleep                                         -> poll

\* Where the task is when the time it sleeps has passed.
WokenTo ==
    CASE poll = "retrying" /\ misses < DiscoveryAttempts -> "discovering"
      [] poll = "retrying" /\ misses = DiscoveryAttempts -> "ended"
      [] poll = "sleeping" /\ receiver                   -> "reading"
      [] poll = "sleeping" /\ ~receiver                  -> "ended"
      [] ~Asleep                                         -> poll

Lag(age) == IF age < MaxLag THEN age + 1 ELSE age

QueueOlder == [i \in DOMAIN rx |-> [rx[i] EXCEPT !.age = Lag(@)]]

\* One interval passes.
FeedTick ==
    /\ poll' = WokenTo
    /\ rx' = QueueOlder
    /\ UNCHANGED <<misses, receiver>>

\* The other end.
Recv == rx' = Tail(rx) /\ UNCHANGED <<poll, misses, receiver>>

Hangs == poll = "ended" /\ rx = << >>

DropReceiver == receiver' = FALSE /\ rx' = << >> /\ UNCHANGED <<poll, misses>>
=============================================================================
