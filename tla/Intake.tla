------------------------------- MODULE Intake -------------------------------
(***************************************************************************)
(* From PumpPortal's websocket to the start of a session: the listener,    *)
(* the main loop, which spawns a task for every event it receives, and     *)
(* one such task with its reads of the chain.  The tasks share nothing, so *)
(* one of them is followed: the events before its own go to others.        *)
(***************************************************************************)
EXTENDS Listener, Filters

vars == <<listenerVars, filterVars>>

IntakeTypeOK == ListenerTypeOK /\ FiltersTypeOK

IntakeInit == ListenerInit /\ FiltersInit

Listens == ListenerStep /\ UNCHANGED filterVars

\* The main loop's recv and spawn.
Spawns ==
    /\ events # << >>
    /\ events' = Tail(events)
    /\ \/ Begin(Head(events))
       \/ UNCHANGED filterVars
    /\ UNCHANGED <<ws, backoff, pause>>

Filters == FilterStep /\ UNCHANGED listenerVars

Chain == (Traded \/ Moved \/ Appears) /\ UNCHANGED listenerVars

Tick == ListenerTick /\ FiltersTick

Next == Listens \/ Spawns \/ Filters \/ Chain \/ Tick

Aged ==
    pause = PauseOlder /\ ~(ws = "down" /\ pause = 0) /\ ~asleep

\* Calls of the node end, by an answer, an error or the client's timeout; the main
\* loop receives; time passes.  PumpPortal may fail at every stage, but not at each
\* attempt for ever: connecting and subscribing succeed again and again.
Fairness ==
    /\ WF_vars(Spawns) /\ WF_vars(Filters)
    /\ SF_vars(Connects /\ UNCHANGED filterVars)
    /\ SF_vars(Subscribes /\ UNCHANGED filterVars)
    /\ <>[]Aged \/ []<><<Tick>>_vars

Spec == IntakeInit /\ [][Next]_vars /\ Fairness

-----------------------------------------------------------------------------
(* Properties. *)

Decided == step \in {"passed", "rejected"}

\* Every task spawned for a graduation comes to a decision: the look-ups of the
\* name and of the mint and the walk over the pages all end, whatever the chain
\* shows them (main.rs 343-361, session.rs 663-724, onchain.rs 22-52, 477-504).
EveryTaskDecides == step # "none" ~> Decided

\* However a connection ends, the listener is subscribed again: no error, no close
\* and no failure to connect ends its task (pumpportal.rs 18-28, 106-120).
ListenerRecovers == ws # "reading" ~> ws = "reading"

AfterTheTxs == {"top", "accounts", "owners", "supply", "passed"}

JudgedByTxs ==
    /\ settings.enabled /\ Wanted.txs
    /\ step \in AfterTheTxs \/ verdict \in {"txs", "top"}

\* The pages are read while trades go on, yet the count is that of one moment, when
\* the first page was read, up to the cap: nothing is counted twice and nothing
\* skipped between two pages (onchain.rs 466-504).
TxCountIsSnapshot ==
    JudgedByTxs => count = Min({snapshot, PageSize * MaxPages})

Wallets == {a \in TokenAccount : owner[a] = "wallet"}

\* A token that passed had no TopN wallets with more than the limit when its accounts
\* were listed, measured by the supply read last, though tokens moved between the
\* four calls and accounts and owners may have been unreadable: as long as the
\* list had room for the curve, the pools and entries that did not parse besides.
\* An entry that did not parse is itself not counted
\* (onchain.rs 337-438, session.rs 705-724).
WhalesAreCounted ==
    /\ step = "passed" /\ settings.enabled /\ Wanted.top
    /\ Cardinality((TokenAccount \ Wallets) \cup garbled) <= Listed - TopN
    => \A s \in SUBSET (Wallets \ garbled) :
          Cardinality(s) <= TopN => ~TooConcentrated(Total(held, s), supply)
=============================================================================
