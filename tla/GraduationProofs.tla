-------------------------- MODULE GraduationProofs --------------------------
(***************************************************************************)
(* Theorems of graduation mode, for every number of sessions and every     *)
(* value of the limits: types, the slot ledger, the slot cap as an         *)
(* implementation of SlotCap, and the bound on the overshoot of the daily  *)
(* spending cap.  On a reliable chain, one position per token and no       *)
(* phantom one; on one that answers, nothing is left in the wallet         *)
(* unwatched and unannounced; with a cooldown, no buy after the deadline.  *)
(*                                                                         *)
(* The counter open_positions stays a natural number only because it       *)
(* counts the sessions between fetch_add and fetch_sub, and that count is  *)
(* right only because a position is open nowhere but where the code says:  *)
(* types, control and ledger are one inductive invariant, IInv.            *)
(***************************************************************************)
EXTENDS Graduation, TraderProofs, DailySpendProofs, FiniteSetTheorems

\* TypeOK without the counter.
Typed ==
    /\ TraderTypeOK
    /\ spends \in Seq(SpendAge)
    /\ pc \in [Session -> Awaiting \cup Running]
    /\ feed \in [Session -> {"discovering", "polling", "closed"}]
    /\ monitored \in [Session -> 0 .. NoDeadline]
    /\ position \in [Session -> PositionRecord]
    /\ since_sell \in [Session -> 0 .. Cooldown]
    /\ alarm \in SUBSET Mint

\* Where a session may be with an open position, and where it must have one.
Control ==
    \A s \in Session :
        /\ position[s].open => pc[s] \in {"select", "signal", "exit_sell", "last_sell"}
        /\ pc[s] \in {"exit_sell", "last_sell"} => position[s].open

Held == {s \in Session : HoldsSlot(s)}

IInv == Typed /\ Control /\ SlotLedger

USE DEF Session

-----------------------------------------------------------------------------
(* Types. *)

\* The variables of a session but its pc keep their types when they are kept.
LEMMA KeptTypes ==
    ASSUME Typed, NEW s \in Session,
           TraderTypeOK',
           spends' \in Seq(SpendAge),
           \E to \in Awaiting \cup Running : Goto(s, to),
           UNCHANGED sessionData
    PROVE  Typed'
  BY DEF Typed, Goto, sessionData

\* Leaving the select loop starts a sell or ends the session.
LEMMA LeaveLoopTypes ==
    ASSUME Typed, NEW s \in Session, LeaveLoop(s)
    PROVE  TraderTypeOK' /\ \E to \in Awaiting \cup Running : Goto(s, to)
<1>1. CASE Begin(s, "sell") /\ Goto(s, "last_sell")
  BY <1>1, BeginEndTypes DEF Typed, Awaiting
<1>2. CASE Goto(s, "ended") /\ UNCHANGED traderVars
  BY <1>2 DEF Typed, Awaiting, TraderTypeOK, traderVars
<1>. QED
  BY <1>1, <1>2 DEF LeaveLoop

\* Recording a spend or leaving the list alone keeps it a list of ages.
LEMMA RecordSpendType ==
    ASSUME Typed, RecordSpend
    PROVE  spends' \in Seq(SpendAge)
  BY RecordEffect, DailySpendConstants DEF Typed, RecordSpend

\* Every step of a session's start, of its ticks and of its entries keeps types.
LEMMA EntryTypes ==
    ASSUME Typed, NEW s \in Session, Entry(s)
    PROVE  Typed'
<1>. USE KeptTypes
<1>0. spends \in Seq(SpendAge) /\ TraderTypeOK
  BY DEF Typed
<1>1. CASE NoEntry(s)
  BY <1>0, <1>1 DEF NoEntry, Awaiting, TraderTypeOK, traderVars
<1>2. CASE Fires(s)
  <2>1. /\ (IF Capped THEN "cap_check" ELSE "reserve") \in Running
        /\ Goto(s, IF Capped THEN "cap_check" ELSE "reserve")
    BY <1>2 DEF Fires, Running
  <2>. QED
    BY <1>0, <1>2, <2>1 DEF Fires, TraderTypeOK, traderVars
<1>3. CASE CapCheck(s)
  <2>1. spends' \in Seq(SpendAge)
    BY <1>0, <1>3, EvictOldType DEF CapCheck
  <2>2. /\ (IF SpendAllowed THEN "reserve" ELSE "select") \in Awaiting \cup Running
        /\ Goto(s, IF SpendAllowed THEN "reserve" ELSE "select")
    BY <1>3 DEF CapCheck, Running, Awaiting
  <2>. QED
    BY <1>0, <1>3, <2>1, <2>2 DEF CapCheck, TraderTypeOK, traderVars
<1>4. CASE Reserve(s)
  <2>1. TraderTypeOK' /\ \E to \in Awaiting \cup Running : Goto(s, to)
    <3>1. CASE SlotsFull
      BY <1>0, <1>4, <3>1 DEF Reserve, Running, TraderTypeOK, traderVars
    <3>2. CASE ~SlotsFull
      BY <1>0, <1>4, <3>2, BeginEndTypes DEF Reserve, Awaiting
    <3>. QED
      BY <3>1, <3>2
  <2>. QED
    BY <1>0, <1>4, <2>1 DEF Reserve
<1>5. CASE Unreserve(s) \/ DryReleased(s)
  BY <1>0, <1>5 DEF Unreserve, DryReleased, Awaiting, TraderTypeOK, traderVars
<1>6. CASE Bought(s) \/ BoughtDry(s)
  <2>1. TraderTypeOK' /\ spends' \in Seq(SpendAge)
    BY <1>0, <1>6, BeginEndTypes, RecordSpendType DEF Bought, BoughtDry
  <2>. QED
    BY <1>6, <2>1 DEF Bought, BoughtDry, Awaiting, Running
<1>7. CASE BuyFailed(s)
  <2>1. TraderTypeOK'
    BY <1>0, <1>7, BeginEndTypes DEF BuyFailed
  <2>. QED
    BY <1>0, <1>7, <2>1 DEF BuyFailed, Awaiting
<1>8. CASE BalanceRead(s)
  <2>1. wallet[MintOf[s]] \in Nat
    BY <1>0, TraderConstants DEF TraderTypeOK
  <2>2. [position[s] EXCEPT !.open = TRUE, !.lots = wallet[MintOf[s]]]
            \in PositionRecord
    BY <2>1 DEF Typed, PositionRecord
  <2>3. position' \in [Session -> PositionRecord]
    BY <1>8, <2>2 DEF BalanceRead, Typed
  <2>4. pc' \in [Session -> Awaiting \cup Running]
    BY <1>8 DEF BalanceRead, Goto, Typed, Awaiting
  <2>. QED
    BY <1>8, <2>3, <2>4 DEF BalanceRead, Typed, TraderTypeOK, traderVars
<1>9. CASE Orphaned(s)
  <2>1. position' \in [Session -> PositionRecord]
    BY <1>9 DEF Orphaned, Typed, NoPosition, PositionRecord
  <2>2. pc' \in [Session -> Awaiting \cup Running]
    BY <1>9 DEF Orphaned, Goto, Typed, Awaiting
  <2>3. alarm' \in SUBSET Mint
    BY <1>9, TraderConstants DEF Orphaned, Alert, Typed
  <2>. QED
    BY <1>9, <2>1, <2>2, <2>3 DEF Orphaned, Typed, TraderTypeOK, traderVars
<1>. QED
  BY <1>1, <1>2, <1>3, <1>4, <1>5, <1>6, <1>7, <1>8, <1>9 DEF Entry

\* So does every step towards an exit or the end of the session.
LEMMA ExitTypes ==
    ASSUME Typed, NEW s \in Session, Exit(s)
    PROVE  Typed'
<1>. USE KeptTypes
<1>0. spends \in Seq(SpendAge) /\ TraderTypeOK
  BY DEF Typed
<1>1. CASE DeadlineFires(s) \/ FeedEnds(s)
  BY <1>0, <1>1, LeaveLoopTypes DEF DeadlineFires, FeedEnds
<1>2. CASE ExitSellFailed(s)
  <2>1. TraderTypeOK'
    BY <1>0, <1>2, BeginEndTypes DEF ExitSellFailed
  <2>. QED
    BY <1>0, <1>2, <2>1 DEF ExitSellFailed, Running
<1>3. CASE ExitSold(s) \/ LastSold(s)
  <2>1. TraderTypeOK'
    BY <1>0, <1>3, BeginEndTypes DEF ExitSold, LastSold
  <2>. NoPosition \in PositionRecord
    BY DEF NoPosition, PositionRecord
  <2>2. position' \in [Session -> PositionRecord]
    BY <1>3 DEF ExitSold, LastSold, Typed
  <2>3. pc' \in [Session -> Awaiting \cup Running]
    BY <1>3 DEF ExitSold, LastSold, Goto, Typed, Awaiting
  <2>4. alarm' \in SUBSET Mint
    BY <1>3, TraderConstants DEF ExitSold, LastSold, Alert, Typed
  <2>. QED
    BY <1>3, <2>1, <2>2, <2>3, <2>4 DEF ExitSold, LastSold, Typed
<1>4. CASE ExitReleased(s)
  <2>1. since_sell' \in [Session -> 0 .. Cooldown]
    BY <1>4, GraduationConstants DEF ExitReleased, Typed
  <2>2. pc' \in [Session -> Awaiting \cup Running]
    BY <1>4 DEF ExitReleased, Goto, Typed, Running
  <2>. QED
    BY <1>4, <2>1, <2>2 DEF ExitReleased, Typed, TraderTypeOK, traderVars
<1>5. CASE LastReleased(s)
  BY <1>0, <1>5 DEF LastReleased, Awaiting, TraderTypeOK, traderVars
<1>. QED
  BY <1>1, <1>2, <1>3, <1>4, <1>5 DEF Exit

\* So does a price tick.
LEMMA TickTakenTypes ==
    ASSUME Typed, NEW s \in Session, TickTaken(s)
    PROVE  Typed'
<1>. USE KeptTypes
<1>0. spends \in Seq(SpendAge) /\ TraderTypeOK
  BY DEF Typed
<1>1. CASE RuggedTick(s)
  BY <1>0, <1>1, LeaveLoopTypes DEF RuggedTick
<1>2. CASE ExitTick(s)
  <2>1. TraderTypeOK'
    BY <1>0, <1>2, BeginEndTypes DEF ExitTick
  <2>. QED
    BY <1>0, <1>2, <2>1 DEF ExitTick, Awaiting
<1>3. CASE PlainTick(s)
  BY <1>0, <1>3 DEF PlainTick, Running, TraderTypeOK, traderVars
<1>. QED
  BY <1>1, <1>2, <1>3 DEF TickTaken

\* So does the passing of time: every timer stops at its limit.
LEMMA TickTypes ==
    ASSUME Typed, Tick
    PROVE  Typed'
<1>1. spends' \in Seq(SpendAge)
  BY OlderEffect, DailySpendConstants DEF Tick, Typed
<1>2. monitored' \in [Session -> 0 .. NoDeadline]
  <2>1. MaxMonitor \in Nat /\ NoDeadline = MaxMonitor + 1
    BY GraduationConstants DEF NoDeadline
  <2>. QED
    BY <2>1 DEF Tick, Typed, MonitoredOlder, Older
<1>3. since_sell' \in [Session -> 0 .. Cooldown]
  BY GraduationConstants DEF Tick, Typed, SinceSellOlder, Older
<1>4. position' \in [Session -> PositionRecord]
  <2>1. \A s \in Session :
            /\ position[s] \in PositionRecord
            /\ [position[s] EXCEPT !.age = Older(@, MaxHold)] \in PositionRecord
    <3>. TAKE s \in Session
    <3>1. position[s] \in PositionRecord
      BY DEF Typed
    <3>2. Older(position[s].age, MaxHold) \in Nat
      BY <3>1, GraduationConstants DEF Older, PositionRecord
    <3>. QED
      BY <3>1, <3>2 DEF PositionRecord
  <2>. QED
    BY <2>1 DEF Tick, PositionOlder
<1>. QED
  BY <1>1, <1>2, <1>3, <1>4 DEF Tick, Typed, TraderTypeOK, traderVars

\* Every step keeps the types, the counter's aside.
LEMMA TypedStep ==
    ASSUME Typed, [Next]_vars
    PROVE  Typed'
<1>1. CASE UNCHANGED vars
  BY <1>1 DEF Typed, TraderTypeOK, vars, traderVars
<1>2. ASSUME NEW s \in Session,
             Spawn(s) \/ FiltersReject(s) \/ FiltersPass(s)
      PROVE  Typed'
  BY <1>2, KeptTypes DEF Spawn, FiltersReject, FiltersPass, Typed, Awaiting,
     TraderTypeOK, traderVars
<1>3. ASSUME NEW s \in Session, PriceTask(s)
      PROVE  Typed'
  BY <1>3 DEF PriceTask, Typed, TraderTypeOK, traderVars
<1>4. ASSUME TraderTypeOK', SessionUnchanged
      PROVE  Typed'
  BY <1>4 DEF Typed, SessionUnchanged, sessionData
<1>5. ASSUME NEW s \in Session, Trades(s) \/ Settles(s)
      PROVE  Typed'
  BY <1>4, <1>5, CallStepTypes, ChainStepTypes DEF Trades, Settles, Typed
<1>6. CASE StraySettles
  BY <1>4, <1>6, StrayStepTypes DEF StraySettles, Typed
<1>. QED
  BY <1>1, <1>2, <1>3, <1>5, <1>6, EntryTypes, ExitTypes, TickTakenTypes,
     TickTypes DEF Next

-----------------------------------------------------------------------------
(* Control and slots. *)

\* Control for one session.
Placed(s) ==
    /\ position[s].open => pc[s] \in {"select", "signal", "exit_sell", "last_sell"}
    /\ pc[s] \in {"exit_sell", "last_sell"} => position[s].open

\* What a step can do to the slots: nothing, ...
SlotsKept ==
    open_positions' = open_positions /\ Held' = Held /\ SlotHolders' = SlotHolders

\* ... or count a session that found no slot free, ...
Overflows(s) ==
    /\ s \in Session \ Held
    /\ open_positions' = open_positions + 1
    /\ Held' = Held \cup {s} /\ SlotHolders' = SlotHolders

\* ... or give a free slot to a session, ...
Reserves(s) ==
    /\ s \in Session \ Held
    /\ open_positions < MaxPositions
    /\ open_positions' = open_positions + 1
    /\ Held' = Held \cup {s} /\ SlotHolders' = SlotHolders \cup {s}

\* ... or take back the count of a session that found none, ...
Withdraws(s) ==
    /\ s \in Held
    /\ open_positions' = open_positions - 1
    /\ Held' = Held \ {s} /\ SlotHolders' = SlotHolders

\* ... or free a slot.
Frees(s) ==
    /\ s \in SlotHolders
    /\ open_positions' = open_positions - 1
    /\ Held' = Held \ {s} /\ SlotHolders' = SlotHolders \ {s}

SlotEffect ==
    \/ SlotsKept
    \/ \E s \in Session : Overflows(s) \/ Reserves(s) \/ Withdraws(s) \/ Frees(s)

\* Only session s moves.
OnlyMoves(s) ==
    \A r \in Session \ {s} :
        pc'[r] = pc[r] /\ position'[r].open = position[r].open

\* A step of one session changes the sets of holders in that session only.
LEMMA OneSession ==
    ASSUME Control, NEW s \in Session, OnlyMoves(s), Placed(s)'
    PROVE  /\ Control'
           /\ Held' = IF HoldsSlot(s)' THEN Held \cup {s} ELSE Held \ {s}
           /\ SlotHolders' = IF HoldsSlot(s)' /\ pc'[s] # "unreserve"
                               THEN SlotHolders \cup {s} ELSE SlotHolders \ {s}
<1>1. \A r \in Session \ {s} :
          (HoldsSlot(r)' <=> HoldsSlot(r)) /\ pc'[r] = pc[r]
  BY DEF OnlyMoves, HoldsSlot
<1>2. \A r \in Session \ {s} : Placed(r)'
  BY DEF OnlyMoves, Control, Placed
<1>3. Control'
  BY <1>2 DEF Control, Placed
<1>4. Held' = IF HoldsSlot(s)' THEN Held \cup {s} ELSE Held \ {s}
  <2>1. \A r \in Session : r \in Held' <=> HoldsSlot(r)'
    BY DEF Held
  <2>2. \A r \in Session : r \in Held <=> HoldsSlot(r)
    BY DEF Held
  <2>3. Held \subseteq Session /\ Held' \subseteq Session
    BY DEF Held
  <2>. QED
    BY <1>1, <2>1, <2>2, <2>3
<1>5. SlotHolders' = IF HoldsSlot(s)' /\ pc'[s] # "unreserve"
                      THEN SlotHolders \cup {s} ELSE SlotHolders \ {s}
  <2>1. \A r \in Session : r \in SlotHolders' <=> HoldsSlot(r)' /\ pc'[r] # "unreserve"
    BY DEF SlotHolders
  <2>2. \A r \in Session : r \in SlotHolders <=> HoldsSlot(r) /\ pc[r] # "unreserve"
    BY DEF SlotHolders
  <2>3. SlotHolders \subseteq Session /\ SlotHolders' \subseteq Session
    BY DEF SlotHolders
  <2>. QED
    BY <1>1, <2>1, <2>2, <2>3
<1>. QED
  BY <1>3, <1>4, <1>5

\* A step that moves session s without counting it in or out keeps the slots.
LEMMA MoveKeepsSlots ==
    ASSUME Control, NEW s \in Session, OnlyMoves(s), Placed(s)',
           open_positions' = open_positions,
           HoldsSlot(s)' <=> HoldsSlot(s),
           pc[s] # "unreserve", pc'[s] # "unreserve"
    PROVE  Control' /\ SlotEffect
<1>1. Held' = Held
  BY OneSession DEF Held
<1>2. SlotHolders' = SlotHolders
  BY OneSession DEF SlotHolders
<1>. QED
  BY <1>1, <1>2, OneSession DEF SlotEffect, SlotsKept

\* A step in which session s gives its slot back.
LEMMA MoveFreesSlot ==
    ASSUME Control, NEW s \in Session, OnlyMoves(s), Placed(s)',
           open_positions' = open_positions - 1,
           HoldsSlot(s), ~HoldsSlot(s)', pc[s] # "unreserve"
    PROVE  Control' /\ SlotEffect
<1>1. s \in SlotHolders
  BY DEF SlotHolders
<1>2. Frees(s)
  BY <1>1, OneSession DEF Frees
<1>. QED
  BY <1>2, OneSession DEF SlotEffect

\* A step that changes no pc, no counter and no position's being open.
LEMMA StillKeepsSlots ==
    ASSUME Control, open_positions' = open_positions, pc' = pc,
           \A r \in Session : position'[r].open = position[r].open
    PROVE  Control' /\ SlotEffect
<1>1. \A r \in Session : HoldsSlot(r)' <=> HoldsSlot(r)
  BY DEF HoldsSlot
<1>2. Held' = Held /\ SlotHolders' = SlotHolders
  BY <1>1 DEF Held, SlotHolders
<1>. QED
  BY <1>2 DEF Control, SlotEffect, SlotsKept

\* Where a session goes is where its pc then is, and it alone moves.
LEMMA GotoMoves ==
    ASSUME Typed, NEW s \in Session, NEW to, Goto(s, to),
           \/ position' = position
           \/ \E q : position' = [position EXCEPT ![s] = q]
    PROVE  pc'[s] = to /\ OnlyMoves(s)
  BY DEF Typed, Goto, OnlyMoves

\* The entry path counts a session in once and out once.
LEMMA EntrySlots ==
    ASSUME Typed, Control, open_positions \in Nat, NEW s \in Session, Entry(s)
    PROVE  Control' /\ SlotEffect
<1>. Placed(s)
  BY DEF Control, Placed
<1>1. CASE NoEntry(s) \/ Fires(s) \/ CapCheck(s)
  <2>1. PICK to \in {"select", "cap_check", "reserve"} : Goto(s, to)
    BY <1>1 DEF NoEntry, Fires, CapCheck
  <2>2. /\ pc[s] \in {"signal", "cap_check"}
        /\ pc[s] = "cap_check" => ~position[s].open
        /\ to # "select" => ~position[s].open
        /\ position' = position /\ open_positions' = open_positions
    BY <1>1, <2>1, GotoMoves DEF NoEntry, Fires, CapCheck, MayBuy, sessionData, Placed
  <2>3. pc'[s] = to /\ OnlyMoves(s)
    BY <2>1, <2>2, GotoMoves
  <2>4. Placed(s)' /\ (HoldsSlot(s)' <=> HoldsSlot(s))
    BY <2>2, <2>3 DEF Placed, HoldsSlot
  <2>. QED
    BY <2>2, <2>3, <2>4, MoveKeepsSlots
<1>2. CASE Reserve(s)
  <2>1. PICK to \in {"unreserve", "buy"} :
            Goto(s, to) /\ (to = "buy" => open_positions < MaxPositions)
    <3>1. CASE SlotsFull
      BY <1>2, <3>1 DEF Reserve
    <3>2. CASE ~SlotsFull /\ Goto(s, "buy")
      <4>1. CASE open_positions < MaxPositions
        BY <3>2, <4>1
      <4>2. CASE ~(open_positions < MaxPositions)
        BY <3>2, <4>2, GraduationConstants DEF SlotsFull
      <4>. QED
        BY <4>1, <4>2
    <3>. QED
      BY <1>2, <3>1, <3>2 DEF Reserve
  <2>2. /\ pc[s] = "reserve" /\ ~position[s].open
        /\ position' = position /\ open_positions' = open_positions + 1
    BY <1>2 DEF Reserve, TakeSlot, sessionData, Placed
  <2>3. pc'[s] = to /\ OnlyMoves(s)
    BY <2>1, <2>2, GotoMoves
  <2>4. Placed(s)' /\ HoldsSlot(s)' /\ ~HoldsSlot(s)
    BY <2>2, <2>3 DEF Placed, HoldsSlot
  <2>5. s \notin Held /\ s \notin SlotHolders
    BY <2>4 DEF Held, SlotHolders
  <2>6. CASE to = "unreserve"
    <3>1. Overflows(s)
      BY <2>2, <2>3, <2>4, <2>5, <2>6, OneSession DEF Overflows, SlotHolders
    <3>. QED
      BY <2>3, <2>4, <3>1, OneSession DEF SlotEffect
  <2>7. CASE to = "buy"
    <3>1. Reserves(s)
      BY <2>1, <2>2, <2>3, <2>4, <2>5, <2>7, OneSession DEF Reserves
    <3>. QED
      BY <2>3, <2>4, <3>1, OneSession DEF SlotEffect
  <2>. QED
    BY <2>6, <2>7
<1>3. CASE Unreserve(s)
  <2>1. /\ pc[s] = "unreserve" /\ Goto(s, "select") /\ ~position[s].open
        /\ position' = position /\ open_positions' = open_positions - 1
    BY <1>3 DEF Unreserve, FreeSlot, sessionData, Placed
  <2>2. pc'[s] = "select" /\ OnlyMoves(s)
    BY <2>1, GotoMoves
  <2>3. Placed(s)' /\ ~HoldsSlot(s)' /\ HoldsSlot(s)
    BY <2>1, <2>2 DEF Placed, HoldsSlot
  <2>4. s \in Held /\ s \notin SlotHolders
    BY <2>1, <2>3 DEF Held, SlotHolders
  <2>5. Withdraws(s)
    BY <2>1, <2>2, <2>3, <2>4, OneSession DEF Withdraws, SlotHolders
  <2>. QED
    BY <2>2, <2>3, <2>5, OneSession DEF SlotEffect
<1>4. CASE Bought(s) \/ BoughtDry(s)
  <2>1. PICK to \in {"balance", "release"} : Goto(s, to)
    BY <1>4 DEF Bought, BoughtDry
  <2>2. /\ pc[s] = "buy" /\ ~position[s].open
        /\ position' = position /\ open_positions' = open_positions
    BY <1>4 DEF Bought, BoughtDry, sessionData, Placed
  <2>3. pc'[s] = to /\ OnlyMoves(s)
    BY <2>1, <2>2, GotoMoves
  <2>4. Placed(s)' /\ (HoldsSlot(s)' <=> HoldsSlot(s))
    BY <2>2, <2>3 DEF Placed, HoldsSlot
  <2>. QED
    BY <2>2, <2>3, <2>4, MoveKeepsSlots
<1>5. CASE DryReleased(s) \/ BuyFailed(s) \/ Orphaned(s)
  <2>1. /\ pc[s] \in {"release", "buy", "balance"} /\ Goto(s, "select")
        /\ open_positions' = open_positions - 1
        /\ position' = position \/ position' = [position EXCEPT ![s] = NoPosition]
    BY <1>5 DEF DryReleased, BuyFailed, Orphaned, FreeSlot, sessionData
  <2>2. pc'[s] = "select" /\ OnlyMoves(s)
    BY <2>1, GotoMoves
  <2>3. ~position'[s].open
    BY <2>1 DEF Placed, Typed, NoPosition
  <2>4. Placed(s)' /\ ~HoldsSlot(s)' /\ HoldsSlot(s)
    BY <2>1, <2>2, <2>3 DEF Placed, HoldsSlot
  <2>. QED
    BY <2>1, <2>2, <2>4, MoveFreesSlot
<1>6. CASE BalanceRead(s)
  <2>1. /\ pc[s] = "balance" /\ Goto(s, "select")
        /\ open_positions' = open_positions
        /\ position' = [position EXCEPT ![s] =
               [position[s] EXCEPT !.open = TRUE, !.lots = wallet[MintOf[s]]]]
    BY <1>6 DEF BalanceRead, Typed
  <2>2. pc'[s] = "select" /\ OnlyMoves(s)
    BY <2>1, GotoMoves
  <2>3. position'[s].open
    BY <2>1 DEF Typed, PositionRecord
  <2>4. Placed(s)' /\ (HoldsSlot(s)' <=> HoldsSlot(s))
    BY <2>1, <2>2, <2>3 DEF Placed, HoldsSlot
  <2>. QED
    BY <2>1, <2>2, <2>4, MoveKeepsSlots
<1>. QED
  BY <1>1, <1>2, <1>3, <1>4, <1>5, <1>6 DEF Entry

\* Leaving the select loop: with a position open the slot is kept for its sale.
LEMMA LeaveLoopSlots ==
    ASSUME Typed, Control, NEW s \in Session, pc[s] = "select", LeaveLoop(s),
           position' = position, open_positions' = open_positions
    PROVE  Control' /\ SlotEffect
<1>1. PICK to \in {"last_sell", "ended"} :
          Goto(s, to) /\ (to = "last_sell" <=> position[s].open)
  BY DEF LeaveLoop
<1>2. pc'[s] = to /\ OnlyMoves(s)
  BY <1>1, GotoMoves
<1>3. Placed(s)' /\ (HoldsSlot(s)' <=> HoldsSlot(s))
  BY <1>1, <1>2 DEF Placed, HoldsSlot
<1>. QED
  BY <1>1, <1>2, <1>3, MoveKeepsSlots

\* The way out gives the slot back once.
LEMMA ExitSlots ==
    ASSUME Typed, Control, NEW s \in Session, Exit(s)
    PROVE  Control' /\ SlotEffect
<1>. Placed(s)
  BY DEF Control, Placed
<1>1. CASE DeadlineFires(s) \/ FeedEnds(s)
  BY <1>1, LeaveLoopSlots DEF DeadlineFires, FeedEnds, sessionData
<1>2. CASE ExitSold(s) \/ LastSold(s)
  <2>1. PICK to \in {"exit_release", "last_release"} : Goto(s, to)
    BY <1>2 DEF ExitSold, LastSold
  <2>2. /\ pc[s] \in {"exit_sell", "last_sell"}
        /\ position' = [position EXCEPT ![s] = NoPosition]
        /\ open_positions' = open_positions
    BY <1>2 DEF ExitSold, LastSold
  <2>3. pc'[s] = to /\ OnlyMoves(s)
    BY <2>1, <2>2, GotoMoves
  <2>4. ~position'[s].open
    BY <2>2 DEF Typed, NoPosition
  <2>5. Placed(s)' /\ HoldsSlot(s)' /\ HoldsSlot(s)
    BY <2>2, <2>3, <2>4 DEF Placed, HoldsSlot
  <2>. QED
    BY <2>2, <2>3, <2>5, MoveKeepsSlots
<1>3. CASE ExitSellFailed(s)
  <2>1. /\ pc[s] = "exit_sell" /\ Goto(s, "signal") /\ position[s].open
        /\ position' = position /\ open_positions' = open_positions
    BY <1>3 DEF ExitSellFailed, sessionData, Placed
  <2>2. pc'[s] = "signal" /\ OnlyMoves(s)
    BY <2>1, GotoMoves
  <2>3. Placed(s)' /\ HoldsSlot(s)' /\ HoldsSlot(s)
    BY <2>1, <2>2 DEF Placed, HoldsSlot
  <2>. QED
    BY <2>1, <2>2, <2>3, MoveKeepsSlots
<1>4. CASE ExitReleased(s) \/ LastReleased(s)
  <2>1. PICK to \in {"signal", "ended"} : Goto(s, to)
    BY <1>4 DEF ExitReleased, LastReleased
  <2>2. /\ pc[s] \in {"exit_release", "last_release"} /\ ~position[s].open
        /\ position' = position /\ open_positions' = open_positions - 1
    BY <1>4 DEF ExitReleased, LastReleased, FreeSlot, sessionData, Placed
  <2>3. pc'[s] = to /\ OnlyMoves(s)
    BY <2>1, <2>2, GotoMoves
  <2>4. Placed(s)' /\ ~HoldsSlot(s)' /\ HoldsSlot(s)
    BY <2>2, <2>3 DEF Placed, HoldsSlot
  <2>. QED
    BY <2>2, <2>3, <2>4, MoveFreesSlot
<1>. QED
  BY <1>1, <1>2, <1>3, <1>4 DEF Exit

\* A price tick takes no slot and gives none back.
LEMMA TickTakenSlots ==
    ASSUME Typed, Control, NEW s \in Session, TickTaken(s)
    PROVE  Control' /\ SlotEffect
<1>. Placed(s)
  BY DEF Control, Placed
<1>1. CASE RuggedTick(s)
  BY <1>1, LeaveLoopSlots DEF RuggedTick, TickArrives, sessionData
<1>2. CASE ExitTick(s) \/ PlainTick(s)
  <2>1. PICK to \in {"exit_sell", "signal"} :
            Goto(s, to) /\ (to = "exit_sell" => position[s].open)
    BY <1>2 DEF ExitTick, PlainTick
  <2>2. /\ pc[s] = "select"
        /\ position' = position /\ open_positions' = open_positions
    BY <1>2 DEF ExitTick, PlainTick, TickArrives, sessionData
  <2>3. pc'[s] = to /\ OnlyMoves(s)
    BY <2>1, <2>2, GotoMoves
  <2>4. Placed(s)' /\ (HoldsSlot(s)' <=> HoldsSlot(s))
    BY <2>1, <2>2, <2>3 DEF Placed, HoldsSlot
  <2>. QED
    BY <2>2, <2>3, <2>4, MoveKeepsSlots
<1>. QED
  BY <1>1, <1>2 DEF TickTaken

\* Neither the passing of time nor the chain touches the slots.
LEMMA NextSlots ==
    ASSUME Typed, Control, open_positions \in Nat, [Next]_vars
    PROVE  Control' /\ SlotEffect
<1>1. CASE UNCHANGED vars
  BY <1>1, StillKeepsSlots DEF vars
<1>2. ASSUME NEW s \in Session,
             Spawn(s) \/ FiltersReject(s) \/ FiltersPass(s)
      PROVE  Control' /\ SlotEffect
  <2>1. PICK to \in {"filters", "ended", "select"} : Goto(s, to)
    BY <1>2 DEF Spawn, FiltersReject, FiltersPass
  <2>2. /\ pc[s] \in {"idle", "filters"}
        /\ position' = position /\ open_positions' = open_positions
    BY <1>2 DEF Spawn, FiltersReject, FiltersPass, sessionData
  <2>3. pc'[s] = to /\ OnlyMoves(s)
    BY <2>1, <2>2, GotoMoves
  <2>4. ~position[s].open
    BY <2>2 DEF Control
  <2>5. Placed(s)' /\ (HoldsSlot(s)' <=> HoldsSlot(s))
    BY <2>2, <2>3, <2>4 DEF Placed, HoldsSlot
  <2>. QED
    BY <2>2, <2>3, <2>5, MoveKeepsSlots
<1>3. ASSUME NEW s \in Session, PriceTask(s) \/ Trades(s) \/ Settles(s)
      PROVE  Control' /\ SlotEffect
  BY <1>3, StillKeepsSlots DEF PriceTask, Trades, Settles, SessionUnchanged, sessionData
<1>4. CASE StraySettles
  BY <1>4, StillKeepsSlots DEF StraySettles, SessionUnchanged, sessionData
<1>5. CASE Tick
  <2>1. \A s \in Session : position'[s].open = position[s].open
    BY <1>5 DEF Tick, PositionOlder, Typed, PositionRecord
  <2>. QED
    BY <1>5, <2>1, StillKeepsSlots DEF Tick
<1>. QED
  BY <1>1, <1>2, <1>3, <1>4, <1>5, EntrySlots, ExitSlots, TickTakenSlots DEF Next

-----------------------------------------------------------------------------
(* The inductive invariant and the theorems. *)

\* The set of counted sessions is finite, whatever sessions there are.
LEMMA HeldFinite == IsFiniteSet(Held) /\ IsFiniteSet(Held')
<1>1. Held \subseteq Session /\ Held' \subseteq Session
  BY DEF Held
<1>. QED
  BY <1>1, FS_Subset, TraderConstants

\* Counting the sessions in and out keeps the counter equal to their number.
LEMMA LedgerStep ==
    ASSUME SlotLedger, SlotEffect
    PROVE  SlotLedger'
<1>1. Cardinality(Held) \in Nat /\ open_positions = Cardinality(Held)
  BY HeldFinite, FS_CardinalityType DEF SlotLedger, Held
<1>2. open_positions' = Cardinality(Held')
  <2>1. CASE SlotsKept
    BY <1>1, <2>1 DEF SlotsKept
  <2>2. ASSUME NEW s \in Session, Overflows(s) \/ Reserves(s)
        PROVE  open_positions' = Cardinality(Held')
    BY <1>1, <2>2, HeldFinite, FS_AddElement DEF Overflows, Reserves
  <2>3. ASSUME NEW s \in Session, Withdraws(s) \/ Frees(s)
        PROVE  open_positions' = Cardinality(Held')
    <3>1. s \in Held
      BY <2>3 DEF Withdraws, Frees, SlotHolders, Held
    <3>2. Cardinality(Held \ {s}) = Cardinality(Held) - 1
      BY <3>1, HeldFinite, FS_RemoveElement
    <3>. QED
      BY <1>1, <2>3, <3>2 DEF Withdraws, Frees
  <2>. QED
    BY <2>1, <2>2, <2>3 DEF SlotEffect
<1>. QED
  BY <1>2 DEF SlotLedger, Held

\* The counter counts, so it is a natural number: fetch_sub never underflows.
LEMMA CounterIsNatural ==
    ASSUME SlotLedger
    PROVE  open_positions \in Nat
  BY HeldFinite, FS_CardinalityType DEF SlotLedger, Held

\* A fresh process satisfies it.
LEMMA InitIInv == Init => IInv
<1>. SUFFICES ASSUME Init PROVE IInv
  OBVIOUS
<1>1. Typed
  <2>1. TraderTypeOK
    BY TraderInitTypes DEF Init
  <2>. QED
    BY <2>1, GraduationConstants DEF Init, Typed, Awaiting, NoDeadline, NoPosition,
       PositionRecord
<1>2. Control
  BY DEF Init, Control, NoPosition
<1>3. SlotLedger
  <2>1. {s \in Session : HoldsSlot(s)} = {}
    BY DEF Init, HoldsSlot, NoPosition
  <2>. QED
    BY <2>1, FS_EmptySet DEF Init, SlotLedger
<1>. QED
  BY <1>1, <1>2, <1>3 DEF IInv

\* Every step keeps it.
LEMMA NextIInv == IInv /\ [Next]_vars => IInv'
<1>. SUFFICES ASSUME IInv, [Next]_vars PROVE IInv'
  OBVIOUS
<1>1. Typed' /\ Control' /\ SlotEffect
  BY CounterIsNatural, TypedStep, NextSlots DEF IInv
<1>. QED
  BY <1>1, LedgerStep DEF IInv

\* IInv is an invariant of every graduation run.
THEOREM GraduationInvariant == Safety => []IInv
  BY InitIInv, NextIInv, PTL DEF Safety

\* Every variable keeps its type: in particular the usize open_positions is
\* never taken below zero by a fetch_sub.
THEOREM GraduationTypes == Safety => []TypeOK
<1>1. IInv => TypeOK
  BY CounterIsNatural DEF IInv, Typed, TypeOK
<1>. QED
  BY <1>1, GraduationInvariant, PTL

\* The counter is the number of sessions between fetch_add and fetch_sub.
THEOREM GraduationSlotLedger == Safety => []SlotLedger
<1>1. IInv => SlotLedger
  BY DEF IInv
<1>. QED
  BY <1>1, GraduationInvariant, PTL

\* A step that gets a slot found less than max_positions counted, and the
\* sessions past the reservation are among the counted ones.
LEMMA SlotCapStep ==
    ASSUME IInv, [Next]_vars
    PROVE  [Slots!Next]_SlotHolders
<1>1. SlotEffect
  BY CounterIsNatural, NextSlots DEF IInv
<1>2. Cardinality(SlotHolders) <= open_positions /\ Cardinality(SlotHolders) \in Nat
  <2>1. SlotHolders \subseteq Held
    BY DEF SlotHolders, Held
  <2>2. IsFiniteSet(SlotHolders) /\ Cardinality(SlotHolders) <= Cardinality(Held)
    BY <2>1, HeldFinite, FS_Subset
  <2>. QED
    BY <2>2, FS_CardinalityType DEF IInv, SlotLedger, Held
<1>3. ASSUME NEW s \in Session, Reserves(s)
      PROVE  Slots!Acquire(s)
  <2>1. s \notin SlotHolders
    BY <1>3 DEF Reserves, SlotHolders, Held
  <2>2. Cardinality(SlotHolders) < MaxPositions
    BY <1>2, <1>3, CounterIsNatural, GraduationConstants DEF Reserves, IInv
  <2>3. Slots!Cardinality(SlotHolders) = Cardinality(SlotHolders)
    BY DEF Slots!Cardinality, Cardinality
  <2>. QED
    BY <1>3, <2>1, <2>2, <2>3 DEF Reserves, Slots!Acquire
<1>4. ASSUME NEW s \in Session, Frees(s)
      PROVE  Slots!Release(s)
  BY <1>4 DEF Frees, Slots!Release
<1>5. ASSUME NEW s \in Session, Overflows(s) \/ Withdraws(s)
      PROVE  SlotHolders' = SlotHolders
  BY <1>5 DEF Overflows, Withdraws
<1>. QED
  BY <1>1, <1>3, <1>4, <1>5 DEF SlotEffect, SlotsKept, Slots!Next

\* Graduation mode implements the slot cap: a session gets past its reservation
\* only when fewer than max_positions others are past theirs, whatever the
\* interleaving of fetch_add, comparison and fetch_sub.
THEOREM GraduationIsSlotCap == Safety => IsSlotCap
<1>1. Init => Slots!Init
  BY DEF Init, SlotHolders, HoldsSlot, NoPosition, Slots!Init
<1>2. IInv /\ [Next]_vars => [Slots!Next]_SlotHolders
  BY SlotCapStep
<1>. QED
  BY <1>1, <1>2, GraduationInvariant, PTL DEF Safety, IsSlotCap, Slots!Spec

-----------------------------------------------------------------------------
(* The daily spending cap. *)

\* The sessions between the check of the cap and the recording of their spend.
Buyers == {s \in Session : pc[s] \in {"reserve", "buy"}}

\* There are finitely many of them, at most all sessions.
LEMMA BuyersFinite ==
    /\ IsFiniteSet(Buyers) /\ IsFiniteSet(Buyers')
    /\ Cardinality(Buyers) \in Nat /\ Cardinality(Buyers') \in Nat
    /\ Cardinality(Buyers') <= Cardinality(Session)
    /\ Cardinality(Session) \in Nat \ {0}
<1>1. Buyers \subseteq Session /\ Buyers' \subseteq Session
  BY DEF Buyers
<1>. QED
  BY <1>1, FS_Subset, FS_CardinalityType, FS_EmptySet, TraderConstants

\* A session that goes somewhere else but to its buy adds no buyer.
LEMMA NoNewBuyer ==
    ASSUME Typed, NEW s \in Session, NEW to, to \notin {"reserve", "buy"},
           Goto(s, to)
    PROVE  /\ Buyers' = Buyers \ {s}
           /\ Cardinality(Buyers') <= Cardinality(Buyers)
           /\ pc[s] \in {"reserve", "buy"} =>
                  Cardinality(Buyers') = Cardinality(Buyers) - 1
<1>1. Buyers' = Buyers \ {s}
  BY DEF Buyers, Goto, Typed
<1>2. Cardinality(Buyers') <= Cardinality(Buyers)
  <2>1. Buyers' \subseteq Buyers
    BY <1>1
  <2>. QED
    BY <2>1, BuyersFinite, FS_Subset
<1>3. pc[s] \in {"reserve", "buy"} => Cardinality(Buyers') = Cardinality(Buyers) - 1
  <2>1. pc[s] \in {"reserve", "buy"} => s \in Buyers
    BY DEF Buyers
  <2>. QED
    BY <1>1, <2>1, BuyersFinite, FS_RemoveElement
<1>. QED
  BY <1>1, <1>2, <1>3

\* What the cap allows: with SpendOvershootBounded a sum of numbers.
SpendSum == Len(spends) + Cardinality(Buyers) < CapTrades + Cardinality(Session)

\* Neither the spends nor the sessions about to spend grow in number.
LEMMA NoMoreSpend ==
    ASSUME SpendSum, spends \in Seq(SpendAge),
           Len(spends') \in Nat, Len(spends') <= Len(spends),
           Cardinality(Buyers') <= Cardinality(Buyers)
    PROVE  SpendSum'
<1>1. Len(spends) \in Nat
  BY LenProperties
<1>2. Cardinality(Session)' = Cardinality(Session) /\ CapTrades' = CapTrades
  OBVIOUS
<1>. QED
  BY <1>1, <1>2, BuyersFinite, DailySpendConstants DEF SpendSum

\* One spend more, and one session less that is about to spend.
LEMMA SpendMoves ==
    ASSUME SpendSum, spends \in Seq(SpendAge),
           Len(spends') \in Nat, Len(spends') <= Len(spends) + 1,
           Cardinality(Buyers') = Cardinality(Buyers) - 1
    PROVE  SpendSum'
<1>1. Len(spends) \in Nat
  BY LenProperties
<1>. QED
  BY <1>1, BuyersFinite, DailySpendConstants DEF SpendSum

\* The steps of the entry path, where the check and the recording are.
LEMMA EntrySpends ==
    ASSUME Typed, Capped, SpendSum, NEW s \in Session, Entry(s)
    PROVE  SpendSum'
<1>0. spends \in Seq(SpendAge) /\ Len(spends) \in Nat
  BY LenProperties DEF Typed
<1>1. CASE Fires(s)
  <2>1. Goto(s, "cap_check") /\ spends' = spends
    BY <1>1 DEF Fires
  <2>. QED
    BY <1>0, <2>1, NoNewBuyer, NoMoreSpend
<1>2. CASE CapCheck(s)
  <2>1. spends' = EvictOld(spends) /\ Len(spends') \in Nat
        /\ Len(spends') <= Len(spends)
    BY <1>0, <1>2, EvictOldType DEF CapCheck
  <2>2. CASE SpendAllowed
    \* The spends leave room for one more, and the buyers are sessions.
    <3>1. Len(spends') + 1 <= CapTrades
      <4>1. ~(Len(spends') + 1 > CapTrades)
        BY <2>1, <2>2 DEF SpendAllowed, Breaches
      <4>. QED
        BY <2>1, <4>1, DailySpendConstants
    <3>. QED
      BY <2>1, <3>1, BuyersFinite, DailySpendConstants DEF SpendSum
  <2>3. CASE ~SpendAllowed
    <3>1. Goto(s, "select")
      BY <1>2, <2>3 DEF CapCheck
    <3>. QED
      BY <1>0, <2>1, <3>1, NoNewBuyer, NoMoreSpend
  <2>. QED
    BY <2>2, <2>3
<1>3. CASE Reserve(s)
  <2>1. spends' = spends
    BY <1>3 DEF Reserve
  <2>2. CASE SlotsFull /\ Goto(s, "unreserve")
    BY <1>0, <2>1, <2>2, NoNewBuyer, NoMoreSpend
  <2>3. CASE Goto(s, "buy")
    <3>1. pc[s] = "reserve" /\ Buyers' = Buyers
      BY <1>3, <2>3 DEF Reserve, Goto, Typed, Buyers
    <3>. QED
      BY <1>0, <2>1, <3>1, BuyersFinite, NoMoreSpend
  <2>. QED
    BY <1>3, <2>2, <2>3 DEF Reserve
<1>4. CASE Bought(s) \/ BoughtDry(s)
  <2>1. pc[s] = "buy" /\ Record
    BY <1>4 DEF Bought, BoughtDry, RecordSpend
  <2>2. Len(spends') \in Nat /\ Len(spends') <= Len(spends) + 1
    BY <1>0, <2>1, RecordEffect, DailySpendConstants
  <2>3. PICK to \in {"balance", "release"} : Goto(s, to)
    BY <1>4 DEF Bought, BoughtDry
  <2>4. Cardinality(Buyers') = Cardinality(Buyers) - 1
    BY <2>1, <2>3, NoNewBuyer
  <2>. QED
    BY <1>0, <2>2, <2>4, SpendMoves
<1>5. CASE NoEntry(s) \/ Unreserve(s) \/ DryReleased(s) \/ BuyFailed(s)
           \/ BalanceRead(s) \/ Orphaned(s)
  <2>1. Goto(s, "select") /\ spends' = spends
    BY <1>5 DEF NoEntry, Unreserve, DryReleased, BuyFailed, BalanceRead, Orphaned
  <2>. QED
    BY <1>0, <2>1, NoNewBuyer, NoMoreSpend
<1>. QED
  BY <1>1, <1>2, <1>3, <1>4, <1>5 DEF Entry

\* Every other step leaves the sum alone or lowers it.
LEMMA SpendSumStep ==
    ASSUME Typed, Capped, SpendSum, [Next]_vars
    PROVE  SpendSum'
<1>0. spends \in Seq(SpendAge) /\ Len(spends) \in Nat
  BY LenProperties DEF Typed
<1>1. ASSUME spends' = spends, pc' = pc
      PROVE  SpendSum'
  BY <1>1 DEF SpendSum, Buyers
<1>2. ASSUME NEW s \in Session, spends' = spends,
             NEW to, to \notin {"reserve", "buy"}, Goto(s, to)
      PROVE  SpendSum'
  BY <1>0, <1>2, NoNewBuyer, NoMoreSpend
<1>3. CASE UNCHANGED vars
  BY <1>1, <1>3 DEF vars
<1>4. CASE StraySettles
  BY <1>1, <1>4 DEF StraySettles, SessionUnchanged
<1>5. CASE Tick
  <2>1. pc' = pc /\ Len(spends') = Len(spends)
    BY <1>0, <1>5, OlderEffect, DailySpendConstants DEF Tick
  <2>. QED
    BY <2>1 DEF SpendSum, Buyers
<1>6. ASSUME NEW s \in Session,
             \/ PriceTask(s) \/ Trades(s) \/ Settles(s)
      PROVE  SpendSum'
  BY <1>1, <1>6 DEF PriceTask, Trades, Settles, SessionUnchanged
<1>7. ASSUME NEW s \in Session,
             Spawn(s) \/ FiltersReject(s) \/ FiltersPass(s) \/ TickTaken(s) \/ Exit(s)
      PROVE  SpendSum'
  <2>1. spends' = spends
    BY <1>7 DEF Spawn, FiltersReject, FiltersPass, TickTaken, RuggedTick, ExitTick,
       PlainTick, Exit, DeadlineFires, FeedEnds, ExitSold, ExitReleased,
       ExitSellFailed, LastSold, LastReleased
  <2>2. \E to \in {"filters", "ended", "select", "last_sell", "exit_sell",
                  "signal", "exit_release", "last_release"} : Goto(s, to)
    BY <1>7 DEF Spawn, FiltersReject, FiltersPass, TickTaken, RuggedTick, ExitTick,
       PlainTick, Exit, DeadlineFires, FeedEnds, ExitSold, ExitReleased,
       ExitSellFailed, LastSold, LastReleased, LeaveLoop
  <2>. QED
    BY <1>2, <2>1, <2>2
<1>. QED
  BY <1>3, <1>4, <1>5, <1>6, <1>7, EntrySpends DEF Next

\* The daily cap is overshot by fewer trades than there are sessions: each of
\* the others may have passed the check before the spends it did not see were
\* recorded, and none twice.
THEOREM GraduationSpendBound == Safety => []SpendOvershootBounded
<1>. DEFINE Bound == Capped => SpendSum
<1>1. Init => Bound
  <2>. SUFFICES ASSUME Init PROVE SpendSum
    OBVIOUS
  <2>1. Buyers = {} /\ Len(spends) = 0
    BY DEF Init, Buyers
  <2>. QED
    BY <2>1, FS_EmptySet, BuyersFinite, DailySpendConstants DEF SpendSum
<1>2. IInv /\ Bound /\ [Next]_vars => Bound'
  <2>. SUFFICES ASSUME IInv, Bound, [Next]_vars, Capped PROVE SpendSum'
    BY DEF Capped
  <2>. QED
    BY SpendSumStep DEF IInv
<1>3. Bound => SpendOvershootBounded
  BY DEF SpendSum, Buyers, SpendOvershootBounded
<1>. HIDE DEF Bound
<1>. QED
  BY <1>1, <1>2, <1>3, GraduationInvariant, PTL DEF Safety

-----------------------------------------------------------------------------
(* The books of the positions: with a chain that answers, balance reads that *)
(* succeed and a token for every session, where a session is says what its   *)
(* wallet holds.                                                             *)

Reliable == ~Lossy /\ ~BlindReads /\ OwnTokens

\* The lots of the session's token, while no call of it is under way.
Watched(s) == position[s].open \/ pc[s] = "balance"

Over(s) == pc[s] \in {"last_release", "ended"}

Books(s) ==
    /\ pc[s] = "buy" => OneLot(s) /\ call[s].op = "buy"
    /\ pc[s] \in {"exit_sell", "last_sell"} => OneLot(s) /\ call[s].op = "sell"
    /\ pc[s] \notin {"buy", "exit_sell", "last_sell"} =>
           /\ Idle(s)
           /\ Watched(s) => wallet[MintOf[s]] = 1
           /\ Over(s) => wallet[MintOf[s]] \in {0, 1}
                         /\ (wallet[MintOf[s]] = 1 => MintOf[s] \in alarm)
           /\ ~Watched(s) /\ ~Over(s) => wallet[MintOf[s]] = 0
    /\ dry_run => ~Watched(s)

\* A token nobody trades is not in the wallet.
Untraded == \A m \in Mint : (\A s \in Session : MintOf[s] # m) => wallet[m] = 0

PositionBooks == NoStray /\ Untraded /\ \A s \in Session : Books(s)

\* A session that is left alone keeps its books.
LEMMA BooksKept ==
    ASSUME NEW r \in Session, Books(r),
           pc'[r] = pc[r], position'[r].open = position[r].open, call'[r] = call[r],
           wallet'[MintOf[r]] = wallet[MintOf[r]], alarm \subseteq alarm',
           dry_run' = dry_run
    PROVE  Books(r)'
  BY DEF Books, OneLot, Mode, Flying, CarriedOut, Idle, Watched, Over

\* A step of session s, which touches no token but its own.
LEMMA BooksOfOne ==
    ASSUME Typed, OwnTokens, PositionBooks, NEW s \in Session, Books(s)',
           OnlyMoves(s), call' = call \/ \E q : call' = [call EXCEPT ![s] = q],
           \A m \in Mint \ {MintOf[s]} : wallet'[m] = wallet[m],
           UNCHANGED <<stray, dry_run>>, alarm \subseteq alarm'
    PROVE  PositionBooks'
<1>1. ASSUME NEW r \in Session \ {s}
      PROVE  Books(r)'
  <2>1. MintOf[r] \in Mint \ {MintOf[s]}
    BY TraderConstants DEF OwnTokens
  <2>2. call'[r] = call[r]
    BY DEF Typed, TraderTypeOK
  <2>. QED
    BY <2>1, <2>2, BooksKept DEF PositionBooks, OnlyMoves
<1>2. Untraded'
  BY TraderConstants DEF PositionBooks, Untraded
<1>3. NoStray'
  BY DEF PositionBooks, NoStray
<1>. QED
  BY <1>1, <1>2, <1>3 DEF PositionBooks

\* A move between two awaits that trades nothing.
LEMMA MoveBooks ==
    ASSUME Typed, Control, NEW s \in Session, Books(s),
           UNCHANGED <<traderVars, position, alarm>>,
           NEW to, Goto(s, to),
           pc[s] \notin {"buy", "exit_sell", "last_sell", "balance"},
           to \notin {"buy", "exit_sell", "last_sell", "balance", "last_release"},
           to = "ended" => ~position[s].open, Over(s) => to = "ended"
    PROVE  Books(s)'
<1>1. pc'[s] = to /\ Idle(s)' /\ Idle(s)
  BY DEF Goto, Typed, Books, Idle, traderVars
<1>. QED
  BY <1>1 DEF Books, Watched, Over, traderVars

\* Such a move leaves the others' books alone.
LEMMA MoveKeepsBooks ==
    ASSUME Typed, OwnTokens, PositionBooks, NEW s \in Session, Books(s)',
           UNCHANGED <<traderVars, position, alarm>>, NEW to, Goto(s, to)
    PROVE  PositionBooks'
<1>1. OnlyMoves(s)
  BY GotoMoves
<1>. QED
  BY <1>1, BooksOfOne DEF traderVars

\* A call that begins, of a buy with an empty wallet or of the sale of a position.
LEMMA BeginBooks ==
    ASSUME Typed, Control, OwnTokens, PositionBooks, NEW s \in Session,
           UNCHANGED <<position, alarm>>, NEW op \in {"buy", "sell"}, Begin(s, op),
           NEW to, Goto(s, to),
           \/ op = "buy" /\ pc[s] = "reserve" /\ to = "buy"
           \/ op = "sell" /\ pc[s] = "select" /\ to \in {"exit_sell", "last_sell"}
              /\ position[s].open
    PROVE  PositionBooks'
<1>1. pc'[s] = to /\ OnlyMoves(s) /\ TraderTypeOK
  BY GotoMoves DEF Typed
<1>2. Books(s) /\ (position[s].open => pc[s] # "reserve")
  BY DEF PositionBooks, Control
<1>3. wallet[MintOf[s]] = IF op = "buy" THEN 0 ELSE 1
  BY <1>2 DEF Books, Watched, Over
<1>4. OneLot(s)' /\ call'[s].op = op
  BY <1>1, <1>3, OneLotBegins
<1>5. (dry_run => ~Watched(s))' /\ UNCHANGED <<wallet, stray, dry_run>>
  BY <1>1, <1>2 DEF Books, Watched, Begin
<1>6. Books(s)'
  BY <1>1, <1>4, <1>5 DEF Books
<1>. QED
  BY <1>1, <1>5, <1>6, BooksOfOne DEF Begin

\* The result of a buy, and what the wallet then holds.
LEMMA BuyBooks ==
    ASSUME Typed, Control, OwnTokens, PositionBooks, NEW s \in Session,
           Bought(s) \/ BoughtDry(s) \/ BuyFailed(s)
    PROVE  PositionBooks'
<1>1. PICK to \in {"balance", "release", "select"} :
          /\ Goto(s, to)
          /\ to = "balance" <=> call[s].phase = "ok"
  BY DEF Bought, BoughtDry, BuyFailed, Returns
<1>2. /\ pc[s] = "buy" /\ End(s) /\ UNCHANGED <<position, alarm>>
      /\ call[s].phase \in {"ok", "dry", "err"}
  BY DEF Bought, BoughtDry, BuyFailed, Returns, sessionData
<1>3. pc'[s] = to /\ OnlyMoves(s)
  BY <1>1, <1>2, GotoMoves
<1>4. /\ UNCHANGED <<wallet, stray, dry_run>> /\ Idle(s)'
      /\ \E q : call' = [call EXCEPT ![s] = q]
  BY <1>2, EndEffect DEF Typed
<1>5. OneLot(s) /\ call[s].op = "buy" /\ ~position[s].open /\ ~position'[s].open
  BY <1>2 DEF PositionBooks, Books, Control
<1>6. /\ wallet[MintOf[s]] = IF to = "balance" THEN 1 ELSE 0
      /\ to = "balance" => ~dry_run
  BY <1>1, <1>2, <1>5 DEF OneLot, CarriedOut, Mode
<1>7. Books(s)'
  BY <1>1, <1>3, <1>4, <1>5, <1>6 DEF Books, Watched, Over
<1>. QED
  BY <1>2, <1>3, <1>4, <1>7, BooksOfOne

\* The result of a sell.
LEMMA SellBooks ==
    ASSUME Typed, Control, OwnTokens, PositionBooks, NEW s \in Session,
           ExitSold(s) \/ ExitSellFailed(s) \/ LastSold(s)
    PROVE  PositionBooks'
<1>1. PICK to \in {"exit_release", "signal", "last_release"} :
          /\ Goto(s, to)
          /\ to = "signal" => call[s].phase = "err" /\ position' = position
          /\ to # "signal" => position' = [position EXCEPT ![s] = NoPosition]
          /\ to = "exit_release" => call[s].phase \in {"ok", "dry"}
          /\ to = "last_release" /\ call[s].phase = "err" => Alert(s)
          /\ to = "last_release" => Returns(s, "err") \/ alarm' = alarm
          /\ to # "last_release" => alarm' = alarm
  BY DEF ExitSold, ExitSellFailed, LastSold, Returns, sessionData
<1>2. /\ pc[s] \in {"exit_sell", "last_sell"} /\ End(s)
      /\ call[s].phase \in {"ok", "dry", "err"}
  BY DEF ExitSold, ExitSellFailed, LastSold, Returns, Returned
<1>3. pc'[s] = to /\ OnlyMoves(s)
  BY <1>1, <1>2, GotoMoves
<1>4. /\ UNCHANGED <<wallet, stray, dry_run>> /\ Idle(s)'
      /\ \E q : call' = [call EXCEPT ![s] = q]
  BY <1>2, EndEffect DEF Typed
<1>5. /\ OneLot(s) /\ call[s].op = "sell" /\ ~dry_run
      /\ position'[s].open <=> to = "signal"
  BY <1>1, <1>2 DEF PositionBooks, Books, Control, Watched, Typed, NoPosition
<1>6. wallet[MintOf[s]] = IF call[s].phase = "ok" THEN 0 ELSE 1
  BY <1>2, <1>5 DEF OneLot, CarriedOut
<1>7. call[s].phase # "dry"
  BY <1>5 DEF OneLot, Mode
<1>8. alarm \subseteq alarm' /\ (to = "last_release" /\ call[s].phase = "err" =>
          MintOf[s] \in alarm')
  BY <1>1 DEF Alert, Returns
<1>9. Books(s)'
  BY <1>1, <1>2, <1>3, <1>4, <1>5, <1>6, <1>7, <1>8 DEF Books, Watched, Over
<1>. QED
  BY <1>3, <1>4, <1>8, <1>9, BooksOfOne

\* What was bought is seen, and watched from then on.
LEMMA BalanceBooks ==
    ASSUME Typed, Control, Reliable, PositionBooks, NEW s \in Session,
           BalanceRead(s) \/ Orphaned(s)
    PROVE  PositionBooks'
<1>1. Books(s) /\ pc[s] = "balance"
  BY DEF PositionBooks, BalanceRead, Orphaned
<1>2. wallet[MintOf[s]] = 1 /\ Idle(s) /\ ~dry_run
  BY <1>1 DEF Books, Watched
<1>3. BalanceRead(s)
  BY <1>2 DEF Orphaned, Reliable
<1>4. /\ UNCHANGED <<traderVars, alarm>> /\ Goto(s, "select")
      /\ position' = [position EXCEPT ![s] =
             [position[s] EXCEPT !.open = TRUE, !.lots = wallet[MintOf[s]]]]
  BY <1>3 DEF BalanceRead, Typed
<1>5. pc'[s] = "select" /\ OnlyMoves(s)
  BY <1>4, GotoMoves
<1>6. position'[s].open
  BY <1>4 DEF Typed, PositionRecord
<1>7. Books(s)'
  BY <1>2, <1>4, <1>5, <1>6 DEF Books, Watched, Over, Idle, traderVars
<1>. QED
  BY <1>4, <1>5, <1>7, BooksOfOne DEF Reliable, traderVars

\* The calls and the chain go on, each for its own session.
LEMMA TradeBooks ==
    ASSUME Typed, Reliable, PositionBooks, NEW s \in Session, Trades(s) \/ Settles(s)
    PROVE  PositionBooks'
<1>1. /\ UNCHANGED <<pc, position, alarm, stray, dry_run>> /\ ~Idle(s)
      /\ \E q : call' = [call EXCEPT ![s] = q]
      /\ \A m \in Mint \ {MintOf[s]} : wallet'[m] = wallet[m]
  <2>1. UNCHANGED <<pc, position, alarm>>
    BY DEF Trades, Settles, SessionUnchanged, sessionData
  <2>2. CASE CallStep(s)
    BY <2>1, <2>2, CallStepEffect DEF Typed, Reliable
  <2>3. CASE ChainStep(s)
    BY <2>1, <2>3, ChainStepEffect DEF Typed, Flying, Idle
  <2>. QED
    BY <2>2, <2>3 DEF Trades, Settles
<1>2. Books(s) /\ pc[s] \in {"buy", "exit_sell", "last_sell"}
  BY <1>1 DEF PositionBooks, Books
<1>3. OneLot(s)
  BY <1>2 DEF Books
<1>4. OneLot(s)' /\ call'[s].op = call[s].op
  BY <1>3, OneLotWorks, OneLotSettles DEF Trades, Settles, Typed, Reliable
<1>5. Books(s)'
  BY <1>1, <1>2, <1>4 DEF Books, Watched
<1>. QED
  BY <1>1, <1>5, BooksOfOne DEF OnlyMoves, Reliable

\* Every step keeps the books.
LEMMA BooksStep ==
    ASSUME Typed, Control, Reliable, PositionBooks, [Next]_vars
    PROVE  PositionBooks'
<1>. OwnTokens
  BY DEF Reliable
<1>1. ASSUME NEW s \in Session, NEW to, Goto(s, to),
             UNCHANGED <<traderVars, position, alarm>>,
             pc[s] \notin {"buy", "exit_sell", "last_sell", "balance"},
             to \notin {"buy", "exit_sell", "last_sell", "balance", "last_release"},
             to = "ended" => ~position[s].open, Over(s) => to = "ended"
      PROVE  PositionBooks'
  BY <1>1, MoveBooks, MoveKeepsBooks DEF PositionBooks
<1>2. ASSUME UNCHANGED <<traderVars, pc, alarm>>,
             \A r \in Session : position'[r].open = position[r].open
      PROVE  PositionBooks'
  <2>1. \A r \in Session : Books(r)'
    BY <1>2, BooksKept DEF PositionBooks, traderVars
  <2>. QED
    BY <1>2, <2>1 DEF PositionBooks, NoStray, Untraded, traderVars
<1>3. ASSUME NEW s \in Session, LeaveLoop(s), pc[s] = "select",
             UNCHANGED <<position, alarm>>
      PROVE  PositionBooks'
  <2>1. CASE position[s].open /\ Begin(s, "sell") /\ Goto(s, "last_sell")
    BY <1>3, <2>1, BeginBooks
  <2>2. CASE ~position[s].open /\ Goto(s, "ended") /\ UNCHANGED traderVars
    BY <1>1, <1>3, <2>2 DEF Over
  <2>. QED
    BY <1>3, <2>1, <2>2 DEF LeaveLoop
<1>4. ASSUME NEW s \in Session, Spawn(s) \/ FiltersReject(s) \/ FiltersPass(s)
      PROVE  PositionBooks'
  <2>1. /\ UNCHANGED <<traderVars, position, alarm>> /\ pc[s] \in {"idle", "filters"}
        /\ \E to \in {"filters", "ended", "select"} : Goto(s, to)
    BY <1>4 DEF Spawn, FiltersReject, FiltersPass, sessionData
  <2>2. ~position[s].open /\ ~Over(s)
    BY <2>1 DEF Control, Over
  <2>. QED
    BY <1>1, <2>1, <2>2
<1>5. ASSUME NEW s \in Session, TickTaken(s)
      PROVE  PositionBooks'
  <2>1. pc[s] = "select" /\ UNCHANGED <<position, alarm>>
    BY <1>5 DEF TickTaken, RuggedTick, ExitTick, PlainTick, TickArrives, sessionData
  <2>2. CASE RuggedTick(s)
    BY <1>3, <2>1, <2>2 DEF RuggedTick
  <2>3. CASE ExitTick(s)
    BY <2>1, <2>3, BeginBooks DEF ExitTick
  <2>4. CASE PlainTick(s)
    BY <1>1, <2>1, <2>4 DEF PlainTick, Over
  <2>. QED
    BY <1>5, <2>2, <2>3, <2>4 DEF TickTaken
<1>6. ASSUME NEW s \in Session, Entry(s)
      PROVE  PositionBooks'
  <2>1. CASE NoEntry(s) \/ Fires(s) \/ CapCheck(s) \/ Unreserve(s) \/ DryReleased(s)
    <3>1. /\ UNCHANGED <<traderVars, position, alarm>>
          /\ pc[s] \in {"signal", "cap_check", "unreserve", "release"}
          /\ \E to \in {"select", "cap_check", "reserve"} : Goto(s, to)
      BY <2>1 DEF NoEntry, Fires, CapCheck, Unreserve, DryReleased, sessionData
    <3>. QED
      BY <1>1, <3>1 DEF Over
  <2>2. CASE Reserve(s)
    <3>1. UNCHANGED <<position, alarm>> /\ pc[s] = "reserve"
      BY <2>2 DEF Reserve, sessionData
    <3>2. CASE Goto(s, "buy") /\ Begin(s, "buy")
      BY <3>1, <3>2, BeginBooks
    <3>3. CASE Goto(s, "unreserve") /\ UNCHANGED traderVars
      BY <1>1, <3>1, <3>3 DEF Over
    <3>. QED
      BY <2>2, <3>2, <3>3 DEF Reserve
  <2>3. CASE Bought(s) \/ BoughtDry(s) \/ BuyFailed(s)
    BY <2>3, BuyBooks
  <2>4. CASE BalanceRead(s) \/ Orphaned(s)
    BY <2>4, BalanceBooks
  <2>. QED
    BY <1>6, <2>1, <2>2, <2>3, <2>4 DEF Entry
<1>7. ASSUME NEW s \in Session, Exit(s)
      PROVE  PositionBooks'
  <2>1. CASE DeadlineFires(s) \/ FeedEnds(s)
    BY <1>3, <2>1 DEF DeadlineFires, FeedEnds, sessionData
  <2>2. CASE ExitSold(s) \/ ExitSellFailed(s) \/ LastSold(s)
    BY <2>2, SellBooks
  <2>3. CASE ExitReleased(s) \/ LastReleased(s)
    <3>1. /\ UNCHANGED <<traderVars, position, alarm>>
          /\ \/ pc[s] = "exit_release" /\ Goto(s, "signal")
             \/ pc[s] = "last_release" /\ Goto(s, "ended")
      BY <2>3 DEF ExitReleased, LastReleased, sessionData
    <3>2. ~position[s].open
      BY <3>1 DEF Control
    <3>. QED
      BY <1>1, <3>1, <3>2 DEF Over
  <2>. QED
    BY <1>7, <2>1, <2>2, <2>3 DEF Exit
<1>8. ASSUME NEW s \in Session, PriceTask(s)
      PROVE  PositionBooks'
  BY <1>2, <1>8 DEF PriceTask
<1>9. CASE Tick
  <2>1. \A r \in Session : position'[r].open = position[r].open
    BY <1>9 DEF Tick, PositionOlder, Typed, PositionRecord
  <2>. QED
    BY <1>2, <1>9, <2>1 DEF Tick
<1>10. CASE StraySettles
  BY <1>10, NoStraySettles DEF StraySettles, PositionBooks
<1>11. CASE UNCHANGED vars
  BY <1>2, <1>11 DEF vars
<1>. QED
  BY <1>4, <1>5, <1>6, <1>7, <1>8, <1>9, <1>10, <1>11, TradeBooks DEF Next

\* The wallet starts empty.
LEMMA BooksInit == Init => PositionBooks
<1>. SUFFICES ASSUME Init PROVE PositionBooks
  OBVIOUS
<1>1. ASSUME NEW s \in Session PROVE Books(s)
  BY TraderConstants DEF Init, TraderInit, Books, Watched, Over, NoPosition, Idle, NoCall
<1>. QED
  BY <1>1 DEF Init, TraderInit, PositionBooks, NoStray, Untraded

\* With a chain that answers and reads that succeed the program's books are the
\* wallet's.
THEOREM GraduationBooks ==
    ASSUME Reliable
    PROVE  Safety => []PositionBooks
<1>1. IInv /\ PositionBooks /\ [Next]_vars => PositionBooks'
  BY BooksStep DEF IInv
<1>. QED
  BY <1>1, BooksInit, GraduationInvariant, PTL DEF Safety

\* The wallet never holds the tokens of two buys of a token (README 240), as long
\* as no reply is lost, no balance read fails and no two sessions share a token.
THEOREM GraduationNoPyramiding ==
    ASSUME Reliable
    PROVE  Safety => []NoPyramiding
<1>1. PositionBooks => NoPyramiding
  <2>. SUFFICES ASSUME PositionBooks, NEW m \in Mint PROVE wallet[m] <= 1
    BY DEF NoPyramiding
  <2>1. CASE \E s \in Session : MintOf[s] = m
    <3>1. PICK s \in Session : MintOf[s] = m
      BY <2>1
    <3>2. Books(s)
      BY DEF PositionBooks
    <3>3. wallet[m] \in {0, 1}
      BY <3>1, <3>2 DEF Books, OneLot
    <3>. QED
      BY <3>3
  <2>2. CASE \A s \in Session : MintOf[s] # m
    BY <2>2 DEF PositionBooks, Untraded
  <2>. QED
    BY <2>1, <2>2
<1>. QED
  BY <1>1, GraduationBooks, PTL

\* While no call for it is under way an open position has its tokens in the wallet.
THEOREM GraduationOpenPositionIsBacked ==
    ASSUME Reliable
    PROVE  Safety => []OpenPositionIsBacked
<1>1. PositionBooks => OpenPositionIsBacked
  <2>. SUFFICES ASSUME PositionBooks, NEW s \in Session, position[s].open, Idle(s)
                PROVE  wallet[MintOf[s]] > 0
    BY DEF OpenPositionIsBacked
  <2>1. Books(s)
    BY DEF PositionBooks
  <2>. QED
    BY <2>1 DEF Books, OneLot, Watched
<1>. QED
  BY <1>1, GraduationBooks, PTL

-----------------------------------------------------------------------------
(* The same with failing reads and shared tokens: one can no longer say what *)
(* a session's wallet holds, but still that somebody answers for it.         *)

CallOf(s) ==
    /\ pc[s] = "buy" => ~Idle(s) /\ call[s].op = "buy" /\ Mode(s)
    /\ pc[s] \in {"exit_sell", "last_sell"} => ~Idle(s) /\ call[s].op = "sell" /\ Mode(s)
    /\ pc[s] \notin {"buy", "exit_sell", "last_sell"} => Idle(s)

\* A session attends to its token from its buy to the sale of its position.
Attends(s) == Answers(s) \/ pc[s] = "balance" \/ (position[s].open /\ Idle(s))

Attended ==
    \A m \in Mint : wallet[m] > 0 =>
        m \in alarm \/ \E s \in Session : MintOf[s] = m /\ Attends(s)

Attendance == NoStray /\ Paper /\ Attended /\ \A s \in Session : CallOf(s)

\* A session without a call under way answers for nothing by one.
LEMMA IdleAnswersNot ==
    ASSUME NEW s \in Session, Idle(s)
    PROVE  ~Answers(s)
  BY DEF Idle, Answers, CarriedOut

\* A step of one session that trades nothing: it goes on attending if it did, or
\* raises an alarm.
LEMMA AttendanceOfOne ==
    ASSUME Typed, Attendance, NEW s \in Session, UNCHANGED <<wallet, stray, dry_run>>,
           alarm \subseteq alarm', CallOf(s)', OnlyMoves(s),
           \A r \in Session \ {s} : call'[r] = call[r],
           Attends(s) /\ ~dry_run => Attends(s)' \/ MintOf[s] \in alarm'
    PROVE  Attendance'
<1>1. \A r \in Session \ {s} : CallOf(r)' /\ (Attends(r) => Attends(r)')
  BY DEF OnlyMoves, Attendance, CallOf, Attends, Answers, Idle, Mode, Flying, CarriedOut
<1>2. Attended'
  <2>. SUFFICES ASSUME NEW m \in Mint, wallet'[m] > 0
                PROVE  m \in alarm' \/ \E r \in Session : MintOf[r] = m /\ Attends(r)'
    BY DEF Attended
  <2>1. ~dry_run
    BY DEF Attendance, Paper, Typed, TraderTypeOK
  <2>2. CASE m \in alarm
    BY <2>2
  <2>3. ASSUME NEW r \in Session, MintOf[r] = m, Attends(r)
        PROVE  m \in alarm' \/ \E d \in Session : MintOf[d] = m /\ Attends(d)'
    BY <1>1, <2>1, <2>3
  <2>. QED
    BY <2>2, <2>3 DEF Attendance, Attended
<1>. QED
  BY <1>1, <1>2 DEF Attendance, NoStray, Paper

\* A session that moves on with its position as it was.
LEMMA MoveAttends ==
    ASSUME Typed, Attendance, NEW s \in Session,
           UNCHANGED <<traderVars, position, alarm>>, NEW to, Goto(s, to),
           pc[s] \notin {"buy", "exit_sell", "last_sell", "balance"},
           to \notin {"buy", "exit_sell", "last_sell"}
    PROVE  Attendance'
<1>1. pc'[s] = to /\ OnlyMoves(s)
  BY GotoMoves
<1>2. Idle(s) /\ UNCHANGED <<wallet, stray, call, dry_run>>
  BY DEF Attendance, CallOf, traderVars
<1>3. CallOf(s)'
  BY <1>1, <1>2 DEF CallOf, Idle
<1>4. Attends(s) => Attends(s)'
  BY <1>1, <1>2, IdleAnswersNot DEF Attends, Idle
<1>. QED
  BY <1>1, <1>2, <1>3, <1>4, AttendanceOfOne

\* A session that begins to buy, with no position, or to sell the one it has.
LEMMA BeginAttends ==
    ASSUME Typed, Attendance, Control, NEW s \in Session, UNCHANGED <<position, alarm>>,
           NEW op \in {"buy", "sell"}, Begin(s, op), NEW to, Goto(s, to),
           \/ op = "buy" /\ to = "buy" /\ pc[s] = "reserve"
           \/ op = "sell" /\ to \in {"exit_sell", "last_sell"} /\ pc[s] = "select"
    PROVE  Attendance'
<1>1. pc'[s] = to /\ OnlyMoves(s)
  BY GotoMoves
<1>2. /\ UNCHANGED <<wallet, stray, dry_run>> /\ Idle(s)
      /\ \A r \in Session \ {s} : call'[r] = call[r]
  BY DEF Begin, Typed, TraderTypeOK
<1>3. ~Idle(s)' /\ call'[s].op = op /\ Mode(s)' /\ (op = "sell" => Answers(s)')
  BY AnswersFromTheStart DEF Typed
<1>4. CallOf(s)'
  BY <1>1, <1>3 DEF CallOf
<1>5. Attends(s) => Attends(s)'
  BY <1>2, <1>3, IdleAnswersNot DEF Attends, Control
<1>. QED
  BY <1>1, <1>2, <1>4, <1>5, AttendanceOfOne

\* A session that takes the result of its call.
LEMMA EndAttends ==
    ASSUME Typed, Attendance, NEW s \in Session, End(s), alarm \subseteq alarm',
           NEW to, to \notin {"buy", "exit_sell", "last_sell"}, Goto(s, to),
           OnlyMoves(s), pc[s] \in {"buy", "exit_sell", "last_sell"},
           Attends(s) /\ ~dry_run => \/ to = "balance" \/ position'[s].open
                                     \/ MintOf[s] \in alarm'
    PROVE  Attendance'
<1>1. pc'[s] = to
  BY DEF Goto, Typed
<1>2. /\ UNCHANGED <<wallet, stray, dry_run>> /\ Idle(s)'
      /\ \A r \in Session \ {s} : call'[r] = call[r]
  BY EndEffect DEF End, Typed, TraderTypeOK
<1>3. CallOf(s)'
  BY <1>1, <1>2 DEF CallOf
<1>4. Attends(s) /\ ~dry_run => Attends(s)' \/ MintOf[s] \in alarm'
  BY <1>1, <1>2 DEF Attends
<1>. QED
  BY <1>2, <1>3, <1>4, AttendanceOfOne

\* The entry path.
LEMMA EntryAttends ==
    ASSUME Typed, Attendance, Control, NEW s \in Session, Entry(s)
    PROVE  Attendance'
<1>1. CASE NoEntry(s) \/ Fires(s) \/ CapCheck(s) \/ Unreserve(s) \/ DryReleased(s)
  <2>1. /\ UNCHANGED <<traderVars, position, alarm>>
        /\ pc[s] \in {"signal", "cap_check", "unreserve", "release"}
        /\ \E to \in {"select", "cap_check", "reserve"} : Goto(s, to)
    BY <1>1 DEF NoEntry, Fires, CapCheck, Unreserve, DryReleased, sessionData
  <2>. QED
    BY <2>1, MoveAttends
<1>2. CASE Reserve(s)
  <2>1. UNCHANGED <<position, alarm>> /\ pc[s] = "reserve"
    BY <1>2 DEF Reserve, sessionData
  <2>2. CASE Goto(s, "buy") /\ Begin(s, "buy")
    BY <2>1, <2>2, BeginAttends
  <2>3. CASE Goto(s, "unreserve") /\ UNCHANGED traderVars
    BY <2>1, <2>3, MoveAttends
  <2>. QED
    BY <1>2, <2>2, <2>3 DEF Reserve
<1>3. CASE Bought(s) \/ BoughtDry(s) \/ BuyFailed(s)
  <2>1. PICK to \in {"balance", "release", "select"} :
            /\ Goto(s, to)
            /\ to = "balance" <=> call[s].phase = "ok"
    BY <1>3 DEF Bought, BoughtDry, BuyFailed, Returns
  <2>2. /\ pc[s] = "buy" /\ End(s) /\ UNCHANGED <<position, alarm>>
        /\ call[s].phase \in {"ok", "dry", "err"}
    BY <1>3 DEF Bought, BoughtDry, BuyFailed, Returns, sessionData
  <2>3. Attends(s) => to = "balance"
    BY <2>1, <2>2 DEF Attends, Answers, CarriedOut, Attendance, CallOf
  <2>. QED
    BY <2>1, <2>2, <2>3, GotoMoves, EndAttends
<1>4. CASE BalanceRead(s) \/ Orphaned(s)
  <2>1. /\ UNCHANGED traderVars /\ Goto(s, "select") /\ pc[s] = "balance"
        /\ \E q : position' = [position EXCEPT ![s] = q]
        /\ \/ position'[s].open /\ alarm' = alarm
           \/ alarm' = alarm \cup {MintOf[s]}
    BY <1>4 DEF BalanceRead, Orphaned, Alert, Typed, PositionRecord
  <2>2. pc'[s] = "select" /\ OnlyMoves(s)
    BY <2>1, GotoMoves
  <2>3. Idle(s) /\ Idle(s)' /\ UNCHANGED <<wallet, stray, call, dry_run>>
    BY <2>1 DEF Attendance, CallOf, traderVars, Idle
  <2>4. CallOf(s)' /\ (Attends(s)' \/ MintOf[s] \in alarm')
    BY <2>1, <2>2, <2>3 DEF CallOf, Attends
  <2>. QED
    BY <2>1, <2>2, <2>3, <2>4, AttendanceOfOne
<1>. QED
  BY <1>1, <1>2, <1>3, <1>4 DEF Entry

\* Leaving the select loop.
LEMMA LeaveLoopAttends ==
    ASSUME Typed, Attendance, Control, NEW s \in Session, LeaveLoop(s),
           pc[s] = "select", UNCHANGED <<position, alarm>>
    PROVE  Attendance'
<1>1. CASE Begin(s, "sell") /\ Goto(s, "last_sell")
  BY <1>1, BeginAttends
<1>2. CASE Goto(s, "ended") /\ UNCHANGED traderVars
  BY <1>2, MoveAttends
<1>. QED
  BY <1>1, <1>2 DEF LeaveLoop

\* The way out.
LEMMA ExitAttends ==
    ASSUME Typed, Attendance, Control, NEW s \in Session, Exit(s)
    PROVE  Attendance'
<1>1. CASE DeadlineFires(s) \/ FeedEnds(s)
  BY <1>1, LeaveLoopAttends DEF DeadlineFires, FeedEnds, sessionData
<1>2. CASE ExitSellFailed(s)
  <2>1. /\ Goto(s, "signal") /\ End(s) /\ UNCHANGED <<position, alarm>>
        /\ pc[s] = "exit_sell" /\ position'[s].open
    BY <1>2 DEF ExitSellFailed, sessionData, Control
  <2>. QED
    BY <2>1, GotoMoves, EndAttends
<1>3. CASE ExitSold(s) \/ LastSold(s)
  <2>1. PICK to \in {"exit_release", "last_release"} :
            /\ Goto(s, to) /\ End(s) /\ alarm \subseteq alarm'
            /\ position' = [position EXCEPT ![s] = NoPosition]
            /\ call[s].phase \in {"ok", "dry"} \/ MintOf[s] \in alarm'
    BY <1>3 DEF ExitSold, LastSold, Returns, Returned, Alert
  <2>2. pc[s] \in {"exit_sell", "last_sell"} /\ OnlyMoves(s)
    BY <1>3, <2>1, GotoMoves DEF ExitSold, LastSold
  <2>3. CallOf(s)
    BY DEF Attendance
  <2>4. call[s].phase \in {"ok", "dry"} => ~Attends(s) \/ dry_run
    BY <2>2, <2>3 DEF Attends, Answers, CarriedOut, CallOf, Mode
  <2>5. Attends(s) /\ ~dry_run => MintOf[s] \in alarm'
    BY <2>1, <2>4
  <2>. QED
    BY <2>1, <2>2, <2>5, EndAttends
<1>4. CASE ExitReleased(s) \/ LastReleased(s)
  <2>1. /\ UNCHANGED <<traderVars, position, alarm>>
        /\ pc[s] \in {"exit_release", "last_release"}
        /\ \E to \in {"signal", "ended"} : Goto(s, to)
    BY <1>4 DEF ExitReleased, LastReleased, sessionData
  <2>. QED
    BY <2>1, MoveAttends
<1>. QED
  BY <1>1, <1>2, <1>3, <1>4 DEF Exit

\* The calls and the chain go on, each for the token of its session.
LEMMA TradeAttends ==
    ASSUME ~Lossy, Typed, Attendance, NEW s \in Session, Trades(s) \/ Settles(s)
    PROVE  Attendance'
<1>1. UNCHANGED <<pc, position, alarm>> /\ (CallStep(s) \/ ChainStep(s)) /\ OnlyMoves(s)
  BY DEF Trades, Settles, SessionUnchanged, sessionData, OnlyMoves
<1>2. /\ CallOf(s) /\ ~Idle(s) /\ pc[s] \in {"buy", "exit_sell", "last_sell"} /\ Mode(s)
  <2>1. ~Idle(s)
    BY <1>1, CallStepEffect, ChainStepEffect DEF Typed, Flying, Idle
  <2>. QED
    BY <2>1 DEF Attendance, CallOf
<1>3. \A r \in Session \ {s} : call'[r] = call[r]
  BY <1>1, CallStepEffect, ChainStepEffect DEF Typed, TraderTypeOK
<1>4. CASE CallStep(s)
  <2>1. /\ ~Idle(s)' /\ call'[s].op = call[s].op /\ Mode(s)'
        /\ Answers(s) => Answers(s)'
    BY <1>2, <1>4, AnswersOn DEF Typed
  <2>2. UNCHANGED <<wallet, stray, dry_run>>
    BY <1>4, CallStepEffect DEF Typed
  <2>3. CallOf(s)' /\ (Attends(s) => Attends(s)')
    BY <1>1, <1>2, <2>1 DEF CallOf, Attends
  <2>. QED
    BY <1>1, <1>3, <2>2, <2>3, AttendanceOfOne
<1>5. CASE ChainStep(s)
  <2>1. /\ ~Idle(s)' /\ call'[s].op = call[s].op /\ Mode(s)' /\ ~dry_run
        /\ wallet'[MintOf[s]] > 0 => wallet[MintOf[s]] > 0 \/ Answers(s)'
        /\ \A d \in Session :
               /\ MintOf[d] = MintOf[s] /\ Answers(d) /\ wallet'[MintOf[s]] > 0
               => Answers(d)' \/ Answers(s)'
    BY <1>2, <1>5, AnswersSettled DEF Typed
  <2>2. /\ UNCHANGED <<stray, dry_run>>
        /\ \A m \in Mint \ {MintOf[s]} : wallet'[m] = wallet[m]
    BY <1>5, ChainStepEffect DEF Typed
  <2>3. \A r \in Session : CallOf(r)'
    BY <1>1, <1>2, <1>3, <2>1, <2>2 DEF Attendance, CallOf, Idle, Mode
  <2>4. ASSUME NEW m \in Mint, wallet'[m] > 0, m \notin alarm
        PROVE  \E r \in Session : MintOf[r] = m /\ Attends(r)'
    <3>1. CASE m # MintOf[s]
      <4>1. PICK r \in Session : MintOf[r] = m /\ Attends(r)
        BY <2>2, <2>4, <3>1 DEF Attendance, Attended
      <4>2. call'[r] = call[r] /\ wallet'[MintOf[r]] = wallet[MintOf[r]]
        BY <1>3, <2>2, <3>1, <4>1
      <4>3. Attends(r)'
        BY <1>1, <4>1, <4>2 DEF Attends, Answers, Idle, Flying, CarriedOut
      <4>. QED
        BY <4>1, <4>3
    <3>2. CASE m = MintOf[s] /\ ~Answers(s)'
      <4>1. PICK r \in Session : MintOf[r] = m /\ Attends(r)
        BY <2>1, <2>4, <3>2 DEF Attendance, Attended
      <4>2. Idle(r) => Idle(r)'
        BY <1>2, <1>3 DEF Idle
      <4>3. Attends(r)'
        BY <1>1, <2>1, <2>4, <3>2, <4>1, <4>2 DEF Attends
      <4>. QED
        BY <4>1, <4>3
    <3>3. CASE m = MintOf[s] /\ Answers(s)'
      BY <3>3 DEF Attends
    <3>. QED
      BY <3>1, <3>2, <3>3
  <2>. QED
    BY <1>1, <2>1, <2>2, <2>3, <2>4 DEF Attendance, NoStray, Paper, Attended
<1>. QED
  BY <1>1, <1>4, <1>5

\* Every step keeps it: nobody drops a token unannounced.
LEMMA AttendanceStep ==
    ASSUME ~Lossy, Typed, Control, Attendance, [Next]_vars
    PROVE  Attendance'
<1>1. ASSUME UNCHANGED <<traderVars, pc, alarm>>,
             \A r \in Session : position'[r].open = position[r].open
      PROVE  Attendance'
  BY <1>1 DEF Attendance, NoStray, Paper, Attended, CallOf, Attends, Answers, Idle, Mode,
     Flying, CarriedOut, traderVars
<1>2. ASSUME NEW s \in Session, Spawn(s) \/ FiltersReject(s) \/ FiltersPass(s)
      PROVE  Attendance'
  <2>1. /\ UNCHANGED <<traderVars, position, alarm>> /\ pc[s] \in {"idle", "filters"}
        /\ \E to \in {"filters", "ended", "select"} : Goto(s, to)
    BY <1>2 DEF Spawn, FiltersReject, FiltersPass, sessionData
  <2>. QED
    BY <2>1, MoveAttends
<1>3. ASSUME NEW s \in Session, TickTaken(s)
      PROVE  Attendance'
  <2>1. pc[s] = "select" /\ UNCHANGED <<position, alarm>>
    BY <1>3 DEF TickTaken, RuggedTick, ExitTick, PlainTick, TickArrives, sessionData
  <2>2. CASE RuggedTick(s)
    BY <2>1, <2>2, LeaveLoopAttends DEF RuggedTick
  <2>3. CASE ExitTick(s)
    BY <2>1, <2>3, BeginAttends DEF ExitTick
  <2>4. CASE PlainTick(s)
    BY <2>1, <2>4, MoveAttends DEF PlainTick
  <2>. QED
    BY <1>3, <2>2, <2>3, <2>4 DEF TickTaken
<1>4. ASSUME NEW s \in Session, PriceTask(s)
      PROVE  Attendance'
  BY <1>1, <1>4 DEF PriceTask
<1>5. CASE Tick
  <2>1. \A r \in Session : position'[r].open = position[r].open
    BY <1>5 DEF Tick, PositionOlder, Typed, PositionRecord
  <2>. QED
    BY <1>1, <1>5, <2>1 DEF Tick
<1>6. CASE StraySettles
  BY <1>6, NoStraySettles DEF StraySettles, Attendance
<1>7. CASE UNCHANGED vars
  BY <1>1, <1>7 DEF vars
<1>. QED
  BY <1>2, <1>3, <1>4, <1>5, <1>6, <1>7, EntryAttends, ExitAttends, TradeAttends DEF Next

\* The wallet starts empty, and nobody trades.
LEMMA AttendanceInit == Init => Attendance
  BY DEF Init, TraderInit, Attendance, NoStray, Paper, Attended, CallOf, Idle, NoCall

\* Tokens in the wallet have a session with a slot that watches them, or the
\* operator was told of them: with a chain that answers, whether balance reads
\* fail or not, and even if several sessions trade the token.
THEOREM GraduationLeftoverIsAnnounced ==
    ASSUME ~Lossy
    PROVE  Safety => []LeftoverIsAnnounced
<1>1. IInv /\ Attendance /\ [Next]_vars => Attendance'
  BY AttendanceStep DEF IInv
<1>2. Control /\ Attendance => LeftoverIsAnnounced
  <2>1. ASSUME Control, Attendance, NEW s \in Session, Attends(s) PROVE HoldsSlot(s)
    BY <2>1, IdleAnswersNot DEF Control, Attendance, CallOf, Attends, HoldsSlot
  <2>. QED
    BY <2>1 DEF Attendance, Attended, LeftoverIsAnnounced
<1>3. IInv => Control
  BY DEF IInv
<1>. QED
  BY <1>1, <1>2, <1>3, AttendanceInit, GraduationInvariant, PTL DEF Safety

-----------------------------------------------------------------------------
(* The deadline. *)

\* A tick that goes on to the entries after its deadline has passed goes there
\* from an exit sell: it finds its position open or its cooldown running.
Timely ==
    \A s \in Session :
        /\ pc[s] = "signal" /\ DeadlinePassed(s) => ~MayBuy(s)
        /\ pc[s] \in {"cap_check", "reserve"} => ~DeadlinePassed(s)

\* Every step keeps it: an exit sell that outlasts the deadline ends in a closed
\* entry, and a check that was passed in time is acted on within its turn.
LEMMA TimelyStep ==
    ASSUME Typed, Control, Timely, Cooldown > 0, [Next]_vars
    PROVE  Timely'
<1>1. ASSUME UNCHANGED <<pc, monitored, position, since_sell>>
      PROVE  Timely'
  BY <1>1 DEF Timely, DeadlinePassed, MayBuy, CoolingDown
<1>2. ASSUME NEW s \in Session, NEW to, Goto(s, to), UNCHANGED monitored,
             \A r \in Session \ {s} : /\ position'[r] = position[r]
                                      /\ since_sell'[r] = since_sell[r],
             to = "signal" => ~DeadlinePassed(s) \/ ~MayBuy(s)',
             to \in {"cap_check", "reserve"} => ~DeadlinePassed(s)
      PROVE  Timely'
  <2>1. pc'[s] = to /\ \A r \in Session \ {s} : pc'[r] = pc[r]
    BY <1>2 DEF Goto, Typed
  <2>. QED
    BY <1>2, <2>1 DEF Timely, DeadlinePassed, MayBuy, CoolingDown
<1>3. ASSUME NEW s \in Session,
             Spawn(s) \/ FiltersReject(s) \/ FiltersPass(s) \/ TickTaken(s)
      PROVE  Timely'
  <2>1. /\ UNCHANGED sessionData
        /\ \E to \in {"filters", "ended", "select", "last_sell", "exit_sell", "signal"} :
              Goto(s, to) /\ (to = "signal" => ~DeadlinePassed(s))
    BY <1>3 DEF Spawn, FiltersReject, FiltersPass, TickTaken, RuggedTick, ExitTick,
       PlainTick, TickArrives, LeaveLoop, sessionData
  <2>. QED
    BY <1>2, <2>1 DEF sessionData
<1>4. ASSUME NEW s \in Session, Entry(s)
      PROVE  Timely'
  <2>1. CASE Fires(s)
    <3>1. pc[s] = "signal" /\ MayBuy(s) /\ UNCHANGED sessionData
      BY <2>1 DEF Fires
    <3>2. \E to \in {"cap_check", "reserve"} : Goto(s, to)
      BY <2>1 DEF Fires
    <3>3. ~DeadlinePassed(s)
      BY <3>1 DEF Timely
    <3>. QED
      BY <1>2, <3>1, <3>2, <3>3 DEF sessionData
  <2>2. CASE CapCheck(s)
    <3>1. pc[s] = "cap_check" /\ UNCHANGED sessionData
      BY <2>2 DEF CapCheck
    <3>2. \E to \in {"select", "reserve"} : Goto(s, to)
      BY <2>2 DEF CapCheck
    <3>3. ~DeadlinePassed(s)
      BY <3>1 DEF Timely
    <3>. QED
      BY <1>2, <3>1, <3>2, <3>3 DEF sessionData
  <2>3. CASE ~Fires(s) /\ ~CapCheck(s)
    <3>1. /\ UNCHANGED <<monitored, since_sell>>
          /\ \E to \in {"select", "unreserve", "buy", "balance", "release"} : Goto(s, to)
      BY <1>4, <2>3 DEF Entry, NoEntry, Reserve, Unreserve, Bought, BoughtDry,
         DryReleased, BuyFailed, BalanceRead, Orphaned, sessionData
    <3>2. position' = position \/ \E q : position' = [position EXCEPT ![s] = q]
      BY <1>4, <2>3 DEF Entry, NoEntry, Reserve, Unreserve, Bought, BoughtDry,
         DryReleased, BuyFailed, BalanceRead, Orphaned, sessionData
    <3>3. \A r \in Session \ {s} : position'[r] = position[r]
      BY <3>2 DEF Typed
    <3>. QED
      BY <1>2, <3>1, <3>3
  <2>. QED
    BY <2>1, <2>2, <2>3
<1>5. ASSUME NEW s \in Session, Exit(s)
      PROVE  Timely'
  <2>1. CASE DeadlineFires(s) \/ FeedEnds(s)
    <3>1. /\ UNCHANGED sessionData
          /\ \E to \in {"last_sell", "ended"} : Goto(s, to)
      BY <2>1 DEF DeadlineFires, FeedEnds, LeaveLoop
    <3>. QED
      BY <1>2, <3>1 DEF sessionData
  <2>2. CASE ExitSold(s) \/ LastSold(s)
    <3>1. /\ UNCHANGED <<monitored, since_sell>>
          /\ \E to \in {"exit_release", "last_release"} : Goto(s, to)
          /\ position' = [position EXCEPT ![s] = NoPosition]
      BY <2>2 DEF ExitSold, LastSold
    <3>2. \A r \in Session \ {s} : position'[r] = position[r]
      BY <3>1 DEF Typed
    <3>. QED
      BY <1>2, <3>1, <3>2
  <2>3. CASE ExitSellFailed(s)
    <3>1. Goto(s, "signal") /\ UNCHANGED sessionData /\ position[s].open
      BY <2>3 DEF ExitSellFailed, Control
    <3>2. ~MayBuy(s)'
      BY <3>1 DEF MayBuy, sessionData
    <3>. QED
      BY <1>2, <3>1, <3>2 DEF sessionData
  <2>4. CASE ExitReleased(s)
    <3>1. /\ Goto(s, "signal") /\ UNCHANGED <<monitored, position>>
          /\ since_sell'[s] = 0
          /\ \A r \in Session \ {s} : since_sell'[r] = since_sell[r]
      BY <2>4 DEF ExitReleased, Typed
    <3>2. ~MayBuy(s)'
      BY <3>1, GraduationConstants DEF MayBuy, CoolingDown
    <3>. QED
      BY <1>2, <3>1, <3>2
  <2>5. CASE LastReleased(s)
    BY <1>2, <2>5 DEF LastReleased, sessionData
  <2>. QED
    BY <1>5, <2>1, <2>2, <2>3, <2>4, <2>5 DEF Exit
<1>6. ASSUME NEW s \in Session, PriceTask(s) \/ Trades(s) \/ Settles(s)
      PROVE  Timely'
  BY <1>1, <1>6 DEF PriceTask, Trades, Settles, SessionUnchanged, sessionData
<1>7. CASE StraySettles \/ UNCHANGED vars
  BY <1>1, <1>7 DEF StraySettles, SessionUnchanged, sessionData, vars
<1>8. CASE Tick
  BY <1>8 DEF Tick, Timely, Awaiting
<1>. QED
  BY <1>3, <1>4, <1>5, <1>6, <1>7, <1>8 DEF Next

\* The only step that starts a buy is the one from the reservation.
LEMMA StartsBuyAtReserve ==
    ASSUME Typed, NEW s \in Session, StartsBuy(s), [Next]_vars
    PROVE  pc[s] = "reserve"
<1>1. /\ call[s].phase = "idle" /\ call'[s].phase = "submit" /\ call'[s].op = "buy"
      /\ call \in [Session -> Call]
  BY DEF StartsBuy, Idle, Typed, TraderTypeOK
<1>2. call' # call
  BY <1>1
<1>3. ASSUME NEW r \in Session, NEW q, call' = [call EXCEPT ![r] = q]
      PROVE  r = s /\ call'[s] = q
  BY <1>1, <1>3
<1>4. ASSUME NEW r \in Session, Begin(r, "sell") PROVE FALSE
  <2>1. r = s /\ call'[s] = [NoCall EXCEPT !.op = "sell", !.attempt = 1, !.phase = "submit"]
    BY <1>3, <1>4 DEF Begin
  <2>. QED
    BY <1>1, <2>1 DEF NoCall
<1>5. ASSUME NEW r \in Session, End(r) PROVE FALSE
  <2>1. call'[s] = NoCall
    BY <1>3, <1>5 DEF End
  <2>. QED
    BY <1>1, <2>1 DEF NoCall
<1>6. ASSUME NEW r \in Session, CallStep(r) \/ ChainStep(r) PROVE FALSE
  <2>1. ~Idle(r) /\ \E q : call' = [call EXCEPT ![r] = q]
    BY <1>6, CallOfOne DEF CallStep, ChainStep, Land, Fail, Idle
  <2>. QED
    BY <1>1, <1>3, <2>1 DEF Idle
<1>7. ASSUME NEW r \in Session, LeaveLoop(r) PROVE FALSE
  BY <1>2, <1>4, <1>7 DEF LeaveLoop, traderVars
<1>8. ASSUME NEW r \in Session,
             Spawn(r) \/ FiltersReject(r) \/ FiltersPass(r) \/ PriceTask(r)
      PROVE  FALSE
  BY <1>2, <1>8 DEF Spawn, FiltersReject, FiltersPass, PriceTask, traderVars
<1>9. ASSUME NEW r \in Session, TickTaken(r) PROVE FALSE
  BY <1>2, <1>4, <1>7, <1>9 DEF TickTaken, RuggedTick, ExitTick, PlainTick, traderVars
<1>10. ASSUME NEW r \in Session, Exit(r) PROVE FALSE
  BY <1>2, <1>5, <1>7, <1>10 DEF Exit, DeadlineFires, FeedEnds, ExitSold, ExitReleased,
     ExitSellFailed, LastSold, LastReleased, traderVars
<1>11. ASSUME NEW r \in Session, Entry(r) PROVE pc[s] = "reserve"
  <2>1. Reserve(r)
    BY <1>2, <1>5, <1>11 DEF Entry, NoEntry, Fires, CapCheck, Unreserve, Bought,
       BoughtDry, DryReleased, BuyFailed, BalanceRead, Orphaned, traderVars
  <2>2. Begin(r, "buy") /\ pc[r] = "reserve"
    BY <1>2, <2>1 DEF Reserve, traderVars
  <2>3. r = s
    BY <1>3, <2>2 DEF Begin
  <2>. QED
    BY <2>2, <2>3
<1>12. CASE Tick \/ UNCHANGED vars
  BY <1>2, <1>12 DEF Tick, vars, traderVars
<1>13. CASE StraySettles
  BY <1>2, <1>13 DEF StraySettles, StrayStep, LandStray, FailStray
<1>. QED
  BY <1>6, <1>8, <1>9, <1>10, <1>11, <1>12, <1>13 DEF Next, Trades, Settles

\* No buy is started once the session's deadline has passed (README 118), in
\* whichever interleaving the sells of the tick outlast it, provided there is a
\* cooldown: with cooldown_secs = 0 it does not hold (session.rs 268-297).
THEOREM GraduationNoBuyAfterDeadline ==
    ASSUME Cooldown > 0
    PROVE  Safety => NoBuyAfterDeadline
<1>1. Init => Timely
  BY DEF Init, Timely
<1>2. IInv /\ Timely /\ [Next]_vars => Timely'
  BY TimelyStep DEF IInv
<1>3. IInv /\ Timely /\ [Next]_vars =>
          \A s \in Session : StartsBuy(s) => ~DeadlinePassed(s)
  <2>. SUFFICES ASSUME IInv, Timely, [Next]_vars, NEW s \in Session, StartsBuy(s)
                PROVE  ~DeadlinePassed(s)
    OBVIOUS
  <2>1. pc[s] = "reserve"
    BY StartsBuyAtReserve DEF IInv
  <2>. QED
    BY <2>1 DEF Timely
<1>. QED
  BY <1>1, <1>2, <1>3, GraduationInvariant, PTL DEF Safety, NoBuyAfterDeadline

=============================================================================
