-------------------------- MODULE CopyTradeProofs ---------------------------
(***************************************************************************)
(* Theorems of copy-trade mode, for every number of copies, wallets and    *)
(* tokens and every value of the limits: types, the slot ledger, the slot  *)
(* cap as an implementation of SlotCap, and that a copy begun with the     *)
(* daily cap used up never buys.  With a chain that answers, what the      *)
(* wallet holds is watched or announced, and stopping orphans nothing      *)
(* unless a copy is stopped before it began.                               *)
(*                                                                         *)
(* Unlike the books of graduation mode those of a copy do not say what it  *)
(* holds: copies may share a token, and sell each other's lots.  They say  *)
(* that somebody still answers for every lot.                              *)
(***************************************************************************)
EXTENDS CopyHistory, TraderProofs, DailySpendProofs, FiniteSetTheorems

MainTypes ==
    /\ main \in {"running", "waiting", "looked", "leaving", "exited"}
    /\ verdict \in {"none", "clean", "unclean"}
    /\ polls \in 0 .. ShutdownPolls
    /\ recent \in [Mint -> 0 .. MintCooldown]
    /\ recent_wallet \in [Wallet -> 0 .. WalletCooldown]

InboxTypes ==
    /\ followed \in [Task -> Wallet]
    /\ mirror \in [Task -> Seq(BOOLEAN)]
    /\ told \in [Task -> BOOLEAN]

DataTypes ==
    /\ feed \in [Task -> {"discovering", "polling", "closed"}]
    /\ held \in [Task -> 0 .. NoDeadline]
    /\ last_try \in [Task -> BOOLEAN]
    /\ alarm \in SUBSET Mint

\* TypeOK without the counter.
Typed ==
    /\ TraderTypeOK
    /\ spends \in Seq(SpendAge)
    /\ pc \in [Task -> Awaiting \cup Running]
    /\ MainTypes /\ InboxTypes /\ DataTypes

Held == {t \in Task : HoldsSlot(t)}

IInv == Typed /\ SlotLedger

USE DEF Task

-----------------------------------------------------------------------------
(* Types. *)

\* What a task or the main loop leaves alone keeps its type.
LEMMA KeptTypes ==
    ASSUME Typed
    PROVE  /\ UNCHANGED traderVars => TraderTypeOK'
           /\ UNCHANGED mainVars => MainTypes'
           /\ UNCHANGED inboxVars => InboxTypes'
           /\ UNCHANGED taskVars => DataTypes'
           /\ spends \in Seq(SpendAge)
           /\ TraderTypeOK /\ InboxTypes /\ DataTypes /\ MainTypes
  BY DEF Typed, TraderTypeOK, traderVars, MainTypes, mainVars, InboxTypes, inboxVars,
     DataTypes, taskVars

\* A task that goes somewhere is there then, and the others are where they were.
LEMMA GotoMoves ==
    ASSUME Typed, NEW t \in Task, NEW to, Goto(t, to)
    PROVE  /\ pc'[t] = to
           /\ \A r \in Task \ {t} : pc'[r] = pc[r]
           /\ to \in Awaiting \cup Running => pc' \in [Task -> Awaiting \cup Running]
  BY DEF Typed, Goto

\* A task that ends drops its receivers.
LEMMA UnsubscribeTypes ==
    ASSUME Typed, NEW t \in Task, Unsubscribe(t)
    PROVE  InboxTypes'
<1>1. << >> \in Seq(BOOLEAN)
  BY EmptySeq
<1>2. mirror' \in [Task -> Seq(BOOLEAN)]
  BY <1>1 DEF Unsubscribe, Typed, InboxTypes
<1>. QED
  BY <1>2 DEF Unsubscribe, Typed, InboxTypes

\* An alarm is for a token.
LEMMA AlertTypes ==
    ASSUME Typed, NEW t \in Task, Alert(t), UNCHANGED <<feed, held, last_try>>
    PROVE  DataTypes'
  BY TraderConstants DEF Alert, Typed, DataTypes

\* The gates, the buy and what follows it keep the types.
LEMMA EntryTypes ==
    ASSUME Typed, NEW t \in Task, Entry(t)
    PROVE  Typed'
<1>. USE KeptTypes
<1>1. CASE CapCheck(t)
  <2>1. spends' \in Seq(SpendAge)
    BY <1>1, EvictOldType DEF CapCheck
  <2>2. InboxTypes' /\ \E to \in {"reserve", "ended"} : Goto(t, to)
    BY <1>1, UnsubscribeTypes DEF CapCheck
  <2>3. pc' \in [Task -> Awaiting \cup Running]
    BY <2>2, GotoMoves DEF Awaiting, Running
  <2>. QED
    BY <1>1, <2>1, <2>2, <2>3 DEF CapCheck, Typed
<1>2. CASE Reserve(t)
  <2>1. TraderTypeOK' /\ \E to \in {"unreserve", "buy"} : Goto(t, to)
    BY <1>2, BeginEndTypes DEF Reserve
  <2>2. pc' \in [Task -> Awaiting \cup Running]
    BY <2>1, GotoMoves DEF Awaiting, Running
  <2>. QED
    BY <1>2, <2>1, <2>2 DEF Reserve, Typed
<1>3. CASE Unreserve(t)
  <2>1. InboxTypes' /\ pc' \in [Task -> Awaiting \cup Running]
    BY <1>3, UnsubscribeTypes, GotoMoves DEF Unreserve, Awaiting
  <2>. QED
    BY <1>3, <2>1 DEF Unreserve, Typed
<1>4. CASE BuyReturned(t)
  <2>1. TraderTypeOK' /\ spends' \in Seq(SpendAge)
    BY <1>4, BeginEndTypes, RecordEffect, DailySpendConstants DEF BuyReturned
  <2>2. \E to \in {"balance", "paper", "release"} : Goto(t, to)
    BY <1>4 DEF BuyReturned, Returns, Returned
  <2>3. pc' \in [Task -> Awaiting \cup Running]
    BY <2>2, GotoMoves DEF Awaiting, Running
  <2>. QED
    BY <1>4, <2>1, <2>3 DEF BuyReturned, Typed
<1>5. CASE BalanceRead(t) \/ PaperFails(t)
  <2>1. pc' \in [Task -> Awaiting \cup Running]
    BY <1>5, GotoMoves DEF BalanceRead, PaperFails, Awaiting, Running
  <2>. QED
    BY <1>5, <2>1 DEF BalanceRead, PaperFails, Typed
<1>6. CASE Orphaned(t)
  <2>1. DataTypes' /\ pc' \in [Task -> Awaiting \cup Running]
    BY <1>6, GotoMoves, AlertTypes DEF Orphaned, Running
  <2>. QED
    BY <1>6, <2>1 DEF Orphaned, Typed
<1>7. CASE BadMint(t)
  <2>1. InboxTypes' /\ pc' \in [Task -> Awaiting \cup Running]
    BY <1>7, UnsubscribeTypes, GotoMoves DEF BadMint, Awaiting
  <2>. QED
    BY <1>7, <2>1 DEF BadMint, Typed
<1>. QED
  BY <1>1, <1>2, <1>3, <1>4, <1>5, <1>6, <1>7 DEF Entry

\* So does starting a sell.
LEMMA StartSellTypes ==
    ASSUME Typed, NEW t \in Task, NEW final \in BOOLEAN, StartSell(t, final), InboxTypes'
    PROVE  Typed'
<1>1. TraderTypeOK'
  BY BeginEndTypes DEF StartSell, Typed
<1>2. pc' \in [Task -> Awaiting \cup Running]
  BY GotoMoves DEF StartSell, Awaiting
<1>3. MainTypes'
  BY KeptTypes DEF StartSell
<1>. QED
  BY <1>1, <1>2, <1>3 DEF StartSell, Typed, DataTypes

\* A frame read from the mirror leaves a queue of frames.
LEMMA MirrorTypes ==
    ASSUME Typed, NEW t \in Task, AtMirror(t)
    PROVE  InboxTypes'
<1>1. mirror[t] \in Seq(BOOLEAN) /\ mirror[t] # << >>
  BY DEF AtMirror, MirrorReady, Typed, InboxTypes
<1>2. Tail(mirror[t]) \in Seq(BOOLEAN)
  BY <1>1, HeadTailProperties
<1>. QED
  BY <1>2 DEF AtMirror, Typed, InboxTypes

\* The select loop of an open position and the way out keep the types.
LEMMA ObligedTypes ==
    ASSUME Typed, NEW t \in Task, Obliged(t) \/ PriceComes(t) \/ PriceTask(t)
    PROVE  Typed'
<1>. USE KeptTypes
<1>1. CASE DeadlineFires(t)
  BY <1>1, StartSellTypes DEF DeadlineFires
<1>2. CASE HearShutdown(t)
  <2>1. InboxTypes'
    BY <1>2 DEF HearShutdown, Typed, InboxTypes
  <2>. QED
    BY <1>2, <2>1, StartSellTypes DEF HearShutdown
<1>3. CASE Mirrored(t)
  BY <1>3, StartSellTypes, MirrorTypes DEF Mirrored
<1>4. CASE NotMirrored(t)
  BY <1>4, MirrorTypes DEF NotMirrored, Typed
<1>5. CASE RuggedTick(t) \/ ExitTick(t) \/ FeedEnds(t)
  BY <1>5, StartSellTypes DEF RuggedTick, ExitTick, FeedEnds, AtPrice
<1>6. CASE Sold(t)
  <2>1. TraderTypeOK' /\ pc' \in [Task -> Awaiting \cup Running]
    BY <1>6, BeginEndTypes, GotoMoves DEF Sold, Awaiting
  <2>. QED
    BY <1>6, <2>1 DEF Sold, Typed
<1>7. CASE BagHeld(t)
  <2>1. TraderTypeOK' /\ DataTypes'
    BY <1>7, BeginEndTypes, AlertTypes DEF BagHeld
  <2>2. \E to \in {"release", "hold"} : Goto(t, to)
    BY <1>7 DEF BagHeld
  <2>3. pc' \in [Task -> Awaiting \cup Running]
    BY <2>2, GotoMoves DEF Awaiting, Running
  <2>. QED
    BY <1>7, <2>1, <2>3 DEF BagHeld, Typed
<1>8. CASE Release(t)
  <2>1. InboxTypes' /\ pc' \in [Task -> Awaiting \cup Running]
    BY <1>8, UnsubscribeTypes, GotoMoves DEF Release, Awaiting
  <2>. QED
    BY <1>8, <2>1 DEF Release, Typed
<1>9. CASE PaperEntry(t)
  <2>1. pc' \in [Task -> Awaiting \cup Running]
    BY <1>9, GotoMoves DEF PaperEntry, Awaiting
  <2>. QED
    BY <1>9, <2>1 DEF PaperEntry, Typed
<1>10. CASE PriceTask(t)
  <2>1. DataTypes'
    BY <1>10 DEF PriceTask, Typed, DataTypes
  <2>. QED
    BY <1>10, <2>1 DEF PriceTask, Typed
<1>. QED
  BY <1>1, <1>2, <1>3, <1>4, <1>5, <1>6, <1>7, <1>8, <1>9, <1>10 DEF Obliged, PriceComes

\* A receiver that is behind loses its oldest frame, none of the others.
LEMMA QueuedType ==
    ASSUME NEW q \in Seq(BOOLEAN), NEW f \in BOOLEAN
    PROVE  Queued(q, f) \in Seq(BOOLEAN)
<1>1. Len(q) \in Nat /\ (q = << >> => Len(q) = 0)
  BY LenProperties
<1>2. ~(Len(q) < Backlog) => q # << >>
  BY <1>1, CopyTradeConstants
<1>3. (IF Len(q) < Backlog THEN q ELSE Tail(q)) \in Seq(BOOLEAN)
  BY <1>2, HeadTailProperties
<1>. QED
  BY <1>3, AppendProperties DEF Queued

\* The main loop and its shutdown keep the types.
LEMMA MainLoopTypes ==
    ASSUME Typed, Frame \/ Shutdown \/ MainStep
    PROVE  Typed'
<1>. USE KeptTypes
<1>1. ASSUME NEW f \in Sell, HandleSell(f)
      PROVE  Typed'
  <2>1. \A t \in Task : ClosesFor(t, f) \in BOOLEAN
    BY DEF ClosesFor, Sell
  <2>2. \A t \in Task : mirror[t] \in Seq(BOOLEAN)
    BY DEF Typed, InboxTypes
  <2>3. \A t \in Task : Queued(mirror[t], ClosesFor(t, f)) \in Seq(BOOLEAN)
    BY <2>1, <2>2, QueuedType
  <2>4. mirror' \in [Task -> Seq(BOOLEAN)]
    BY <1>1, <2>2, <2>3 DEF HandleSell
  <2>5. InboxTypes' /\ MainTypes'
    BY <1>1, <2>4 DEF HandleSell, Typed, InboxTypes
  <2>. QED
    BY <1>1, <2>5 DEF HandleSell, Typed
<1>2. ASSUME NEW w \in Wallet, NEW m \in Mint, SkipBuy(w, m)
      PROVE  Typed'
  <2>1. MainTypes'
    BY <1>2, CopyTradeConstants DEF SkipBuy, StampWallet, Typed, MainTypes
  <2>. QED
    BY <1>2, <2>1 DEF SkipBuy, Typed
<1>3. ASSUME NEW w \in Wallet, NEW t \in Task, CopyBuy(w, t)
      PROVE  Typed'
  <2>1. MainTypes'
    <3>1. 0 \in 0 .. MintCooldown /\ 0 \in 0 .. WalletCooldown
      BY CopyTradeConstants
    <3>2. recent' \in [Mint -> 0 .. MintCooldown]
      BY <1>3, <3>1 DEF CopyBuy, Typed, MainTypes
    <3>3. recent_wallet' \in [Wallet -> 0 .. WalletCooldown]
      BY <1>3, <3>1 DEF CopyBuy, StampWallet, Typed, MainTypes
    <3>. QED
      BY <1>3, <3>2, <3>3 DEF CopyBuy, Typed, MainTypes
  <2>2. InboxTypes' /\ pc' \in [Task -> Awaiting \cup Running]
    BY <1>3 DEF CopyBuy, Typed, InboxTypes, Running
  <2>. QED
    BY <1>3, <2>1, <2>2 DEF CopyBuy, Typed
<1>4. CASE Shutdown
  <2>1. \A t \in Task : Subscribed(t) \in BOOLEAN
    BY DEF Subscribed
  <2>2. told' \in [Task -> BOOLEAN]
    BY <1>4, <2>1 DEF Shutdown, TellAll
  <2>3. InboxTypes' /\ MainTypes'
    BY <1>4, <2>2 DEF Shutdown, Typed, InboxTypes, MainTypes
  <2>. QED
    BY <1>4, <2>3 DEF Shutdown, Typed
<1>5. CASE Wait
  <2>1. MainTypes'
    BY <1>5, CopyTradeConstants DEF Wait, Typed, MainTypes
  <2>. QED
    BY <1>5, <2>1 DEF Wait, Typed
<1>6. CASE Looked \/ LastLook
  <2>1. MainTypes'
    BY <1>6 DEF Looked, LastLook, Verdict, Typed, MainTypes
  <2>. QED
    BY <1>6, <2>1 DEF Looked, LastLook, Typed
<1>7. CASE Exit
  <2>1. MainTypes'
    BY <1>7 DEF Exit, Typed, MainTypes
  <2>. QED
    BY <1>7, <2>1 DEF Exit, Typed
<1>. QED
  BY <1>1, <1>2, <1>3, <1>4, <1>5, <1>6, <1>7 DEF Frame, MainStep

\* So does the passing of time.
LEMMA TickTypes ==
    ASSUME Typed, Tick
    PROVE  Typed'
<1>. USE KeptTypes
<1>1. spends' \in Seq(SpendAge)
  BY OlderEffect, DailySpendConstants DEF Tick, Typed
<1>2. held' \in [Task -> 0 .. NoDeadline]
  <2>1. MaxHold \in Nat /\ NoDeadline = MaxHold + 1
    BY CopyTradeConstants DEF NoDeadline
  <2>. QED
    BY <2>1 DEF Tick, Typed, DataTypes, HeldOlder, Older
<1>3. recent' \in [Mint -> 0 .. MintCooldown]
  BY CopyTradeConstants DEF Tick, Typed, MainTypes, RecentOlder, Older
<1>4. recent_wallet' \in [Wallet -> 0 .. WalletCooldown]
  BY CopyTradeConstants DEF Tick, Typed, MainTypes, RecentWalletOlder, Older
<1>5. DataTypes' /\ MainTypes'
  BY <1>2, <1>3, <1>4 DEF Tick, Typed, DataTypes, MainTypes
<1>. QED
  BY <1>1, <1>5 DEF Tick, Typed

\* Every step keeps the types, the counter's aside.
LEMMA TypedStep ==
    ASSUME Typed, [Next]_vars
    PROVE  Typed'
<1>. USE KeptTypes
<1>1. CASE UNCHANGED vars
  BY <1>1 DEF Typed, vars
<1>2. ASSUME TraderTypeOK', TaskUnchanged
      PROVE  Typed'
  BY <1>2 DEF Typed, TaskUnchanged
<1>3. ASSUME NEW t \in Task, CallStepAlive(t) \/ Settles(t)
      PROVE  Typed'
  BY <1>2, <1>3, CallStepTypes, ChainStepTypes DEF CallStepAlive, Trades, Settles, Typed
<1>4. CASE StraySettles
  BY <1>2, <1>4, StrayStepTypes DEF StraySettles, Typed
<1>. QED
  BY <1>1, <1>3, <1>4, EntryTypes, ObligedTypes, MainLoopTypes, TickTypes DEF Next, Step

-----------------------------------------------------------------------------
(* Slots. *)

\* What a step can do to the slots: nothing, ...
SlotsKept ==
    copy_positions' = copy_positions /\ Held' = Held /\ SlotHolders' = SlotHolders

\* ... or count a copy that found no slot free, ...
Overflows(t) ==
    /\ t \in Task \ Held
    /\ copy_positions' = copy_positions + 1
    /\ Held' = Held \cup {t} /\ SlotHolders' = SlotHolders

\* ... or give a free slot to a copy, ...
Reserves(t) ==
    /\ t \in Task \ Held
    /\ copy_positions < MaxPositions
    /\ copy_positions' = copy_positions + 1
    /\ Held' = Held \cup {t} /\ SlotHolders' = SlotHolders \cup {t}

\* ... or take back the count of a copy that found none, ...
Withdraws(t) ==
    /\ t \in Held
    /\ copy_positions' = copy_positions - 1
    /\ Held' = Held \ {t} /\ SlotHolders' = SlotHolders

\* ... or free a slot.
Frees(t) ==
    /\ t \in SlotHolders
    /\ copy_positions' = copy_positions - 1
    /\ Held' = Held \ {t} /\ SlotHolders' = SlotHolders \ {t}

SlotEffect ==
    \/ SlotsKept
    \/ \E t \in Task : Overflows(t) \/ Reserves(t) \/ Withdraws(t) \/ Frees(t)

\* A step of one task changes the sets of holders in that task only.
LEMMA OneTask ==
    ASSUME NEW t \in Task, \A r \in Task \ {t} : pc'[r] = pc[r]
    PROVE  /\ Held' = IF HoldsSlot(t)' THEN Held \cup {t} ELSE Held \ {t}
           /\ SlotHolders' = IF HoldsSlot(t)' /\ pc'[t] # "unreserve"
                               THEN SlotHolders \cup {t} ELSE SlotHolders \ {t}
<1>1. \A r \in Task \ {t} : (HoldsSlot(r)' <=> HoldsSlot(r)) /\ pc'[r] = pc[r]
  BY DEF HoldsSlot
<1>2. Held' = IF HoldsSlot(t)' THEN Held \cup {t} ELSE Held \ {t}
  <2>1. \A r \in Task : r \in Held' <=> HoldsSlot(r)'
    BY DEF Held
  <2>2. \A r \in Task : r \in Held <=> HoldsSlot(r)
    BY DEF Held
  <2>3. Held \subseteq Task /\ Held' \subseteq Task
    BY DEF Held
  <2>. QED
    BY <1>1, <2>1, <2>2, <2>3
<1>3. SlotHolders' = IF HoldsSlot(t)' /\ pc'[t] # "unreserve"
                      THEN SlotHolders \cup {t} ELSE SlotHolders \ {t}
  <2>1. \A r \in Task : r \in SlotHolders' <=> HoldsSlot(r)' /\ pc'[r] # "unreserve"
    BY DEF SlotHolders
  <2>2. \A r \in Task : r \in SlotHolders <=> HoldsSlot(r) /\ pc[r] # "unreserve"
    BY DEF SlotHolders
  <2>3. SlotHolders \subseteq Task /\ SlotHolders' \subseteq Task
    BY DEF SlotHolders
  <2>. QED
    BY <1>1, <2>1, <2>2, <2>3
<1>. QED
  BY <1>2, <1>3

\* A step that moves task t without counting it in or out keeps the slots.
LEMMA MoveKeepsSlots ==
    ASSUME Typed, NEW t \in Task, NEW to, Goto(t, to),
           copy_positions' = copy_positions,
           HoldsSlot(t)' <=> HoldsSlot(t), pc[t] # "unreserve", to # "unreserve"
    PROVE  SlotEffect
<1>1. pc'[t] = to /\ \A r \in Task \ {t} : pc'[r] = pc[r]
  BY GotoMoves
<1>2. Held' = Held
  BY <1>1, OneTask DEF Held
<1>3. SlotHolders' = SlotHolders
  BY <1>1, OneTask DEF SlotHolders
<1>. QED
  BY <1>2, <1>3 DEF SlotEffect, SlotsKept

\* The tasks count themselves in at the reservation and out once.
LEMMA EntrySlots ==
    ASSUME Typed, copy_positions \in Nat, NEW t \in Task, Entry(t)
    PROVE  SlotEffect
<1>1. CASE CapCheck(t)
  <2>1. PICK to \in {"reserve", "ended"} : Goto(t, to)
    BY <1>1 DEF CapCheck
  <2>2. pc[t] = "cap_check" /\ pc'[t] = to /\ copy_positions' = copy_positions
    BY <1>1, <2>1, GotoMoves DEF CapCheck
  <2>. QED
    BY <2>1, <2>2, MoveKeepsSlots DEF HoldsSlot
<1>2. CASE Reserve(t)
  <2>1. PICK to \in {"unreserve", "buy"} :
            Goto(t, to) /\ (to = "buy" => ~SlotsFull)
    BY <1>2 DEF Reserve
  <2>2. to = "buy" => copy_positions < MaxPositions
    BY <2>1, CopyTradeConstants DEF SlotsFull
  <2>3. /\ pc[t] = "reserve" /\ copy_positions' = copy_positions + 1
        /\ pc'[t] = to /\ \A r \in Task \ {t} : pc'[r] = pc[r]
    BY <1>2, <2>1, GotoMoves DEF Reserve, TakeSlot
  <2>4. t \notin Held /\ t \notin SlotHolders /\ HoldsSlot(t)'
    BY <2>3 DEF Held, SlotHolders, HoldsSlot
  <2>5. CASE to = "unreserve"
    <3>1. Overflows(t)
      BY <2>3, <2>4, <2>5, OneTask DEF Overflows, SlotHolders
    <3>. QED
      BY <3>1 DEF SlotEffect
  <2>6. CASE to = "buy"
    <3>1. Reserves(t)
      BY <2>2, <2>3, <2>4, <2>6, OneTask DEF Reserves
    <3>. QED
      BY <3>1 DEF SlotEffect
  <2>. QED
    BY <2>5, <2>6
<1>3. CASE Unreserve(t)
  <2>1. /\ pc[t] = "unreserve" /\ copy_positions' = copy_positions - 1
        /\ pc'[t] = "ended" /\ \A r \in Task \ {t} : pc'[r] = pc[r]
    BY <1>3, GotoMoves DEF Unreserve, FreeSlot
  <2>2. t \in Held /\ t \notin SlotHolders /\ ~HoldsSlot(t)'
    BY <2>1 DEF Held, SlotHolders, HoldsSlot
  <2>3. Withdraws(t)
    BY <2>1, <2>2, OneTask DEF Withdraws, SlotHolders
  <2>. QED
    BY <2>3 DEF SlotEffect
<1>4. CASE BuyReturned(t) \/ BalanceRead(t) \/ Orphaned(t) \/ PaperFails(t)
  <2>1. PICK to \in {"balance", "paper", "release", "hold"} : Goto(t, to)
    BY <1>4 DEF BuyReturned, Returns, Returned, BalanceRead, Orphaned, PaperFails
  <2>2. pc[t] \in {"buy", "balance", "paper"} /\ copy_positions' = copy_positions
    BY <1>4 DEF BuyReturned, BalanceRead, Orphaned, PaperFails
  <2>3. pc'[t] = to
    BY <2>1, GotoMoves
  <2>. QED
    BY <2>1, <2>2, <2>3, MoveKeepsSlots DEF HoldsSlot
<1>5. CASE BadMint(t)
  <2>1. Goto(t, "ended") /\ pc[t] = "cap_check" /\ copy_positions' = copy_positions
    BY <1>5 DEF BadMint
  <2>2. pc'[t] = "ended"
    BY <2>1, GotoMoves
  <2>. QED
    BY <2>1, <2>2, MoveKeepsSlots DEF HoldsSlot
<1>. QED
  BY <1>1, <1>2, <1>3, <1>4, <1>5 DEF Entry

\* An open position keeps its slot until it is released.
LEMMA ObligedSlots ==
    ASSUME Typed, NEW t \in Task, Obliged(t) \/ PriceComes(t)
    PROVE  SlotEffect
<1>1. CASE Release(t)
  <2>1. /\ pc[t] \in {"sold", "release"} /\ copy_positions' = copy_positions - 1
        /\ pc'[t] = "ended" /\ \A r \in Task \ {t} : pc'[r] = pc[r]
    BY <1>1, GotoMoves DEF Release, FreeSlot
  <2>2. t \in SlotHolders /\ ~HoldsSlot(t)'
    BY <2>1 DEF SlotHolders, HoldsSlot
  <2>3. Frees(t)
    BY <2>1, <2>2, OneTask DEF Frees
  <2>. QED
    BY <2>3 DEF SlotEffect
<1>2. CASE NotMirrored(t)
  <2>1. pc' = pc /\ copy_positions' = copy_positions
    BY <1>2 DEF NotMirrored
  <2>. QED
    BY <2>1 DEF SlotEffect, SlotsKept, Held, SlotHolders, HoldsSlot
<1>3. CASE ~Release(t) /\ ~NotMirrored(t)
  <2>1. PICK to \in {"sell", "sold", "release", "hold"} : Goto(t, to)
    BY <1>3 DEF Obliged, PriceComes, DeadlineFires, HearShutdown, Mirrored, FeedEnds,
       Sold, BagHeld, PaperEntry, RuggedTick, ExitTick, StartSell
  <2>2. pc[t] \in {"hold", "sell", "paper"} /\ copy_positions' = copy_positions
    BY <1>3 DEF Obliged, PriceComes, DeadlineFires, HearShutdown, Mirrored, FeedEnds,
       Sold, BagHeld, PaperEntry, RuggedTick, ExitTick, StartSell, AtSelect, AtMirror,
       AtPrice
  <2>3. pc'[t] = to
    BY <2>1, GotoMoves
  <2>. QED
    BY <2>1, <2>2, <2>3, MoveKeepsSlots DEF HoldsSlot
<1>. QED
  BY <1>1, <1>2, <1>3

\* Nothing else touches the slots.
LEMMA NextSlots ==
    ASSUME Typed, copy_positions \in Nat, [Next]_vars
    PROVE  SlotEffect
<1>1. ASSUME pc' = pc, copy_positions' = copy_positions
      PROVE  SlotEffect
  BY <1>1 DEF SlotEffect, SlotsKept, Held, SlotHolders, HoldsSlot
<1>2. ASSUME NEW w \in Wallet, NEW t \in Task, CopyBuy(w, t)
      PROVE  SlotEffect
  <2>1. Goto(t, "cap_check") /\ pc[t] = "idle" /\ copy_positions' = copy_positions
    BY <1>2 DEF CopyBuy, Goto
  <2>2. pc'[t] = "cap_check"
    BY <2>1, GotoMoves
  <2>. QED
    BY <2>1, <2>2, MoveKeepsSlots DEF HoldsSlot
<1>3. ASSUME NEW f \in Sell, HandleSell(f)
      PROVE  SlotEffect
  BY <1>1, <1>3 DEF HandleSell
<1>4. ASSUME NEW w \in Wallet, NEW m \in Mint, SkipBuy(w, m)
      PROVE  SlotEffect
  BY <1>1, <1>4 DEF SkipBuy
<1>5. CASE Shutdown \/ MainStep \/ Tick \/ StraySettles \/ UNCHANGED vars
  BY <1>1, <1>5 DEF Shutdown, MainStep, Wait, Looked, LastLook, Exit, Tick, StraySettles,
     TaskUnchanged, vars
<1>6. ASSUME NEW t \in Task, PriceTask(t) \/ CallStepAlive(t) \/ Settles(t)
      PROVE  SlotEffect
  BY <1>1, <1>6 DEF PriceTask, CallStepAlive, Trades, Settles, TaskUnchanged
<1>. QED
  BY <1>2, <1>3, <1>4, <1>5, <1>6, EntrySlots, ObligedSlots DEF Next, Step, Frame

\* The set of counted copies is finite, whatever copies there are.
LEMMA HeldFinite ==
    /\ IsFiniteSet(Held) /\ IsFiniteSet(Held')
    /\ Cardinality(Held) \in Nat
<1>1. Held \subseteq Task /\ Held' \subseteq Task
  BY DEF Held
<1>. QED
  BY <1>1, FS_Subset, FS_CardinalityType, TraderConstants

\* Counting the copies in and out keeps the counter equal to their number.
LEMMA LedgerStep ==
    ASSUME SlotLedger, SlotEffect
    PROVE  SlotLedger'
<1>1. Cardinality(Held) \in Nat /\ copy_positions = Cardinality(Held)
  BY HeldFinite DEF SlotLedger, Held
<1>2. copy_positions' = Cardinality(Held')
  <2>1. CASE SlotsKept
    BY <1>1, <2>1 DEF SlotsKept
  <2>2. ASSUME NEW t \in Task, Overflows(t) \/ Reserves(t)
        PROVE  copy_positions' = Cardinality(Held')
    BY <1>1, <2>2, HeldFinite, FS_AddElement DEF Overflows, Reserves
  <2>3. ASSUME NEW t \in Task, Withdraws(t) \/ Frees(t)
        PROVE  copy_positions' = Cardinality(Held')
    <3>1. t \in Held
      BY <2>3 DEF Withdraws, Frees, SlotHolders, Held
    <3>2. Cardinality(Held \ {t}) = Cardinality(Held) - 1
      BY <3>1, HeldFinite, FS_RemoveElement
    <3>. QED
      BY <1>1, <2>3, <3>2 DEF Withdraws, Frees
  <2>. QED
    BY <2>1, <2>2, <2>3 DEF SlotEffect
<1>. QED
  BY <1>2 DEF SlotLedger, Held

\* The counter counts, so it is a natural number: fetch_sub never underflows.
LEMMA CounterIsNatural ==
    ASSUME SlotLedger
    PROVE  copy_positions \in Nat
  BY HeldFinite DEF SlotLedger, Held

\* A fresh process satisfies the invariant.
LEMMA InitIInv == Init => IInv
<1>. SUFFICES ASSUME Init PROVE IInv
  OBVIOUS
<1>1. TraderTypeOK
  BY TraderInitTypes DEF Init
<1>2. pc \in [Task -> Awaiting \cup Running] /\ spends \in Seq(SpendAge)
  BY DEF Init, Awaiting
<1>3. MainTypes
  BY CopyTradeConstants DEF Init, MainTypes
<1>4. InboxTypes
  <2>1. (CHOOSE w \in Wallet : TRUE) \in Wallet
    BY CopyTradeConstants
  <2>2. << >> \in Seq(BOOLEAN)
    BY EmptySeq
  <2>. QED
    BY <2>1, <2>2 DEF Init, InboxTypes
<1>5. DataTypes
  <2>1. 0 \in 0 .. NoDeadline /\ NoDeadline \in 0 .. NoDeadline
    BY CopyTradeConstants DEF NoDeadline
  <2>2. held \in [Task -> 0 .. NoDeadline]
    BY <2>1 DEF Init
  <2>. QED
    BY <2>2 DEF Init, DataTypes
<1>6. SlotLedger
  <2>1. {t \in Task : HoldsSlot(t)} = {}
    BY DEF Init, HoldsSlot
  <2>. QED
    BY <2>1, FS_EmptySet DEF Init, SlotLedger
<1>. QED
  BY <1>1, <1>2, <1>3, <1>4, <1>5, <1>6 DEF IInv, Typed

\* Every step keeps it.
LEMMA NextIInv == IInv /\ [Next]_vars => IInv'
<1>. SUFFICES ASSUME IInv, [Next]_vars PROVE IInv'
  OBVIOUS
<1>1. Typed' /\ SlotEffect
  BY CounterIsNatural, TypedStep, NextSlots DEF IInv
<1>. QED
  BY <1>1, LedgerStep DEF IInv

\* IInv is an invariant of every run of copy mode.
THEOREM CopyInvariant == Safety => []IInv
  BY InitIInv, NextIInv, PTL DEF Safety

\* Every variable keeps its type: in particular the usize copy_positions is never
\* taken below zero by a fetch_sub.
THEOREM CopyTypes == Safety => []TypeOK
<1>1. IInv => TypeOK
  BY CounterIsNatural DEF IInv, Typed, TypeOK, MainTypes, InboxTypes, DataTypes
<1>. QED
  BY <1>1, CopyInvariant, PTL

\* The counter is the number of copies between fetch_add and fetch_sub, on every
\* way through copy_handle.
THEOREM CopySlotLedger == Safety => []SlotLedger
<1>1. IInv => SlotLedger
  BY DEF IInv
<1>. QED
  BY <1>1, CopyInvariant, PTL

\* A step that gets a slot found less than max_positions counted, and the copies
\* past the reservation are among the counted ones.
LEMMA SlotCapStep ==
    ASSUME IInv, [Next]_vars
    PROVE  [Slots!Next]_SlotHolders
<1>1. SlotEffect
  BY CounterIsNatural, NextSlots DEF IInv
<1>2. Cardinality(SlotHolders) <= copy_positions /\ Cardinality(SlotHolders) \in Nat
  <2>1. SlotHolders \subseteq Held
    BY DEF SlotHolders, Held
  <2>2. IsFiniteSet(SlotHolders) /\ Cardinality(SlotHolders) <= Cardinality(Held)
    BY <2>1, HeldFinite, FS_Subset
  <2>. QED
    BY <2>2, FS_CardinalityType DEF IInv, SlotLedger, Held
<1>3. ASSUME NEW t \in Task, Reserves(t)
      PROVE  Slots!Acquire(t)
  <2>1. t \notin SlotHolders
    BY <1>3 DEF Reserves, SlotHolders, Held
  <2>2. Cardinality(SlotHolders) < MaxPositions
    BY <1>2, <1>3, CounterIsNatural, CopyTradeConstants DEF Reserves, IInv
  <2>3. Slots!Cardinality(SlotHolders) = Cardinality(SlotHolders)
    BY DEF Slots!Cardinality, Cardinality
  <2>. QED
    BY <1>3, <2>1, <2>2, <2>3 DEF Reserves, Slots!Acquire
<1>4. ASSUME NEW t \in Task, Frees(t)
      PROVE  Slots!Release(t)
  BY <1>4 DEF Frees, Slots!Release
<1>5. ASSUME NEW t \in Task, Overflows(t) \/ Withdraws(t)
      PROVE  SlotHolders' = SlotHolders
  BY <1>5 DEF Overflows, Withdraws
<1>. QED
  BY <1>1, <1>3, <1>4, <1>5 DEF SlotEffect, SlotsKept, Slots!Next

\* Copy mode implements the slot cap: a copy gets past its reservation only when
\* fewer than max_positions others are past theirs, whatever the interleaving of
\* fetch_add, comparison and fetch_sub.
THEOREM CopyIsSlotCap == Safety => IsSlotCap
<1>1. Init => Slots!Init
  BY DEF Init, SlotHolders, HoldsSlot, Slots!Init
<1>2. IInv /\ [Next]_vars => [Slots!Next]_SlotHolders
  BY SlotCapStep
<1>. QED
  BY <1>1, <1>2, CopyInvariant, PTL DEF Safety, IsSlotCap, Slots!Spec

-----------------------------------------------------------------------------
(* The books: with a chain that answers, somebody answers for what the       *)
(* wallet holds, or the operator was told.                                   *)

\* Which call a task has under way.
CallOf(t) ==
    /\ pc[t] \in {"buy", "sell"} => ~Idle(t) /\ call[t].op = pc[t] /\ Mode(t)
    /\ pc[t] \notin {"buy", "sell"} => Idle(t)

\* A task attends to its token from its buy to its sale, alone or not.
Attends(t) == Answers(t) \/ pc[t] \in {"balance", "hold"}

Attended ==
    \A m \in Mint : wallet[m] > 0 =>
        m \in alarm \/ \E t \in Task : MintOf[t] = m /\ Attends(t)

Books == NoStray /\ Paper /\ Attended /\ \A t \in Task : CallOf(t)

\* A task without a call under way answers for nothing by one.
LEMMA IdleAnswersNot ==
    ASSUME NEW t \in Task, Idle(t)
    PROVE  ~Answers(t)
  BY DEF Idle, Answers, CarriedOut

\* A step of one task that trades nothing: who attends goes on or raises an alarm.
LEMMA BooksOfOne ==
    ASSUME Typed, Books, NEW t \in Task, UNCHANGED <<wallet, stray, dry_run>>,
           alarm \subseteq alarm', CallOf(t)',
           \A r \in Task \ {t} : pc'[r] = pc[r] /\ call'[r] = call[r],
           Attends(t) /\ ~dry_run => Attends(t)' \/ MintOf[t] \in alarm'
    PROVE  Books'
<1>1. \A r \in Task \ {t} : CallOf(r)' /\ (Attends(r) => Attends(r)')
  BY DEF Books, CallOf, Attends, Answers, Idle, Mode, Flying, CarriedOut
<1>2. Attended'
  <2>. SUFFICES ASSUME NEW m \in Mint, wallet'[m] > 0
                PROVE  m \in alarm' \/ \E r \in Task : MintOf[r] = m /\ Attends(r)'
    BY DEF Attended
  <2>1. ~dry_run
    BY DEF Books, Paper, Typed, TraderTypeOK
  <2>2. CASE m \in alarm
    BY <2>2
  <2>3. ASSUME NEW r \in Task, MintOf[r] = m, Attends(r)
        PROVE  m \in alarm' \/ \E d \in Task : MintOf[d] = m /\ Attends(d)'
    BY <1>1, <2>1, <2>3
  <2>. QED
    BY <2>2, <2>3 DEF Books, Attended
<1>. QED
  BY <1>1, <1>2 DEF Books, NoStray, Paper

\* A task that only moves on, away from no token.
LEMMA MoveBooks ==
    ASSUME Typed, Books, NEW t \in Task, UNCHANGED traderVars, alarm \subseteq alarm',
           NEW to, Goto(t, to), pc[t] \notin {"buy", "sell"}, to \notin {"buy", "sell"},
           pc[t] \in {"balance", "hold"} => to = "hold" \/ MintOf[t] \in alarm'
    PROVE  Books'
<1>1. pc'[t] = to /\ \A r \in Task \ {t} : pc'[r] = pc[r]
  BY GotoMoves
<1>2. Idle(t) /\ UNCHANGED <<wallet, stray, call, dry_run>>
  BY DEF Books, CallOf, traderVars
<1>3. CallOf(t)'
  BY <1>1, <1>2 DEF CallOf, Idle
<1>4. Attends(t) => Attends(t)' \/ MintOf[t] \in alarm'
  BY <1>1, <1>2, IdleAnswersNot DEF Attends
<1>. QED
  BY <1>1, <1>2, <1>3, <1>4, BooksOfOne

\* A task that begins a call.
LEMMA BeginBooks ==
    ASSUME Typed, Books, NEW t \in Task, alarm' = alarm,
           NEW op \in {"buy", "sell"}, Begin(t, op), Goto(t, op),
           op = "buy" => pc[t] = "reserve"
    PROVE  Books'
<1>1. pc'[t] = op /\ \A r \in Task \ {t} : pc'[r] = pc[r]
  BY GotoMoves
<1>2. /\ UNCHANGED <<wallet, stray, dry_run>> /\ Idle(t)
      /\ \A r \in Task \ {t} : call'[r] = call[r]
  BY DEF Begin, Typed, TraderTypeOK
<1>3. ~Idle(t)' /\ call'[t].op = op /\ Mode(t)' /\ (op = "sell" => Answers(t)')
  BY AnswersFromTheStart DEF Typed
<1>4. CallOf(t)'
  BY <1>1, <1>3 DEF CallOf
<1>5. Attends(t) => Attends(t)'
  BY <1>2, <1>3, IdleAnswersNot DEF Attends
<1>. QED
  BY <1>1, <1>2, <1>4, <1>5, BooksOfOne

\* A task that takes the result of its call.
LEMMA EndBooks ==
    ASSUME Typed, Books, NEW t \in Task, End(t), alarm \subseteq alarm',
           NEW to \in {"balance", "paper", "release", "sold", "hold"}, Goto(t, to),
           Answers(t) /\ ~dry_run => to = "balance" \/ MintOf[t] \in alarm',
           pc[t] \in {"buy", "sell"}
    PROVE  Books'
<1>1. pc'[t] = to /\ \A r \in Task \ {t} : pc'[r] = pc[r]
  BY GotoMoves
<1>2. /\ UNCHANGED <<wallet, stray, dry_run>> /\ Idle(t)'
      /\ \A r \in Task \ {t} : call'[r] = call[r]
  BY EndEffect DEF End, Typed, TraderTypeOK
<1>3. CallOf(t)'
  BY <1>1, <1>2 DEF CallOf
<1>4. Attends(t) /\ ~dry_run => Attends(t)' \/ MintOf[t] \in alarm'
  BY <1>1 DEF Attends
<1>. QED
  BY <1>1, <1>2, <1>3, <1>4, BooksOfOne

\* The gates, the buy and what follows it.
LEMMA EntryBooks ==
    ASSUME Typed, Books, NEW t \in Task, Entry(t)
    PROVE  Books'
<1>1. CASE CapCheck(t)
  <2>1. \E to \in {"reserve", "ended"} : Goto(t, to)
    BY <1>1 DEF CapCheck
  <2>. QED
    BY <1>1, <2>1, MoveBooks DEF CapCheck, taskVars
<1>2. CASE Reserve(t)
  <2>1. CASE Goto(t, "unreserve") /\ UNCHANGED traderVars
    BY <1>2, <2>1, MoveBooks DEF Reserve, taskVars
  <2>2. CASE Goto(t, "buy") /\ Begin(t, "buy")
    BY <1>2, <2>2, BeginBooks DEF Reserve, taskVars
  <2>. QED
    BY <1>2, <2>1, <2>2 DEF Reserve
<1>3. CASE Unreserve(t) \/ BadMint(t)
  BY <1>3, MoveBooks DEF Unreserve, BadMint, taskVars
<1>4. CASE BuyReturned(t)
  <2>1. /\ call[t].phase \in {"ok", "err", "dry"} /\ End(t) /\ alarm' = alarm
        /\ pc[t] = "buy" /\ call[t].op = "buy"
    BY <1>4 DEF BuyReturned, Returned, taskVars, Books, CallOf
  <2>2. CASE call[t].phase = "ok"
    <3>1. Goto(t, "balance")
      BY <1>4, <2>2 DEF BuyReturned, Returns
    <3>. QED
      BY <2>1, <3>1, EndBooks
  <2>3. CASE call[t].phase # "ok"
    <3>1. PICK to \in {"paper", "release"} : Goto(t, to)
      BY <1>4, <2>1, <2>3 DEF BuyReturned, Returns
    <3>2. ~Answers(t)
      BY <2>1, <2>3 DEF Answers, CarriedOut
    <3>. QED
      BY <2>1, <3>1, <3>2, EndBooks
  <2>. QED
    BY <2>2, <2>3
<1>5. CASE BalanceRead(t)
  BY <1>5, MoveBooks DEF BalanceRead, taskVars
<1>6. CASE Orphaned(t)
  BY <1>6, MoveBooks DEF Orphaned, Alert
<1>7. CASE PaperFails(t)
  BY <1>7, MoveBooks DEF PaperFails, taskVars
<1>. QED
  BY <1>1, <1>2, <1>3, <1>4, <1>5, <1>6, <1>7 DEF Entry

\* The select loop of an open position and the way out.
LEMMA ObligedBooks ==
    ASSUME Typed, Books, NEW t \in Task, Obliged(t) \/ PriceComes(t)
    PROVE  Books'
<1>1. CASE \/ DeadlineFires(t) \/ HearShutdown(t) \/ Mirrored(t) \/ FeedEnds(t)
           \/ RuggedTick(t) \/ ExitTick(t)
  <2>1. \E final \in BOOLEAN : StartSell(t, final)
    BY <1>1 DEF DeadlineFires, HearShutdown, Mirrored, FeedEnds, RuggedTick, ExitTick
  <2>2. Begin(t, "sell") /\ Goto(t, "sell") /\ alarm' = alarm
    BY <2>1 DEF StartSell
  <2>. QED
    BY <2>2, BeginBooks
<1>2. CASE NotMirrored(t)
  <2>1. UNCHANGED <<wallet, stray, call, dry_run, pc, alarm>>
    BY <1>2 DEF NotMirrored, traderVars, taskVars
  <2>2. CallOf(t)' /\ (Attends(t) => Attends(t)')
    BY <2>1 DEF Books, CallOf, Attends, Answers, Idle, Mode, Flying, CarriedOut
  <2>. QED
    BY <2>1, <2>2, BooksOfOne
<1>3. CASE Sold(t)
  <2>1. /\ call[t].phase \in {"ok", "dry"} /\ End(t) /\ alarm' = alarm
        /\ pc[t] = "sell" /\ call[t].op = "sell" /\ Goto(t, "sold") /\ Mode(t)
    BY <1>3 DEF Sold, taskVars, Books, CallOf
  <2>2. Answers(t) => dry_run
    BY <2>1 DEF Answers, CarriedOut, Mode
  <2>. QED
    BY <2>1, <2>2, EndBooks
<1>4. CASE BagHeld(t)
  <2>1. PICK to \in {"release", "hold"} : Goto(t, to)
    BY <1>4 DEF BagHeld
  <2>. QED
    BY <1>4, <2>1, EndBooks DEF BagHeld, Alert
<1>5. CASE Release(t)
  BY <1>5, MoveBooks DEF Release, taskVars
<1>6. CASE PaperEntry(t)
  BY <1>6, MoveBooks DEF PaperEntry, taskVars
<1>. QED
  BY <1>1, <1>2, <1>3, <1>4, <1>5, <1>6 DEF Obliged, PriceComes

\* The calls and the chain go on, each for the token of its task.
LEMMA TradeBooks ==
    ASSUME ~Lossy, Typed, Books, NEW t \in Task, CallStepAlive(t) \/ Settles(t)
    PROVE  Books'
<1>1. UNCHANGED <<pc, alarm>> /\ (CallStep(t) \/ ChainStep(t))
  BY DEF CallStepAlive, Trades, Settles, TaskUnchanged, taskVars
<1>2. CallOf(t) /\ ~Idle(t) /\ pc[t] \in {"buy", "sell"} /\ Mode(t)
  <2>1. ~Idle(t)
    BY <1>1, CallStepEffect, ChainStepEffect DEF Typed, Flying, Idle
  <2>. QED
    BY <2>1 DEF Books, CallOf
<1>3. \A r \in Task \ {t} : call'[r] = call[r]
  BY <1>1, CallStepEffect, ChainStepEffect DEF Typed, TraderTypeOK
<1>4. CASE CallStep(t)
  <2>1. /\ ~Idle(t)' /\ call'[t].op = call[t].op /\ Mode(t)'
        /\ Answers(t) => Answers(t)'
    BY <1>2, <1>4, AnswersOn DEF Typed
  <2>2. UNCHANGED <<wallet, stray, dry_run>>
    BY <1>4, CallStepEffect DEF Typed
  <2>. QED
    BY <1>1, <1>2, <1>3, <2>1, <2>2, BooksOfOne DEF CallOf, Attends
<1>5. CASE ChainStep(t)
  <2>1. /\ ~Idle(t)' /\ call'[t].op = call[t].op /\ Mode(t)' /\ ~dry_run
        /\ wallet'[MintOf[t]] > 0 => wallet[MintOf[t]] > 0 \/ Answers(t)'
        /\ \A d \in Task :
               /\ MintOf[d] = MintOf[t] /\ Answers(d) /\ wallet'[MintOf[t]] > 0
               => Answers(d)' \/ Answers(t)'
    BY <1>2, <1>5, AnswersSettled DEF Typed
  <2>2. /\ UNCHANGED <<stray, dry_run>>
        /\ \A m \in Mint \ {MintOf[t]} : wallet'[m] = wallet[m]
    BY <1>5, ChainStepEffect DEF Typed
  <2>3. \A r \in Task : CallOf(r)'
    BY <1>1, <1>2, <1>3, <2>1, <2>2 DEF Books, CallOf, Idle, Mode
  <2>4. ASSUME NEW m \in Mint, wallet'[m] > 0, m \notin alarm
        PROVE  \E r \in Task : MintOf[r] = m /\ Attends(r)'
    <3>1. CASE m # MintOf[t]
      <4>1. PICK r \in Task : MintOf[r] = m /\ Attends(r)
        BY <2>2, <2>4, <3>1 DEF Books, Attended
      <4>2. call'[r] = call[r] /\ wallet'[MintOf[r]] = wallet[MintOf[r]]
        BY <1>3, <2>2, <3>1, <4>1
      <4>3. Attends(r)'
        BY <1>1, <4>1, <4>2 DEF Attends, Answers, Idle, Flying, CarriedOut
      <4>. QED
        BY <4>1, <4>3
    <3>2. CASE m = MintOf[t] /\ ~Answers(t)'
      <4>1. PICK r \in Task : MintOf[r] = m /\ Attends(r)
        BY <2>1, <2>4, <3>2 DEF Books, Attended
      <4>2. Attends(r)'
        BY <1>1, <2>1, <2>4, <3>2, <4>1 DEF Attends
      <4>. QED
        BY <4>1, <4>2
    <3>3. CASE m = MintOf[t] /\ Answers(t)'
      BY <3>3 DEF Attends
    <3>. QED
      BY <3>1, <3>2, <3>3
  <2>. QED
    BY <1>1, <2>1, <2>2, <2>3, <2>4 DEF Books, NoStray, Paper, Attended
<1>. QED
  BY <1>1, <1>4, <1>5

\* Every step keeps the books.
LEMMA BooksStep ==
    ASSUME ~Lossy, Typed, Books, [Next]_vars
    PROVE  Books'
<1>1. ASSUME UNCHANGED <<traderVars, pc, alarm>>
      PROVE  Books'
  BY <1>1 DEF Books, NoStray, Paper, Attended, CallOf, Attends, Answers, Idle, Mode,
     Flying, CarriedOut, traderVars
<1>2. ASSUME NEW w \in Wallet, NEW t \in Task, CopyBuy(w, t)
      PROVE  Books'
  <2>1. Goto(t, "cap_check")
    BY <1>2 DEF CopyBuy, Goto
  <2>. QED
    BY <1>2, <2>1, MoveBooks DEF CopyBuy, taskVars
<1>3. CASE \/ \E f \in Sell : HandleSell(f)
           \/ \E w \in Wallet, m \in Mint : SkipBuy(w, m)
  BY <1>1, <1>3 DEF HandleSell, SkipBuy, taskVars
<1>4. CASE Shutdown \/ MainStep \/ Tick \/ UNCHANGED vars
  BY <1>1, <1>4 DEF Shutdown, MainStep, Wait, Looked, LastLook, Exit, Tick, taskVars, vars
<1>5. ASSUME NEW t \in Task, PriceTask(t)
      PROVE  Books'
  BY <1>1, <1>5 DEF PriceTask
<1>6. CASE StraySettles
  BY <1>6, NoStraySettles DEF StraySettles, Books
<1>. QED
  BY <1>2, <1>3, <1>4, <1>5, <1>6, EntryBooks, ObligedBooks, TradeBooks
     DEF Next, Step, Frame

\* The wallet starts empty.
LEMMA BooksInit == Init => Books
  BY DEF Init, TraderInit, Books, NoStray, Paper, Attended, CallOf, Idle, NoCall

\* With a chain that answers, whatever the wallet holds of a token, some copy of
\* the token attends to it or an alarm was raised: however many copies share the
\* token, and whether the balance reads succeed or not.
THEOREM CopyBooks ==
    ASSUME ~Lossy
    PROVE  Safety => []Books
<1>1. IInv /\ Books /\ [Next]_vars => Books'
  BY BooksStep DEF IInv
<1>. QED
  BY <1>1, BooksInit, CopyInvariant, PTL DEF Safety

\* Who attends has a slot.
LEMMA AttendantHoldsSlot ==
    ASSUME Books, NEW t \in Task, Attends(t)
    PROVE  HoldsSlot(t)
  BY IdleAnswersNot DEF Books, CallOf, Attends, HoldsSlot

\* What the wallet holds is watched by a copy with a slot, or the operator was told.
THEOREM CopyLeftoverIsAnnounced ==
    ASSUME ~Lossy
    PROVE  Safety => []LeftoverIsAnnounced
<1>1. Books => LeftoverIsAnnounced
  BY AttendantHoldsSlot DEF Books, Attended, LeftoverIsAnnounced
<1>. QED
  BY <1>1, CopyBooks, PTL

-----------------------------------------------------------------------------
(* The shutdown. *)

\* Once the main loop is left nobody is on the way to a slot, and once the
\* shutdown has looked and found none taken, none is.
Parting ==
    /\ main # "running" => \A t \in Task : ~Starting(t)
    /\ main \in {"leaving", "exited"} =>
           verdict = "unclean" \/ \A t \in Task : ~HoldsSlot(t)

\* A copy gets a slot only on its way from its start.
LEMMA PartingMove ==
    ASSUME Typed, Parting, UNCHANGED <<main, verdict>>, NEW t \in Task, NEW to,
           Goto(t, to), HoldsSlot(t) \/ Starting(t), ~Starting(t) => to \notin
               {"cap_check", "reserve", "unreserve"}
    PROVE  Parting'
<1>1. pc'[t] = to /\ \A r \in Task \ {t} : pc'[r] = pc[r]
  BY GotoMoves
<1>2. main # "running" => ~Starting(t)
  BY DEF Parting
<1>3. main # "running" => \A r \in Task : ~Starting(r)'
  BY <1>1, <1>2 DEF Parting, Starting
<1>4. main \in {"leaving", "exited"} =>
          verdict = "unclean" \/ \A r \in Task : ~HoldsSlot(r)'
  BY <1>1, <1>2 DEF Parting, HoldsSlot
<1>. QED
  BY <1>3, <1>4 DEF Parting

\* Every step keeps it, if no shutdown comes before a spawned copy has begun.
LEMMA PartingStep ==
    ASSUME ~SlowStart, IInv, Parting, [Next]_vars
    PROVE  Parting'
<1>. Typed
  BY DEF IInv
<1>1. ASSUME UNCHANGED <<main, verdict, pc>>
      PROVE  Parting'
  BY <1>1 DEF Parting, Starting, HoldsSlot
<1>2. ASSUME NEW t \in Task, Entry(t)
      PROVE  Parting'
  <2>1. /\ UNCHANGED <<main, verdict>>
        /\ pc[t] \in {"cap_check", "reserve", "unreserve", "buy", "balance", "paper"}
    BY <1>2 DEF Entry, BadMint, CapCheck, Reserve, Unreserve, BuyReturned, BalanceRead,
       Orphaned, PaperFails, mainVars
  <2>2. CASE Starting(t)
    <3>1. \E to \in {"reserve", "unreserve", "buy", "ended"} : Goto(t, to)
      BY <1>2, <2>2 DEF Entry, BadMint, CapCheck, Reserve, Unreserve, BuyReturned, BalanceRead,
         Orphaned, PaperFails, Starting
    <3>. QED
      BY <2>1, <2>2, <3>1, PartingMove
  <2>3. CASE ~Starting(t)
    <3>1. \E to \in {"balance", "paper", "release", "hold"} : Goto(t, to)
      BY <1>2, <2>3 DEF Entry, BadMint, CapCheck, Reserve, Unreserve, BuyReturned, BalanceRead,
         Orphaned, PaperFails, Starting, Returns, Returned
    <3>2. HoldsSlot(t)
      BY <2>1, <2>3 DEF Starting, HoldsSlot
    <3>. QED
      BY <2>1, <2>3, <3>1, <3>2, PartingMove
  <2>. QED
    BY <2>2, <2>3
<1>3. ASSUME NEW t \in Task, Obliged(t) \/ PriceComes(t)
      PROVE  Parting'
  <2>1. UNCHANGED <<main, verdict>>
    BY <1>3 DEF Obliged, PriceComes, DeadlineFires, HearShutdown, Mirrored, NotMirrored,
       FeedEnds, Sold, BagHeld, Release, PaperEntry, RuggedTick, ExitTick, StartSell, mainVars
  <2>2. CASE NotMirrored(t)
    BY <1>1, <2>1, <2>2 DEF NotMirrored
  <2>3. CASE ~NotMirrored(t)
    <3>1. /\ pc[t] \in {"hold", "sell", "sold", "release", "paper"}
          /\ \E to \in {"sell", "sold", "release", "hold", "ended"} : Goto(t, to)
      BY <1>3, <2>3 DEF Obliged, PriceComes, DeadlineFires, HearShutdown, Mirrored,
         FeedEnds, Sold, BagHeld, Release, PaperEntry, RuggedTick, ExitTick, StartSell,
         AtSelect, AtMirror, AtPrice
    <3>2. HoldsSlot(t)
      BY <3>1 DEF HoldsSlot
    <3>. QED
      BY <2>1, <3>1, <3>2, PartingMove
  <2>. QED
    BY <2>2, <2>3
<1>4. CASE Frame
  BY <1>4 DEF Frame, HandleSell, SkipBuy, CopyBuy, Parting, mainVars
<1>5. CASE Shutdown
  BY <1>5 DEF Shutdown, Parting, Starting
<1>6. CASE LastLook
  <2>1. verdict' = Verdict /\ main = "looked" /\ main' = "leaving" /\ pc' = pc
    BY <1>6 DEF LastLook
  <2>2. \A t \in Task : ~Starting(t)'
    BY <2>1 DEF Parting, Starting
  <2>3. verdict' # "unclean" => \A t \in Task : ~HoldsSlot(t)'
    <3>. SUFFICES ASSUME verdict' # "unclean" PROVE \A t \in Task : ~HoldsSlot(t)
      BY <2>1 DEF HoldsSlot
    <3>1. ~(copy_positions > 0)
      BY <2>1 DEF Verdict
    <3>2. Cardinality(Held) = 0
      BY <3>1, HeldFinite DEF IInv, SlotLedger, Held
    <3>3. Held = {}
      BY <3>2, HeldFinite, FS_EmptySet
    <3>. QED
      BY <3>3 DEF Held
  <2>. QED
    BY <2>2, <2>3 DEF Parting
<1>7. CASE Wait \/ Looked
  BY <1>7 DEF Wait, Looked, Parting, Starting, HoldsSlot
<1>8. CASE Exit
  BY <1>8 DEF Exit, Parting, Starting, HoldsSlot
<1>9. ASSUME NEW t \in Task, PriceTask(t) \/ CallStepAlive(t) \/ Settles(t)
      PROVE  Parting'
  BY <1>1, <1>9 DEF PriceTask, CallStepAlive, Trades, Settles, TaskUnchanged, mainVars
<1>10. CASE StraySettles \/ Tick \/ UNCHANGED vars
  BY <1>1, <1>10 DEF StraySettles, TaskUnchanged, Tick, mainVars, vars
<1>. QED
  BY <1>2, <1>3, <1>4, <1>5, <1>6, <1>7, <1>8, <1>9, <1>10 DEF Next, Step, MainStep

\* Stopping does not orphan tokens (main.rs 222-223): what the process leaves in the
\* wallet, or what still comes in after it, was announced.  It holds for any number of
\* looks the shutdown takes, and for copies that share a token; a chain that loses
\* answers or a copy stopped before it began would break it.
THEOREM CopyNoOrphanOnShutdown ==
    ASSUME ~Lossy, ~SlowStart
    PROVE  Safety => []NoOrphanOnShutdown
<1>1. Init => Parting
  BY DEF Init, Parting
<1>2. IInv /\ Parting /\ [Next]_vars => Parting'
  BY PartingStep
<1>3. Books /\ Parting => NoOrphanOnShutdown
  <2>. SUFFICES ASSUME Books, Parting, Dead, NEW m \in Mint, wallet[m] > 0
                PROVE  m \in alarm \/ verdict = "unclean"
    BY DEF NoOrphanOnShutdown
  <2>. QED
    BY AttendantHoldsSlot DEF Books, Attended, Parting, Dead
<1>. QED
  BY <1>1, <1>2, <1>3, CopyInvariant, CopyBooks, PTL DEF Safety

-----------------------------------------------------------------------------
(* The daily cap. *)

\* What the list of spends does in a step: entries that count stay, unless time
\* passes.
LEMMA SpendsStep ==
    ASSUME Typed, [Next]_vars, ~Tick
    PROVE  Cardinality(FreshIn(spends)) <= Cardinality(FreshIn(spends'))
<1>1. spends \in Seq(SpendAge) /\ Cardinality(FreshIn(spends)) \in Nat
  BY FreshCount DEF Typed
<1>2. CASE spends' = spends
  BY <1>1, <1>2
<1>3. ASSUME NEW t \in Task, CapCheck(t)
      PROVE  Cardinality(FreshIn(spends)) <= Cardinality(FreshIn(spends'))
  BY <1>1, <1>3, EvictOldKeepsFresh DEF CapCheck
<1>4. ASSUME NEW t \in Task, BuyReturned(t)
      PROVE  Cardinality(FreshIn(spends)) <= Cardinality(FreshIn(spends'))
  BY <1>1, <1>4, RecordKeepsFresh, DailySpendConstants DEF BuyReturned
<1>5. ASSUME NEW t \in Task, Entry(t), ~CapCheck(t), ~BuyReturned(t)
      PROVE  spends' = spends
  BY <1>5 DEF Entry, BadMint, Reserve, Unreserve, BalanceRead, Orphaned, PaperFails
<1>6. ASSUME NEW t \in Task, Obliged(t) \/ PriceComes(t) \/ PriceTask(t)
      PROVE  spends' = spends
  BY <1>6 DEF Obliged, PriceComes, DeadlineFires, HearShutdown, Mirrored, NotMirrored,
     FeedEnds, Sold, BagHeld, Release, PaperEntry, RuggedTick, ExitTick, StartSell, PriceTask
<1>7. CASE Frame \/ Shutdown \/ MainStep \/ StraySettles \/ UNCHANGED vars
  BY <1>2, <1>7 DEF Frame, HandleSell, SkipBuy, CopyBuy, Shutdown, MainStep, Wait,
     Looked, LastLook, Exit, StraySettles, TaskUnchanged, vars
<1>8. ASSUME NEW t \in Task, CallStepAlive(t) \/ Settles(t)
      PROVE  spends' = spends
  BY <1>8 DEF CallStepAlive, Trades, Settles, TaskUnchanged
<1>. QED
  BY <1>2, <1>3, <1>4, <1>5, <1>6, <1>7, <1>8 DEF Next, Step

\* A copy begun with the cap used up is still at its check, and the cap still is.
Barred ==
    \A t \in barred :
        /\ t \in Task /\ pc[t] \in {"cap_check", "ended"}
        /\ pc[t] = "cap_check" => Cardinality(FreshIn(spends)) >= CapTrades

\* A task at its check goes on from there to where the check sends it, and one
\* that has ended nowhere.
LEMMA BarredMoves ==
    ASSUME Typed, [Next]_vars, NEW t \in Task, pc[t] \in {"cap_check", "ended"}
    PROVE  \/ pc'[t] = pc[t]
           \/ pc[t] = "cap_check" /\ pc'[t] = "ended"
           \/ pc[t] = "cap_check" /\ pc'[t] = "reserve" /\ SpendAllowed
<1>1. ASSUME NEW r \in Task, Entry(r)
      PROVE  \/ pc'[t] = pc[t]
             \/ pc[t] = "cap_check" /\ pc'[t] = "ended"
             \/ pc[t] = "cap_check" /\ pc'[t] = "reserve" /\ SpendAllowed
  <2>1. CASE CapCheck(r) \/ BadMint(r)
    BY <2>1, GotoMoves DEF CapCheck, BadMint
  <2>2. CASE ~CapCheck(r) /\ ~BadMint(r)
    <3>1. pc[r] \in {"reserve", "unreserve", "buy", "balance", "paper"} /\ \E to : Goto(r, to)
      BY <1>1, <2>2 DEF Entry, Reserve, Unreserve, BuyReturned, BalanceRead, Orphaned,
         PaperFails
    <3>. QED
      BY <3>1, GotoMoves
  <2>. QED
    BY <2>1, <2>2
<1>2. ASSUME NEW r \in Task, Obliged(r) \/ PriceComes(r)
      PROVE  pc'[t] = pc[t]
  <2>1. CASE NotMirrored(r)
    BY <2>1 DEF NotMirrored
  <2>2. CASE ~NotMirrored(r)
    <3>1. /\ pc[r] \in {"hold", "sell", "sold", "release", "paper"}
          /\ \E to : Goto(r, to)
      BY <1>2, <2>2 DEF Obliged, PriceComes, DeadlineFires, HearShutdown, Mirrored,
         FeedEnds, Sold, BagHeld, Release, PaperEntry, RuggedTick, ExitTick, StartSell,
         AtSelect, AtMirror, AtPrice
    <3>. QED
      BY <3>1, GotoMoves
  <2>. QED
    BY <2>1, <2>2
<1>3. ASSUME NEW w \in Wallet, NEW r \in Task, CopyBuy(w, r)
      PROVE  pc'[t] = pc[t]
  BY <1>3 DEF CopyBuy, Typed
<1>4. ASSUME pc' = pc
      PROVE  pc'[t] = pc[t]
  BY <1>4
<1>5. CASE \/ \E f \in Sell : HandleSell(f)
           \/ \E w \in Wallet, m \in Mint : SkipBuy(w, m)
  BY <1>5 DEF HandleSell, SkipBuy
<1>6. CASE Shutdown \/ MainStep \/ StraySettles \/ Tick \/ UNCHANGED vars
  BY <1>6 DEF Shutdown, MainStep, Wait, Looked, LastLook, Exit, StraySettles, TaskUnchanged,
     Tick, vars
<1>7. ASSUME NEW r \in Task, PriceTask(r) \/ CallStepAlive(r) \/ Settles(r)
      PROVE  pc'[t] = pc[t]
  BY <1>7 DEF PriceTask, CallStepAlive, Trades, Settles, TaskUnchanged
<1>. QED
  BY <1>1, <1>2, <1>3, <1>5, <1>6, <1>7 DEF Next, Step, Frame

\* The bar stays up: no record, eviction or check of another copy lifts it, and
\* time does not pass while a copy is at its check.
LEMMA BarredStep ==
    ASSUME Typed, Barred, [HistoryNext]_<<vars, historyVars>>
    PROVE  Barred'
<1>1. [Next]_vars
  BY DEF HistoryNext
<1>2. spends \in Seq(SpendAge) /\ Cardinality(FreshIn(spends)) \in Nat
  BY FreshCount DEF Typed
<1>3. Typed' /\ Cardinality(FreshIn(spends')) \in Nat
  BY <1>1, TypedStep, FreshCount DEF Typed
<1>4. (\E t \in Task : pc[t] = "cap_check") \/ (\E t \in Task : Starts(t)) => ~Tick
  BY DEF Tick, Awaiting, Starts
<1>5. ASSUME NEW t \in barred
      PROVE  /\ t \in Task /\ pc'[t] \in {"cap_check", "ended"}
             /\ pc'[t] = "cap_check" => Cardinality(FreshIn(spends')) >= CapTrades
  <2>1. /\ t \in Task /\ pc[t] \in {"cap_check", "ended"}
        /\ pc[t] = "cap_check" => Cardinality(FreshIn(spends)) >= CapTrades
    BY <1>5 DEF Barred
  <2>2. pc[t] = "cap_check" => ~SpendAllowed
    BY <1>2, <2>1, NothingLeftRefuses, DailySpendConstants
  <2>3. pc'[t] \in {"cap_check", "ended"} /\ (pc'[t] = "cap_check" => pc[t] = "cap_check")
    BY <1>1, <2>1, <2>2, BarredMoves
  <2>4. pc'[t] = "cap_check" => Cardinality(FreshIn(spends')) >= CapTrades
    <3>. SUFFICES ASSUME pc'[t] = "cap_check"
                  PROVE  Cardinality(FreshIn(spends')) >= CapTrades
      OBVIOUS
    <3>1. Cardinality(FreshIn(spends)) >= CapTrades /\ ~Tick
      BY <1>4, <2>1, <2>3
    <3>2. Cardinality(FreshIn(spends)) <= Cardinality(FreshIn(spends'))
      BY <1>1, <3>1, SpendsStep
    <3>. QED
      BY <1>2, <1>3, <3>1, <3>2, DailySpendConstants
  <2>. QED
    BY <2>1, <2>3, <2>4
<1>6. ASSUME NEW t \in Task, Starts(t), SpentUp
      PROVE  pc'[t] = "cap_check" /\ Cardinality(FreshIn(spends')) >= CapTrades
  <2>1. Cardinality(FreshIn(spends)) >= CapTrades /\ ~Tick
    BY <1>4, <1>6 DEF SpentUp, FreshIn
  <2>2. Cardinality(FreshIn(spends)) <= Cardinality(FreshIn(spends'))
    BY <1>1, <2>1, SpendsStep
  <2>. QED
    BY <1>2, <1>3, <1>6, <2>1, <2>2, DailySpendConstants DEF Starts
<1>7. barred' \subseteq barred \cup {t \in Task : Starts(t) /\ SpentUp}
  BY DEF HistoryNext, historyVars
<1>. QED
  BY <1>5, <1>6, <1>7 DEF Barred

\* A copy begun when the last 24 hours left nothing to spend never buys, whatever
\* the other copies record, evict or check meanwhile (dip_buy.rs 232-252).
THEOREM CopyBarredNeverBuy == HistorySafety => []BarredNeverBuy
<1>1. HistoryInit => IInv /\ Barred
  BY InitIInv DEF HistoryInit, Barred
<1>2. IInv /\ Barred /\ [HistoryNext]_<<vars, historyVars>> => IInv' /\ Barred'
  <2>1. [HistoryNext]_<<vars, historyVars>> => [Next]_vars
    BY DEF HistoryNext
  <2>. QED
    BY <2>1, NextIInv, BarredStep DEF IInv
<1>3. Barred => BarredNeverBuy
  BY DEF Barred, BarredNeverBuy
<1>. QED
  BY <1>1, <1>2, <1>3, PTL DEF HistorySafety
=============================================================================
