---------------------------- MODULE OrdersProofs ----------------------------
(***************************************************************************)
(* Theorems of the orders of trader.rs, for any number of callers, of      *)
(* attempts and of lost replies: types, and the refinement of Order.       *)
(*                                                                         *)
(* What bounds the executions of an order is that every send uses up a     *)
(* part of an attempt: the executions there were, the copies that may      *)
(* still land unobserved and the transaction in flight are together no     *)
(* more than the sends so far.                                             *)
(***************************************************************************)
EXTENDS TradeOrders, TraderProofs, FiniteSetTheorems

\* Whose order a step of a call or of the chain puts in doubt or executes.
LEMMA HistoryTypes ==
    ASSUME TypeOK, NEW c \in Caller
    PROVE  /\ [executed EXCEPT ![c] = @ + 1] \in [Caller -> Nat]
           /\ doubtful \cup {c} \in SUBSET Caller
  BY DEF TypeOK

\* Every step of the calls keeps the types.
LEMMA OrdersTypeStep == TypeOK /\ [Next]_vars => TypeOK'
<1>. SUFFICES ASSUME TypeOK, [Next]_vars PROVE TypeOK'
  OBVIOUS
<1>. USE HistoryTypes DEF TypeOK
<1>1. ASSUME NEW c \in Caller, Place(c) PROVE TypeOK'
  <2>1. OpOf[c] \in {"buy", "sell"}
    BY OrdersConstants
  <2>2. TraderTypeOK'
    BY <1>1, <2>1, BeginEndTypes DEF Place
  <2>. QED
    BY <1>1, <2>2 DEF Place
<1>2. ASSUME NEW c \in Caller, Work(c) PROVE TypeOK'
  <2>1. TraderTypeOK'
    BY <1>2, CallStepTypes DEF Work, CallStep
  <2>. QED
    BY <1>2, <2>1 DEF Work
<1>3. ASSUME NEW c \in Caller, Landing(c) \/ Failing(c) PROVE TypeOK'
  <2>1. TraderTypeOK'
    BY <1>3, ChainStepTypes DEF Landing, Failing, ChainStep
  <2>. QED
    BY <1>3, <2>1 DEF Landing, Failing, Counted
<1>4. ASSUME NEW t \in Transaction, StrayLanding(t) \/ StrayFailing(t)
      PROVE  TypeOK'
  <2>1. TraderTypeOK'
    BY <1>4, StrayStepTypes DEF StrayLanding, StrayFailing, StrayStep
  <2>2. t.caller \in Caller
    BY DEF Transaction
  <2>. QED
    BY <1>4, <2>1, <2>2 DEF StrayLanding, StrayFailing, Counted
<1>5. CASE UNCHANGED vars
  BY <1>5 DEF vars, traderVars, TraderTypeOK
<1>. QED
  BY <1>1, <1>2, <1>3, <1>4, <1>5 DEF Next

\* Every variable keeps its type whatever calls overlap and whatever answers are
\* lost; in particular the escalation loops stop at their last attempt
\* (trader.rs 72-157).
THEOREM OrdersTypes == Spec => []TypeOK
<1>1. Init => TypeOK
  <2>. SUFFICES ASSUME Init PROVE TypeOK
    OBVIOUS
  <2>1. NoCall \in Call
    BY TraderConstants DEF NoCall, Call, MostAttempts
  <2>. QED
    BY <2>1, TraderConstants, OrdersConstants DEF Init, TypeOK, TraderTypeOK
<1>2. TypeOK /\ [Next]_vars => TypeOK'
  BY OrdersTypeStep
<1>. QED
  BY <1>1, <1>2, PTL DEF Spec

-----------------------------------------------------------------------------
(* Counting what may still execute. *)

TransactionsOf(c) == {t \in Transaction : t.caller = c}

\* The copies of c's transactions that may land unobserved, one element each.
Copies(c) == {x \in TransactionsOf(c) \X (1 .. MaxStray) : x[2] <= stray[x[1]]}

InFlight(c) == IF Flying(c) THEN 1 ELSE 0

\* Sends in so many attempts.
Sends(attempts) == attempts * (IF Jito THEN 2 ELSE 1)

\* The most sends there can have been when call c is where it is.
SendsSoFar(c) ==
    CASE call[c].phase \in {"idle", "dry"} -> 0
      [] call[c].phase = "submit" -> Sends(call[c].attempt - 1)
      [] call[c].phase = "rpc" -> Sends(call[c].attempt - 1) + 1
      [] OTHER -> Sends(call[c].attempt)

\* The executions there were and may still be without another send.
Executions(c) == executed[c] + Cardinality(Copies(c)) + InFlight(c)

OrderOf(c) ==
    /\ ~Idle(c) => call[c].op = OpOf[c] /\ call[c].attempt \in 1 .. Attempts(OpOf[c])
    /\ call[c].phase = "rpc" => Jito
    /\ CarriedOut(c) => executed[c] > 0
    /\ c \notin doubtful => Copies(c) = {} /\ (executed[c] > 0 => CarriedOut(c))
    /\ dry_run => call[c].phase \in {"idle", "submit", "dry"} /\ call[c].attempt <= 1
    /\ Executions(c) <= SendsSoFar(c)

Orders == \A c \in Caller : OrderOf(c)

\* There are finitely many transactions, and so of copies of each caller's.
LEMMA CopiesFinite ==
    ASSUME NEW c \in Caller
    PROVE  /\ IsFiniteSet(Copies(c)) /\ IsFiniteSet(Copies(c)')
           /\ Cardinality(Copies(c)) \in Nat /\ Cardinality(Copies(c)') \in Nat
<1>1. IsFiniteSet(Transaction)
  <2>. DEFINE Parts == (Caller \X {"buy", "sell"}) \X (0 .. MaxLots)
              f == [x \in Parts |-> [caller |-> x[1][1], op |-> x[1][2], lots |-> x[2]]]
  <2>1. IsFiniteSet({"buy", "sell"})
    <3>1. {"buy", "sell"} = {"buy"} \cup {"sell"}
      OBVIOUS
    <3>2. IsFiniteSet({"buy"})
      BY FS_Singleton
    <3>3. IsFiniteSet({"buy"} \cup {"sell"})
      BY <3>2, FS_AddElement
    <3>. QED
      BY <3>1, <3>3
  <2>2. IsFiniteSet(0 .. MaxLots)
    BY FS_Interval, TraderConstants
  <2>3. IsFiniteSet(Parts)
    BY <2>1, <2>2, FS_Product, TraderConstants
  <2>4. f \in [Parts -> Transaction]
    BY DEF Transaction
  <2>5. \A t \in Transaction : \E x \in Parts : f[x] = t
    <3>. SUFFICES ASSUME NEW t \in Transaction
                  PROVE  \E x \in Parts : f[x] = t
      OBVIOUS
    <3>1. << <<t.caller, t.op>>, t.lots>> \in Parts
      BY DEF Transaction
    <3>2. f[ << <<t.caller, t.op>>, t.lots>> ] = t
      BY <3>1 DEF Transaction
    <3>. QED
      BY <3>1, <3>2
  <2>6. f \in Surjection(Parts, Transaction)
    BY <2>4, <2>5 DEF Surjection
  <2>. QED
    BY <2>3, <2>6, FS_Surjection
<1>2. IsFiniteSet(Transaction \X (1 .. MaxStray))
  <2>1. IsFiniteSet(1 .. MaxStray)
    BY FS_Interval, TraderConstants
  <2>. QED
    BY <1>1, <2>1, FS_Product
<1>3. /\ Copies(c) \subseteq Transaction \X (1 .. MaxStray)
      /\ Copies(c)' \subseteq Transaction \X (1 .. MaxStray)
  BY DEF Copies, TransactionsOf
<1>4. IsFiniteSet(Copies(c)) /\ IsFiniteSet(Copies(c)')
  BY <1>2, <1>3, FS_Subset
<1>. QED
  BY <1>4, FS_CardinalityType

\* A copy lost track of is one copy more of its caller's, of no one else's.
LEMMA LosesCopies ==
    ASSUME TraderTypeOK, NEW c \in Caller, NEW t \in Transaction, t.caller = c,
           LoseTrack(t)
    PROVE  /\ Cardinality(Copies(c)') = Cardinality(Copies(c)) + 1
           /\ \A r \in Caller \ {c} : Copies(r)' = Copies(r)
<1>. DEFINE x == <<t, stray[t] + 1>>
<1>1. \A u \in Transaction :
          /\ stray[u] \in 0 .. MaxStray
          /\ stray'[u] = IF u = t THEN stray[t] + 1 ELSE stray[u]
  BY DEF TraderTypeOK, LoseTrack
<1>2. stray[t] + 1 \in 1 .. MaxStray
  BY <1>1, TraderConstants DEF LoseTrack
<1>3. Copies(c)' = Copies(c) \cup {x}
  <2>1. \A y \in TransactionsOf(c) \X (1 .. MaxStray) :
            y[2] <= stray'[y[1]] <=> y[2] <= stray[y[1]] \/ y = x
    <3>. TAKE y \in TransactionsOf(c) \X (1 .. MaxStray)
    <3>1. y[1] \in Transaction /\ y[2] \in Nat /\ y = <<y[1], y[2]>>
      BY TraderConstants DEF TransactionsOf
    <3>2. y = x <=> y[1] = t /\ y[2] = stray[t] + 1
      BY <3>1
    <3>3. CASE y[1] = t
      BY <1>1, <3>1, <3>2, <3>3, TraderConstants
    <3>4. CASE y[1] # t
      BY <1>1, <3>1, <3>2, <3>4
    <3>. QED
      BY <3>3, <3>4
  <2>2. x \in TransactionsOf(c) \X (1 .. MaxStray)
    BY <1>2 DEF TransactionsOf
  <2>. QED
    BY <2>1, <2>2 DEF Copies, TransactionsOf
<1>4. x \notin Copies(c)
  BY <1>1, TraderConstants DEF Copies
<1>5. ASSUME NEW r \in Caller \ {c}
      PROVE  Copies(r)' = Copies(r)
  <2>1. \A u \in TransactionsOf(r) : stray'[u] = stray[u]
    BY <1>1 DEF TransactionsOf
  <2>. QED
    BY <2>1 DEF Copies, TransactionsOf
<1>. QED
  BY <1>3, <1>4, <1>5, CopiesFinite, FS_AddElement

\* One that lands or expires is one copy less.
LEMMA SettlesCopies ==
    ASSUME TraderTypeOK, NEW c \in Caller, NEW t \in Transaction, t.caller = c,
           stray[t] > 0, stray' = [stray EXCEPT ![t] = @ - 1]
    PROVE  /\ Cardinality(Copies(c)') = Cardinality(Copies(c)) - 1
           /\ Copies(c) # {}
           /\ \A r \in Caller \ {c} : Copies(r)' = Copies(r)
<1>. DEFINE x == <<t, stray[t]>>
<1>1. \A u \in Transaction :
          /\ stray[u] \in 0 .. MaxStray
          /\ stray'[u] = IF u = t THEN stray[t] - 1 ELSE stray[u]
  BY DEF TraderTypeOK
<1>2. stray[t] \in 1 .. MaxStray
  BY <1>1, TraderConstants
<1>3. Copies(c)' = Copies(c) \ {x}
  <2>1. \A y \in TransactionsOf(c) \X (1 .. MaxStray) :
            y[2] <= stray'[y[1]] <=> y[2] <= stray[y[1]] /\ y # x
    <3>. TAKE y \in TransactionsOf(c) \X (1 .. MaxStray)
    <3>1. y[1] \in Transaction /\ y[2] \in Nat /\ y = <<y[1], y[2]>>
      BY TraderConstants DEF TransactionsOf
    <3>2. y = x <=> y[1] = t /\ y[2] = stray[t]
      BY <3>1
    <3>3. CASE y[1] = t
      BY <1>1, <3>1, <3>2, <3>3, TraderConstants
    <3>4. CASE y[1] # t
      BY <1>1, <3>1, <3>2, <3>4
    <3>. QED
      BY <3>3, <3>4
  <2>. QED
    BY <2>1 DEF Copies, TransactionsOf
<1>4. x \in Copies(c)
  BY <1>2 DEF Copies, TransactionsOf
<1>5. ASSUME NEW r \in Caller \ {c}
      PROVE  Copies(r)' = Copies(r)
  <2>1. \A u \in TransactionsOf(r) : stray'[u] = stray[u]
    BY <1>1 DEF TransactionsOf
  <2>. QED
    BY <2>1 DEF Copies, TransactionsOf
<1>. QED
  BY <1>3, <1>4, <1>5, CopiesFinite, FS_RemoveElement

\* What sends there can be in so many attempts.
LEMMA SendsCount ==
    /\ Sends(0) = 0
    /\ \A a \in Nat : Sends(a) \in Nat
    /\ \A a \in Nat : Sends(a + 1) = Sends(a) + (IF Jito THEN 2 ELSE 1)
    /\ \A a, b \in Nat : a <= b => Sends(a) <= Sends(b)
    /\ \A op : MaxSends(op) = Sends(Attempts(op))
  BY DEF Sends, MaxSends

\* An attempt sends once, or twice where it falls back from Jito.
LEMMA AttemptSends ==
    \A a \in Nat \ {0} : /\ Sends(a) = Sends(a - 1) + (IF Jito THEN 2 ELSE 1)
                        /\ Sends(a - 1) \in Nat /\ Sends(a) \in Nat
  BY DEF Sends

\* An attempt adds to the sends so far, and one that has not fallen back, or not
\* yet, has a send to come.
LEMMA SendsBound ==
    ASSUME NEW c \in Caller, call[c].attempt \in Nat \ {0},
           call[c].phase \notin {"idle", "dry"}
    PROVE  /\ SendsSoFar(c) \in Nat /\ Sends(call[c].attempt) \in Nat
           /\ (call[c].phase = "rpc" => Jito)
                  => SendsSoFar(c) <= Sends(call[c].attempt)
           /\ (call[c].phase = "submit" \/ (call[c].phase = "rpc" /\ Jito))
                  => SendsSoFar(c) + 1 <= Sends(call[c].attempt)
<1>1. \E s, b \in Nat : /\ s = Sends(call[c].attempt) /\ b = Sends(call[c].attempt - 1)
                       /\ b + 1 <= s /\ (Jito => b + 2 <= s)
  <2>1. CASE Jito
    BY <2>1, AttemptSends
  <2>2. CASE ~Jito
    BY <2>2, AttemptSends
  <2>. QED
    BY <2>1, <2>2
<1>2. PICK s, b \in Nat : /\ s = Sends(call[c].attempt) /\ b = Sends(call[c].attempt - 1)
                        /\ b + 1 <= s /\ (Jito => b + 2 <= s)
  BY <1>1
<1>3. CASE call[c].phase = "submit"
  <2>1. SendsSoFar(c) = b
    BY <1>2, <1>3 DEF SendsSoFar
  <2>. QED
    BY <1>2, <1>3, <2>1
<1>4. CASE call[c].phase = "rpc"
  <2>1. SendsSoFar(c) = b + 1
    BY <1>2, <1>4 DEF SendsSoFar
  <2>. QED
    BY <1>2, <1>4, <2>1
<1>5. CASE call[c].phase \notin {"submit", "rpc"}
  <2>1. SendsSoFar(c) = s
    BY <1>2, <1>5 DEF SendsSoFar
  <2>. QED
    BY <1>2, <1>5, <2>1
<1>. QED
  BY <1>3, <1>4, <1>5

\* A caller whose call, copies, executions and doubt stay as they are.
LEMMA OrderKept ==
    ASSUME NEW r \in Caller, OrderOf(r),
           call'[r] = call[r], Copies(r)' = Copies(r), executed'[r] = executed[r],
           r \in doubtful' <=> r \in doubtful, dry_run' = dry_run
    PROVE  OrderOf(r)'
<1>1. /\ Executions(r)' = Executions(r) /\ SendsSoFar(r)' = SendsSoFar(r)
      /\ CarriedOut(r)' <=> CarriedOut(r)
  BY DEF Executions, InFlight, Flying, SendsSoFar, CarriedOut, Sends
<1>. QED
  BY <1>1 DEF OrderOf, Idle

\* The others, in a step of caller c that leaves the copies of theirs alone.
LEMMA OthersKept ==
    ASSUME TypeOK, Orders, NEW c \in Caller, OrderOf(c)',
           \A r \in Caller \ {c} : Copies(r)' = Copies(r),
           call' = call \/ \E q : call' = [call EXCEPT ![c] = q],
           executed' = executed \/ executed' = [executed EXCEPT ![c] = @ + 1],
           doubtful' = doubtful \/ doubtful' = doubtful \cup {c},
           dry_run' = dry_run
    PROVE  Orders'
<1>1. ASSUME NEW r \in Caller \ {c}
      PROVE  OrderOf(r)'
  BY <1>1, OrderKept DEF Orders, TypeOK, TraderTypeOK
<1>. QED
  BY <1>1 DEF Orders

\* With no transaction lost no caller's copies change.
LEMMA CopiesKept ==
    ASSUME stray' = stray
    PROVE  \A r \in Caller : Copies(r)' = Copies(r)
  BY DEF Copies, TransactionsOf

\* What an attempt under way amounts to, in numbers.
LEMMA OrderNumbers ==
    ASSUME TypeOK, Orders, NEW c \in Caller
    PROVE  /\ OrderOf(c)
           /\ executed[c] \in Nat /\ Cardinality(Copies(c)) \in Nat
           /\ Cardinality(Copies(c)') \in Nat
           /\ call[c] \in Call
           /\ ~Idle(c) => call[c].attempt \in Nat \ {0} /\ call[c].attempt - 1 \in Nat
           /\ Attempts(OpOf[c]) \in Nat /\ OpOf[c] \in {"buy", "sell"}
<1>1. OrderOf(c) /\ executed[c] \in Nat /\ call[c] \in Call
  BY DEF Orders, TypeOK, TraderTypeOK
<1>2. Attempts(OpOf[c]) \in Nat /\ OpOf[c] \in {"buy", "sell"}
  BY OrdersConstants, TraderConstants DEF Attempts
<1>. QED
  BY <1>1, <1>2, CopiesFinite DEF OrderOf

\* Placing the order: nothing was sent yet.
LEMMA PlaceOrder ==
    ASSUME TypeOK, Orders, NEW c \in Caller, Place(c)
    PROVE  OrderOf(c)'
<1>6. 1 \in 1 .. Attempts(OpOf[c])
  <2>1. BuyAttempts \in Nat \ {0} /\ SellAttempts \in Nat \ {0}
    BY TraderConstants
  <2>. QED
    BY <2>1 DEF Attempts
<1>. USE OrderNumbers
<1>1. /\ call'[c].op = OpOf[c] /\ call'[c].attempt = 1
      /\ call'[c].phase = "submit" /\ call'[c].chain = "none"
  BY DEF Place, Begin, NoCall, TypeOK, TraderTypeOK
<1>2. /\ Copies(c)' = Copies(c) /\ executed' = executed /\ doubtful' = doubtful
      /\ dry_run' = dry_run
  BY CopiesKept DEF Place, Begin
<1>3. Idle(c) /\ ~CarriedOut(c) /\ SendsSoFar(c) = 0
  BY DEF Place, Begin, Idle, CarriedOut, SendsSoFar
<1>4. SendsSoFar(c)' = 0 /\ InFlight(c) = 0 /\ InFlight(c)' = 0
  BY <1>1, <1>3 DEF SendsSoFar, InFlight, Flying, Idle, Sends
<1>5. Executions(c)' <= SendsSoFar(c)'
  BY <1>2, <1>3, <1>4 DEF Executions, OrderOf
<1>. QED
  BY <1>1, <1>2, <1>3, <1>5, <1>6 DEF OrderOf, CarriedOut, Idle

\* After an attempt that failed: the next one, or an error, with the sends of all
\* attempts so far used up.
LEMMA RetriedOrder ==
    ASSUME TypeOK, Orders, NEW c \in Caller, ~Idle(c),
           call' = [call EXCEPT ![c] = Retried(c)]
    PROVE  /\ call'[c].op = OpOf[c] /\ call'[c].attempt \in 1 .. Attempts(OpOf[c])
           /\ call'[c].phase \in {"submit", "err"} /\ call'[c].chain = "none"
           /\ SendsSoFar(c)' = Sends(call[c].attempt)
<1>. USE OrderNumbers
<1>1. call'[c] = Retried(c)
  BY DEF TypeOK, TraderTypeOK
<1>2. call[c].op = OpOf[c] /\ call[c].attempt \in 1 .. Attempts(OpOf[c])
  BY DEF OrderOf
<1>3. CASE call[c].attempt < Attempts(OpOf[c])
  <2>1. /\ call'[c].op = OpOf[c] /\ call'[c].attempt = call[c].attempt + 1
        /\ call'[c].phase = "submit" /\ call'[c].chain = "none"
    BY <1>1, <1>2, <1>3 DEF Retried
  <2>2. call[c].attempt + 1 \in 1 .. Attempts(OpOf[c])
    BY <1>2, <1>3
  <2>3. call'[c].attempt - 1 = call[c].attempt
    BY <1>2, <2>1
  <2>. QED
    BY <2>1, <2>2, <2>3 DEF SendsSoFar, Sends
<1>4. CASE ~(call[c].attempt < Attempts(OpOf[c]))
  <2>1. /\ call'[c].op = OpOf[c] /\ call'[c].attempt = call[c].attempt
        /\ call'[c].phase = "err" /\ call'[c].chain = "none"
    BY <1>1, <1>2, <1>4 DEF Retried
  <2>. QED
    BY <1>2, <2>1 DEF SendsSoFar, Sends
<1>. QED
  BY <1>3, <1>4

\* A step of an attempt all of whose answers arrive: no copy goes astray, and a
\* send that is made had been allowed for.
LEMMA AnsweredOrder ==
    ASSUME TypeOK, Orders, NEW c \in Caller, AnsweredStep(c),
           UNCHANGED <<executed, doubtful>>
    PROVE  OrderOf(c)' /\ UNCHANGED <<stray, dry_run>>
<1>. USE OrderNumbers
<1>. DEFINE a == call[c].attempt
<1>0. UNCHANGED <<stray, dry_run>>
  BY DEF AnsweredStep, DrySubmit, BundleAccepted, BundleRefused, SendAccepted,
     SendRefused, Confirmed, ConfirmFailed
<1>1. /\ Copies(c)' = Copies(c) /\ executed' = executed /\ doubtful' = doubtful
      /\ dry_run' = dry_run
  BY <1>0, CopiesKept
<1>2. call[c] \in Call /\ OrderOf(c)
  OBVIOUS
<1>3. CASE DrySubmit(c)
  <2>1. call'[c] = [call[c] EXCEPT !.phase = "dry"] /\ call[c].phase = "submit" /\ dry_run
    BY <1>3 DEF DrySubmit, TypeOK, TraderTypeOK
  <2>2. a = 1
    BY <2>1 DEF OrderOf, Idle
  <2>3. SendsSoFar(c) = 0 /\ SendsSoFar(c)' = 0
    BY <2>1, <2>2, <1>2, SendsCount DEF SendsSoFar, Call
  <2>4. InFlight(c) = 0 /\ InFlight(c)' = 0 /\ ~CarriedOut(c) /\ ~CarriedOut(c)'
    BY <2>1, <1>2 DEF InFlight, Flying, CarriedOut, Call
  <2>. QED
    BY <1>0, <1>1, <1>2, <2>1, <2>3, <2>4 DEF OrderOf, Executions, Idle, Call
<1>4. CASE BundleAccepted(c) \/ SendAccepted(c)
  <2>1. /\ call'[c] = Sent(c) /\ ~dry_run
        /\ \/ call[c].phase = "submit"
           \/ call[c].phase = "rpc" /\ Jito
    BY <1>4 DEF BundleAccepted, SendAccepted, AtBundle, AtRpc, TypeOK, TraderTypeOK,
       OrderOf
  <2>2. /\ call'[c].phase = "confirm" /\ call'[c].chain = "flying"
        /\ call'[c].attempt = a /\ call'[c].op = call[c].op
    BY <2>1, <1>2 DEF Sent, Call
  <2>3. a \in Nat \ {0}
    BY <2>1 DEF Idle
  <2>5. SendsSoFar(c)' = Sends(a)
    BY <2>2 DEF SendsSoFar, Sends
  <2>6. SendsSoFar(c) + 1 <= Sends(a) /\ SendsSoFar(c) \in Nat /\ Sends(a) \in Nat
    BY <2>1, <2>3, SendsBound
  <2>7. InFlight(c) = 0 /\ InFlight(c)' = 1 /\ ~CarriedOut(c) /\ ~CarriedOut(c)'
    BY <2>1, <2>2 DEF InFlight, Flying, CarriedOut
  <2>8. Executions(c)' <= SendsSoFar(c)'
    BY <1>1, <1>2, <2>5, <2>6, <2>7 DEF OrderOf, Executions
  <2>. QED
    BY <1>0, <1>1, <1>2, <2>1, <2>2, <2>7, <2>8 DEF OrderOf, Idle
<1>5. CASE BundleRefused(c)
  <2>1. /\ call'[c] = [call[c] EXCEPT !.phase = "rpc"] /\ call[c].phase = "submit"
        /\ ~dry_run /\ Jito
    BY <1>5 DEF BundleRefused, AtBundle, TypeOK, TraderTypeOK
  <2>2. /\ call'[c].phase = "rpc" /\ call'[c].attempt = a /\ call'[c].op = call[c].op
    BY <2>1, <1>2 DEF Call
  <2>3. a - 1 \in Nat
    BY <2>1 DEF Idle
  <2>4. SendsSoFar(c)' = SendsSoFar(c) + 1 /\ SendsSoFar(c) \in Nat
    BY <2>1, <2>2, <2>3 DEF SendsSoFar, Sends
  <2>5. InFlight(c) = 0 /\ InFlight(c)' = 0 /\ ~CarriedOut(c) /\ ~CarriedOut(c)'
    BY <2>1, <2>2 DEF InFlight, Flying, CarriedOut
  <2>6. Executions(c)' <= SendsSoFar(c)'
    BY <1>1, <1>2, <2>4, <2>5 DEF OrderOf, Executions
  <2>. QED
    BY <1>0, <1>1, <1>2, <2>1, <2>2, <2>5, <2>6 DEF OrderOf, Idle
<1>6. CASE SendRefused(c) \/ ConfirmFailed(c)
  <2>1. /\ call' = [call EXCEPT ![c] = Retried(c)]
        /\ \/ call[c].phase \in {"submit", "rpc"} /\ ~dry_run
           \/ call[c].phase = "confirm" /\ call[c].chain = "failed"
    BY <1>6 DEF SendRefused, AtRpc, ConfirmFailed
  <2>2. ~Idle(c) /\ a \in Nat \ {0} /\ a - 1 \in Nat /\ ~CarriedOut(c) /\ InFlight(c) = 0
    BY <2>1 DEF Idle, CarriedOut, InFlight, Flying
  <2>3. SendsSoFar(c) <= Sends(a) /\ SendsSoFar(c) \in Nat /\ Sends(a) \in Nat
    BY <2>1, <2>2, SendsBound DEF OrderOf
  <2>4. ~dry_run
    BY <2>1 DEF OrderOf
  <2>5. /\ call'[c].op = OpOf[c] /\ call'[c].attempt \in 1 .. Attempts(OpOf[c])
        /\ call'[c].phase \in {"submit", "err"} /\ call'[c].chain = "none"
        /\ SendsSoFar(c)' = Sends(a)
    BY <2>1, <2>2, RetriedOrder
  <2>6. InFlight(c)' = 0 /\ ~CarriedOut(c)'
    BY <2>5 DEF InFlight, Flying, CarriedOut
  <2>7. Executions(c)' <= SendsSoFar(c)'
    BY <1>1, <1>2, <2>2, <2>3, <2>5, <2>6 DEF OrderOf, Executions
  <2>. QED
    BY <1>0, <1>1, <1>2, <2>2, <2>4, <2>5, <2>6, <2>7 DEF OrderOf
<1>7. CASE Confirmed(c)
  <2>1. /\ call'[c].op = call[c].op /\ call'[c].attempt = a /\ call'[c].phase = "ok"
        /\ call[c].phase = "confirm" /\ call[c].chain = "landed"
    BY <1>7 DEF Confirmed, NoCall, TypeOK, TraderTypeOK
  <2>2. InFlight(c) = 0 /\ InFlight(c)' = 0 /\ CarriedOut(c) /\ CarriedOut(c)'
    BY <2>1 DEF InFlight, Flying, CarriedOut
  <2>3. SendsSoFar(c)' = SendsSoFar(c)
    BY <2>1 DEF SendsSoFar, Sends
  <2>4. Executions(c)' <= SendsSoFar(c)'
    BY <1>1, <1>2, <2>2, <2>3 DEF OrderOf, Executions
  <2>. QED
    BY <1>0, <1>1, <1>2, <2>1, <2>2, <2>4 DEF OrderOf, Idle
<1>. QED
  BY <1>0, <1>3, <1>4, <1>5, <1>6, <1>7 DEF AnsweredStep

\* A step in which an answer is lost: the transaction in flight, or the one just
\* sent, goes astray, and the caller's order is in doubt.
LEMMA LostOrder ==
    ASSUME TypeOK, Orders, NEW c \in Caller, LostStep(c),
           executed' = executed, doubtful' = doubtful \cup {c}
    PROVE  /\ OrderOf(c)' /\ dry_run' = dry_run
           /\ \A r \in Caller \ {c} : Copies(r)' = Copies(r)
<1>. USE OrderNumbers
<1>. DEFINE a == call[c].attempt
<1>2. /\ call[c] \in Call /\ OrderOf(c) /\ TraderTypeOK
      /\ Stray(c, OrderLots(c)) \in Transaction /\ Stray(c, call[c].lots) \in Transaction
      /\ Stray(c, OrderLots(c)).caller = c /\ Stray(c, call[c].lots).caller = c
  BY CallTypes DEF TypeOK, Stray
<1>3. CASE BundleReplyLost(c)
  <2>1. /\ call'[c] = [call[c] EXCEPT !.phase = "rpc"] /\ call[c].phase = "submit"
        /\ ~dry_run /\ Jito /\ dry_run' = dry_run
        /\ LoseTrack(Stray(c, OrderLots(c)))
    BY <1>3 DEF BundleReplyLost, AtBundle, TypeOK, TraderTypeOK
  <2>2. /\ Cardinality(Copies(c)') = Cardinality(Copies(c)) + 1
        /\ \A r \in Caller \ {c} : Copies(r)' = Copies(r)
    BY <1>2, <2>1, LosesCopies
  <2>3. /\ call'[c].phase = "rpc" /\ call'[c].attempt = a /\ call'[c].op = call[c].op
    BY <2>1, <1>2 DEF Call
  <2>4. a - 1 \in Nat
    BY <2>1 DEF Idle
  <2>5. SendsSoFar(c)' = SendsSoFar(c) + 1 /\ SendsSoFar(c) \in Nat
    BY <2>1, <2>3, <2>4 DEF SendsSoFar, Sends
  <2>6. InFlight(c) = 0 /\ InFlight(c)' = 0 /\ ~CarriedOut(c)'
    BY <2>1, <2>3 DEF InFlight, Flying, CarriedOut
  <2>7. Executions(c)' <= SendsSoFar(c)'
    BY <1>2, <2>2, <2>5, <2>6 DEF OrderOf, Executions
  <2>. QED
    BY <1>2, <2>1, <2>2, <2>3, <2>6, <2>7 DEF OrderOf, Idle
<1>4. ASSUME ~Idle(c), ~dry_run, dry_run' = dry_run,
             call' = [call EXCEPT ![c] = Retried(c)],
             \A r \in Caller \ {c} : Copies(r)' = Copies(r),
             executed[c] + Cardinality(Copies(c)') <= Sends(a)
      PROVE  OrderOf(c)'
  <2>1. /\ call'[c].op = OpOf[c] /\ call'[c].attempt \in 1 .. Attempts(OpOf[c])
        /\ call'[c].phase \in {"submit", "err"} /\ call'[c].chain = "none"
        /\ SendsSoFar(c)' = Sends(a)
    BY <1>4, RetriedOrder
  <2>2. InFlight(c)' = 0 /\ ~CarriedOut(c)'
    BY <2>1 DEF InFlight, Flying, CarriedOut
  <2>3. Executions(c)' <= SendsSoFar(c)'
    BY <1>4, <2>1, <2>2 DEF Executions
  <2>. QED
    BY <1>4, <2>1, <2>2, <2>3 DEF OrderOf
<1>5. CASE SendReplyLost(c)
  <2>1. /\ call' = [call EXCEPT ![c] = Retried(c)] /\ ~dry_run /\ dry_run' = dry_run
        /\ \/ call[c].phase = "rpc" /\ Jito
           \/ call[c].phase = "submit"
        /\ LoseTrack(Stray(c, OrderLots(c)))
    BY <1>2, <1>5 DEF SendReplyLost, AtRpc, OrderOf
  <2>2. /\ Cardinality(Copies(c)') = Cardinality(Copies(c)) + 1
        /\ \A r \in Caller \ {c} : Copies(r)' = Copies(r)
    BY <1>2, <2>1, LosesCopies
  <2>3. ~Idle(c) /\ a \in Nat \ {0} /\ a - 1 \in Nat /\ InFlight(c) = 0
    BY <2>1 DEF Idle, InFlight, Flying
  <2>4. SendsSoFar(c) + 1 <= Sends(a) /\ SendsSoFar(c) \in Nat /\ Sends(a) \in Nat
    BY <2>1, <2>3, SendsBound
  <2>5. executed[c] + Cardinality(Copies(c)') <= Sends(a)
    BY <1>2, <2>2, <2>3, <2>4 DEF OrderOf, Executions
  <2>. QED
    BY <1>4, <2>1, <2>2, <2>3, <2>5
<1>6. CASE ConfirmLost(c)
  <2>1. /\ call' = [call EXCEPT ![c] = Retried(c)] /\ dry_run' = dry_run
        /\ call[c].phase = "confirm"
        /\ \/ call[c].chain = "landed" /\ stray' = stray
           \/ call[c].chain = "flying" /\ LoseTrack(Stray(c, call[c].lots))
    BY <1>6 DEF ConfirmLost
  <2>2. /\ \A r \in Caller \ {c} : Copies(r)' = Copies(r)
        /\ Cardinality(Copies(c)') = Cardinality(Copies(c)) + InFlight(c)
    <3>1. CASE call[c].chain = "landed" /\ stray' = stray
      BY <2>1, <3>1, CopiesKept DEF InFlight, Flying
    <3>2. CASE call[c].chain = "flying" /\ LoseTrack(Stray(c, call[c].lots))
      BY <1>2, <2>1, <3>2, LosesCopies DEF InFlight, Flying
    <3>. QED
      BY <2>1, <3>1, <3>2
  <2>3. ~Idle(c) /\ ~dry_run /\ SendsSoFar(c) = Sends(a)
    BY <1>2, <2>1 DEF Idle, OrderOf, SendsSoFar
  <2>4. executed[c] + Cardinality(Copies(c)') <= Sends(a)
    BY <1>2, <2>2, <2>3 DEF OrderOf, Executions, InFlight
  <2>. QED
    BY <1>4, <2>1, <2>2, <2>3, <2>4
<1>. QED
  BY <1>3, <1>5, <1>6 DEF LostStep

\* What is in flight lands or fails: it is executed, or never will be.
LEMMA SettledOrder ==
    ASSUME TypeOK, Orders, NEW c \in Caller, Landing(c) \/ Failing(c)
    PROVE  OrderOf(c)' /\ UNCHANGED <<stray, dry_run, doubtful>>
<1>. USE OrderNumbers
<1>0. UNCHANGED <<stray, dry_run, doubtful>>
  BY DEF Landing, Counted, Failing, Land, Fail
<1>1. Copies(c)' = Copies(c)
  BY <1>0, CopiesKept
<1>2. call[c] \in Call /\ OrderOf(c)
  OBVIOUS
<1>3. /\ call[c].phase = "confirm" /\ call[c].chain = "flying"
      /\ call'[c].phase = "confirm" /\ call'[c].attempt = call[c].attempt
      /\ call'[c].op = call[c].op
      /\ \/ call'[c].chain = "landed" /\ executed'[c] = executed[c] + 1
         \/ call'[c].chain = "failed" /\ executed' = executed
  BY <1>2 DEF Landing, Counted, Failing, Land, Fail, TypeOK, TraderTypeOK, Call
<1>4. InFlight(c) = 1 /\ InFlight(c)' = 0 /\ ~CarriedOut(c)
  BY <1>3 DEF InFlight, Flying, CarriedOut
<1>5. SendsSoFar(c)' = SendsSoFar(c) /\ SendsSoFar(c) \in Nat
  <2>1. SendsSoFar(c)' = SendsSoFar(c) /\ SendsSoFar(c) = Sends(call[c].attempt)
    BY <1>3 DEF SendsSoFar, Sends
  <2>. QED
    BY <1>3, <2>1, SendsCount DEF Idle
<1>6. Executions(c)' <= SendsSoFar(c)'
  BY <1>1, <1>2, <1>3, <1>4, <1>5 DEF OrderOf, Executions
<1>. QED
  BY <1>0, <1>1, <1>2, <1>3, <1>4, <1>6 DEF OrderOf, Idle, CarriedOut

\* So does a copy gone astray, of an order that is in doubt.
LEMMA StraySettledOrder ==
    ASSUME TypeOK, Orders, NEW t \in Transaction, StrayLanding(t) \/ StrayFailing(t)
    PROVE  /\ OrderOf(t.caller)' /\ UNCHANGED <<call, dry_run, doubtful>>
           /\ t.caller \in doubtful /\ t.caller \in Caller
           /\ \A r \in Caller \ {t.caller} : Copies(r)' = Copies(r)
<1>. DEFINE c == t.caller
<1>0. c \in Caller
  BY DEF Transaction
<1>1. /\ UNCHANGED <<call, dry_run, doubtful>>
      /\ stray[t] > 0 /\ stray' = [stray EXCEPT ![t] = @ - 1]
      /\ executed' = executed \/ executed'[c] = executed[c] + 1
  BY <1>0 DEF StrayLanding, StrayFailing, LandStray, FailStray, Counted, TypeOK
<1>2. /\ Cardinality(Copies(c)') = Cardinality(Copies(c)) - 1
      /\ Copies(c) # {}
      /\ \A r \in Caller \ {c} : Copies(r)' = Copies(r)
  BY <1>0, <1>1, SettlesCopies DEF TypeOK
<1>3. /\ OrderOf(c) /\ executed[c] \in Nat
      /\ Cardinality(Copies(c)) \in Nat /\ Cardinality(Copies(c)') \in Nat
  BY <1>0, OrderNumbers
<1>4. /\ SendsSoFar(c)' = SendsSoFar(c) /\ InFlight(c)' = InFlight(c)
      /\ (CarriedOut(c)' <=> CarriedOut(c)) /\ InFlight(c) \in Nat
  BY <1>1 DEF SendsSoFar, Sends, InFlight, Flying, CarriedOut
<1>5. Executions(c)' <= Executions(c) /\ Executions(c)' \in Nat /\ Executions(c) \in Nat
  BY <1>1, <1>2, <1>3, <1>4 DEF Executions
<1>6. SendsSoFar(c) \in Nat
  <2>1. Idle(c) \/ (call[c].attempt \in Nat /\ call[c].attempt - 1 \in Nat)
    BY <1>0, OrderNumbers
  <2>. QED
    BY <2>1, SendsCount DEF SendsSoFar, Idle
<1>7. Executions(c)' <= SendsSoFar(c)'
  BY <1>3, <1>4, <1>5, <1>6 DEF OrderOf
<1>8. c \in doubtful
  BY <1>2, <1>3 DEF OrderOf
<1>9. executed'[c] \in Nat /\ executed'[c] >= executed[c]
  BY <1>1, <1>3
<1>. QED
  BY <1>0, <1>1, <1>2, <1>3, <1>4, <1>7, <1>8, <1>9 DEF OrderOf, Idle

\* Every step keeps the account of the orders.
LEMMA OrdersStep ==
    ASSUME TypeOK, Orders, [Next]_vars
    PROVE  Orders'
<1>1. ASSUME NEW c \in Caller, Place(c) PROVE Orders'
  <2>1. OrderOf(c)'
    BY <1>1, PlaceOrder
  <2>2. /\ \E q : call' = [call EXCEPT ![c] = q]
        /\ UNCHANGED <<stray, executed, doubtful, dry_run>>
    BY <1>1 DEF Place, Begin
  <2>. QED
    BY <2>1, <2>2, CopiesKept, OthersKept
<1>2. ASSUME NEW c \in Caller, Work(c) PROVE Orders'
  <2>1. \E q : call' = [call EXCEPT ![c] = q]
    BY <1>2, CallOfOne DEF Work
  <2>2. CASE AnsweredStep(c) /\ UNCHANGED doubtful
    <3>1. OrderOf(c)' /\ UNCHANGED <<stray, dry_run>>
      BY <1>2, <2>2, AnsweredOrder DEF Work
    <3>. QED
      BY <1>2, <2>1, <2>2, <3>1, CopiesKept, OthersKept DEF Work
  <2>3. CASE LostStep(c) /\ doubtful' = doubtful \cup {c}
    <3>1. /\ OrderOf(c)' /\ dry_run' = dry_run
          /\ \A r \in Caller \ {c} : Copies(r)' = Copies(r)
      BY <1>2, <2>3, LostOrder DEF Work
    <3>. QED
      BY <1>2, <2>1, <2>3, <3>1, OthersKept DEF Work
  <2>. QED
    BY <1>2, <2>2, <2>3 DEF Work
<1>3. ASSUME NEW c \in Caller, Landing(c) \/ Failing(c) PROVE Orders'
  <2>1. OrderOf(c)' /\ UNCHANGED <<stray, dry_run, doubtful>>
    BY <1>3, SettledOrder
  <2>2. /\ \E q : call' = [call EXCEPT ![c] = q]
        /\ executed' = executed \/ executed' = [executed EXCEPT ![c] = @ + 1]
    BY <1>3 DEF Landing, Failing, Land, Fail, Counted
  <2>. QED
    BY <2>1, <2>2, CopiesKept, OthersKept
<1>4. ASSUME NEW t \in Transaction, StrayLanding(t) \/ StrayFailing(t)
      PROVE  Orders'
  <2>1. /\ OrderOf(t.caller)' /\ UNCHANGED <<call, dry_run, doubtful>>
        /\ t.caller \in Caller
        /\ \A r \in Caller \ {t.caller} : Copies(r)' = Copies(r)
    BY <1>4, StraySettledOrder
  <2>2. executed' = executed \/ executed' = [executed EXCEPT ![t.caller] = @ + 1]
    BY <1>4 DEF StrayLanding, StrayFailing, Counted
  <2>. QED
    BY <2>1, <2>2, OthersKept
<1>5. CASE UNCHANGED vars
  <2>1. UNCHANGED <<stray, call, dry_run, executed, doubtful>>
    BY <1>5 DEF vars, traderVars
  <2>2. \A c \in Caller : OrderOf(c)'
    BY <2>1, CopiesKept, OrderKept DEF Orders
  <2>. QED
    BY <2>2 DEF Orders
<1>. QED
  BY <1>1, <1>2, <1>3, <1>4, <1>5 DEF Next

\* At the start nothing was sent and nothing is astray.
LEMMA OrdersInit ==
    ASSUME Init, NEW c \in Caller
    PROVE  OrderOf(c)
<1>1. Copies(c) = {}
  BY TraderConstants DEF Init, Copies, TransactionsOf
<1>2. /\ call[c].phase = "idle" /\ call[c].attempt = 0 /\ executed[c] = 0
  BY DEF Init, NoCall
<1>3. Executions(c) = 0 /\ SendsSoFar(c) = 0
  BY <1>1, <1>2, FS_EmptySet DEF Executions, InFlight, Flying, SendsSoFar
<1>. QED
  BY <1>1, <1>2, <1>3 DEF OrderOf, Idle, CarriedOut

-----------------------------------------------------------------------------
(* The refinement of Order: what each step is to the caller's order. *)

ReportMap == [c \in Caller |-> Reported(c)]

\* A step of one call changes at most that caller's report.
LEMMA ReportOfOne ==
    ASSUME TypeOK, NEW c \in Caller, NEW q, call' = [call EXCEPT ![c] = q]
    PROVE  ReportMap' = [ReportMap EXCEPT ![c] = Reported(c)']
<1>1. \A r \in Caller \ {c} : Reported(r)' = Reported(r)
  BY DEF Reported, TypeOK, TraderTypeOK
<1>. QED
  BY <1>1 DEF ReportMap

\* A step of a call that changes nothing of its report changes no caller's report.
LEMMA ReportKept ==
    ASSUME TypeOK, NEW c \in Caller, NEW q, call' = [call EXCEPT ![c] = q],
           Reported(c)' = Reported(c)
    PROVE  ReportMap' = ReportMap
  BY ReportOfOne DEF ReportMap

\* Placing an order.
LEMMA PlacedOrder ==
    ASSUME TypeOK, NEW c \in Caller, Place(c)
    PROVE  Abstract!Place(c)
<1>1. call' = [call EXCEPT ![c] = [NoCall EXCEPT !.op = OpOf[c], !.attempt = 1,
                                                 !.phase = "submit"]]
  BY DEF Place, Begin
<1>2. call[c].phase = "idle" /\ call'[c].phase = "submit"
  BY <1>1 DEF Place, Begin, Idle, NoCall, TypeOK, TraderTypeOK
<1>3. Reported(c) = "none" /\ Reported(c)' = "working"
  BY <1>2 DEF Reported, Returned
<1>4. ReportMap' = [ReportMap EXCEPT ![c] = "working"]
  BY <1>1, <1>3, ReportOfOne
<1>. QED
  BY <1>3, <1>4 DEF Abstract!Place, ReportMap, Place

\* A step of a call under way leaves its report as it was, or makes it.
LEMMA WorkedOrder ==
    ASSUME TypeOK, Orders, NEW c \in Caller, Work(c), OrderOf(c)'
    PROVE  Abstract!Work(c) \/ Abstract!Report(c)
<1>1. PICK q : call' = [call EXCEPT ![c] = q]
  BY CallOfOne DEF Work
<1>2. /\ OrderOf(c) /\ OrderOf(c)' /\ executed' = executed
      /\ doubtful' \in {doubtful, doubtful \cup {c}}
      /\ executed[c] \in Nat
  BY OrderNumbers DEF Work
<1>3. /\ call[c].phase \in {"submit", "rpc", "confirm"}
      /\ call'[c] \in Call
  <2>1. call[c].phase \in {"submit", "rpc", "confirm"}
    BY DEF Work, AnsweredStep, DrySubmit, BundleAccepted, BundleRefused, SendAccepted,
       SendRefused, Confirmed, ConfirmFailed, LostStep, BundleReplyLost, SendReplyLost,
       ConfirmLost, AtBundle, AtRpc
  <2>2. TraderTypeOK'
    BY CallStepTypes DEF Work, CallStep, TypeOK
  <2>. QED
    BY <2>1, <2>2 DEF TraderTypeOK
<1>4. Reported(c) = "working"
  BY <1>3 DEF Reported, Returned
<1>5. /\ ReportMap[c] = "working"
      /\ ReportMap' = [ReportMap EXCEPT ![c] = Reported(c)']
  BY <1>1, <1>4, ReportOfOne DEF ReportMap
<1>6. CASE call'[c].phase \in {"submit", "rpc", "confirm"}
  <2>1. Reported(c)' = "working"
    BY <1>6 DEF Reported, Returned
  <2>2. ReportMap' = ReportMap
    BY <1>5, <2>1 DEF ReportMap
  <2>. QED
    BY <1>2, <1>5, <2>2 DEF Abstract!Work, Abstract!MayFallInDoubt, ReportMap
<1>7. CASE call'[c].phase \in Returned
  <2>1. Reported(c)' = call'[c].phase
    BY <1>7 DEF Reported, Returned
  <2>2. call'[c].phase = "ok" => executed[c] > 0
    BY <1>2 DEF OrderOf, CarriedOut
  <2>3. call'[c].phase = "dry" => executed[c] = 0
    <3>. SUFFICES ASSUME call'[c].phase = "dry" PROVE executed[c] = 0
      OBVIOUS
    <3>1. SendsSoFar(c)' = 0
      BY DEF SendsSoFar
    <3>2. Cardinality(Copies(c)') \in Nat /\ InFlight(c)' = 0
      BY CopiesFinite DEF InFlight, Flying
    <3>. QED
      BY <1>2, <3>1, <3>2 DEF OrderOf, Executions
  <2>4. call'[c].phase = "err" /\ c \notin doubtful' => executed[c] = 0
    BY <1>2 DEF OrderOf, CarriedOut
  <2>. QED
    BY <1>2, <1>5, <1>7, <2>1, <2>2, <2>3, <2>4
    DEF Abstract!Report, Abstract!MayFallInDoubt, ReportMap, Returned
<1>8. call'[c].phase # "idle"
  <2>1. CASE call' = [call EXCEPT ![c] = Retried(c)]
    <3>1. Retried(c).phase \in {"submit", "err"}
      BY DEF Retried
    <3>. QED
      BY <2>1, <3>1 DEF TypeOK, TraderTypeOK
  <2>2. CASE call' = [call EXCEPT ![c] = Sent(c)]
    <3>1. Sent(c).phase = "confirm"
      BY <1>3 DEF Sent, TypeOK, TraderTypeOK, Call
    <3>. QED
      BY <2>2, <3>1 DEF TypeOK, TraderTypeOK
  <2>3. CASE \E p \in {"rpc", "dry"} : call' = [call EXCEPT ![c].phase = p]
    BY <2>3 DEF TypeOK, TraderTypeOK, Call
  <2>4. CASE Confirmed(c)
    BY <2>4 DEF Confirmed, NoCall, TypeOK, TraderTypeOK
  <2>. QED
    BY <2>1, <2>2, <2>3, <2>4 DEF Work, AnsweredStep, DrySubmit, BundleAccepted,
       BundleRefused, SendAccepted, SendRefused, ConfirmFailed, LostStep,
       BundleReplyLost, SendReplyLost, ConfirmLost
<1>. QED
  BY <1>3, <1>6, <1>7, <1>8 DEF Call

\* While something of the order may still execute, it was executed less often
\* than it was sent.
LEMMA WithinLimit ==
    ASSUME TypeOK, Orders, NEW c \in Caller,
           Flying(c) \/ Copies(c) # {}
    PROVE  executed[c] < MaxSends(OpOf[c]) /\ ~Idle(c)
<1>. USE OrderNumbers, SendsCount
<1>1. Cardinality(Copies(c)) + InFlight(c) > 0
  <2>1. InFlight(c) \in Nat /\ (Flying(c) => InFlight(c) = 1)
    BY DEF InFlight
  <2>2. Copies(c) # {} => Cardinality(Copies(c)) # 0
    BY CopiesFinite, FS_EmptySet
  <2>. QED
    BY <2>1, <2>2
<1>2. executed[c] < SendsSoFar(c)
  <2>1. Executions(c) <= SendsSoFar(c) /\ InFlight(c) \in Nat
    BY DEF OrderOf, InFlight
  <2>2. SendsSoFar(c) \in Nat
    <3>1. Idle(c) \/ (call[c].attempt \in Nat /\ call[c].attempt - 1 \in Nat)
      OBVIOUS
    <3>. QED
      BY <3>1 DEF SendsSoFar, Idle
  <2>. QED
    BY <1>1, <2>1, <2>2, SMTT(30) DEF Executions
<1>3. ~Idle(c)
  BY <1>2 DEF SendsSoFar, Idle
<1>4. /\ call[c].attempt \in Nat \ {0} /\ call[c].attempt - 1 \in Nat
      /\ call[c].attempt <= Attempts(OpOf[c])
  BY <1>3 DEF OrderOf
<1>5. /\ Sends(call[c].attempt) <= MaxSends(OpOf[c])
      /\ Sends(call[c].attempt - 1) <= MaxSends(OpOf[c])
      /\ MaxSends(OpOf[c]) \in Nat
  BY <1>4, SMTT(30)
<1>6. SendsSoFar(c) <= MaxSends(OpOf[c])
  <2>1. /\ Sends(call[c].attempt)
                = Sends(call[c].attempt - 1) + (IF Jito THEN 2 ELSE 1)
        /\ Sends(call[c].attempt - 1) \in Nat /\ Sends(call[c].attempt) \in Nat
    BY <1>4, AttemptSends
  <2>. QED
    BY <1>5, <2>1 DEF SendsSoFar
<1>. QED
  BY <1>2, <1>3, <1>5, <1>6 DEF SendsSoFar

\* What lands is an execution, and one the order allows.
LEMMA ExecutedOrder ==
    ASSUME TypeOK, Orders, NEW c \in Caller,
           Flying(c) \/ Copies(c) # {},
           c \notin doubtful => Reported(c) = "working",
           executed' = [executed EXCEPT ![c] = @ + 1], doubtful' = doubtful,
           ReportMap' = ReportMap
    PROVE  Abstract!Execute(c)
<1>1. executed[c] < MaxSends(OpOf[c]) /\ ~Idle(c)
  BY WithinLimit
<1>2. Reported(c) # "none"
  BY <1>1 DEF Reported, Returned, Idle
<1>3. c \notin doubtful => executed[c] = 0
  <2>. SUFFICES ASSUME c \notin doubtful PROVE executed[c] = 0
    OBVIOUS
  <2>1. OrderOf(c) /\ executed[c] \in Nat
    BY OrderNumbers
  <2>2. Flying(c)
    BY <2>1 DEF OrderOf
  <2>. QED
    BY <2>1, <2>2 DEF OrderOf, CarriedOut, Flying
<1>. QED
  BY <1>1, <1>2, <1>3 DEF Abstract!Execute, ReportMap

\* Every step of the calls and of the chain is a step of the order it is about, or
\* none.
LEMMA StepsOfOrders ==
    ASSUME TypeOK, Orders, Orders', [Next]_vars
    PROVE  [Abstract!Next]_(Abstract!orderVars)
<1>1. ASSUME NEW c \in Caller, Place(c) PROVE Abstract!Next
  BY <1>1, PlacedOrder DEF Abstract!Next
<1>2. ASSUME NEW c \in Caller, Work(c) PROVE Abstract!Next
  BY <1>2, WorkedOrder DEF Abstract!Next, Orders
<1>3. ASSUME NEW c \in Caller, Landing(c) PROVE Abstract!Next
  <2>1. /\ Flying(c) /\ executed' = [executed EXCEPT ![c] = @ + 1]
        /\ doubtful' = doubtful /\ call' = [call EXCEPT ![c].chain = "landed"]
    BY <1>3 DEF Landing, Land, Counted, Flying
  <2>2. call'[c].phase = "confirm" /\ call[c].phase = "confirm"
    BY <2>1 DEF Flying, TypeOK, TraderTypeOK, Call
  <2>3. Reported(c) = "working" /\ Reported(c)' = Reported(c)
    BY <2>2 DEF Reported, Returned
  <2>4. ReportMap' = ReportMap
    BY <2>1, <2>3, ReportKept
  <2>. QED
    BY <2>1, <2>3, <2>4, ExecutedOrder DEF Abstract!Next
<1>4. ASSUME NEW c \in Caller, Failing(c) PROVE UNCHANGED Abstract!orderVars
  <2>1. /\ Flying(c) /\ UNCHANGED <<executed, doubtful>>
        /\ call' = [call EXCEPT ![c].chain = "failed"]
    BY <1>4 DEF Failing, Fail, Flying
  <2>2. call'[c].phase = "confirm" /\ call[c].phase = "confirm"
    BY <2>1 DEF Flying, TypeOK, TraderTypeOK, Call
  <2>3. Reported(c)' = Reported(c)
    BY <2>2 DEF Reported, Returned
  <2>4. ReportMap' = ReportMap
    BY <2>1, <2>3, ReportKept
  <2>. QED
    BY <2>1, <2>4 DEF Abstract!orderVars, ReportMap
<1>5. ASSUME NEW t \in Transaction, StrayLanding(t) PROVE Abstract!Next
  <2>1. /\ executed' = [executed EXCEPT ![t.caller] = @ + 1]
        /\ doubtful' = doubtful /\ call' = call
        /\ stray[t] > 0 /\ stray' = [stray EXCEPT ![t] = @ - 1]
    BY <1>5 DEF StrayLanding, LandStray, Counted
  <2>2. t.caller \in Caller /\ t.caller \in doubtful
    BY <1>5, StraySettledOrder
  <2>3. Copies(t.caller) # {}
    BY <2>1, <2>2, SettlesCopies DEF TypeOK
  <2>4. ReportMap' = ReportMap
    BY <2>1 DEF ReportMap, Reported
  <2>. QED
    BY <2>1, <2>2, <2>3, <2>4, ExecutedOrder DEF Abstract!Next
<1>6. ASSUME NEW t \in Transaction, StrayFailing(t)
      PROVE  UNCHANGED Abstract!orderVars
  BY <1>6 DEF StrayFailing, FailStray, Abstract!orderVars, Reported
<1>7. CASE UNCHANGED vars
  BY <1>7 DEF vars, traderVars, Abstract!orderVars, Reported
<1>. QED
  BY <1>1, <1>2, <1>3, <1>4, <1>5, <1>6, <1>7 DEF Next

\* The calls of trader.rs implement Order for any number of callers, of attempts
\* and of lost replies: while no answer is lost an order is carried out at most
\* once and truly reported, otherwise at most as often as it was sent, and success
\* is reported only of an order that was carried out (trader.rs 72-242).
THEOREM OrdersRefineOrder == Spec => IsOrder
<1>1. Init => Orders /\ Abstract!Init
  <2>. SUFFICES ASSUME Init PROVE Orders /\ Abstract!Init
    OBVIOUS
  <2>1. Orders
    BY OrdersInit DEF Orders
  <2>2. ASSUME NEW c \in Caller PROVE Reported(c) = "none"
    <3>1. call[c].phase = "idle"
      BY DEF Init, NoCall
    <3>. QED
      BY <3>1 DEF Reported, Returned
  <2>. QED
    BY <2>1, <2>2 DEF Init, Abstract!Init
<1>2. TypeOK /\ Orders /\ [Next]_vars => Orders'
  BY OrdersStep
<1>3. TypeOK /\ Orders /\ Orders' /\ [Next]_vars => [Abstract!Next]_(Abstract!orderVars)
  BY StepsOfOrders
<1>4. Spec => []TypeOK
  BY OrdersTypes
<1>. QED
  BY <1>1, <1>2, <1>3, <1>4, PTL DEF Spec, IsOrder, Abstract!Spec

=============================================================================
