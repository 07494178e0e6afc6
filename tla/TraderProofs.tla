---------------------------- MODULE TraderProofs ----------------------------
(* Every step of a call, of the chain and of a stray transaction keeps the   *)
(* types of the trader's state, and, with a chain that answers, the books of *)
(* a caller with a token of its own.  The sessions' proofs rest on this.     *)
EXTENDS Trader, TLAPS

\* An empty wallet and no calls are of the types.
LEMMA TraderInitTypes == TraderInit => TraderTypeOK
<1>1. NoCall \in Call
  BY TraderConstants DEF NoCall, Call, MostAttempts
<1>. QED
  BY <1>1, TraderConstants DEF TraderInit, TraderTypeOK

\* The empty call and every next attempt of a call are calls.
LEMMA CallTypes ==
    ASSUME TraderTypeOK, NEW c \in Caller
    PROVE  /\ NoCall \in Call
           /\ call[c] \in Call
           /\ Retried(c) \in Call
           /\ OrderLots(c) \in 0 .. MaxLots
           /\ Sent(c) \in Call
           /\ Stray(c, OrderLots(c)) \in Transaction
           /\ Stray(c, call[c].lots) \in Transaction
<1>1. NoCall \in Call
  BY TraderConstants DEF NoCall, Call, MostAttempts
<1>2. call[c] \in Call
  BY DEF TraderTypeOK
<1>3. Retried(c) \in Call
  <2>1. 0 \in 0 .. MaxLots
    BY TraderConstants
  <2>2. call[c].attempt < Attempts(call[c].op) =>
            call[c].attempt + 1 \in 0 .. MostAttempts
    BY <1>2, TraderConstants DEF Call, Attempts, MostAttempts
  <2>. QED
    BY <1>2, <2>1, <2>2 DEF Retried, Call, Returned
<1>4. OrderLots(c) \in 0 .. MaxLots
  BY TraderConstants DEF OrderLots, TraderTypeOK
<1>5. Sent(c) \in Call
  BY <1>2, <1>4 DEF Sent, Call
<1>6. /\ Stray(c, OrderLots(c)) \in Transaction
      /\ Stray(c, call[c].lots) \in Transaction
  BY <1>2, <1>4 DEF Stray, Transaction, Call
<1>. QED
  BY <1>1, <1>2, <1>3, <1>4, <1>5, <1>6

\* Starting and ending a call keeps the types.
LEMMA BeginEndTypes ==
    ASSUME TraderTypeOK, NEW c \in Caller,
           \/ \E op \in {"buy", "sell"} : Begin(c, op)
           \/ End(c)
    PROVE  TraderTypeOK'
<1>1. call' \in [Caller -> Call]
  <2>1. CASE End(c)
    BY <2>1, CallTypes DEF End, TraderTypeOK
  <2>2. ASSUME NEW op \in {"buy", "sell"}, Begin(c, op)
        PROVE  call' \in [Caller -> Call]
    <3>1. [NoCall EXCEPT !.op = op, !.attempt = 1, !.phase = "submit"] \in Call
      <4>1. 1 \in 0 .. MostAttempts /\ 0 \in 0 .. MaxLots
        BY TraderConstants DEF MostAttempts
      <4>. QED
        BY <4>1 DEF NoCall, Call
    <3>. QED
      BY <2>2, <3>1 DEF Begin, TraderTypeOK
  <2>. QED
    BY <2>1, <2>2
<1>2. wallet' = wallet /\ stray' = stray /\ dry_run' = dry_run
  BY DEF Begin, End
<1>. QED
  BY <1>1, <1>2 DEF TraderTypeOK

\* Losing track of a transaction keeps the type of stray: the bound is in the
\* guard.
LEMMA LoseTrackType ==
    ASSUME TraderTypeOK, NEW t \in Transaction, LoseTrack(t)
    PROVE  stray' \in [Transaction -> 0 .. MaxStray]
  BY TraderConstants DEF TraderTypeOK, LoseTrack

\* A step of an attempt (submit, send_bundle, confirm) keeps the types.
LEMMA CallStepTypes ==
    ASSUME TraderTypeOK, NEW c \in Caller, CallStep(c)
    PROVE  TraderTypeOK'
<1>. USE CallTypes
<1>1. CASE DrySubmit(c) \/ BundleRefused(c)
  <2>1. /\ [call[c] EXCEPT !.phase = "dry"] \in Call
        /\ [call[c] EXCEPT !.phase = "rpc"] \in Call
    BY DEF Call, Returned
  <2>2. call' \in [Caller -> Call]
    BY <1>1, <2>1 DEF DrySubmit, BundleRefused, TraderTypeOK
  <2>. QED
    BY <1>1, <2>2 DEF DrySubmit, BundleRefused, TraderTypeOK
<1>2. CASE BundleAccepted(c) \/ SendAccepted(c)
  BY <1>2 DEF BundleAccepted, SendAccepted, TraderTypeOK
<1>3. CASE SendRefused(c) \/ ConfirmFailed(c)
  BY <1>3 DEF SendRefused, ConfirmFailed, TraderTypeOK
<1>4. CASE BundleReplyLost(c)
  BY <1>4, LoseTrackType, SMTT(30) DEF BundleReplyLost, TraderTypeOK, Call
<1>5. CASE SendReplyLost(c)
  BY <1>5, LoseTrackType DEF SendReplyLost, TraderTypeOK
<1>6. CASE Confirmed(c)
  BY <1>6 DEF Confirmed, TraderTypeOK, Call, NoCall, Returned
<1>7. CASE ConfirmLost(c)
  BY <1>7, LoseTrackType DEF ConfirmLost, TraderTypeOK
<1>. QED
  BY <1>1, <1>2, <1>3, <1>4, <1>5, <1>6, <1>7
     DEF CallStep, AnsweredStep, LostStep

\* An execution on chain keeps the wallet within its bounds: a sell is carried
\* out only when its lots are there.
LEMMA ExecutesType ==
    ASSUME TraderTypeOK, NEW op, NEW m \in Mint, NEW lots \in 0 .. MaxLots,
           Executes(op, m, lots)
    PROVE  wallet' \in [Mint -> 0 .. MaxLots]
  BY TraderConstants DEF TraderTypeOK, Executes

\* A step of the chain on a caller's own transaction keeps the types.
LEMMA ChainStepTypes ==
    ASSUME TraderTypeOK, NEW c \in Caller, ChainStep(c)
    PROVE  TraderTypeOK'
<1>0. MintOf[c] \in Mint /\ call[c] \in Call /\ call[c].lots \in 0 .. MaxLots
  BY TraderConstants DEF TraderTypeOK, Call
<1>1. CASE Land(c)
  <2>1. wallet' \in [Mint -> 0 .. MaxLots]
    BY <1>0, <1>1, ExecutesType DEF Land
  <2>2. call' \in [Caller -> Call]
    BY <1>0, <1>1 DEF Land, TraderTypeOK, Call
  <2>. QED
    BY <1>1, <2>1, <2>2 DEF Land, TraderTypeOK
<1>2. CASE Fail(c)
  BY <1>0, <1>2 DEF Fail, TraderTypeOK, Call
<1>. QED
  BY <1>1, <1>2 DEF ChainStep

\* So does a stray transaction, when it lands and when it expires.
LEMMA StrayStepTypes ==
    ASSUME TraderTypeOK, StrayStep
    PROVE  TraderTypeOK'
<1>1. PICK t \in Transaction : LandStray(t) \/ FailStray(t)
  BY DEF StrayStep
<1>2. t.lots \in 0 .. MaxLots /\ MintOf[t.caller] \in Mint
  BY TraderConstants DEF Transaction
<1>3. stray' \in [Transaction -> 0 .. MaxStray]
  BY <1>1, TraderConstants DEF TraderTypeOK, LandStray, FailStray
<1>4. wallet' \in [Mint -> 0 .. MaxLots]
  BY <1>1, <1>2, ExecutesType DEF TraderTypeOK, LandStray, FailStray
<1>. QED
  BY <1>1, <1>3, <1>4 DEF TraderTypeOK, LandStray, FailStray

\* A step of an attempt is of a call under way, and changes no other call.
LEMMA CallOfOne ==
    ASSUME NEW c \in Caller, AnsweredStep(c) \/ LostStep(c)
    PROVE  ~Idle(c) /\ \E q : call' = [call EXCEPT ![c] = q]
  BY DEF AnsweredStep, DrySubmit, BundleAccepted, BundleRefused, SendAccepted,
     SendRefused, Confirmed, ConfirmFailed, LostStep, BundleReplyLost,
     SendReplyLost, ConfirmLost, AtBundle, AtRpc, Idle

-----------------------------------------------------------------------------
(* Trading with a chain that answers.  While no answer is lost, a call for the *)
(* one lot of a caller's own token says by its phase what the wallet holds.  *)

Flying(c) == call[c].phase = "confirm" /\ call[c].chain = "flying"

CarriedOut(c) ==
    \/ call[c].phase = "ok"
    \/ call[c].phase = "confirm" /\ call[c].chain = "landed"

OwnTokens == \A c, d \in Caller : MintOf[c] = MintOf[d] => c = d

NoStray == \A t \in Transaction : stray[t] = 0

\* Calls are sent, or only logged.
Mode(c) ==
    /\ dry_run => call[c].phase \in {"submit", "dry"}
    /\ call[c].phase = "dry" => dry_run

\* A buy of the only lot there will be, or its sale.
OneLot(c) ==
    /\ ~Idle(c)
    /\ Mode(c)
    /\ Flying(c) => call[c].lots = 1
    /\ wallet[MintOf[c]] = IF CarriedOut(c) <=> call[c].op = "buy" THEN 1 ELSE 0

\* A buy that begins with no lot, or a sell that begins with one.
LEMMA OneLotBegins ==
    ASSUME TraderTypeOK, NEW c \in Caller, NEW op \in {"buy", "sell"}, Begin(c, op),
           wallet[MintOf[c]] = IF op = "buy" THEN 0 ELSE 1
    PROVE  OneLot(c)' /\ call'[c].op = op
<1>1. call'[c] = [NoCall EXCEPT !.op = op, !.attempt = 1, !.phase = "submit"]
  BY DEF Begin, TraderTypeOK
<1>2. call'[c].op = op /\ call'[c].phase = "submit"
  BY <1>1 DEF NoCall
<1>. QED
  BY <1>2 DEF Begin, OneLot, Mode, Flying, CarriedOut, Idle

\* A step of a call touches neither the wallet nor another call.
LEMMA CallStepEffect ==
    ASSUME ~Lossy, TraderTypeOK, NEW c \in Caller, CallStep(c)
    PROVE  /\ UNCHANGED <<wallet, stray, dry_run>> /\ ~Idle(c)
           /\ \E q \in Call : call' = [call EXCEPT ![c] = q]
<1>1. AnsweredStep(c)
  BY DEF CallStep, LostStep, BundleReplyLost, SendReplyLost, ConfirmLost
<1>2. UNCHANGED <<wallet, stray, dry_run>>
  BY <1>1 DEF AnsweredStep, DrySubmit, BundleAccepted, BundleRefused, SendAccepted,
     SendRefused, Confirmed, ConfirmFailed
<1>3. ~Idle(c) /\ \E q : call' = [call EXCEPT ![c] = q]
  BY <1>1, CallOfOne
<1>4. TraderTypeOK'
  BY CallStepTypes
<1>. QED
  BY <1>2, <1>3, <1>4 DEF TraderTypeOK

\* It ends where the next step of the same order can be made of it.
LEMMA OneLotWorks ==
    ASSUME ~Lossy, TraderTypeOK, NEW c \in Caller, OneLot(c), CallStep(c)
    PROVE  OneLot(c)' /\ call'[c].op = call[c].op
<1>1. AnsweredStep(c) /\ call[c] \in Call /\ UNCHANGED <<wallet, dry_run>>
  BY CallStepEffect DEF CallStep, LostStep, BundleReplyLost, SendReplyLost,
     ConfirmLost, TraderTypeOK
<1>2. CASE DrySubmit(c)
  <2>1. /\ call'[c].phase = "dry" /\ call'[c].op = call[c].op /\ dry_run
        /\ call[c].phase = "submit"
    BY <1>1, <1>2 DEF DrySubmit, TraderTypeOK, Call
  <2>. QED
    BY <1>1, <2>1 DEF OneLot, Mode, Flying, CarriedOut, Idle
<1>3. CASE BundleRefused(c)
  <2>1. /\ call'[c].phase = "rpc" /\ call'[c].op = call[c].op /\ ~dry_run
        /\ call[c].phase = "submit"
    BY <1>1, <1>3 DEF BundleRefused, AtBundle, TraderTypeOK, Call
  <2>. QED
    BY <1>1, <2>1 DEF OneLot, Mode, Flying, CarriedOut, Idle
<1>4. CASE BundleAccepted(c) \/ SendAccepted(c)
  <2>1. /\ call'[c] = Sent(c) /\ call[c].phase \in {"submit", "rpc"} /\ ~dry_run
        /\ OrderLots(c) > 0
    BY <1>1, <1>4 DEF BundleAccepted, SendAccepted, AtBundle, AtRpc, TraderTypeOK
  <2>2. /\ call'[c].phase = "confirm" /\ call'[c].op = call[c].op
        /\ call'[c].chain = "flying" /\ call'[c].lots = OrderLots(c)
    BY <1>1, <2>1 DEF Sent, Call
  <2>3. OrderLots(c) = 1
    BY <2>1 DEF OrderLots, OneLot
  <2>. QED
    BY <1>1, <2>1, <2>2, <2>3 DEF OneLot, Mode, Flying, CarriedOut, Idle
<1>5. CASE SendRefused(c) \/ ConfirmFailed(c)
  <2>1. /\ call'[c] = Retried(c)
        /\ \/ call[c].phase \in {"submit", "rpc"} /\ ~dry_run
           \/ call[c].phase = "confirm" /\ call[c].chain = "failed"
    BY <1>1, <1>5 DEF SendRefused, ConfirmFailed, AtRpc, TraderTypeOK
  <2>2. /\ call'[c].phase \in {"submit", "err"} /\ call'[c].op = call[c].op
    BY <2>1 DEF Retried
  <2>3. ~dry_run /\ ~CarriedOut(c)
    BY <2>1 DEF OneLot, Mode, CarriedOut
  <2>. QED
    BY <1>1, <2>2, <2>3 DEF OneLot, Mode, Flying, CarriedOut, Idle
<1>6. CASE Confirmed(c)
  <2>1. /\ call'[c].phase = "ok" /\ call'[c].op = call[c].op
        /\ call[c].phase = "confirm" /\ call[c].chain = "landed"
    BY <1>1, <1>6 DEF Confirmed, NoCall, TraderTypeOK
  <2>. QED
    BY <1>1, <2>1 DEF OneLot, Mode, Flying, CarriedOut, Idle
<1>. QED
  BY <1>1, <1>2, <1>3, <1>4, <1>5, <1>6 DEF AnsweredStep

\* What the chain does with it shows in the wallet, in no other token.
LEMMA OneLotSettles ==
    ASSUME TraderTypeOK, NEW c \in Caller, OneLot(c), ChainStep(c)
    PROVE  OneLot(c)' /\ call'[c].op = call[c].op
<1>1. call[c] \in Call /\ MintOf[c] \in Mint /\ wallet[MintOf[c]] \in Nat
  BY TraderConstants DEF TraderTypeOK
<1>2. /\ call[c].phase = "confirm" /\ call[c].chain = "flying"
      /\ call'[c].phase = "confirm" /\ call'[c].op = call[c].op
      /\ call'[c].lots = call[c].lots
      /\ dry_run' = dry_run /\ ~CarriedOut(c) /\ call[c].lots = 1
  BY <1>1 DEF ChainStep, Land, Fail, TraderTypeOK, Call, CarriedOut, OneLot, Flying
<1>3. CASE Land(c)
  <2>1. call'[c].chain = "landed" /\ Executes(call[c].op, MintOf[c], 1)
    BY <1>1, <1>2, <1>3 DEF Land, TraderTypeOK, Call
  <2>2. wallet'[MintOf[c]] = IF call[c].op = "buy" THEN 1 ELSE 0
    <3>1. CASE call[c].op = "buy"
      BY <1>1, <1>2, <2>1, <3>1 DEF Executes, OneLot, TraderTypeOK
    <3>2. CASE call[c].op # "buy"
      BY <1>1, <1>2, <2>1, <3>2 DEF Executes, OneLot, TraderTypeOK
    <3>. QED
      BY <3>1, <3>2
  <2>. QED
    BY <1>2, <2>1, <2>2 DEF OneLot, Mode, Flying, CarriedOut, Idle
<1>4. CASE Fail(c)
  <2>1. call'[c].chain = "failed" /\ wallet' = wallet
    BY <1>1, <1>4 DEF Fail, TraderTypeOK, Call
  <2>. QED
    BY <1>2, <2>1 DEF OneLot, Mode, Flying, CarriedOut, Idle
<1>. QED
  BY <1>3, <1>4 DEF ChainStep

\* Nor in another call.
LEMMA ChainStepEffect ==
    ASSUME TraderTypeOK, NEW c \in Caller, ChainStep(c)
    PROVE  /\ UNCHANGED <<stray, dry_run>> /\ Flying(c)
           /\ \A m \in Mint \ {MintOf[c]} : wallet'[m] = wallet[m]
           /\ \E q \in Call : call' = [call EXCEPT ![c] = q]
<1>1. TraderTypeOK'
  BY ChainStepTypes
<1>. QED
  BY <1>1, TraderConstants DEF ChainStep, Land, Fail, Executes, Flying, TraderTypeOK

\* With no answer lost there is nothing that could settle unobserved.
LEMMA NoStraySettles ==
    ASSUME NoStray, StrayStep
    PROVE  FALSE
  BY DEF NoStray, StrayStep, LandStray, FailStray

\* The caller takes its result.
LEMMA EndEffect ==
    ASSUME TraderTypeOK, NEW c \in Caller, End(c)
    PROVE  /\ UNCHANGED <<wallet, stray, dry_run>>
           /\ \E q : call' = [call EXCEPT ![c] = q]
           /\ Idle(c)'
  BY DEF End, Idle, NoCall, TraderTypeOK

-----------------------------------------------------------------------------
(* Several callers may trade a token, if no answer is lost.  Its lots are    *)
(* then accounted for by a call that has bought and not yet returned, or by  *)
(* one that has still to sell them: not by a sale under way that was built   *)
(* before the last of them came in.                                          *)

Answers(c) ==
    \/ call[c].op = "buy" /\ CarriedOut(c)
    \/ /\ call[c].op = "sell" /\ ~Idle(c) /\ ~CarriedOut(c)
       /\ Flying(c) => call[c].lots >= wallet[MintOf[c]]

\* A paper wallet stays empty.
Paper == dry_run => \A m \in Mint : wallet[m] = 0

\* A call to sell answers for the lots until it is carried out.
LEMMA AnswersFromTheStart ==
    ASSUME TraderTypeOK, NEW c \in Caller, NEW op \in {"buy", "sell"}, Begin(c, op)
    PROVE  ~Idle(c)' /\ call'[c].op = op /\ Mode(c)' /\ (op = "sell" => Answers(c)')
<1>1. call'[c] = [NoCall EXCEPT !.op = op, !.attempt = 1, !.phase = "submit"]
  BY DEF Begin, TraderTypeOK
<1>2. call'[c].op = op /\ call'[c].phase = "submit"
  BY <1>1 DEF NoCall
<1>. QED
  BY <1>2 DEF Begin, Mode, Idle, Answers, Flying, CarriedOut

\* A step of a call does not drop what the call answers for.
LEMMA AnswersOn ==
    ASSUME ~Lossy, TraderTypeOK, NEW c \in Caller, Mode(c), CallStep(c)
    PROVE  /\ ~Idle(c)' /\ call'[c].op = call[c].op /\ Mode(c)'
           /\ Answers(c) => Answers(c)'
<1>1. AnsweredStep(c) /\ call[c] \in Call /\ UNCHANGED <<wallet, dry_run>> /\ ~Idle(c)
  BY CallStepEffect DEF CallStep, LostStep, BundleReplyLost, SendReplyLost,
     ConfirmLost, TraderTypeOK
<1>2. CASE DrySubmit(c)
  <2>1. /\ call'[c].phase = "dry" /\ call'[c].op = call[c].op /\ dry_run
        /\ call[c].phase = "submit"
    BY <1>1, <1>2 DEF DrySubmit, TraderTypeOK, Call
  <2>. QED
    BY <1>1, <2>1 DEF Answers, Mode, Flying, CarriedOut, Idle
<1>3. CASE BundleRefused(c)
  <2>1. /\ call'[c].phase = "rpc" /\ call'[c].op = call[c].op /\ ~dry_run
        /\ call[c].phase = "submit"
    BY <1>1, <1>3 DEF BundleRefused, AtBundle, TraderTypeOK, Call
  <2>. QED
    BY <1>1, <2>1 DEF Answers, Mode, Flying, CarriedOut, Idle
<1>4. CASE BundleAccepted(c) \/ SendAccepted(c)
  <2>1. /\ call'[c] = Sent(c) /\ call[c].phase \in {"submit", "rpc"} /\ ~dry_run
    BY <1>1, <1>4 DEF BundleAccepted, SendAccepted, AtBundle, AtRpc, TraderTypeOK
  <2>2. /\ call'[c].phase = "confirm" /\ call'[c].op = call[c].op
        /\ call'[c].chain = "flying" /\ call'[c].lots = OrderLots(c)
    BY <1>1, <2>1 DEF Sent, Call
  <2>3. call[c].op = "sell" => OrderLots(c) >= wallet[MintOf[c]]
    BY TraderConstants DEF OrderLots, TraderTypeOK
  <2>. QED
    BY <1>1, <2>1, <2>2, <2>3 DEF Answers, Mode, Flying, CarriedOut, Idle
<1>5. CASE SendRefused(c) \/ ConfirmFailed(c)
  <2>1. /\ call'[c] = Retried(c)
        /\ \/ call[c].phase \in {"submit", "rpc"} /\ ~dry_run
           \/ call[c].phase = "confirm" /\ call[c].chain = "failed"
    BY <1>1, <1>5 DEF SendRefused, ConfirmFailed, AtRpc, TraderTypeOK
  <2>2. /\ call'[c].phase \in {"submit", "err"} /\ call'[c].op = call[c].op
    BY <2>1 DEF Retried
  <2>3. ~dry_run /\ ~CarriedOut(c)
    BY <2>1 DEF Mode, CarriedOut
  <2>. QED
    BY <1>1, <2>2, <2>3 DEF Answers, Mode, Flying, CarriedOut, Idle
<1>6. CASE Confirmed(c)
  <2>1. /\ call'[c].phase = "ok" /\ call'[c].op = call[c].op
        /\ call[c].phase = "confirm" /\ call[c].chain = "landed"
    BY <1>1, <1>6 DEF Confirmed, NoCall, TraderTypeOK
  <2>. QED
    BY <1>1, <2>1 DEF Answers, Mode, Flying, CarriedOut, Idle
<1>. QED
  BY <1>1, <1>2, <1>3, <1>4, <1>5, <1>6 DEF AnsweredStep

\* When the chain settles a call, lots that are then in the wallet were there
\* before or have come in with it, and if another call answered for them, or
\* this one, one of the two still does.
LEMMA AnswersSettled ==
    ASSUME TraderTypeOK, NEW c \in Caller, Mode(c), ChainStep(c)
    PROVE  /\ ~Idle(c)' /\ call'[c].op = call[c].op /\ Mode(c)' /\ ~dry_run
           /\ wallet'[MintOf[c]] > 0 => wallet[MintOf[c]] > 0 \/ Answers(c)'
           /\ \A d \in Caller :
                  /\ MintOf[d] = MintOf[c] /\ Answers(d) /\ wallet'[MintOf[c]] > 0
                  => Answers(d)' \/ Answers(c)'
<1>1. /\ call[c] \in Call /\ MintOf[c] \in Mint /\ wallet[MintOf[c]] \in Nat
      /\ call[c].lots \in Nat
  BY TraderConstants DEF TraderTypeOK, Call
<1>2. /\ call[c].phase = "confirm" /\ call[c].chain = "flying"
      /\ call'[c].phase = "confirm" /\ call'[c].op = call[c].op
      /\ call'[c].lots = call[c].lots
      /\ dry_run' = dry_run /\ ~dry_run /\ ~CarriedOut(c) /\ Flying(c)
  BY <1>1 DEF ChainStep, Land, Fail, TraderTypeOK, Call, CarriedOut, Mode, Flying
<1>3. ~Idle(c)' /\ Mode(c)'
  BY <1>2 DEF Idle, Mode
<1>4. \A d \in Caller \ {c} : call'[d] = call[d]
  BY DEF ChainStep, Land, Fail, TraderTypeOK
<1>5. CASE Fail(c)
  <2>1. call'[c].chain = "failed" /\ wallet' = wallet
    BY <1>1, <1>5 DEF Fail, TraderTypeOK, Call
  <2>2. Answers(c) => Answers(c)'
    BY <1>2, <2>1 DEF Answers, Flying, CarriedOut, Idle
  <2>3. \A d \in Caller \ {c} : Answers(d) => Answers(d)'
    BY <1>4, <2>1 DEF Answers, Flying, CarriedOut, Idle
  <2>. QED
    BY <1>2, <1>3, <2>1, <2>2, <2>3
<1>6. CASE Land(c) /\ call[c].op = "buy"
  <2>1. call'[c].chain = "landed"
    BY <1>1, <1>6 DEF Land, TraderTypeOK, Call
  <2>2. Answers(c)'
    BY <1>2, <1>6, <2>1 DEF Answers, CarriedOut
  <2>. QED
    BY <1>2, <1>3, <2>2
<1>7. CASE Land(c) /\ call[c].op = "sell"
  <2>1. /\ wallet[MintOf[c]] >= call[c].lots
        /\ wallet'[MintOf[c]] = wallet[MintOf[c]] - call[c].lots
    BY <1>1, <1>7 DEF Land, Executes, TraderTypeOK
  <2>2. Answers(c) => wallet'[MintOf[c]] = 0
    BY <1>1, <1>2, <1>7, <2>1 DEF Answers
  <2>3. ASSUME NEW d \in Caller \ {c}, MintOf[d] = MintOf[c], Answers(d)
        PROVE  Answers(d)'
    <3>1. wallet'[MintOf[d]] <= wallet[MintOf[d]] /\ wallet'[MintOf[d]] \in Nat
      BY <1>1, <2>1, <2>3
    <3>2. call'[d] = call[d] /\ call[d].lots \in Nat
      BY <1>4 DEF TraderTypeOK, Call
    <3>3. wallet[MintOf[d]] \in Nat
      BY <1>1, <2>3
    <3>. QED
      BY <2>3, <3>1, <3>2, <3>3 DEF Answers, Flying, CarriedOut, Idle
  <2>. QED
    BY <1>1, <1>2, <1>3, <2>1, <2>2, <2>3
<1>. QED
  BY <1>1, <1>5, <1>6, <1>7 DEF ChainStep, Call
=============================================================================
