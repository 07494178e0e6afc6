------------------------------- MODULE Trader -------------------------------
(***************************************************************************)
(* trader.rs: buy(), sell_all() and submit(), and the chain they trade on. *)
(* A task that trades is a Caller; it has at most one call under way, and  *)
(* every call is a loop of attempts.  One attempt builds a transaction,    *)
(* sends it (as a Jito bundle first, if Jito is on, falling back to the    *)
(* RPC node) and polls for its confirmation.  Any error of an attempt, a   *)
(* confirmation that timed out included, starts the next attempt.          *)
(*                                                                         *)
(* Tokens are counted in lots, one lot being what one buy brings in.       *)
(* A sell asks for "100%", so it is built for the lots in the wallet then. *)
(* A transaction the program has given up on while it can still land is    *)
(* counted in stray; such transactions exist only when Lossy.              *)
(***************************************************************************)
EXTENDS Naturals, FiniteSets

CONSTANTS
    Caller,        \* the tasks that trade
    Mint,          \* the tokens
    MintOf,        \* the token each caller trades
    BuyAttempts,   \* BUY_MAX_ATTEMPTS
    SellAttempts,  \* SELL_MAX_ATTEMPTS
    DryRun,        \* the values the flag --dry-run may have
    Jito,          \* [jito].enabled
    Lossy,         \* may a reply be lost, or a confirmation time out too early?
    MaxLots,       \* bound of the model: buys land only below this many lots
    MaxStray       \* bound of the model: stray copies of one transaction

ASSUME TraderConstants ==
    /\ IsFiniteSet(Caller) /\ Caller # {}
    /\ MintOf \in [Caller -> Mint]
    /\ BuyAttempts \in Nat \ {0}
    /\ SellAttempts \in Nat \ {0}
    /\ MaxLots \in Nat \ {0}
    /\ MaxStray \in Nat
    /\ DryRun \subseteq BOOLEAN
    /\ Jito \in BOOLEAN /\ Lossy \in BOOLEAN

VARIABLES
    wallet,  \* lots of each token the bot's wallet holds on chain
    stray,   \* how many copies of a transaction may still land unobserved
    call,    \* the call each caller has under way
    dry_run  \* args.dry_run: are orders logged instead of sent?

traderVars == <<wallet, stray, call, dry_run>>

Transaction == [caller: Caller, op: {"buy", "sell"}, lots: 0 .. MaxLots]

\* "ok", "err" and "dry" stand for Ok(Some(sig)), Err(_) and Ok(None).
Returned == {"ok", "err", "dry"}

Attempts(op) == IF op = "buy" THEN BuyAttempts ELSE SellAttempts

MostAttempts == IF BuyAttempts > SellAttempts THEN BuyAttempts ELSE SellAttempts

Call == [op: {"buy", "sell"}, attempt: 0 .. MostAttempts,
         phase: {"idle", "submit", "rpc", "confirm"} \cup Returned,
         chain: {"none", "flying", "landed", "failed"},
         lots: 0 .. MaxLots]

NoCall == [op |-> "buy", attempt |-> 0, phase |-> "idle",
           chain |-> "none", lots |-> 0]

TraderTypeOK ==
    /\ wallet \in [Mint -> 0 .. MaxLots]
    /\ stray \in [Transaction -> 0 .. MaxStray]
    /\ call \in [Caller -> Call]
    /\ dry_run \in BOOLEAN

TraderInit ==
    /\ wallet = [m \in Mint |-> 0]
    /\ stray = [t \in Transaction |-> 0]
    /\ call = [c \in Caller |-> NoCall]
    /\ dry_run \in DryRun

-----------------------------------------------------------------------------
(* Calling and returning. *)

Idle(c) == call[c].phase = "idle"

Begin(c, op) ==
    /\ Idle(c)
    /\ call' = [call EXCEPT ![c] = [NoCall EXCEPT !.op = op, !.attempt = 1,
                                                  !.phase = "submit"]]
    /\ UNCHANGED <<wallet, stray, dry_run>>

Returns(c, result) == call[c].phase = result

\* The caller takes the result.
End(c) ==
    /\ call' = [call EXCEPT ![c] = NoCall]
    /\ UNCHANGED <<wallet, stray, dry_run>>

-----------------------------------------------------------------------------
(* One attempt. *)

\* The size of the transaction PumpPortal builds; none for an empty wallet.
OrderLots(c) == IF call[c].op = "buy" THEN 1 ELSE wallet[MintOf[c]]

\* Mutant of Retried: an attempt that is not counted.
RetriedForever(c) == [NoCall EXCEPT !.op = call[c].op, !.attempt = 1,
                                    !.phase = "submit"]

\* What c's call is after its attempt ended in an error.
Retried(c) ==
    LET again == call[c].attempt < Attempts(call[c].op)
    IN  [op |-> call[c].op,
         attempt |-> IF again THEN call[c].attempt + 1 ELSE call[c].attempt,
         phase |-> IF again THEN "submit" ELSE "err",
         chain |-> "none", lots |-> 0]

Sent(c) == [call[c] EXCEPT !.phase = "confirm", !.chain = "flying",
                           !.lots = OrderLots(c)]

Stray(c, lots) == [caller |-> c, op |-> call[c].op, lots |-> lots]

\* The transaction is out of the program's hands and may still land.
LoseTrack(t) == stray[t] < MaxStray /\ stray' = [stray EXCEPT ![t] = @ + 1]

DrySubmit(c) ==
    /\ dry_run
    /\ call[c].phase = "submit"
    /\ call' = [call EXCEPT ![c].phase = "dry"]
    /\ UNCHANGED <<wallet, stray, dry_run>>

AtBundle(c) == ~dry_run /\ Jito /\ call[c].phase = "submit"

BundleAccepted(c) ==
    /\ AtBundle(c)
    /\ OrderLots(c) > 0
    /\ call' = [call EXCEPT ![c] = Sent(c)]
    /\ UNCHANGED <<wallet, stray, dry_run>>

\* Any error of send_bundle falls back to the RPC node in the same attempt.
BundleRefused(c) ==
    /\ AtBundle(c)
    /\ call' = [call EXCEPT ![c].phase = "rpc"]
    /\ UNCHANGED <<wallet, stray, dry_run>>

\* The engine took the bundle and its reply was lost or could not be read.
BundleReplyLost(c) ==
    /\ Lossy
    /\ AtBundle(c)
    /\ OrderLots(c) > 0
    /\ LoseTrack(Stray(c, OrderLots(c)))
    /\ call' = [call EXCEPT ![c].phase = "rpc"]
    /\ UNCHANGED <<wallet, dry_run>>

AtRpc(c) ==
    /\ ~dry_run
    /\ \/ call[c].phase = "rpc"
       \/ ~Jito /\ call[c].phase = "submit"

SendAccepted(c) ==
    /\ AtRpc(c)
    /\ OrderLots(c) > 0
    /\ call' = [call EXCEPT ![c] = Sent(c)]
    /\ UNCHANGED <<wallet, stray, dry_run>>

SendRefused(c) ==
    /\ AtRpc(c)
    /\ call' = [call EXCEPT ![c] = Retried(c)]
    /\ UNCHANGED <<wallet, stray, dry_run>>

SendReplyLost(c) ==
    /\ Lossy
    /\ AtRpc(c)
    /\ OrderLots(c) > 0
    /\ LoseTrack(Stray(c, OrderLots(c)))
    /\ call' = [call EXCEPT ![c] = Retried(c)]
    /\ UNCHANGED <<wallet, dry_run>>

\* Mutant of Confirmed: a transaction the node knows of counts as confirmed.
ConfirmedUnseen(c) ==
    /\ call[c].phase = "confirm"
    /\ call[c].chain # "failed"
    /\ call' = [call EXCEPT ![c] = [NoCall EXCEPT !.op = call[c].op,
                                                  !.attempt = call[c].attempt,
                                                  !.phase = "ok"]]
    /\ UNCHANGED <<wallet, stray, dry_run>>

Confirmed(c) ==
    /\ call[c].phase = "confirm"
    /\ call[c].chain = "landed"
    /\ call' = [call EXCEPT ![c] = [NoCall EXCEPT !.op = call[c].op,
                                                  !.attempt = call[c].attempt,
                                                  !.phase = "ok"]]
    /\ UNCHANGED <<wallet, stray, dry_run>>

\* The transaction failed on chain, or expired and its confirmation timed out.
ConfirmFailed(c) ==
    /\ call[c].phase = "confirm"
    /\ call[c].chain = "failed"
    /\ call' = [call EXCEPT ![c] = Retried(c)]
    /\ UNCHANGED <<wallet, stray, dry_run>>

\* confirm() gives up on a transaction that landed or still can: one failed
\* status query is enough, and so is a minute without an answer.
ConfirmLost(c) ==
    /\ Lossy
    /\ call[c].phase = "confirm"
    /\ \/ call[c].chain = "landed" /\ UNCHANGED stray
       \/ call[c].chain = "flying" /\ LoseTrack(Stray(c, call[c].lots))
    /\ call' = [call EXCEPT ![c] = Retried(c)]
    /\ UNCHANGED <<wallet, dry_run>>

AnsweredStep(c) ==
    \/ DrySubmit(c)
    \/ BundleAccepted(c) \/ BundleRefused(c)
    \/ SendAccepted(c) \/ SendRefused(c)
    \/ Confirmed(c) \/ ConfirmFailed(c)

LostStep(c) == BundleReplyLost(c) \/ SendReplyLost(c) \/ ConfirmLost(c)

CallStep(c) == AnsweredStep(c) \/ LostStep(c)

-----------------------------------------------------------------------------
(* The chain.  A sell whose lots are gone by then fails. *)

Executes(op, m, lots) ==
    \/ /\ op = "buy"
       /\ wallet[m] + lots <= MaxLots
       /\ wallet' = [wallet EXCEPT ![m] = @ + lots]
    \/ /\ op = "sell"
       /\ wallet[m] >= lots
       /\ wallet' = [wallet EXCEPT ![m] = @ - lots]

Land(c) ==
    /\ call[c].phase = "confirm"
    /\ call[c].chain = "flying"
    /\ Executes(call[c].op, MintOf[c], call[c].lots)
    /\ call' = [call EXCEPT ![c].chain = "landed"]
    /\ UNCHANGED <<stray, dry_run>>

\* Slippage exceeded, or the blockhash expired.
Fail(c) ==
    /\ call[c].phase = "confirm"
    /\ call[c].chain = "flying"
    /\ call' = [call EXCEPT ![c].chain = "failed"]
    /\ UNCHANGED <<wallet, stray, dry_run>>

LandStray(t) ==
    /\ stray[t] > 0
    /\ stray' = [stray EXCEPT ![t] = @ - 1]
    /\ Executes(t.op, MintOf[t.caller], t.lots)
    /\ UNCHANGED <<call, dry_run>>

FailStray(t) ==
    /\ stray[t] > 0
    /\ stray' = [stray EXCEPT ![t] = @ - 1]
    /\ UNCHANGED <<wallet, call, dry_run>>

ChainStep(c) == Land(c) \/ Fail(c)

StrayStep == \E t \in Transaction : LandStray(t) \/ FailStray(t)
=============================================================================
