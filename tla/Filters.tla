------------------------------ MODULE Filters -------------------------------
(***************************************************************************)
(* What stands between a graduation and its session: the look-up of the    *)
(* token's name (main.rs) and the filters (session.rs run_filters), with   *)
(* the reads of the chain they are made of (onchain.rs).                   *)
(*                                                                         *)
(* A step is one call of the RPC node: it reads the chain at one moment,   *)
(* or fails.  The chain goes on between two calls.  Signatures are         *)
(* numbered from the oldest, which is 1; balances are integers.            *)
(***************************************************************************)
EXTENDS Naturals, Sequences, FiniteSetsExt

CONSTANTS
    Settings,        \* the [tradingfilters] sections; a limit of 0 is off
    LookupAttempts,  \* ACCOUNT_LOOKUP_ATTEMPTS, one interval apart
    PageSize,        \* SIG_PAGE_SIZE
    MaxPages,        \* MAX_SIG_PAGES
    TopN,            \* 10
    Listed,          \* accounts getTokenLargestAccounts returns at most: 20
    TokenAccount,    \* token accounts of the mint; one that is not open holds nothing
    Owners,          \* who may own them, by account
    Balances,        \* what may be in them, by account
    MaxCount,        \* bound: holders
    MaxSigs          \* bound: signatures of the bonding curve

Owner == {"bonding", "pool", "wallet"}

ASSUME FiltersConstants ==
    /\ Settings \subseteq [enabled: BOOLEAN, min_holders: Nat, min_txs: Nat,
                           max_share: 0 .. 100]
    /\ LookupAttempts \in Nat \ {0} /\ PageSize \in Nat \ {0}
    /\ MaxPages \in Nat \ {0} /\ TopN \in Nat /\ Listed \in Nat
    /\ MaxCount \in Nat /\ MaxSigs \in Nat
    /\ IsFiniteSet(TokenAccount)
    /\ Owners \subseteq [TokenAccount -> Owner] /\ Balances \subseteq [TokenAccount -> Nat]

VARIABLES
    settings,  \* the configuration
    step,      \* what the task reads next, or what it has decided
    tries,     \* attempts of the look-up under way
    asleep,    \* is it between two attempts?
    count,     \* signatures counted
    before,    \* the signature the next page lies before; 0 for the newest page
    entries,   \* the listed accounts still counted, with what the list says of them
    owned,     \* those of them whose owner is known, and not the bonding curve
    verdict,   \* why the token was rejected
    visible,   \* chain: the accounts the node has: "mint", "metadata"
    sigs,      \* chain: signatures of the bonding curve so far
    holding,   \* chain: what is in the token's accounts
    owner,     \* chain: who owns them
    snapshot,  \* history: signatures when the first page was read
    held,      \* history: what was in the accounts when they were listed
    garbled,   \* history: the listed accounts that did not parse
    supply     \* history: the supply the sum was compared with

chainVars == <<visible, sigs, holding, owner>>
countVars == <<count, before, snapshot>>
topVars == <<entries, owned, held, garbled, supply>>
filterVars == <<settings, step, tries, asleep, countVars, topVars, verdict, chainVars>>

Lookups == {"metaplex", "token22", "program"}

Calls == {"holders", "txs", "top", "accounts", "owners", "supply"}

Reads == Lookups \cup Calls

FiltersTypeOK ==
    /\ settings \in Settings
    /\ step \in Reads \cup {"none", "passed", "rejected"}
    /\ tries \in 0 .. LookupAttempts - 1
    /\ asleep \in BOOLEAN
    /\ count \in 0 .. PageSize * MaxPages
    /\ before \in 0 .. MaxSigs
    /\ verdict \in {"none", "error", "invisible", "holders", "txs", "top"}
    /\ DOMAIN entries \subseteq TokenAccount /\ entries \in [DOMAIN entries -> Nat]
    /\ owned \subseteq DOMAIN entries
    /\ visible \in SUBSET {"mint", "metadata"}
    /\ sigs \in 0 .. MaxSigs /\ snapshot \in 0 .. MaxSigs
    /\ holding \in Balances /\ owner \in Owners
    /\ held \in [TokenAccount -> Nat] /\ garbled \subseteq TokenAccount /\ supply \in Nat

FiltersInit ==
    /\ settings \in Settings
    /\ step = "none"
    /\ tries = 0 /\ asleep = FALSE
    /\ count = 0 /\ before = 0 /\ snapshot = 0
    /\ verdict = "none"
    /\ visible \in SUBSET {"mint", "metadata"}
    /\ sigs \in 0 .. MaxSigs
    /\ holding \in Balances /\ owner \in Owners
    /\ entries = << >> /\ owned = {}
    /\ held = [a \in TokenAccount |-> 0] /\ garbled = {} /\ supply = 0

-----------------------------------------------------------------------------
(* Moving on. *)

Wanted == [program |-> settings.min_holders > 0,
           txs     |-> settings.min_txs > 0,
           top     |-> settings.max_share > 0]

\* The filters in their order; those that are off are passed over.
FirstOf(order) ==
    LET on == {i \in DOMAIN order : Wanted[order[i]]}
    IN  IF settings.enabled /\ on # {} THEN order[Min(on)] ELSE "passed"

AfterName == FirstOf(<<"program", "txs", "top">>)
AfterHolders == FirstOf(<<"txs", "top">>)
AfterTxs == FirstOf(<<"top">>)

Goto(to) == step' = to /\ tries' = 0 /\ asleep' = FALSE /\ UNCHANGED verdict

Reject(why) ==
    /\ step' = "rejected"
    /\ verdict' = why
    /\ UNCHANGED <<tries, asleep>>

\* main.rs spawns a task for the event; a symbol in the frame is not looked up.
Begin(event) ==
    /\ step = "none"
    /\ Goto(IF event.symbol THEN AfterName ELSE "metaplex")
    /\ UNCHANGED <<settings, countVars, topVars, chainVars>>

-----------------------------------------------------------------------------
(* get_account_with_retry: of the metadata account, of the mint for its    *)
(* metadata extension, of the mint for its token program.                  *)

Account == IF step = "metaplex" THEN "metadata" ELSE "mint"

LookingUp == step \in Lookups /\ ~asleep

\* A name that is not found is done without, a program that is not is fatal.
LookupFails(why) ==
    \/ step = "metaplex" /\ Goto("token22")
    \/ step = "token22" /\ Goto(AfterName)
    \/ step = "program" /\ Reject(why)

LookupSucceeds ==
    /\ LookingUp
    /\ Account \in visible
    /\ \/ step = "program" /\ Goto("holders")
       \/ step \in {"metaplex", "token22"} /\ Goto(AfterName)
    /\ UNCHANGED <<settings, countVars, topVars, chainVars>>

\* An RPC error, or an account that is not what it should be.
LookupErrs ==
    /\ LookingUp
    /\ LookupFails("error")
    /\ UNCHANGED <<settings, countVars, topVars, chainVars>>

\* Mutant of LookupMisses: attempts without end.
LookupMissesForever ==
    /\ LookingUp
    /\ Account \notin visible
    /\ asleep' = TRUE
    /\ UNCHANGED <<settings, step, tries, verdict, countVars, topVars, chainVars>>

LookupMisses ==
    /\ LookingUp
    /\ Account \notin visible
    /\ IF tries + 1 < LookupAttempts
       THEN tries' = tries + 1 /\ asleep' = TRUE /\ UNCHANGED <<step, verdict>>
       ELSE LookupFails("invisible")
    /\ UNCHANGED <<settings, countVars, topVars, chainVars>>

-----------------------------------------------------------------------------
(* The filters. *)

\* Any call of a filter may fail, and the token is rejected then.
ReadErrs ==
    /\ step \in Calls
    /\ Reject("error")
    /\ UNCHANGED <<settings, countVars, topVars, chainVars>>

\* Accounts of the mint with tokens in them.
HoldersRead ==
    /\ step = "holders"
    /\ \E n \in 0 .. MaxCount :
          IF n < settings.min_holders THEN Reject("holders") ELSE Goto(AfterHolders)
    /\ UNCHANGED <<settings, countVars, topVars, chainVars>>

\* Mutant of Newest: pages are counted from the newest signature there is.
NewestByOffset == IF sigs > count THEN sigs - count ELSE 0

\* Signatures newer than the cursor are not in a page.
Newest == IF before = 0 THEN sigs ELSE before - 1

PageLength == IF Newest < PageSize THEN Newest ELSE PageSize

NextBefore == Newest - PageLength + 1

Judge(n) == IF n < settings.min_txs THEN Reject("txs") ELSE Goto(AfterTxs)

\* The last page is one that is not full, or the MaxPages-th.
PageRead ==
    /\ step = "txs"
    /\ count' = count + PageLength
    /\ snapshot' = IF count = 0 THEN sigs ELSE snapshot
    /\ IF PageLength < PageSize \/ count' = MaxPages * PageSize
       THEN Judge(count') /\ UNCHANGED before
       ELSE before' = NextBefore /\ UNCHANGED <<step, tries, asleep, verdict>>
    /\ UNCHANGED <<settings, topVars, chainVars>>

\* The units in these accounts, and how many.
Units(amount, accounts) == UNION {{a} \X (1 .. amount[a]) : a \in accounts}

Total(amount, accounts) == Cardinality(Units(amount, accounts))

\* n of the accounts, or all, with no less in any than in one left out.
Largest(n, amount) ==
    {l \in SUBSET DOMAIN amount :
        /\ Cardinality(l) = Min({n, Cardinality(DOMAIN amount)})
        /\ \A a \in l, b \in DOMAIN amount \ l : amount[a] >= amount[b]}

\* getTokenLargestAccounts.  An entry whose address or amount does not parse is passed
\* over; it is an error if none does.
LargestRead ==
    /\ step = "top"
    /\ \E list \in Largest(Listed, holding) :
          \E bad \in SUBSET list \ {list} :
              /\ entries' = [a \in list \ bad |-> holding[a]]
              /\ garbled' = bad
    /\ held' = holding
    /\ Goto("accounts")
    /\ UNCHANGED <<settings, countVars, owned, supply, chainVars>>

Without(gone) == [a \in DOMAIN entries \ gone |-> entries[a]]

\* Mutant of NotTheCurves: what could not be read is dropped.
NotTheCurvesKnown(read) ==
    Without(DOMAIN entries \ {a \in read : owner[a] # "bonding"})

\* An account that could not be read is kept.
NotTheCurves(read) == Without({a \in read : owner[a] = "bonding"})

\* The token accounts, for their owners.  The owners are looked up unless there are none.
AccountsRead ==
    /\ step = "accounts"
    /\ \E read \in SUBSET DOMAIN entries :
          /\ entries' = NotTheCurves(read)
          /\ owned' = {a \in read : owner[a] # "bonding"}
    /\ Goto(IF owned' = {} THEN "supply" ELSE "owners")
    /\ UNCHANGED <<settings, countVars, held, garbled, supply, chainVars>>

\* The owners' accounts: those of the pools' program are pools.
OwnersRead ==
    /\ step = "owners"
    /\ \E found \in SUBSET owned : entries' = Without({a \in found : owner[a] = "pool"})
    /\ owned' = {}
    /\ Goto("supply")
    /\ UNCHANGED <<settings, countVars, held, garbled, supply, chainVars>>

TooConcentrated(sum, total) == sum * 100 > settings.max_share * total

\* getTokenSupply, and the top ones of what was kept.  No supply is an error.
SupplyRead ==
    /\ step = "supply"
    /\ supply' = Total(holding, TokenAccount)
    /\ supply' > 0
    /\ \E top \in Largest(TopN, entries) :
          IF TooConcentrated(Total(entries, top), supply')
          THEN Reject("top") ELSE Goto("passed")
    /\ UNCHANGED <<settings, countVars, entries, owned, held, garbled, chainVars>>

FilterStep ==
    \/ LookupSucceeds \/ LookupErrs \/ LookupMisses \/ ReadErrs
    \/ HoldersRead \/ PageRead
    \/ LargestRead \/ AccountsRead \/ OwnersRead \/ SupplyRead

-----------------------------------------------------------------------------
(* The chain, and time. *)

Traded ==
    /\ sigs < MaxSigs
    /\ sigs' = sigs + 1
    /\ UNCHANGED <<settings, step, tries, asleep, countVars, topVars, verdict, visible,
                   holding, owner>>

\* Tokens move between accounts, and may be burnt; an account keeps its owner.
Moved ==
    /\ holding' \in Balances \ {holding}
    /\ UNCHANGED <<settings, step, tries, asleep, countVars, topVars, verdict, visible,
                   sigs, owner>>

Appears ==
    /\ \E a \in {"mint", "metadata"} \ visible : visible' = visible \cup {a}
    /\ UNCHANGED <<settings, step, tries, asleep, countVars, topVars, verdict, sigs,
                   holding, owner>>

FiltersTick ==
    /\ asleep' = FALSE
    /\ UNCHANGED <<settings, step, tries, countVars, topVars, verdict, chainVars>>
=============================================================================
