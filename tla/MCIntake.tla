------------------------------ MODULE MCIntake ------------------------------
(* An instance of Intake: tokens with four accounts of up to 4 units, of     *)
(* whose ten or nine units two accounts may hold 60 percent; the largest     *)
(* gives two to another and burns one, or gets them back and one is minted.  *)
EXTENDS Intake

MCEvent == [symbol: BOOLEAN]

MCAccounts == 1 .. 4

MCOwners == {<<"wallet", "wallet", "wallet", "wallet">>,
             <<"wallet", "bonding", "wallet", "wallet">>,
             <<"pool", "wallet", "wallet", "wallet">>}

MCBalances == {<<4, 3, 2, 1>>, <<1, 3, 2, 3>>}

MCSettings ==
    {[enabled |-> TRUE, min_holders |-> 1, min_txs |-> 3, max_share |-> 60],
     [enabled |-> TRUE, min_holders |-> 0, min_txs |-> 5, max_share |-> 0],
     [enabled |-> FALSE, min_holders |-> 1, min_txs |-> 1, max_share |-> 1]}
=============================================================================
