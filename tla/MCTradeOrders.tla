--------------------------- MODULE MCTradeOrders ----------------------------
(* Instances of TradeOrders: two buyers, or a buyer and a seller, of one    *)
(* token.                                                                   *)
EXTENDS TradeOrders, TLC

CONSTANTS c1, c2, m1

MCMintOf == (c1 :> m1) @@ (c2 :> m1)
MCBuyerAndSeller == (c1 :> "buy") @@ (c2 :> "sell")
=============================================================================
