--------------------------- MODULE MCAuctionTrade ---------------------------
(* A seller, who owns the house, and a buyer; the settings of the runs.     *)
EXTENDS AuctionTrade, TLC

CONSTANTS seller, buyer, sellerAta, buyerAta

Owners == (sellerAta :> seller) @@ (buyerAta :> buyer)
AccountOwner == [a \in Accounts |-> Owners[a]]
WalletAta == (seller :> sellerAta) @@ (buyer :> buyerAta)

AllOnAta   == [a \in Accounts |-> IF a = sellerAta THEN Supply ELSE 0]
BuyerPurse == [w \in Wallets |-> IF w = buyer THEN Funds ELSE 0]

OneForOne  == {<<1, 1>>}
TwoForTwo  == {<<2, 2>>}
TenForTen  == {<<10, 10>>}
OneOrTwo   == {<<1, 1>>, <<2, 2>>}
=============================================================================
