--------------------------- MODULE AuctionBuilders ---------------------------
(***************************************************************************)
(* What the operations of the auction house compute before they send       *)
(* anything: the models they read, the checks they make and the            *)
(* instructions of their builders.  hasAuctioneer is what the model of the *)
(* house says; whoever calls then provides the auctioneer authority.       *)
(***************************************************************************)
EXTENDS AuctionProgram

\* A loaded Listing or Bid.  The trade state, its address, determines the price, the
\* tokens and the wallet; account is that of the asset the model was loaded with.
Models ==
  [order : Orders, account : Accounts \cup {Anywhere}, receipt : BOOLEAN,
   canceled : BOOLEAN]

\* loadListing fetches the asset with the associated account of the seller.
LoadedListing(order, receipt, canceled) ==
  [order |-> order, account |-> Ata[order.wallet], receipt |-> receipt,
   canceled |-> canceled]

\* loadBid fetches the asset with the account of the bid, or without one.
LoadedBid(order, receipt, canceled) ==
  [order |-> order, account |-> order.account, receipt |-> receipt,
   canceled |-> canceled]

\* An account that is missing is an error of the load.
Loadable(l, m) == m.account # Anywhere => l.exists[m.account]

When(condition, instructions) == IF condition THEN instructions ELSE <<>>

PrintReceiptWhen(print, hasAuctioneer, receipt) ==
  When(print /\ ~hasAuctioneer, <<[type |-> "printReceipt", receipt |-> receipt]>>)

-----------------------------------------------------------------------------
ListingPrice(price, hasAuctioneer) == IF hasAuctioneer THEN AuctioneerPrice ELSE price

CreateListing(seller, account, price, size, print, hasAuctioneer) ==
  LET order == Order(seller, account, ListingPrice(price, hasAuctioneer), size)
  IN  <<[type |-> "sell", order |-> order, auctioneer |-> hasAuctioneer]>>
      \o PrintReceiptWhen(print, hasAuctioneer, Listing(order))

\* Mutant: does not look whether the token account exists.
CreateBidBlindly(buyer, account, price, size, print, hasAuctioneer, ataExists) ==
  LET order == Order(buyer, account, price, size)
      used  == IF account = Anywhere THEN Ata[buyer] ELSE account
  IN  When(account = Anywhere, <<[type |-> "createToken", account |-> used]>>)
      \o <<[type |-> "buy", order |-> order, account |-> used, auctioneer |-> hasAuctioneer]>>
      \o PrintReceiptWhen(print, hasAuctioneer, Bid(order))

\* A public bid needs the associated token account of the buyer.
CreateBid(buyer, account, price, size, print, hasAuctioneer, ataExists) ==
  LET order == Order(buyer, account, price, size)
      used  == IF account = Anywhere THEN Ata[buyer] ELSE account
  IN  When(account = Anywhere /\ ~ataExists,
           <<[type |-> "createToken", account |-> used]>>)
      \o <<[type |-> "buy", order |-> order, account |-> used, auctioneer |-> hasAuctioneer]>>
      \o PrintReceiptWhen(print, hasAuctioneer, Bid(order))

\* Mutant: always cancels an order of one token.
CancelOneToken(signer, order, account, price, hasAuctioneer) ==
  [type |-> "cancel", signer |-> signer, order |-> order, wallet |-> order.wallet,
   account |-> account, price |-> price, size |-> 1, auctioneer |-> hasAuctioneer]

CancelOrder(signer, order, account, price, hasAuctioneer) ==
  [type |-> "cancel", signer |-> signer, order |-> order, wallet |-> order.wallet,
   account |-> account, price |-> price, size |-> order.size,
   auctioneer |-> hasAuctioneer]

\* Mutant: leaves the receipt as it is.
CancelReceiptNever(printed, receipt) == <<>>

CancelReceiptWhen(printed, receipt) ==
  When(printed, <<[type |-> "cancelReceipt", receipt |-> receipt]>>)

CancelListing(signer, m, hasAuctioneer) ==
  <<CancelOrder(signer, m.order, m.account, ListingPrice(m.order.price, hasAuctioneer),
                hasAuctioneer)>>
  \o CancelReceiptWhen(m.receipt, Listing(m.order))

CancelBid(signer, m, hasAuctioneer) ==
  LET account == IF m.account = Anywhere THEN Ata[m.order.wallet] ELSE m.account
  IN  <<CancelOrder(signer, m.order, account, m.order.price, hasAuctioneer)>>
      \o CancelReceiptWhen(m.receipt, Bid(m.order))

-----------------------------------------------------------------------------
(* executeSale.                                                            *)

\* The decimal digits of a number, and the order of two texts: what "<" compares
\* when its operands are BN objects.
Digits(n) ==
  LET digits[k \in 0 .. n] ==
        IF k < 10 THEN <<k>> ELSE Append(digits[k \div 10], k % 10)
  IN  digits[n]

TextLess(a, b) ==
  \E k \in 1 .. Len(b) :
    /\ k <= Len(a) + 1
    /\ SubSeq(a, 1, k - 1) = SubSeq(b, 1, k - 1)
    /\ k <= Len(a) => a[k] < b[k]

IsPartialSale(listing, bid) ==
  TextLess(Digits(bid.order.size), Digits(listing.order.size))

\* The price of a token, in the smallest unit of the currency, rounded down.
TokenPrice(order) == order.price \div order.size

CanSell(listing, bid, hasAuctioneer) ==
  /\ ~bid.canceled /\ ~listing.canceled
  /\ IsPartialSale(listing, bid) =>
       ~hasAuctioneer /\ TokenPrice(listing.order) = TokenPrice(bid.order)

\* Mutant: the terms of the bid, whatever is sold.
BidTermsOnly(listing, bid) == bid.order

\* The trade states are found from the terms of the listing in a partial sale, and
\* from those of the bid otherwise.
SaleTerms(listing, bid) ==
  IF IsPartialSale(listing, bid) THEN listing.order ELSE bid.order

SaleInstruction(signer, listing, bid, hasAuctioneer) ==
  [type |-> IF IsPartialSale(listing, bid) THEN "executePartialSale" ELSE "executeSale",
   signer |-> signer, listing |-> listing.order, bid |-> bid.order,
   account |-> listing.account,
   price |-> SaleTerms(listing, bid).price, size |-> SaleTerms(listing, bid).size,
   partialPrice |-> bid.order.price, partialSize |-> bid.order.size,
   auctioneer |-> hasAuctioneer]

PrintsPurchase(listing, bid, print) ==
  print /\ listing.receipt /\ bid.receipt /\ ~IsPartialSale(listing, bid)

SaleInstructions(signer, listing, bid, print, hasAuctioneer) ==
  <<SaleInstruction(signer, listing, bid, hasAuctioneer)>>
  \o When(PrintsPurchase(listing, bid, print),
          <<[type |-> "printPurchaseReceipt", listing |-> Listing(listing.order),
             bid |-> Bid(bid.order)]>>)

-----------------------------------------------------------------------------
MoveFunds(type, wallet, amount, hasAuctioneer) ==
  <<[type |-> type, wallet |-> wallet, amount |-> amount, auctioneer |-> hasAuctioneer]>>
=============================================================================
