---------------------------- MODULE AuctionTrade ----------------------------
(***************************************************************************)
(* Sellers, buyers and the authority of one auction house.                 *)
(*                                                                         *)
(* The caller holds a Listing and a Bid that were read at some moment and  *)
(* may be long canceled or sold.  Building a transaction and its landing   *)
(* are two steps, and an operation may be given up on although its         *)
(* transaction lands.                                                      *)
(***************************************************************************)
EXTENDS AuctionBuilders, Sums

CONSTANTS
  Stock,         \* the tokens on each account at first
  Purse,         \* the SOL of each wallet at first
  Missing,       \* the accounts that do not exist at first
  Sellers,
  Buyers,
  ListTerms,     \* <<price, size>> of the listings callers make
  BidTerms,      \* and of their bids
  Targets,       \* what callers bid on: token accounts, or Anywhere
  PrintOptions,  \* the values of printReceipt that callers use
  Others,        \* what others do meanwhile: "delegate", "send"
  MaxInFlight,   \* bound: operations that have not answered, or may still land
  NoModel

ASSUME CallersAssumption ==
  /\ Stock \in [Accounts -> 0 .. Supply] /\ AddsUp(Stock, Supply)
  /\ Purse \in [Wallets -> 0 .. Funds] /\ AddsUp(Purse, Funds)
  /\ Missing \subseteq Accounts
  /\ Sellers \subseteq Wallets /\ Buyers \subseteq Wallets
  /\ ListTerms \subseteq Prices \X Sizes /\ BidTerms \subseteq Prices \X Sizes
  /\ Targets \subseteq Accounts \cup {Anywhere}
  /\ PrintOptions \subseteq BOOLEAN
  /\ MaxInFlight \in Nat

VARIABLES
  ledger,
  listing,   \* the Listing the caller holds
  bid,       \* the Bid the caller holds
  network,   \* the transactions sent and not yet landed
  answers    \* confirmed transactions whose operation is still to answer

vars == <<ledger, listing, bid, network, answers>>

Init ==
  /\ ledger = [exists |-> [a \in Accounts |-> a \notin Missing], tokens |-> Stock,
               delegated |-> [a \in Accounts |-> 0], sol |-> Purse,
               escrow |-> [w \in Wallets |-> 0], live |-> {}, open |-> {},
               canceled |-> {}, bought |-> {}, auctioneer |-> FALSE]
  /\ listing = NoModel
  /\ bid = NoModel
  /\ network = {}
  /\ answers = {}

-----------------------------------------------------------------------------
\* Whether the house has an auctioneer, as its model says when it is current.
House == ledger.auctioneer

\* base is what the caller knew: the models and accounts the builder read.
Send(op, instructions, base) ==
  /\ Cardinality(network) + Cardinality(answers) < MaxInFlight
  /\ network' = network \cup {[op |-> op, instructions |-> instructions, base |-> base,
                             house |-> House]}

CreateListingCall(seller, account, price, size, print) ==
  /\ Owner[account] = seller
  /\ Send("list", CreateListing(seller, account, price, size, print, House),
          [order |-> Order(seller, account, ListingPrice(price, House), size),
           receipt |-> print /\ ~House])
  /\ UNCHANGED <<ledger, listing, bid, answers>>

\* A public bid reads whether the token account of the buyer exists.
CreateBidCall(buyer, account, price, size, print) ==
  /\ account # Anywhere => Owner[account] # buyer
  /\ Send("bid", CreateBid(buyer, account, price, size, print, House,
                           ledger.exists[Ata[buyer]]),
          [order |-> Order(buyer, account, price, size), receipt |-> print /\ ~House,
           existed |-> ledger.exists[Ata[buyer]]])
  /\ UNCHANGED <<ledger, listing, bid, answers>>

CancelListingCall(signer) ==
  /\ listing # NoModel
  /\ Send("cancel", CancelListing(signer, listing, House),
          [model |-> listing, side |-> "listing"])
  /\ UNCHANGED <<ledger, listing, bid, answers>>

CancelBidCall(signer) ==
  /\ bid # NoModel
  /\ Send("cancel", CancelBid(signer, bid, House), [model |-> bid, side |-> "bid"])
  /\ UNCHANGED <<ledger, listing, bid, answers>>

\* Nobody sells to himself.
ExecuteSaleCall(signer, print) ==
  /\ listing # NoModel /\ bid # NoModel
  /\ listing.order.wallet # bid.order.wallet
  /\ CanSell(listing, bid, House)
  /\ Send("sale", SaleInstructions(signer, listing, bid, print, House),
          [listing |-> listing, bid |-> bid,
           receipt |-> PrintsPurchase(listing, bid, print)])
  /\ UNCHANGED <<ledger, listing, bid, answers>>

\* depositToBuyerAccount and withdrawFromBuyerAccount.
MoveFundsCall(type, wallet, amount) ==
  /\ Send(type, MoveFunds(type, wallet, amount, House), [wallet |-> wallet])
  /\ UNCHANGED <<ledger, listing, bid, answers>>

-----------------------------------------------------------------------------
(* Reading an order from its receipt, also by its trade state.             *)

HasReceipt(r) == r \in ledger.open \cup ledger.canceled \cup ledger.bought

FindListing(order) ==
  LET m == LoadedListing(order, TRUE, Listing(order) \in ledger.canceled)
  IN  /\ HasReceipt(Listing(order)) /\ Loadable(ledger, m)
      /\ listing' = m
      /\ UNCHANGED <<ledger, bid, network, answers>>

FindBid(order) ==
  LET m == LoadedBid(order, TRUE, Bid(order) \in ledger.canceled)
  IN  /\ HasReceipt(Bid(order)) /\ Loadable(ledger, m)
      /\ bid' = m
      /\ UNCHANGED <<ledger, listing, network, answers>>

-----------------------------------------------------------------------------
(* The network and the answers.                                            *)

Outcome(t) == After(ledger, t.instructions)

\* The caller may have given up on the operation, or the answer is lost.
Land(t, heard) ==
  /\ t \in network
  /\ network' = network \ {t}
  /\ ledger' = IF Outcome(t) = Refused THEN ledger ELSE Outcome(t)
  /\ answers' = IF heard /\ Outcome(t) # Refused /\ t.op \in {"list", "bid", "sale"}
                THEN answers \cup {[op |-> t.op, base |-> t.base]}
                ELSE answers
  /\ UNCHANGED <<listing, bid>>

\* The blockhash of the transaction expires.
Expire(t) ==
  /\ t \in network
  /\ network' = network \ {t}
  /\ UNCHANGED <<ledger, listing, bid, answers>>

\* Without a receipt the model is made of what the builder knew.
AnswerList(r) ==
  LET m == LoadedListing(r.base.order, r.base.receipt,
                         r.base.receipt /\ Listing(r.base.order) \in ledger.canceled)
  IN  /\ r \in answers /\ r.op = "list"
      /\ answers' = answers \ {r}
      /\ listing' = IF Loadable(ledger, m) THEN m ELSE listing
      /\ UNCHANGED <<ledger, bid, network>>

AnswerBid(r) ==
  LET m == LoadedBid(r.base.order, r.base.receipt,
                     r.base.receipt /\ Bid(r.base.order) \in ledger.canceled)
  IN  /\ r \in answers /\ r.op = "bid"
      /\ answers' = answers \ {r}
      /\ bid' = IF Loadable(ledger, m) THEN m ELSE bid
      /\ UNCHANGED <<ledger, listing, network>>

\* The Purchase is not kept by anybody.
AnswerSale(r) ==
  /\ r \in answers /\ r.op = "sale"
  /\ answers' = answers \ {r}
  /\ UNCHANGED <<ledger, listing, bid, network>>

-----------------------------------------------------------------------------
(* What others do to the same accounts.                                    *)

\* The update of a house that had no auctioneer.
DelegateAuctioneer ==
  /\ "delegate" \in Others /\ ~House
  /\ ledger' = [ledger EXCEPT !.auctioneer = TRUE]
  /\ UNCHANGED <<listing, bid, network, answers>>

\* A token is sent, to an account that is created if it is missing.
SendToken(from, to) ==
  /\ "send" \in Others /\ from # to /\ ledger.tokens[from] > 0
  /\ ledger' = [ledger EXCEPT !.tokens = Moved(@, from, to, 1), !.exists[to] = TRUE]
  /\ UNCHANGED <<listing, bid, network, answers>>

-----------------------------------------------------------------------------
Next ==
  \/ \E print \in PrintOptions :
       \/ \E w \in Sellers, a \in Accounts, t \in ListTerms :
            CreateListingCall(w, a, t[1], t[2], print)
       \/ \E w \in Buyers, a \in Targets, t \in BidTerms :
            CreateBidCall(w, a, t[1], t[2], print)
  \/ \E w \in Wallets :
       \/ CancelListingCall(w)
       \/ CancelBidCall(w)
       \/ \E print \in PrintOptions : ExecuteSaleCall(w, print)
  \/ \E type \in {"deposit", "withdraw"}, w \in Buyers, t \in BidTerms :
       MoveFundsCall(type, w, t[1])
  \/ \E o \in ledger.live \cup {r.order : r \in ledger.canceled \cup ledger.bought} :
       FindListing(o) \/ FindBid(o)
  \/ \E t \in network : Expire(t) \/ \E heard \in BOOLEAN : Land(t, heard)
  \/ \E r \in answers : AnswerList(r) \/ AnswerBid(r) \/ AnswerSale(r)
  \/ DelegateAuctioneer
  \/ \E from, to \in Accounts : SendToken(from, to)

Spec == Init /\ [][Next]_vars

-----------------------------------------------------------------------------
TypeOK ==
  /\ ledger \in Ledgers
  /\ listing \in Models \cup {NoModel} /\ bid \in Models \cup {NoModel}
  /\ \A t \in network : Len(t.instructions) \in 1 .. MaxInstructions
  /\ \A r \in answers : r.op \in {"list", "bid", "sale"}

Held(m) == m # NoModel /\ ~m.canceled /\ m.order \in ledger.live

\* A listing of the time before the auctioneer is not one of his.
OfThisHouse(order) == House <=> order.price = AuctioneerPrice

(* The same price for each token; an auctioneer's listing has no price.    *)
SamePrice(sold, bought) ==
  IF House THEN sold.size = bought.size
  ELSE sold.price * bought.size = bought.price * sold.size

Match(sold, bought) ==
  /\ sold.wallet # bought.wallet
  /\ bought.account \in {sold.account, Anywhere}
  /\ bought.size <= sold.size
  /\ SamePrice(sold, bought)

Funded(sold, bought) ==
  /\ bought.size <= ledger.tokens[sold.account]
  /\ bought.size <= ledger.delegated[sold.account]
  /\ bought.price <= ledger.escrow[bought.wallet]

(* A listing and a bid that are alive, at the same price, and covered by   *)
(* tokens and SOL can be sold from their models, a bid for fewer tokens    *)
(* too: "The buyer can then create a buy order of said assets that is less *)
(* than the token_size of the sell order." (createListing.ts:147-148)      *)
LiveOrdersAreSold ==
  /\ Held(listing) /\ Held(bid)
  /\ OfThisHouse(listing.order)
  /\ Match(listing.order, bid.order)
  /\ Funded(listing.order, bid.order)
  => /\ CanSell(listing, bid, House)
     /\ After(ledger, SaleInstructions(Authority, listing, bid, TRUE, House)) # Refused

\* The order is over, and so says the receipt that the model knows of.
Over(after, m, r) ==
  after # Refused /\ r.order \notin after.live /\ (m.receipt => r \notin after.open)

(* The seller and the buyer can always cancel an order that is alive, from *)
(* its model, and its receipt then says so.                                *)
LiveOrdersAreCanceled ==
  /\ Held(listing) /\ OfThisHouse(listing.order) =>
       Over(After(ledger, CancelListing(listing.order.wallet, listing, House)),
            listing, Listing(listing.order))
  /\ Held(bid) =>
       Over(After(ledger, CancelBid(bid.order.wallet, bid, House)), bid, Bid(bid.order))

IsListing(order) == order.account # Anywhere /\ Owner[order.account] = order.wallet

(* As long as every receipt is printed and orders are sold whole, a        *)
(* receipt is neither canceled nor purchased exactly while its order is    *)
(* alive: findListings and findBids know no more of it.                    *)
ReceiptsTellTheTruth ==
  ledger.open = {IF IsListing(o) THEN Listing(o) ELSE Bid(o) : o \in ledger.live}

(* A bid that the buyer can pay for is only refused if the token account   *)
(* appeared, or an auctioneer, between the building and the landing.       *)
BidIsOnlyRefusedIfRaced ==
  \A t \in network : t.op = "bid" =>
    LET o == t.base.order
    IN  /\ o.price <= ledger.sol[o.wallet] + ledger.escrow[o.wallet]
        /\ ledger.exists[Ata[o.wallet]] = t.base.existed
        /\ o.account # Anywhere => ledger.exists[o.account]
        /\ House = t.house
        => Outcome(t) # Refused
=============================================================================
