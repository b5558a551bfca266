--------------------------- MODULE AuctionProgram ---------------------------
(***************************************************************************)
(* The on-chain side of one auction house that trades the tokens of one    *)
(* mint for SOL, which is not part of this repository: the accounts the    *)
(* SDK reads and the instructions its builders send.  Modelled from how    *)
(* the SDK uses it (pdas.ts, the builders and the integration tests).      *)
(*                                                                         *)
(* An order is alive as long as its trade state account exists, and the    *)
(* address of a trade state is derived from the terms of the order.  An    *)
(* instruction names its terms again, so it fails unless they are those of *)
(* a living order.                                                         *)
(***************************************************************************)
EXTENDS Integers, Sequences, FiniteSets

CONSTANTS
  Wallets,     \* sellers, buyers and the authority of the house
  Authority,   \* the wallet that owns the house
  Accounts,    \* token accounts of the mint
  Owner,       \* the wallet each token account belongs to
  Ata,         \* the associated token account of each wallet
  Anywhere,    \* the token account of a public bid
  Prices,      \* of an order
  Sizes,       \* number of tokens of an order
  AuctioneerPrice, \* the price of the listings of an auctioneer
  Supply,      \* tokens of the mint
  Funds,       \* bound: SOL that can be on a wallet or in an escrow
  Refused      \* the outcome of a transaction that fails

ASSUME AccountsAssumption ==
  /\ Authority \in Wallets
  /\ Owner \in [Accounts -> Wallets]
  /\ Ata \in [Wallets -> Accounts]
  /\ \A w \in Wallets : Owner[Ata[w]] = w
  /\ Anywhere \notin Accounts
ASSUME TermsAssumption ==
  /\ Prices \subseteq Nat /\ Sizes \subseteq Nat \ {0}
  /\ AuctioneerPrice \notin Prices
  /\ Supply \in Nat /\ Funds \in Nat

Orders ==
  [wallet : Wallets, account : Accounts \cup {Anywhere},
   price : Prices \cup {AuctioneerPrice}, size : Sizes]

\* A listing receipt and a bid receipt are accounts of their own.
Receipts == [side : {"listing", "bid"}, order : Orders]

LedgersOf(amounts, sums) ==
  [exists    : [Accounts -> BOOLEAN],
   tokens    : [Accounts -> amounts],
   delegated : [Accounts -> amounts],       \* what the program may take from it
   sol       : [Wallets -> sums],
   escrow    : [Wallets -> sums],           \* the buyer accounts of the house
   live      : SUBSET Orders,               \* the trade states
   open      : SUBSET Receipts,             \* receipts neither canceled nor purchased
   canceled  : SUBSET Receipts,
   bought    : SUBSET Receipts,             \* receipts with a purchase receipt
   auctioneer : BOOLEAN]                    \* the house has an auctioneer

\* Tokens and SOL are moved, never made.
Ledgers == LedgersOf(0 .. Supply, 0 .. Funds)

ASSUME RefusedAssumption == Refused \notin LedgersOf(Nat, Nat)

-----------------------------------------------------------------------------
Listing(order) == [side |-> "listing", order |-> order]
Bid(order)     == [side |-> "bid", order |-> order]

Order(wallet, account, price, size) ==
  [wallet |-> wallet, account |-> account, price |-> price, size |-> size]

\* Every instruction of an order comes in two versions.
RightVersion(l, i) == i.auctioneer = l.auctioneer

\* The seller signs, and so delegates the tokens to the program.
Sell(l, i) ==
  LET o == i.order
  IN  IF /\ RightVersion(l, i)
         /\ i.auctioneer <=> o.price = AuctioneerPrice
         /\ l.exists[o.account] /\ Owner[o.account] = o.wallet
         /\ o.size <= l.tokens[o.account]
      THEN [l EXCEPT !.live = @ \cup {o}, !.delegated[o.account] = o.size]
      ELSE Refused

CreateToken(l, i) ==
  IF l.exists[i.account] THEN Refused ELSE [l EXCEPT !.exists[i.account] = TRUE]

\* Moves to the escrow what it lacks for this bid.
Buy(l, i) ==
  LET o      == i.order
      topUp  == IF o.price > l.escrow[o.wallet] THEN o.price - l.escrow[o.wallet] ELSE 0
  IN  IF RightVersion(l, i) /\ l.exists[i.account] /\ topUp <= l.sol[o.wallet]
      THEN [l EXCEPT !.live = @ \cup {o},
                     !.escrow[o.wallet] = @ + topUp, !.sol[o.wallet] = @ - topUp]
      ELSE Refused

\* Overwrites what was in the receipt.
PrintReceipt(l, i) ==
  [l EXCEPT !.open = @ \cup {i.receipt},
            !.canceled = @ \ {i.receipt}, !.bought = @ \ {i.receipt}]

\* The trade state of an order is derived from its terms.
Names(order, wallet, account, price, size) ==
  \/ order = Order(wallet, account, price, size)
  \/ order = Order(wallet, Anywhere, price, size)

\* Takes the delegation back if the tokens are of the wallet that signs.
Cancel(l, i) ==
  IF /\ RightVersion(l, i)
     /\ i.signer \in {i.wallet, Authority}
     /\ i.order \in l.live /\ Names(i.order, i.wallet, i.account, i.price, i.size)
     /\ l.exists[i.account]
  THEN [l EXCEPT !.live = @ \ {i.order},
                 !.delegated[i.account] =
                   IF Owner[i.account] = i.wallet /\ i.signer = i.wallet THEN 0 ELSE @]
  ELSE Refused

CancelReceipt(l, i) ==
  IF i.receipt \in l.open \cup l.canceled \cup l.bought
  THEN [l EXCEPT !.canceled = @ \cup {i.receipt}, !.open = @ \ {i.receipt}]
  ELSE Refused

Moved(tokens, from, to, size) ==
  [[tokens EXCEPT ![from] = @ - size] EXCEPT ![to] = @ + size]

\* Mutant: does not look whether the tokens are still there.
DeliverUncovered(l, i, price, size, whole) ==
  LET from == i.account
      to   == Ata[i.bid.wallet]
      left == l.delegated[from] - size
  IN  IF /\ i.listing \in l.live /\ i.bid \in l.live
         /\ l.exists[from] /\ left >= 0
         /\ price <= l.escrow[i.bid.wallet]
      THEN [l EXCEPT
             !.exists[to] = TRUE,
             !.tokens = Moved(@, from, to, size),
             !.delegated[from] = left,
             !.escrow[i.bid.wallet] = @ - price,
             !.sol[i.listing.wallet] = @ + price,
             !.live = @ \ IF whole \/ left = 0 THEN {i.listing, i.bid} ELSE {i.bid}]
      ELSE Refused

\* Tokens against SOL.  The token account of the buyer is created if it is missing.
\* A listing sold in parts is over when nothing is left that the program may take.
Deliver(l, i, price, size, whole) ==
  LET from == i.account
      to   == Ata[i.bid.wallet]
      left == l.delegated[from] - size
  IN  IF /\ i.listing \in l.live /\ i.bid \in l.live
         /\ l.exists[from] /\ size <= l.tokens[from] /\ left >= 0
         /\ price <= l.escrow[i.bid.wallet]
         /\ i.signer \in {i.listing.wallet, i.bid.wallet, Authority}
      THEN [l EXCEPT
             !.exists[to] = TRUE,
             !.tokens = Moved(@, from, to, size),
             !.delegated[from] = left,
             !.escrow[i.bid.wallet] = @ - price,
             !.sol[i.listing.wallet] = @ + price,
             !.live = @ \ IF whole \/ left = 0 THEN {i.listing, i.bid} ELSE {i.bid}]
      ELSE Refused

\* The terms are those of both orders, but for the price of an auctioneer's listing.
ExecuteSale(l, i) ==
  IF /\ RightVersion(l, i)
     /\ i.listing = Order(i.listing.wallet, i.account,
                          IF i.auctioneer THEN AuctioneerPrice ELSE i.price, i.size)
     /\ Names(i.bid, i.bid.wallet, i.account, i.price, i.size)
  THEN Deliver(l, i, i.price, i.size, TRUE)
  ELSE Refused

\* The terms are those of the listing, the partial ones those of the bid.
ExecutePartialSale(l, i) ==
  IF /\ ~l.auctioneer
     /\ i.listing = Order(i.listing.wallet, i.account, i.price, i.size)
     /\ Names(i.bid, i.bid.wallet, i.account, i.partialPrice, i.partialSize)
  THEN Deliver(l, i, i.partialPrice, i.partialSize, FALSE)
  ELSE Refused

\* Recorded in both receipts, which must exist.
PrintPurchaseReceipt(l, i) ==
  IF {i.listing, i.bid} \subseteq l.open \cup l.canceled \cup l.bought
  THEN [l EXCEPT !.open = @ \ {i.listing, i.bid}, !.bought = @ \cup {i.listing, i.bid}]
  ELSE Refused

Deposit(l, i) ==
  IF RightVersion(l, i) /\ i.amount <= l.sol[i.wallet]
  THEN [l EXCEPT !.sol[i.wallet] = @ - i.amount, !.escrow[i.wallet] = @ + i.amount]
  ELSE Refused

Withdraw(l, i) ==
  IF RightVersion(l, i) /\ i.amount <= l.escrow[i.wallet]
  THEN [l EXCEPT !.sol[i.wallet] = @ + i.amount, !.escrow[i.wallet] = @ - i.amount]
  ELSE Refused

Execute(l, i) ==
  CASE i.type = "sell"                 -> Sell(l, i)
    [] i.type = "createToken"          -> CreateToken(l, i)
    [] i.type = "buy"                  -> Buy(l, i)
    [] i.type = "printReceipt"         -> PrintReceipt(l, i)
    [] i.type = "cancel"               -> Cancel(l, i)
    [] i.type = "cancelReceipt"        -> CancelReceipt(l, i)
    [] i.type = "executeSale"          -> ExecuteSale(l, i)
    [] i.type = "executePartialSale"   -> ExecutePartialSale(l, i)
    [] i.type = "printPurchaseReceipt" -> PrintPurchaseReceipt(l, i)
    [] i.type = "deposit"              -> Deposit(l, i)
    [] i.type = "withdraw"             -> Withdraw(l, i)

\* No builder puts more than three of these instructions in a transaction.
MaxInstructions == 3

Step(l, instructions, n) ==
  IF l = Refused \/ n > Len(instructions) THEN l ELSE Execute(l, instructions[n])

After(l, instructions) ==
  Step(Step(Step(l, instructions, 1), instructions, 2), instructions, MaxInstructions)
=============================================================================
