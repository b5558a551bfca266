------------------------- MODULE AuctionTradeProofs -------------------------
(* Theorems about AuctionTrade, for any number of wallets, accounts, terms *)
(* and transactions in flight.                                             *)
EXTENDS AuctionTrade, SumProofs, SequenceTheorems, TLAPS

-----------------------------------------------------------------------------
(* Transactions, one instruction after the other.                          *)

Run(l, i) == IF l # Refused THEN Execute(l, i) ELSE l

RunIf(l, condition, i) == IF condition THEN Run(l, i) ELSE l

\* A transaction of one instruction.
LEMMA AfterOne == ASSUME NEW l, NEW i PROVE After(l, <<i>>) = Run(l, i)
BY DEF After, Step, Run, MaxInstructions

LEMMA AfterNothing == ASSUME NEW l PROVE After(l, <<>>) = l
BY DEF After, Step, MaxInstructions

LEMMA AfterAppend ==
  ASSUME NEW T, NEW s \in Seq(T), Len(s) < 3, NEW i \in T, NEW l
  PROVE  /\ After(l, s \o <<i>>) = Run(After(l, s), i)
         /\ s \o <<i>> \in Seq(T)
         /\ Len(s \o <<i>>) = Len(s) + 1
<1> DEFINE t == s \o <<i>>
<1>1. /\ t \in Seq(T) /\ Len(t) = Len(s) + 1 /\ t[Len(s) + 1] = i
      /\ \A n \in 1 .. Len(s) : t[n] = s[n]
  OBVIOUS
<1>2. Len(s) \in {0, 1, 2}
  <2> DEFINE n == Len(s)
  <2>1. n \in Nat /\ n < 3
    BY LenProperties
  <2> HIDE DEF n
  <2>2. n \in {0, 1, 2}
    BY <2>1
  <2>3. QED
    BY <2>2 DEF n
<1> HIDE DEF t
<1>3. \A k, n : n \in 1 .. Len(s) => Step(k, t, n) = Step(k, s, n)
  BY <1>1 DEF Step
<1>4. \A k : Step(k, t, Len(s) + 1) = Run(k, i)
  BY <1>1, <1>2 DEF Step, Run
<1>5. \A k, n : n \in Nat /\ n > Len(s) => Step(k, s, n) = k
  BY DEF Step
<1>6. \A k, n : n \in Nat /\ n > Len(s) + 1 => Step(k, t, n) = k
  BY <1>1 DEF Step
<1>7. After(l, t) = Run(After(l, s), i)
  <2>1. CASE Len(s) = 0
    BY <2>1, <1>4, <1>5, <1>6 DEF After, MaxInstructions
  <2>2. CASE Len(s) = 1
    BY <2>2, <1>3, <1>4, <1>5, <1>6 DEF After, MaxInstructions
  <2>3. CASE Len(s) = 2
    BY <2>3, <1>3, <1>4, <1>5, <1>6 DEF After, MaxInstructions
  <2>4. QED
    BY <1>2, <2>1, <2>2, <2>3
<1>8. QED
  BY <1>1, <1>7 DEF t

LEMMA AfterTogether ==
  ASSUME NEW l, NEW h, NEW i, NEW T, h \in T, i \in T
  PROVE  /\ After(l, <<h>> \o <<i>>) = Run(Run(l, h), i)
         /\ <<h>> \o <<i>> \in Seq(T) /\ Len(<<h>> \o <<i>>) = 2
<1> DEFINE s == <<h>>
<1>1. s \in Seq(T) /\ Len(s) = 1 /\ Len(s) < 3
  OBVIOUS
<1>2. After(l, s) = Run(l, h)
  BY AfterOne
<1> HIDE DEF s
<1>3. /\ After(l, s \o <<i>>) = Run(After(l, s), i)
      /\ s \o <<i>> \in Seq(T) /\ Len(s \o <<i>>) = Len(s) + 1
  BY <1>1, AfterAppend
<1>4. Len(s \o <<i>>) = 2
  BY <1>1, <1>3
<1>5. QED
  BY <1>2, <1>3, <1>4 DEF s

\* One more, on a condition.
LEMMA AfterTwo ==
  ASSUME NEW l, NEW i, NEW c \in BOOLEAN, NEW j
  PROVE  After(l, <<i>> \o When(c, <<j>>)) = RunIf(Run(l, i), c, j)
<1>1. CASE c
  <2> DEFINE T == {i, j}
  <2>1. i \in T /\ j \in T
    OBVIOUS
  <2> HIDE DEF T
  <2>2. After(l, <<i>> \o <<j>>) = Run(Run(l, i), j)
    BY <2>1, AfterTogether
  <2>3. When(c, <<j>>) = <<j>> /\ RunIf(Run(l, i), c, j) = Run(Run(l, i), j)
    BY <1>1 DEF RunIf, When
  <2>4. QED
    BY <2>2, <2>3
<1>2. CASE ~c
  <2>1. <<i>> \o When(c, <<j>>) = <<i>>
    BY <1>2 DEF When
  <2>2. RunIf(Run(l, i), c, j) = Run(l, i)
    BY <1>2 DEF RunIf
  <2>3. QED
    BY <2>1, <2>2, AfterOne
<1>3. QED
  BY <1>1, <1>2

\* One before, on a condition.
LEMMA AfterThree ==
  ASSUME NEW l, NEW b \in BOOLEAN, NEW h, NEW i, NEW c \in BOOLEAN, NEW j
  PROVE  After(l, When(b, <<h>>) \o <<i>> \o When(c, <<j>>)) =
           RunIf(Run(RunIf(l, b, h), i), c, j)
<1>1. CASE b
  <2> DEFINE T == {h, i, j}
             s == <<h>> \o <<i>>
  <2>1. h \in T /\ i \in T /\ j \in T
    OBVIOUS
  <2> HIDE DEF T
  <2>2. After(l, s) = Run(Run(l, h), i) /\ s \in Seq(T) /\ Len(s) = 2
    BY <2>1, AfterTogether
  <2>3. When(b, <<h>>) \o <<i>> = s /\ RunIf(l, b, h) = Run(l, h)
    BY <1>1 DEF RunIf, When
  <2> HIDE DEF s
  <2>4. CASE c
    <3>1. Len(s) < 3
      BY <2>2
    <3>2. After(l, s \o <<j>>) = Run(After(l, s), j)
      BY <2>1, <2>2, <3>1, AfterAppend
    <3>3. When(c, <<j>>) = <<j>> /\ RunIf(After(l, s), c, j) = Run(After(l, s), j)
      BY <2>4 DEF RunIf, When
    <3>4. QED
      BY <2>2, <2>3, <3>2, <3>3
  <2>5. CASE ~c
    <3>1. s \o When(c, <<j>>) = s
      BY <2>2, <2>5 DEF When
    <3>2. RunIf(After(l, s), c, j) = After(l, s)
      BY <2>5 DEF RunIf
    <3>3. QED
      BY <2>2, <2>3, <3>1, <3>2
  <2>6. QED
    BY <2>4, <2>5
<1>2. CASE ~b
  <2>1. When(b, <<h>>) \o <<i>> = <<i>> /\ RunIf(l, b, h) = l
    BY <1>2 DEF When, RunIf
  <2>2. After(l, <<i>> \o When(c, <<j>>)) = RunIf(Run(l, i), c, j)
    BY AfterTwo
  <2>3. QED
    BY <2>1, <2>2
<1>3. QED
  BY <1>1, <1>2

-----------------------------------------------------------------------------
(* The accounts, and what the instructions of the builders do to them.     *)

ListingOrders == {o \in Orders : IsListing(o)}
BidOrders     == {o \in Orders : ~IsListing(o) /\ o.price \in Prices}

\* A receipt is that of a listing or that of a bid.
Printable ==
  {r \in Receipts : IF r.side = "listing" THEN r.order \in ListingOrders
                    ELSE r.order \in BidOrders}

\* The token account that an order is made with.
Used(o) == IF o.account = Anywhere THEN Ata[o.wallet] ELSE o.account

Receipted(l) == l.open \cup l.canceled \cup l.bought

\* A living order was made with an account that exists.
Sound(l) ==
  /\ l \in LedgersOf(Nat, Nat)
  /\ l.live \subseteq ListingOrders \cup BidOrders
  /\ Receipted(l) \subseteq Printable
  /\ \A o \in l.live : l.exists[Used(o)]

\* From l to k, no receipt is lost, and the house keeps its auctioneer.
Follows(l, k) ==
  /\ Receipted(l) \subseteq Receipted(k)
  /\ k.auctioneer = l.auctioneer

LEMMA FollowsOn ==
  ASSUME NEW l, NEW k, NEW m, Follows(l, k), Follows(k, m)
  PROVE  Follows(l, m)
BY DEF Follows

LEMMA FollowsItself == ASSUME NEW l PROVE Follows(l, l)
BY DEF Follows

LEMMA SoundIsNotRefused == ASSUME NEW l, Sound(l) PROVE l # Refused
BY RefusedAssumption DEF Sound

LEMMA OrderTypes ==
  ASSUME NEW o \in Orders
  PROVE  /\ o.wallet \in Wallets /\ o.account \in Accounts \cup {Anywhere}
         /\ o.price \in Prices \cup {AuctioneerPrice} /\ o.size \in Sizes
         /\ o.size \in Nat /\ o.size > 0 /\ Used(o) \in Accounts
         /\ o = Order(o.wallet, o.account, o.price, o.size)
<1>1. /\ o.wallet \in Wallets /\ o.account \in Accounts \cup {Anywhere}
      /\ o.price \in Prices \cup {AuctioneerPrice} /\ o.size \in Sizes
  BY DEF Orders
<1>2. o.size \in Nat /\ o.size > 0 /\ Used(o) \in Accounts
  <2>1. o.size \in Nat \ {0}
    BY <1>1, TermsAssumption
  <2>2. Used(o) \in Accounts
    BY <1>1, AccountsAssumption DEF Used
  <2>3. QED
    BY <2>1, <2>2
<1>3. o = Order(o.wallet, o.account, o.price, o.size)
  BY DEF Orders, Order
<1>4. QED
  BY <1>1, <1>2, <1>3

LEMMA ListingTypes ==
  ASSUME NEW o \in ListingOrders
  PROVE  o.account \in Accounts /\ Owner[o.account] = o.wallet /\ Used(o) = o.account
BY OrderTypes DEF ListingOrders, IsListing, Used, Orders

LEMMA BidTypes ==
  ASSUME NEW o \in BidOrders
  PROVE  o.price \in Prices /\ o.price \in Nat
BY TermsAssumption DEF BidOrders

LEMMA ReceiptTypes ==
  /\ \A o \in ListingOrders : Listing(o) \in Printable
  /\ \A o \in BidOrders : Bid(o) \in Printable
  /\ \A o : Listing(o) \in Printable => o \in ListingOrders
  /\ \A o : Bid(o) \in Printable => o \in BidOrders
<1>1. ListingOrders \subseteq Orders /\ BidOrders \subseteq Orders
  BY DEF ListingOrders, BidOrders
<1>2. \A o : /\ Listing(o).side = "listing" /\ Listing(o).order = o
             /\ Bid(o).side = "bid" /\ Bid(o).order = o
  BY DEF Listing, Bid
<1>3. \A o \in Orders : Listing(o) \in Receipts /\ Bid(o) \in Receipts
  BY DEF Receipts, Listing, Bid
<1>4. QED
  BY <1>1, <1>2, <1>3 DEF Printable

TheSell(o, v) == [type |-> "sell", order |-> o, auctioneer |-> v]

ThePrint(r) == [type |-> "printReceipt", receipt |-> r]

TheToken(a) == [type |-> "createToken", account |-> a]

TheBuy(o, a, v) == [type |-> "buy", order |-> o, account |-> a, auctioneer |-> v]

LEMMA SellSound ==
  ASSUME NEW l, Sound(l), NEW o \in ListingOrders, NEW v \in BOOLEAN,
         NEW k, k = Run(l, TheSell(o, v)), k # Refused
  PROVE  /\ Sound(k) /\ Follows(l, k)
         /\ k.live = l.live \cup {o} /\ k.open = l.open
<1> DEFINE live == l.live \cup {o}
           d    == [l.delegated EXCEPT ![o.account] = o.size]
<1>1. k = Sell(l, TheSell(o, v))
  BY SoundIsNotRefused DEF Run, Execute, TheSell
<1>2. /\ k = [l EXCEPT !.live = live, !.delegated = d]
      /\ l.exists[o.account]
  BY <1>1 DEF Sell, TheSell
<1>3. o \in Orders /\ o.account \in Accounts /\ o.size \in Nat /\ Used(o) = o.account
  BY OrderTypes, ListingTypes DEF ListingOrders
<1>4. l \in LedgersOf(Nat, Nat)
  BY DEF Sound
<1>5. live \in SUBSET Orders /\ d \in [Accounts -> Nat]
  BY <1>3, <1>4 DEF LedgersOf
<1> HIDE DEF live, d
<1>6. /\ k \in LedgersOf(Nat, Nat) /\ k.live = live /\ k.open = l.open
      /\ k.canceled = l.canceled /\ k.bought = l.bought
      /\ k.exists = l.exists /\ k.auctioneer = l.auctioneer
  BY <1>2, <1>4, <1>5 DEF LedgersOf
<1>7. /\ live \subseteq ListingOrders \cup BidOrders
      /\ \A x \in live : l.exists[Used(x)]
  BY <1>2, <1>3 DEF Sound, live
<1>8. QED
  BY <1>6, <1>7 DEF Sound, Follows, Receipted, live

LEMMA TokenSound ==
  ASSUME NEW l, Sound(l), NEW a \in Accounts,
         NEW k, k = Run(l, TheToken(a)), k # Refused \/ ~l.exists[a]
  PROVE  /\ k # Refused /\ Sound(k) /\ Follows(l, k)
         /\ k.live = l.live /\ k.open = l.open /\ k.sol = l.sol /\ k.escrow = l.escrow
         /\ k.exists = [l.exists EXCEPT ![a] = TRUE]
<1> DEFINE e == [l.exists EXCEPT ![a] = TRUE]
<1>1. k = CreateToken(l, TheToken(a))
  BY SoundIsNotRefused DEF Run, Execute, TheToken
<1>2. k = [l EXCEPT !.exists = e]
  BY <1>1 DEF CreateToken, TheToken
<1>3. l \in LedgersOf(Nat, Nat)
  BY DEF Sound
<1>4. e \in [Accounts -> BOOLEAN] /\ \A x \in Accounts : l.exists[x] => e[x]
  BY <1>3 DEF LedgersOf
<1> HIDE DEF e
<1>5. /\ k \in LedgersOf(Nat, Nat) /\ k.live = l.live /\ k.open = l.open
      /\ k.canceled = l.canceled /\ k.bought = l.bought
      /\ k.exists = e /\ k.auctioneer = l.auctioneer
      /\ k.sol = l.sol /\ k.escrow = l.escrow
  BY <1>2, <1>3, <1>4 DEF LedgersOf
<1>6. \A x \in l.live : Used(x) \in Accounts
  BY OrderTypes DEF Sound, ListingOrders, BidOrders
<1>7. \A x \in k.live : k.exists[Used(x)]
  BY <1>4, <1>5, <1>6 DEF Sound
<1>8. k # Refused
  BY <1>5, RefusedAssumption
<1>9. QED
  BY <1>5, <1>7, <1>8 DEF Sound, Follows, Receipted, e

\* What a buyer lacks in the escrow is moved there.
TopUp(l, o) == IF o.price > l.escrow[o.wallet] THEN o.price - l.escrow[o.wallet] ELSE 0

LEMMA TopUpType ==
  ASSUME NEW l, Sound(l), NEW o \in BidOrders
  PROVE  /\ TopUp(l, o) \in Nat /\ l.escrow[o.wallet] \in Nat /\ l.sol[o.wallet] \in Nat
         /\ o.price <= l.sol[o.wallet] + l.escrow[o.wallet] => TopUp(l, o) <= l.sol[o.wallet]
<1>1. o.price \in Nat /\ o.wallet \in Wallets
  BY BidTypes, OrderTypes DEF BidOrders
<1>2. l.escrow[o.wallet] \in Nat /\ l.sol[o.wallet] \in Nat
  BY <1>1 DEF Sound, LedgersOf
<1>3. QED
  BY <1>1, <1>2 DEF TopUp

Buyable(l, o, v) ==
  v = l.auctioneer /\ l.exists[Used(o)] /\ TopUp(l, o) <= l.sol[o.wallet]

LEMMA BuySound ==
  ASSUME NEW l, Sound(l), NEW o \in BidOrders, NEW v \in BOOLEAN,
         NEW k, k = Run(l, TheBuy(o, Used(o), v)), k # Refused \/ Buyable(l, o, v)
  PROVE  /\ k # Refused /\ Sound(k) /\ Follows(l, k)
         /\ k.live = l.live \cup {o} /\ k.open = l.open
<1> DEFINE i    == TheBuy(o, Used(o), v)
           live == l.live \cup {o}
           t    == TopUp(l, o)
           e    == [l.escrow EXCEPT ![o.wallet] = @ + t]
           s    == [l.sol EXCEPT ![o.wallet] = @ - t]
<1>1. k = Buy(l, i)
  BY SoundIsNotRefused DEF Run, Execute, TheBuy
<1>2. i.order = o /\ i.account = Used(o) /\ i.auctioneer = v
  BY DEF TheBuy
<1> HIDE DEF i
<1>3. /\ k = [l EXCEPT !.live = live, !.escrow = e, !.sol = s]
      /\ l.exists[Used(o)] /\ t <= l.sol[o.wallet]
  BY <1>1, <1>2 DEF Buy, TopUp, Buyable, RightVersion
<1>4. l \in LedgersOf(Nat, Nat) /\ o \in Orders /\ o.wallet \in Wallets
  BY OrderTypes DEF Sound, BidOrders
<1>5. t \in Nat /\ l.escrow[o.wallet] \in Nat /\ l.sol[o.wallet] \in Nat
  BY TopUpType
<1> HIDE DEF t
<1>6. l.escrow[o.wallet] + t \in Nat /\ l.sol[o.wallet] - t \in Nat
  BY <1>3, <1>5
<1>7. live \in SUBSET Orders /\ e \in [Wallets -> Nat] /\ s \in [Wallets -> Nat]
  BY <1>4, <1>6 DEF LedgersOf
<1> HIDE DEF live, e, s
<1>8. /\ k \in LedgersOf(Nat, Nat) /\ k.live = live /\ k.open = l.open
      /\ k.canceled = l.canceled /\ k.bought = l.bought
      /\ k.exists = l.exists /\ k.auctioneer = l.auctioneer
  BY <1>3, <1>4, <1>7 DEF LedgersOf
<1>9. /\ live \subseteq ListingOrders \cup BidOrders
      /\ \A x \in live : l.exists[Used(x)]
  BY <1>3 DEF Sound, live
<1>10. k # Refused
  BY <1>8, RefusedAssumption
<1>11. QED
  BY <1>8, <1>9, <1>10 DEF Sound, Follows, Receipted, live

LEMMA PrintSound ==
  ASSUME NEW l, Sound(l), NEW r \in Printable, NEW k, k = Run(l, ThePrint(r))
  PROVE  /\ k # Refused /\ Sound(k) /\ Follows(l, k)
         /\ k.live = l.live /\ k.open = l.open \cup {r} /\ r \in Receipted(k)
<1> DEFINE open     == l.open \cup {r}
           canceled == l.canceled \ {r}
           bought   == l.bought \ {r}
<1>1. k = PrintReceipt(l, ThePrint(r))
  BY SoundIsNotRefused DEF Run, Execute, ThePrint
<1>2. k = [l EXCEPT !.open = open, !.canceled = canceled, !.bought = bought]
  BY <1>1 DEF PrintReceipt, ThePrint
<1>3. l \in LedgersOf(Nat, Nat) /\ r \in Receipts
  BY DEF Sound, Printable
<1>4. /\ open \in SUBSET Receipts /\ canceled \in SUBSET Receipts
      /\ bought \in SUBSET Receipts
  BY <1>3 DEF LedgersOf
<1>5. /\ l.open \cup l.canceled \cup l.bought \subseteq open \cup canceled \cup bought
      /\ open \cup canceled \cup bought \subseteq Printable
  BY DEF Sound, Receipted
<1> HIDE DEF open, canceled, bought
<1>6. /\ k \in LedgersOf(Nat, Nat) /\ k.live = l.live /\ k.open = open
      /\ k.canceled = canceled /\ k.bought = bought
      /\ k.exists = l.exists /\ k.auctioneer = l.auctioneer
  BY <1>2, <1>3, <1>4 DEF LedgersOf
<1>7. k # Refused
  BY <1>6, RefusedAssumption
<1>8. QED
  BY <1>5, <1>6, <1>7 DEF Sound, Follows, Receipted, open

TheCancelReceipt(r) == [type |-> "cancelReceipt", receipt |-> r]

Cancelable(l, signer, o, a, price, v) ==
  /\ v = l.auctioneer
  /\ signer \in {o.wallet, Authority}
  /\ o \in l.live /\ Names(o, o.wallet, a, price, o.size)
  /\ l.exists[a]

LEMMA CancelSound ==
  ASSUME NEW l, Sound(l), NEW o \in Orders, NEW a \in Accounts,
         NEW signer \in Wallets, NEW price, NEW v \in BOOLEAN,
         NEW k, k = Run(l, CancelOrder(signer, o, a, price, v)),
         k # Refused \/ Cancelable(l, signer, o, a, price, v)
  PROVE  /\ k # Refused /\ Sound(k) /\ Follows(l, k)
         /\ k.live = l.live \ {o} /\ k.open = l.open /\ Receipted(k) = Receipted(l)
<1> DEFINE i    == CancelOrder(signer, o, a, price, v)
           live == l.live \ {o}
           left == IF Owner[a] = i.wallet /\ i.signer = i.wallet THEN 0 ELSE l.delegated[a]
           d    == [l.delegated EXCEPT ![a] = left]
<1>1. k = Cancel(l, i)
  BY SoundIsNotRefused DEF Run, Execute, CancelOrder
<1>2. /\ i.order = o /\ i.account = a /\ i.auctioneer = v /\ i.signer = signer
      /\ i.wallet = o.wallet /\ i.price = price /\ i.size = o.size
  BY DEF CancelOrder
<1> HIDE DEF i
<1>3. k = [l EXCEPT !.live = live, !.delegated = d]
  BY <1>1, <1>2 DEF Cancel, Cancelable, RightVersion
<1>4. l \in LedgersOf(Nat, Nat)
  BY DEF Sound
<1>5. left \in Nat
  BY <1>4 DEF LedgersOf
<1>6. live \in SUBSET Orders /\ d \in [Accounts -> Nat]
  BY <1>4, <1>5 DEF LedgersOf
<1> HIDE DEF live, d
<1>7. /\ k \in LedgersOf(Nat, Nat) /\ k.live = live /\ k.open = l.open
      /\ k.canceled = l.canceled /\ k.bought = l.bought
      /\ k.exists = l.exists /\ k.auctioneer = l.auctioneer
  BY <1>3, <1>4, <1>6 DEF LedgersOf
<1>8. k # Refused
  BY <1>7, RefusedAssumption
<1>9. QED
  BY <1>7, <1>8 DEF Sound, Follows, Receipted, live

LEMMA CancelReceiptSound ==
  ASSUME NEW l, Sound(l), NEW r \in Printable,
         NEW k, k = Run(l, TheCancelReceipt(r)), k # Refused \/ r \in Receipted(l)
  PROVE  /\ k # Refused /\ Sound(k) /\ Follows(l, k)
         /\ k.live = l.live /\ k.open = l.open \ {r}
<1> DEFINE open     == l.open \ {r}
           canceled == l.canceled \cup {r}
<1>1. k = CancelReceipt(l, TheCancelReceipt(r))
  BY SoundIsNotRefused DEF Run, Execute, TheCancelReceipt
<1>2. k = [l EXCEPT !.open = open, !.canceled = canceled]
  BY <1>1 DEF CancelReceipt, TheCancelReceipt, Receipted
<1>3. l \in LedgersOf(Nat, Nat) /\ r \in Receipts
  BY DEF Sound, Printable
<1>4. open \in SUBSET Receipts /\ canceled \in SUBSET Receipts
  BY <1>3 DEF LedgersOf
<1>5. /\ l.open \cup l.canceled \cup l.bought \subseteq open \cup canceled \cup l.bought
      /\ open \cup canceled \cup l.bought \subseteq Printable
  BY DEF Sound, Receipted
<1> HIDE DEF open, canceled
<1>6. /\ k \in LedgersOf(Nat, Nat) /\ k.live = l.live /\ k.open = open
      /\ k.canceled = canceled /\ k.bought = l.bought
      /\ k.exists = l.exists /\ k.auctioneer = l.auctioneer
  BY <1>2, <1>3, <1>4 DEF LedgersOf
<1>7. k # Refused
  BY <1>6, RefusedAssumption
<1>8. QED
  BY <1>5, <1>6, <1>7 DEF Sound, Follows, Receipted, open

ThePurchase(o, p) ==
  [type |-> "printPurchaseReceipt", listing |-> Listing(o), bid |-> Bid(p)]

LEMMA PurchaseSound ==
  ASSUME NEW l, Sound(l), NEW o, NEW p, NEW k, k = Run(l, ThePurchase(o, p)),
         k # Refused \/ {Listing(o), Bid(p)} \subseteq Receipted(l)
  PROVE  /\ k # Refused /\ Sound(k) /\ Follows(l, k)
         /\ k.live = l.live /\ k.open = l.open \ {Listing(o), Bid(p)}
<1> DEFINE r      == {Listing(o), Bid(p)}
           open   == l.open \ r
           bought == l.bought \cup r
<1>1. k = PrintPurchaseReceipt(l, ThePurchase(o, p))
  BY SoundIsNotRefused DEF Run, Execute, ThePurchase
<1>2. /\ k = [l EXCEPT !.open = open, !.bought = bought]
      /\ r \subseteq Receipted(l)
  BY <1>1 DEF PrintPurchaseReceipt, ThePurchase, Receipted
<1>3. l \in LedgersOf(Nat, Nat) /\ r \subseteq Printable /\ r \subseteq Receipts
  BY <1>2 DEF Sound, Printable
<1> HIDE DEF r
<1>4. open \in SUBSET Receipts /\ bought \in SUBSET Receipts
  BY <1>3 DEF LedgersOf
<1>5. /\ l.open \cup l.canceled \cup l.bought \subseteq open \cup l.canceled \cup bought
      /\ open \cup l.canceled \cup bought \subseteq Printable
  BY <1>3 DEF Sound, Receipted
<1> HIDE DEF open, bought
<1>6. /\ k \in LedgersOf(Nat, Nat) /\ k.live = l.live /\ k.open = open
      /\ k.canceled = l.canceled /\ k.bought = bought
      /\ k.exists = l.exists /\ k.auctioneer = l.auctioneer
  BY <1>2, <1>3, <1>4 DEF LedgersOf
<1>7. k # Refused
  BY <1>6, RefusedAssumption
<1>8. QED
  BY <1>5, <1>6, <1>7 DEF Sound, Follows, Receipted, open, r

TheMove(type, w, amount, v) ==
  [type |-> type, wallet |-> w, amount |-> amount, auctioneer |-> v]

LEMMA MoveSound ==
  ASSUME NEW l, Sound(l), NEW type \in {"deposit", "withdraw"}, NEW w \in Wallets,
         NEW amount \in Nat, NEW v \in BOOLEAN,
         NEW k, k = Run(l, TheMove(type, w, amount, v)), k # Refused
  PROVE  Sound(k) /\ Follows(l, k) /\ k.live = l.live /\ k.open = l.open
<1> DEFINE i == TheMove(type, w, amount, v)
<1>1. i.type = type /\ i.wallet = w /\ i.amount = amount
  BY DEF TheMove
<1> HIDE DEF i
<1>2. k = IF type = "deposit" THEN Deposit(l, i) ELSE Withdraw(l, i)
  BY <1>1, SoundIsNotRefused DEF Run, Execute, i
<1>3. l \in LedgersOf(Nat, Nat) /\ l.sol[w] \in Nat /\ l.escrow[w] \in Nat
  BY DEF Sound, LedgersOf
<1>4. ASSUME NEW sol \in [Wallets -> Nat], NEW escrow \in [Wallets -> Nat],
             k = [l EXCEPT !.sol = sol, !.escrow = escrow]
      PROVE  Sound(k) /\ Follows(l, k) /\ k.live = l.live /\ k.open = l.open
  <2>1. /\ k \in LedgersOf(Nat, Nat) /\ k.live = l.live /\ k.open = l.open
        /\ k.canceled = l.canceled /\ k.bought = l.bought
        /\ k.exists = l.exists /\ k.auctioneer = l.auctioneer
    BY <1>3, <1>4 DEF LedgersOf
  <2>2. QED
    BY <2>1 DEF Sound, Follows, Receipted
<1>5. CASE type = "deposit"
  <2> DEFINE s == [l.sol EXCEPT ![w] = @ - amount]
             e == [l.escrow EXCEPT ![w] = @ + amount]
  <2>1. k = [l EXCEPT !.sol = s, !.escrow = e] /\ amount <= l.sol[w]
    BY <1>1, <1>2, <1>5 DEF Deposit
  <2>2. l.sol[w] - amount \in Nat /\ l.escrow[w] + amount \in Nat
    BY <1>3, <2>1
  <2>3. s \in [Wallets -> Nat] /\ e \in [Wallets -> Nat]
    BY <1>3, <2>2 DEF LedgersOf
  <2>4. QED
    BY <1>4, <2>1, <2>3
<1>6. CASE type = "withdraw"
  <2> DEFINE s == [l.sol EXCEPT ![w] = @ + amount]
             e == [l.escrow EXCEPT ![w] = @ - amount]
  <2>1. k = [l EXCEPT !.sol = s, !.escrow = e] /\ amount <= l.escrow[w]
    BY <1>1, <1>2, <1>6 DEF Withdraw
  <2>2. l.sol[w] + amount \in Nat /\ l.escrow[w] - amount \in Nat
    BY <1>3, <2>1
  <2>3. s \in [Wallets -> Nat] /\ e \in [Wallets -> Nat]
    BY <1>3, <2>2 DEF LedgersOf
  <2>4. QED
    BY <1>4, <2>1, <2>3
<1>7. QED
  BY <1>5, <1>6

-----------------------------------------------------------------------------
(* A sale, whole or in part.                                               *)

Deliverable(l, i, price, size) ==
  /\ i.listing \in l.live /\ i.bid \in l.live
  /\ l.exists[i.account] /\ size <= l.tokens[i.account] /\ size <= l.delegated[i.account]
  /\ price <= l.escrow[i.bid.wallet]
  /\ i.signer \in {i.listing.wallet, i.bid.wallet, Authority}

LEMMA MovedType ==
  ASSUME NEW t \in [Accounts -> Nat], NEW from \in Accounts, NEW to \in Accounts,
         NEW n \in Nat, n <= t[from]
  PROVE  Moved(t, from, to, n) \in [Accounts -> Nat]
<1> DEFINE u == [t EXCEPT ![from] = @ - n]
<1>1. u \in [Accounts -> Nat]
  <2>1. t[from] \in Nat
    OBVIOUS
  <2>2. t[from] - n \in Nat
    BY <2>1
  <2>3. QED
    BY <2>2
<1> HIDE DEF u
<1>2. u[to] + n \in Nat
  BY <1>1
<1>3. [u EXCEPT ![to] = @ + n] \in [Accounts -> Nat]
  BY <1>1, <1>2
<1>4. QED
  BY <1>3 DEF Moved, u

LEMMA DeliverSound ==
  ASSUME NEW l, Sound(l), NEW i, i.listing \in ListingOrders, i.bid \in BidOrders,
         i.account \in Accounts, NEW price \in Nat, NEW size \in Nat,
         NEW whole \in BOOLEAN, NEW k, k = Deliver(l, i, price, size, whole),
         k # Refused \/ Deliverable(l, i, price, size)
  PROVE  /\ k # Refused /\ Sound(k) /\ Follows(l, k)
         /\ k.open = l.open /\ Receipted(k) = Receipted(l)
         /\ whole => k.live = l.live \ {i.listing, i.bid}
<1> DEFINE from   == i.account
           buyer  == i.bid.wallet
           seller == i.listing.wallet
           to     == Ata[buyer]
           left   == l.delegated[from] - size
           e      == [l.exists EXCEPT ![to] = TRUE]
           t      == Moved(l.tokens, from, to, size)
           d      == [l.delegated EXCEPT ![from] = left]
           c      == [l.escrow EXCEPT ![buyer] = @ - price]
           s      == [l.sol EXCEPT ![seller] = @ + price]
           over   == IF whole \/ left = 0 THEN {i.listing, i.bid} ELSE {i.bid}
           live   == l.live \ over
<1>1. /\ l \in LedgersOf(Nat, Nat) /\ i.listing \in Orders /\ i.bid \in Orders
      /\ from \in Accounts /\ buyer \in Wallets /\ seller \in Wallets
  BY OrderTypes DEF Sound, ListingOrders, BidOrders
<1>2. to \in Accounts
  BY <1>1, AccountsAssumption
<1>3. /\ l.tokens[from] \in Nat /\ l.delegated[from] \in Nat
      /\ l.escrow[buyer] \in Nat /\ l.sol[seller] \in Nat
  BY <1>1 DEF LedgersOf
<1>4. /\ size <= l.tokens[from] /\ left >= 0 /\ price <= l.escrow[buyer]
      /\ k = [l EXCEPT !.exists = e, !.tokens = t, !.delegated = d, !.escrow = c,
                       !.sol = s, !.live = live]
  BY <1>3 DEF Deliver, Deliverable
<1>5. /\ l.tokens[from] - size \in Nat /\ left \in Nat
      /\ l.escrow[buyer] - price \in Nat /\ l.sol[seller] + price \in Nat
  BY <1>3, <1>4
<1>6. t \in [Accounts -> Nat]
  BY <1>1, <1>2, <1>3, <1>4, MovedType DEF LedgersOf
<1>7. e \in [Accounts -> BOOLEAN] /\ \A a \in Accounts : l.exists[a] => e[a]
  BY <1>1 DEF LedgersOf
<1>8. d \in [Accounts -> Nat] /\ c \in [Wallets -> Nat] /\ s \in [Wallets -> Nat]
  BY <1>1, <1>5 DEF LedgersOf
<1>9. live \in SUBSET Orders /\ live \subseteq l.live
  BY <1>1 DEF LedgersOf
<1>10. whole => live = l.live \ {i.listing, i.bid}
  OBVIOUS
<1> HIDE DEF e, t, d, c, s, live
<1>11. /\ k \in LedgersOf(Nat, Nat) /\ k.live = live /\ k.open = l.open
       /\ k.canceled = l.canceled /\ k.bought = l.bought
       /\ k.exists = e /\ k.auctioneer = l.auctioneer
  BY <1>1, <1>4, <1>6, <1>7, <1>8, <1>9 DEF LedgersOf
<1>12. \A x \in l.live : Used(x) \in Accounts /\ l.exists[Used(x)]
  BY OrderTypes DEF Sound, ListingOrders, BidOrders
<1>13. \A x \in k.live : k.exists[Used(x)]
  BY <1>7, <1>9, <1>11, <1>12
<1>14. k # Refused
  BY <1>11, RefusedAssumption
<1>15. QED
  BY <1>9, <1>10, <1>11, <1>13, <1>14 DEF Sound, Follows, Receipted

\* The models that callers hold.
ListingModels == {m \in Models : m.order \in ListingOrders /\ m.account = Ata[m.order.wallet]}
BidModels     == {m \in Models : m.order \in BidOrders /\ m.account = m.order.account}

\* A sale instruction names the terms of both orders.
Nameable(l, signer, m, b, v) ==
  IF IsPartialSale(m, b)
  THEN /\ ~l.auctioneer
       /\ m.order = Order(m.order.wallet, m.account, m.order.price, m.order.size)
       /\ Names(b.order, b.order.wallet, m.account, b.order.price, b.order.size)
  ELSE /\ v = l.auctioneer
       /\ m.order = Order(m.order.wallet, m.account,
                          IF v THEN AuctioneerPrice ELSE b.order.price, b.order.size)
       /\ Names(b.order, b.order.wallet, m.account, b.order.price, b.order.size)

LEMMA SaleSound ==
  ASSUME NEW l, Sound(l), NEW m \in ListingModels, NEW b \in BidModels,
         NEW signer, NEW v \in BOOLEAN,
         NEW i, i = SaleInstruction(signer, m, b, v), NEW k, k = Run(l, i),
         \/ k # Refused
         \/ /\ Nameable(l, signer, m, b, v)
            /\ Deliverable(l, i, b.order.price, b.order.size)
  PROVE  /\ k # Refused /\ Sound(k) /\ Follows(l, k)
         /\ k.open = l.open /\ Receipted(k) = Receipted(l)
         /\ ~IsPartialSale(m, b) => k.live = l.live \ {m.order, b.order}
<1> DEFINE p == b.order.price
           n == b.order.size
<1>1. /\ m.order \in ListingOrders /\ b.order \in BidOrders
      /\ m.account \in Accounts /\ p \in Nat /\ n \in Nat
  BY OrderTypes, BidTypes, AccountsAssumption DEF ListingModels, BidModels, ListingOrders, BidOrders
<1>2. /\ i.listing = m.order /\ i.bid = b.order /\ i.account = m.account
      /\ i.partialPrice = p /\ i.partialSize = n /\ i.auctioneer = v
      /\ i.type = IF IsPartialSale(m, b) THEN "executePartialSale" ELSE "executeSale"
      /\ IsPartialSale(m, b) => i.price = m.order.price /\ i.size = m.order.size
      /\ ~IsPartialSale(m, b) => i.price = p /\ i.size = n
  BY DEF SaleInstruction, SaleTerms
<1>3. k = IF IsPartialSale(m, b) THEN ExecutePartialSale(l, i) ELSE ExecuteSale(l, i)
  BY <1>2, SoundIsNotRefused DEF Run, Execute
<1>4. k # Refused \/ Nameable(l, signer, m, b, v)
  OBVIOUS
<1>5. k # Refused \/ Deliverable(l, i, p, n)
  OBVIOUS
<1> HIDE DEF p, n
<1> DEFINE whole == ~IsPartialSale(m, b)
<1>6. k = Deliver(l, i, p, n, whole)
  <2>1. CASE IsPartialSale(m, b)
    <3>1. k = ExecutePartialSale(l, i) /\ whole = FALSE
      BY <1>3, <2>1
    <3>2. QED
      BY <1>2, <1>4, <2>1, <3>1 DEF ExecutePartialSale, Nameable, p, n
  <2>2. CASE ~IsPartialSale(m, b)
    <3>1. k = ExecuteSale(l, i) /\ whole = TRUE
      BY <1>3, <2>2
    <3>2. QED
      BY <1>2, <1>4, <2>2, <3>1 DEF ExecuteSale, Nameable, RightVersion, p, n
  <2>3. QED
    BY <2>1, <2>2
<1>7. /\ i.listing \in ListingOrders /\ i.bid \in BidOrders /\ i.account \in Accounts
      /\ whole \in BOOLEAN
  BY <1>1, <1>2
<1> HIDE DEF whole
<1>8. /\ k # Refused /\ Sound(k) /\ Follows(l, k)
      /\ k.open = l.open /\ Receipted(k) = Receipted(l)
      /\ whole => k.live = l.live \ {i.listing, i.bid}
  BY ONLY Sound(l), <1>1, <1>5, <1>6, <1>7, DeliverSound
<1>9. QED
  BY <1>2, <1>8 DEF whole

-----------------------------------------------------------------------------
(* The transactions of the operations, and what they leave.                *)

ListTransaction(o, v, c) ==
  <<TheSell(o, v)>> \o When(c, <<ThePrint(Listing(o))>>)

BidTransaction(o, v, c, b) ==
  When(b, <<TheToken(Used(o))>>) \o <<TheBuy(o, Used(o), v)>>
  \o When(c, <<ThePrint(Bid(o))>>)

CancelTransaction(signer, o, a, price, v, c, r) ==
  <<CancelOrder(signer, o, a, price, v)>> \o When(c, <<TheCancelReceipt(r)>>)

LEMMA ListLands ==
  ASSUME NEW l, Sound(l), NEW o \in ListingOrders, NEW v \in BOOLEAN, NEW c \in BOOLEAN,
         NEW k, k = After(l, ListTransaction(o, v, c)), k # Refused
  PROVE  /\ Sound(k) /\ Follows(l, k)
         /\ k.live = l.live \cup {o}
         /\ c => Listing(o) \in Receipted(k) /\ k.open = l.open \cup {Listing(o)}
<1> DEFINE k1 == Run(l, TheSell(o, v))
           r  == Listing(o)
<1>1. k = RunIf(k1, c, ThePrint(r))
  BY AfterTwo DEF ListTransaction
<1>2. r \in Printable
  BY ReceiptTypes
<1> HIDE DEF k1, r
<1>3. k1 # Refused
  BY <1>1 DEF RunIf, Run
<1>4. /\ Sound(k1) /\ Follows(l, k1) /\ k1.live = l.live \cup {o} /\ k1.open = l.open
  BY <1>3, SellSound DEF k1
<1>5. CASE c
  <2>1. k = Run(k1, ThePrint(r))
    BY <1>1, <1>5 DEF RunIf
  <2>2. /\ Sound(k) /\ Follows(k1, k)
        /\ k.live = k1.live /\ k.open = k1.open \cup {r} /\ r \in Receipted(k)
    BY <1>2, <1>4, <2>1, PrintSound
  <2>3. QED
    BY <1>4, <2>2, FollowsOn DEF r
<1>6. CASE ~c
  BY <1>1, <1>4, <1>6 DEF RunIf
<1>7. QED
  BY <1>5, <1>6

Coverable(l, o, v, b) ==
  /\ v = l.auctioneer /\ b = ~l.exists[Used(o)]
  /\ o.price <= l.sol[o.wallet] + l.escrow[o.wallet]

\* A bid that is covered is accepted, whether or not a token account is created.
LEMMA BidLands ==
  ASSUME NEW l, Sound(l), NEW o \in BidOrders, NEW v \in BOOLEAN, NEW c \in BOOLEAN,
         NEW b \in BOOLEAN, NEW k, k = After(l, BidTransaction(o, v, c, b)),
         k # Refused \/ Coverable(l, o, v, b)
  PROVE  /\ k # Refused /\ Sound(k) /\ Follows(l, k)
         /\ k.live = l.live \cup {o}
         /\ c => Bid(o) \in Receipted(k) /\ k.open = l.open \cup {Bid(o)}
<1> DEFINE a  == Used(o)
           r  == Bid(o)
           k1 == RunIf(l, b, TheToken(a))
           k2 == Run(k1, TheBuy(o, a, v))
           Covered == Coverable(l, o, v, b)
<1>1. k = RunIf(k2, c, ThePrint(r))
  BY AfterThree DEF BidTransaction
<1>2. r \in Printable /\ a \in Accounts
  BY ReceiptTypes, OrderTypes DEF BidOrders
<1>3. k # Refused \/ Covered
  OBVIOUS
<1>4. k # Refused => k1 # Refused /\ k2 # Refused
  BY <1>1 DEF RunIf, Run
<1>5. l.exists \in [Accounts -> BOOLEAN]
  BY DEF Sound, LedgersOf
<1> HIDE DEF a, r, k1, k2, Covered
<1>6. /\ k1 # Refused /\ Sound(k1) /\ Follows(l, k1) /\ k1.live = l.live
      /\ k1.open = l.open /\ k1.sol = l.sol /\ k1.escrow = l.escrow
      /\ Covered => k1.exists[a]
  <2>1. CASE b
    <3>1. k1 = Run(l, TheToken(a))
      BY <2>1 DEF k1, RunIf
    <3>2. k1 # Refused \/ ~l.exists[a]
      BY <1>3, <1>4, <2>1 DEF Covered, Coverable, a
    <3>3. /\ k1 # Refused /\ Sound(k1) /\ Follows(l, k1)
          /\ k1.live = l.live /\ k1.open = l.open /\ k1.sol = l.sol
          /\ k1.escrow = l.escrow /\ k1.exists = [l.exists EXCEPT ![a] = TRUE]
      BY <1>2, <3>1, <3>2, TokenSound
    <3>4. QED
      BY <1>2, <1>5, <3>3
  <2>2. CASE ~b
    <3>1. k1 = l
      BY <2>2 DEF k1, RunIf
    <3>2. Covered => l.exists[a]
      BY <1>2, <1>5, <2>2 DEF Covered, Coverable, a
    <3>3. QED
      BY <3>1, <3>2, SoundIsNotRefused, FollowsItself
  <2>3. QED
    BY <2>1, <2>2
<1>7. Covered => Buyable(k1, o, v)
  <2>1. TopUp(k1, o) = TopUp(l, o)
    BY <1>6 DEF TopUp
  <2>2. Covered => TopUp(l, o) <= l.sol[o.wallet] /\ v = k1.auctioneer
    BY <1>6, TopUpType DEF Covered, Coverable, Follows
  <2>3. QED
    BY <1>6, <2>1, <2>2 DEF Buyable, a
<1>8. /\ k2 # Refused /\ Sound(k2) /\ Follows(k1, k2)
      /\ k2.live = k1.live \cup {o} /\ k2.open = k1.open
  BY <1>3, <1>4, <1>6, <1>7, BuySound DEF k2, a
<1>9. Follows(l, k2)
  BY <1>6, <1>8, FollowsOn
<1>10. CASE c
  <2>1. k = Run(k2, ThePrint(r))
    BY <1>1, <1>10 DEF RunIf
  <2>2. /\ k # Refused /\ Sound(k) /\ Follows(k2, k)
        /\ k.live = k2.live /\ k.open = k2.open \cup {r} /\ r \in Receipted(k)
    BY <1>2, <1>8, <2>1, PrintSound
  <2>3. QED
    BY <1>6, <1>8, <1>9, <2>2, FollowsOn DEF r
<1>11. CASE ~c
  BY <1>1, <1>6, <1>8, <1>9, <1>11 DEF RunIf
<1>12. QED
  BY <1>10, <1>11

CancelLeaves(l, k, o, c, r) ==
  k.live = l.live \ {o} /\ (c => k.open = l.open \ {r})

LEMMA CancelLands ==
  ASSUME NEW l, Sound(l), NEW o \in Orders, NEW a \in Accounts, NEW signer \in Wallets,
         NEW price, NEW v \in BOOLEAN, NEW c \in BOOLEAN, NEW r \in Printable,
         NEW k, k = After(l, CancelTransaction(signer, o, a, price, v, c, r)),
         \/ k # Refused
         \/ Cancelable(l, signer, o, a, price, v) /\ (c => r \in Receipted(l))
  PROVE  k # Refused /\ Sound(k) /\ Follows(l, k) /\ CancelLeaves(l, k, o, c, r)
<1> DEFINE k1 == Run(l, CancelOrder(signer, o, a, price, v))
<1>1. k = RunIf(k1, c, TheCancelReceipt(r))
  BY AfterTwo DEF CancelTransaction
<1>2. k # Refused => k1 # Refused
  BY <1>1 DEF RunIf, Run
<1>3. k1 # Refused \/ Cancelable(l, signer, o, a, price, v)
  BY <1>2
<1> HIDE DEF k1
<1>4. /\ k1 # Refused /\ Sound(k1) /\ Follows(l, k1)
      /\ k1.live = l.live \ {o} /\ k1.open = l.open /\ Receipted(k1) = Receipted(l)
  BY <1>3, CancelSound DEF k1
<1>5. CASE c
  <2>1. k = Run(k1, TheCancelReceipt(r)) /\ (k # Refused \/ r \in Receipted(k1))
    BY <1>1, <1>4, <1>5 DEF RunIf
  <2>2. /\ k # Refused /\ Sound(k) /\ Follows(k1, k)
        /\ k.live = k1.live /\ k.open = k1.open \ {r}
    BY <1>4, <2>1, CancelReceiptSound
  <2>3. QED
    BY <1>4, <2>2, FollowsOn DEF CancelLeaves
<1>6. CASE ~c
  BY <1>1, <1>4, <1>6 DEF RunIf, CancelLeaves
<1>7. QED
  BY <1>5, <1>6

Sellable(l, signer, m, b, v, print) ==
  /\ Nameable(l, signer, m, b, v)
  /\ Deliverable(l, SaleInstruction(signer, m, b, v), b.order.price, b.order.size)
  /\ PrintsPurchase(m, b, print) => {Listing(m.order), Bid(b.order)} \subseteq Receipted(l)

SaleLeaves(l, k, m, b, print) ==
  PrintsPurchase(m, b, print) =>
    /\ k.live = l.live \ {m.order, b.order}
    /\ k.open = l.open \ {Listing(m.order), Bid(b.order)}

LEMMA SaleLands ==
  ASSUME NEW l, Sound(l), NEW m \in ListingModels, NEW b \in BidModels,
         NEW signer, NEW v \in BOOLEAN, NEW print \in BOOLEAN,
         NEW k, k = After(l, SaleInstructions(signer, m, b, print, v)),
         k # Refused \/ Sellable(l, signer, m, b, v, print)
  PROVE  k # Refused /\ Sound(k) /\ Follows(l, k) /\ SaleLeaves(l, k, m, b, print)
<1> DEFINE i  == SaleInstruction(signer, m, b, v)
           k1 == Run(l, i)
           c  == PrintsPurchase(m, b, print)
           j  == ThePurchase(m.order, b.order)
<1>1. c \in BOOLEAN /\ (c => ~IsPartialSale(m, b))
  BY DEF PrintsPurchase, ListingModels, BidModels, Models
<1>2. SaleInstructions(signer, m, b, print, v) = <<i>> \o When(c, <<j>>)
  BY DEF SaleInstructions, ThePurchase
<1>3. k # Refused \/ (/\ Nameable(l, signer, m, b, v)
                      /\ Deliverable(l, i, b.order.price, b.order.size)
                      /\ c => {Listing(m.order), Bid(b.order)} \subseteq Receipted(l))
  BY DEF Sellable
<1> HIDE DEF i, c, j
<1>4. k = RunIf(k1, c, j)
  BY <1>1, <1>2, AfterTwo
<1>5. k # Refused => k1 # Refused
  BY <1>4 DEF RunIf, Run
<1> HIDE DEF k1
<1>6. /\ k1 # Refused /\ Sound(k1) /\ Follows(l, k1)
      /\ k1.open = l.open /\ Receipted(k1) = Receipted(l)
      /\ ~IsPartialSale(m, b) => k1.live = l.live \ {m.order, b.order}
  BY <1>3, <1>5, SaleSound DEF k1, i
<1>7. CASE c
  <2>1. /\ k = Run(k1, j)
        /\ k # Refused \/ {Listing(m.order), Bid(b.order)} \subseteq Receipted(k1)
    BY <1>3, <1>4, <1>6, <1>7 DEF RunIf
  <2>2. /\ k # Refused /\ Sound(k) /\ Follows(k1, k)
        /\ k.live = k1.live /\ k.open = k1.open \ {Listing(m.order), Bid(b.order)}
    BY <1>6, <2>1, PurchaseSound DEF j
  <2>3. QED
    BY <1>1, <1>6, <1>7, <2>2, FollowsOn DEF SaleLeaves
<1>8. CASE ~c
  BY <1>4, <1>6, <1>8 DEF RunIf, SaleLeaves, c
<1>9. QED
  BY <1>7, <1>8

-----------------------------------------------------------------------------
(* The inductive invariant: the accounts are sound, the models and the     *)
(* answers are of receipts that exist, and what is sent is what a builder  *)
(* made.                                                                   *)

KnownListing(m) ==
  m # NoModel =>
    m \in ListingModels /\ (m.receipt => Listing(m.order) \in Receipted(ledger))

KnownBid(m) ==
  m # NoModel =>
    m \in BidModels /\ (m.receipt => Bid(m.order) \in Receipted(ledger))

BuiltList(t) ==
  /\ t.base.order \in ListingOrders /\ t.base.receipt \in BOOLEAN
  /\ t.instructions = ListTransaction(t.base.order, t.house, t.base.receipt)

BuiltBid(t) ==
  /\ t.base.order \in BidOrders /\ t.base.receipt \in BOOLEAN
  /\ t.base.existed \in BOOLEAN
  /\ t.instructions = BidTransaction(t.base.order, t.house, t.base.receipt,
                                     t.base.order.account = Anywhere /\ ~t.base.existed)

BuiltCancel(t) ==
  \E signer \in Wallets :
    IF t.base.side = "listing"
    THEN /\ t.base.model \in ListingModels
         /\ t.instructions = CancelListing(signer, t.base.model, t.house)
    ELSE /\ t.base.model \in BidModels
         /\ t.instructions = CancelBid(signer, t.base.model, t.house)

BuiltSale(t) ==
  /\ t.base.listing \in ListingModels /\ t.base.bid \in BidModels
  /\ \E signer \in Wallets, print \in PrintOptions :
       t.instructions = SaleInstructions(signer, t.base.listing, t.base.bid, print, t.house)

BuiltMove(t) ==
  \E w \in Wallets, amount \in Nat :
    t.instructions = <<TheMove(t.op, w, amount, t.house)>>

Built(t) ==
  /\ t.house \in BOOLEAN
  /\ \/ t.op = "list" /\ BuiltList(t)
     \/ t.op = "bid" /\ BuiltBid(t)
     \/ t.op = "cancel" /\ BuiltCancel(t)
     \/ t.op = "sale" /\ BuiltSale(t)
     \/ t.op \in {"deposit", "withdraw"} /\ BuiltMove(t)

Answerable(r) ==
  /\ r.op = "list" => /\ r.base.order \in ListingOrders /\ r.base.receipt \in BOOLEAN
                      /\ r.base.receipt => Listing(r.base.order) \in Receipted(ledger)
  /\ r.op = "bid"  => /\ r.base.order \in BidOrders /\ r.base.receipt \in BOOLEAN
                      /\ r.base.receipt => Bid(r.base.order) \in Receipted(ledger)

Inv ==
  /\ Sound(ledger)
  /\ KnownListing(listing)
  /\ KnownBid(bid)
  /\ \A t \in network : Built(t)
  /\ \A r \in answers : Answerable(r)

\* What a cancellation of a model sends.
LEMMA CancelShape ==
  ASSUME NEW signer \in Wallets, NEW v \in BOOLEAN
  PROVE  /\ \A m \in ListingModels :
              /\ CancelListing(signer, m, v) =
                   CancelTransaction(signer, m.order, m.account,
                                     ListingPrice(m.order.price, v), v,
                                     m.receipt, Listing(m.order))
              /\ m.order \in Orders /\ m.account \in Accounts /\ m.receipt \in BOOLEAN
              /\ Listing(m.order) \in Printable
         /\ \A m \in BidModels :
              /\ CancelBid(signer, m, v) =
                   CancelTransaction(signer, m.order, Used(m.order), m.order.price, v,
                                     m.receipt, Bid(m.order))
              /\ m.order \in Orders /\ Used(m.order) \in Accounts /\ m.receipt \in BOOLEAN
              /\ Bid(m.order) \in Printable
<1>1. ASSUME NEW m \in ListingModels
      PROVE  /\ m.order \in Orders /\ m.account \in Accounts /\ m.receipt \in BOOLEAN
             /\ Listing(m.order) \in Printable
  BY OrderTypes, ReceiptTypes, AccountsAssumption DEF ListingModels, ListingOrders, Models
<1>2. ASSUME NEW m \in BidModels
      PROVE  /\ m.order \in Orders /\ Used(m.order) \in Accounts /\ m.receipt \in BOOLEAN
             /\ Bid(m.order) \in Printable /\ m.account = m.order.account
  BY OrderTypes, ReceiptTypes DEF BidModels, BidOrders, Models
<1>3. QED
  BY <1>1, <1>2 DEF CancelListing, CancelBid, CancelTransaction, CancelReceiptWhen,
                    TheCancelReceipt, Used

\* Whatever is sent and accepted leaves the accounts sound and loses no receipt.
LEMMA TransactionSound ==
  ASSUME NEW l, Sound(l), NEW t, Built(t), NEW k, k = After(l, t.instructions), k # Refused
  PROVE  /\ Sound(k) /\ Follows(l, k)
         /\ t.op = "list" /\ t.base.receipt => Listing(t.base.order) \in Receipted(k)
         /\ t.op = "bid" /\ t.base.receipt => Bid(t.base.order) \in Receipted(k)
<1>1. t.house \in BOOLEAN
  BY DEF Built
<1> DEFINE v == t.house
           o == t.base.order
           c == t.base.receipt
<1>2. CASE t.op = "list" /\ BuiltList(t)
  <2>1. /\ o \in ListingOrders /\ c \in BOOLEAN /\ v \in BOOLEAN
        /\ k = After(l, ListTransaction(o, v, c))
    BY <1>1, <1>2 DEF BuiltList
  <2> HIDE DEF o, c, v
  <2>2. Sound(k) /\ Follows(l, k) /\ (c => Listing(o) \in Receipted(k))
    BY <2>1, ListLands
  <2>3. QED
    BY <1>2, <2>2 DEF o, c
<1>3. CASE t.op = "bid" /\ BuiltBid(t)
  <2> DEFINE b == o.account = Anywhere /\ ~t.base.existed
  <2>1. /\ o \in BidOrders /\ c \in BOOLEAN /\ v \in BOOLEAN /\ b \in BOOLEAN
        /\ k = After(l, BidTransaction(o, v, c, b))
    BY <1>1, <1>3 DEF BuiltBid
  <2> HIDE DEF o, c, v, b
  <2>2. Sound(k) /\ Follows(l, k) /\ (c => Bid(o) \in Receipted(k))
    BY <2>1, BidLands
  <2>3. QED
    BY <1>3, <2>2 DEF o, c
<1>4. CASE t.op = "cancel" /\ BuiltCancel(t)
  <2>1. PICK signer \in Wallets :
          IF t.base.side = "listing"
          THEN /\ t.base.model \in ListingModels
               /\ t.instructions = CancelListing(signer, t.base.model, v)
          ELSE /\ t.base.model \in BidModels
               /\ t.instructions = CancelBid(signer, t.base.model, v)
    BY <1>4 DEF BuiltCancel
  <2>2. v \in BOOLEAN
    BY <1>1
  <2> HIDE DEF v
  <2>3. ASSUME NEW x \in Orders, NEW a \in Accounts, NEW r \in Printable,
               NEW d \in BOOLEAN, NEW price,
               k = After(l, CancelTransaction(signer, x, a, price, v, d, r))
        PROVE  Sound(k) /\ Follows(l, k)
    <3>1. k # Refused \/ (Cancelable(l, signer, x, a, price, v) /\ (d => r \in Receipted(l)))
      OBVIOUS
    <3>2. QED
      BY ONLY Sound(l), <2>2, <2>3, <3>1, CancelLands
  <2>4. CASE t.base.side = "listing"
    <3> DEFINE m == t.base.model
    <3>1. m \in ListingModels /\ k = After(l, CancelListing(signer, m, v))
      BY <2>1, <2>4
    <3> HIDE DEF m
    <3>2. /\ k = After(l, CancelTransaction(signer, m.order, m.account, ListingPrice(m.order.price, v), v,
                                            m.receipt, Listing(m.order)))
          /\ m.order \in Orders /\ m.account \in Accounts /\ m.receipt \in BOOLEAN
          /\ Listing(m.order) \in Printable
      BY <2>2, <3>1, CancelShape
    <3>3. Sound(k) /\ Follows(l, k)
      BY <2>3, <3>2
    <3>4. QED
      BY <1>4, <3>3
  <2>5. CASE t.base.side # "listing"
    <3> DEFINE m == t.base.model
    <3>1. m \in BidModels /\ k = After(l, CancelBid(signer, m, v))
      BY <2>1, <2>5
    <3> HIDE DEF m
    <3>2. /\ k = After(l, CancelTransaction(signer, m.order, Used(m.order), m.order.price, v,
                                            m.receipt, Bid(m.order)))
          /\ m.order \in Orders /\ Used(m.order) \in Accounts /\ m.receipt \in BOOLEAN
          /\ Bid(m.order) \in Printable
      BY <2>2, <3>1, CancelShape
    <3>3. Sound(k) /\ Follows(l, k)
      BY <2>3, <3>2
    <3>4. QED
      BY <1>4, <3>3
  <2>6. QED
    BY <1>4, <2>4, <2>5
<1>5. CASE t.op = "sale" /\ BuiltSale(t)
  <2> DEFINE m == t.base.listing
             b == t.base.bid
  <2>1. PICK signer \in Wallets, print \in PrintOptions :
          t.instructions = SaleInstructions(signer, m, b, print, v)
    BY <1>5 DEF BuiltSale
  <2>2. /\ m \in ListingModels /\ b \in BidModels /\ v \in BOOLEAN /\ print \in BOOLEAN
        /\ k = After(l, SaleInstructions(signer, m, b, print, v))
    BY <1>1, <1>5, <2>1, CallersAssumption DEF BuiltSale
  <2> HIDE DEF m, b, v
  <2>3. Sound(k) /\ Follows(l, k)
    BY ONLY Sound(l), k # Refused, <2>2, SaleLands
  <2>4. QED
    BY <1>5, <2>3
<1>6. CASE t.op \in {"deposit", "withdraw"} /\ BuiltMove(t)
  <2>1. PICK w \in Wallets, amount \in Nat :
          t.instructions = <<TheMove(t.op, w, amount, v)>>
    BY <1>6 DEF BuiltMove
  <2>2. k = Run(l, TheMove(t.op, w, amount, v))
    BY <2>1, AfterOne
  <2>3. Sound(k) /\ Follows(l, k)
    BY <1>1, <1>6, <2>2, MoveSound
  <2>4. QED
    BY <1>6, <2>3
<1>7. QED
  BY <1>2, <1>3, <1>4, <1>5, <1>6 DEF Built

LEMMA InitInv == Init => Inv
<1> SUFFICES ASSUME Init PROVE Inv
  OBVIOUS
<1>1. /\ Stock \in [Accounts -> Nat] /\ Purse \in [Wallets -> Nat]
  BY CallersAssumption, TermsAssumption
<1>2. ledger \in LedgersOf(Nat, Nat)
  BY <1>1 DEF Init, LedgersOf
<1>3. ledger.live = {} /\ Receipted(ledger) = {}
  BY DEF Init, Receipted
<1>4. QED
  BY <1>2, <1>3 DEF Init, Inv, Sound, KnownListing, KnownBid

\* A call sends what its builder made, and changes nothing else.
LEMMA SendInv ==
  ASSUME Inv, NEW op, NEW instructions, NEW base, Send(op, instructions, base),
         Built([op |-> op, instructions |-> instructions, base |-> base, house |-> House]),
         UNCHANGED <<ledger, listing, bid, answers>>
  PROVE  Inv'
<1> DEFINE t == [op |-> op, instructions |-> instructions, base |-> base, house |-> House]
<1>1. network' = network \cup {t} /\ Built(t)
  BY DEF Send
<1> HIDE DEF t
<1>2. \A x \in network' : Built(x)
  BY <1>1 DEF Inv
<1>3. QED
  BY <1>2 DEF Inv, KnownListing, KnownBid, Answerable

\* What is known of receipts stays true when none is lost.
LEMMA KnownStays ==
  ASSUME Inv, Receipted(ledger) \subseteq Receipted(ledger')
  PROVE  /\ listing' = listing => KnownListing(listing)'
         /\ bid' = bid => KnownBid(bid)'
         /\ \A r \in answers : Answerable(r)'
<1>1. listing' = listing => KnownListing(listing)'
  BY DEF Inv, KnownListing
<1>2. bid' = bid => KnownBid(bid)'
  BY DEF Inv, KnownBid
<1>3. \A r \in answers : Answerable(r)'
  BY DEF Inv, Answerable
<1>4. QED
  BY <1>1, <1>2, <1>3

LEMMA ListCallInv ==
  ASSUME Inv, NEW print \in PrintOptions, NEW w \in Sellers, NEW a \in Accounts,
         NEW p \in ListTerms, CreateListingCall(w, a, p[1], p[2], print)
  PROVE  Inv'
<1> DEFINE o    == Order(w, a, ListingPrice(p[1], House), p[2])
           c    == print /\ ~House
           base == [order |-> o, receipt |-> c]
           s    == CreateListing(w, a, p[1], p[2], print, House)
           t    == [op |-> "list", instructions |-> s, base |-> base, house |-> House]
<1>1. House \in BOOLEAN /\ c \in BOOLEAN
  BY CallersAssumption DEF Inv, Sound, LedgersOf, House
<1>2. /\ p[1] \in Prices /\ p[2] \in Sizes /\ w \in Wallets
  BY CallersAssumption
<1>3. o \in Orders /\ IsListing(o)
  BY <1>2, AccountsAssumption DEF Order, Orders, ListingPrice, CreateListingCall, IsListing
<1>4. s = ListTransaction(o, House, c)
  BY DEF CreateListing, ListTransaction, TheSell, ThePrint, PrintReceiptWhen
<1>5. Send("list", s, base) /\ UNCHANGED <<ledger, listing, bid, answers>>
  BY DEF CreateListingCall
<1>6. t.op = "list" /\ t.instructions = s /\ t.base = base /\ t.house = House
      /\ t.base.order = o /\ t.base.receipt = c
  OBVIOUS
<1> HIDE DEF o, c, s
<1>7. Built(t)
  BY <1>1, <1>3, <1>4, <1>6 DEF Built, BuiltList, ListingOrders
<1>8. QED
  BY <1>5, <1>7, SendInv

LEMMA BidCallInv ==
  ASSUME Inv, NEW print \in PrintOptions, NEW w \in Buyers, NEW a \in Targets,
         NEW p \in BidTerms, CreateBidCall(w, a, p[1], p[2], print)
  PROVE  Inv'
<1> DEFINE o    == Order(w, a, p[1], p[2])
           c    == print /\ ~House
           x    == ledger.exists[Ata[w]]
           base == [order |-> o, receipt |-> c, existed |-> x]
           s    == CreateBid(w, a, p[1], p[2], print, House, x)
           t    == [op |-> "bid", instructions |-> s, base |-> base, house |-> House]
<1>1. House \in BOOLEAN /\ c \in BOOLEAN
  BY CallersAssumption DEF Inv, Sound, LedgersOf, House
<1>2. /\ p[1] \in Prices /\ p[2] \in Sizes /\ w \in Wallets /\ Ata[w] \in Accounts
      /\ a \in Accounts \cup {Anywhere}
  BY CallersAssumption, AccountsAssumption
<1>3. x \in BOOLEAN
  BY <1>2 DEF Inv, Sound, LedgersOf
<1>4. o \in Orders /\ ~IsListing(o) /\ o.price \in Prices /\ o.account = a
  BY <1>2 DEF Order, Orders, CreateBidCall, IsListing
<1>5. s = BidTransaction(o, House, c, a = Anywhere /\ ~x)
  BY DEF CreateBid, BidTransaction, TheToken, TheBuy, ThePrint, PrintReceiptWhen, Used, Order
<1>6. Send("bid", s, base) /\ UNCHANGED <<ledger, listing, bid, answers>>
  BY DEF CreateBidCall
<1>7. t.op = "bid" /\ t.instructions = s /\ t.base = base /\ t.house = House
      /\ t.base.order = o /\ t.base.receipt = c /\ t.base.existed = x
  OBVIOUS
<1> HIDE DEF o, c, s, x
<1>8. Built(t)
  BY <1>1, <1>3, <1>4, <1>5, <1>7 DEF Built, BuiltBid, BidOrders
<1>9. QED
  BY <1>6, <1>8, SendInv

LEMMA CancelCallInv ==
  ASSUME Inv, NEW w \in Wallets, CancelListingCall(w) \/ CancelBidCall(w)
  PROVE  Inv'
<1>1. House \in BOOLEAN
  BY DEF Inv, Sound, LedgersOf, House
<1>2. CASE CancelListingCall(w)
  <2> DEFINE s    == CancelListing(w, listing, House)
             base == [model |-> listing, side |-> "listing"]
             t    == [op |-> "cancel", instructions |-> s, base |-> base, house |-> House]
  <2>1. /\ Send("cancel", s, base) /\ UNCHANGED <<ledger, listing, bid, answers>>
        /\ listing \in ListingModels
    BY <1>2 DEF CancelListingCall, Inv, KnownListing
  <2>2. /\ t.op = "cancel" /\ t.base.side = "listing" /\ t.base.model = listing
        /\ t.instructions = CancelListing(w, listing, t.house) /\ t.house = House
    OBVIOUS
  <2> HIDE DEF t
  <2>3. Built(t)
    BY <1>1, <2>1, <2>2 DEF Built, BuiltCancel
  <2>4. QED
    BY <2>1, <2>3, SendInv DEF t
<1>3. CASE CancelBidCall(w)
  <2> DEFINE s    == CancelBid(w, bid, House)
             base == [model |-> bid, side |-> "bid"]
             t    == [op |-> "cancel", instructions |-> s, base |-> base, house |-> House]
  <2>1. /\ Send("cancel", s, base) /\ UNCHANGED <<ledger, listing, bid, answers>>
        /\ bid \in BidModels
    BY <1>3 DEF CancelBidCall, Inv, KnownBid
  <2>2. /\ t.op = "cancel" /\ t.base.side = "bid" /\ t.base.model = bid
        /\ t.instructions = CancelBid(w, bid, t.house) /\ t.house = House
    OBVIOUS
  <2> HIDE DEF t
  <2>3. Built(t)
    BY <1>1, <2>1, <2>2 DEF Built, BuiltCancel
  <2>4. QED
    BY <2>1, <2>3, SendInv DEF t
<1>4. QED
  BY <1>2, <1>3

LEMMA SaleCallInv ==
  ASSUME Inv, NEW w \in Wallets, NEW print \in PrintOptions, ExecuteSaleCall(w, print)
  PROVE  Inv'
<1> DEFINE s    == SaleInstructions(w, listing, bid, print, House)
           base == [listing |-> listing, bid |-> bid,
                    receipt |-> PrintsPurchase(listing, bid, print)]
           t    == [op |-> "sale", instructions |-> s, base |-> base, house |-> House]
<1>1. House \in BOOLEAN
  BY DEF Inv, Sound, LedgersOf, House
<1>2. /\ Send("sale", s, base) /\ UNCHANGED <<ledger, listing, bid, answers>>
      /\ listing \in ListingModels /\ bid \in BidModels
  BY DEF ExecuteSaleCall, Inv, KnownListing, KnownBid
<1>3. /\ t.op = "sale" /\ t.base.listing = listing /\ t.base.bid = bid /\ t.house = House
      /\ t.instructions = SaleInstructions(w, t.base.listing, t.base.bid, print, t.house)
  OBVIOUS
<1> HIDE DEF t
<1>4. Built(t)
  BY <1>1, <1>2, <1>3 DEF Built, BuiltSale
<1>5. QED
  BY <1>2, <1>4, SendInv DEF t

LEMMA MoveCallInv ==
  ASSUME Inv, NEW type \in {"deposit", "withdraw"}, NEW w \in Buyers, NEW p \in BidTerms,
         MoveFundsCall(type, w, p[1])
  PROVE  Inv'
<1> DEFINE s    == MoveFunds(type, w, p[1], House)
           base == [wallet |-> w]
           t    == [op |-> type, instructions |-> s, base |-> base, house |-> House]
<1>1. House \in BOOLEAN /\ p[1] \in Nat /\ w \in Wallets
  BY CallersAssumption, TermsAssumption DEF Inv, Sound, LedgersOf, House
<1>2. Send(type, s, base) /\ UNCHANGED <<ledger, listing, bid, answers>>
  BY DEF MoveFundsCall
<1>3. /\ t.op = type /\ t.house = House
      /\ t.instructions = <<TheMove(t.op, w, p[1], t.house)>>
  BY DEF MoveFunds, TheMove
<1> HIDE DEF t
<1>4. Built(t)
  BY <1>1, <1>3 DEF Built, BuiltMove
<1>5. QED
  BY <1>2, <1>4, SendInv DEF t

LEMMA LoadedTypes ==
  ASSUME NEW receipt \in BOOLEAN, NEW canceled \in BOOLEAN
  PROVE  /\ \A o \in ListingOrders :
              /\ LoadedListing(o, receipt, canceled) \in ListingModels
              /\ LoadedListing(o, receipt, canceled).order = o
              /\ LoadedListing(o, receipt, canceled).receipt = receipt
         /\ \A o \in BidOrders :
              /\ LoadedBid(o, receipt, canceled) \in BidModels
              /\ LoadedBid(o, receipt, canceled).order = o
              /\ LoadedBid(o, receipt, canceled).receipt = receipt
<1>1. ASSUME NEW o \in ListingOrders
      PROVE  LoadedListing(o, receipt, canceled) \in ListingModels
  <2>1. o \in Orders /\ Ata[o.wallet] \in Accounts
    BY OrderTypes, AccountsAssumption DEF ListingOrders
  <2>2. QED
    BY <2>1 DEF LoadedListing, ListingModels, Models
<1>2. ASSUME NEW o \in BidOrders
      PROVE  LoadedBid(o, receipt, canceled) \in BidModels
  <2>1. o \in Orders /\ o.account \in Accounts \cup {Anywhere}
    BY OrderTypes DEF BidOrders
  <2>2. QED
    BY <2>1 DEF LoadedBid, BidModels, Models
<1>3. QED
  BY <1>1, <1>2 DEF LoadedListing, LoadedBid

LEMMA FindInv ==
  ASSUME Inv, NEW o, FindListing(o) \/ FindBid(o)
  PROVE  Inv'
<1>1. CASE FindListing(o)
  <2> DEFINE r == Listing(o)
             c == r \in ledger.canceled
             m == LoadedListing(o, TRUE, c)
  <2>1. r \in Receipted(ledger) /\ o \in ListingOrders /\ c \in BOOLEAN
    BY <1>1, ReceiptTypes DEF FindListing, HasReceipt, Receipted, Inv, Sound
  <2>2. listing' = m /\ UNCHANGED <<ledger, bid, network, answers>>
    BY <1>1 DEF FindListing
  <2> HIDE DEF c
  <2>3. m \in ListingModels /\ m.order = o
    BY <2>1, LoadedTypes
  <2> HIDE DEF m
  <2>4. KnownListing(listing)'
    BY <2>1, <2>2, <2>3 DEF KnownListing
  <2>5. QED
    BY <2>2, <2>4 DEF Inv, KnownBid, Answerable
<1>2. CASE FindBid(o)
  <2> DEFINE r == Bid(o)
             c == r \in ledger.canceled
             m == LoadedBid(o, TRUE, c)
  <2>1. r \in Receipted(ledger) /\ o \in BidOrders /\ c \in BOOLEAN
    BY <1>2, ReceiptTypes DEF FindBid, HasReceipt, Receipted, Inv, Sound
  <2>2. bid' = m /\ UNCHANGED <<ledger, listing, network, answers>>
    BY <1>2 DEF FindBid
  <2> HIDE DEF c
  <2>3. m \in BidModels /\ m.order = o
    BY <2>1, LoadedTypes
  <2> HIDE DEF m
  <2>4. KnownBid(bid)'
    BY <2>1, <2>2, <2>3 DEF KnownBid
  <2>5. QED
    BY <2>2, <2>4 DEF Inv, KnownListing, Answerable
<1>3. QED
  BY <1>1, <1>2

LEMMA LandInv ==
  ASSUME Inv, NEW t \in network, NEW heard \in BOOLEAN, Land(t, heard)
  PROVE  Inv'
<1>1. Built(t) /\ \A x \in network' : Built(x)
  BY DEF Land, Inv
<1> DEFINE r == [op |-> t.op, base |-> t.base]
<1>2. CASE Outcome(t) = Refused
  BY <1>1, <1>2 DEF Land, Inv, KnownListing, KnownBid, Answerable
<1>3. CASE Outcome(t) # Refused
  <2>1. /\ ledger' = Outcome(t) /\ UNCHANGED <<listing, bid>>
        /\ answers' \subseteq answers \cup {r}
    BY <1>3 DEF Land
  <2>2. /\ Sound(ledger') /\ Follows(ledger, ledger')
        /\ t.op = "list" /\ t.base.receipt => Listing(t.base.order) \in Receipted(ledger')
        /\ t.op = "bid" /\ t.base.receipt => Bid(t.base.order) \in Receipted(ledger')
    BY <1>1, <1>3, <2>1, TransactionSound DEF Outcome, Inv
  <2>3. r.op = t.op /\ r.base = t.base
    OBVIOUS
  <2> HIDE DEF r
  <2>4. Answerable(r)'
    BY <1>1, <2>2, <2>3 DEF Answerable, Built, BuiltList, BuiltBid
  <2>5. QED
    BY <1>1, <2>1, <2>2, <2>4, KnownStays DEF Inv, Follows
<1>4. QED
  BY <1>2, <1>3

LEMMA AnswerInv ==
  ASSUME Inv, NEW r \in answers, AnswerList(r) \/ AnswerBid(r) \/ AnswerSale(r)
  PROVE  Inv'
<1>1. Answerable(r) /\ answers' \subseteq answers /\ UNCHANGED <<ledger, network>>
  BY DEF Inv, AnswerList, AnswerBid, AnswerSale
<1>2. Sound(ledger)' /\ (\A t \in network' : Built(t)) /\ (\A x \in answers' : Answerable(x)')
  BY <1>1, KnownStays DEF Inv
<1>3. CASE AnswerList(r)
  <2> DEFINE o == r.base.order
             c == r.base.receipt
             d == c /\ Listing(o) \in ledger.canceled
             m == LoadedListing(o, c, d)
  <2>1. /\ o \in ListingOrders /\ c \in BOOLEAN /\ d \in BOOLEAN
        /\ c => Listing(o) \in Receipted(ledger)
    BY <1>1, <1>3 DEF AnswerList, Answerable
  <2>2. listing' \in {m, listing} /\ bid' = bid
    BY <1>3 DEF AnswerList
  <2> HIDE DEF o, c, d
  <2>3. m \in ListingModels /\ m.order = o /\ m.receipt = c
    BY <2>1, LoadedTypes
  <2> HIDE DEF m
  <2>4. KnownListing(listing)'
    BY <1>1, <2>1, <2>2, <2>3 DEF KnownListing, Inv
  <2>5. QED
    BY <1>1, <1>2, <2>2, <2>4 DEF Inv, KnownBid
<1>4. CASE AnswerBid(r)
  <2> DEFINE o == r.base.order
             c == r.base.receipt
             d == c /\ Bid(o) \in ledger.canceled
             m == LoadedBid(o, c, d)
  <2>1. /\ o \in BidOrders /\ c \in BOOLEAN /\ d \in BOOLEAN
        /\ c => Bid(o) \in Receipted(ledger)
    BY <1>1, <1>4 DEF AnswerBid, Answerable
  <2>2. bid' \in {m, bid} /\ listing' = listing
    BY <1>4 DEF AnswerBid
  <2> HIDE DEF o, c, d
  <2>3. m \in BidModels /\ m.order = o /\ m.receipt = c
    BY <2>1, LoadedTypes
  <2> HIDE DEF m
  <2>4. KnownBid(bid)'
    BY <1>1, <2>1, <2>2, <2>3 DEF KnownBid, Inv
  <2>5. QED
    BY <1>1, <1>2, <2>2, <2>4 DEF Inv, KnownListing
<1>5. CASE AnswerSale(r)
  BY <1>1, <1>2, <1>5 DEF Inv, KnownListing, KnownBid, AnswerSale
<1>6. QED
  BY <1>3, <1>4, <1>5

LEMMA OthersInv ==
  ASSUME Inv, DelegateAuctioneer \/ \E from, to \in Accounts : SendToken(from, to)
  PROVE  Inv'
<1>1. ASSUME Sound(ledger'), Receipted(ledger) \subseteq Receipted(ledger'),
             UNCHANGED <<listing, bid, network, answers>>
      PROVE  Inv'
  BY <1>1, KnownStays DEF Inv
<1>2. ledger \in LedgersOf(Nat, Nat)
  BY DEF Inv, Sound
<1>3. CASE DelegateAuctioneer
  <2>1. ledger' = [ledger EXCEPT !.auctioneer = TRUE]
    BY <1>3 DEF DelegateAuctioneer
  <2>2. /\ ledger' \in LedgersOf(Nat, Nat) /\ ledger'.live = ledger.live
        /\ ledger'.open = ledger.open /\ ledger'.canceled = ledger.canceled
        /\ ledger'.bought = ledger.bought /\ ledger'.exists = ledger.exists
    BY <1>2, <2>1 DEF LedgersOf
  <2>3. Sound(ledger')
    BY <2>2 DEF Sound, Inv, Receipted
  <2>4. QED
    BY <1>1, <1>3, <2>2, <2>3 DEF DelegateAuctioneer, Receipted
<1>4. ASSUME NEW from \in Accounts, NEW to \in Accounts, SendToken(from, to)
      PROVE  Inv'
  <2> DEFINE tokens == Moved(ledger.tokens, from, to, 1)
             exists == [ledger.exists EXCEPT ![to] = TRUE]
  <2>1. /\ ledger' = [ledger EXCEPT !.tokens = tokens, !.exists = exists]
        /\ ledger.tokens[from] > 0 /\ UNCHANGED <<listing, bid, network, answers>>
    BY <1>4 DEF SendToken
  <2>2. ledger.tokens \in [Accounts -> Nat] /\ 1 \in Nat /\ 1 <= ledger.tokens[from]
    BY <1>2, <2>1 DEF LedgersOf
  <2>3. tokens \in [Accounts -> Nat]
    BY <2>2, MovedType
  <2>4. exists \in [Accounts -> BOOLEAN] /\ \A a \in Accounts : ledger.exists[a] => exists[a]
    BY <1>2 DEF LedgersOf
  <2> HIDE DEF tokens, exists
  <2>5. /\ ledger' \in LedgersOf(Nat, Nat) /\ ledger'.live = ledger.live
        /\ ledger'.open = ledger.open /\ ledger'.canceled = ledger.canceled
        /\ ledger'.bought = ledger.bought /\ ledger'.exists = exists
    BY <1>2, <2>1, <2>3, <2>4 DEF LedgersOf
  <2>6. \A o \in ledger.live : Used(o) \in Accounts /\ ledger.exists[Used(o)]
    BY OrderTypes DEF Inv, Sound, ListingOrders, BidOrders
  <2>7. Sound(ledger')
    BY <2>4, <2>5, <2>6 DEF Sound, Inv, Receipted
  <2>8. QED
    BY <1>1, <2>1, <2>5, <2>7 DEF Receipted
<1>5. QED
  BY <1>3, <1>4

LEMMA NextInv == Inv /\ [Next]_vars => Inv'
<1> SUFFICES ASSUME Inv, [Next]_vars PROVE Inv'
  OBVIOUS
<1>1. CASE UNCHANGED vars
  BY <1>1 DEF vars, Inv, KnownListing, KnownBid, Answerable
<1>2. CASE \E print \in PrintOptions :
             \/ \E w \in Sellers, a \in Accounts, t \in ListTerms :
                  CreateListingCall(w, a, t[1], t[2], print)
             \/ \E w \in Buyers, a \in Targets, t \in BidTerms :
                  CreateBidCall(w, a, t[1], t[2], print)
  BY <1>2, ListCallInv, BidCallInv
<1>3. CASE \E w \in Wallets :
             \/ CancelListingCall(w)
             \/ CancelBidCall(w)
             \/ \E print \in PrintOptions : ExecuteSaleCall(w, print)
  BY <1>3, CancelCallInv, SaleCallInv
<1>4. CASE \E type \in {"deposit", "withdraw"}, w \in Buyers, t \in BidTerms :
             MoveFundsCall(type, w, t[1])
  BY <1>4, MoveCallInv
<1>5. CASE \E o \in ledger.live \cup {r.order : r \in ledger.canceled \cup ledger.bought} :
             FindListing(o) \/ FindBid(o)
  BY <1>5, FindInv
<1>6. CASE \E t \in network : Expire(t) \/ \E heard \in BOOLEAN : Land(t, heard)
  <2>1. ASSUME NEW t \in network, Expire(t) PROVE Inv'
    BY <2>1 DEF Expire, Inv, KnownListing, KnownBid, Answerable
  <2>2. QED
    BY <1>6, <2>1, LandInv
<1>7. CASE \E r \in answers : AnswerList(r) \/ AnswerBid(r) \/ AnswerSale(r)
  BY <1>7, AnswerInv
<1>8. CASE DelegateAuctioneer \/ \E from, to \in Accounts : SendToken(from, to)
  BY <1>8, OthersInv
<1>9. QED
  BY <1>1, <1>2, <1>3, <1>4, <1>5, <1>6, <1>7, <1>8 DEF Next

(* The accounts are sound: a living order was made with an account that    *)
(* exists, no receipt is ever lost, and a model or an answer that has a    *)
(* receipt has one on chain.                                               *)
THEOREM Invariant == Spec => []Inv
<1>1. QED
  BY InitInv, NextInv, PTL DEF Spec

(* A bid that its buyer can pay for is accepted, with a receipt or without *)
(* one and with a token account to create or none, unless that account or  *)
(* an auctioneer appeared since the bid was built.                         *)
THEOREM BidsAreOnlyRefusedIfRaced == Spec => []BidIsOnlyRefusedIfRaced
<1>1. ASSUME Inv, NEW t \in network, t.op = "bid"
      PROVE  LET o == t.base.order
             IN  /\ o.price <= ledger.sol[o.wallet] + ledger.escrow[o.wallet]
                 /\ ledger.exists[Ata[o.wallet]] = t.base.existed
                 /\ o.account # Anywhere => ledger.exists[o.account]
                 /\ House = t.house
                 => Outcome(t) # Refused
  <2> DEFINE o == t.base.order
             c == t.base.receipt
             v == t.house
             b == o.account = Anywhere /\ ~t.base.existed
             k == Outcome(t)
  <2> SUFFICES ASSUME o.price <= ledger.sol[o.wallet] + ledger.escrow[o.wallet],
                      ledger.exists[Ata[o.wallet]] = t.base.existed,
                      o.account # Anywhere => ledger.exists[o.account],
                      House = v
               PROVE  k # Refused
    OBVIOUS
  <2>1. /\ o \in BidOrders /\ c \in BOOLEAN /\ v \in BOOLEAN /\ b \in BOOLEAN
        /\ k = After(ledger, BidTransaction(o, v, c, b))
    BY <1>1 DEF Inv, Built, BuiltBid, Outcome
  <2>2. b <=> ~ledger.exists[Used(o)]
    BY DEF Used
  <2>3. ledger.exists[Used(o)] \in BOOLEAN
    BY <1>1, <2>1, OrderTypes DEF Inv, Sound, LedgersOf, BidOrders
  <2>4. b = ~ledger.exists[Used(o)] /\ v = ledger.auctioneer /\ Sound(ledger)
    <3> HIDE DEF b
    <3>1. QED
      BY <1>1, <2>1, <2>2, <2>3 DEF House, Inv
  <2> HIDE DEF o, c, v, b, k
  <2>5. k # Refused \/ Coverable(ledger, o, v, b)
    BY <2>4 DEF Coverable
  <2>6. Sound(ledger)
    BY <2>4
  <2>7. k # Refused /\ Sound(k)
    BY ONLY <2>1, <2>5, <2>6, BidLands
  <2>8. QED
    BY <2>7
<1>2. Inv => BidIsOnlyRefusedIfRaced
  BY <1>1 DEF BidIsOnlyRefusedIfRaced
<1>3. QED
  BY <1>2, Invariant, PTL

-----------------------------------------------------------------------------
(* A listing is loaded with the associated token account of its seller: it *)
(* is that of the listing as long as nobody sells from another account.    *)

AllAssociated == \A a \in Accounts : Ata[Owner[a]] = a

LEMMA AssociatedAccount ==
  ASSUME AllAssociated, NEW m \in ListingModels
  PROVE  /\ m.order \in Orders /\ m.order.account = m.account /\ m.account \in Accounts
         /\ m.order = Order(m.order.wallet, m.account, m.order.price, m.order.size)
         /\ Used(m.order) = m.account
<1>1. m.order \in ListingOrders /\ m.order \in Orders /\ m.account = Ata[m.order.wallet]
  BY DEF ListingModels, ListingOrders
<1>2. m.order.account = m.account
  BY <1>1, ListingTypes DEF AllAssociated
<1>3. QED
  BY <1>1, <1>2, ListingTypes, OrderTypes

(* Seller and buyer can always cancel an order that is alive, and its      *)
(* receipt then says so, in a house of any number of sellers, buyers and   *)
(* orders, with an auctioneer or without.                                  *)
THEOREM LiveOrdersCanBeCanceled ==
  ASSUME AllAssociated PROVE Spec => []LiveOrdersAreCanceled
<1>1. ASSUME Inv, Held(listing), OfThisHouse(listing.order)
      PROVE  Over(After(ledger, CancelListing(listing.order.wallet, listing, House)),
                  listing, Listing(listing.order))
  <2> DEFINE m == listing
             o == m.order
             w == o.wallet
             a == m.account
             v == House
             p == ListingPrice(o.price, v)
             c == m.receipt
             r == Listing(o)
             k == After(ledger, CancelListing(w, m, v))
  <2>1. /\ m \in ListingModels /\ o \in ledger.live /\ (c => r \in Receipted(ledger))
        /\ Sound(ledger)
    BY <1>1 DEF Held, Inv, KnownListing
  <2>2. o \in Orders /\ a \in Accounts /\ o = Order(w, a, o.price, o.size) /\ Used(o) = a
    BY <2>1, AssociatedAccount
  <2>3. w \in Wallets /\ v \in BOOLEAN
    BY <2>1, <2>2, OrderTypes DEF Sound, LedgersOf, House
  <2>4. p = o.price
    BY <1>1 DEF ListingPrice, OfThisHouse
  <2>5. ledger.exists[a] /\ v = ledger.auctioneer
    BY <2>1, <2>2 DEF Sound, House
  <2> HIDE DEF m, o, w, a, v, p, c, r, k
  <2>6. /\ k = After(ledger, CancelTransaction(w, o, a, p, v, c, r))
        /\ c \in BOOLEAN /\ r \in Printable
    BY <2>1, <2>3, CancelShape DEF k, o, a, p, c, r
  <2>7. Cancelable(ledger, w, o, a, p, v)
    BY <2>1, <2>2, <2>4, <2>5 DEF Cancelable, Names, w
  <2>8. k # Refused /\ CancelLeaves(ledger, k, o, c, r)
    <3>1. k # Refused \/ (Cancelable(ledger, w, o, a, p, v) /\ (c => r \in Receipted(ledger)))
      BY <2>1, <2>7
    <3>2. /\ Sound(ledger) /\ o \in Orders /\ a \in Accounts /\ w \in Wallets
          /\ v \in BOOLEAN /\ c \in BOOLEAN /\ r \in Printable
          /\ k = After(ledger, CancelTransaction(w, o, a, p, v, c, r))
      BY <2>1, <2>2, <2>3, <2>6
    <3>3. QED
      BY ONLY <3>1, <3>2, CancelLands
  <2>9. r.order = o
    BY DEF r, Listing
  <2>10. Over(k, m, r)
    BY <2>8, <2>9 DEF Over, CancelLeaves, c
  <2>11. QED
    BY <2>10 DEF k, m, r, o, w, v
<1>2. ASSUME Inv, Held(bid)
      PROVE  Over(After(ledger, CancelBid(bid.order.wallet, bid, House)), bid, Bid(bid.order))
  <2> DEFINE m == bid
             o == m.order
             w == o.wallet
             a == Used(o)
             v == House
             p == o.price
             c == m.receipt
             r == Bid(o)
             k == After(ledger, CancelBid(w, m, v))
  <2>1. /\ m \in BidModels /\ o \in ledger.live /\ (c => r \in Receipted(ledger))
        /\ Sound(ledger)
    BY <1>2 DEF Held, Inv, KnownBid
  <2>2. /\ o \in Orders /\ w \in Wallets /\ a \in Accounts
        /\ o = Order(w, o.account, o.price, o.size)
    BY <2>1, OrderTypes DEF BidModels, BidOrders
  <2>3. v \in BOOLEAN
    BY <2>1 DEF Sound, LedgersOf, House
  <2>4. ledger.exists[a] /\ v = ledger.auctioneer
    BY <2>1 DEF Sound, House
  <2>5. Names(o, w, a, p, o.size)
    BY <2>2 DEF Names, Used
  <2> HIDE DEF m, o, w, a, v, p, c, r, k
  <2>6. /\ k = After(ledger, CancelTransaction(w, o, a, p, v, c, r))
        /\ c \in BOOLEAN /\ r \in Printable
    BY <2>1, <2>2, <2>3, CancelShape DEF k, o, a, p, c, r
  <2>7. Cancelable(ledger, w, o, a, p, v)
    BY <2>1, <2>4, <2>5 DEF Cancelable, w
  <2>8. k # Refused /\ CancelLeaves(ledger, k, o, c, r)
    <3>1. k # Refused \/ (Cancelable(ledger, w, o, a, p, v) /\ (c => r \in Receipted(ledger)))
      BY <2>1, <2>7
    <3>2. /\ Sound(ledger) /\ o \in Orders /\ a \in Accounts /\ w \in Wallets
          /\ v \in BOOLEAN /\ c \in BOOLEAN /\ r \in Printable
          /\ k = After(ledger, CancelTransaction(w, o, a, p, v, c, r))
      BY <2>1, <2>2, <2>3, <2>6
    <3>3. QED
      BY ONLY <3>1, <3>2, CancelLands
  <2>9. r.order = o
    BY DEF r, Bid
  <2>10. Over(k, m, r)
    BY <2>8, <2>9 DEF Over, CancelLeaves, c
  <2>11. QED
    BY <2>10 DEF k, m, r, o, w, v
<1>3. Inv => LiveOrdersAreCanceled
  BY <1>1, <1>2 DEF LiveOrdersAreCanceled
<1>4. QED
  BY <1>3, Invariant, PTL

-----------------------------------------------------------------------------
(* Sizes are compared as texts: as numbers only if their digits are so     *)
(* ordered, for which one digit is enough.                                 *)

ComparedAsNumbers == \A a, b \in Sizes : TextLess(Digits(a), Digits(b)) <=> a < b

LEMMA OneDigit == ASSUME NEW n \in 0 .. 9 PROVE Digits(n) = <<n>>
<1> DEFINE Is(f) == f = [k \in 0 .. n |-> IF k < 10 THEN <<k>>
                                         ELSE Append(f[k \div 10], k % 10)]
           g == [k \in 0 .. n |-> <<k>>]
<1>1. Is(g)
  OBVIOUS
<1>2. Is(CHOOSE f : Is(f))
  <2> HIDE DEF Is, g
  <2>1. QED
    BY <1>1
<1>3. Digits(n) = (CHOOSE f : Is(f))[n]
  BY DEF Digits
<1>4. \A f : Is(f) => f[n] = <<n>>
  OBVIOUS
<1> HIDE DEF Is
<1>5. QED
  BY <1>2, <1>3, <1>4

LEMMA OneDigitIsCompared ==
  ASSUME NEW a \in 0 .. 9, NEW b \in 0 .. 9
  PROVE  TextLess(Digits(a), Digits(b)) <=> a < b
<1> DEFINE s == <<a>>
           u == <<b>>
<1>1. /\ Len(s) = 1 /\ Len(u) = 1 /\ s[1] = a /\ u[1] = b
      /\ SubSeq(s, 1, 0) = SubSeq(u, 1, 0)
  OBVIOUS
<1> HIDE DEF s, u
<1>2. TextLess(s, u) <=> a < b
  BY <1>1 DEF TextLess
<1>3. QED
  BY <1>2, OneDigit DEF s, u

\* A house of tokens that are sold by less than ten.
LEMMA SmallSizesAreCompared == ASSUME Sizes \subseteq 0 .. 9 PROVE ComparedAsNumbers
BY OneDigitIsCompared DEF ComparedAsNumbers

LEMMA SamePriceOfAll ==
  ASSUME NEW p \in Nat, NEW q \in Nat, NEW n \in Nat, n > 0, p * n = q * n
  PROVE  p = q
OBVIOUS

\* The same price for each token stays the same when it is rounded down.
LEMMA SamePriceRounded ==
  ASSUME NEW a \in Nat, NEW b \in Nat, b > 0, NEW c \in Nat, NEW d \in Nat, d > 0,
         a * d = c * b
  PROVE  a \div b = c \div d
<1> DEFINE q == a \div b
<1>1. q \in Nat /\ b * q <= a /\ a < b * (q + 1)
  OBVIOUS
<1> HIDE DEF q
<1>2. (b * q) * d <= a * d /\ a * d < (b * (q + 1)) * d
  BY <1>1
<1>3. b * (d * q) <= b * c /\ b * c < b * (d * (q + 1))
  BY <1>1, <1>2
<1>4. d * q <= c /\ c < d * (q + 1)
  BY <1>1, <1>3
<1>5. c \div d = q
  BY <1>1, <1>4
<1>6. QED
  BY <1>5 DEF q

(* A listing and a bid that are alive, at the same price for each token    *)
(* and covered by tokens and SOL are sold from their models, whole or in   *)
(* part, if sizes compare as numbers and sellers sell from their           *)
(* associated accounts.                                                    *)
THEOREM LiveOrdersCanBeSold ==
  ASSUME AllAssociated, ComparedAsNumbers PROVE Spec => []LiveOrdersAreSold
<1>1. ASSUME Inv, Held(listing), Held(bid), OfThisHouse(listing.order),
             Match(listing.order, bid.order), Funded(listing.order, bid.order)
      PROVE  /\ CanSell(listing, bid, House)
             /\ After(ledger, SaleInstructions(Authority, listing, bid, TRUE, House)) # Refused
  <2> DEFINE m == listing
             b == bid
             o == m.order
             p == b.order
             v == House
             i == SaleInstruction(Authority, m, b, v)
             k == After(ledger, SaleInstructions(Authority, m, b, TRUE, v))
  <2>1. /\ m \in ListingModels /\ b \in BidModels /\ Sound(ledger)
        /\ o \in ledger.live /\ p \in ledger.live /\ ~m.canceled /\ ~b.canceled
        /\ m.receipt => Listing(o) \in Receipted(ledger)
        /\ b.receipt => Bid(p) \in Receipted(ledger)
    BY <1>1 DEF Held, Inv, KnownListing, KnownBid
  <2>2. /\ o \in Orders /\ o.account = m.account /\ m.account \in Accounts
        /\ o = Order(o.wallet, m.account, o.price, o.size) /\ Used(o) = m.account
    BY <2>1, AssociatedAccount
  <2>3. /\ p \in Orders /\ p.price \in Nat /\ p = Order(p.wallet, p.account, p.price, p.size)
    BY <2>1, OrderTypes, BidTypes DEF BidModels, BidOrders
  <2>4. /\ o.size \in Nat /\ o.size > 0 /\ p.size \in Nat /\ p.size > 0
        /\ o.size \in Sizes /\ p.size \in Sizes
        /\ o.price \in Prices \cup {AuctioneerPrice}
    BY <2>2, <2>3, OrderTypes
  <2>5. v \in BOOLEAN /\ v = ledger.auctioneer
    BY <2>1 DEF Sound, LedgersOf, House
  <2>6. IF v THEN o.price = AuctioneerPrice ELSE o.price \in Nat
    BY <1>1, <2>4, TermsAssumption DEF OfThisHouse
  <2>7. /\ p.account \in {m.account, Anywhere} /\ p.size <= o.size
        /\ IF v THEN o.size = p.size ELSE o.price * p.size = p.price * o.size
    BY <1>1, <2>2 DEF Match, SamePrice
  <2>8. /\ p.size <= ledger.tokens[m.account] /\ p.size <= ledger.delegated[m.account]
        /\ p.price <= ledger.escrow[p.wallet] /\ ledger.exists[m.account]
    BY <1>1, <2>1, <2>2 DEF Funded, Sound
  <2>9. IsPartialSale(m, b) <=> p.size < o.size
    BY <2>4 DEF IsPartialSale, ComparedAsNumbers
  <2> HIDE DEF m, b, o, p, v, i, k
  <2>10. Names(p, p.wallet, m.account, p.price, p.size)
    BY <2>3, <2>7 DEF Names
  <2>11. IsPartialSale(m, b) => ~v /\ TokenPrice(o) = TokenPrice(p)
    <3>1. ASSUME IsPartialSale(m, b) PROVE ~v /\ o.price * p.size = p.price * o.size
      BY <2>4, <2>5, <2>7, <2>9, <3>1
    <3>2. ASSUME IsPartialSale(m, b) PROVE TokenPrice(o) = TokenPrice(p)
      <4>1. o.price \in Nat /\ o.price * p.size = p.price * o.size
        BY <2>6, <3>1, <3>2
      <4>2. o.price \div o.size = p.price \div p.size
        BY ONLY <2>3, <2>4, <4>1, SamePriceRounded
      <4>3. QED
        BY <4>2 DEF TokenPrice
    <3>3. QED
      BY <3>1, <3>2
  <2>12. ~IsPartialSale(m, b) => o.size = p.size /\ (~v => o.price = p.price)
    <3>1. ASSUME ~IsPartialSale(m, b) PROVE o.size = p.size
      BY <2>4, <2>7, <2>9, <3>1
    <3>2. ASSUME ~IsPartialSale(m, b), ~v PROVE o.price = p.price
      BY <2>3, <2>4, <2>6, <2>7, <3>1, <3>2, SamePriceOfAll
    <3>3. QED
      BY <3>1, <3>2
  <2>13. CanSell(m, b, v)
    BY <2>1, <2>11 DEF CanSell, o, p
  <2>14. Nameable(ledger, Authority, m, b, v)
    BY <2>2, <2>5, <2>6, <2>10, <2>11, <2>12 DEF Nameable, o, p
  <2>15. i.listing = o /\ i.bid = p /\ i.account = m.account /\ i.signer = Authority
    BY DEF SaleInstruction, i, o, p
  <2>16. Deliverable(ledger, i, p.price, p.size)
    BY <2>1, <2>8, <2>15 DEF Deliverable
  <2>17. PrintsPurchase(m, b, TRUE) => {Listing(o), Bid(p)} \subseteq Receipted(ledger)
    BY <2>1 DEF PrintsPurchase
  <2>18. k # Refused
    <3> DEFINE print == TRUE
    <3>1. /\ m \in ListingModels /\ b \in BidModels /\ Sound(ledger) /\ v \in BOOLEAN
          /\ print \in BOOLEAN /\ k = After(ledger, SaleInstructions(Authority, m, b, print, v))
      BY <2>1, <2>5 DEF k
    <3>2. PrintsPurchase(m, b, print) => {Listing(o), Bid(p)} \subseteq Receipted(ledger)
      BY <2>17
    <3> HIDE DEF print
    <3>3. k # Refused \/ Sellable(ledger, Authority, m, b, v, print)
      BY <2>14, <2>16, <3>2 DEF Sellable, i, o, p
    <3>4. k # Refused /\ Sound(k)
      BY ONLY <3>1, <3>3, SaleLands
    <3>5. QED
      BY <3>4
  <2>19. QED
    BY <2>13, <2>18 DEF k, m, b, v
<1>2. Inv => LiveOrdersAreSold
  BY <1>1 DEF LiveOrdersAreSold
<1>3. QED
  BY <1>2, Invariant, PTL

-----------------------------------------------------------------------------
(* Receipts and trade states, in a house without an auctioneer in which    *)
(* every receipt is printed and orders are sold whole.                     *)

AlwaysPrinted == PrintOptions = {TRUE}
NoAuctioneer  == "delegate" \notin Others
SoldWhole     == \A a, b \in Sizes : ~TextLess(Digits(a), Digits(b))

\* A house of NFTs.
LEMMA OneSizeIsSoldWhole == ASSUME Sizes = {1} PROVE SoldWhole
BY OneDigitIsCompared DEF SoldWhole

Receipt(o) == IF IsListing(o) THEN Listing(o) ELSE Bid(o)

Truth(l) == l.open = {Receipt(o) : o \in l.live}

LEMMA ReceiptOrder == \A o : Receipt(o).order = o
BY DEF Receipt, Listing, Bid

LEMMA ReceiptKinds ==
  /\ \A o \in ListingOrders : Receipt(o) = Listing(o)
  /\ \A o \in BidOrders : Receipt(o) = Bid(o)
BY DEF ListingOrders, BidOrders, Receipt

LEMMA TruthMakes ==
  ASSUME NEW l, Truth(l), NEW o, NEW k,
         k.live = l.live \cup {o}, k.open = l.open \cup {Receipt(o)}
  PROVE  Truth(k)
BY DEF Truth

LEMMA TruthTakes ==
  ASSUME NEW l, Truth(l), NEW o, NEW p, NEW k,
         k.live = l.live \ {o, p}, k.open = l.open \ {Receipt(o), Receipt(p)}
  PROVE  Truth(k)
<1>1. \A x, y : Receipt(x) = Receipt(y) => x = y
  BY ReceiptOrder
<1>2. QED
  BY <1>1 DEF Truth

\* What is sent prints the receipts of what it makes and takes.
Printing(t) ==
  /\ ~t.house
  /\ t.op \in {"list", "bid"} => t.base.receipt
  /\ t.op = "cancel" => t.base.model.receipt
  /\ t.op = "sale" => t.base.listing.receipt /\ t.base.bid.receipt

PrintingInv ==
  /\ ~ledger.auctioneer
  /\ listing # NoModel => listing.receipt
  /\ bid # NoModel => bid.receipt
  /\ \A t \in network : Printing(t)
  /\ \A r \in answers : r.op \in {"list", "bid"} => r.base.receipt
  /\ Truth(ledger)

LEMMA TransactionTrue ==
  ASSUME AlwaysPrinted, SoldWhole, NEW l, Sound(l), Truth(l), NEW t, Built(t), Printing(t),
         NEW k, k = After(l, t.instructions), k # Refused
  PROVE  Truth(k)
<1> DEFINE v == t.house
           o == t.base.order
           c == t.base.receipt
<1>1. v \in BOOLEAN
  BY DEF Built
<1>2. CASE t.op = "list" /\ BuiltList(t)
  <2>1. /\ o \in ListingOrders /\ c \in BOOLEAN /\ v \in BOOLEAN
        /\ k = After(l, ListTransaction(o, v, c))
    BY <1>1, <1>2 DEF BuiltList
  <2>2. c
    BY <1>2 DEF Printing
  <2> HIDE DEF o, c, v
  <2>3. k.live = l.live \cup {o} /\ (c => k.open = l.open \cup {Listing(o)})
    BY <2>1, ListLands
  <2>4. Receipt(o) = Listing(o)
    BY <2>1, ReceiptKinds
  <2>5. QED
    BY <2>2, <2>3, <2>4, TruthMakes
<1>3. CASE t.op = "bid" /\ BuiltBid(t)
  <2> DEFINE b == o.account = Anywhere /\ ~t.base.existed
  <2>1. /\ o \in BidOrders /\ c \in BOOLEAN /\ v \in BOOLEAN /\ b \in BOOLEAN
        /\ k = After(l, BidTransaction(o, v, c, b))
    BY <1>1, <1>3 DEF BuiltBid
  <2>2. c
    BY <1>3 DEF Printing
  <2> HIDE DEF o, c, v, b
  <2>3. k.live = l.live \cup {o} /\ (c => k.open = l.open \cup {Bid(o)})
    BY <2>1, BidLands
  <2>4. Receipt(o) = Bid(o)
    BY <2>1, ReceiptKinds
  <2>5. QED
    BY <2>2, <2>3, <2>4, TruthMakes
<1>4. CASE t.op = "cancel" /\ BuiltCancel(t)
  <2>1. PICK signer \in Wallets :
          IF t.base.side = "listing"
          THEN /\ t.base.model \in ListingModels
               /\ t.instructions = CancelListing(signer, t.base.model, v)
          ELSE /\ t.base.model \in BidModels
               /\ t.instructions = CancelBid(signer, t.base.model, v)
    BY <1>4 DEF BuiltCancel
  <2> DEFINE m == t.base.model
             x == m.order
             d == m.receipt
  <2>2. d
    BY <1>4 DEF Printing
  <2> HIDE DEF v
  <2>3. ASSUME NEW a \in Accounts, NEW price, NEW r \in Printable, r = Receipt(x),
               x \in Orders, d \in BOOLEAN,
               k = After(l, CancelTransaction(signer, x, a, price, v, d, r))
        PROVE  Truth(k)
    <3> HIDE DEF x, d
    <3>1. k # Refused \/ (Cancelable(l, signer, x, a, price, v) /\ (d => r \in Receipted(l)))
      OBVIOUS
    <3>2. k = After(l, CancelTransaction(signer, x, a, price, v, d, r))
      BY <2>3
    <3>3. x \in Orders /\ d \in BOOLEAN
      BY <2>3
    <3>4. CancelLeaves(l, k, x, d, r)
      BY ONLY Sound(l), <1>1, <3>1, <3>2, <3>3, CancelLands
    <3>5. k.live = l.live \ {x} /\ (d => k.open = l.open \ {r})
      BY <3>4 DEF CancelLeaves
    <3>6. k.live = l.live \ {x, x} /\ k.open = l.open \ {Receipt(x), Receipt(x)}
      BY <2>2, <2>3, <3>5
    <3>7. QED
      BY <3>6, TruthTakes
  <2>4. CASE t.base.side = "listing"
    <3>1. m \in ListingModels /\ k = After(l, CancelListing(signer, m, v))
      BY <2>1, <2>4
    <3> HIDE DEF m
    <3>2. /\ k = After(l, CancelTransaction(signer, x, m.account, ListingPrice(x.price, v), v,
                                            d, Listing(x)))
          /\ x \in Orders /\ m.account \in Accounts /\ d \in BOOLEAN
          /\ Listing(x) \in Printable
      BY <1>1, <3>1, CancelShape
    <3>3. Receipt(x) = Listing(x)
      BY <3>1, ReceiptKinds DEF ListingModels
    <3>4. QED
      BY <2>3, <3>2, <3>3
  <2>5. CASE t.base.side # "listing"
    <3>1. m \in BidModels /\ k = After(l, CancelBid(signer, m, v))
      BY <2>1, <2>5
    <3> HIDE DEF m
    <3>2. /\ k = After(l, CancelTransaction(signer, x, Used(x), x.price, v, d, Bid(x)))
          /\ x \in Orders /\ Used(x) \in Accounts /\ d \in BOOLEAN
          /\ Bid(x) \in Printable
      BY <1>1, <3>1, CancelShape
    <3>3. Receipt(x) = Bid(x)
      BY <3>1, ReceiptKinds DEF BidModels
    <3>4. QED
      BY <2>3, <3>2, <3>3
  <2>6. QED
    BY <2>4, <2>5
<1>5. CASE t.op = "sale" /\ BuiltSale(t)
  <2> DEFINE m == t.base.listing
             b == t.base.bid
  <2>1. PICK signer \in Wallets, print \in PrintOptions :
          t.instructions = SaleInstructions(signer, m, b, print, v)
    BY <1>5 DEF BuiltSale
  <2>2. /\ m \in ListingModels /\ b \in BidModels /\ v \in BOOLEAN /\ print \in BOOLEAN
        /\ k = After(l, SaleInstructions(signer, m, b, print, v))
    BY <1>1, <1>5, <2>1, CallersAssumption DEF BuiltSale
  <2>3. print /\ m.receipt /\ b.receipt
    BY <1>5, <2>1 DEF Printing, AlwaysPrinted
  <2> HIDE DEF m, b, v
  <2>4. m.order.size \in Sizes /\ b.order.size \in Sizes
    BY <2>2, OrderTypes DEF ListingModels, BidModels, ListingOrders, BidOrders
  <2>5. PrintsPurchase(m, b, print)
    BY <2>3, <2>4 DEF PrintsPurchase, IsPartialSale, SoldWhole
  <2>6. SaleLeaves(l, k, m, b, print)
    <3>1. k # Refused \/ Sellable(l, signer, m, b, v, print)
      OBVIOUS
    <3>2. QED
      BY ONLY Sound(l), <2>2, <3>1, SaleLands
  <2>7. Receipt(m.order) = Listing(m.order) /\ Receipt(b.order) = Bid(b.order)
    BY <2>2, ReceiptKinds DEF ListingModels, BidModels
  <2>8. QED
    BY <2>5, <2>6, <2>7, TruthTakes DEF SaleLeaves
<1>6. CASE t.op \in {"deposit", "withdraw"} /\ BuiltMove(t)
  <2>1. PICK w \in Wallets, amount \in Nat :
          t.instructions = <<TheMove(t.op, w, amount, v)>>
    BY <1>6 DEF BuiltMove
  <2>2. k = Run(l, TheMove(t.op, w, amount, v))
    BY <2>1, AfterOne
  <2>3. k.live = l.live /\ k.open = l.open
    BY <1>1, <1>6, <2>2, MoveSound
  <2>4. QED
    BY <2>3 DEF Truth
<1>7. QED
  BY <1>2, <1>3, <1>4, <1>5, <1>6 DEF Built

LEMMA SendPrinting ==
  ASSUME PrintingInv, NEW op, NEW instructions, NEW base, Send(op, instructions, base),
         UNCHANGED <<ledger, listing, bid, answers>>,
         op \in {"list", "bid"} => base.receipt,
         op = "cancel" => base.model.receipt,
         op = "sale" => base.listing.receipt /\ base.bid.receipt
  PROVE  PrintingInv'
<1> DEFINE t == [op |-> op, instructions |-> instructions, base |-> base, house |-> House]
<1>1. network' = network \cup {t} /\ t.op = op /\ t.base = base /\ t.house = House
  BY DEF Send
<1> HIDE DEF t
<1>2. Printing(t)
  BY <1>1 DEF Printing, PrintingInv, House
<1>3. QED
  BY <1>1, <1>2 DEF PrintingInv

LEMMA CallPrinting ==
  ASSUME AlwaysPrinted, PrintingInv,
         \/ \E print \in PrintOptions :
              \/ \E w \in Sellers, a \in Accounts, t \in ListTerms :
                   CreateListingCall(w, a, t[1], t[2], print)
              \/ \E w \in Buyers, a \in Targets, t \in BidTerms :
                   CreateBidCall(w, a, t[1], t[2], print)
         \/ \E w \in Wallets :
              \/ CancelListingCall(w)
              \/ CancelBidCall(w)
              \/ \E print \in PrintOptions : ExecuteSaleCall(w, print)
         \/ \E type \in {"deposit", "withdraw"}, w \in Buyers, t \in BidTerms :
              MoveFundsCall(type, w, t[1])
  PROVE  PrintingInv'
<1>1. \A print \in PrintOptions : print /\ ~House
  BY DEF AlwaysPrinted, PrintingInv, House
<1>2. ASSUME NEW print \in PrintOptions, NEW w, NEW a, NEW p, NEW n,
             CreateListingCall(w, a, p, n, print)
      PROVE  PrintingInv'
  <2> DEFINE base == [order |-> Order(w, a, ListingPrice(p, House), n),
                      receipt |-> print /\ ~House]
             s    == CreateListing(w, a, p, n, print, House)
  <2>1. Send("list", s, base) /\ UNCHANGED <<ledger, listing, bid, answers>> /\ base.receipt
    BY <1>1, <1>2 DEF CreateListingCall
  <2> HIDE DEF base, s
  <2>2. QED
    BY <2>1, SendPrinting
<1>3. ASSUME NEW print \in PrintOptions, NEW w, NEW a, NEW p, NEW n,
             CreateBidCall(w, a, p, n, print)
      PROVE  PrintingInv'
  <2> DEFINE base == [order |-> Order(w, a, p, n), receipt |-> print /\ ~House,
                      existed |-> ledger.exists[Ata[w]]]
             s    == CreateBid(w, a, p, n, print, House, ledger.exists[Ata[w]])
  <2>1. Send("bid", s, base) /\ UNCHANGED <<ledger, listing, bid, answers>> /\ base.receipt
    BY <1>1, <1>3 DEF CreateBidCall
  <2> HIDE DEF base, s
  <2>2. QED
    BY <2>1, SendPrinting
<1>4. ASSUME NEW w, CancelListingCall(w) PROVE PrintingInv'
  <2> DEFINE base == [model |-> listing, side |-> "listing"]
             s    == CancelListing(w, listing, House)
  <2>1. /\ Send("cancel", s, base) /\ UNCHANGED <<ledger, listing, bid, answers>>
        /\ base.model.receipt
    BY <1>4 DEF CancelListingCall, PrintingInv
  <2> HIDE DEF base, s
  <2>2. QED
    BY <2>1, SendPrinting
<1>5. ASSUME NEW w, CancelBidCall(w) PROVE PrintingInv'
  <2> DEFINE base == [model |-> bid, side |-> "bid"]
             s    == CancelBid(w, bid, House)
  <2>1. /\ Send("cancel", s, base) /\ UNCHANGED <<ledger, listing, bid, answers>>
        /\ base.model.receipt
    BY <1>5 DEF CancelBidCall, PrintingInv
  <2> HIDE DEF base, s
  <2>2. QED
    BY <2>1, SendPrinting
<1>6. ASSUME NEW w, NEW print, ExecuteSaleCall(w, print) PROVE PrintingInv'
  <2> DEFINE base == [listing |-> listing, bid |-> bid,
                      receipt |-> PrintsPurchase(listing, bid, print)]
             s    == SaleInstructions(w, listing, bid, print, House)
  <2>1. /\ Send("sale", s, base) /\ UNCHANGED <<ledger, listing, bid, answers>>
        /\ base.listing.receipt /\ base.bid.receipt
    BY <1>6 DEF ExecuteSaleCall, PrintingInv
  <2> HIDE DEF base, s
  <2>2. QED
    BY <2>1, SendPrinting
<1>7. ASSUME NEW type \in {"deposit", "withdraw"}, NEW w, NEW amount,
             MoveFundsCall(type, w, amount)
      PROVE  PrintingInv'
  <2> DEFINE base == [wallet |-> w]
             s    == MoveFunds(type, w, amount, House)
  <2>1. Send(type, s, base) /\ UNCHANGED <<ledger, listing, bid, answers>>
    BY <1>7 DEF MoveFundsCall
  <2> HIDE DEF base, s
  <2>2. QED
    BY <2>1, SendPrinting
<1>8. QED
  BY <1>2, <1>3, <1>4, <1>5, <1>6, <1>7

LEMMA LandPrinting ==
  ASSUME AlwaysPrinted, SoldWhole, Inv, PrintingInv, NEW t \in network, NEW heard,
         Land(t, heard)
  PROVE  PrintingInv'
<1> DEFINE r == [op |-> t.op, base |-> t.base]
           k == Outcome(t)
<1>1. /\ \A x \in network' : Printing(x)
      /\ answers' \subseteq answers \cup {r} /\ UNCHANGED <<listing, bid>>
  BY DEF Land, PrintingInv
<1>2. Built(t) /\ Printing(t) /\ Sound(ledger) /\ Truth(ledger) /\ ~ledger.auctioneer
  BY DEF Inv, PrintingInv
<1>3. r.op \in {"list", "bid"} => r.base.receipt
  BY <1>2 DEF Printing
<1> HIDE DEF r
<1>4. ~ledger'.auctioneer /\ Truth(ledger')
  <2>1. CASE k = Refused
    BY <1>2, <2>1 DEF Land
  <2>2. CASE k # Refused
    <3>1. ledger' = k /\ k = After(ledger, t.instructions)
      BY <2>2 DEF Land, Outcome
    <3> HIDE DEF k
    <3>2. Follows(ledger, k)
      BY <1>2, <2>2, <3>1, TransactionSound
    <3>3. Truth(k)
      BY <1>2, <2>2, <3>1, TransactionTrue
    <3>4. QED
      BY <1>2, <3>1, <3>2, <3>3 DEF Follows
  <2>3. QED
    BY <2>1, <2>2
<1>5. QED
  BY <1>1, <1>3, <1>4 DEF PrintingInv

LEMMA ModelPrinting ==
  ASSUME PrintingInv,
         \/ \E o : FindListing(o) \/ FindBid(o)
         \/ \E r \in answers : AnswerList(r) \/ AnswerBid(r) \/ AnswerSale(r)
  PROVE  PrintingInv'
<1>1. ASSUME NEW o, FindListing(o) PROVE PrintingInv'
  <2>1. /\ listing' = LoadedListing(o, TRUE, Listing(o) \in ledger.canceled)
        /\ UNCHANGED <<ledger, bid, network, answers>>
    BY <1>1 DEF FindListing
  <2>2. listing'.receipt
    BY <2>1 DEF LoadedListing
  <2>3. QED
    BY <2>1, <2>2 DEF PrintingInv
<1>2. ASSUME NEW o, FindBid(o) PROVE PrintingInv'
  <2>1. /\ bid' = LoadedBid(o, TRUE, Bid(o) \in ledger.canceled)
        /\ UNCHANGED <<ledger, listing, network, answers>>
    BY <1>2 DEF FindBid
  <2>2. bid'.receipt
    BY <2>1 DEF LoadedBid
  <2>3. QED
    BY <2>1, <2>2 DEF PrintingInv
<1>3. ASSUME NEW r \in answers, AnswerList(r) PROVE PrintingInv'
  <2> DEFINE c == r.base.receipt
             d == c /\ Listing(r.base.order) \in ledger.canceled
             m == LoadedListing(r.base.order, c, d)
  <2>1. /\ r.op = "list" /\ answers' \subseteq answers /\ listing' \in {m, listing}
        /\ UNCHANGED <<ledger, bid, network>>
    BY <1>3 DEF AnswerList
  <2>2. c /\ m.receipt = c
    BY <2>1 DEF PrintingInv, LoadedListing
  <2> HIDE DEF m, c, d
  <2>3. listing' # NoModel => listing'.receipt
    BY <2>1, <2>2 DEF PrintingInv
  <2>4. QED
    BY <2>1, <2>3 DEF PrintingInv
<1>4. ASSUME NEW r \in answers, AnswerBid(r) PROVE PrintingInv'
  <2> DEFINE c == r.base.receipt
             d == c /\ Bid(r.base.order) \in ledger.canceled
             m == LoadedBid(r.base.order, c, d)
  <2>1. /\ r.op = "bid" /\ answers' \subseteq answers /\ bid' \in {m, bid}
        /\ UNCHANGED <<ledger, listing, network>>
    BY <1>4 DEF AnswerBid
  <2>2. c /\ m.receipt = c
    BY <2>1 DEF PrintingInv, LoadedBid
  <2> HIDE DEF m, c, d
  <2>3. bid' # NoModel => bid'.receipt
    BY <2>1, <2>2 DEF PrintingInv
  <2>4. QED
    BY <2>1, <2>3 DEF PrintingInv
<1>5. ASSUME NEW r \in answers, AnswerSale(r) PROVE PrintingInv'
  BY <1>5 DEF AnswerSale, PrintingInv
<1>6. QED
  BY <1>1, <1>2, <1>3, <1>4, <1>5

LEMMA NextPrinting ==
  ASSUME AlwaysPrinted, NoAuctioneer, SoldWhole, Inv, PrintingInv, [Next]_vars
  PROVE  PrintingInv'
<1>1. CASE UNCHANGED vars
  BY <1>1 DEF vars, PrintingInv
<1>2. ASSUME NEW t \in network, Expire(t) PROVE PrintingInv'
  BY <1>2 DEF Expire, PrintingInv
<1>3. ~DelegateAuctioneer
  BY DEF NoAuctioneer, DelegateAuctioneer
<1>4. ASSUME NEW from \in Accounts, NEW to \in Accounts, SendToken(from, to)
      PROVE  PrintingInv'
  <2>1. /\ ledger'.live = ledger.live /\ ledger'.open = ledger.open
        /\ ledger'.auctioneer = ledger.auctioneer
        /\ UNCHANGED <<listing, bid, network, answers>>
    BY <1>4 DEF SendToken, Inv, Sound, LedgersOf
  <2>2. QED
    BY <2>1 DEF PrintingInv, Truth
<1>5. QED
  BY <1>1, <1>2, <1>3, <1>4, CallPrinting, LandPrinting, ModelPrinting DEF Next

(* As long as every receipt is printed, orders are of one size and the     *)
(* house has no auctioneer, the receipts that are neither canceled nor     *)
(* purchased are those of the orders that are alive, however many there    *)
(* are and in whatever order transactions land.                            *)
THEOREM ReceiptsAreTrue ==
  ASSUME AlwaysPrinted, NoAuctioneer, SoldWhole PROVE Spec => []ReceiptsTellTheTruth
<1>1. Init => PrintingInv
  BY DEF Init, PrintingInv, Truth
<1>2. Inv /\ PrintingInv /\ [Next]_vars => PrintingInv'
  BY NextPrinting
<1>3. PrintingInv => ReceiptsTellTheTruth
  BY DEF PrintingInv, Truth, Receipt, ReceiptsTellTheTruth
<1>4. QED
  BY <1>1, <1>2, <1>3, Invariant, PTL DEF Spec

-----------------------------------------------------------------------------
(* Tokens and SOL are moved, never made: what the accounts hold adds up to *)
(* the supply, and what the wallets and the escrows hold to the funds.     *)

Dealt(sol, escrow) ==
  \E s, e \in Nat : AddsUp(sol, s) /\ AddsUp(escrow, e) /\ s + e = Funds

Balanced(l) ==
  /\ l \in LedgersOf(Nat, Nat)
  /\ AddsUp(l.tokens, Supply)
  /\ Dealt(l.sol, l.escrow)
  /\ \A a \in Accounts : l.delegated[a] <= Supply

LEMMA BalancedType == ASSUME NEW l, Balanced(l) PROVE l \in Ledgers
<1>1. /\ l.tokens \in [Accounts -> Nat] /\ l.delegated \in [Accounts -> Nat]
      /\ l.sol \in [Wallets -> Nat] /\ l.escrow \in [Wallets -> Nat]
  BY DEF Balanced, LedgersOf
<1>2. ASSUME NEW a \in Accounts
      PROVE  l.tokens[a] \in 0 .. Supply /\ l.delegated[a] \in 0 .. Supply
  <2>1. l.tokens[a] \in Nat /\ l.delegated[a] \in Nat
    BY <1>1
  <2>2. l.tokens[a] <= Supply
    BY <1>1, TermsAssumption, SumBounds DEF Balanced
  <2>3. QED
    BY <2>1, <2>2, TermsAssumption DEF Balanced
<1>3. ASSUME NEW w \in Wallets
      PROVE  l.sol[w] \in 0 .. Funds /\ l.escrow[w] \in 0 .. Funds
  <2>1. PICK s, e \in Nat : AddsUp(l.sol, s) /\ AddsUp(l.escrow, e) /\ s + e = Funds
    BY DEF Balanced, Dealt
  <2>2. l.sol[w] \in Nat /\ l.escrow[w] \in Nat /\ l.sol[w] <= s /\ l.escrow[w] <= e
    BY <1>1, <2>1, SumBounds
  <2>3. QED
    BY <2>1, <2>2, TermsAssumption
<1>4. /\ l.tokens \in [Accounts -> 0 .. Supply] /\ l.delegated \in [Accounts -> 0 .. Supply]
      /\ l.sol \in [Wallets -> 0 .. Funds] /\ l.escrow \in [Wallets -> 0 .. Funds]
  BY <1>1, <1>2, <1>3
<1>5. QED
  BY <1>4 DEF Balanced, LedgersOf, Ledgers

(* What leaves one wallet, or one escrow, arrives in the other.            *)
LEMMA DealtMoves ==
  ASSUME NEW sol \in [Wallets -> Nat], NEW escrow \in [Wallets -> Nat], Dealt(sol, escrow),
         NEW from \in Wallets, NEW to \in Wallets, NEW n \in Nat
  PROVE  /\ n <= sol[from] =>
              LET s == [sol EXCEPT ![from] = @ - n]
                  e == [escrow EXCEPT ![to] = @ + n]
              IN  s \in [Wallets -> Nat] /\ e \in [Wallets -> Nat] /\ Dealt(s, e)
         /\ n <= escrow[from] =>
              LET s == [sol EXCEPT ![to] = @ + n]
                  e == [escrow EXCEPT ![from] = @ - n]
              IN  s \in [Wallets -> Nat] /\ e \in [Wallets -> Nat] /\ Dealt(s, e)
<1>1. PICK s, e \in Nat : AddsUp(sol, s) /\ AddsUp(escrow, e) /\ s + e = Funds
  BY DEF Dealt
<1>2. sol[from] \in Nat /\ escrow[from] \in Nat /\ sol[to] \in Nat /\ escrow[to] \in Nat
  OBVIOUS
<1>3. ASSUME n <= sol[from]
      PROVE  LET x == [sol EXCEPT ![from] = @ - n]
                 y == [escrow EXCEPT ![to] = @ + n]
             IN  x \in [Wallets -> Nat] /\ y \in [Wallets -> Nat] /\ Dealt(x, y)
  <2> DEFINE x == [sol EXCEPT ![from] = @ - n]
             y == [escrow EXCEPT ![to] = @ + n]
  <2>1. x \in [Wallets -> Nat] /\ y \in [Wallets -> Nat]
    BY <1>2, <1>3
  <2>2. AddsUp(x, s - n) /\ AddsUp(y, e + n)
    BY <1>1, <1>3, SumShrinks, SumGrows
  <2>3. s - n \in Nat /\ e + n \in Nat /\ (s - n) + (e + n) = Funds
    <3>1. sol[from] <= s
      BY <1>1, SumBounds
    <3>2. QED
      BY <1>1, <1>2, <1>3, <3>1
  <2> HIDE DEF x, y
  <2>4. Dealt(x, y)
    BY <2>2, <2>3 DEF Dealt
  <2>5. QED
    BY <2>1, <2>4 DEF x, y
<1>4. ASSUME n <= escrow[from]
      PROVE  LET x == [sol EXCEPT ![to] = @ + n]
                 y == [escrow EXCEPT ![from] = @ - n]
             IN  x \in [Wallets -> Nat] /\ y \in [Wallets -> Nat] /\ Dealt(x, y)
  <2> DEFINE x == [sol EXCEPT ![to] = @ + n]
             y == [escrow EXCEPT ![from] = @ - n]
  <2>1. x \in [Wallets -> Nat] /\ y \in [Wallets -> Nat]
    BY <1>2, <1>4
  <2>2. AddsUp(x, s + n) /\ AddsUp(y, e - n)
    BY <1>1, <1>4, SumShrinks, SumGrows
  <2>3. s + n \in Nat /\ e - n \in Nat /\ (s + n) + (e - n) = Funds
    <3>1. escrow[from] <= e
      BY <1>1, SumBounds
    <3>2. QED
      BY <1>1, <1>2, <1>4, <3>1
  <2> HIDE DEF x, y
  <2>4. Dealt(x, y)
    BY <2>2, <2>3 DEF Dealt
  <2>5. QED
    BY <2>1, <2>4 DEF x, y
<1>5. QED
  BY <1>3, <1>4

LEMMA TokensMove ==
  ASSUME NEW t \in [Accounts -> Nat], AddsUp(t, Supply), NEW from \in Accounts,
         NEW to \in Accounts, NEW n \in Nat, n <= t[from]
  PROVE  Moved(t, from, to, n) \in [Accounts -> Nat] /\ AddsUp(Moved(t, from, to, n), Supply)
<1> DEFINE m == Moved(t, from, to, n)
<1>1. m \in [Accounts -> Nat]
  BY MovedType
<1>2. \A x \in Accounts : m[x] = t[x] + (IF x = to THEN n ELSE 0) - (IF x = from THEN n ELSE 0)
  <2> DEFINE u == [t EXCEPT ![from] = @ - n]
  <2>1. u \in [Accounts -> Int]
    OBVIOUS
  <2>2. \A x \in Accounts : u[x] = t[x] - (IF x = from THEN n ELSE 0)
    OBVIOUS
  <2>3. m = [u EXCEPT ![to] = @ + n]
    BY DEF Moved
  <2> HIDE DEF u, m
  <2>4. \A x \in Accounts : m[x] = u[x] + (IF x = to THEN n ELSE 0)
    BY <2>1, <2>3
  <2>5. QED
    BY <2>1, <2>2, <2>4
<1>3. Moves(Accounts, t, m, from, to, n)
  <2>1. m \in [Accounts -> Int]
    BY <1>1
  <2> HIDE DEF m
  <2>2. QED
    BY <1>2, <2>1 DEF Moves
<1> HIDE DEF m
<1>4. m \in [Accounts -> Nat] /\ AddsUp(m, Supply)
  BY <1>3, TermsAssumption, SumMoves
<1>5. QED
  BY <1>4 DEF m

-----------------------------------------------------------------------------
(* What is known of an instruction of a builder.                           *)
Known(i) ==
  \/ i.type = "sell" /\ i.order \in ListingOrders
  \/ i.type = "createToken" /\ i.account \in Accounts
  \/ i.type = "buy" /\ i.order \in BidOrders
  \/ i.type = "printReceipt" /\ i.receipt \in Receipts
  \/ i.type = "cancel" /\ i.account \in Accounts
  \/ i.type \in {"executeSale", "executePartialSale"}
       /\ i.listing \in ListingOrders /\ i.bid \in BidOrders
  \/ i.type \in {"cancelReceipt", "printPurchaseReceipt"}
  \/ i.type \in {"deposit", "withdraw"} /\ i.wallet \in Wallets /\ i.amount \in Nat

(* Nothing of what adds up is touched.                                     *)
LEMMA BalancedSame ==
  ASSUME NEW l, Balanced(l), NEW i, Known(i), Execute(l, i) # Refused,
         i.type \in {"createToken", "printReceipt", "cancelReceipt", "printPurchaseReceipt"}
  PROVE  Balanced(Execute(l, i))
<1>1. l \in LedgersOf(Nat, Nat)
  BY DEF Balanced
<1> DEFINE k == Execute(l, i)
<1>2. ASSUME k \in LedgersOf(Nat, Nat), k.tokens = l.tokens, k.delegated = l.delegated,
             k.sol = l.sol, k.escrow = l.escrow
      PROVE  Balanced(k)
  BY <1>2 DEF Balanced
<1>3. /\ l.exists \in [Accounts -> BOOLEAN] /\ l.open \in SUBSET Receipts
      /\ l.canceled \in SUBSET Receipts /\ l.bought \in SUBSET Receipts
  BY <1>1 DEF LedgersOf
<1>4. CASE i.type = "createToken"
  <2> DEFINE e == [l.exists EXCEPT ![i.account] = TRUE]
  <2>1. k = [l EXCEPT !.exists = e]
    BY <1>4 DEF Execute, CreateToken
  <2>2. e \in [Accounts -> BOOLEAN]
    BY <1>3
  <2> HIDE DEF e
  <2>3. k = [l EXCEPT !.exists = e, !.open = l.open, !.canceled = l.canceled,
                      !.bought = l.bought]
    BY <1>1, <2>1 DEF LedgersOf
  <2> HIDE DEF k
  <2>4. /\ k \in LedgersOf(Nat, Nat) /\ k.tokens = l.tokens /\ k.delegated = l.delegated
        /\ k.sol = l.sol /\ k.escrow = l.escrow
    BY <1>1, <1>3, <2>2, <2>3 DEF LedgersOf
  <2>5. QED
    BY <1>2, <2>4 DEF k
<1>5. CASE i.type = "printReceipt"
  <2> DEFINE o == l.open \cup {i.receipt}
             c == l.canceled \ {i.receipt}
             b == l.bought \ {i.receipt}
  <2>1. k = [l EXCEPT !.open = o, !.canceled = c, !.bought = b] /\ i.receipt \in Receipts
    BY <1>5 DEF Execute, PrintReceipt, Known
  <2>2. o \in SUBSET Receipts /\ c \in SUBSET Receipts /\ b \in SUBSET Receipts
    BY <1>3, <2>1
  <2> HIDE DEF o, c, b
  <2>3. k = [l EXCEPT !.exists = l.exists, !.open = o, !.canceled = c, !.bought = b]
    BY <1>1, <2>1 DEF LedgersOf
  <2> HIDE DEF k
  <2>4. /\ k \in LedgersOf(Nat, Nat) /\ k.tokens = l.tokens /\ k.delegated = l.delegated
        /\ k.sol = l.sol /\ k.escrow = l.escrow
    BY <1>1, <1>3, <2>2, <2>3 DEF LedgersOf
  <2>5. QED
    BY <1>2, <2>4 DEF k
<1>6. CASE i.type = "cancelReceipt"
  <2> DEFINE o == l.open \ {i.receipt}
             c == l.canceled \cup {i.receipt}
  <2>1. /\ k = [l EXCEPT !.canceled = c, !.open = o]
        /\ i.receipt \in l.open \cup l.canceled \cup l.bought
    BY <1>6 DEF Execute, CancelReceipt
  <2>2. o \in SUBSET Receipts /\ c \in SUBSET Receipts
    BY <1>3, <2>1
  <2> HIDE DEF o, c
  <2>3. k = [l EXCEPT !.exists = l.exists, !.open = o, !.canceled = c, !.bought = l.bought]
    BY <1>1, <2>1 DEF LedgersOf
  <2> HIDE DEF k
  <2>4. /\ k \in LedgersOf(Nat, Nat) /\ k.tokens = l.tokens /\ k.delegated = l.delegated
        /\ k.sol = l.sol /\ k.escrow = l.escrow
    BY <1>1, <1>3, <2>2, <2>3 DEF LedgersOf
  <2>5. QED
    BY <1>2, <2>4 DEF k
<1>7. CASE i.type = "printPurchaseReceipt"
  <2> DEFINE o == l.open \ {i.listing, i.bid}
             b == l.bought \cup {i.listing, i.bid}
  <2>1. /\ k = [l EXCEPT !.open = o, !.bought = b]
        /\ {i.listing, i.bid} \subseteq l.open \cup l.canceled \cup l.bought
    BY <1>7 DEF Execute, PrintPurchaseReceipt
  <2>2. o \in SUBSET Receipts /\ b \in SUBSET Receipts
    BY <1>3, <2>1
  <2> HIDE DEF o, b
  <2>3. k = [l EXCEPT !.exists = l.exists, !.open = o, !.canceled = l.canceled, !.bought = b]
    BY <1>1, <2>1 DEF LedgersOf
  <2> HIDE DEF k
  <2>4. /\ k \in LedgersOf(Nat, Nat) /\ k.tokens = l.tokens /\ k.delegated = l.delegated
        /\ k.sol = l.sol /\ k.escrow = l.escrow
    BY <1>1, <1>3, <2>2, <2>3 DEF LedgersOf
  <2>5. QED
    BY <1>2, <2>4 DEF k
<1>8. QED
  BY <1>4, <1>5, <1>6, <1>7

(* Tokens are delegated, or no longer.                                     *)
LEMMA BalancedOrders ==
  ASSUME NEW l, Balanced(l), NEW i, Known(i), Execute(l, i) # Refused,
         i.type \in {"sell", "cancel"}
  PROVE  Balanced(Execute(l, i))
<1>1. /\ l \in LedgersOf(Nat, Nat) /\ l.tokens \in [Accounts -> Nat]
      /\ l.delegated \in [Accounts -> Nat] /\ l.live \in SUBSET Orders
  BY DEF Balanced, LedgersOf
<1> DEFINE k == Execute(l, i)
<1>2. ASSUME NEW a \in Accounts, NEW n \in Nat, n <= Supply, NEW live \in SUBSET Orders,
             k = [l EXCEPT !.live = live, !.delegated = [l.delegated EXCEPT ![a] = n]]
      PROVE  Balanced(k)
  <2> DEFINE d == [l.delegated EXCEPT ![a] = n]
  <2>1. d \in [Accounts -> Nat] /\ \A x \in Accounts : d[x] <= Supply
    BY <1>1, <1>2 DEF Balanced
  <2>2. k = [l EXCEPT !.live = live, !.delegated = d]
    BY <1>2
  <2> HIDE DEF d
  <2>3. /\ k \in LedgersOf(Nat, Nat) /\ k.tokens = l.tokens /\ k.delegated = d
        /\ k.sol = l.sol /\ k.escrow = l.escrow
    BY <1>1, <2>1, <2>2 DEF LedgersOf
  <2> HIDE DEF k
  <2>4. QED
    BY <2>1, <2>3 DEF Balanced
<1>3. CASE i.type = "sell"
  <2> DEFINE o == i.order
  <2>1. o \in ListingOrders
    BY <1>3 DEF Known
  <2>2. o \in Orders /\ o.account \in Accounts /\ o.size \in Nat
    BY <2>1, OrderTypes, ListingTypes DEF ListingOrders
  <2>3. /\ o.size <= l.tokens[o.account]
        /\ k = [l EXCEPT !.live = l.live \cup {o},
                         !.delegated = [l.delegated EXCEPT ![o.account] = o.size]]
    BY <1>3 DEF Execute, Sell
  <2>4. l.tokens[o.account] \in Nat /\ l.tokens[o.account] <= Supply
    BY <1>1, <2>2, TermsAssumption, SumBounds DEF Balanced
  <2> HIDE DEF o
  <2>5. o.size <= Supply
    BY <2>2, <2>3, <2>4, TermsAssumption
  <2>6. l.live \cup {o} \in SUBSET Orders
    BY <1>1, <2>2
  <2>7. QED
    BY <1>2, <2>2, <2>3, <2>5, <2>6
<1>4. CASE i.type = "cancel"
  <2> DEFINE n == IF Owner[i.account] = i.wallet /\ i.signer = i.wallet THEN 0
                  ELSE l.delegated[i.account]
  <2>1. i.account \in Accounts
    BY <1>4 DEF Known
  <2>2. k = [l EXCEPT !.live = l.live \ {i.order},
                      !.delegated = [l.delegated EXCEPT ![i.account] = n]]
    BY <1>4 DEF Execute, Cancel
  <2>3. n \in Nat /\ n <= Supply
    BY <1>1, <2>1, TermsAssumption DEF Balanced
  <2> HIDE DEF n
  <2>4. l.live \ {i.order} \in SUBSET Orders
    BY <1>1
  <2>5. QED
    BY <1>2, <2>1, <2>2, <2>3, <2>4
<1>5. QED
  BY <1>3, <1>4

(* SOL changes sides.                                                      *)
LEMMA BalancedFunds ==
  ASSUME NEW l, Balanced(l), NEW i, Known(i), Execute(l, i) # Refused,
         i.type \in {"buy", "deposit", "withdraw"}
  PROVE  Balanced(Execute(l, i))
<1>1. /\ l \in LedgersOf(Nat, Nat) /\ l.live \in SUBSET Orders
      /\ l.sol \in [Wallets -> Nat] /\ l.escrow \in [Wallets -> Nat]
      /\ Dealt(l.sol, l.escrow)
  BY DEF Balanced, LedgersOf
<1> DEFINE k == Execute(l, i)
<1>2. ASSUME NEW s \in [Wallets -> Nat], NEW e \in [Wallets -> Nat], Dealt(s, e),
             NEW live \in SUBSET Orders, k = [l EXCEPT !.live = live, !.escrow = e, !.sol = s]
      PROVE  Balanced(k)
  <2>1. /\ k \in LedgersOf(Nat, Nat) /\ k.tokens = l.tokens /\ k.delegated = l.delegated
        /\ k.sol = s /\ k.escrow = e
    BY <1>1, <1>2 DEF LedgersOf
  <2> HIDE DEF k
  <2>2. QED
    BY <1>2, <2>1 DEF Balanced
<1>3. ASSUME NEW w \in Wallets, NEW n \in Nat, n <= l.sol[w], NEW live \in SUBSET Orders,
             k = [l EXCEPT !.live = live, !.escrow = [l.escrow EXCEPT ![w] = @ + n],
                           !.sol = [l.sol EXCEPT ![w] = @ - n]]
      PROVE  Balanced(k)
  <2> DEFINE s == [l.sol EXCEPT ![w] = @ - n]
             e == [l.escrow EXCEPT ![w] = @ + n]
  <2>1. s \in [Wallets -> Nat] /\ e \in [Wallets -> Nat] /\ Dealt(s, e)
    BY <1>1, <1>3, DealtMoves
  <2>2. k = [l EXCEPT !.live = live, !.escrow = e, !.sol = s]
    BY <1>3
  <2> HIDE DEF s, e
  <2>3. QED
    BY <1>2, <2>1, <2>2
<1>4. ASSUME NEW w \in Wallets, NEW n \in Nat, n <= l.escrow[w],
             k = [l EXCEPT !.live = l.live, !.escrow = [l.escrow EXCEPT ![w] = @ - n],
                           !.sol = [l.sol EXCEPT ![w] = @ + n]]
      PROVE  Balanced(k)
  <2> DEFINE s == [l.sol EXCEPT ![w] = @ + n]
             e == [l.escrow EXCEPT ![w] = @ - n]
  <2>1. s \in [Wallets -> Nat] /\ e \in [Wallets -> Nat] /\ Dealt(s, e)
    BY <1>1, <1>4, DealtMoves
  <2>2. k = [l EXCEPT !.live = l.live, !.escrow = e, !.sol = s]
    BY <1>4
  <2> HIDE DEF s, e
  <2>3. QED
    BY <1>1, <1>2, <2>1, <2>2
<1>5. CASE i.type = "buy"
  <2> DEFINE o == i.order
             n == TopUp(l, o)
             w == o.wallet
             live == l.live \cup {o}
  <2>1. o \in BidOrders /\ o \in Orders /\ w \in Wallets /\ o.price \in Nat
    BY <1>5, OrderTypes, BidTypes DEF Known, BidOrders
  <2>2. l.escrow[w] \in Nat
    BY <1>1, <2>1
  <2>3. n \in Nat
    BY <2>1, <2>2 DEF TopUp
  <2>4. /\ n <= l.sol[w]
        /\ k = [l EXCEPT !.live = live, !.escrow = [l.escrow EXCEPT ![w] = @ + n],
                         !.sol = [l.sol EXCEPT ![w] = @ - n]]
    BY <1>5 DEF Execute, Buy, TopUp
  <2>5. live \in SUBSET Orders
    BY <1>1, <2>1
  <2> HIDE DEF o, n, w, live
  <2>6. QED
    BY <1>3, <2>1, <2>3, <2>4, <2>5
<1>6. CASE i.type = "deposit"
  <2> DEFINE n == i.amount
             w == i.wallet
  <2>1. w \in Wallets /\ n \in Nat
    BY <1>6 DEF Known
  <2>2. /\ n <= l.sol[w]
        /\ k = [l EXCEPT !.escrow = [l.escrow EXCEPT ![w] = @ + n],
                         !.sol = [l.sol EXCEPT ![w] = @ - n]]
    BY <1>6 DEF Execute, Deposit
  <2> HIDE DEF n, w
  <2>3. k = [l EXCEPT !.live = l.live, !.escrow = [l.escrow EXCEPT ![w] = @ + n],
                      !.sol = [l.sol EXCEPT ![w] = @ - n]]
    BY <1>1, <2>2 DEF LedgersOf
  <2>4. QED
    BY <1>1, <1>3, <2>1, <2>2, <2>3
<1>7. CASE i.type = "withdraw"
  <2> DEFINE n == i.amount
             w == i.wallet
  <2>1. w \in Wallets /\ n \in Nat
    BY <1>7 DEF Known
  <2>2. /\ n <= l.escrow[w]
        /\ k = [l EXCEPT !.escrow = [l.escrow EXCEPT ![w] = @ - n],
                         !.sol = [l.sol EXCEPT ![w] = @ + n]]
    BY <1>7 DEF Execute, Withdraw
  <2> HIDE DEF n, w
  <2>3. k = [l EXCEPT !.live = l.live, !.escrow = [l.escrow EXCEPT ![w] = @ - n],
                      !.sol = [l.sol EXCEPT ![w] = @ + n]]
    BY <1>1, <2>2 DEF LedgersOf
  <2>4. QED
    BY <1>4, <2>1, <2>2, <2>3
<1>8. QED
  BY <1>5, <1>6, <1>7

(* A sale moves the tokens and the price, whatever its terms.              *)
LEMMA BalancedDelivery ==
  ASSUME NEW l, Balanced(l), NEW i, i.listing \in ListingOrders, i.bid \in BidOrders,
         i.account \in Accounts, NEW price \in Nat, NEW size \in Nat,
         NEW whole \in BOOLEAN, NEW k, k = Deliver(l, i, price, size, whole), k # Refused
  PROVE  Balanced(k)
<1> DEFINE from   == i.account
           buyer  == i.bid.wallet
           seller == i.listing.wallet
           to     == Ata[buyer]
           left   == l.delegated[from] - size
           e      == [l.exists EXCEPT ![to] = TRUE]
           t      == Moved(l.tokens, from, to, size)
           d      == [l.delegated EXCEPT ![from] = left]
           c      == [l.escrow EXCEPT ![buyer] = @ - price]
           s      == [l.sol EXCEPT ![seller] = @ + price]
           live   == l.live \ IF whole \/ left = 0 THEN {i.listing, i.bid} ELSE {i.bid}
<1>1. /\ l \in LedgersOf(Nat, Nat) /\ from \in Accounts
      /\ buyer \in Wallets /\ seller \in Wallets
  BY OrderTypes DEF Balanced, ListingOrders, BidOrders
<1>2. to \in Accounts
  BY <1>1, AccountsAssumption
<1>3. /\ l.tokens \in [Accounts -> Nat] /\ l.delegated \in [Accounts -> Nat]
      /\ l.escrow \in [Wallets -> Nat] /\ l.sol \in [Wallets -> Nat]
      /\ l.exists \in [Accounts -> BOOLEAN] /\ l.live \in SUBSET Orders
  BY <1>1 DEF LedgersOf
<1>4. /\ size <= l.tokens[from] /\ left >= 0 /\ price <= l.escrow[buyer]
      /\ k = [l EXCEPT !.exists = e, !.tokens = t, !.delegated = d, !.escrow = c,
                       !.sol = s, !.live = live]
  BY DEF Deliver
<1>5. t \in [Accounts -> Nat] /\ AddsUp(t, Supply)
  BY <1>1, <1>2, <1>3, <1>4, TokensMove DEF Balanced
<1>6. s \in [Wallets -> Nat] /\ c \in [Wallets -> Nat] /\ Dealt(s, c)
  BY <1>1, <1>3, <1>4, DealtMoves DEF Balanced
<1>7. d \in [Accounts -> Nat] /\ \A a \in Accounts : d[a] <= Supply
  <2>1. l.delegated[from] \in Nat /\ l.delegated[from] <= Supply
    BY <1>1, <1>3 DEF Balanced
  <2>2. left \in Nat /\ left <= Supply
    BY <1>4, <2>1, TermsAssumption
  <2> HIDE DEF left
  <2>3. QED
    BY <1>1, <1>3, <2>2 DEF Balanced
<1>8. e \in [Accounts -> BOOLEAN] /\ live \in SUBSET Orders
  BY <1>3
<1> HIDE DEF e, t, d, c, s, live
<1>9. /\ k \in LedgersOf(Nat, Nat) /\ k.tokens = t /\ k.delegated = d
      /\ k.sol = s /\ k.escrow = c
  BY <1>1, <1>4, <1>5, <1>6, <1>7, <1>8 DEF LedgersOf
<1>10. QED
  BY <1>5, <1>6, <1>7, <1>9 DEF Balanced

LEMMA BalancedSale ==
  ASSUME NEW l, Balanced(l), NEW i, Known(i), Execute(l, i) # Refused,
         i.type \in {"executeSale", "executePartialSale"}
  PROVE  Balanced(Execute(l, i))
<1>1. i.listing \in ListingOrders /\ i.bid \in BidOrders
  BY DEF Known
<1>2. /\ i.listing.account \in Accounts /\ i.bid.price \in Nat /\ i.bid.size \in Nat
  BY <1>1, ListingTypes, BidTypes, OrderTypes DEF BidOrders
<1>3. /\ \A o, w, a, p, n : o = Order(w, a, p, n) => o.account = a
      /\ \A o, w, a, p, n : Names(o, w, a, p, n) => o.price = p /\ o.size = n
  BY DEF Order, Names
<1>4. CASE i.type = "executeSale"
  <2>1. Execute(l, i) = ExecuteSale(l, i)
    BY <1>4 DEF Execute
  <2>2. /\ \E p : i.listing = Order(i.listing.wallet, i.account, p, i.size)
        /\ Names(i.bid, i.bid.wallet, i.account, i.price, i.size)
        /\ Execute(l, i) = Deliver(l, i, i.price, i.size, TRUE)
    BY <2>1 DEF ExecuteSale
  <2>3. i.listing.account = i.account /\ i.bid.price = i.price /\ i.bid.size = i.size
    BY <1>3, <2>2
  <2>4. QED
    BY <1>1, <1>2, <2>2, <2>3, BalancedDelivery
<1>5. CASE i.type = "executePartialSale"
  <2>1. Execute(l, i) = ExecutePartialSale(l, i)
    BY <1>5 DEF Execute
  <2>2. /\ i.listing = Order(i.listing.wallet, i.account, i.price, i.size)
        /\ Names(i.bid, i.bid.wallet, i.account, i.partialPrice, i.partialSize)
        /\ Execute(l, i) = Deliver(l, i, i.partialPrice, i.partialSize, FALSE)
    BY <2>1 DEF ExecutePartialSale
  <2>3. /\ i.listing.account = i.account
        /\ i.bid.price = i.partialPrice /\ i.bid.size = i.partialSize
    BY <1>3, <2>2
  <2>4. QED
    BY <1>1, <1>2, <2>2, <2>3, BalancedDelivery
<1>6. QED
  BY <1>4, <1>5

LEMMA BalancedRun ==
  ASSUME NEW l, l = Refused \/ Balanced(l), NEW i, Known(i)
  PROVE  Run(l, i) = Refused \/ Balanced(Run(l, i))
<1>1. ASSUME Balanced(l), Execute(l, i) # Refused PROVE Balanced(Execute(l, i))
  BY <1>1, BalancedSame, BalancedOrders, BalancedFunds, BalancedSale DEF Known
<1>2. QED
  BY <1>1 DEF Run

LEMMA BalancedRunIf ==
  ASSUME NEW l, l = Refused \/ Balanced(l), NEW i, NEW c \in BOOLEAN, c => Known(i)
  PROVE  RunIf(l, c, i) = Refused \/ Balanced(RunIf(l, c, i))
BY BalancedRun DEF RunIf

(* The transactions of the builders, and how long they are.                *)
LEMMA BalancedTwo ==
  ASSUME NEW l, Balanced(l), NEW i, Known(i), NEW c \in BOOLEAN, NEW j, c => Known(j),
         NEW s, s = <<i>> \o When(c, <<j>>)
  PROVE  /\ After(l, s) = Refused \/ Balanced(After(l, s))
         /\ Len(s) \in 1 .. MaxInstructions
<1>1. Run(l, i) = Refused \/ Balanced(Run(l, i))
  BY BalancedRun
<1>2. RunIf(Run(l, i), c, j) = Refused \/ Balanced(RunIf(Run(l, i), c, j))
  BY <1>1, BalancedRunIf
<1>3. Len(s) \in 1 .. MaxInstructions
  <2>1. CASE c
    BY <2>1 DEF When, MaxInstructions
  <2>2. CASE ~c
    BY <2>2 DEF When, MaxInstructions
  <2>3. QED
    BY <2>1, <2>2
<1>4. QED
  BY <1>2, <1>3, AfterTwo

LEMMA BalancedThree ==
  ASSUME NEW l, Balanced(l), NEW b \in BOOLEAN, NEW h, b => Known(h), NEW i, Known(i),
         NEW c \in BOOLEAN, NEW j, c => Known(j),
         NEW s, s = When(b, <<h>>) \o <<i>> \o When(c, <<j>>)
  PROVE  /\ After(l, s) = Refused \/ Balanced(After(l, s))
         /\ Len(s) \in 1 .. MaxInstructions
<1>1. RunIf(l, b, h) = Refused \/ Balanced(RunIf(l, b, h))
  BY BalancedRunIf
<1> DEFINE m == RunIf(l, b, h)
<1> HIDE DEF m
<1>2. Run(m, i) = Refused \/ Balanced(Run(m, i))
  BY <1>1, BalancedRun DEF m
<1>3. RunIf(Run(m, i), c, j) = Refused \/ Balanced(RunIf(Run(m, i), c, j))
  BY <1>2, BalancedRunIf
<1>4. Len(s) \in 1 .. MaxInstructions
  <2>1. CASE b
    <3>1. CASE c
      BY <2>1, <3>1 DEF When, MaxInstructions
    <3>2. CASE ~c
      BY <2>1, <3>2 DEF When, MaxInstructions
    <3>3. QED
      BY <3>1, <3>2
  <2>2. CASE ~b
    <3>1. CASE c
      BY <2>2, <3>1 DEF When, MaxInstructions
    <3>2. CASE ~c
      BY <2>2, <3>2 DEF When, MaxInstructions
    <3>3. QED
      BY <3>1, <3>2
  <2>3. QED
    BY <2>1, <2>2
<1>5. QED
  BY <1>3, <1>4, AfterThree DEF m

LEMMA TransactionBalanced ==
  ASSUME NEW l, Balanced(l), NEW t, Built(t), NEW s, s = t.instructions
  PROVE  /\ After(l, s) = Refused \/ Balanced(After(l, s))
         /\ Len(s) \in 1 .. MaxInstructions
<1> DEFINE v == t.house
           o == t.base.order
           c == t.base.receipt
           Fine == /\ After(l, s) = Refused \/ Balanced(After(l, s))
                   /\ Len(s) \in 1 .. MaxInstructions
<1> SUFFICES Fine
  BY DEF Fine
<1> HIDE DEF Fine
<1>1. ASSUME NEW i, Known(i), NEW b \in BOOLEAN, NEW j, b => Known(j),
             s = <<i>> \o When(b, <<j>>)
      PROVE  Fine
  BY <1>1, BalancedTwo DEF Fine
<1>2. CASE t.op = "list" /\ BuiltList(t)
  <2> DEFINE i == TheSell(o, v)
             j == ThePrint(Listing(o))
  <2>1. /\ o \in ListingOrders /\ c \in BOOLEAN /\ s = ListTransaction(o, v, c)
    BY <1>2 DEF BuiltList
  <2>2. s = <<i>> \o When(c, <<j>>)
    BY <2>1 DEF ListTransaction
  <2>3. Known(i) /\ Known(j)
    BY <2>1, ReceiptTypes DEF Known, TheSell, ThePrint, Printable
  <2> HIDE DEF i, j, c
  <2>4. QED
    BY <1>1, <2>1, <2>2, <2>3
<1>3. CASE t.op = "bid" /\ BuiltBid(t)
  <2> DEFINE b == o.account = Anywhere /\ ~t.base.existed
             h == TheToken(Used(o))
             i == TheBuy(o, Used(o), v)
             j == ThePrint(Bid(o))
  <2>1. /\ o \in BidOrders /\ c \in BOOLEAN /\ b \in BOOLEAN
        /\ s = BidTransaction(o, v, c, b)
    BY <1>3 DEF BuiltBid
  <2>2. s = When(b, <<h>>) \o <<i>> \o When(c, <<j>>)
    BY <2>1 DEF BidTransaction
  <2>3. Used(o) \in Accounts
    BY <2>1, OrderTypes DEF BidOrders
  <2>4. Known(h) /\ Known(i) /\ Known(j)
    BY <2>1, <2>3, ReceiptTypes DEF Known, TheToken, TheBuy, ThePrint, Printable
  <2> HIDE DEF h, i, j, c, b
  <2>5. QED
    BY <2>1, <2>2, <2>4, BalancedThree DEF Fine
<1>4. CASE t.op = "cancel" /\ BuiltCancel(t)
  <2>1. PICK signer \in Wallets :
          IF t.base.side = "listing"
          THEN /\ t.base.model \in ListingModels
               /\ s = CancelListing(signer, t.base.model, v)
          ELSE /\ t.base.model \in BidModels
               /\ s = CancelBid(signer, t.base.model, v)
    BY <1>4 DEF BuiltCancel
  <2>2. v \in BOOLEAN
    BY DEF Built
  <2> HIDE DEF v
  <2>3. ASSUME NEW x, NEW a \in Accounts, NEW r, NEW d \in BOOLEAN, NEW price,
               s = CancelTransaction(signer, x, a, price, v, d, r)
        PROVE  Fine
    <3> DEFINE i == CancelOrder(signer, x, a, price, v)
               j == TheCancelReceipt(r)
    <3>1. s = <<i>> \o When(d, <<j>>)
      BY <2>3 DEF CancelTransaction
    <3>2. Known(i) /\ Known(j)
      BY DEF Known, CancelOrder, TheCancelReceipt
    <3> HIDE DEF i, j
    <3>3. QED
      BY <1>1, <3>1, <3>2
  <2> DEFINE m == t.base.model
  <2>4. CASE t.base.side = "listing"
    <3>1. m \in ListingModels /\ s = CancelListing(signer, m, v)
      BY <2>1, <2>4
    <3> HIDE DEF m
    <3>2. /\ s = CancelTransaction(signer, m.order, m.account, ListingPrice(m.order.price, v),
                                   v, m.receipt, Listing(m.order))
          /\ m.account \in Accounts /\ m.receipt \in BOOLEAN
      BY <2>2, <3>1, CancelShape
    <3>3. QED
      BY <2>3, <3>2
  <2>5. CASE t.base.side # "listing"
    <3>1. m \in BidModels /\ s = CancelBid(signer, m, v)
      BY <2>1, <2>5
    <3> HIDE DEF m
    <3>2. /\ s = CancelTransaction(signer, m.order, Used(m.order), m.order.price,
                                   v, m.receipt, Bid(m.order))
          /\ Used(m.order) \in Accounts /\ m.receipt \in BOOLEAN
      BY <2>2, <3>1, CancelShape
    <3>3. QED
      BY <2>3, <3>2
  <2>6. QED
    BY <2>4, <2>5
<1>5. CASE t.op = "sale" /\ BuiltSale(t)
  <2> DEFINE m == t.base.listing
             b == t.base.bid
  <2>1. PICK signer \in Wallets, print \in PrintOptions :
          s = SaleInstructions(signer, m, b, print, v)
    BY <1>5 DEF BuiltSale
  <2> DEFINE i == SaleInstruction(signer, m, b, v)
             j == ThePurchase(m.order, b.order)
             d == PrintsPurchase(m, b, print)
  <2>2. m \in ListingModels /\ b \in BidModels /\ print \in BOOLEAN
    BY <1>5, CallersAssumption DEF BuiltSale
  <2>3. d \in BOOLEAN
    BY <2>2 DEF PrintsPurchase, ListingModels, BidModels, Models
  <2>4. s = <<i>> \o When(d, <<j>>)
    BY <2>1 DEF SaleInstructions, ThePurchase
  <2>5. Known(i) /\ Known(j)
    BY <2>2 DEF Known, SaleInstruction, ThePurchase, ListingModels, BidModels
  <2> HIDE DEF i, j, d
  <2>6. QED
    BY <1>1, <2>3, <2>4, <2>5
<1>6. CASE t.op \in {"deposit", "withdraw"} /\ BuiltMove(t)
  <2>1. PICK w \in Wallets, amount \in Nat : s = <<TheMove(t.op, w, amount, v)>>
    BY <1>6 DEF BuiltMove
  <2> DEFINE i == TheMove(t.op, w, amount, v)
  <2>2. Known(i)
    BY <1>6 DEF Known, TheMove
  <2> HIDE DEF i
  <2>3. s = <<i>> \o When(FALSE, <<i>>)
    BY <2>1 DEF When, i
  <2>4. QED
    BY <1>1, <2>2, <2>3
<1>7. QED
  BY <1>2, <1>3, <1>4, <1>5, <1>6 DEF Built

-----------------------------------------------------------------------------
(* The invariant of the amounts.                                           *)
AmountsInv ==
  /\ Balanced(ledger)
  /\ \A r \in answers : r.op \in {"list", "bid", "sale"}

LEMMA InitAmounts == Init => AmountsInv
<1> SUFFICES ASSUME Init PROVE AmountsInv
  OBVIOUS
<1>1. /\ Stock \in [Accounts -> Nat] /\ Purse \in [Wallets -> Nat]
      /\ AddsUp(Stock, Supply) /\ AddsUp(Purse, Funds)
  BY CallersAssumption, TermsAssumption
<1> DEFINE none == [w \in Wallets |-> 0]
<1>2. AddsUp(none, 0)
  BY SumOfNothing
<1>3. /\ ledger.tokens = Stock /\ ledger.sol = Purse /\ ledger.escrow = none
      /\ ledger.delegated = [a \in Accounts |-> 0] /\ answers = {}
      /\ ledger \in LedgersOf(Nat, Nat)
  BY <1>1 DEF Init, LedgersOf
<1>4. Funds \in Nat /\ 0 \in Nat /\ Funds + 0 = Funds
  BY TermsAssumption
<1> HIDE DEF none
<1>5. Dealt(Purse, none)
  BY <1>1, <1>2, <1>4 DEF Dealt
<1>6. \A a \in Accounts : ledger.delegated[a] <= Supply
  BY <1>3, TermsAssumption
<1>7. QED
  BY <1>1, <1>3, <1>5, <1>6 DEF AmountsInv, Balanced

\* A token that is sent arrives.
LEMMA SendTokenAmounts ==
  ASSUME AmountsInv, NEW from \in Accounts, NEW to \in Accounts, SendToken(from, to)
  PROVE  AmountsInv'
<1> DEFINE t == Moved(ledger.tokens, from, to, 1)
           e == [ledger.exists EXCEPT ![to] = TRUE]
<1>1. /\ ledger \in LedgersOf(Nat, Nat) /\ ledger.tokens \in [Accounts -> Nat]
      /\ e \in [Accounts -> BOOLEAN]
  BY DEF AmountsInv, Balanced, LedgersOf
<1>2. /\ ledger' = [ledger EXCEPT !.tokens = t, !.exists = e]
      /\ ledger.tokens[from] > 0 /\ answers' = answers
  BY DEF SendToken
<1>3. ledger.tokens[from] \in Nat /\ 1 \in Nat /\ 1 <= ledger.tokens[from]
  BY <1>1, <1>2
<1>4. t \in [Accounts -> Nat] /\ AddsUp(t, Supply)
  BY <1>1, <1>3, TokensMove DEF AmountsInv, Balanced
<1> HIDE DEF t, e
<1>5. /\ ledger' \in LedgersOf(Nat, Nat) /\ ledger'.tokens = t
      /\ ledger'.delegated = ledger.delegated
      /\ ledger'.sol = ledger.sol /\ ledger'.escrow = ledger.escrow
  BY <1>1, <1>2, <1>4 DEF LedgersOf
<1>6. QED
  BY <1>2, <1>4, <1>5 DEF AmountsInv, Balanced

LEMMA NextAmounts == ASSUME Inv, AmountsInv, [Next]_vars PROVE AmountsInv'
<1>1. ASSUME UNCHANGED ledger, answers' \subseteq answers PROVE AmountsInv'
  BY <1>1 DEF AmountsInv
<1>2. CASE UNCHANGED vars
  BY <1>1, <1>2 DEF vars
<1>3. ASSUME NEW print, NEW w, NEW a, NEW p, NEW n, CreateListingCall(w, a, p, n, print)
      PROVE  AmountsInv'
  BY <1>1, <1>3 DEF CreateListingCall
<1>4. ASSUME NEW print, NEW w, NEW a, NEW p, NEW n, CreateBidCall(w, a, p, n, print)
      PROVE  AmountsInv'
  BY <1>1, <1>4 DEF CreateBidCall
<1>5. ASSUME NEW w, \/ CancelListingCall(w) \/ CancelBidCall(w)
                    \/ \E print \in PrintOptions : ExecuteSaleCall(w, print)
      PROVE  AmountsInv'
  BY <1>1, <1>5 DEF CancelListingCall, CancelBidCall, ExecuteSaleCall
<1>6. ASSUME NEW type, NEW w, NEW n, MoveFundsCall(type, w, n) PROVE AmountsInv'
  BY <1>1, <1>6 DEF MoveFundsCall
<1>7. ASSUME NEW o, FindListing(o) \/ FindBid(o) PROVE AmountsInv'
  BY <1>1, <1>7 DEF FindListing, FindBid
<1>8. ASSUME NEW t, Expire(t) PROVE AmountsInv'
  BY <1>1, <1>8 DEF Expire
<1>9. ASSUME NEW t \in network, NEW heard \in BOOLEAN, Land(t, heard) PROVE AmountsInv'
  <2>1. Built(t) /\ Balanced(ledger)
    BY DEF Inv, AmountsInv
  <2>2. Outcome(t) = Refused \/ Balanced(Outcome(t))
    BY <2>1, TransactionBalanced DEF Outcome
  <2>3. Balanced(ledger')
    BY <1>9, <2>1, <2>2 DEF Land
  <2>4. \A r \in answers' : r.op \in {"list", "bid", "sale"}
    BY <1>9 DEF Land, AmountsInv
  <2>5. QED
    BY <2>3, <2>4 DEF AmountsInv
<1>10. ASSUME NEW r \in answers, AnswerList(r) \/ AnswerBid(r) \/ AnswerSale(r)
       PROVE  AmountsInv'
  BY <1>1, <1>10 DEF AnswerList, AnswerBid, AnswerSale
<1>11. CASE DelegateAuctioneer
  <2>1. ledger' = [ledger EXCEPT !.auctioneer = TRUE] /\ answers' = answers
    BY <1>11 DEF DelegateAuctioneer
  <2>2. ledger \in LedgersOf(Nat, Nat)
    BY DEF AmountsInv, Balanced
  <2>3. /\ ledger' \in LedgersOf(Nat, Nat) /\ ledger'.tokens = ledger.tokens
        /\ ledger'.delegated = ledger.delegated
        /\ ledger'.sol = ledger.sol /\ ledger'.escrow = ledger.escrow
    BY <2>1, <2>2 DEF LedgersOf
  <2>4. QED
    BY <2>1, <2>3 DEF AmountsInv, Balanced
<1>12. QED
  BY <1>2, <1>3, <1>4, <1>5, <1>6, <1>7, <1>8, <1>9, <1>10, <1>11, SendTokenAmounts DEF Next

(* The inductive invariant of the amounts.                                 *)
THEOREM AmountsInvariant == Spec => []AmountsInv
<1>1. Inv /\ AmountsInv /\ [Next]_vars => AmountsInv'
  BY NextAmounts
<1>2. QED
  BY <1>1, InitAmounts, Invariant, PTL DEF Spec

(* Tokens are only moved from account to account, and SOL between wallets  *)
(* and escrows: the accounts always hold the supply of the mint, wallets   *)
(* and escrows together what the wallets had at first.                     *)
NothingIsMade == AddsUp(ledger.tokens, Supply) /\ Dealt(ledger.sol, ledger.escrow)

(* So it is for any wallets, prices and transactions in flight.            *)
THEOREM NothingMade == Spec => []NothingIsMade
<1>1. AmountsInv => NothingIsMade
  BY DEF AmountsInv, Balanced, NothingIsMade
<1>2. QED
  BY <1>1, AmountsInvariant, PTL

(* The type of the state: no account ever holds, and no program may take,  *)
(* more than the supply, no wallet more than the funds, and no transaction *)
(* is longer than the model allows.                                        *)
THEOREM TypeCorrect == Spec => []TypeOK
<1>1. ASSUME Inv, AmountsInv PROVE TypeOK
  <2>1. ledger \in Ledgers
    BY <1>1, BalancedType DEF AmountsInv
  <2>2. listing \in Models \cup {NoModel} /\ bid \in Models \cup {NoModel}
    BY <1>1 DEF Inv, KnownListing, KnownBid, ListingModels, BidModels
  <2>3. \A t \in network : Len(t.instructions) \in 1 .. MaxInstructions
    BY <1>1, TransactionBalanced DEF Inv, AmountsInv
  <2>4. QED
    BY <1>1, <2>1, <2>2, <2>3 DEF TypeOK, AmountsInv
<1>2. QED
  BY <1>1, Invariant, AmountsInvariant, PTL
=============================================================================
