SPECIFICATION Spec
CONSTANTS
  seller = seller  buyer = buyer
  sellerAta = sellerAta  buyerAta = buyerAta
  Anywhere = Anywhere  Refused = Refused  NoModel = NoModel
  Wallets = {seller, buyer}
  Authority = seller
  Owner <- AccountOwner
  Ata <- WalletAta
  Purse <- BuyerPurse
  Buyers = {buyer}
  AuctioneerPrice = 99
  Accounts = {sellerAta, buyerAta}
  Prices = {1, 2}
  Sizes = {1, 2}
  Supply = 2
  Funds = 2
  Stock <- AllOnAta
  Missing = {buyerAta}
  Sellers = {seller}
  ListTerms <- TwoForTwo
  BidTerms <- OneOrTwo
  Targets = {Anywhere}
  PrintOptions = {TRUE}
  Others = {"send", "delegate"}
  MaxInFlight = 1
CHECK_DEADLOCK FALSE
INVARIANTS
  TypeOK
  LiveOrdersAreSold
  LiveOrdersAreCanceled
