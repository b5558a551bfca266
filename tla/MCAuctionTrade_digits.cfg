SPECIFICATION Spec
CONSTANTS
  seller = seller  buyer = buyer
  sellerAta = sellerAta  buyerAta = buyerAta
  Anywhere = Anywhere  Refused = Refused  NoModel = NoModel
  Wallets = {seller, buyer}
  Authority = seller
  Owner <- AccountOwner
  Ata <- WalletAta
  Purse <- BuyerPurse
  Buyers = {buyer}
  AuctioneerPrice = 99
  Accounts = {sellerAta, buyerAta}
  Prices = {2, 10}
  Sizes = {2, 10}
  Supply = 10
  Funds = 2
  Stock <- AllOnAta
  Missing = {buyerAta}
  Sellers = {seller}
  ListTerms <- TenForTen
  BidTerms <- TwoForTwo
  Targets = {Anywhere}
  PrintOptions = {TRUE}
  Others = {}
  MaxInFlight = 1
CHECK_DEADLOCK FALSE
INVARIANTS
  LiveOrdersAreSold
