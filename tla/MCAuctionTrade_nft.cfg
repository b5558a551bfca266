SPECIFICATION Spec
CONSTANTS
  seller = seller  buyer = buyer
  sellerAta = sellerAta  buyerAta = buyerAta
  Anywhere = Anywhere  Refused = Refused  NoModel = NoModel
  Wallets = {seller, buyer}
  Authority = seller
  Owner <- AccountOwner
  Ata <- WalletAta
  Purse <- BuyerPurse
  Buyers = {buyer}
  AuctioneerPrice = 99
  Accounts = {sellerAta, buyerAta}
  Prices = {1}
  Sizes = {1}
  Supply = 1
  Funds = 1
  Stock <- AllOnAta
  Missing = {buyerAta}
  Sellers = {seller, buyer}
  ListTerms <- OneForOne
  BidTerms <- OneForOne
  Targets = {sellerAta, Anywhere}
  PrintOptions = {TRUE}
  Others = {}
  MaxInFlight = 2
CHECK_DEADLOCK FALSE
INVARIANTS
  ReceiptsTellTheTruth
  BidIsOnlyRefusedIfRaced
