SPECIFICATION Spec
CONSTANTS
  k1 = k1  k2 = k2  NoKey = NoKey  NoConfig = NoConfig  NoDate = NoDate
  w1 = w1  w2 = w2  admin = admin  other = other
  NoItem = NoItem  NoMint = NoMint  Refused = Refused  Unchanged = Unchanged
  NoModel = NoModel  NoAim = NoAim  NoTx = NoTx
  Clients = {admin, other}
  Keys = {k1, k2}
  Wallets = {w1, w2}
  Prices = {1}
  MaxNumber = 1
  Holders = {k2}
  Capacity = 2
  Items = {i1}
  Mints = {m1}
  Nfts = {n1, n2}
  Identity <- OwnIdentity
  Calls <- MintCalls
  Settings <- MintSettings
  Edits <- MintEdits
  Owners = {k2}
  CustomIndex = FALSE
  MaxItems = 1
  MaxInFlight = 2
  MaxAlike <- TwoInserts
CHECK_DEADLOCK FALSE
SYMMETRY Symmetry
INVARIANTS
  LinesHaveNoGap
  AppendsOverwriteNothing
  MintCarriesCollection
  CurrentMintIsNotTaxed
  MintIsOnlyRefusedIfRaced
