SPECIFICATION Spec
CONSTANTS
  alice = alice
  bob = bob
  keyOfAlice = keyOfAlice
  keyOfBob = keyOfBob
  node = node
  j1 = j1
  j2 = j2
  Wallets <- MCWallets
  Identities <- MCIdentities
  DerivedFrom <- MCDerivedFrom
  FirstSol <- MCFirstSol
  FirstLoaded <- MCFirstLoaded
  Jobs = {j1, j2}
  MaxSol = 10
  Fee = 1
  MaxClock = 1
  Lifetime = 0
  MaxSends = 2
  Node = node
  Cost = 2
  Price = 3
  MinimumBalance = 2
  Amounts = {1}
  Mixes <- MCMixes
  NoHash = NoHash
  NoTx = NoTx
  NoWallet = NoWallet
SYMMETRY MCSymmetry
INVARIANTS
  TypeOK
  SameObjectPaysOnce
  KeyIsOfItsOrigin
PROPERTIES
  WithdrawAllIsOnlyRefusedIfRaced
  UploadIsOnlyRefusedIfRaced
CHECK_DEADLOCK FALSE
