SPECIFICATION Spec
CONSTANTS
  artist = artist  fan = fan  aa = aa  fa = fa
  NoKey = NoKey  Edition = Edition  Refused = Refused
  NoAccount = NoAccount  NoAmount = NoAmount  NoSight = NoSight
  Wallets = {artist, fan}
  Accounts = {aa, fa}
  Owner <- Owners
  Ata <- Atas
  Hands <- Signers
  Calls <- AllCalls
  MaxSupply = 2
  MaxUses = 1
  MaxPrints = 2
  Amounts = {1}
  Maxima = {2}
  MaxInFlight = 2
  Racing = {"createToken", "mint", "send", "createNft", "print"}
CHECK_DEADLOCK FALSE
INVARIANTS
  TypeOK
  OnlyRacesAreRefused
  SendMovesWhatWasAsked
  CreatedIsFound
  PrintIsOnlyRefusedIfRaced
