SPECIFICATION Spec
CONSTANTS
  author = author  curator = curator  ka = ka  kc = kc
  old = old  new = new  t1 = t1  t2 = t2
  NoKey = NoKey  NoText = NoText  NoCollection = NoCollection  Legacy = Legacy
  Refused = Refused  Keep = Keep  NoModel = NoModel  NoAim = NoAim
  Keys = {ka, kc}
  Texts = {t1, t2}
  Creators = {ka, kc}
  Holder = ka
  Collections = {old, new}
  CollectionOwner <- Owners
  FirstSize <- Sizes
  MaxSize = 1
  Clients = {author, curator}
  Identity <- Identities
  Hands <- Signers2
  Calls <- AllCalls
  Wishes <- SomeWishes
  Edits <- SomeEdits
  Delegates = {ka}
  Counts = {0}
  MaxInFlight = 1
CHECK_DEADLOCK FALSE
INVARIANTS
  TypeOK
  CreateKeepsItsPromise
  UpdateIsExact
  SizeFollowsMembers
