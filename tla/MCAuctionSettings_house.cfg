SPECIFICATION Spec
CONSTANTS
  creator = creator  partner = partner  list = list  sell = sell
  NoKey = NoKey  NoScopes = NoScopes  Refused = Refused  Null = Null  NoModel = NoModel  NoAim = NoAim
  Keys = {creator, partner}
  Creator = creator
  Fees = {1, 2}
  Scopes = {list, sell}
  Clients = {creator, partner}
  Calls <- AllCalls
  Wishes <- SomeWishes
  Edits <- SomeEdits
  MaxInFlight = 1
CHECK_DEADLOCK FALSE
INVARIANTS
  FreshUpdateIsExact
  StaleUpdateSparesSettings
  NothingToSendIsNothingToDo
