SPECIFICATION FairSpec
CONSTANTS
  Calls = {c1, c2, c3}
  Signals = {s1, s2}
  NoSignal = NoSignal
  Undefined = Undefined
  Null = Null
  AbortEvent = AbortEvent
  AlreadyRunning = AlreadyRunning
  Preloaded = Preloaded
  Sequential = TRUE
  Reentrant = FALSE
INVARIANTS TypeOK OneExecution FieldsAgree AnswersAreReal
PROPERTIES ImplementsContract RunningEnds EveryRunSettles
