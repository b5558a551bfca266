SPECIFICATION Spec
CONSTANTS
  Calls = {c1, c2, c3}
  Signals = {s1, s2}
  NoSignal = NoSignal
  Undefined = Undefined
  Null = Null
  AbortEvent = AbortEvent
  AlreadyRunning = AlreadyRunning
  Preloaded = Preloaded
  Sequential = FALSE
  Reentrant = TRUE
SYMMETRY Symmetry
INVARIANTS RunningHasExecutor
PROPERTIES CanceledRunRejects LateAbortIsHarmless
