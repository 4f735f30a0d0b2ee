SPECIFICATION FairSpec
CONSTANTS
  r = r  x = x  l = l  m = m
  NoTask = NoTask
  Tasks <- MixedTasks
  Local = {l}
  Wraps <- MixedWraps
  Air <- MixedAir
  Window = 3
  Budget = 2
  Enforced = TRUE
  Delays = {0, 1}
  Backoff = 1
  LinkWait = 1
INVARIANTS HalfDuplex DutyCycle Accounted
PROPERTIES EveryCallEnds ImplementsRadio
