SPECIFICATION FairSpec
CONSTANTS
  IntervalFast = 60
  IntervalSlow = 600
  Thread = {t1, t2}
  Client = {c1, c2}
  MaxReg = 2
  HookCalled = TRUE
  NullCallback = NullCallback
  NoThread = NoThread
INVARIANT TypeOK EveryEntryWatched UnregisterSticks NotifyReachesAll
PROPERTY IteratorStaysValid DeadDropped HandlersReturn
