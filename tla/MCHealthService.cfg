SPECIFICATION FairSpec
CONSTANTS
  IntervalFast = 60
  IntervalSlow = 600
  MaxFault = 1
  MaxUevent = 1
  MaxCall = 1
  MaxReg = 1
  Client = {c1}
  NullCallback = NullCallback
  NoThread = NoThread
  Looper = Looper
INVARIANT LockFreeBetweenEvents
PROPERTY ImplementsLoop DeadDropped UpdateNotStarved
