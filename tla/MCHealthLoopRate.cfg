SPECIFICATION Spec
CONSTANTS
  IntervalFast = 60
  IntervalSlow = 600
  MaxFault = 1
  MaxUevent = 1
  MaxCall = 1
INVARIANT PollsAtFastRate
