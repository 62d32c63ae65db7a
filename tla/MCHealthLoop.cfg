SPECIFICATION FairSpec
CONSTANTS
  IntervalFast = 60
  IntervalSlow = 600
  MaxFault = 3
  MaxUevent = 2
  MaxCall = 1
INVARIANT TypeOK SingletonReady TimeoutFitsAlarm
PROPERTY UpdateHappens CallsAnswered ComesUp
CHECK_DEADLOCK FALSE
