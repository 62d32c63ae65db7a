SPECIFICATION QueriesSpec
CONSTANTS
  IntervalFast = 60
  IntervalSlow = 600
  IntHalf = 8
  Average <- Readings
  Refused = Refused
  NotYet = NotYet
INVARIANT QueriesTypeOK ReportsAgree
PROPERTY QueriesKeepAlarm
