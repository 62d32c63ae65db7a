SPECIFICATION Spec
CONSTANTS
  Version <- MCVersion
  MaxFault = 2
INVARIANT TypeOK DeviceClosedOnce DispatchComplete
PROPERTY ServiceLoads
CHECK_DEADLOCK FALSE
