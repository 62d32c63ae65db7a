SPECIFICATION UsageSpec
CONSTANT Bit <- MCBit
INVARIANT AccessesKept
CHECK_DEADLOCK FALSE
