CONSTANTS
  Signals <- MCSignals
  Uints <- MCUints
  NetworkLists <- MCNetworkLists
  Uint32Bits <- MCUint32Bits
  MaxSignals = 2
  Nil = Nil

SPECIFICATION Spec

INVARIANTS
  MissingFlagEndsStartup

CHECK_DEADLOCK FALSE
