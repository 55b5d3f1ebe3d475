CONSTANTS
  Signals <- MCSignals
  Uints <- MCUints
  NetworkLists <- MCNetworkLists
  Uint32Bits <- MCUint32Bits
  MaxSignals = 2
  Nil = Nil

INIT MCInitFlagsGiven
NEXT Next

PROPERTIES
  ServerStoppedBeforeExit

CHECK_DEADLOCK FALSE
