CONSTANTS
  Signals <- MCSignals
  Uints <- MCUints
  NetworkLists <- MCNetworkLists
  Uint32Bits <- MCUint32Bits
  MaxSignals = 2
  Nil = Nil

SPECIFICATION Spec

INVARIANTS
  TypeOK
  ServingProcessIsConfigured

PROPERTIES
  LifecycleSpec
  CaughtSignalEndsProcess

CHECK_DEADLOCK FALSE
