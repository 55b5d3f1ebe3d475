CONSTANTS
  Bits <- MCBits
  DynamicRange <- MCDynamicRange
  StaticSubnets <- MCStaticSubnets
  StaticIPs <- MCStaticIPs

SPECIFICATION Spec

INVARIANTS
  TypeOK
  NoOverlap
  HeldIPsUsable
  SingleHolderUnlessShareable

PROPERTIES
  DynamicTakesLowestFree

CHECK_DEADLOCK TRUE
