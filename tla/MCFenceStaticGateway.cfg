CONSTANTS
  Bits <- MCBits
  DynamicRange <- MCDynamicRange
  StaticSubnets <- MCStaticSubnets
  StaticIPs <- MCStaticIPs
  Containers <- MCContainers
  ContainerID <- MCContainerID
  NetworkInterfacePrefix <- MCNetworkInterfacePrefix
  MaxIfcNameLen = 3
  Specs <- MCSpecsLastUsable
  Nil = Nil
  c1 = c1
  c2 = c2

SYMMETRY MCSymmetry

INIT FenceInit
NEXT FenceNext

INVARIANT ContainerIPIsNotHostIP

CHECK_DEADLOCK TRUE
