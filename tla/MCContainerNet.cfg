CONSTANTS
  Threads <- MCThreads
  Calls <- MCNetCalls
  LimitValues = {l1}
  PoolPorts <- MCPoolPorts
  HostPorts <- MCHostPorts
  ContainerPorts <- MCContainerPorts
  NetOutSpecs <- MCNetOutSpecs
  PropertyKeys = {"owner"}
  PropertyValues = {"a", "b"}
  MaxNetIns = 2
  MaxNetOuts = 1
  MaxRestarts = 1
  Nil = Nil
  t1 = t1
  t2 = t2
  l1 = l1
  l2 = l2

SYMMETRY MCSymmetry

INIT Init
NEXT Next

INVARIANTS
  TypeOK
  PortsTracked

PROPERTIES
  RestoreReproducesNet

CHECK_DEADLOCK TRUE
