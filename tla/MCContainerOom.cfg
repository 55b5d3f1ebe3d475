CONSTANTS
  Threads <- MCThreads
  Calls <- MCLimitCalls
  LimitValues = {l1}
  PoolPorts <- MCPoolPorts
  HostPorts <- MCHostPorts
  ContainerPorts <- MCContainerPorts
  NetOutSpecs <- MCNetOutSpecs
  PropertyKeys = {"owner"}
  PropertyValues = {"a", "b"}
  MaxNetIns = 0
  MaxNetOuts = 0
  MaxRestarts = 1
  Nil = Nil
  t1 = t1
  t2 = t2
  l1 = l1
  l2 = l2

SPECIFICATION Spec

INVARIANTS
  OneOomEventPerRun

PROPERTIES
  OomStopsContainer
  RestoreReproducesMemory

CHECK_DEADLOCK TRUE
