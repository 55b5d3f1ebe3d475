CONSTANTS
  Threads = {t1}
  Calls = {"LimitMemory"}
  LimitValues = {l1}
  PoolPorts <- MCPoolPorts
  HostPorts <- MCHostPorts
  ContainerPorts <- MCContainerPorts
  NetOutSpecs <- MCNetOutSpecs
  PropertyKeys = {"owner"}
  PropertyValues = {"a", "b"}
  MaxNetIns = 0
  MaxNetOuts = 0
  MaxRestarts = 0
  Nil = Nil
  t1 = t1
  t2 = t2
  l1 = l1
  l2 = l2

INIT Init
NEXT Next

PROPERTY LimitMemoryStartsNotifier

CHECK_DEADLOCK TRUE
