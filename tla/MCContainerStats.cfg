CONSTANTS
  Words <- MCWords
  Usages <- MCUsages
  ParseUint <- MCParseUint
  Trim <- MCTrim
  MaxMemoryWords = 4
  MaxCPUWords = 2
  DiskStats = {d1}
  BandwidthStats = {b1}

INIT Init
NEXT Next

INVARIANTS
  MemoryStatIsLastValues
  CPUStatWholeOrZero

CHECK_DEADLOCK TRUE
