CONSTANTS
  EnvVar <- MCEnvVar
  Users <- MCUsers
  ResourceLimits <- MCResourceLimits
  MaxEnv = 2
  MaxLeaked = 2
  Nil = Nil

SPECIFICATION Spec

INVARIANTS
  TypeOK
  RunEnvIsLastAssignment

PROPERTIES
  StreamEndsWithTar

CHECK_DEADLOCK TRUE
