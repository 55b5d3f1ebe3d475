CONSTANTS
  Threads = {t1, t2}
  Specs <- MCSpecs
  Mtus = {1500}
  Writers = {w1, w2}
  Errors = {e1}
  MaxSnapshots = 3
  Nil = Nil

INIT Init
NEXT Next

INVARIANTS
  TypeOK

PROPERTIES
  SnapshotsOnlyAppended

CHECK_DEADLOCK TRUE
