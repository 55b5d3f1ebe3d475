CONSTANTS
  Threads = {t1, t2}
  Messages <- MCMessages
  Unencodable <- MCUnencodable
  MaxStream = 6
  Nil = Nil

INIT Init
NEXT Next

INVARIANTS
  TypeOK
  StreamIsFramed

CHECK_DEADLOCK TRUE
