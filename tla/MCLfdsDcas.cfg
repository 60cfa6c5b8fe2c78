\* Two threads, and two values, so that a value can come back.
CONSTANTS
  Threads = {t1, t2}
  Pairs = {p0, p1}
  Initial = p0
SPECIFICATION DcasSpec
INVARIANT ReservationValid
PROPERTY ImplementsDcas
