\* Lists of up to four elements; three-bit words, so that bounds beyond the
\* number of elements occur.
CONSTANTS
  NULL = NULL
  MaxElements = 4
  Width = 3
SPECIFICATION Spec
INVARIANTS
  TypeOK
  QueueVerdict
  FreelistVerdict
PROPERTY QueryReturns
\* A query returns, and nothing follows.
CHECK_DEADLOCK FALSE
