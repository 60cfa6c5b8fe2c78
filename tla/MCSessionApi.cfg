CONSTANTS
  NULL = NULL
  MaxSessions = 3
  MaxQueue = 2
SPECIFICATION Spec
INVARIANTS
  AccessLive
  WaitsForCompletion
  CommandLineSent
\* The program may crash; no session follows the last, and a script may stop.
CHECK_DEADLOCK FALSE
