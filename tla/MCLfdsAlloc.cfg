\* A queue of two elements and its dummy, and memory for two more elements, from
\* guaranteed enqueues.
CONSTANTS
  NumElements = 2
  MaxElements = 5
SPECIFICATION Spec
INVARIANTS
  NoDoubleFree
  ElementsWhole
  CountsElements
  DeleteFreesAll
  FailureLeavesElements
\* The queue is deleted, or was not made.
CHECK_DEADLOCK FALSE
