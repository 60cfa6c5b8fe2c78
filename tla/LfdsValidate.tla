---------------------------- MODULE LfdsValidate ----------------------------
(***************************************************************************)
(* queue_query and freelist_query of the lfds library: the element count   *)
(* and the validation of a queue, which looks for a loop in the list of    *)
(* queue elements with a slow and a fast pointer, counts the elements, and *)
(* then does the same for the freelist the elements come from, with bounds *)
(* that it computes from the caller's in unsigned words.                   *)
(*                                                                         *)
(* The validation exists to be told of broken lists, so that the initial   *)
(* states hold every list, with or without a loop.  Only what can be       *)
(* reached from the head of a list matters: its elements are numbered in   *)
(* the order in which the list visits them.                                *)
(***************************************************************************)
EXTENDS Integers, FiniteSets

CONSTANTS
  NULL,        \* the NULL pointer, and a NULL validation_info
  MaxElements, \* elements of one kind, queue or freelist
  Width        \* bits of an atom_t

ASSUME ValidateAssumption ==
  /\ MaxElements \in Nat \ {0}
  /\ NULL \notin 1 .. MaxElements
  /\ NULL \notin [min_elements : Nat, max_elements : Nat]
  /\ Width \in Nat \ {0}
  /\ 2 ^ Width \in Nat
  /\ MaxElements < 2 ^ Width

VARIABLES
  next,     \* next pointers of the queue's and of the freelist's elements
  head,     \* qs->dequeue and fs->top
  total,    \* fs->element_count
  vi,       \* the caller's validation_info, or NULL
  list,     \* the list being validated
  info,     \* the validation_info it is validated with, or NULL
  pc,       \* where the validation of list is
  slow, fast, element, element_count, \* its local variables
  validity  \* the two results

structure == <<next, head, total, vi>>
vars == <<structure, list, info, pc, slow, fast, element, element_count, validity>>

Element == 1 .. MaxElements
Pointer == Element \cup {NULL}
Word == 0 .. 2 ^ Width - 1
Lists == {"queue", "freelist"}
Info == [min_elements : Word, max_elements : Word]
Validity == {"valid", "loop", "missing", "additional"}

\* Mutant: the words are signed.
NoWrap(n) == n

Wrap(n) == n % 2 ^ Width

(* A list that visits 1, 2, ..., len and ends in NULL or turns back.       *)
Chain(len, last) ==
  [e \in Element |-> IF e < len THEN e + 1 ELSE IF e = len THEN last ELSE NULL]
Chains == UNION {{Chain(len, last) : last \in (1 .. len) \cup {NULL}} : len \in Element}

(* The queue is never without its dummy element; the freelist may be empty.*)
Init ==
  /\ next \in [Lists -> Chains]
  /\ head \in [queue : {1}, freelist : {1, NULL}]
  /\ total \in Element
  /\ vi \in Info \cup {NULL}
  /\ list = "queue"
  /\ info = vi
  /\ pc = "call"
  /\ slow = NULL /\ fast = NULL /\ element = NULL /\ element_count = 0
  /\ validity = [l \in Lists |-> NULL]

Step(p) == IF p = NULL THEN NULL ELSE next[list][p]

\* Mutant: the freelist's minimum comes from the queue's minimum.
FreelistInfoSwapped ==
  IF vi = NULL THEN NULL
  ELSE [min_elements |-> Wrap(Wrap(total - 1) - vi.min_elements),
        max_elements |-> Wrap(Wrap(total - 1) - vi.max_elements)]

(* The freelist's bounds: what the caller's leave of the elements but one, *)
(* the dummy.                                                              *)
FreelistInfo ==
  IF vi = NULL THEN NULL
  ELSE [min_elements |-> Wrap(Wrap(total - 1) - vi.max_elements),
        max_elements |-> Wrap(Wrap(total - 1) - vi.min_elements)]

(* The count of a queue includes its dummy element.                        *)
Counted == IF list = "queue" THEN Wrap(element_count - 1) ELSE element_count

(* QUERY_ELEMENT_COUNT of either structure is the freelist's.              *)
QueryElementCount ==
  /\ pc = "call" /\ list = "queue"
  /\ element_count' = total
  /\ pc' = "counted"
  /\ UNCHANGED <<structure, list, info, slow, fast, element, validity>>

(* Both pointers start at the head of the list.                            *)
QueryValidate ==
  /\ pc = "call"
  /\ validity' = [validity EXCEPT ![list] = "valid"]
  /\ slow' = head[list] /\ fast' = head[list]
  /\ element_count' = 0
  /\ pc' = IF head[list] = NULL THEN "looped" ELSE "chase"
  /\ UNCHANGED <<structure, list, info, element>>

\* Mutant: the fast pointer takes one element at a time too.
ChaseAlike ==
  /\ pc = "chase"
  /\ slow' = Step(slow)
  /\ fast' = Step(fast)
  /\ pc' = IF slow' # NULL /\ fast' # slow' THEN "chase" ELSE "looped"
  /\ UNCHANGED <<structure, list, info, element, element_count, validity>>

\* Mutant: the chase goes on until slow has come to the end of the list.
ChaseToNull ==
  /\ pc = "chase"
  /\ slow' = Step(slow)
  /\ fast' = Step(Step(fast))
  /\ pc' = IF slow' # NULL THEN "chase" ELSE "looped"
  /\ UNCHANGED <<structure, list, info, element, element_count, validity>>

(* One pass of do ... while: one element for slow, two for fast.           *)
Chase ==
  /\ pc = "chase"
  /\ slow' = Step(slow)
  /\ fast' = Step(Step(fast))
  /\ pc' = IF slow' # NULL /\ fast' # slow' THEN "chase" ELSE "looped"
  /\ UNCHANGED <<structure, list, info, element, element_count, validity>>

(* What the loop found; the elements are counted only in a list without a  *)
(* loop and for a caller with bounds.                                      *)
Looped ==
  LET loop == fast # NULL /\ slow # NULL /\ fast = slow
  IN /\ pc = "looped"
     /\ validity' = [validity EXCEPT ![list] = IF loop THEN "loop" ELSE @]
     /\ pc' = IF ~loop /\ info # NULL THEN "count" ELSE "return"
     /\ element' = head[list]
     /\ UNCHANGED <<structure, list, info, slow, fast, element_count>>

Count ==
  /\ pc = "count"
  /\ element # NULL
  /\ element_count' = Wrap(element_count + 1)
  /\ element' = Step(element)
  /\ UNCHANGED <<structure, list, info, pc, slow, fast, validity>>

(* Two tests one after the other: the second may replace the first's       *)
(* result.                                                                 *)
Bounds ==
  /\ pc = "count"
  /\ element = NULL
  /\ validity' = [validity EXCEPT ![list] =
       IF Counted > info.max_elements THEN "additional"
       ELSE IF Counted < info.min_elements THEN "missing" ELSE @]
  /\ pc' = "return"
  /\ UNCHANGED <<structure, list, info, slow, fast, element, element_count>>

(* After the queue, its freelist, whatever was found in the queue.         *)
ValidateFreelist ==
  /\ pc = "return" /\ list = "queue"
  /\ list' = "freelist"
  /\ info' = FreelistInfo
  /\ pc' = "call"
  /\ UNCHANGED <<structure, slow, fast, element, element_count, validity>>

Return ==
  /\ pc = "return" /\ list = "freelist"
  /\ pc' = "done"
  /\ UNCHANGED <<structure, list, info, slow, fast, element, element_count, validity>>

Validate == QueryValidate \/ Chase \/ Looped \/ Count \/ Bounds
QueueValidate == list = "queue" /\ (Validate \/ ValidateFreelist)
FreelistValidate == list = "freelist" /\ (Validate \/ Return)
Next == QueryElementCount \/ QueueValidate \/ FreelistValidate

(* A call runs to its end.                                                 *)
Spec == Init /\ [][Next]_vars /\ WF_vars(Next)

-----------------------------------------------------------------------------
(* What the verdicts should be, from the lists alone.                      *)

(* The element after k steps from the head of l.                           *)
Visited(l) ==
  LET visit[k \in 0 .. MaxElements] ==
        IF k = 0 THEN head[l]
        ELSE IF visit[k - 1] = NULL THEN NULL ELSE next[l][visit[k - 1]]
  IN visit

(* A list of at most MaxElements elements that never comes to NULL has a   *)
(* loop.                                                                   *)
HasLoop(l) == \A k \in 0 .. MaxElements : Visited(l)[k] # NULL
Length(l) == Cardinality({k \in 0 .. MaxElements : Visited(l)[k] # NULL})

Judged(n, min, max) ==
  IF n > max THEN "additional" ELSE IF n < min THEN "missing" ELSE "valid"

(* The variables keep their types.                                         *)
TypeOK ==
  /\ next \in [Lists -> [Element -> Pointer]]
  /\ head \in [Lists -> Pointer]
  /\ total \in Element
  /\ {vi, info} \subseteq Info \cup {NULL}
  /\ list \in Lists
  /\ pc \in {"call", "counted", "chase", "looped", "count", "return", "done"}
  /\ {slow, fast, element} \subseteq Pointer
  /\ element_count \in Word
  /\ validity \in [Lists -> Validity \cup {NULL}]

(* The queue's verdict: a loop is reported exactly when there is one, even *)
(* one that fast could jump over, and otherwise the number of elements but *)
(* the dummy is judged by the caller's bounds (queue_internal_validate).   *)
QueueVerdict ==
  pc = "done" =>
    validity["queue"] =
      IF HasLoop("queue") THEN "loop"
      ELSE IF vi = NULL THEN "valid"
      ELSE Judged(Length("queue") - 1, vi.min_elements, vi.max_elements)

(* The freelist's verdict: as the queue's, judged by what the caller's     *)
(* bounds leave of the elements, as long as they leave any                 *)
(* (queue_internal_validate, freelist_internal_validate).                  *)
FreelistVerdict ==
  pc = "done" =>
    IF HasLoop("freelist") THEN validity["freelist"] = "loop"
    ELSE IF vi = NULL THEN validity["freelist"] = "valid"
    ELSE vi.min_elements <= total - 1 /\ vi.max_elements <= total - 1 =>
           validity["freelist"] =
             Judged(Length("freelist"), total - 1 - vi.max_elements,
                    total - 1 - vi.min_elements)

(* Every query returns, also for a list with a loop: the counting loop,    *)
(* which a loop would trap, is entered only after the chase.               *)
QueryReturns == <>(pc \in {"counted", "done"})
=============================================================================
