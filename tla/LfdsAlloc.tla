------------------------------ MODULE LfdsAlloc ------------------------------
(***************************************************************************)
(* The memory of an lfds queue, from queue_new to queue_delete, where any  *)
(* allocation may fail: the queue_state, the freelist_state, and for every *)
(* element a freelist_element and the queue_element that is its user_data. *)
(* queue_guaranteed_enqueue allocates an element at run time.              *)
(*                                                                         *)
(* One thread calls; what threads do to each other's elements is the       *)
(* subject of LfdsQueue and LfdsFreelist.                                  *)
(***************************************************************************)
EXTENDS Integers, Sequences, SequencesExt

CONSTANTS
  NumElements, \* number_elements, as given to queue_new
  MaxElements  \* elements for which there is memory

ASSUME AllocAssumption ==
  /\ NumElements \in Nat
  /\ MaxElements \in Nat
  /\ NumElements < MaxElements

VARIABLES
  live,          \* how often an object was allocated more often than freed
  freelist,      \* the elements in the freelist, its top first
  queue,         \* the elements in the queue, the dummy first
  element_count, \* fs->element_count
  pc, caller,    \* where the call is, and who wants a new element
  loop, count,   \* local variables of freelist_new_elements
  fe             \* the element at hand, or 0 for NULL

vars == <<live, freelist, queue, element_count, pc, caller, loop, count, fe>>
lists == <<freelist, queue>>
locals == <<caller, loop, count, fe>>

Element == 1 .. MaxElements
QS == <<"queue_state", 0>>
FS == <<"freelist_state", 0>>
FE(e) == <<"freelist_element", e>>
QE(e) == <<"queue_element", e>>
Object == {QS, FS} \cup {FE(e) : e \in Element} \cup {QE(e) : e \in Element}

(* Element e is not in use: posix_memalign may return it.                  *)
Unused(e) == live[FE(e)] = 0 /\ live[QE(e)] = 0

Init ==
  /\ live = [o \in Object |-> 0]
  /\ freelist = <<>> /\ queue = <<>>
  /\ element_count = 0
  /\ pc = "queue_new" /\ caller = "queue_new"
  /\ loop = 0 /\ count = 0 /\ fe = 0

-----------------------------------------------------------------------------
Alloc(o) == live' = [live EXCEPT ![o] = @ + 1]

(* abstraction_aligned_malloc: on to yes with the object, or to no.        *)
Malloc(o, yes, no) ==
  \/ Alloc(o) /\ pc' = yes
  \/ UNCHANGED live /\ pc' = no

Free(o) == live' = [live EXCEPT ![o] = @ - 1]

-----------------------------------------------------------------------------
(* queue_new and freelist_new.                                             *)

QueueNew ==
  /\ pc = "queue_new"
  /\ Malloc(QS, "freelist_new", "failed")
  /\ UNCHANGED <<lists, element_count, locals>>

(* The queue's freelist has an element more, for the dummy.                *)
FreelistNew ==
  /\ pc = "freelist_new"
  /\ Malloc(FS, "new_elements", "no_freelist")
  /\ UNCHANGED <<lists, element_count, locals>>

NewElements ==
  /\ pc = "new_elements"
  /\ pc' = IF loop < NumElements + 1 THEN "new_element" ELSE "new_elements_done"
  /\ UNCHANGED <<live, lists, element_count, locals>>

(* freelist_internal_new_element: the freelist_element.                    *)
NewElement ==
  /\ pc = "new_element"
  /\ \/ \E e \in {u \in Element : Unused(u)} :
             fe' = e /\ Alloc(FE(e)) /\ pc' = "init_element"
     \/ fe' = 0 /\ UNCHANGED live /\ pc' = "no_element"
  /\ UNCHANGED <<lists, element_count, caller, loop, count>>

\* Mutant: the element is counted before it is complete.
InitElementCounted ==
  /\ pc = "init_element"
  /\ Malloc(QE(fe), "have_element", "free_element")
  /\ element_count' = element_count + 1
  /\ UNCHANGED <<lists, locals>>

(* Its user_data: the init function allocates the queue_element.           *)
InitElement ==
  /\ pc = "init_element"
  /\ Malloc(QE(fe), "have_element", "free_element")
  /\ element_count' = element_count + (IF pc' = "have_element" THEN 1 ELSE 0)
  /\ UNCHANGED <<lists, locals>>

\* Mutant: a freelist_element without user_data is forgotten.
FreeElementNot ==
  /\ pc = "free_element"
  /\ fe' = 0
  /\ pc' = "no_element"
  /\ UNCHANGED <<live, lists, element_count, caller, loop, count>>

FreeElement ==
  /\ pc = "free_element"
  /\ Free(FE(fe))
  /\ fe' = 0
  /\ pc' = "no_element"
  /\ UNCHANGED <<lists, element_count, caller, loop, count>>

(* The loop pushes an element it got, and goes on without one it did not.  *)
NewElementsPush ==
  /\ pc \in {"have_element", "no_element"} /\ caller = "queue_new"
  /\ IF pc = "have_element"
     THEN freelist' = <<fe>> \o freelist /\ count' = count + 1
     ELSE UNCHANGED <<freelist, count>>
  /\ loop' = loop + 1
  /\ fe' = 0
  /\ pc' = "new_elements"
  /\ UNCHANGED <<live, queue, element_count, caller>>

(* With all elements the freelist is ready, and the queue takes its dummy. *)
(* Otherwise only the freelist_state is freed.                             *)
FreelistNewDone ==
  /\ pc = "new_elements_done"
  /\ IF count = NumElements + 1
     THEN /\ queue' = <<Head(freelist)>>
          /\ freelist' = Tail(freelist)
          /\ pc' = "ready"
          /\ UNCHANGED live
     ELSE /\ Free(FS)
          /\ pc' = "no_freelist"
          /\ UNCHANGED lists
  /\ UNCHANGED <<element_count, locals>>

\* Mutant: queue_new returns without freeing the queue_state.
QueueNewFailsKept ==
  /\ pc = "no_freelist"
  /\ pc' = "failed"
  /\ UNCHANGED <<live, lists, element_count, locals>>

QueueNewFails ==
  /\ pc = "no_freelist"
  /\ Free(QS)
  /\ pc' = "failed"
  /\ UNCHANGED <<lists, element_count, locals>>

-----------------------------------------------------------------------------
(* The queue in use.                                                       *)

(* queue_enqueue: an element of the freelist, if there is one.             *)
Enqueue ==
  /\ pc = "ready"
  /\ freelist # <<>>
  /\ queue' = Append(queue, Head(freelist))
  /\ freelist' = Tail(freelist)
  /\ UNCHANGED <<live, element_count, pc, locals>>

(* queue_guaranteed_enqueue: always a new element.                         *)
GuaranteedEnqueue ==
  /\ pc = "ready"
  /\ caller' = "guaranteed_enqueue"
  /\ pc' = "new_element"
  /\ UNCHANGED <<live, lists, element_count, loop, count, fe>>

GuaranteedEnqueued ==
  /\ pc \in {"have_element", "no_element"} /\ caller = "guaranteed_enqueue"
  /\ queue' = IF pc = "have_element" THEN Append(queue, fe) ELSE queue
  /\ fe' = 0
  /\ pc' = "ready"
  /\ UNCHANGED <<live, freelist, element_count, caller, loop, count>>

\* Mutant: the element with the data is pushed, not the old dummy.
TakeHeadNew ==
  /\ Len(queue) > 1
  /\ queue' = Tail(queue)
  /\ freelist' = <<queue[2]>> \o freelist

(* queue_dequeue: the element with the data is the next dummy, and the old *)
(* dummy goes to the freelist.                                             *)
TakeHead ==
  /\ Len(queue) > 1
  /\ queue' = Tail(queue)
  /\ freelist' = <<Head(queue)>> \o freelist

Dequeue ==
  /\ pc = "ready"
  /\ TakeHead
  /\ UNCHANGED <<live, element_count, pc, locals>>

-----------------------------------------------------------------------------
(* queue_delete and freelist_delete.                                       *)

QueueDelete ==
  /\ pc = "ready"
  /\ pc' = "drain"
  /\ UNCHANGED <<live, lists, element_count, locals>>

Drain ==
  /\ pc = "drain"
  /\ TakeHead
  /\ UNCHANGED <<live, element_count, pc, locals>>

\* Mutant: the dummy element stays behind.
DrainedKeepDummy ==
  /\ pc = "drain"
  /\ Len(queue) = 1
  /\ pc' = "freelist_delete"
  /\ UNCHANGED <<live, lists, element_count, locals>>

(* The dummy that is left goes to the freelist as well.                    *)
Drained ==
  /\ pc = "drain"
  /\ Len(queue) = 1
  /\ freelist' = <<Head(queue)>> \o freelist
  /\ queue' = <<>>
  /\ pc' = "freelist_delete"
  /\ UNCHANGED <<live, element_count, locals>>

\* queue_internal_freelist_delete_function
DeleteUserData(e) == Free(QE(e))

(* Pop an element, delete its user_data ...                                *)
DeletePop ==
  /\ pc = "freelist_delete"
  /\ freelist # <<>>
  /\ fe' = Head(freelist)
  /\ freelist' = Tail(freelist)
  /\ DeleteUserData(Head(freelist))
  /\ pc' = "delete_element"
  /\ UNCHANGED <<queue, element_count, caller, loop, count>>

(* ... and the element.                                                    *)
DeleteElement ==
  /\ pc = "delete_element"
  /\ Free(FE(fe))
  /\ fe' = 0
  /\ pc' = "freelist_delete"
  /\ UNCHANGED <<lists, element_count, caller, loop, count>>

FreelistDeleted ==
  /\ pc = "freelist_delete"
  /\ freelist = <<>>
  /\ Free(FS)
  /\ pc' = "freelist_deleted"
  /\ UNCHANGED <<lists, element_count, locals>>

QueueDeleted ==
  /\ pc = "freelist_deleted"
  /\ Free(QS)
  /\ pc' = "deleted"
  /\ UNCHANGED <<lists, element_count, locals>>

New == QueueNew \/ FreelistNew \/ NewElements \/ NewElementsPush
         \/ FreelistNewDone \/ QueueNewFails
Use == Enqueue \/ GuaranteedEnqueue \/ GuaranteedEnqueued \/ Dequeue
NewElementCall == NewElement \/ InitElement \/ FreeElement
FreelistDelete == DeletePop \/ DeleteElement \/ FreelistDeleted
Delete == QueueDelete \/ Drain \/ Drained \/ FreelistDelete \/ QueueDeleted
Next == New \/ NewElementCall \/ Use \/ Delete

Spec == Init /\ [][Next]_vars

-----------------------------------------------------------------------------
(* No object is freed that is not allocated, whichever allocations failed  *)
(* and however elements moved between queue and freelist.                  *)
NoDoubleFree == \A o \in Object : live[o] \in {0, 1}

(* freelist_internal_new_element "if anything fails, cleans up": unless a  *)
(* call is in the middle of making or deleting an element, every element   *)
(* has both its objects or none.                                           *)
ElementsWhole ==
  \A e \in Element :
    (e # fe /\ live[FS] = 1) => live[FE(e)] = live[QE(e)]

(* The element count of a queue in use is the number of elements that      *)
(* exist, the dummy and those of guaranteed enqueues included, and each of *)
(* them is in the queue or in the freelist.                                *)
CountsElements ==
  pc = "ready" =>
    LET existing == {e \in Element : live[FE(e)] = 1}
    IN /\ element_count = Len(queue) + Len(freelist)
       /\ ToSet(queue \o freelist) = existing
       /\ IsInjective(queue \o freelist)

(* queue_delete leaves nothing allocated.                                  *)
DeleteFreesAll == pc = "deleted" => \A o \in Object : live[o] = 0

(* A queue_new that fails has freed both states, so that all it can leave  *)
(* allocated are whole elements, those it had made before an allocation    *)
(* failed (freelist_new frees only the freelist_state).                    *)
FailureLeavesElements ==
  pc = "failed" =>
    /\ live[QS] = 0 /\ live[FS] = 0
    /\ {e \in Element : live[FE(e)] = 1} = ToSet(freelist)
    /\ \A e \in Element : live[FE(e)] = live[QE(e)]

-----------------------------------------------------------------------------
(* The inductive invariant behind these.                                   *)

Making == {"new_element", "init_element", "free_element", "have_element", "no_element"}
Steps == {"queue_new", "freelist_new", "new_elements", "new_elements_done", "no_freelist",
          "failed", "ready", "drain", "freelist_delete", "delete_element",
          "freelist_deleted", "deleted"} \cup Making

TypesInv ==
  /\ live \in [Object -> {0, 1}]
  /\ freelist \in Seq(Element) /\ queue \in Seq(Element)
  /\ element_count \in Nat /\ loop \in Nat /\ count \in Nat
  /\ pc \in Steps
  /\ caller \in {"queue_new", "guaranteed_enqueue"}
  /\ fe \in IF pc \in {"init_element", "free_element", "have_element", "delete_element"}
            THEN Element ELSE {0}

(* The two states exist from their allocation until a failure or delete.   *)
StatesInv ==
  /\ live[QS] = IF pc \in {"queue_new", "failed", "deleted"} THEN 0 ELSE 1
  /\ live[FS] = IF pc \in {"queue_new", "freelist_new", "no_freelist", "failed",
                           "freelist_deleted", "deleted"} THEN 0 ELSE 1

(* Every element is in one place, once.                                    *)
ListsInv ==
  /\ IsInjective(queue) /\ IsInjective(freelist)
  /\ ToSet(queue) \cap ToSet(freelist) = {}
  /\ fe \notin ToSet(queue) \cup ToSet(freelist)

(* The allocated elements are those in a list and the one at hand.         *)
ElementsInv ==
  \A e \in Element :
    /\ live[FE(e)] = IF e \in ToSet(queue) \cup ToSet(freelist) \cup {fe} THEN 1 ELSE 0
    /\ live[QE(e)] = IF \/ e \in ToSet(queue) \cup ToSet(freelist)
                        \/ e = fe /\ pc = "have_element" THEN 1 ELSE 0

(* queue_new fills the freelist, and delete empties the queue before it    *)
(* empties the freelist.                                                   *)
InNew == \/ pc \in {"queue_new", "freelist_new", "new_elements", "new_elements_done",
                    "no_freelist", "failed"}
         \/ pc \in Making /\ caller = "queue_new"

PhaseInv ==
  /\ InNew => caller = "queue_new" /\ queue = <<>> /\ count = Len(freelist)
  /\ pc \in {"freelist_delete", "delete_element", "freelist_deleted", "deleted"} => queue = <<>>
  /\ pc \in {"freelist_deleted", "deleted"} => freelist = <<>>

(* Until freelist_delete, the element count is right.                      *)
CountInv ==
  pc \notin {"freelist_delete", "delete_element", "freelist_deleted", "deleted"} =>
    element_count = Len(queue) + Len(freelist) + (IF pc = "have_element" THEN 1 ELSE 0)

IInv == TypesInv /\ StatesInv /\ ListsInv /\ ElementsInv /\ PhaseInv /\ CountInv
=============================================================================
