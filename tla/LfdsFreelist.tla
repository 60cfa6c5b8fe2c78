---------------------------- MODULE LfdsFreelist ----------------------------
(***************************************************************************)
(* corelib/lfds/freelist_pop_push.c: the lock-free stack that the queue's  *)
(* elements come from and go back to.                                      *)
(*                                                                         *)
(* As in LfdsQueue a pointer has a counter in the word next to it.  Reads  *)
(* of the two are separate steps, the ones with which abstraction_dcas     *)
(* loads its exchange value included; the DCAS itself is one step, and on  *)
(* failure it leaves the current value of top in the compare argument.     *)
(***************************************************************************)
EXTENDS Integers, Sequences, FiniteSets

CONSTANTS Threads,
          NumElements,   \* number_elements of freelist_new
          MaxPushes      \* bound on aba_counter, for TLC

ASSUME LfdsFreelistAssumption == /\ NumElements \in Nat \ {0}
                                 /\ MaxPushes \in Nat

Elements == 1..NumElements
NULL == 0

Pair(ptr, ctr) == [ptr |-> ptr, ctr |-> ctr]
NoPair == Pair(NULL, 0)

\* abstraction_increment, with the compiler's atomic add
Increment(value) == value + 1

\* abstraction_dcas, with cmpxchg16b: what destination holds afterwards
Dcas(destination, exchg, compare) ==
    IF destination = compare THEN exchg ELSE destination

VARIABLES top,          \* fs->top
          next,         \* the next pair of each element
          aba_counter,  \* fs->aba_counter
          taken,        \* elements popped and in use outside of the freelist
          local,        \* fe_local in pop, original_fe_next in push
          exchange,     \* what a thread's DCAS will store
          pc

vars == <<top, next, aba_counter, taken, local, exchange, pc>>

\* freelist_new has pushed the elements one by one.
Init == /\ top = Pair(NumElements, NumElements)
        /\ next = [e \in Elements |-> Pair(e - 1, e - 1)]
        /\ aba_counter = NumElements
        /\ taken = {}
        /\ local = [t \in Threads |-> NoPair]
        /\ exchange = [t \in Threads |-> NoPair]
        /\ pc = [t \in Threads |-> "idle"]

Goto(t, from, to) == /\ pc[t] = from
                     /\ pc' = [pc EXCEPT ![t] = to]
-----------------------------------------------------------------------------
(* freelist_pop *)

PopCall(t) == /\ Goto(t, "idle", "pop_counter")
              /\ UNCHANGED <<top, next, aba_counter, taken, local, exchange>>

\* The counter is read before the pointer.
PopReadCounter(t) == /\ Goto(t, "pop_counter", "pop_pointer")
                     /\ local' = [local EXCEPT ![t].ctr = top.ctr]
                     /\ UNCHANGED <<top, next, aba_counter, taken, exchange>>

PopReadPointer(t) == /\ Goto(t, "pop_pointer", "pop_test")
                     /\ local' = [local EXCEPT ![t].ptr = top.ptr]
                     /\ UNCHANGED <<top, next, aba_counter, taken, exchange>>

PopEmpty(t) == /\ local[t].ptr = NULL
               /\ Goto(t, "pop_test", "popped")
               /\ UNCHANGED <<top, next, aba_counter, taken, local, exchange>>

PopReadNextPointer(t) ==
    /\ local[t].ptr # NULL
    /\ Goto(t, "pop_test", "pop_next_counter")
    /\ exchange' = [exchange EXCEPT ![t].ptr = next[local[t].ptr].ptr]
    /\ UNCHANGED <<top, next, aba_counter, taken, local>>

PopReadNextCounter(t) ==
    /\ Goto(t, "pop_next_counter", "pop_dcas")
    /\ exchange' = [exchange EXCEPT ![t].ctr = next[local[t].ptr].ctr]
    /\ UNCHANGED <<top, next, aba_counter, taken, local>>

\* Mutant: a pop that loses the race gives up.
PopGivesUp(t) == /\ Goto(t, "pop_dcas", "popped")
                 /\ IF top = local[t]
                    THEN top' = exchange[t] /\ UNCHANGED local
                    ELSE local' = [local EXCEPT ![t] = NoPair] /\ UNCHANGED top
                 /\ UNCHANGED <<next, aba_counter, taken, exchange>>

\* The instruction leaves what it found in its compare argument.
PopDcas(t) == /\ Goto(t, "pop_dcas", IF top = local[t] THEN "popped" ELSE "pop_test")
              /\ top' = Dcas(top, exchange[t], local[t])
              /\ local' = [local EXCEPT ![t] = top]
              /\ UNCHANGED <<next, aba_counter, taken, exchange>>

PopReturn(t) == /\ Goto(t, "popped", "idle")
                /\ taken' = taken \cup ({local[t].ptr} \ {NULL})
                /\ local' = [local EXCEPT ![t] = NoPair]
                /\ exchange' = [exchange EXCEPT ![t] = NoPair]
                /\ UNCHANGED <<top, next, aba_counter>>
-----------------------------------------------------------------------------
(* freelist_push, by whichever thread has the element now *)

\* Mutant: pushing reuses the counter instead of taking a fresh one.
PushOldCounter(t) ==
    \E e \in taken :
       /\ aba_counter < MaxPushes
       /\ Goto(t, "idle", "push_pointer")
       /\ taken' = taken \ {e}
       /\ aba_counter' = Increment(aba_counter)
       /\ exchange' = [exchange EXCEPT ![t] = Pair(e, e)]
       /\ UNCHANGED <<top, next, local>>

\* The element gets a fresh counter.
PushCall(t) ==
    \E e \in taken :
       /\ aba_counter < MaxPushes
       /\ Goto(t, "idle", "push_pointer")
       /\ taken' = taken \ {e}
       /\ aba_counter' = Increment(aba_counter)
       /\ exchange' = [exchange EXCEPT ![t] = Pair(e, aba_counter')]
       /\ UNCHANGED <<top, next, local>>

PushReadPointer(t) == /\ Goto(t, "push_pointer", "push_counter")
                      /\ local' = [local EXCEPT ![t].ptr = top.ptr]
                      /\ UNCHANGED <<top, next, aba_counter, taken, exchange>>

PushReadCounter(t) == /\ Goto(t, "push_counter", "push_next_pointer")
                      /\ local' = [local EXCEPT ![t].ctr = top.ctr]
                      /\ UNCHANGED <<top, next, aba_counter, taken, exchange>>

PushNextPointer(t) ==
    /\ Goto(t, "push_next_pointer", "push_next_counter")
    /\ next' = [next EXCEPT ![exchange[t].ptr].ptr = local[t].ptr]
    /\ UNCHANGED <<top, aba_counter, taken, local, exchange>>

PushNextCounter(t) ==
    /\ Goto(t, "push_next_counter", "push_dcas")
    /\ next' = [next EXCEPT ![exchange[t].ptr].ctr = local[t].ctr]
    /\ UNCHANGED <<top, aba_counter, taken, local, exchange>>

PushDcas(t) == /\ Goto(t, "push_dcas", IF top = local[t] THEN "pushed"
                                                      ELSE "push_next_pointer")
               /\ top' = Dcas(top, exchange[t], local[t])
               /\ local' = [local EXCEPT ![t] = top]
               /\ UNCHANGED <<next, aba_counter, taken, exchange>>

PushReturn(t) == /\ Goto(t, "pushed", "idle")
                 /\ local' = [local EXCEPT ![t] = NoPair]
                 /\ exchange' = [exchange EXCEPT ![t] = NoPair]
                 /\ UNCHANGED <<top, next, aba_counter, taken>>
-----------------------------------------------------------------------------
Pop(t) == \/ PopCall(t) \/ PopReadCounter(t) \/ PopReadPointer(t) \/ PopEmpty(t)
          \/ PopReadNextPointer(t) \/ PopReadNextCounter(t) \/ PopDcas(t)
          \/ PopReturn(t)

Push(t) == \/ PushCall(t) \/ PushReadPointer(t) \/ PushReadCounter(t)
           \/ PushNextPointer(t) \/ PushNextCounter(t) \/ PushDcas(t)
           \/ PushReturn(t)

Next == \E t \in Threads : Pop(t) \/ Push(t)

Spec == Init /\ [][Next]_vars
-----------------------------------------------------------------------------
\* The elements linked from a head on, cut off when there are more than exist
Chain(head, links) ==
    LET from[n \in 0..NumElements + 1] ==
          IF n = 0 THEN <<>>
          ELSE LET above == from[n - 1]
                   ptr == IF above = <<>> THEN head.ptr
                                          ELSE links[above[Len(above)]].ptr
               IN  IF ptr = NULL THEN above ELSE Append(above, ptr)
    IN  from[NumElements + 1]

Stack == Chain(top, next)

\* Where a push has not taken effect yet
PushSteps == {"push_pointer", "push_counter", "push_next_pointer",
              "push_next_counter", "push_dcas"}

(***************************************************************************)
(* Each element is in one place: linked once from top, in the hands of one *)
(* thread that has popped it or not yet pushed it, or in use.              *)
(***************************************************************************)
OnePlace ==
    \A e \in Elements :
        Cardinality({k \in DOMAIN Stack : Stack[k] = e})
        + Cardinality({t \in Threads : pc[t] = "popped" /\ local[t].ptr = e})
        + Cardinality({t \in Threads : pc[t] \in PushSteps
                                       /\ exchange[t].ptr = e})
        + Cardinality({x \in taken : x = e}) = 1

(***************************************************************************)
(* The freelist is a stack although its pointers are read in two halves    *)
(* and elements come back while a pop is under way: the counters defeat    *)
(* the ABA problem.  A pop takes effect at its DCAS, or when it finds the  *)
(* NULL pointer; a push at its DCAS.                                       *)
(***************************************************************************)
CallOf(t) ==
    CASE pc[t] = "idle" -> [at |-> "idle"]
      [] pc[t] = "popped" \/ (pc[t] = "pop_test" /\ local[t].ptr = NULL)
            -> [at |-> "popped", elem |-> local[t].ptr]
      [] pc[t] = "pushed" -> [at |-> "pushed"]
      [] pc[t] \in PushSteps -> [at |-> "pushing", elem |-> exchange[t].ptr]
      [] OTHER -> [at |-> "popping"]

Abstract == INSTANCE AbstractFreelist WITH
               stack <- Stack,
               call <- [t \in Threads |-> CallOf(t)],
               InitialStack <- [k \in Elements |-> NumElements + 1 - k]

ImplementsFreelist == Abstract!Spec
-----------------------------------------------------------------------------
(***************************************************************************)
(* The inductive invariant.  S is the list in memory with the counter that *)
(* each element was pushed with; all of the invariant but the types is     *)
(* about the relation of that list to what the threads have read.          *)
(***************************************************************************)
Pairs == [ptr : Elements \cup {NULL}, ctr : Nat]
Stamped == [ptr : Elements, ctr : Nat]

\* Where a pop has read a counter that its DCAS will compare
PopReads == {"pop_pointer", "pop_test", "pop_next_counter", "pop_dcas"}
PopLinks == {"pop_next_counter", "pop_dcas"}

TypesInv ==
    /\ aba_counter \in Nat
    /\ taken \subseteq Elements
    /\ next \in [Elements -> Pairs]
    /\ local \in [Threads -> Pairs]
    /\ exchange \in [Threads -> Pairs]
    /\ pc \in [Threads -> {"idle", "pop_counter", "popped", "pushed"}
                            \cup PopReads \cup PushSteps]
    /\ \A t \in Threads : /\ pc[t] \in PushSteps => exchange[t].ptr \in Elements
                          /\ pc[t] \in PopLinks => local[t].ptr \in Elements

\* S is what head and links lead through, to its end, and no element twice.
IsList(S, head, links) ==
    /\ \A j, k \in 1..Len(S) : S[j].ptr = S[k].ptr => j = k
    /\ head = IF S = <<>> THEN NoPair ELSE S[1]
    /\ \A k \in 1..Len(S) :
          links[S[k].ptr] = IF k = Len(S) THEN NoPair ELSE S[k + 1]

\* The counter of a push is no other's: not in the list, not of another push,
\* and not what a pop has read.
FreshInv(S) ==
    /\ \A k \in 1..Len(S) : S[k].ctr <= aba_counter
    /\ \A t \in Threads : local[t].ctr <= aba_counter
    /\ \A t \in Threads : pc[t] \in PushSteps =>
          /\ 0 < exchange[t].ctr /\ exchange[t].ctr <= aba_counter
          /\ \A k \in 1..Len(S) : S[k].ctr # exchange[t].ctr
          /\ \A u \in Threads \ {t} :
                /\ pc[u] \in PushSteps => exchange[u].ctr # exchange[t].ctr
                /\ pc[u] \in PopReads => local[u].ctr # exchange[t].ctr

\* As long as the pair that a pop has read is in the list, what it has read of
\* that element's link is still so.
PopInv(S) ==
    \A t \in Threads : (\E k \in 1..Len(S) : S[k] = local[t]) =>
        /\ pc[t] \in PopLinks => exchange[t].ptr = next[local[t].ptr].ptr
        /\ pc[t] = "pop_dcas" => exchange[t].ctr = next[local[t].ptr].ctr

\* The element being pushed has been linked to what the DCAS will compare.
PushInv ==
    \A t \in Threads :
        /\ pc[t] \in {"push_next_counter", "push_dcas"}
              => next[exchange[t].ptr].ptr = local[t].ptr
        /\ pc[t] = "push_dcas" => next[exchange[t].ptr].ctr = local[t].ctr

\* Thread t has element e, and nobody else.
Holds(t, e) == \/ pc[t] = "popped" /\ local[t].ptr = e
               \/ pc[t] \in PushSteps /\ exchange[t].ptr = e

Listed(S, e) == \E k \in 1..Len(S) : S[k].ptr = e

PlaceInv(S) ==
    \A e \in Elements :
        /\ Listed(S, e) \/ e \in taken \/ \E t \in Threads : Holds(t, e)
        /\ Listed(S, e) => e \notin taken
        /\ \A t \in Threads : Holds(t, e) =>
              /\ e \notin taken
              /\ ~Listed(S, e)
              /\ \A u \in Threads : Holds(u, e) => u = t

ListInv(S) == /\ IsList(S, top, next)
              /\ FreshInv(S)
              /\ PopInv(S)
              /\ PlaceInv(S)

IInv == TypesInv /\ PushInv /\ \E S \in Seq(Stamped) : ListInv(S)
=============================================================================
