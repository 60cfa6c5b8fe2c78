----------------------------- MODULE LfdsQueue ------------------------------
(***************************************************************************)
(* corelib/lfds/queue_queue.c and queue_new.c: the Michael and Scott queue *)
(* that carries events from JACK's threads to the script.                  *)
(*                                                                         *)
(* A pointer is stored with a counter in two adjacent words.  A read of    *)
(* such a pair is two reads, a DCAS compares and replaces both at once.    *)
(* Each access to a shared word is one step; an increment of aba_counter   *)
(* goes with the store that uses it.  The freelist is atomic here.         *)
(* Counters are 64 bits wide in the code; here they do not wrap.           *)
(***************************************************************************)
EXTENDS Integers, Sequences, FiniteSets

CONSTANTS Producers,   \* threads that call queue_enqueue
          Consumers,   \* threads that call queue_dequeue
          Capacity,    \* number_elements of queue_new
          Loads,       \* how many enqueues the producers make, a bound for TLC
          Garbage      \* what may be found in memory nobody initialised

ASSUME LfdsQueueAssumption ==
    /\ Producers \cap Consumers = {}
    /\ IsFiniteSet(Producers) /\ IsFiniteSet(Consumers)
    /\ Capacity \in Nat \ {0}
    /\ Loads \subseteq [Producers -> Nat]
    /\ Garbage \subseteq Int

Threads == Producers \cup Consumers

\* queue_new allocates one element more than it was asked for, as a dummy.
Elements == 1..(Capacity + 1)
NULL == 0
Dummy == 1

\* Adding 1 to a counter that has pointer type adds the size of an element.
PtrStep == 32

Pair(ptr, ctr) == [ptr |-> ptr, ctr |-> ctr]
NoPair == Pair(NULL, 0)

\* abstraction_increment, with the compiler's atomic add
Increment(value) == value + 1

\* abstraction_dcas, with cmpxchg16b: what destination holds afterwards
Dcas(destination, exchg, compare) ==
    IF destination = compare THEN exchg ELSE destination

\* The k-th item of a producer.
Item(p, k) == <<p, k>>
NoItem == <<"none", 0>>

VARIABLES enqueue,     \* qs->enqueue
          dequeue,     \* qs->dequeue
          next,        \* the next pair of each element
          user_data,   \* user_data of each element
          freelist,    \* elements in qs->fs, top first
          aba_counter, \* qs->aba_counter
          load,        \* the one of Loads this run has
          sent,        \* how often each producer has called queue_enqueue
          elem,        \* element a thread has taken or has to give back
          enq,         \* a thread's local copy of enqueue
          deq,         \* a thread's local copy of dequeue
          nxt,         \* a thread's local copy of a next pair
          out,         \* *user_data of each consumer's call
          pc

shared == <<enqueue, dequeue, next, user_data, freelist, aba_counter>>
local == <<load, sent, elem, enq, deq, nxt, out>>
vars == <<shared, local, pc>>

\* queue_new: the counters of enqueue, dequeue and the dummy's next pair are
\* never initialised.
Init == /\ \E g \in Garbage : enqueue = Pair(Dummy, g)
        /\ \E g \in Garbage : dequeue = Pair(Dummy, g)
        /\ \E g \in Garbage : next = [e \in Elements |-> Pair(NULL, g)]
        /\ user_data = [e \in Elements |-> NoItem]
        /\ freelist = [k \in 1..Capacity |-> k + 1]
        /\ aba_counter = 0
        /\ load \in Loads
        /\ sent = [p \in Producers |-> 0]
        /\ elem = [t \in Threads |-> NULL]
        /\ enq = [t \in Threads |-> NoPair]
        /\ deq = [t \in Threads |-> NoPair]
        /\ nxt = [t \in Threads |-> NoPair]
        /\ out = [c \in Consumers |-> NoItem]
        /\ pc = [t \in Threads |-> "idle"]

Goto(t, from, to) == /\ pc[t] = from
                     /\ pc' = [pc EXCEPT ![t] = to]

\* Local variables are dead once a call has returned.
Forget(t) == /\ elem' = [elem EXCEPT ![t] = NULL]
             /\ enq' = [enq EXCEPT ![t] = NoPair]
             /\ deq' = [deq EXCEPT ![t] = NoPair]
             /\ nxt' = [nxt EXCEPT ![t] = NoPair]
-----------------------------------------------------------------------------
(* queue_enqueue *)

EnqueueCall(p) == /\ sent[p] < load[p]
                  /\ Goto(p, "idle", "pop")
                  /\ sent' = [sent EXCEPT ![p] = @ + 1]
                  /\ UNCHANGED <<shared, load, elem, enq, deq, nxt, out>>

\* freelist_pop
PopElement(p) == /\ freelist # <<>>
                 /\ Goto(p, "pop", "init_pointer")
                 /\ elem' = [elem EXCEPT ![p] = Head(freelist)]
                 /\ freelist' = Tail(freelist)
                 /\ UNCHANGED <<enqueue, dequeue, next, user_data, aba_counter,
                                load, sent, enq, deq, nxt, out>>

PopFails(p) == /\ freelist = <<>>
               /\ Goto(p, "pop", "return_0")
               /\ UNCHANGED <<shared, local>>

\* queue_internal_init_element: qe's own counter, then next[QUEUE_POINTER]
InitPointer(p) == /\ Goto(p, "init_pointer", "init_counter")
                  /\ aba_counter' = Increment(aba_counter)
                  /\ next' = [next EXCEPT ![elem[p]].ptr = NULL]
                  /\ UNCHANGED <<enqueue, dequeue, user_data, freelist, local>>

\* next[QUEUE_COUNTER] and user_data
InitCounter(p) == /\ Goto(p, "init_counter", "enq_pointer")
                  /\ aba_counter' = Increment(aba_counter)
                  /\ next' = [next EXCEPT ![elem[p]].ctr = aba_counter']
                  /\ user_data' = [user_data EXCEPT ![elem[p]] = Item(p, sent[p])]
                  /\ UNCHANGED <<enqueue, dequeue, freelist, local>>

\* queue_internal_queue reads enqueue, and next of the element found there
ReadEnqueuePointer(t, from, to) ==
    /\ Goto(t, from, to)
    /\ enq' = [enq EXCEPT ![t] = Pair(enqueue.ptr, 0)]
    /\ UNCHANGED <<shared, load, sent, elem, deq, nxt, out>>

ReadEnqueueCounter(t, from, to) ==
    /\ Goto(t, from, to)
    /\ enq' = [enq EXCEPT ![t].ctr = enqueue.ctr]
    /\ UNCHANGED <<shared, load, sent, elem, deq, nxt, out>>

ReadNextPointer(t, e, from, to) ==
    /\ Goto(t, from, to)
    /\ nxt' = [nxt EXCEPT ![t] = Pair(next[e].ptr, 0)]
    /\ UNCHANGED <<shared, load, sent, elem, enq, deq, out>>

ReadNextCounter(t, e, from, to) ==
    /\ Goto(t, from, to)
    /\ nxt' = [nxt EXCEPT ![t].ctr = next[e].ctr]
    /\ UNCHANGED <<shared, load, sent, elem, enq, deq, out>>

\* Has qs->enqueue moved since it was read?  First the pointer is compared.
CheckEnqueuePointer(p) ==
    /\ Goto(p, "check", IF enqueue.ptr # enq[p].ptr THEN "enq_pointer"
                                                   ELSE "check_counter")
    /\ UNCHANGED <<shared, local>>

\* Mutant: the NULL test the wrong way round.
CheckSwapped(p) ==
    /\ Goto(p, "check_counter", IF enqueue.ctr # enq[p].ctr THEN "enq_pointer"
                                ELSE IF nxt[p].ptr = NULL THEN "help" ELSE "link")
    /\ UNCHANGED <<shared, local>>

\* Then its counter; what next told decides how to go on.
CheckEnqueue(p) ==
    /\ Goto(p, "check_counter", IF enqueue.ctr # enq[p].ctr THEN "enq_pointer"
                                ELSE IF nxt[p].ptr = NULL THEN "link" ELSE "help")
    /\ UNCHANGED <<shared, local>>

\* DCAS on next of the last element: on success the item is in the queue.
LinkElement(p) ==
    /\ pc[p] = "link"
    /\ next' = [next EXCEPT ![enq[p].ptr] =
                   Dcas(@, Pair(elem[p], nxt[p].ctr + PtrStep), nxt[p])]
    /\ Goto(p, "link", IF next[enq[p].ptr] = nxt[p] THEN "swing" ELSE "enq_pointer")
    /\ UNCHANGED <<enqueue, dequeue, user_data, freelist, aba_counter, local>>

\* DCAS on qs->enqueue, to e, whatever it returns
SwingEnqueue(t, e, from, to) ==
    /\ Goto(t, from, to)
    /\ enqueue' = Dcas(enqueue, Pair(e, enq[t].ctr + PtrStep), enq[t])
    /\ UNCHANGED <<dequeue, next, user_data, freelist, aba_counter, local>>

EnqueueReturn(p) == /\ \/ Goto(p, "return_1", "idle")
                       \/ Goto(p, "return_0", "idle")
                    /\ Forget(p)
                    /\ UNCHANGED <<shared, load, sent, out>>

Enqueue(p) == \/ EnqueueCall(p) \/ PopElement(p) \/ PopFails(p)
              \/ InitPointer(p) \/ InitCounter(p)
              \/ ReadEnqueuePointer(p, "enq_pointer", "enq_counter")
              \/ ReadEnqueueCounter(p, "enq_counter", "next_pointer")
              \/ ReadNextPointer(p, enq[p].ptr, "next_pointer", "next_counter")
              \/ ReadNextCounter(p, enq[p].ptr, "next_counter", "check")
              \/ CheckEnqueuePointer(p) \/ CheckEnqueue(p) \/ LinkElement(p)
              \/ SwingEnqueue(p, nxt[p].ptr, "help", "enq_pointer")
              \/ SwingEnqueue(p, elem[p], "swing", "return_1")
              \/ EnqueueReturn(p)
-----------------------------------------------------------------------------
(* queue_dequeue *)

DequeueCall(c) == /\ Goto(c, "idle", "deq_pointer")
                  /\ UNCHANGED <<shared, local>>

ReadDequeuePointer(c) == /\ Goto(c, "deq_pointer", "deq_counter")
                         /\ deq' = [deq EXCEPT ![c] = Pair(dequeue.ptr, 0)]
                         /\ UNCHANGED <<shared, load, sent, elem, enq, nxt, out>>

ReadDequeueCounter(c) == /\ Goto(c, "deq_counter", "enq_pointer")
                         /\ deq' = [deq EXCEPT ![c].ctr = dequeue.ctr]
                         /\ UNCHANGED <<shared, load, sent, elem, enq, nxt, out>>

\* Has qs->dequeue moved?
CheckDequeuePointer(c) ==
    /\ Goto(c, "check", IF dequeue.ptr # deq[c].ptr THEN "deq_pointer"
                                                   ELSE "check_counter")
    /\ UNCHANGED <<shared, local>>

\* Mutant: no test for an empty queue.
CheckNeverEmpty(c) ==
    /\ Goto(c, "check_counter",
            IF dequeue.ctr # deq[c].ctr THEN "deq_pointer"
            ELSE IF enq[c].ptr = deq[c].ptr /\ nxt[c].ptr # NULL THEN "help"
            ELSE "user_data")
    /\ UNCHANGED <<shared, local>>

\* If it has not, the copies tell which state the queue is in.
CheckDequeue(c) ==
    /\ Goto(c, "check_counter",
            IF dequeue.ctr # deq[c].ctr THEN "deq_pointer"
            ELSE IF enq[c].ptr # deq[c].ptr THEN "user_data"
            ELSE IF nxt[c].ptr = NULL THEN "return_0" ELSE "help")
    /\ UNCHANGED <<shared, local>>

\* Mutant: the item is taken from the dummy instead of its successor.
ReadDummyData(c) == /\ Goto(c, "user_data", "advance")
                    /\ out' = [out EXCEPT ![c] = user_data[deq[c].ptr]]
                    /\ UNCHANGED <<shared, load, sent, elem, enq, deq, nxt>>

\* *user_data = next[QUEUE_POINTER]->user_data
ReadUserData(c) == /\ Goto(c, "user_data", "advance")
                   /\ out' = [out EXCEPT ![c] = user_data[nxt[c].ptr]]
                   /\ UNCHANGED <<shared, load, sent, elem, enq, deq, nxt>>

\* Mutant: the new dummy is given back, not the old one.
AdvanceKeepOld(c) ==
    /\ IF dequeue = deq[c]
       THEN /\ dequeue' = Pair(nxt[c].ptr, deq[c].ctr + PtrStep)
            /\ elem' = [elem EXCEPT ![c] = nxt[c].ptr]
            /\ Goto(c, "advance", "push")
       ELSE /\ Goto(c, "advance", "deq_pointer")
            /\ UNCHANGED <<dequeue, elem>>
    /\ UNCHANGED <<enqueue, next, user_data, freelist, aba_counter, load, sent, enq,
                   deq, nxt, out>>

\* DCAS on qs->dequeue: on success the item has left the queue.
AdvanceDequeue(c) ==
    /\ dequeue' = Dcas(dequeue, Pair(nxt[c].ptr, deq[c].ctr + PtrStep), deq[c])
    /\ IF dequeue = deq[c]
       THEN /\ elem' = [elem EXCEPT ![c] = deq[c].ptr]
            /\ Goto(c, "advance", "push")
       ELSE /\ Goto(c, "advance", "deq_pointer")
            /\ UNCHANGED elem
    /\ UNCHANGED <<enqueue, next, user_data, freelist, aba_counter, load, sent, enq,
                   deq, nxt, out>>

\* freelist_push gives the old dummy back.
PushElement(c) == /\ Goto(c, "push", "return_1")
                  /\ freelist' = <<elem[c]>> \o freelist
                  /\ elem' = [elem EXCEPT ![c] = NULL]
                  /\ UNCHANGED <<enqueue, dequeue, next, user_data, aba_counter,
                                 load, sent, enq, deq, nxt, out>>

DequeueReturn(c) == /\ \/ Goto(c, "return_1", "idle")
                       \/ Goto(c, "return_0", "idle")
                    /\ Forget(c)
                    /\ out' = [out EXCEPT ![c] = NoItem]
                    /\ UNCHANGED <<shared, load, sent>>

Dequeue(c) == \/ DequeueCall(c) \/ ReadDequeuePointer(c) \/ ReadDequeueCounter(c)
              \/ ReadEnqueuePointer(c, "enq_pointer", "enq_counter")
              \/ ReadEnqueueCounter(c, "enq_counter", "next_pointer")
              \/ ReadNextPointer(c, deq[c].ptr, "next_pointer", "next_counter")
              \/ ReadNextCounter(c, deq[c].ptr, "next_counter", "check")
              \/ CheckDequeuePointer(c) \/ CheckDequeue(c)
              \/ SwingEnqueue(c, nxt[c].ptr, "help", "deq_pointer")
              \/ ReadUserData(c) \/ AdvanceDequeue(c) \/ PushElement(c)
              \/ DequeueReturn(c)
-----------------------------------------------------------------------------
Next == (\E p \in Producers : Enqueue(p)) \/ (\E c \in Consumers : Dequeue(c))

Spec == Init /\ [][Next]_vars
-----------------------------------------------------------------------------
\* The list from element e on, as links say, cut off when it is longer than there
\* are elements.
ChainFrom(e, links) ==
    LET follow[n \in 0..Capacity + 1] ==
          IF n = 0 THEN <<e>>
          ELSE LET before == follow[n - 1]
                   succ == links[before[Len(before)]].ptr
               IN  IF succ = NULL THEN before ELSE Append(before, succ)
    IN  follow[Capacity + 1]

Chain == ChainFrom(dequeue.ptr, next)

Members(seq) == {seq[k] : k \in DOMAIN seq}

\* The items of the elements that follow the first one of a list.
ItemsAfterFirst(chain) == [k \in 1..(Len(chain) - 1) |-> user_data[chain[k + 1]]]

\* What a consumer would find, oldest item first.
Contents == ItemsAfterFirst(Chain)

\* An element that is not linked yet, and what others linked to it.
Unlinked == {"init_counter", "enq_pointer", "enq_counter", "next_pointer",
             "next_counter", "check", "check_counter", "link", "help"}
Behind == [p \in Producers |-> IF pc[p] \in Unlinked
                                THEN ItemsAfterFirst(ChainFrom(elem[p], next)) ELSE <<>>]

ItemsOf == [p \in Producers |->
              {Item(p, k) : k \in UNION {1..l[p] : l \in Loads}}]
AllItems == UNION {ItemsOf[p] : p \in Producers}

\* Types of the shared variables.
TypeOK == /\ enqueue.ptr \in Elements
          /\ dequeue.ptr \in Elements
          /\ \A e \in Elements : next[e].ptr \in Elements \cup {NULL}
          /\ freelist \in Seq(Elements)
          /\ user_data \in [Elements -> AllItems \cup {NoItem}]

(***************************************************************************)
(* No element is in two places: the freelist holds none twice, none that   *)
(* is linked, the list has no loop, and an element that a producer has not *)
(* linked yet, or a consumer not given back, is in neither.                *)
(***************************************************************************)
ElementsDisjoint ==
    LET chain == Chain
        linked == Members(chain)
        free == Members(freelist)
    IN  /\ Len(freelist) = Cardinality(free)
        /\ Len(chain) = Cardinality(linked)
        /\ free \cap linked = {}
        /\ \A t \in Threads :
              elem[t] # NULL /\ pc[t] \notin {"swing", "return_1"} =>
                  elem[t] \notin free \cup linked

\* queue_dequeue never follows a NULL next pointer to user_data.
NoNullDereference ==
    \A c \in Consumers : pc[c] = "user_data" => nxt[c].ptr # NULL
-----------------------------------------------------------------------------
(***************************************************************************)
(* The queue is a bounded FIFO queue in which an enqueue may end up behind *)
(* one that is still in progress: a producer that read the next pair of    *)
(* the last element while it was being linked can find the same pair in    *)
(* that element later, when another producer is about to enqueue it again. *)
(* An enqueue takes effect when it links its element, a dequeue when it    *)
(* moves qs->dequeue, or when it reads a NULL next pointer.  No item is    *)
(* lost, none is delivered twice, and those of one producer keep their     *)
(* order unless one of them went behind another producer's.                *)
(***************************************************************************)
CallOf(t) ==
    CASE pc[t] = "idle" -> [at |-> "idle"]
      [] t \in Producers /\ pc[t] = "return_0" -> [at |-> "done", result |-> "refused"]
      [] t \in Producers /\ pc[t] \in {"swing", "return_1"}
            -> [at |-> "done", result |-> "put"]
      [] t \in Consumers /\ \/ pc[t] = "return_0"
                            \/ /\ pc[t] \in {"next_counter", "check", "check_counter"}
                               /\ nxt[t].ptr = NULL
            -> [at |-> "done", result |-> "empty"]
      [] t \in Consumers /\ pc[t] \in {"push", "return_1"}
            -> [at |-> "done", result |-> out[t]]
      [] OTHER -> [at |-> "pending"]

Abstract == INSTANCE AbstractQueue WITH
               items <- Contents,
               behind <- Behind,
               call <- [t \in Threads |-> CallOf(t)],
               Items <- ItemsOf

ImplementsQueue == Abstract!Spec
=============================================================================
