-------------------------- MODULE AbstractFreelist --------------------------
(***************************************************************************)
(* What the lfds freelist promises: a stack of elements.  A pop takes the  *)
(* top element or finds the stack empty, a push puts an element back, and  *)
(* each takes effect at one moment during its call.                        *)
(***************************************************************************)
EXTENDS Sequences

CONSTANTS Threads, Elements, NULL, InitialStack

VARIABLES stack,   \* top first
          call     \* progress of each thread's call

vars == <<stack, call>>

Idle == [at |-> "idle"]
Popping == [at |-> "popping"]
Pushing(e) == [at |-> "pushing", elem |-> e]
Popped(e) == [at |-> "popped", elem |-> e]
Pushed == [at |-> "pushed"]

Init == /\ stack = InitialStack
        /\ call = [t \in Threads |-> Idle]

Become(t, from, to) == /\ call[t] = from
                       /\ call' = [call EXCEPT ![t] = to]

Invoke(t) == /\ \/ Become(t, Idle, Popping)
                \/ \E e \in Elements : Become(t, Idle, Pushing(e))
             /\ UNCHANGED stack

Pop(t) == /\ stack # <<>>
          /\ Become(t, Popping, Popped(Head(stack)))
          /\ stack' = Tail(stack)

PopEmpty(t) == /\ stack = <<>>
               /\ Become(t, Popping, Popped(NULL))
               /\ UNCHANGED stack

Push(t) == \E e \in Elements : /\ Become(t, Pushing(e), Pushed)
                               /\ stack' = <<e>> \o stack

Return(t) == /\ \/ Become(t, Pushed, Idle)
                \/ \E e \in Elements \cup {NULL} : Become(t, Popped(e), Idle)
             /\ UNCHANGED stack

Next == \E t \in Threads :
           Invoke(t) \/ Pop(t) \/ PopEmpty(t) \/ Push(t) \/ Return(t)

Spec == Init /\ [][Next]_vars
=============================================================================
