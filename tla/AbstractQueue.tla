---------------------------- MODULE AbstractQueue ----------------------------
(***************************************************************************)
(* What the lfds queue promises: a first-in first-out queue of bounded     *)
(* size, shared by producers and consumers, in which every call takes      *)
(* effect at one moment between its invocation and its return.  One thing  *)
(* is weaker than in a linearizable queue: an enqueue may place its item   *)
(* behind that of another producer whose call is still in progress.  It    *)
(* returns, and its item stays invisible until the other call takes        *)
(* effect.  With a single producer that cannot happen.                     *)
(***************************************************************************)
EXTENDS Naturals, Sequences, FiniteSets

CONSTANTS Producers, Consumers,
          Items,      \* values that each producer may enqueue
          Capacity    \* number_elements of queue_new

VARIABLES items,      \* the queue, oldest item first
          behind,     \* items that wait for a producer's call to take effect
          call        \* progress of each thread's call

vars == <<items, behind, call>>

Threads == Producers \cup Consumers

Idle == [at |-> "idle"]
Pending == [at |-> "pending"]
Done(result) == [at |-> "done", result |-> result]

Init == /\ items = <<>>
        /\ behind = [p \in Producers |-> <<>>]
        /\ call = [t \in Threads |-> Idle]

Invoke(t) == /\ call[t] = Idle
             /\ call' = [call EXCEPT ![t] = Pending]
             /\ UNCHANGED <<items, behind>>

Return(t) == /\ call[t].at = "done"
             /\ call' = [call EXCEPT ![t] = Idle]
             /\ UNCHANGED <<items, behind>>

\* Items that were accepted, whether they can be seen or not.  Those behind a
\* producer move with its item when it goes behind another one itself.
Waiting == UNION {{p} \X DOMAIN behind[p] : p \in Producers}
Accepted == Len(items) + Cardinality(Waiting)

Put(t) == /\ call[t] = Pending
          /\ call' = [call EXCEPT ![t] = Done("put")]
          /\ Accepted < Capacity
          /\ \E v \in Items[t] : items' = items \o <<v>> \o behind[t]
          /\ behind' = [behind EXCEPT ![t] = <<>>]

PutBehind(t, u) == /\ call[t] = Pending
                   /\ call[u] = Pending
                   /\ call' = [call EXCEPT ![t] = Done("put")]
                   /\ Accepted < Capacity
                   /\ \E v \in Items[t] :
                         behind' = [behind EXCEPT ![u] = @ \o <<v>> \o behind[t],
                                                  ![t] = <<>>]
                   /\ UNCHANGED items

\* An enqueue may be refused only if the items accepted and the calls of
\* other threads in progress account for the whole capacity.
Refuse(t) == /\ call[t] = Pending
             /\ call' = [call EXCEPT ![t] = Done("refused")]
             /\ behind[t] = <<>>
             /\ Accepted + Cardinality({u \in Threads \ {t} : call[u] # Idle})
                   >= Capacity
             /\ UNCHANGED <<items, behind>>

Get(t) == /\ call[t] = Pending
          /\ items # <<>>
          /\ call' = [call EXCEPT ![t] = Done(Head(items))]
          /\ items' = Tail(items)
          /\ UNCHANGED behind

Empty(t) == /\ call[t] = Pending
            /\ call' = [call EXCEPT ![t] = Done("empty")]
            /\ items = <<>>
            /\ UNCHANGED <<items, behind>>

Next == \/ \E t \in Threads : Invoke(t) \/ Return(t)
        \/ \E t \in Producers : Put(t) \/ Refuse(t)
        \/ \E t \in Producers : \E u \in Producers \ {t} : PutBehind(t, u)
        \/ \E t \in Consumers : Get(t) \/ Empty(t)

Spec == Init /\ [][Next]_vars
=============================================================================
