---------------------------- MODULE AbstractLatch ----------------------------
(***************************************************************************)
(* What a JacksLatch promises its users: a binary token.  A post makes the *)
(* token available, a get takes it away, and a get that finds no token     *)
(* does not return.  Every call takes effect atomically, at one moment     *)
(* between its invocation and its return.                                  *)
(***************************************************************************)

CONSTANTS Getters,   \* threads that call JacksLatch_get
          Posters    \* threads that call JacksLatch_post

VARIABLES posted,    \* is the token available?
          call       \* progress of each thread's call

vars == <<posted, call>>

Threads == Getters \cup Posters

Init == /\ posted = FALSE
        /\ call = [t \in Threads |-> "idle"]

Invoke(t) == /\ call[t] = "idle"
             /\ call' = [call EXCEPT ![t] = "pending"]
             /\ UNCHANGED posted

Take(t) == /\ call[t] = "pending"
           /\ posted
           /\ posted' = FALSE
           /\ call' = [call EXCEPT ![t] = "done"]

Give(t) == /\ call[t] = "pending"
           /\ posted' = TRUE
           /\ call' = [call EXCEPT ![t] = "done"]

Return(t) == /\ call[t] = "done"
             /\ call' = [call EXCEPT ![t] = "idle"]
             /\ UNCHANGED posted

Next == \/ \E t \in Threads : Invoke(t) \/ Return(t)
        \/ \E t \in Getters : Take(t)
        \/ \E t \in Posters : Give(t)

Spec == Init /\ [][Next]_vars
=============================================================================
