---------------------------- MODULE AbstractDcas ----------------------------
(***************************************************************************)
(* What abstraction_dcas promises: at one moment during the call the       *)
(* destination is compared with compare and, if equal, replaced by         *)
(* exchange; the call returns whether it was, and the original value.      *)
(***************************************************************************)
CONSTANTS Threads, Pairs, Initial

VARIABLES destination,
          status,    \* "idle", "called" or "done", for each thread
          compare, exchange, \* the arguments of each thread's call
          result     \* of a call that is done

vars == <<destination, status, compare, exchange, result>>

None == [swapped |-> FALSE, original |-> "none"]

Init == /\ destination = Initial
        /\ status = [t \in Threads |-> "idle"]
        /\ compare \in [Threads -> Pairs]
        /\ exchange \in [Threads -> Pairs]
        /\ result = [t \in Threads |-> None]

Call(t) == /\ status[t] = "idle"
           /\ status' = [status EXCEPT ![t] = "called"]
           /\ \E c, x \in Pairs : /\ compare' = [compare EXCEPT ![t] = c]
                                  /\ exchange' = [exchange EXCEPT ![t] = x]
           /\ UNCHANGED <<destination, result>>

Dcas(t) == /\ status[t] = "called"
           /\ status' = [status EXCEPT ![t] = "done"]
           /\ result' = [result EXCEPT ![t] =
                           [swapped |-> destination = compare[t],
                            original |-> destination]]
           /\ destination' = IF destination = compare[t] THEN exchange[t]
                                                         ELSE destination
           /\ UNCHANGED <<compare, exchange>>

Return(t) == /\ status[t] = "done"
             /\ status' = [status EXCEPT ![t] = "idle"]
             /\ result' = [result EXCEPT ![t] = None]
             /\ UNCHANGED <<destination, compare, exchange>>

Next == \E t \in Threads : Call(t) \/ Dcas(t) \/ Return(t)

Spec == Init /\ [][Next]_vars
=============================================================================
