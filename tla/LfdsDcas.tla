------------------------------ MODULE LfdsDcas ------------------------------
(***************************************************************************)
(* abstraction_dcas on ARM, instruction by instruction: a double-word      *)
(* compare-and-swap made of ldrexd, which loads the destination and        *)
(* reserves it for the thread, and strexd, which stores only while the     *)
(* reservation stands.  A store of any thread takes the reservations of    *)
(* the others away, and a context switch may take one away for no reason.  *)
(*                                                                         *)
(* A pair of words is one value here: ldrexd and strexd move both words at *)
(* once, and the other loads are of the caller's own memory.               *)
(***************************************************************************)
CONSTANTS Threads,
          Pairs,     \* values of a double word
          Initial    \* the destination's first value

ASSUME DcasAssumption == Initial \in Pairs

VARIABLES destination,
          reserved,  \* threads whose reservation of destination stands
          at,        \* the next instruction of each thread, or "idle"
          exchange,  \* local_exchange_a and _b of each thread
          compare,   \* local_compare_a and _b
          original,  \* original_destination_a and _b
          stored_flag

dcas_vars == <<destination, reserved, at, exchange, compare, original, stored_flag>>

Goto(t, from, to) == at[t] = from /\ at' = [at EXCEPT ![t] = to]

DcasInit == /\ destination = Initial
            /\ reserved = {}
            /\ at = [t \in Threads |-> "idle"]
            /\ exchange = [t \in Threads |-> Initial]
            /\ compare = [t \in Threads |-> Initial]
            /\ original = [t \in Threads |-> Initial]
            /\ stored_flag = [t \in Threads |-> 1]

\* Mutant: stored_flag is left as it was.
LoadKeepFlag(t) == /\ Goto(t, "idle", "ldrexd")
                   /\ \E x, c \in Pairs :
                         /\ exchange' = [exchange EXCEPT ![t] = x]
                         /\ compare' = [compare EXCEPT ![t] = c]
                   /\ UNCHANGED <<destination, reserved, original, stored_flag>>

\* Set stored_flag to 1 and load the arguments.
Load(t) == /\ Goto(t, "idle", "ldrexd")
           /\ \E x, c \in Pairs : /\ exchange' = [exchange EXCEPT ![t] = x]
                                  /\ compare' = [compare EXCEPT ![t] = c]
           /\ stored_flag' = [stored_flag EXCEPT ![t] = 1]
           /\ UNCHANGED <<destination, reserved, original>>

\* Mutant: the wrong address register, *compare is loaded again.
LdrexdCompare(t) == /\ Goto(t, "ldrexd", "teq")
                    /\ original' = [original EXCEPT ![t] = compare[t]]
                    /\ reserved' = reserved \cup {t}
                    /\ UNCHANGED <<destination, exchange, compare, stored_flag>>

\* atomic_dcas: load the destination and reserve it.
Ldrexd(t) == /\ Goto(t, "ldrexd", "teq")
             /\ original' = [original EXCEPT ![t] = destination]
             /\ reserved' = reserved \cup {t}
             /\ UNCHANGED <<destination, exchange, compare, stored_flag>>

\* Leave when either word differs.
Teq(t) == /\ Goto(t, "teq", IF original[t] = compare[t] THEN "strexd" ELSE "exit")
          /\ UNCHANGED <<destination, reserved, exchange, compare, original,
                         stored_flag>>

\* The store of a thread whose reservation stands: it takes all away.
Strexd(t) == /\ Goto(t, "strexd", "retry")
             /\ t \in reserved
             /\ destination' = exchange[t]
             /\ stored_flag' = [stored_flag EXCEPT ![t] = 0]
             /\ reserved' = {}
             /\ UNCHANGED <<exchange, compare, original>>

\* The store of a thread whose reservation is gone.
StrexdFails(t) == /\ Goto(t, "strexd", "retry")
                  /\ t \notin reserved
                  /\ stored_flag' = [stored_flag EXCEPT ![t] = 1]
                  /\ UNCHANGED <<destination, reserved, exchange, compare,
                                 original>>

\* Try again unless stored.
Retry(t) == /\ Goto(t, "retry", IF stored_flag[t] = 0 THEN "exit" ELSE "ldrexd")
            /\ UNCHANGED <<destination, reserved, exchange, compare, original,
                           stored_flag>>

\* exit: the original value goes to *compare; return !stored_flag.
Exit(t) == /\ Goto(t, "exit", "idle")
           /\ UNCHANGED <<destination, reserved, exchange, compare, original,
                          stored_flag>>

\* A context switch clears the exclusive monitor.
LoseReservation(t) == /\ t \in reserved
                      /\ reserved' = reserved \ {t}
                      /\ UNCHANGED <<destination, at, exchange, compare,
                                     original, stored_flag>>

Dcas(t) == \/ Load(t) \/ Ldrexd(t) \/ Teq(t) \/ Strexd(t) \/ StrexdFails(t)
           \/ Retry(t) \/ Exit(t)

DcasNext == \E t \in Threads : Dcas(t) \/ LoseReservation(t)

DcasSpec == DcasInit /\ [][DcasNext]_dcas_vars
-----------------------------------------------------------------------------
\* The type invariant.
DcasTypeOK ==
    /\ destination \in Pairs
    /\ reserved \subseteq Threads
    /\ at \in [Threads -> {"idle", "ldrexd", "teq", "strexd", "retry", "exit"}]
    /\ exchange \in [Threads -> Pairs]
    /\ compare \in [Threads -> Pairs]
    /\ original \in [Threads -> Pairs]
    /\ stored_flag \in [Threads -> {0, 1}]

(***************************************************************************)
(* What a thread about to store compares with is still what the            *)
(* destination holds, as long as strexd will store: no store of another    *)
(* thread can come between without taking the reservation away.            *)
(***************************************************************************)
ReservationValid ==
    \A t \in reserved :
        at[t] \in {"teq", "strexd"} => original[t] = destination

\* A call has taken effect: it stored, or saw another value than compare.
Decided(t) == \/ at[t] = "exit"
              \/ at[t] = "retry" /\ stored_flag[t] = 0
              \/ at[t] = "teq" /\ original[t] # compare[t]

StatusOf(t) == IF at[t] = "idle" THEN "idle"
               ELSE IF Decided(t) THEN "done" ELSE "called"

ResultOf(t) == IF Decided(t)
               THEN [swapped |-> stored_flag[t] = 0, original |-> original[t]]
               ELSE [swapped |-> FALSE, original |-> "none"]

Abstract == INSTANCE AbstractDcas WITH
               status <- [t \in Threads |-> StatusOf(t)],
               result <- [t \in Threads |-> ResultOf(t)]

(***************************************************************************)
(* The instructions make one atomic compare-and-swap, although they try    *)
(* again and although a store by another thread, of the same value even,   *)
(* may come between any two of them.                                       *)
(***************************************************************************)
ImplementsDcas == Abstract!Spec
=============================================================================
