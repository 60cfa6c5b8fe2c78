---------------------------- MODULE MCLfdsQueue -----------------------------
(***************************************************************************)
(* LfdsQueue for TLC.                                                      *)
(***************************************************************************)
EXTENDS LfdsQueue, TLC

CONSTANTS p1, p2

\* One producer, and enough items for every element to be recycled.
OneProducer == p1 :> 0 @@ p2 :> 4

\* Two producers: one is overtaken by the two enqueues of the other.
TwoProducers == p1 :> 1 @@ p2 :> 2

MCLoads == {OneProducer, TwoProducers}

\* What memory holds before it is initialised varies with one producer only.
MCInit == /\ Init
          /\ load = TwoProducers =>
                \A ctr \in {enqueue.ctr, dequeue.ctr, next[Dummy].ctr} : ctr = 0

MCSpec == MCInit /\ [][Next]_vars
=============================================================================
