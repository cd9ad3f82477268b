--------------------------- MODULE MCUserOpQueue ---------------------------
(***************************************************************************)
(* UserOpQueue with two senders; the idle time is one tick of the clock.    *)
(***************************************************************************)
EXTENDS UserOpQueue, TLC

CONSTANTS q1, q2, alice, bob

OneQueue == {q1}
TwoQueues == {q1, q2}
MCSenders == {alice, bob}
Symmetric == Permutations(TwoQueues) \cup Permutations(MCSenders)
===========================================================================
