------------------------------ MODULE MCEventHub ------------------------------
(* A small instance of EventHub.                                              *)
EXTENDS EventHub, TLC

CONSTANTS b1, b2, s1, s2

\* The worker broadcasts twice, as for one transmutation, a handler once.
MCMaxEvents == b1 :> 2 @@ b2 :> 1
=============================================================================
