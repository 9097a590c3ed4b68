----------------------------- MODULE MCDelivery -----------------------------
(* Model-checking instances of Delivery.                                   *)
EXTENDS Delivery, TLC

CONSTANTS w1, w2, p1, p2

\* Two workers in one process.
OneProcess == w1 :> p1 @@ w2 :> p1

\* One worker in each of two processes.
TwoProcesses == w1 :> p1 @@ w2 :> p2
=============================================================================
