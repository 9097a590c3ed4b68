---------------------------- MODULE MCIdempotency ----------------------------
(* Three requests with one key, one of them with another payload. *)
EXTENDS Idempotency, TLC

CONSTANTS r1, r2, r3, p1, p2

OneOdd == [r \in Requests |-> IF r = r3 THEN p2 ELSE p1]
=============================================================================
