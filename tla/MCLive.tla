------------------------------- MODULE MCLive --------------------------------
(***************************************************************************)
(* Model checking of what must eventually happen, outside delivery and      *)
(* broadcasts: requests with an idempotency key are answered (Idempotency), *)
(* callers of the in-memory queue return (MemoryQueue) and no tenant's      *)
(* outbox rows starve (OutboxFair).  They share no state in the model, so a *)
(* behaviour runs one of them, the initial area, while the others keep      *)
(* their initial state; each action is fair in its own area.                *)
(***************************************************************************)
EXTENDS Idempotency, MemoryQueue

CONSTANTS
  r1, r2, r3,          \* requests, of which r3 has another payload
  Ids

VARIABLES
  area,
  pending, batch

OneOdd == [r \in {r1, r2, r3} |-> IF r = r3 THEN "p2" ELSE "p1"]

O == INSTANCE OutboxFair WITH Tenants <- {1, 2}, limit <- 1, maxFairTenants <- 2
Batch(n) == INSTANCE OutboxFair WITH Tenants <- {1, 2}, limit <- n, maxFairTenants <- 2

oVars == <<pending, batch>>
allVars == <<area, vars, memoryVars, oVars>>

InitArea ==
  /\ area \in {"keys", "queue", "outbox"}
  /\ Init /\ MemoryInit /\ O!Init

NextArea ==
  /\ UNCHANGED area
  /\ \/ area = "keys" /\ Next /\ UNCHANGED <<memoryVars, oVars>>
     \/ area = "queue" /\ MemoryNext /\ UNCHANGED <<vars, oVars>>
     \/ area = "outbox" /\ O!Next /\ UNCHANGED <<vars, memoryVars>>

(* The fairness of each component (Idempotency!LiveSpec and so on), in its   *)
(* own area.                                                               *)
KeysFairness == \A r \in Requests : WF_vars(area = "keys" /\ Step(r))
QueueFairness ==
  \A p \in Callers :
    /\ WF_memoryVars(area = "queue" /\ Enqueue(p)) /\ WF_memoryVars(area = "queue" /\ Claim(p))
    /\ WF_memoryVars(area = "queue" /\ TimerFires(p))
OutboxFairness ==
  /\ WF_oVars(area = "outbox" /\ O!ListPendingOutbox)
  /\ WF_oVars(area = "outbox" /\ (O!Skip \/ \E id \in Ids : O!HandOver(id)))
  /\ \A id \in Ids : SF_oVars(area = "outbox" /\ O!HandOver(id))

SpecOfAreas ==
  /\ InitArea /\ [][NextArea]_allVars
  /\ KeysFairness /\ QueueFairness /\ OutboxFairness

(* Every request is answered: those that wait for a claim which is never    *)
(* completed stop at the poll's deadline (pollIdempotencyCompletion); and    *)
(* none loses a fresh claim to another (ReleaseIdempotencyKey).             *)
RequestsAreServed ==
  /\ \A r \in Requests : area = "keys" ~> pc[r] = "done"
  /\ FreshClaimIsSafe

(* Every due outbox row is handed to the queue, and no tenant's rows are     *)
(* pushed out of a batch, of whatever size, by another tenant's backlog     *)
(* (ListPendingOutbox, fairOutboxSQL).                                     *)
OutboxIsFair == O!NoTenantStarves /\ [](\A n \in 1..3 : Batch(n)!BatchIsShared)
=============================================================================
