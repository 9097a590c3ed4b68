------------------------------ MODULE JobQueue ------------------------------
(***************************************************************************)
(* The contract of internal/queue/queue.go: a bounded set of active jobs,  *)
(* each owned by at most one claim, every claim named by a fresh token.    *)
(* It says nothing of scores, leases or heaps.  RedisQueue and MemoryQueue *)
(* are shown to implement it, and Delivery is composed with it.            *)
(***************************************************************************)
EXTENDS Naturals, FiniteSets

CONSTANTS Jobs,      \* job identifiers (the dispatcher uses the message ID)
          Capacity   \* bound on active (available + claimed) jobs

VARIABLES active,    \* jobs accepted by Enqueue and not yet Ack'd
          deferred,  \* active jobs whose AvailableAt is still in the future
          owner,     \* owner[j]: token of the claim that owns j, 0 for none
          issued     \* the last token handed out

queueVars == <<active, deferred, owner, issued>>

QueueTypeOK ==
    /\ active \subseteq Jobs
    /\ deferred \subseteq active
    /\ owner \in [Jobs -> Nat]
    /\ issued \in Nat

QueueInit ==
    /\ active = {}
    /\ deferred = {}
    /\ owner = [j \in Jobs |-> 0]
    /\ issued = 0

\* deferred after job j became available, in the future when later is TRUE.
Deferral(j, later) == IF later THEN deferred \cup {j} ELSE deferred

(***************************************************************************)
(* Enqueue blocks at capacity and is a no-op for an active job; both are   *)
(* stuttering steps here.                                                  *)
(***************************************************************************)
EnqueueJob(j, later) ==
    /\ j \notin active
    /\ Cardinality(active) < Capacity
    /\ active' = active \cup {j}
    /\ deferred' = Deferral(j, later)
    /\ UNCHANGED <<owner, issued>>

\* Time passes and the jobs of S come due.
ComeDue(S) ==
    /\ S # {} /\ S \subseteq deferred
    /\ deferred' = deferred \ S
    /\ UNCHANGED <<active, owner, issued>>

Owned == {j \in active : owner[j] # 0}

(***************************************************************************)
(* Claim hands job j to a fresh token.  A durable queue first takes back   *)
(* the claims of E, whose leases ran out; j may be one of them.            *)
(***************************************************************************)
ClaimJob(E, j) ==
    /\ E \subseteq Owned
    /\ j \in active \ deferred
    /\ j \in E \/ owner[j] = 0
    /\ issued' = issued + 1
    /\ owner' = [k \in Jobs |-> IF k = j THEN issued + 1
                                ELSE IF k \in E THEN 0 ELSE owner[k]]
    /\ UNCHANGED <<active, deferred>>

\* Ack, fenced by the token: the job is complete and its slot free.
AckJob(j, t) ==
    /\ j \in Owned /\ owner[j] = t
    /\ active' = active \ {j}
    /\ owner' = [owner EXCEPT ![j] = 0]
    /\ UNCHANGED <<deferred, issued>>

\* Release, fenced by the token: the job is claimable again, maybe later.
ReleaseJob(j, t, later) ==
    /\ j \in Owned /\ owner[j] = t
    /\ owner' = [owner EXCEPT ![j] = 0]
    /\ deferred' = Deferral(j, later)
    /\ UNCHANGED <<active, issued>>

QueueNext ==
    \/ \E S \in SUBSET deferred : ComeDue(S)
    \/ \E j \in Jobs :
        \/ \E later \in BOOLEAN : EnqueueJob(j, later)
        \/ \E E \in SUBSET Owned : ClaimJob(E, j)
        \/ AckJob(j, owner[j])
        \/ \E later \in BOOLEAN : ReleaseJob(j, owner[j], later)

QueueSpec == QueueInit /\ [][QueueNext]_queueVars
=============================================================================
