----------------------------- MODULE RedisQueue -----------------------------
(***************************************************************************)
(* internal/queue/redis.go and redis_scripts.go: the queue every MailX     *)
(* process shares.  Each operation is one Lua script, so it is one action; *)
(* what interleaves are the scripts of different clients, the passing of   *)
(* time, and the clients' habit of acting on claims they no longer own.    *)
(*                                                                         *)
(* now is the most advanced of the clients' clocks.  A script runs with    *)
(* the time its caller read before the call, so any reading up to MaxLag   *)
(* behind now can arrive: slow calls and slow clocks alike.                *)
(***************************************************************************)
EXTENDS Naturals, FiniteSets

CONSTANTS Jobs, Clients,
          Capacity,      \* RedisConfig.Capacity
          Lease,         \* RedisConfig.ClaimLease
          ReclaimLimit,  \* reclaimBatchLimit
          MaxLag,        \* how far a reading may trail the fastest clock
          MaxTime,       \* bound on now
          MaxToken       \* bound on tokenSeq

ASSUME QueueAssumption ==
    /\ Capacity \in Nat \ {0}
    /\ Lease \in Nat \ {0}
    /\ ReclaimLimit \in Nat \ {0}
    /\ MaxLag \in Nat /\ MaxTime \in Nat /\ MaxToken \in Nat

VARIABLES now,
          jobKeys,      \* jobs whose HASH exists
          available,    \* members of the ZSET "available"
          availableAt,  \* their scores (also the HASH field available_at)
          claimed,      \* members of the ZSET "claimed"
          leaseExpiry,  \* their scores
          token,        \* HASH field token, 0 while unowned
          tokenSeq,     \* the INCR counter
          claims        \* claims[c]: every <<job, token>> client c was handed

vars == <<now, jobKeys, available, availableAt, claimed, leaseExpiry,
          token, tokenSeq, claims>>

TypeOK ==
    /\ now \in Nat
    /\ jobKeys \subseteq Jobs
    /\ available \subseteq Jobs
    /\ claimed \subseteq Jobs
    /\ availableAt \in [Jobs -> Nat]
    /\ leaseExpiry \in [Jobs -> Nat]
    /\ token \in [Jobs -> Nat]
    /\ tokenSeq \in Nat
    /\ claims \in [Clients -> SUBSET (Jobs \X Nat)]

Init ==
    /\ now = 0
    /\ jobKeys = {} /\ available = {} /\ claimed = {}
    /\ availableAt = [j \in Jobs |-> 0]
    /\ leaseExpiry = [j \in Jobs |-> 0]
    /\ token = [j \in Jobs |-> 0]
    /\ tokenSeq = 0
    /\ claims = [c \in Clients |-> {}]

-----------------------------------------------------------------------------
(* The clock and the clients.                                              *)

Readings == {t \in 0..now : now <= t + MaxLag}

Tick ==
    /\ now < MaxTime
    /\ now' = now + 1
    /\ UNCHANGED <<jobKeys, available, availableAt, claimed, leaseExpiry,
                   token, tokenSeq, claims>>

\* A client closes its connection or its process dies: its claims are
\* forgotten, and stay in Redis until their leases run out.
Close(c) ==
    /\ claims[c] # {}
    /\ claims' = [claims EXCEPT ![c] = {}]
    /\ UNCHANGED <<now, jobKeys, available, availableAt, claimed,
                   leaseExpiry, token, tokenSeq>>

-----------------------------------------------------------------------------
(* The scripts.  Replies 0 (duplicate), -1 and -2 leave Redis unchanged,   *)
(* so only the successful replies are steps.                               *)

\* Mutant: claimed jobs do not count against the capacity.
enqueueScript_CountsAvailable(j, at) ==
    /\ j \notin jobKeys
    /\ Cardinality(available) < Capacity
    /\ jobKeys' = jobKeys \cup {j}
    /\ available' = available \cup {j}
    /\ availableAt' = [availableAt EXCEPT ![j] = at]
    /\ UNCHANGED <<now, claimed, leaseExpiry, token, tokenSeq, claims>>

enqueueScript(j, at) ==
    /\ j \notin jobKeys
    /\ Cardinality(available) + Cardinality(claimed) < Capacity
    /\ jobKeys' = jobKeys \cup {j}
    /\ token' = [token EXCEPT ![j] = 0]
    /\ available' = available \cup {j}
    /\ availableAt' = [availableAt EXCEPT ![j] = at]
    /\ UNCHANGED <<now, claimed, leaseExpiry, tokenSeq, claims>>

\* Mutant: claims are taken back one time unit before the lease ends.
Expired_TooEarly(t) == {j \in claimed : leaseExpiry[j] <= t + 1}

Expired(t) == {j \in claimed : leaseExpiry[j] <= t}

\* ZRANGEBYSCORE -inf t LIMIT 0 ReclaimLimit: the oldest expired claims.
ReclaimBatch(E, t) ==
    /\ E \subseteq Expired(t)
    /\ Cardinality(E) <= ReclaimLimit
    /\ E = Expired(t) \/ Cardinality(E) = ReclaimLimit
    /\ \A j \in E, k \in Expired(t) \ E : leaseExpiry[j] <= leaseExpiry[k]

\* The scores of "available" once the claims of E went back to it.
ReclaimedAt(E, t) == [j \in Jobs |-> IF j \in E THEN t ELSE availableAt[j]]

\* Mutant: the top of the set is popped whether it is due or not.
IsTop_IgnoresDue(j, E, t) ==
    /\ j \in available \cup E
    /\ \A k \in available \cup E : ReclaimedAt(E, t)[j] <= ReclaimedAt(E, t)[k]

\* j is the earliest due member of "available" after that.
IsTop(j, E, t) ==
    LET at == ReclaimedAt(E, t)
    IN  /\ j \in available \cup E
        /\ at[j] <= t
        /\ \A k \in available \cup E : at[j] <= at[k]

\* Mutant: tokens count the claims in flight instead of all claims ever.
FreshToken_FromDepth == Cardinality(claimed) + 1

\* INCR of the shared sequence.
FreshToken == tokenSeq + 1

ClaimedToken(j, E) ==
    [k \in Jobs |-> IF k = j THEN FreshToken
                    ELSE IF k \in E THEN 0 ELSE token[k]]

\* claimScript: reclaim a batch, then hand the earliest due job to a fresh
\* token.  The reply may be lost, and then nobody knows the token.
claimScript(c, t, E, j) ==
    /\ tokenSeq < MaxToken
    /\ ReclaimBatch(E, t)
    /\ IsTop(j, E, t)
    /\ tokenSeq' = tokenSeq + 1
    /\ token' = ClaimedToken(j, E)
    /\ available' = (available \cup E) \ {j}
    /\ availableAt' = ReclaimedAt(E, t)
    /\ claimed' = (claimed \ E) \cup {j}
    /\ leaseExpiry' = [leaseExpiry EXCEPT ![j] = t + Lease]
    /\ \/ claims' = [claims EXCEPT ![c] = @ \cup {<<j, FreshToken>>}]
       \/ UNCHANGED claims
    /\ UNCHANGED <<now, jobKeys>>

\* The guard every fenced script opens with.
Owns(j, t) == j \in jobKeys /\ token[j] # 0 /\ token[j] = t

\* Mutant: the HASH is deleted, the ZSET membership forgotten.
ackScript_KeepsMember(j, t) ==
    /\ Owns(j, t)
    /\ jobKeys' = jobKeys \ {j}
    /\ token' = [token EXCEPT ![j] = 0]
    /\ UNCHANGED <<now, available, availableAt, claimed, leaseExpiry, tokenSeq,
                   claims>>

ackScript(j, t) ==
    /\ Owns(j, t)
    /\ claimed' = claimed \ {j}
    /\ jobKeys' = jobKeys \ {j}
    /\ token' = [token EXCEPT ![j] = 0]   \* the HASH is gone
    /\ UNCHANGED <<now, available, availableAt, leaseExpiry, tokenSeq, claims>>

renewScript(j, t, expiry) ==
    /\ Owns(j, t)
    /\ claimed' = claimed \cup {j}
    /\ leaseExpiry' = [leaseExpiry EXCEPT ![j] = expiry]
    /\ UNCHANGED <<now, jobKeys, available, availableAt, token, tokenSeq,
                   claims>>

releaseScript(j, t, at) ==
    /\ Owns(j, t)
    /\ claimed' = claimed \ {j}
    /\ token' = [token EXCEPT ![j] = 0]
    /\ available' = available \cup {j}
    /\ availableAt' = [availableAt EXCEPT ![j] = at]
    /\ UNCHANGED <<now, jobKeys, leaseExpiry, tokenSeq, claims>>

-----------------------------------------------------------------------------
(* The Go client around the scripts.  A call that blocks (queue full,      *)
(* nothing due) polls until its script succeeds.                           *)

\* A zero AvailableAt defaults to the time of the call.
Enqueue(j, at) ==
    \E t \in Readings : enqueueScript(j, IF at = 0 THEN t ELSE at)

Claim(c) ==
    \E t \in Readings, E \in SUBSET claimed, j \in Jobs : claimScript(c, t, E, j)

Ack(k) == ackScript(k[1], k[2])

Renew(k) == \E t \in Readings : renewScript(k[1], k[2], t + Lease)

Release(k) == \E at \in 0..MaxTime : releaseScript(k[1], k[2], at)

\* A client may present any claim it ever received, stale ones included.
UseClaim(c) == \E k \in claims[c] : Ack(k) \/ Renew(k) \/ Release(k)

Next ==
    \/ Tick
    \/ \E j \in Jobs, at \in 0..MaxTime : Enqueue(j, at)
    \/ \E c \in Clients :
        \/ Close(c)
        \/ Claim(c)
        \/ UseClaim(c)

Spec == Init /\ [][Next]_vars

-----------------------------------------------------------------------------
(* Properties.                                                             *)

\* redis.go:3-6.  A job with a HASH is in exactly one ZSET, a job without
\* one is in none, and exactly the claimed jobs carry a token: no sequence
\* of scripts leaves a job that no Claim can ever reach.
OneMembership ==
    /\ available \cap claimed = {}
    /\ jobKeys = available \cup claimed
    /\ \A j \in Jobs : token[j] # 0 <=> j \in claimed

\* Available and claimed jobs together never exceed Capacity, although
\* Release and the reclaim inside Claim add to "available" unchecked.
WithinCapacity == Cardinality(available \cup claimed) <= Capacity

\* A claim is live while its token is the one in the job's HASH.
Live(k) == Owns(k[1], k[2])

\* Claim returns exclusive ownership: two clients never both hold a live
\* claim on one job, whatever expired, was released or acknowledged before.
ExclusiveClaim ==
    \A c, d \in Clients : \A k \in claims[c], l \in claims[d] :
        (Live(k) /\ Live(l) /\ k[1] = l[1]) => (c = d /\ k = l)

\* A claim that lost its job (lease expiry, Release, Ack) never owns it
\* again, not even after the job was deleted and enqueued anew under the
\* same ID: a slow worker's late Ack cannot hit a successor's claim.
StaleClaimStaysStale ==
    [][\A c \in Clients : \A k \in claims[c] : Live(k)' => Live(k)]_vars

\* A Claim takes a job from its owner only once the lease has run out, and
\* any other step that ends an ownership is its holder's Ack or Release.
LeaseHonoured ==
    [][\A j \in claimed :
          \/ token'[j] = token[j]
          \/ leaseExpiry[j] <= now
          \/ /\ tokenSeq' = tokenSeq
             /\ \E c \in Clients : <<j, token[j]>> \in claims[c]]_vars

\* A claim is its holder's until the lease runs out, and never again after.
ClaimsAreFenced == StaleClaimStaysStale /\ LeaseHonoured

-----------------------------------------------------------------------------
(* The queue contract, as Redis implements it.                             *)

Contract == INSTANCE JobQueue
    WITH active <- jobKeys,
         deferred <- {j \in available : availableAt[j] > now},
         owner <- token,
         issued <- tokenSeq

\* Every script is one step of queue.go's contract or changes nothing of it:
\* no job appears or vanishes, none is handed out before AvailableAt, none
\* is owned by two tokens.
ImplementsContract == Contract!QueueSpec
=============================================================================
