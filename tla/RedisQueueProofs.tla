-------------------------- MODULE RedisQueueProofs --------------------------
(***************************************************************************)
(* What holds of RedisQueue for every set of jobs and clients, every       *)
(* capacity, lease, batch limit and clock lag.                             *)
(***************************************************************************)
EXTENDS RedisQueue, FiniteSetTheorems, TLAPS

-----------------------------------------------------------------------------
(* The inductive invariant: types, membership, finiteness of the two sets  *)
(* (so that their sizes can be counted), and the freshness of tokens.      *)

\* Every token in use is below the counter, and belongs to one claim of one
\* client.
TokensFresh ==
    /\ \A j \in Jobs : token[j] <= tokenSeq
    /\ \A c \in Clients : \A k \in claims[c] : k[2] <= tokenSeq
    /\ \A c, d \in Clients : \A k \in claims[c], l \in claims[d] :
          k[2] = l[2] => c = d /\ k = l

QueueInv ==
    /\ TypeOK
    /\ OneMembership
    /\ TokensFresh

\* The scripts and the environment's steps, the Go calls unfolded.
LEMMA StepCases ==
  ASSUME TypeOK, [Next]_vars
  PROVE  \/ Tick
         \/ UNCHANGED vars
         \/ \E j \in Jobs, at \in Nat : enqueueScript(j, at)
         \/ \E c \in Clients : Close(c)
         \/ \E c \in Clients : UseClaim(c)
         \/ \E c \in Clients, t \in Readings, E \in SUBSET claimed, j \in Jobs :
               claimScript(c, t, E, j)
<1>1. ASSUME NEW j \in Jobs, NEW at \in 0..MaxTime, Enqueue(j, at)
      PROVE  \E a \in Nat : enqueueScript(j, a)
  <2>1. PICK t \in Readings : enqueueScript(j, IF at = 0 THEN t ELSE at)
    BY <1>1 DEF Enqueue
  <2>2. (IF at = 0 THEN t ELSE at) \in Nat
    BY QueueAssumption DEF Readings, TypeOK
  <2> QED BY <2>1, <2>2
<1> QED BY <1>1 DEF Next, Claim

\* The types are inductive.
LEMMA TypeStep == ASSUME TypeOK, [Next]_vars PROVE TypeOK'
<1> USE QueueAssumption
<1>1. CASE Tick
  BY <1>1 DEF TypeOK, Tick
<1>2. ASSUME NEW c \in Clients, Close(c) PROVE TypeOK'
  BY <1>2 DEF TypeOK, Close
<1>3. ASSUME NEW j \in Jobs, NEW at \in Nat, enqueueScript(j, at) PROVE TypeOK'
  BY <1>3 DEF TypeOK, enqueueScript
<1>4. ASSUME NEW c \in Clients, UseClaim(c) PROVE TypeOK'
  <2>1. PICK k \in claims[c] :
          \/ ackScript(k[1], k[2])
          \/ \E t \in Readings : renewScript(k[1], k[2], t + Lease)
          \/ \E at \in 0..MaxTime : releaseScript(k[1], k[2], at)
    BY <1>4 DEF UseClaim, Ack, Renew, Release
  <2>2. k[1] \in Jobs /\ k[2] \in Nat
    BY DEF TypeOK
  <2>3. CASE ackScript(k[1], k[2])
    BY <2>2, <2>3 DEF TypeOK, ackScript
  <2>4. ASSUME NEW t \in Readings, renewScript(k[1], k[2], t + Lease) PROVE TypeOK'
    BY <2>2, <2>4 DEF TypeOK, renewScript, Readings
  <2>5. ASSUME NEW at \in 0..MaxTime, releaseScript(k[1], k[2], at) PROVE TypeOK'
    BY <2>2, <2>5 DEF TypeOK, releaseScript
  <2> QED BY <2>1, <2>3, <2>4, <2>5
<1>5. ASSUME NEW c \in Clients, NEW t \in Readings, NEW E \in SUBSET claimed,
             NEW j \in Jobs, claimScript(c, t, E, j)
      PROVE  TypeOK'
  <2>1. t \in Nat
    BY DEF Readings, TypeOK
  <2>2. tokenSeq' \in Nat /\ <<j, FreshToken>> \in Jobs \X Nat
    BY <1>5 DEF claimScript, TypeOK, FreshToken
  <2>3. token' \in [Jobs -> Nat]
    BY <1>5 DEF claimScript, ClaimedToken, FreshToken, TypeOK
  <2>4. availableAt' \in [Jobs -> Nat] /\ leaseExpiry' \in [Jobs -> Nat]
    BY <1>5, <2>1 DEF claimScript, ReclaimedAt, TypeOK
  <2>5. claims' \in [Clients -> SUBSET (Jobs \X Nat)]
    BY <1>5, <2>2 DEF claimScript, TypeOK
  <2> QED BY <1>5, <2>2, <2>3, <2>4, <2>5 DEF claimScript, TypeOK
<1>6. CASE UNCHANGED vars
  BY <1>6 DEF TypeOK, vars
<1> QED BY <1>1, <1>2, <1>3, <1>4, <1>5, <1>6, StepCases

\* No sequence of scripts can type-confuse the stored state: scores, tokens
\* and claims stay what the Go client parses them as.
THEOREM TypeCorrect == Spec => []TypeOK
<1>1. Init => TypeOK
  BY DEF Init, TypeOK
<1> QED BY <1>1, TypeStep, PTL DEF Spec

-----------------------------------------------------------------------------
(* Membership, and the freshness of tokens.                                *)

(* No script leaves a job in two of the three keys.                         *)
LEMMA MembershipStep ==
  ASSUME TypeOK, OneMembership, [Next]_vars PROVE OneMembership'
<1> USE QueueAssumption
<1>1. CASE Tick
  BY <1>1 DEF TypeOK, OneMembership, Tick
<1>2. ASSUME NEW c \in Clients, Close(c) PROVE OneMembership'
  BY <1>2 DEF TypeOK, OneMembership, Close
<1>3. ASSUME NEW j \in Jobs, NEW at \in Nat, enqueueScript(j, at)
      PROVE  OneMembership'
  BY <1>3 DEF TypeOK, OneMembership, enqueueScript
<1>4. ASSUME NEW c \in Clients, UseClaim(c) PROVE OneMembership'
  <2>1. PICK k \in claims[c] :
          \/ ackScript(k[1], k[2])
          \/ \E t \in Readings : renewScript(k[1], k[2], t + Lease)
          \/ \E at \in 0..MaxTime : releaseScript(k[1], k[2], at)
    BY <1>4 DEF UseClaim, Ack, Renew, Release
  <2>2. k[1] \in Jobs /\ k[2] \in Nat
    BY DEF TypeOK
  <2>3. CASE ackScript(k[1], k[2])
    BY <2>2, <2>3 DEF TypeOK, OneMembership, ackScript, Owns
  <2>4. ASSUME NEW t \in Readings, renewScript(k[1], k[2], t + Lease) PROVE OneMembership'
    BY <2>2, <2>4 DEF TypeOK, OneMembership, renewScript, Owns
  <2>5. ASSUME NEW at \in 0..MaxTime, releaseScript(k[1], k[2], at)
        PROVE  OneMembership'
    BY <2>2, <2>5 DEF TypeOK, OneMembership, releaseScript, Owns
  <2> QED BY <2>1, <2>3, <2>4, <2>5
<1>5. ASSUME NEW c \in Clients, NEW t \in Readings, NEW E \in SUBSET claimed,
             NEW j \in Jobs, claimScript(c, t, E, j)
      PROVE  OneMembership'
  <2>1. j \in available \cup E
    BY <1>5 DEF claimScript, IsTop
  <2>2. available' \cap claimed' = {} /\ jobKeys' = available' \cup claimed'
    BY <1>5, <2>1 DEF claimScript, OneMembership
  <2>3. ASSUME NEW k \in Jobs PROVE token'[k] # 0 <=> k \in claimed'
    BY <1>5, <2>1 DEF claimScript, ClaimedToken, FreshToken, OneMembership, TypeOK
  <2> QED BY <2>2, <2>3 DEF OneMembership
<1>6. CASE UNCHANGED vars
  BY <1>6 DEF OneMembership, vars
<1> QED BY <1>1, <1>2, <1>3, <1>4, <1>5, <1>6, StepCases

(* Every stored token is older than the next one: claimScript draws it by INCR. *)
LEMMA FreshStep ==
  ASSUME TypeOK, TokensFresh, [Next]_vars PROVE TokensFresh'
<1> USE QueueAssumption
<1>1. CASE Tick
  BY <1>1 DEF TypeOK, TokensFresh, Tick
<1>2. ASSUME NEW c \in Clients, Close(c) PROVE TokensFresh'
  BY <1>2 DEF TypeOK, TokensFresh, Close
<1>3. ASSUME NEW j \in Jobs, NEW at \in Nat, enqueueScript(j, at)
      PROVE  TokensFresh'
  BY <1>3 DEF TypeOK, TokensFresh, enqueueScript
<1>4. ASSUME NEW c \in Clients, UseClaim(c) PROVE TokensFresh'
  <2>1. PICK k \in claims[c] :
          \/ ackScript(k[1], k[2])
          \/ \E t \in Readings : renewScript(k[1], k[2], t + Lease)
          \/ \E at \in 0..MaxTime : releaseScript(k[1], k[2], at)
    BY <1>4 DEF UseClaim, Ack, Renew, Release
  <2>2. k[1] \in Jobs /\ k[2] \in Nat
    BY DEF TypeOK
  <2>3. claims' = claims /\ tokenSeq' = tokenSeq
    BY <2>1 DEF ackScript, renewScript, releaseScript
  <2>4. \A i \in Jobs : token'[i] = token[i] \/ token'[i] = 0
    BY <2>1, <2>2 DEF ackScript, renewScript, releaseScript, TypeOK
  <2> QED BY <2>3, <2>4 DEF TypeOK, TokensFresh
<1>5. ASSUME NEW c \in Clients, NEW t \in Readings, NEW E \in SUBSET claimed,
             NEW j \in Jobs, claimScript(c, t, E, j)
      PROVE  TokensFresh'
  <2>1. tokenSeq' = tokenSeq + 1
    BY <1>5 DEF claimScript
  <2>2. \A i \in Jobs : token'[i] <= tokenSeq'
    BY <1>5, <2>1 DEF claimScript, ClaimedToken, FreshToken, TypeOK, TokensFresh
  <2>3. \A d \in Clients : \A k \in claims'[d] :
          \/ k \in claims[d] /\ k[2] <= tokenSeq
          \/ d = c /\ k = <<j, tokenSeq + 1>>
    BY <1>5 DEF claimScript, FreshToken, TypeOK, TokensFresh
  <2>4. \A d \in Clients : \A k \in claims[d] : k[2] \in Nat
    BY DEF TypeOK
  <2>5. \A d \in Clients : \A k \in claims'[d] : k[2] <= tokenSeq'
    BY <2>1, <2>3, <2>4 DEF TypeOK
  <2>6. ASSUME NEW d \in Clients, NEW e \in Clients, NEW k \in claims'[d],
               NEW l \in claims'[e], k[2] = l[2]
        PROVE  d = e /\ k = l
    BY <2>3, <2>4, <2>6 DEF TypeOK, TokensFresh
  <2> QED BY <2>2, <2>5, <2>6 DEF TokensFresh
<1>6. CASE UNCHANGED vars
  BY <1>6 DEF TokensFresh, vars
<1> QED BY <1>1, <1>2, <1>3, <1>4, <1>5, <1>6, StepCases

(* The two parts together: the sets are disjoint and the tokens are old.    *)
LEMMA InvInductive == Spec => []QueueInv
<1>1. Init => QueueInv
  BY DEF Init, QueueInv, TypeOK, OneMembership, TokensFresh
<1>2. QueueInv /\ [Next]_vars => QueueInv'
  BY TypeStep, MembershipStep, FreshStep DEF QueueInv
<1> QED BY <1>1, <1>2, PTL DEF Spec

\* redis.go:3-6: at all times a job has a HASH and exactly one membership.
THEOREM JobsAreInOneSet == Spec => []OneMembership
<1>1. QueueInv => OneMembership
  BY DEF QueueInv
<1> QED BY <1>1, InvInductive, PTL

\* Claim returns exclusive ownership, for any number of clients.
THEOREM ClaimsAreExclusive == Spec => []ExclusiveClaim
<1>1. ASSUME QueueInv PROVE ExclusiveClaim
  <2> SUFFICES ASSUME NEW c \in Clients, NEW d \in Clients,
                      NEW k \in claims[c], NEW l \in claims[d],
                      Live(k), Live(l), k[1] = l[1]
               PROVE  c = d /\ k = l
    BY DEF ExclusiveClaim
  <2>1. k[2] = l[2]
    BY DEF Live, Owns
  <2> QED BY <1>1, <2>1 DEF QueueInv, TokensFresh
<1> QED BY <1>1, InvInductive, PTL

-----------------------------------------------------------------------------
(* What a step may do to a claim.                                          *)

\* A token only ever changes to 0 or to one above every token in use.
LEMMA TokenStep ==
  ASSUME QueueInv, [Next]_vars, NEW j \in Jobs
  PROVE  token'[j] \in {token[j], 0, tokenSeq + 1}
<1>1. CASE Tick
  BY <1>1 DEF Tick
<1>2. ASSUME NEW c \in Clients, Close(c) PROVE token' = token
  BY <1>2 DEF Close
<1>3. ASSUME NEW i \in Jobs, NEW at \in Nat, enqueueScript(i, at)
      PROVE  token'[j] \in {token[j], 0}
  BY <1>3 DEF enqueueScript, QueueInv, TypeOK
<1>4. ASSUME NEW c \in Clients, UseClaim(c) PROVE token'[j] \in {token[j], 0}
  <2>1. PICK k \in claims[c] :
          \/ ackScript(k[1], k[2])
          \/ \E t \in Readings : renewScript(k[1], k[2], t + Lease)
          \/ \E at \in 0..MaxTime : releaseScript(k[1], k[2], at)
    BY <1>4 DEF UseClaim, Ack, Renew, Release
  <2> QED BY <2>1 DEF ackScript, renewScript, releaseScript, QueueInv, TypeOK
<1>5. ASSUME NEW c \in Clients, NEW t \in Readings, NEW E \in SUBSET claimed,
             NEW i \in Jobs, claimScript(c, t, E, i)
      PROVE  token'[j] \in {token[j], 0, tokenSeq + 1}
  BY <1>5 DEF claimScript, ClaimedToken, FreshToken
<1>6. CASE UNCHANGED vars
  BY <1>6 DEF vars
<1> QED BY <1>1, <1>2, <1>3, <1>4, <1>5, <1>6, StepCases DEF QueueInv

\* A claim that lost its job never owns it again: the ABA case, a job
\* deleted by Ack and enqueued again under the same ID, included.
THEOREM StaleClaimsStayStale == Spec => StaleClaimStaysStale
<1> DEFINE Fenced == \A c \in Clients : \A k \in claims[c] : Live(k)' => Live(k)
<1>1. ASSUME QueueInv, [Next]_vars PROVE Fenced
  <2> SUFFICES ASSUME NEW c \in Clients, NEW k \in claims[c], Live(k)'
               PROVE  Live(k)
    OBVIOUS
  <2>1. k[1] \in Jobs /\ k[2] \in Nat /\ k[2] <= tokenSeq /\ tokenSeq \in Nat
    BY <1>1 DEF QueueInv, TypeOK, TokensFresh
  <2>2. token'[k[1]] = k[2] /\ k[2] # 0
    BY DEF Live, Owns
  <2>3. token[k[1]] = k[2]
    BY <1>1, <2>1, <2>2, TokenStep
  <2>4. k[1] \in jobKeys
    BY <1>1, <2>1, <2>2, <2>3 DEF QueueInv, OneMembership
  <2> QED BY <2>2, <2>3, <2>4 DEF Live, Owns
<1>2. QueueInv /\ [Next]_vars => [Fenced]_vars
  BY <1>1
<1> QED BY <1>2, InvInductive, PTL DEF Spec, StaleClaimStaysStale

\* Ownership ends by the holder's own call, or by a Claim after the lease.
THEOREM LeasesAreHonoured == Spec => LeaseHonoured
<1> DEFINE Honoured ==
      \A j \in claimed :
          \/ token'[j] = token[j]
          \/ leaseExpiry[j] <= now
          \/ /\ tokenSeq' = tokenSeq
             /\ \E c \in Clients : <<j, token[j]>> \in claims[c]
<1>1. ASSUME QueueInv, [Next]_vars PROVE Honoured
  <2> SUFFICES ASSUME NEW j \in claimed
               PROVE  \/ token'[j] = token[j]
                      \/ leaseExpiry[j] <= now
                      \/ /\ tokenSeq' = tokenSeq
                         /\ \E c \in Clients : <<j, token[j]>> \in claims[c]
    OBVIOUS
  <2>0. j \in Jobs /\ j \in jobKeys /\ j \notin available
    BY <1>1 DEF QueueInv, TypeOK, OneMembership
  <2>1. CASE Tick
    BY <2>1 DEF Tick
  <2>2. ASSUME NEW c \in Clients, Close(c) PROVE token' = token
    BY <2>2 DEF Close
  <2>3. ASSUME NEW i \in Jobs, NEW at \in Nat, enqueueScript(i, at)
        PROVE  token'[j] = token[j]
    BY <1>1, <2>0, <2>3 DEF enqueueScript, QueueInv, TypeOK
  <2>4. ASSUME NEW c \in Clients, UseClaim(c)
        PROVE  \/ token'[j] = token[j]
               \/ /\ tokenSeq' = tokenSeq
                  /\ \E d \in Clients : <<j, token[j]>> \in claims[d]
    <3>1. PICK k \in claims[c] :
            \/ ackScript(k[1], k[2])
            \/ \E t \in Readings : renewScript(k[1], k[2], t + Lease)
            \/ \E at \in 0..MaxTime : releaseScript(k[1], k[2], at)
      BY <2>4 DEF UseClaim, Ack, Renew, Release
    <3>2. k[1] \in Jobs /\ k = <<k[1], k[2]>>
      BY <1>1 DEF QueueInv, TypeOK
    <3>3. tokenSeq' = tokenSeq /\ token[k[1]] = k[2]
      BY <3>1 DEF ackScript, renewScript, releaseScript, Owns
    <3>4. CASE j = k[1]
      BY <3>2, <3>3, <3>4
    <3>5. CASE j # k[1]
      BY <1>1, <2>0, <3>1, <3>2, <3>5 DEF ackScript, renewScript, releaseScript, QueueInv, TypeOK
    <3> QED BY <3>4, <3>5
  <2>5. ASSUME NEW c \in Clients, NEW t \in Readings, NEW E \in SUBSET claimed,
               NEW i \in Jobs, claimScript(c, t, E, i)
        PROVE  token'[j] = token[j] \/ leaseExpiry[j] <= now
    <3>1. t \in Nat /\ t <= now /\ now \in Nat
      BY <1>1 DEF Readings, QueueInv, TypeOK
    <3>2. E \subseteq Expired(t) /\ i \in available \cup E
      BY <2>5 DEF claimScript, ReclaimBatch, IsTop
    <3>3. CASE j \in E
      <4>1. leaseExpiry[j] <= t
        BY <3>2, <3>3 DEF Expired
      <4> QED BY <1>1, <2>0, <3>1, <4>1 DEF QueueInv, TypeOK
    <3>4. CASE j \notin E
      BY <2>0, <2>5, <3>2, <3>4 DEF claimScript, ClaimedToken
    <3> QED BY <3>3, <3>4
  <2>6. CASE UNCHANGED vars
    BY <2>6 DEF vars
  <2> QED BY <1>1, <2>1, <2>2, <2>3, <2>4, <2>5, <2>6, StepCases DEF QueueInv
<1>2. QueueInv /\ [Next]_vars => [Honoured]_vars
  BY <1>1
<1> QED BY <1>2, InvInductive, PTL DEF Spec, LeaseHonoured

\* Both halves of a lease (claimScript, ackScript, renewScript, releaseScript).
THEOREM ClaimsFenced == Spec => ClaimsAreFenced
  BY StaleClaimsStayStale, LeasesAreHonoured, PTL DEF ClaimsAreFenced

-----------------------------------------------------------------------------
(* Capacity: the size of the two sets only grows in Enqueue.               *)

Counted == IsFiniteSet(available \cup claimed) /\ WithinCapacity

(* Two disjoint finite sets hold as many jobs as their sizes add up to.     *)
LEMMA DisjointSize ==
  ASSUME NEW A, NEW B, IsFiniteSet(A), IsFiniteSet(B), A \cap B = {}
  PROVE  Cardinality(A \cup B) = Cardinality(A) + Cardinality(B)
<1>1. Cardinality(A \cap B) = 0
  BY FS_EmptySet
<1>2. Cardinality(A) \in Nat /\ Cardinality(B) \in Nat
  BY FS_CardinalityType
<1> QED
  <2>1. Cardinality(A \cup B) = Cardinality(A) + Cardinality(B) - Cardinality(A \cap B)
    BY FS_Union
  <2> QED BY <1>1, <1>2, <2>1

(* enqueueScript counts both sets before it adds, so they stay within capacity. *)
LEMMA CountedStep ==
  ASSUME QueueInv, Counted, [Next]_vars PROVE Counted'
<1> USE QueueAssumption
<1> DEFINE All == available \cup claimed
<1>1. IsFiniteSet(All) /\ Cardinality(All) <= Capacity
  BY DEF Counted, WithinCapacity
<1>2. ASSUME All' \subseteq All PROVE Counted'
  BY <1>1, <1>2, FS_Subset, FS_CardinalityType DEF Counted, WithinCapacity
<1>3. ASSUME NEW j \in Jobs, NEW at \in Nat, enqueueScript(j, at)
      PROVE  Counted'
  <2>1. available \cap claimed = {} /\ IsFiniteSet(available)
        /\ IsFiniteSet(claimed) /\ j \notin All
    BY <1>1, <1>3, FS_Subset DEF QueueInv, OneMembership, enqueueScript
  <2>2. Cardinality(All) = Cardinality(available) + Cardinality(claimed)
    BY <2>1, DisjointSize
  <2>3. Cardinality(All) < Capacity
    BY <1>3, <2>2 DEF enqueueScript
  <2>4. All' = All \cup {j}
    BY <1>3 DEF enqueueScript
  <2>5. IsFiniteSet(All') /\ Cardinality(All') = Cardinality(All) + 1
    BY <1>1, <2>1, <2>4, FS_AddElement
  <2> QED BY <1>1, <2>3, <2>5, FS_CardinalityType DEF Counted, WithinCapacity
<1>4. ASSUME NEW c \in Clients, UseClaim(c) PROVE All' \subseteq All
  <2>1. PICK k \in claims[c] :
          \/ ackScript(k[1], k[2])
          \/ \E t \in Readings : renewScript(k[1], k[2], t + Lease)
          \/ \E at \in 0..MaxTime : releaseScript(k[1], k[2], at)
    BY <1>4 DEF UseClaim, Ack, Renew, Release
  <2>2. k[1] \in All
    BY <2>1 DEF ackScript, renewScript, releaseScript, Owns, QueueInv, OneMembership
  <2> QED BY <2>1, <2>2 DEF ackScript, renewScript, releaseScript
<1>5. ASSUME NEW c \in Clients, NEW t \in Readings, NEW E \in SUBSET claimed,
             NEW j \in Jobs, claimScript(c, t, E, j)
      PROVE  All' \subseteq All
  BY <1>5 DEF claimScript, IsTop
<1>6. CASE Tick
  BY <1>2, <1>6 DEF Tick
<1>7. ASSUME NEW c \in Clients, Close(c) PROVE Counted'
  BY <1>2, <1>7 DEF Close
<1>8. CASE UNCHANGED vars
  BY <1>2, <1>8 DEF vars
<1> QED BY <1>2, <1>3, <1>4, <1>5, <1>6, <1>7, <1>8, StepCases DEF QueueInv

\* Active jobs never exceed RedisConfig.Capacity, although Release and the
\* reclaim inside Claim add to "available" without checking it.
THEOREM CapacityIsKept == Spec => []WithinCapacity
<1>1. Init => Counted
  <2>1. ASSUME Init PROVE available \cup claimed = {}
    BY <2>1 DEF Init
  <2> QED BY <2>1, FS_EmptySet, QueueAssumption DEF Counted, WithinCapacity
<1>2. QueueInv /\ Counted /\ [Next]_vars => Counted'
  BY CountedStep
<1>3. Counted => WithinCapacity
  BY DEF Counted
<1> QED BY <1>1, <1>2, <1>3, InvInductive, PTL DEF Spec

-----------------------------------------------------------------------------
(* Redis implements the contract of queue.go.                              *)

\* The jobs the contract sees as deferred.
Later == {j \in available : availableAt[j] > now}

(* Each script is one step of the contract, or none, under the mapping.     *)
LEMMA ContractStep ==
  ASSUME QueueInv, Counted, [Next]_vars
  PROVE  Contract!QueueNext \/ UNCHANGED Contract!queueVars
<1> USE QueueAssumption
<1>1. CASE Tick
  <2>1. Later' \subseteq Later
    BY <1>1 DEF Tick, Later, QueueInv, TypeOK
  <2>2. CASE Later' = Later
    BY <1>1, <2>2 DEF Tick, Later, Contract!queueVars
  <2>3. CASE Later' # Later
    <3> DEFINE S == Later \ Later'
    <3>1. S # {} /\ S \subseteq Later /\ Later' = Later \ S
      BY <2>1, <2>3
    <3>2. UNCHANGED <<jobKeys, token, tokenSeq>>
      BY <1>1 DEF Tick
    <3> HIDE DEF S
    <3> QED BY <3>1, <3>2 DEF Later, Contract!QueueNext, Contract!ComeDue
  <2> QED BY <2>2, <2>3
<1>2. ASSUME NEW c \in Clients, Close(c) PROVE UNCHANGED Contract!queueVars
  BY <1>2 DEF Close, Contract!queueVars
<1>3. ASSUME NEW j \in Jobs, NEW at \in Nat, enqueueScript(j, at)
      PROVE  Contract!QueueNext
  <2>1. j \notin available /\ j \notin claimed /\ token[j] = 0
    BY <1>3 DEF enqueueScript, QueueInv, OneMembership
  <2>2. token' = token
    BY <1>3, <2>1 DEF enqueueScript, QueueInv, TypeOK
  <2>3. Cardinality(jobKeys) < Capacity
    <3>1. IsFiniteSet(available) /\ IsFiniteSet(claimed)
      BY FS_Subset DEF Counted
    <3>2. Cardinality(available \cup claimed)
            = Cardinality(available) + Cardinality(claimed)
      BY <3>1, DisjointSize DEF QueueInv, OneMembership
    <3>3. jobKeys = available \cup claimed
      BY DEF QueueInv, OneMembership
    <3> QED BY <1>3, <3>2, <3>3 DEF enqueueScript
  <2>4. Later' = IF at > now THEN Later \cup {j} ELSE Later
    BY <1>3, <2>1 DEF enqueueScript, Later, QueueInv, TypeOK
  <2>5. jobKeys' = jobKeys \cup {j} /\ tokenSeq' = tokenSeq /\ j \notin jobKeys
    BY <1>3 DEF enqueueScript
  <2>6. CASE at > now
    <3>1. Contract!EnqueueJob(j, TRUE)
      BY <2>2, <2>3, <2>4, <2>5, <2>6
         DEF Later, Contract!EnqueueJob, Contract!Deferral,
             Contract!Cardinality, Cardinality
    <3> QED BY <3>1 DEF Contract!QueueNext
  <2>7. CASE ~(at > now)
    <3>1. Contract!EnqueueJob(j, FALSE)
      BY <2>2, <2>3, <2>4, <2>5, <2>7
         DEF Later, Contract!EnqueueJob, Contract!Deferral,
             Contract!Cardinality, Cardinality
    <3> QED BY <3>1 DEF Contract!QueueNext
  <2> QED BY <2>6, <2>7
<1>4. ASSUME NEW c \in Clients, UseClaim(c)
      PROVE  Contract!QueueNext \/ UNCHANGED Contract!queueVars
  <2>1. PICK k \in claims[c] :
          \/ ackScript(k[1], k[2])
          \/ \E t \in Readings : renewScript(k[1], k[2], t + Lease)
          \/ \E at \in 0..MaxTime : releaseScript(k[1], k[2], at)
    BY <1>4 DEF UseClaim, Ack, Renew, Release
  <2>2. k[1] \in Jobs /\ Owns(k[1], k[2])
    BY <2>1 DEF QueueInv, TypeOK, ackScript, renewScript, releaseScript
  <2>3. k[1] \in Contract!Owned /\ token[k[1]] = k[2] /\ k[1] \notin available
    BY <2>2 DEF Owns, Contract!Owned, QueueInv, OneMembership
  <2>4. CASE ackScript(k[1], k[2])
    <3>1. Contract!AckJob(k[1], token[k[1]])
      BY <2>3, <2>4 DEF ackScript, Contract!AckJob
    <3> QED BY <2>2, <3>1 DEF Contract!QueueNext
  <2>5. ASSUME NEW t \in Readings, renewScript(k[1], k[2], t + Lease)
        PROVE  UNCHANGED Contract!queueVars
    BY <2>5 DEF renewScript, Contract!queueVars
  <2>6. ASSUME NEW at \in 0..MaxTime, releaseScript(k[1], k[2], at)
        PROVE  Contract!QueueNext
    <3>1. Later' = IF at > now THEN Later \cup {k[1]} ELSE Later
      BY <2>2, <2>3, <2>6 DEF releaseScript, Later, QueueInv, TypeOK
    <3>2. CASE at > now
      <4>1. Contract!ReleaseJob(k[1], token[k[1]], TRUE)
        BY <2>3, <2>6, <3>1, <3>2
           DEF releaseScript, Later, Contract!ReleaseJob, Contract!Deferral
      <4> QED BY <2>2, <4>1 DEF Contract!QueueNext
    <3>3. CASE ~(at > now)
      <4>1. Contract!ReleaseJob(k[1], token[k[1]], FALSE)
        BY <2>3, <2>6, <3>1, <3>3
           DEF releaseScript, Later, Contract!ReleaseJob, Contract!Deferral
      <4> QED BY <2>2, <4>1 DEF Contract!QueueNext
    <3> QED BY <3>2, <3>3
  <2> QED BY <2>1, <2>4, <2>5, <2>6
<1>5. ASSUME NEW c \in Clients, NEW t \in Readings, NEW E \in SUBSET claimed,
             NEW j \in Jobs, claimScript(c, t, E, j)
      PROVE  Contract!QueueNext
  <2>1. t \in Nat /\ t <= now /\ now \in Nat
    BY DEF Readings, QueueInv, TypeOK
  <2>2. j \in available \cup E /\ ReclaimedAt(E, t)[j] <= t
    BY <1>5 DEF claimScript, IsTop
  <2>3. E \in SUBSET Contract!Owned
    BY DEF Contract!Owned, QueueInv, OneMembership, TypeOK
  <2>4. j \notin Later
    BY <2>1, <2>2 DEF Later, ReclaimedAt, QueueInv, TypeOK, OneMembership
  <2>5. Later' = Later
    BY <1>5, <2>1, <2>2, <2>4
       DEF claimScript, Later, ReclaimedAt, QueueInv, TypeOK, OneMembership
  <2>6. j \in jobKeys /\ (j \in E \/ token[j] = 0)
    BY <2>2 DEF QueueInv, TypeOK, OneMembership
  <2>7. Contract!ClaimJob(E, j)
    BY <1>5, <2>3, <2>4, <2>5, <2>6
       DEF claimScript, ClaimedToken, FreshToken, Later, Contract!ClaimJob
  <2> QED BY <2>3, <2>7 DEF Contract!QueueNext
<1>6. CASE UNCHANGED vars
  BY <1>6 DEF vars, Contract!queueVars
<1> QED BY <1>1, <1>2, <1>3, <1>4, <1>5, <1>6, StepCases DEF QueueInv

\* Every behaviour of the Lua scripts is a behaviour of queue.go's contract.
THEOREM RedisImplementsQueue == Spec => ImplementsContract
<1>1. Init => Contract!QueueInit
  BY DEF Init, Contract!QueueInit
<1>2. Init => Counted
  <2>1. ASSUME Init PROVE available \cup claimed = {}
    BY <2>1 DEF Init
  <2> QED BY <2>1, FS_EmptySet, QueueAssumption DEF Counted, WithinCapacity
<1>3. QueueInv /\ Counted /\ [Next]_vars => Counted'
  BY CountedStep
<1>4. QueueInv /\ Counted /\ [Next]_vars
        => [Contract!QueueNext]_Contract!queueVars
  BY ContractStep
<1> QED BY <1>1, <1>2, <1>3, <1>4, InvInductive, PTL
        DEF Spec, ImplementsContract, Contract!QueueSpec
=============================================================================
