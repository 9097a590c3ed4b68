------------------------------ MODULE Permits -------------------------------
(***************************************************************************)
(* Delivery concurrency permits: the lease sets in Redis (acquireScript is  *)
(* one atomic step) and acquirePermits of the worker pool, which takes a    *)
(* tenant permit and then a destination permit before an attempt.  All      *)
(* jobs belong to one tenant.  A job whose queue lease ran out is claimed    *)
(* again while its first worker still runs; every claim has its own token.   *)
(* An attempt ends before the permit's TTL, as PermitPolicy demands.        *)
(***************************************************************************)
EXTENDS Integers, FiniteSets

CONSTANTS
  Workers, Jobs, Domains,
  Destination,        \* job -> recipient domain
  TenantLimit, DestinationLimit, TTL,
  MaxClaims,          \* bound: claims made
  Horizon             \* bound: time

Tenant == "tenant"
Keys == {Tenant} \cup Domains
Limit(k) == IF k = Tenant THEN TenantLimit ELSE DestinationLimit

(* What NewPermitPolicy demands of its limits and its TTL; every job has a   *)
(* recipient domain.                                                        *)
PermitsAssumption ==
  /\ TenantLimit \in Nat /\ DestinationLimit \in Nat /\ TTL \in Nat \ {0}
  /\ Destination \in [Jobs -> Domains] /\ Tenant \notin Domains

VARIABLES
  now,
  set,      \* key -> holder -> expiry, the sorted sets
  claim,    \* worker -> its claim and place in acquirePermits
  tokens    \* claims made so far

vars == <<now, set, claim, tokens>>

Idle == [pc |-> "idle", job |-> CHOOSE j \in Jobs : TRUE, token |-> 0, until |-> 0]

Init ==
  /\ now = 0 /\ tokens = 0
  /\ set = [k \in Keys |-> <<>>]
  /\ claim = [w \in Workers |-> Idle]

(* Mutant: the lease is held by the job, not by the claim. *)
holder_Job(c) == <<c.job, 0>>

holder(c) == <<c.job, c.token>>

Live(k) == {h \in DOMAIN set[k] : set[k][h] > now}

(* Expired leases are pruned first; the holder itself is refreshed. *)
AcquireGrants(k, h) == h \in Live(k) \/ Cardinality(Live(k)) < Limit(k)
Granted(k, h) ==
  [set EXCEPT ![k] = [x \in Live(k) \cup {h} |-> IF x = h THEN now + TTL ELSE @[x]]]
Pruned(k) == [set EXCEPT ![k] = [x \in Live(k) |-> @[x]]]
Release(s, k, h) == [s EXCEPT ![k] = [x \in DOMAIN @ \ {h} |-> @[x]]]

Goto(w, pc) == claim' = [claim EXCEPT ![w].pc = pc]
Done(w) == claim' = [claim EXCEPT ![w] = Idle]

Claim(w) ==
  /\ claim[w].pc = "idle" /\ tokens < MaxClaims
  /\ tokens' = tokens + 1
  /\ \E j \in Jobs : claim' = [claim EXCEPT ![w] = [pc |-> "tenant", job |-> j, token |-> tokens + 1, until |-> 0]]
  /\ UNCHANGED <<now, set>>

(* The job goes back to the queue with a delay; Redis or the tenant lookup  *)
(* failing defers it as well, and the grant of a call that timed out stays. *)
AcquireTenant(w) ==
  LET h == holder(claim[w])
  IN /\ claim[w].pc = "tenant"
     /\ \/ AcquireGrants(Tenant, h) /\ set' = Granted(Tenant, h)
           /\ claim' = [claim EXCEPT ![w].pc = "dest", ![w].until = now + TTL]
        \/ ~AcquireGrants(Tenant, h) /\ set' = Pruned(Tenant) /\ Done(w)
        \/ set' \in {set} \cup (IF AcquireGrants(Tenant, h) THEN {Granted(Tenant, h)} ELSE {}) /\ Done(w)
     /\ UNCHANGED <<now, tokens>>

AcquireDestination(w) ==
  LET h == holder(claim[w])
      d == Destination[claim[w].job]
  IN /\ claim[w].pc = "dest"
     /\ \/ AcquireGrants(d, h) /\ set' = Granted(d, h) /\ Goto(w, "send")
        \/ ~AcquireGrants(d, h) /\ set' = Release(Pruned(d), Tenant, h) /\ Done(w)
        \/ /\ set' \in {Release(s, Tenant, h) : s \in {set} \cup
                           (IF AcquireGrants(d, h) THEN {Granted(d, h)} ELSE {})}
           /\ Done(w)
     /\ UNCHANGED <<now, tokens>>

(* The attempt ends; either release may fail and leaves the lease to its    *)
(* TTL.                                                                    *)
ReleasePermits(w) ==
  LET h == holder(claim[w])
      d == Destination[claim[w].job]
  IN /\ claim[w].pc = "send" /\ Done(w)
     /\ set' \in {set, Release(set, Tenant, h), Release(set, d, h), Release(Release(set, Tenant, h), d, h)}
     /\ UNCHANGED <<now, tokens>>

Crash(w) == claim[w].pc # "idle" /\ Done(w) /\ UNCHANGED <<now, set, tokens>>

Tick ==
  /\ now < Horizon /\ now' = now + 1
  /\ \A w \in Workers : claim[w].pc \in {"dest", "send"} => claim[w].until > now + 1
  /\ UNCHANGED <<set, claim, tokens>>

Next ==
  \/ Tick
  \/ \E w \in Workers :
       Claim(w) \/ AcquireTenant(w) \/ AcquireDestination(w) \/ ReleasePermits(w) \/ Crash(w)

Spec == Init /\ [][Next]_vars

-----------------------------------------------------------------------------

Sending(k) ==
  {w \in Workers : claim[w].pc = "send" /\ (k = Tenant \/ Destination[claim[w].job] = k)}

(* No more attempts run at once for the tenant or for a destination than    *)
(* its limit, through crashes, lost releases and jobs claimed twice.        *)
AttemptsWithinPermits == \A k \in Keys : Cardinality(Sending(k)) <= Limit(k)
=============================================================================
